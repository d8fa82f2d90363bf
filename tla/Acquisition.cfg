\* Four symbols, so that the cursor can be left beyond the end of what it runs over and the
\* rotation has turns to skip; two HTTP threads; a poll of one tick, backoffs of 1, 2 and 4 ticks.
SPECIFICATION RotationFairSpec
CONSTANTS
    nifty = nifty
    banknifty = banknifty
    sensex = sensex
    crude = crude
    Symbols <- FourSymbols
    NoFocus = NoFocus
    Clients = {c1, c2}
    PollInterval = 1
    InitialBackoff = 1
    MaximumBackoff = 4
INVARIANTS ServedInTurn NoFocusSleepsOn CooldownHonoured
PROPERTIES EveryMarketServed
CHECK_DEADLOCK FALSE
