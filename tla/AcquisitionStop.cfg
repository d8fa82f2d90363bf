\* A stop that falls between the worker's check of the stop event and its clearing of
\* the wake event.
SPECIFICATION RotationSpec
CONSTANTS
    nifty = nifty
    banknifty = banknifty
    sensex = sensex
    crude = crude
    Symbols <- FourSymbols
    NoFocus = NoFocus
    Clients = {c1}
    PollInterval = 1
    InitialBackoff = 1
    MaximumBackoff = 4
INVARIANT StopWakes
CHECK_DEADLOCK FALSE
