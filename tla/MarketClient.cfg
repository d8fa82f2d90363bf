\* Two expiries of a symbol, two loops (one change of the selection or refresh), and one mishap:
\* a restart, a closing, a failed request or an expiry.
SPECIFICATION FairSpec
CONSTANTS
    near = near
    far = far
    s1 = s1
    Keys <- TwoExpiries
    SymbolOf <- OneSymbol
    NoKey = NoKey
    Expiring = {near}
    Securities = {s1}
    Contracts <- OneContract
    Clients = {1, 2}
    MaxTickInstruments = 1
    MaxOrder = 2
    MaxTime = 1
    MaxRevision = 2
    MaxMishaps = 1
INVARIANTS NothingMissed DisplayedIsSelected
PROPERTIES DisplayCatchesUp
