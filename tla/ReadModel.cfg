\* Two selections that share an option, two clients, room for one tick; two closings or
\* restarts.
SPECIFICATION StoreSpec
CONSTANTS
    Keys = {near, far}
    Securities = {s1, s2}
    Contracts = {{s1}, {s1, s2}}
    Clients = {1, 2}
    MaxTickInstruments = 1
    MaxOrder = 2
    MaxTime = 2
    MaxRevision = 3
    MaxMishaps = 2
INVARIANTS StoreTypeOK NoWaiterSleepsOn AnswersAreConsistent
