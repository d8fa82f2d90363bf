\* Two instruments, a set that loses one of them, one failure.  Three sockets: the
\* worker's, and one in the hands of each caller.
SPECIFICATION FairSpec
CONSTANTS
    i1 = i1
    i2 = i2
    Instruments = {i1, i2}
    Sets <- MCSets
    Sockets = {k1, k2, k3}
    NoSocket = NoSocket
    NoKey = NoKey
    MaxFailures = 1
INVARIANTS ReadyIsWanted NoSocketLeft
PROPERTIES ImplementsFeedThread RotationIsNoFailure ReplacementSubscribed StopEndsWorker
