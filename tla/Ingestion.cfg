\* A run with credentials and one without, two masters, two snapshots, two mishaps.
SPECIFICATION Spec
CONSTANTS
    None = None
    Processes = {p1, p2}
    Configured = {p1}
    Batches = {b1, b2}
    Windows = {w1}
    MaxInterval = 1
    OpenInterestAt <- Growing
    MaxTime = 2
    MaxSnapshots = 2
    MaxMishaps = 2
SYMMETRY Symmetry
INVARIANTS StreamsInOrder AuditIsWhole RefusedOnlyForClock ShownIsNewest
PROPERTIES ImplementsLog
