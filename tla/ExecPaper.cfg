\* Paper trading as deployed: one acquisition worker submits, the operator has
\* the kill switch, positions are closed at a loss or at a profit.
SPECIFICATION FairSpec
CONSTANTS
    p1 = p1
    p2 = p2
    p3 = p3
    s1 = s1
    s2 = s2
    NoPlan = NoPlan
    Plans = {p1, p2, p3}
    Securities = {s1, s2}
    SecurityOf <- CompetingPlans
    Quantity <- OneLot
    DayLength = 2
    Submitters = {w}
    Approvers = {}
    Modes = {"PAPER_TRADING", "DATA_ONLY"}
    LiveReady = FALSE
    Admissible = {p1, p2, p3}
    ValidFrom <- FromStart
    ValidUntil <- ExpiringInTurn
    MaxDailyLoss = 1
    MaxConsecutiveLosses = 2
    FillNum = 1
    FillDen = 1
    AckStates = {}
    Moves <- LossOrGain
    Registries <- AllVerified
    MaxClock = 2
    MaxRestarts = 0
INVARIANTS GateHoldsToRecord
PROPERTIES StreakLockIsPermanent DailyLockLastsTheDay ReceivedIsSettled
