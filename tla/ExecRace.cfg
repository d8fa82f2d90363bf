\* Two threads, each of which submits and approves, race for one security: parked
\* signals, paper orders half filled, a gateway that answers, times out or fails, the
\* kill switch, and a crash that may come back in another mode.
SPECIFICATION Spec
CONSTANTS
    p1 = p1
    p2 = p2
    p3 = p3
    s1 = s1
    s2 = s2
    NoPlan = NoPlan
    Plans = {p1, p2}
    Securities = {s1}
    SecurityOf <- CompetingPlans
    Quantity <- TwoLots
    DayLength = 2
    Submitters = {t1, t2}
    Approvers = {t1, t2}
    Modes = {"MANUAL_APPROVAL", "PAPER_TRADING", "LIVE_AUTOMATIC"}
    LiveReady = TRUE
    Admissible = {p1, p2}
    ValidFrom <- FromStart
    ValidUntil <- NeverExpiring
    MaxDailyLoss = 2
    MaxConsecutiveLosses = 3
    FillNum = 1
    FillDen = 2
    AckStates = {"ACKNOWLEDGED"}
    Moves <- LossOnly
    Registries <- AllVerified
    MaxClock = 0
    MaxRestarts = 1
SYMMETRY Interchangeable
INVARIANTS
    TablesAgree HaltStopsCalls
    AtMostOneMutation IntentPrecedesMutation
PROPERTIES ParkedNeedsApproval ImplementsExposure
