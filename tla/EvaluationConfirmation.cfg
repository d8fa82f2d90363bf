\* The limits are those of StrategyConfig and of the two other modules that keep them.
SPECIFICATION Spec
CONSTANTS
    None = None
    NaN = NaN
    Naive = Naive
    Malformed = Malformed
    MaxAge = 30
    MaxInterval = 30
    ComponentSkew = 5
    FutureSkew = 2
    MasterMaxAge = 129600
    MaxRisk = 2
    Inputs <- MCInputs
    Pricings <- MCPricings
    Cost = 1
INVARIANT ManualConfirmationGates
CHECK_DEADLOCK FALSE
