------------------------ MODULE AcquisitionRotation -------------------------
(***************************************************************************)
(* How long a market waits for its turn.  The worker's schedule with a     *)
(* count it does not keep: of each symbol, the provider cycles begun       *)
(* without it since it was last in one, or since the focus changed.        *)
(***************************************************************************)
EXTENDS AcquisitionWorker

VARIABLE waited

rotationVars == <<vars, waited>>

CycleBegins == worker = "select" /\ worker' = "cycle"

NobodyWaited == [s \in Universe |-> 0]

\* The count stops where it is too long already: past the number of all symbols.
OneMore(n) == Smaller(Len(Symbols) + 1, n + 1)

Waited ==
    IF focused' # focused THEN NobodyWaited
    ELSE IF CycleBegins
    THEN [s \in Universe |-> IF s \in batch' THEN 0 ELSE OneMore(waited[s])]
    ELSE waited

RotationInit == Init /\ waited = NobodyWaited

RotationNext == Next /\ waited' = Waited

RotationSpec == RotationInit /\ [][RotationNext]_rotationVars

RotationFairSpec == RotationSpec /\ Fairness

\* Every provider cycle reads the focused market, and no other market waits for more cycles
\* than the background has markets, wherever earlier focuses left the cursor ("one rotating
\* background market", _worker_cycle_symbols).
ServedInTurn ==
    /\ focused # NoFocus => waited[focused] = 0
    /\ \A s \in Universe : waited[s] <= Len(Background)
=============================================================================
