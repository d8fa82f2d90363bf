----------------------------- MODULE MCExecution -----------------------------
(***************************************************************************)
(* Small instances of execution control.                                   *)
(***************************************************************************)
EXTENDS ExecutionProperties

LOCAL INSTANCE TLC

CONSTANTS p1, p2, p3, s1, s2

\* p1 and p2 compete for security s1; p3, where there is one, is on s2.
CompetingPlans == [p \in Plans |-> IF p = p3 THEN s2 ELSE s1]

OneLot  == [p \in Plans |-> 1]
TwoLots == [p \in Plans |-> 2]

FromStart     == [p \in Plans |-> 0]
\* p1 expires at 1, the others at 2.
ExpiringInTurn == [p \in Plans |-> IF p = p1 THEN 1 ELSE 2]
\* No plan expires before the clock's bound.
NeverExpiring == [p \in Plans |-> MaxClock + 1]

LossOnly   == {-1}
LossOrGain == {-1, 1}

\* A master refresh verifies every security, or none yet.
AllVerified == {Securities}

\* The plans differ in nothing but their names where they share a security, nor do the
\* callers where each may submit and approve.
Interchangeable == Permutations(Plans) \cup Permutations(Callers)

=============================================================================
