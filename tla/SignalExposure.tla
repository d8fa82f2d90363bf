--------------------------- MODULE SignalExposure ---------------------------
(***************************************************************************)
(* What execution control promises, without calls, limits or a broker:     *)
(* every signal is taken up at most once and comes to at most one outcome, *)
(* and at any time at most one signal holds a position in a security.      *)
(***************************************************************************)
CONSTANTS Plans, Securities, SecurityOf

VARIABLES
    phase,      \* per plan: unseen, intended, parked, refused or executed
    exposed     \* the plans that hold an open position

absVars == <<phase, exposed>>

Phases == {"unseen", "intended", "parked", "refused", "executed"}

AbsTypeOK == phase \in [Plans -> Phases] /\ exposed \subseteq Plans

AbsInit == phase = [p \in Plans |-> "unseen"] /\ exposed = {}

MoveTo(p, from, to) == phase[p] \in from /\ phase' = [phase EXCEPT ![p] = to]

Intend(p) == MoveTo(p, {"unseen"}, "intended") /\ UNCHANGED exposed
Park(p)   == MoveTo(p, {"intended"}, "parked") /\ UNCHANGED exposed
Refuse(p) == MoveTo(p, {"intended"}, "refused") /\ UNCHANGED exposed

Holder(s) == {p \in exposed : SecurityOf[p] = s}

\* The order is on record; with a fill it opens a position, if the security is free.
Execute(p) ==
    /\ MoveTo(p, {"intended", "parked"}, "executed")
    /\ \/ UNCHANGED exposed
       \/ Holder(SecurityOf[p]) = {} /\ exposed' = exposed \cup {p}

Close(p) == p \in exposed /\ exposed' = exposed \ {p} /\ UNCHANGED phase

AbsNext == \E p \in Plans : Intend(p) \/ Park(p) \/ Refuse(p) \/ Execute(p) \/ Close(p)

AbsSpec == AbsInit /\ [][AbsNext]_absVars

=============================================================================
