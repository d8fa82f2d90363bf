-------------------------- MODULE RuntimeLifecycle --------------------------
(***************************************************************************)
(* What the runtime promises of its producers, without handles, locks,     *)
(* joins or retries: it serves once and stops once; its feeds are one      *)
(* thread at a time, begun and changed only while it serves; it counts as  *)
(* closed when its acquisition worker is gone and no feed is left untold,  *)
(* and only then lets go of what they write to.                            *)
(***************************************************************************)
EXTENDS FeedThread

VARIABLES
    phase,      \* new, serving, stopping, closed or released
    acquiring   \* the acquisition worker is there

lifecycleVars == <<threadVars, phase, acquiring>>

LifecycleInit == ThreadInit /\ phase = "new" /\ acquiring = FALSE

MoveOn(from, to) == phase \in from /\ phase' = to

Serve == MoveOn({"new"}, "serving") /\ acquiring' = TRUE /\ UNCHANGED threadVars

Subscribe ==
    /\ phase = "serving" /\ acquiring
    /\ Begin \/ Change
    /\ UNCHANGED <<phase, acquiring>>

Unsubscribe ==
    /\ phase \in {"serving", "stopping"}
    /\ LetGo
    /\ UNCHANGED <<phase, acquiring>>

ThreadEnds == End /\ UNCHANGED <<phase, acquiring>>

Stop == MoveOn({"new", "serving"}, "stopping") /\ UNCHANGED <<threadVars, acquiring>>

Quit ==
    /\ phase = "stopping" /\ acquiring
    /\ acquiring' = FALSE
    /\ UNCHANGED <<threadVars, phase>>

Close ==
    /\ MoveOn({"stopping"}, "closed")
    /\ ~acquiring /\ thread # "running"
    /\ UNCHANGED <<threadVars, acquiring>>

Release == MoveOn({"closed"}, "released") /\ UNCHANGED <<threadVars, acquiring>>

LifecycleNext ==
    \/ Serve \/ Subscribe \/ Unsubscribe \/ ThreadEnds
    \/ Stop \/ Quit \/ Close \/ Release

LifecycleSpec == LifecycleInit /\ [][LifecycleNext]_lifecycleVars
=============================================================================
