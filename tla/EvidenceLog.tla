---------------------------- MODULE EvidenceLog -----------------------------
(***************************************************************************)
(* What the program promises of the snapshots it trades on, without files, *)
(* transactions, runs or crashes: they are kept once and for good, each    *)
(* accepted one continues its stream, and nothing is done about a snapshot *)
(* before it is kept, judged and, to be acted on, accepted.                *)
(***************************************************************************)
EXTENDS Integers

CONSTANT MaxInterval  \* the longest interval of a change of open interest

VARIABLES
    saved,     \* the snapshots kept
    accepted,  \* those of them that passed validation
    judged,    \* the ids of those with a signal in the history
    acted      \* the ids of those whose plan was carried out

logVars == <<saved, accepted, judged, acted>>

LogInit == saved = {} /\ accepted = {} /\ judged = {} /\ acted = {}

Stream(s) == {e \in accepted : e.stream = s.stream}

\* A change of open interest is the difference to the snapshot just before.
ChangeOf(s, e) ==
    /\ e.id = s.ref /\ e.seq = s.seq - 1
    /\ s.change = s.oi - e.oi
    /\ s.gap = s.ts - e.ts /\ s.gap \in 1 .. MaxInterval

\* The snapshot is the next of its stream, in number and in time.
Continues(s) ==
    /\ \A e \in Stream(s) : e.seq < s.seq /\ e.ts < s.ts
    /\ s.seq = 1 \/ \E e \in Stream(s) : s.seq = e.seq + 1
    /\ s.ref # 0 => \E e \in Stream(s) : ChangeOf(s, e)

Keep ==
    \E s \in saved' \ saved :
        /\ saved' = saved \cup {s}
        /\ \A e \in saved : e.id # s.id
        /\ \/ UNCHANGED accepted
           \/ Continues(s) /\ accepted' = accepted \cup {s}
        /\ UNCHANGED <<judged, acted>>

Judge ==
    \E s \in saved :
        /\ judged' = judged \cup {s.id}
        /\ UNCHANGED <<saved, accepted, acted>>

Act ==
    \E s \in accepted :
        /\ s.id \in judged
        /\ acted' = acted \cup {s.id}
        /\ UNCHANGED <<saved, accepted, judged>>

LogNext == Keep \/ Judge \/ Act

LogSpec == LogInit /\ [][LogNext]_logVars
=============================================================================
