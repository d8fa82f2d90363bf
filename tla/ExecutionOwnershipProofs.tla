----------------------- MODULE ExecutionOwnershipProofs -----------------------
(***************************************************************************)
(* Who may write a plan's rows: the inductive invariant RowsOwned, and what *)
(* follows from it for the broker, for parked signals and for the           *)
(* refinement of SignalExposure.                                            *)
(***************************************************************************)
EXTENDS ExecutionProofs

-----------------------------------------------------------------------------
(* Steps that write no row *)

\* A call that returns gives up what it owned.
LEMMA ReturnRows ==
    ASSUME ControllerTypeOK, RowsOwned, NEW t \in Callers, Return(t),
           UNCHANGED <<ledgerVars, broker>>
    PROVE  RowsOwned'
<1>1. /\ pc'[t] = "idle"
      /\ \A u \in Callers \ {t} : pc'[u] = pc[u] /\ call'[u] = call[u] /\ ack'[u] = ack[u]
  BY DEF Return, ControllerTypeOK, CallTypeOK
<1>2. PathsApart' /\ OneOwner' /\ OwnedRows'
  BY <1>1 DEF RowsOwned, PathsApart, OneOwner, OwnedRows, AfterSubmit, AfterApprove, Owning,
              ledgerVars
<1>3. ParkedRows' /\ OrderRows'
  BY <1>1 DEF RowsOwned, ParkedRows, OrderRows, ledgerVars
<1>4. AtMostOneMutation' /\ IntentPrecedesMutation'
  BY DEF RowsOwned, AtMostOneMutation, IntentPrecedesMutation, ledgerVars
<1>5. QED
  BY <1>2, <1>3, <1>4 DEF RowsOwned

\* A call that goes on to a label at which nothing is owned or approved.
LEMMA GotoRows ==
    ASSUME ControllerTypeOK, RowsOwned, NEW t \in Callers, NEW label \in Labels, Goto(t, label),
           label \notin Owning, label # "paper",
           label \in AfterSubmit => call[t].op = "submit",
           label \in AfterApprove => call[t].op = "approve",
           call[t].op = "approve" =>
               signals[call[t].plan] \in {"AWAITING_APPROVAL"} \cup Executed,
           UNCHANGED <<ledgerVars, broker>>
    PROVE  RowsOwned'
<1>1. /\ pc'[t] = label
      /\ \A u \in Callers \ {t} : pc'[u] = pc[u]
      /\ UNCHANGED <<call, ack>>
  BY DEF Goto, ControllerTypeOK, CallTypeOK
<1>2. PathsApart' /\ OneOwner'
  BY <1>1 DEF RowsOwned, PathsApart, OneOwner
<1>3. OwnedRows'
  BY <1>1 DEF RowsOwned, OwnedRows, Owning, ledgerVars
<1>4. ParkedRows' /\ OrderRows'
  BY <1>1 DEF RowsOwned, ParkedRows, OrderRows, ledgerVars
<1>5. AtMostOneMutation' /\ IntentPrecedesMutation'
  BY DEF RowsOwned, AtMostOneMutation, IntentPrecedesMutation, ledgerVars
<1>6. QED
  BY <1>2, <1>3, <1>4, <1>5 DEF RowsOwned

LEMMA BeginRows ==
    ASSUME ControllerTypeOK, RowsOwned, NEW t \in Callers, NEW p \in Plans,
           BeginSubmit(t, p) \/ BeginApprove(t, p)
    PROVE  RowsOwned'
<1>1. PICK op \in {"submit", "approve"}, label \in {"kill_switch", "awaiting_check"} :
        Begin(t, op, p, label) /\ (label = "awaiting_check" <=> op = "approve")
  BY DEF BeginSubmit, BeginApprove
<1>2. /\ pc'[t] = label /\ call'[t].op = op
      /\ \A u \in Callers \ {t} : pc'[u] = pc[u] /\ call'[u] = call[u]
      /\ UNCHANGED <<ack, ledgerVars, broker>>
  BY <1>1 DEF Begin, ControllerTypeOK, CallTypeOK
<1>3. PathsApart' /\ OneOwner' /\ OwnedRows'
  BY <1>1, <1>2 DEF RowsOwned, PathsApart, OneOwner, OwnedRows, AfterSubmit, AfterApprove,
                    Owning, ledgerVars
<1>4. ParkedRows' /\ OrderRows'
  BY <1>1, <1>2 DEF RowsOwned, ParkedRows, OrderRows, ledgerVars
<1>5. AtMostOneMutation' /\ IntentPrecedesMutation'
  BY <1>2 DEF RowsOwned, AtMostOneMutation, IntentPrecedesMutation, ledgerVars
<1>6. QED
  BY <1>3, <1>4, <1>5 DEF RowsOwned

LEMMA LimitRows ==
    ASSUME ControllerTypeOK, RowsOwned, NEW t \in Callers, LimitStep(t)
    PROVE  RowsOwned'
<1>1. CASE CheckAwaiting(t)
  BY <1>1, ReturnRows, GotoRows
     DEF CheckAwaiting, Labels, Owning, AfterSubmit, AfterApprove, RowsOwned, PathsApart
<1>2. CASE CheckKillSwitch(t) \/ CheckDailyLoss(t) \/ CheckStreak(t)
  <2>1. call[t].op = "approve" => signals[call[t].plan] \in {"AWAITING_APPROVAL"} \cup Executed
    BY <1>2 DEF CheckKillSwitch, CheckDailyLoss, CheckStreak, RowsOwned, ParkedRows
  <2>2. UNCHANGED <<ledgerVars, broker>>
    BY <1>2 DEF CheckKillSwitch, CheckDailyLoss, CheckStreak
  <2>3. CASE Return(t)
    BY <2>2, <2>3, ReturnRows
  <2>4. ASSUME NEW label \in {"daily_loss", "trip_daily", "streak", "trip_streak", "gates"},
               Goto(t, label)
        PROVE  RowsOwned'
    BY <2>1, <2>2, <2>4, GotoRows DEF Labels, Owning, AfterSubmit, AfterApprove
  <2>5. CASE Goto(t, "known_check") /\ call[t].op = "submit"
    BY <2>1, <2>2, <2>5, GotoRows DEF Labels, Owning, AfterSubmit, AfterApprove
  <2>6. QED
    BY <1>2, <2>3, <2>4, <2>5 DEF CheckKillSwitch, CheckDailyLoss, CheckStreak
<1>3. CASE TripKillSwitch(t)
  <2>1. /\ pc'[t] = "idle"
        /\ \A u \in Callers \ {t} : pc'[u] = pc[u] /\ call'[u] = call[u] /\ ack'[u] = ack[u]
        /\ UNCHANGED <<signals, approvals, orders, broker>>
    BY <1>3 DEF TripKillSwitch, SetKillSwitch, Return, ControllerTypeOK, CallTypeOK
  <2>2. PathsApart' /\ OneOwner' /\ OwnedRows'
    BY <2>1 DEF RowsOwned, PathsApart, OneOwner, OwnedRows, AfterSubmit, AfterApprove, Owning
  <2>3. ParkedRows' /\ OrderRows' /\ AtMostOneMutation' /\ IntentPrecedesMutation'
    BY <2>1 DEF RowsOwned, ParkedRows, OrderRows, AtMostOneMutation, IntentPrecedesMutation
  <2>4. QED
    BY <2>2, <2>3 DEF RowsOwned
<1>4. QED
  BY <1>1, <1>2, <1>3 DEF LimitStep

LEMMA PlanRows ==
    ASSUME ControllerTypeOK, RowsOwned, NEW t \in Callers, PlanStep(t)
    PROVE  RowsOwned'
<1>1. pc[t] \in {"known_check", "gates", "exposure"}
  BY DEF PlanStep, CheckKnown, CheckGates, CheckExposure
<1>2. call[t].op = "approve" => signals[call[t].plan] \in {"AWAITING_APPROVAL"} \cup Executed
  BY <1>1 DEF RowsOwned, ParkedRows
<1>3. call[t].op \in {"submit", "approve"}
  BY <1>1, CallInProgress DEF Call
<1>4. UNCHANGED <<ledgerVars, broker>>
  BY DEF PlanStep, CheckKnown, CheckGates, CheckExposure
<1>5. CASE Return(t)
  BY <1>4, <1>5, ReturnRows
<1>6. ASSUME NEW label \in {"gates", "exposure", "record_signal", "record_approval"}, Goto(t, label),
             label = "record_signal" => call[t].op = "submit",
             label = "record_approval" => call[t].op = "approve"
      PROVE  RowsOwned'
  BY <1>2, <1>4, <1>6, GotoRows DEF Labels, Owning, AfterSubmit, AfterApprove
<1>7. QED
  BY <1>3, <1>5, <1>6 DEF PlanStep, CheckKnown, CheckGates, CheckExposure


-----------------------------------------------------------------------------
(* Steps that write a row *)

\* What a step of t that returns, and writes no row of another plan, leaves alone.
LEMMA ReturnedOthers ==
    ASSUME ControllerTypeOK, NEW t \in Callers, Return(t)
    PROVE  /\ pc'[t] = "idle" /\ call'[t].op = "none"
           /\ \A u \in Callers \ {t} : pc'[u] = pc[u] /\ call'[u] = call[u] /\ ack'[u] = ack[u]
  BY DEF Return, NoCall, ControllerTypeOK, CallTypeOK

LEMMA ReceivedRows ==
    ASSUME ControllerTypeOK, RowsOwned, NEW t \in Callers, RecordReceived(t)
    PROVE  RowsOwned'
<1> DEFINE p == call[t].plan
<1>1. p \in Plans /\ call[t].op = "submit"
  BY CallInProgress DEF RecordReceived, RowsOwned, PathsApart, AfterSubmit
<1>2. CASE RecordSignal(p, "RECEIVED") /\ Goto(t, "route")
  <2>1. /\ pc'[t] = "route"
        /\ \A u \in Callers \ {t} : pc'[u] = pc[u]
        /\ UNCHANGED <<call, ack>>
    BY <1>2 DEF Goto, ControllerTypeOK, CallTypeOK
  <2>2. /\ signals[p] = "ABSENT" /\ signals'[p] = "RECEIVED"
        /\ \A q \in Plans \ {p} : signals'[q] = signals[q]
        /\ UNCHANGED <<approvals, orders, broker>>
    BY <1>1, <1>2 DEF RecordReceived, RecordSignal, SignalExists, ControllerTypeOK, LedgerTypeOK
  <2>3. \A u \in Callers : pc[u] \in Owning => call[u].plan # p /\ call[u].plan \in Plans
    BY <2>2, CallInProgress DEF RowsOwned, OwnedRows, Owning
  <2>4. broker[p].sent = 0
    BY <1>1, <2>2 DEF RowsOwned, IntentPrecedesMutation, Executed, ControllerTypeOK, EnvTypeOK
  <2>5. PathsApart'
    BY <1>1, <2>1 DEF RowsOwned, PathsApart, AfterApprove
  <2>6. OneOwner'
    BY <2>1, <2>3 DEF RowsOwned, OneOwner
  <2>7. OwnedRows'
    BY <2>1, <2>2, <2>3, <2>4 DEF RowsOwned, OwnedRows, Owning
  <2>8. ParkedRows'
    <3>1. \A q \in approvals : q # p /\ q \in Plans
      BY <2>2 DEF RowsOwned, ParkedRows, Executed, ControllerTypeOK, LedgerTypeOK
    <3>2. \A u \in Callers : call[u].op = "approve" /\ pc[u] \notin {"idle", "awaiting_check"} =>
              call[u].plan # p /\ call[u].plan \in Plans
      BY <2>2, CallInProgress DEF RowsOwned, ParkedRows, Executed
    <3>3. QED
      BY <1>1, <2>1, <2>2, <3>1, <3>2 DEF RowsOwned, ParkedRows
  <2>9. OrderRows' /\ AtMostOneMutation' /\ IntentPrecedesMutation'
    BY <1>1, <2>2 DEF RowsOwned, OrderRows, AtMostOneMutation, IntentPrecedesMutation, Executed
  <2>10. QED
    BY <2>5, <2>6, <2>7, <2>8, <2>9 DEF RowsOwned
<1>3. CASE Return(t) /\ UNCHANGED ledgerVars
  BY <1>3, ReturnRows DEF RecordReceived
<1>4. QED
  BY <1>2, <1>3 DEF RecordReceived

LEMMA SettleRows ==
    ASSUME ControllerTypeOK, RowsOwned, NEW t \in Callers, Block(t) \/ Park(t)
    PROVE  RowsOwned'
<1> DEFINE p == call[t].plan
<1>1. pc[t] = "route" /\ p \in Plans /\ Return(t)
  BY CallInProgress DEF Block, Park
<1>2. signals[p] = "RECEIVED" /\ broker[p].sent = 0
  BY <1>1 DEF RowsOwned, OwnedRows, Owning
<1>3. /\ signals'[p] \in {"BLOCKED", "AWAITING_APPROVAL"}
      /\ \A q \in Plans \ {p} : signals'[q] = signals[q]
      /\ UNCHANGED <<approvals, orders, broker>>
  BY <1>1 DEF Block, Park, UpdateSignalState, ControllerTypeOK, LedgerTypeOK
<1>4. \A u \in Callers \ {t} : pc[u] \in Owning => call[u].plan # p /\ call[u].plan \in Plans
  BY <1>1, CallInProgress DEF RowsOwned, OneOwner, Owning
<1>5. PathsApart' /\ OneOwner' /\ OwnedRows'
  BY <1>1, <1>3, <1>4, ReturnedOthers
     DEF RowsOwned, PathsApart, OneOwner, OwnedRows, AfterSubmit, AfterApprove, Owning
<1>6. ParkedRows'
  <2>1. \A q \in approvals : q # p /\ q \in Plans
    BY <1>2 DEF RowsOwned, ParkedRows, Executed, ControllerTypeOK, LedgerTypeOK
  <2>2. \A u \in Callers : call[u].op = "approve" /\ pc[u] \notin {"idle", "awaiting_check"} =>
            call[u].plan # p /\ call[u].plan \in Plans
    BY <1>2, CallInProgress DEF RowsOwned, ParkedRows, Executed
  <2>3. QED
    BY <1>1, <1>3, <2>1, <2>2, ReturnedOthers DEF RowsOwned, ParkedRows
<1>7. OrderRows' /\ AtMostOneMutation' /\ IntentPrecedesMutation'
  BY <1>2, <1>3 DEF RowsOwned, OrderRows, AtMostOneMutation, IntentPrecedesMutation, Executed,
                    ControllerTypeOK, EnvTypeOK
<1>8. QED
  BY <1>5, <1>6, <1>7 DEF RowsOwned

LEMMA ApproveRows ==
    ASSUME ControllerTypeOK, RowsOwned, NEW t \in Callers, Approve(t)
    PROVE  RowsOwned'
<1> DEFINE p == call[t].plan
<1>1. p \in Plans /\ call[t].op = "approve" /\ pc[t] = "record_approval"
  BY CallInProgress DEF Approve, RowsOwned, PathsApart, AfterApprove
<1>2. signals[p] \in {"AWAITING_APPROVAL"} \cup Executed
  BY <1>1 DEF RowsOwned, ParkedRows
<1>3. CASE RecordApproval(p) /\ Goto(t, "paper")
  <2>1. /\ pc'[t] = "paper"
        /\ \A u \in Callers \ {t} : pc'[u] = pc[u]
        /\ UNCHANGED <<call, ack>>
    BY <1>3 DEF Goto, ControllerTypeOK, CallTypeOK
  <2>2. approvals' = approvals \cup {p} /\ UNCHANGED <<signals, orders, broker>>
    BY <1>3 DEF Approve, RecordApproval
  <2>3. PathsApart' /\ OneOwner' /\ OwnedRows'
    BY <1>1, <2>1, <2>2 DEF RowsOwned, PathsApart, OneOwner, OwnedRows, AfterSubmit, Owning
  <2>4. ParkedRows'
    BY <1>1, <1>2, <2>1, <2>2 DEF RowsOwned, ParkedRows
  <2>5. OrderRows' /\ AtMostOneMutation' /\ IntentPrecedesMutation'
    BY <2>2 DEF RowsOwned, OrderRows, AtMostOneMutation, IntentPrecedesMutation
  <2>6. QED
    BY <2>3, <2>4, <2>5 DEF RowsOwned
<1>4. CASE Return(t) /\ UNCHANGED ledgerVars
  BY <1>4, ReturnRows DEF Approve
<1>5. QED
  BY <1>3, <1>4 DEF Approve

\* What record_execution writes in the rows of its plan, and only there.
LEMMA RecordedRows ==
    ASSUME ControllerTypeOK, NEW p \in Plans, NEW order \in Order, order.state # "NONE",
           RecordExecution(p, order)
    PROVE  /\ orders[p] = NoOrder
           /\ orders'[p] = order
           /\ signals'[p] = ExecutedState(p, order)
           /\ signals'[p] \in Executed
           /\ \A q \in Plans \ {p} : signals'[q] = signals[q] /\ orders'[q] = orders[q]
           /\ UNCHANGED approvals
  BY DEF RecordExecution, ExecutionRefused, ExecutedState, Executed, ControllerTypeOK, LedgerTypeOK


\* Whoever may record an execution is the only one that owns the plan, if any
\* call does, as long as the plan has no order.
LEMMA NoOtherOwner ==
    ASSUME ControllerTypeOK, RowsOwned, NEW t \in Callers,
           pc[t] \in Owning \cup {"paper"}, orders[call[t].plan] = NoOrder
    PROVE  \A u \in Callers \ {t} : pc[u] \in Owning => call[u].plan # call[t].plan
<1> DEFINE p == call[t].plan
<1>1. p \in Plans
  BY CallInProgress DEF Owning
<1>2. signals[p] \notin Executed
  BY <1>1 DEF RowsOwned, OrderRows, NoOrder
<1>3. CASE pc[t] \in Owning
  BY <1>3 DEF RowsOwned, OneOwner
<1>4. CASE pc[t] = "paper"
  <2>1. call[t].op = "approve"
    BY <1>4 DEF RowsOwned, PathsApart, AfterApprove
  <2>2. signals[p] = "AWAITING_APPROVAL"
    BY <1>2, <1>4, <2>1 DEF RowsOwned, ParkedRows
  <2>3. QED
    BY <2>2 DEF RowsOwned, OwnedRows, Owning
<1>5. QED
  BY <1>3, <1>4

\* The rows after a recorded execution, for any step of t that keeps the
\* other calls: what is left to show is what t itself owns then.
LEMMA ExecutedRows ==
    ASSUME ControllerTypeOK, RowsOwned, NEW t \in Callers,
           pc[t] \in Owning \cup {"paper"}, NEW order \in Order, order.state # "NONE",
           RecordExecution(call[t].plan, order),
           Return(t) \/ (Goto(t, "live_uncertain") /\ order = UnknownOrder /\ call[t].op = "submit"),
           UNCHANGED broker
    PROVE  RowsOwned'
<1> DEFINE p == call[t].plan
<1>1. p \in Plans
  BY CallInProgress DEF Owning
<1>2. /\ orders[p] = NoOrder /\ orders'[p] = order
      /\ signals'[p] = ExecutedState(p, order) /\ signals'[p] \in Executed
      /\ \A q \in Plans \ {p} : signals'[q] = signals[q] /\ orders'[q] = orders[q]
      /\ UNCHANGED approvals
  BY <1>1, RecordedRows
<1>3. \A u \in Callers \ {t} : pc[u] \in Owning => call[u].plan # p /\ call[u].plan \in Plans
  BY <1>2, NoOtherOwner, CallInProgress DEF Owning
<1>4. ParkedRows' /\ OrderRows' /\ AtMostOneMutation' /\ IntentPrecedesMutation'
  <2>1. /\ pc'[t] # "paper" /\ (pc'[t] = "idle" \/ call'[t].op = "submit")
        /\ \A u \in Callers \ {t} : pc'[u] = pc[u] /\ call'[u] = call[u]
    BY DEF Return, Goto, ControllerTypeOK, CallTypeOK
  <2>2. ParkedRows'
    <3>1. \A q \in approvals : q \in Plans /\ signals[q] \in {"AWAITING_APPROVAL"} \cup Executed
      BY DEF RowsOwned, ParkedRows, ControllerTypeOK, LedgerTypeOK
    <3>2. \A u \in Callers : call[u].op = "approve" /\ pc[u] \notin {"idle", "awaiting_check"} =>
              /\ call[u].plan \in Plans
              /\ signals[call[u].plan] \in {"AWAITING_APPROVAL"} \cup Executed
      BY CallInProgress DEF RowsOwned, ParkedRows
    <3>3. QED
      BY <1>2, <2>1, <3>1, <3>2 DEF RowsOwned, ParkedRows
  <2>3. OrderRows' /\ AtMostOneMutation' /\ IntentPrecedesMutation'
    BY <1>1, <1>2 DEF RowsOwned, OrderRows, AtMostOneMutation, IntentPrecedesMutation
  <2>4. QED
    BY <2>2, <2>3
<1>5. CASE Return(t)
  <2>1. PathsApart' /\ OneOwner' /\ OwnedRows'
    BY <1>2, <1>3, <1>5, ReturnedOthers
       DEF RowsOwned, PathsApart, OneOwner, OwnedRows, AfterSubmit, AfterApprove, Owning
  <2>2. QED
    BY <1>4, <2>1 DEF RowsOwned
<1>6. CASE Goto(t, "live_uncertain") /\ order = UnknownOrder /\ call[t].op = "submit"
  <2>1. /\ pc'[t] = "live_uncertain" /\ \A u \in Callers \ {t} : pc'[u] = pc[u]
        /\ UNCHANGED <<call, ack>>
    BY <1>6 DEF Goto, ControllerTypeOK, CallTypeOK
  <2>2. signals'[p] = "SUBMITTED"
    <3>1. Quantity[p] \in Nat \ {0}
      BY <1>1, PlansAssumption DEF PlansAssumption
    <3>2. QED
      BY <1>2, <1>6, <3>1 DEF UnknownOrder, ExecutedState
  <2>3. PathsApart' /\ OneOwner'
    BY <1>3, <1>6, <2>1 DEF RowsOwned, PathsApart, OneOwner, AfterSubmit, AfterApprove, Owning
  <2>4. OwnedRows'
    BY <1>2, <1>3, <2>1, <2>2 DEF RowsOwned, OwnedRows, Owning
  <2>5. QED
    BY <1>4, <2>3, <2>4 DEF RowsOwned
<1>7. QED
  BY <1>5, <1>6

LEMMA ExecuteRows ==
    ASSUME ControllerTypeOK, RowsOwned, NEW t \in Callers,
           pc[t] \in Owning \cup {"paper"}, NEW order \in Order, order.state # "NONE",
           Execute(t, call[t].plan, order), UNCHANGED broker
    PROVE  RowsOwned'
  BY ExecutedRows, ReturnRows DEF Execute

-----------------------------------------------------------------------------
(* Live execution *)

\* The one mutation of a plan: its owner has not sent it before.
LEMMA SendRows ==
    ASSUME ControllerTypeOK, RowsOwned, NEW t \in Callers, pc[t] = "route",
           NEW h \in {"nothing", "inflight", "order"}, Sent(call[t].plan, h),
           \A u \in Callers \ {t} : pc'[u] = pc[u] /\ call'[u] = call[u] /\ ack'[u] = ack[u],
           \/ pc'[t] = "idle" /\ call'[t].op = "none"
           \/ pc'[t] = "live_lookup" /\ call' = call
           \/ /\ pc'[t] = "live_record" /\ call' = call
              /\ ack'[t].state # "NONE" /\ ack'[t].filled <= Quantity[call[t].plan],
           UNCHANGED ledgerVars
    PROVE  RowsOwned'
<1> DEFINE p == call[t].plan
<1>1. p \in Plans /\ signals[p] = "RECEIVED" /\ broker[p].sent = 0 /\ call[t].op = "submit"
  BY CallInProgress DEF RowsOwned, OwnedRows, PathsApart, AfterSubmit, Owning
<1>2. broker'[p].sent = 1 /\ \A q \in Plans \ {p} : broker'[q] = broker[q]
  BY <1>1 DEF Sent, ControllerTypeOK, EnvTypeOK
<1>3. \A u \in Callers \ {t} : pc[u] \in Owning => call[u].plan # p /\ call[u].plan \in Plans
  BY CallInProgress DEF RowsOwned, OneOwner, Owning
<1>4. PathsApart' /\ OneOwner'
  BY <1>1, <1>3 DEF RowsOwned, PathsApart, OneOwner, AfterSubmit, AfterApprove, Owning
<1>5. OwnedRows'
  BY <1>1, <1>2, <1>3 DEF RowsOwned, OwnedRows, Owning, ledgerVars
<1>6. ParkedRows' /\ OrderRows'
  BY <1>1 DEF RowsOwned, ParkedRows, OrderRows, ledgerVars
<1>7. AtMostOneMutation' /\ IntentPrecedesMutation'
  BY <1>1, <1>2 DEF RowsOwned, AtMostOneMutation, IntentPrecedesMutation, ledgerVars
<1>8. QED
  BY <1>4, <1>5, <1>6, <1>7 DEF RowsOwned


LEMMA LiveRows ==
    ASSUME ControllerTypeOK, RowsOwned, NEW t \in Callers, LiveStep(t)
    PROVE  RowsOwned'
<1> DEFINE p == call[t].plan
           Others == \A u \in Callers \ {t} : pc'[u] = pc[u] /\ call'[u] = call[u] /\ ack'[u] = ack[u]
<1>1. pc[t] \in Owning /\ p \in Plans /\ call[t].op = "submit"
  <2>1. pc[t] \in Owning
    BY DEF LiveStep, SubmitAnswered, SubmitTimedOut, SubmitUnusable, MaySend, LookupFound,
           LookupMissing, LookupUnusable, ExecuteLive, RecordUnknown, MarkUncertain, Owning
  <2>2. QED
    BY <2>1, CallInProgress DEF RowsOwned, PathsApart, AfterSubmit, Owning
<1>2. \A a \in Acknowledgements(p) : a.state # "NONE" /\ a.filled <= Quantity[p]
  BY <1>1, PlansAssumption, ControllerAssumption
     DEF PlansAssumption, ControllerAssumption, Acknowledgements, OrderStates
<1>3. CASE SubmitAnswered(t)
  <2>1. PICK a \in Acknowledgements(p) : ack' = [ack EXCEPT ![t] = a]
    BY <1>3 DEF SubmitAnswered
  <2>2. Others /\ pc'[t] = "live_record" /\ ack'[t] = a /\ call' = call
    BY <1>3, <2>1 DEF SubmitAnswered, ControllerTypeOK, CallTypeOK
  <2>3. QED
    BY <1>2, <1>3, <2>1, <2>2, SendRows DEF SubmitAnswered, MaySend
<1>4. CASE SubmitTimedOut(t)
  <2>1. Others /\ pc'[t] = "live_lookup" /\ call' = call
    BY <1>4 DEF SubmitTimedOut, Goto, ControllerTypeOK, CallTypeOK
  <2>2. QED
    BY <1>4, <2>1, SendRows DEF SubmitTimedOut, MaySend
<1>5. CASE SubmitUnusable(t)
  <2>1. Others /\ pc'[t] = "idle" /\ call'[t].op = "none"
    BY <1>5, ReturnedOthers DEF SubmitUnusable
  <2>2. QED
    BY <1>5, <2>1, SendRows DEF SubmitUnusable, MaySend
<1>6. CASE LookupFound(t)
  <2>1. PICK a \in Acknowledgements(p) : ack' = [ack EXCEPT ![t] = a]
    BY <1>6 DEF LookupFound
  <2>2. /\ Others /\ pc'[t] = "live_record" /\ ack'[t] = a /\ call' = call
        /\ UNCHANGED <<ledgerVars, broker>>
    BY <1>6, <2>1 DEF LookupFound, ControllerTypeOK, CallTypeOK
  <2>3. PathsApart' /\ OneOwner'
    BY <1>1, <2>2 DEF RowsOwned, PathsApart, OneOwner, AfterSubmit, AfterApprove, Owning
  <2>4. OwnedRows'
    BY <1>1, <1>2, <1>6, <2>1, <2>2 DEF RowsOwned, OwnedRows, Owning, ledgerVars, LookupFound
  <2>5. ParkedRows' /\ OrderRows' /\ AtMostOneMutation' /\ IntentPrecedesMutation'
    BY <1>1, <2>2 DEF RowsOwned, ParkedRows, OrderRows, AtMostOneMutation,
                      IntentPrecedesMutation, ledgerVars
  <2>6. QED
    BY <2>3, <2>4, <2>5 DEF RowsOwned
<1>7. CASE LookupMissing(t)
  <2>1. /\ Others /\ pc[t] = "live_lookup" /\ pc'[t] = "live_unknown" /\ UNCHANGED <<call, ack>>
        /\ UNCHANGED <<ledgerVars, broker>>
    BY <1>7 DEF LookupMissing, Goto, ControllerTypeOK, CallTypeOK
  <2>2. PathsApart' /\ OneOwner' /\ OwnedRows'
    BY <1>1, <2>1 DEF RowsOwned, PathsApart, OneOwner, OwnedRows, AfterSubmit, AfterApprove,
                      Owning, ledgerVars
  <2>3. ParkedRows' /\ OrderRows' /\ AtMostOneMutation' /\ IntentPrecedesMutation'
    BY <1>1, <2>1 DEF RowsOwned, ParkedRows, OrderRows, AtMostOneMutation,
                      IntentPrecedesMutation, ledgerVars
  <2>4. QED
    BY <2>2, <2>3 DEF RowsOwned
<1>8. CASE LookupUnusable(t)
  BY <1>8, ReturnRows DEF LookupUnusable
<1>9. CASE ExecuteLive(t)
  <2>1. ack[t] \in Order /\ ack[t].state # "NONE"
    BY <1>9 DEF ExecuteLive, RowsOwned, OwnedRows, ControllerTypeOK, CallTypeOK
  <2>2. QED
    BY <1>1, <1>9, <2>1, ExecuteRows DEF ExecuteLive
<1>10. CASE RecordUnknown(t)
  <2>1. UnknownOrder \in Order /\ UnknownOrder.state # "NONE"
    BY DEF UnknownOrder, Order, OrderStates
  <2>2. QED
    BY <1>1, <1>10, <2>1, ExecutedRows, ReturnRows DEF RecordUnknown
<1>11. CASE MarkUncertain(t)
  <2>1. /\ pc[t] = "live_uncertain" /\ Return(t) /\ signals[p] = "SUBMITTED"
        /\ signals'[p] = "UNCERTAIN" /\ \A q \in Plans \ {p} : signals'[q] = signals[q]
        /\ UNCHANGED <<approvals, orders, broker>>
    BY <1>1, <1>11 DEF MarkUncertain, UpdateSignalState, RowsOwned, OwnedRows, Owning,
                       ControllerTypeOK, LedgerTypeOK
  <2>2. \A u \in Callers \ {t} : pc[u] \in Owning => call[u].plan # p /\ call[u].plan \in Plans
    BY <1>1, CallInProgress DEF RowsOwned, OneOwner, Owning
  <2>3. PathsApart' /\ OneOwner' /\ OwnedRows'
    BY <2>1, <2>2, ReturnedOthers
       DEF RowsOwned, PathsApart, OneOwner, OwnedRows, AfterSubmit, AfterApprove, Owning
  <2>4. ParkedRows'
    <3>1. \A q \in approvals : q \in Plans
      BY DEF ControllerTypeOK, LedgerTypeOK
    <3>2. \A u \in Callers : pc[u] # "idle" => call[u].plan \in Plans
      BY CallInProgress
    <3>3. QED
      BY <2>1, <3>1, <3>2, ReturnedOthers DEF RowsOwned, ParkedRows, Executed
  <2>5. OrderRows' /\ AtMostOneMutation' /\ IntentPrecedesMutation'
    BY <2>1 DEF RowsOwned, OrderRows, AtMostOneMutation, IntentPrecedesMutation, Executed
  <2>6. QED
    BY <2>3, <2>4, <2>5 DEF RowsOwned
<1>12. QED
  BY <1>3, <1>4, <1>5, <1>6, <1>7, <1>8, <1>9, <1>10, <1>11 DEF LiveStep

LEMMA WriteRows ==
    ASSUME ControllerTypeOK, RowsOwned, NEW t \in Callers, WriteStep(t)
    PROVE  RowsOwned'
<1>1. CASE ExecutePaper(t)
  <2>1. pc[t] \in Owning \cup {"paper"} /\ call[t].plan \in Plans
    BY <1>1, CallInProgress DEF ExecutePaper, Owning
  <2>2. PaperOrder(call[t].plan).state # "NONE"
    BY DEF PaperOrder
  <2>3. QED
    BY <1>1, <2>1, <2>2, PaperOrderType, ExecuteRows DEF ExecutePaper
<1>2. QED
  BY <1>1, ReceivedRows, SettleRows, ApproveRows DEF WriteStep

LEMMA EnvironmentRows ==
    ASSUME ControllerTypeOK, RowsOwned, Environment
    PROVE  RowsOwned'
<1> USE DEF PathsApart, OneOwner, OwnedRows, ParkedRows, OrderRows, AtMostOneMutation,
            IntentPrecedesMutation
<1>1. ASSUME NEW p \in Plans, LateAccept(p) PROVE RowsOwned'
  <2>1. \A q \in Plans : broker'[q].sent = broker[q].sent
    BY <1>1 DEF LateAccept, ControllerTypeOK, EnvTypeOK
  <2>2. UNCHANGED <<ledgerVars, callVars>>
    BY <1>1 DEF LateAccept
  <2>3. \A t \in Callers : pc[t] = "route" => call[t].plan \in Plans
    BY CallInProgress
  <2>4. QED
    BY <2>1, <2>2, <2>3 DEF RowsOwned, ledgerVars, callVars
<1>2. CASE Restart
  <2>1. \A t \in Callers : pc'[t] = "idle"
    BY <1>2 DEF Restart
  <2>2. UNCHANGED <<ledgerVars, broker>>
    BY <1>2 DEF Restart
  <2>3. QED
    BY <2>1, <2>2 DEF RowsOwned, ledgerVars, AfterSubmit, AfterApprove, Owning
<1>3. CASE \/ \E active \in BOOLEAN : OperatorSetKillSwitch(active)
           \/ \E p \in Plans : Close(p)
           \/ ReplaceRegistry \/ Tick
  <2>1. UNCHANGED <<signals, approvals, orders, broker, pc, call, ack>>
    BY <1>3 DEF OperatorSetKillSwitch, SetKillSwitch, Close, ClosePosition, ReplaceRegistry, Tick,
           ledgerVars, callVars
  <2>2. QED
    BY <2>1 DEF RowsOwned
<1>4. QED
  BY <1>1, <1>2, <1>3 DEF Environment

LEMMA RowsInit == Init => RowsOwned
  BY DEF Init, LedgerInit, NoOrder, RowsOwned, PathsApart, OneOwner, OwnedRows, ParkedRows, OrderRows,
         AtMostOneMutation, IntentPrecedesMutation, AfterSubmit, AfterApprove, Owning, Executed, NoCall

LEMMA RowsNext ==
    ASSUME ControllerTypeOK, RowsOwned, [Next]_vars
    PROVE  RowsOwned'
<1>1. CASE UNCHANGED vars
  BY <1>1 DEF vars, ledgerVars, callVars, RowsOwned, PathsApart, OneOwner, OwnedRows, ParkedRows,
         OrderRows, AtMostOneMutation, IntentPrecedesMutation
<1>2. QED
  BY <1>1, BeginRows, LimitRows, PlanRows, WriteRows, LiveRows, EnvironmentRows DEF Next, Step

LEMMA RowsAlwaysOwned == Spec => [](ControllerTypeOK /\ RowsOwned)
<1>1. ControllerTypeOK /\ RowsOwned /\ [Next]_vars => RowsOwned'
  BY RowsNext
<1>2. QED
  BY <1>1, RowsInit, TypeCorrectness, PTL DEF Spec

\* A correlation id reaches the broker at most once, over every caller, timeout,
\* lookup and restart, in whatever modes the process is started again.
THEOREM SingleMutationTheorem == Spec => []AtMostOneMutation
<1>1. RowsOwned => AtMostOneMutation
  BY DEF RowsOwned
<1>2. QED
  BY <1>1, RowsAlwaysOwned, PTL

\* The ledger knows of every order that may be at the broker.
THEOREM IntentTheorem == Spec => []IntentPrecedesMutation
<1>1. RowsOwned => IntentPrecedesMutation
  BY DEF RowsOwned
<1>2. QED
  BY <1>1, RowsAlwaysOwned, PTL

-----------------------------------------------------------------------------
(* Execution control implements SignalExposure *)

\* The steps of Next as the ledger sees them, each with what is known of the
\* plan at that moment.
Untouched == UNCHANGED <<signals, approvals, orders, positions, journal>>

Approved ==
    \E p \in Plans :
        signals[p] \in {"AWAITING_APPROVAL"} \cup Executed /\ RecordApproval(p)

TakenUp == \E p \in Plans : RecordSignal(p, "RECEIVED")

SettledUnexecuted ==
    \E p \in Plans, s \in {"BLOCKED", "AWAITING_APPROVAL"} :
        signals[p] = "RECEIVED" /\ UpdateSignalState(p, s)

Recorded ==
    \E p \in Plans : \E order \in Order :
        /\ signals[p] = "RECEIVED" \/ (signals[p] = "AWAITING_APPROVAL" /\ p \in approvals)
        /\ order.state # "NONE"
        /\ order.filled <= Quantity[p]
        /\ RecordExecution(p, order)

LeftUncertain ==
    \E p \in Plans : signals[p] = "SUBMITTED" /\ UpdateSignalState(p, "UNCERTAIN")

Closed == \E p \in Plans : \E move \in Int, at \in Nat : ClosePosition(p, move, at)

\* An execution is recorded only of a signal taken up and not yet executed; if it
\* was parked, with its approval on record.
LEMMA ExecutedIsOpen ==
    ASSUME ControllerTypeOK, RowsOwned, NEW t \in Callers,
           pc[t] \in {"route", "live_record", "live_unknown", "paper"},
           NEW order \in Order, order.state # "NONE", order.filled <= Quantity[call[t].plan],
           RecordExecution(call[t].plan, order)
    PROVE  Recorded
<1> DEFINE p == call[t].plan
<1>1. p \in Plans
  BY CallInProgress
<1>2. CASE pc[t] # "paper"
  BY <1>1, <1>2 DEF Recorded, RowsOwned, OwnedRows, Owning
<1>3. CASE pc[t] = "paper"
  <2>1. orders[p] = NoOrder
    BY <1>1, RecordedRows
  <2>2. signals[p] \notin Executed
    BY <1>1, <2>1 DEF RowsOwned, OrderRows, NoOrder
  <2>3. call[t].op = "approve" /\ p \in approvals
    BY <1>3 DEF RowsOwned, PathsApart, ParkedRows, AfterApprove
  <2>4. signals[p] = "AWAITING_APPROVAL"
    BY <1>3, <2>2, <2>3 DEF RowsOwned, ParkedRows
  <2>5. QED
    BY <1>1, <2>3, <2>4 DEF Recorded
<1>4. QED
  BY <1>2, <1>3

LEMMA LedgerSteps ==
    ASSUME ControllerTypeOK, RowsOwned, [Next]_vars
    PROVE  \/ Untouched \/ TakenUp \/ SettledUnexecuted \/ Approved
           \/ Recorded \/ LeftUncertain \/ Closed
<1>1. ASSUME NEW t \in Callers, NEW p \in Plans, BeginSubmit(t, p) \/ BeginApprove(t, p)
      PROVE  Untouched
  BY <1>1 DEF BeginSubmit, BeginApprove, Begin, ledgerVars, Untouched
<1>2. ASSUME NEW t \in Callers, LimitStep(t) \/ PlanStep(t)
      PROVE  Untouched
  BY <1>2 DEF LimitStep, CheckAwaiting, CheckKillSwitch, CheckDailyLoss, CheckStreak, TripKillSwitch,
         SetKillSwitch, PlanStep, CheckKnown, CheckGates, CheckExposure, ledgerVars, Untouched
<1>3. ASSUME NEW t \in Callers, WriteStep(t)
      PROVE  Untouched \/ TakenUp \/ SettledUnexecuted \/ Approved \/ Recorded
  <2>1. call[t].plan \in Plans
    BY <1>3, CallInProgress DEF WriteStep, RecordReceived, Block, Park, Approve, ExecutePaper
  <2>2. CASE RecordReceived(t)
    BY <2>1, <2>2 DEF RecordReceived, TakenUp, Untouched, ledgerVars
  <2>3. CASE Block(t) \/ Park(t)
    BY <2>1, <2>3 DEF Block, Park, RowsOwned, OwnedRows, Owning, SettledUnexecuted
  <2>4. CASE Approve(t)
    <3>1. signals[call[t].plan] \in {"AWAITING_APPROVAL"} \cup Executed
      BY <2>4 DEF Approve, RowsOwned, PathsApart, ParkedRows, AfterApprove
    <3>2. QED
      BY <2>1, <2>4, <3>1 DEF Approve, Approved, Untouched, ledgerVars
  <2>5. CASE ExecutePaper(t)
    <3>1. pc[t] \in {"route", "paper"} /\ PaperOrder(call[t].plan).state # "NONE"
      BY <2>5 DEF ExecutePaper, PaperOrder
    <3>2. PaperOrder(call[t].plan).filled <= Quantity[call[t].plan]
      BY <2>1, PaperFilledBounds, PlansAssumption DEF PaperOrder, PlansAssumption
    <3>3. QED
      BY <2>1, <2>5, <3>1, <3>2, PaperOrderType, ExecutedIsOpen
         DEF ExecutePaper, Execute, Untouched, ledgerVars
  <2>6. QED
    BY <1>3, <2>2, <2>3, <2>4, <2>5 DEF WriteStep
<1>4. ASSUME NEW t \in Callers, LiveStep(t)
      PROVE  Untouched \/ Recorded \/ LeftUncertain
  <2>1. CASE ExecuteLive(t)
    <3>1. ack[t] \in Order /\ ack[t].state # "NONE" /\ ack[t].filled <= Quantity[call[t].plan]
      BY <2>1 DEF ExecuteLive, RowsOwned, OwnedRows, ControllerTypeOK, CallTypeOK
    <3>2. QED
      BY <2>1, <3>1, ExecutedIsOpen DEF ExecuteLive, Execute, Untouched, ledgerVars
  <2>2. CASE RecordUnknown(t)
    <3>1. UnknownOrder \in Order /\ UnknownOrder.state # "NONE"
      BY DEF UnknownOrder, Order, OrderStates
    <3>2. call[t].plan \in Plans
      BY <2>2, CallInProgress DEF RecordUnknown
    <3>3. UnknownOrder.filled <= Quantity[call[t].plan]
      BY <3>2, PlansAssumption DEF UnknownOrder, PlansAssumption
    <3>4. QED
      BY <2>2, <3>1, <3>3, ExecutedIsOpen DEF RecordUnknown, Untouched, ledgerVars
  <2>3. CASE MarkUncertain(t)
    BY <2>3, CallInProgress DEF MarkUncertain, RowsOwned, OwnedRows, LeftUncertain
  <2>4. QED
    BY <1>4, <2>1, <2>2, <2>3 DEF LiveStep, SubmitAnswered, SubmitTimedOut, SubmitUnusable,
           LookupFound, LookupMissing, LookupUnusable, ledgerVars, Untouched
<1>5. ASSUME NEW p \in Plans, Close(p) PROVE Closed
  BY <1>5, ControllerAssumption DEF Close, Closed, ControllerAssumption, ControllerTypeOK, EnvTypeOK
<1>6. ASSUME Environment, \A p \in Plans : ~Close(p) PROVE Untouched
  BY <1>6 DEF Environment, OperatorSetKillSwitch, SetKillSwitch, LateAccept, ReplaceRegistry, Tick,
         Restart, ledgerVars, Untouched
<1>7. CASE UNCHANGED vars
  BY <1>7 DEF vars, ledgerVars, Untouched
<1>8. QED
  BY <1>1, <1>2, <1>3, <1>4, <1>5, <1>6, <1>7 DEF Next, Step

\* A parked signal is moved on by nothing but an execution whose approval is on
\* record, in any mode the process restarts into.
THEOREM ApprovalTheorem == Spec => ParkedNeedsApproval
<1>1. ControllerTypeOK /\ RowsOwned /\ [Next]_vars =>
        [\A p \in Plans :
            signals[p] = "AWAITING_APPROVAL" /\ signals'[p] # signals[p] => p \in approvals]_vars
  <2> SUFFICES ASSUME ControllerTypeOK, RowsOwned, [Next]_vars, NEW p \in Plans,
                      signals[p] = "AWAITING_APPROVAL", signals'[p] # signals[p]
               PROVE  p \in approvals
    OBVIOUS
  <2>1. ~Untouched /\ ~Approved /\ ~Closed
    BY DEF Untouched, Approved, RecordApproval, Closed, ClosePosition
  <2>2. ~TakenUp /\ ~SettledUnexecuted /\ ~LeftUncertain
    BY DEF TakenUp, SettledUnexecuted, LeftUncertain, RecordSignal, UpdateSignalState, SignalExists,
           ControllerTypeOK, LedgerTypeOK
  <2>3. Recorded
    BY <2>1, <2>2, LedgerSteps
  <2>4. QED
    BY <2>3 DEF Recorded, RecordExecution, ControllerTypeOK, LedgerTypeOK
<1>2. QED
  BY <1>1, RowsAlwaysOwned, PTL DEF Spec, ParkedNeedsApproval

-----------------------------------------------------------------------------
(* One story of a signal *)

\* The journal rows of a plan, and those its order and its position call for.
EntriesOf(p) == {j \in journal : j.signal = p}
OrderEntry(p) == [entry |-> "ORDER_RECORDED", signal |-> p, amount |-> 0]
ClosedEntry(p, pnl) == [entry |-> "POSITION_CLOSED", signal |-> p, amount |-> pnl]

EntriesDue(p) ==
    (IF orders[p] # NoOrder THEN {OrderEntry(p)} ELSE {})
    \cup (IF positions[p].state = "CLOSED" THEN {ClosedEntry(p, positions[p].pnl)} ELSE {})

\* The parts of TablesAgree that do not look at the journal.
RowsAgree(p) ==
    /\ signals[p] \in Executed <=> orders[p] # NoOrder
    /\ signals[p] = "FILLED" <=> orders[p].filled = Quantity[p]
    /\ signals[p] = "PARTIALLY_FILLED" <=> orders[p].filled \in 1..(Quantity[p] - 1)
    /\ positions[p].state # "NONE" <=> orders[p].filled > 0
    /\ positions[p].quantity = orders[p].filled
    /\ p \in approvals => signals[p] \in {"AWAITING_APPROVAL"} \cup Executed

LEMMA TablesByPlan ==
    /\ TablesAgree <=> \A p \in Plans : RowsAgree(p) /\ EntriesOf(p) = EntriesDue(p)
    /\ TablesAgree' <=> \A p \in Plans : RowsAgree(p)' /\ EntriesOf(p)' = EntriesDue(p)'
  BY DEF TablesAgree, RowsAgree, EntriesOf, EntriesDue, OrderEntry, ClosedEntry

\* A row is appended for one plan: the entries of the others stay.
LEMMA EntryAppended ==
    ASSUME NEW p \in Plans, NEW e, e.signal = p, journal' = journal \cup {e}
    PROVE  /\ EntriesOf(p)' = EntriesOf(p) \cup {e}
           /\ \A q \in Plans \ {p} : EntriesOf(q)' = EntriesOf(q)
  BY DEF EntriesOf

\* Only the signal's state, or its approval, changes.
LEMMA StateTables ==
    ASSUME ControllerTypeOK, TablesAgree,
           TakenUp \/ SettledUnexecuted \/ LeftUncertain \/ Approved
    PROVE  TablesAgree'
<1>1. UNCHANGED <<orders, positions, journal>>
  BY DEF TakenUp, SettledUnexecuted, LeftUncertain, Approved, RecordSignal, UpdateSignalState,
         RecordApproval
<1>2. \A q \in Plans : EntriesOf(q)' = EntriesOf(q) /\ EntriesDue(q)' = EntriesDue(q)
  BY <1>1 DEF EntriesOf, EntriesDue
<1>3. PICK p \in Plans :
        /\ \A q \in Plans \ {p} : signals'[q] = signals[q] /\ (q \in approvals' <=> q \in approvals)
        /\ \/ signals[p] = "ABSENT" /\ signals'[p] = "RECEIVED" /\ approvals' = approvals
           \/ /\ signals[p] = "RECEIVED" /\ signals'[p] \in {"BLOCKED", "AWAITING_APPROVAL"}
              /\ approvals' = approvals
           \/ signals[p] = "SUBMITTED" /\ signals'[p] = "UNCERTAIN" /\ approvals' = approvals
           \/ signals[p] \in {"AWAITING_APPROVAL"} \cup Executed /\ signals' = signals
  <2>1. CASE TakenUp
    BY <2>1 DEF TakenUp, RecordSignal, SignalExists, ControllerTypeOK, LedgerTypeOK
  <2>2. CASE SettledUnexecuted
    BY <2>2 DEF SettledUnexecuted, UpdateSignalState, ControllerTypeOK, LedgerTypeOK
  <2>3. CASE LeftUncertain
    BY <2>3 DEF LeftUncertain, UpdateSignalState, ControllerTypeOK, LedgerTypeOK
  <2>4. CASE Approved
    BY <2>4 DEF Approved, RecordApproval
  <2>5. QED
    BY <2>1, <2>2, <2>3, <2>4
<1>4. \A q \in Plans : RowsAgree(q)
  BY TablesByPlan
<1>5. \A q \in Plans \ {p} : RowsAgree(q)'
  BY <1>1, <1>3, <1>4 DEF RowsAgree
<1>6. RowsAgree(p)'
  BY <1>1, <1>3, <1>4 DEF RowsAgree, Executed
<1>7. QED
  BY <1>2, <1>5, <1>6, TablesByPlan

\* An execution writes the order, the position of a fill, the signal's state and
\* the journal row together, for a plan that had none of them.
LEMMA RecordedTables ==
    ASSUME ControllerTypeOK, TablesAgree, Recorded
    PROVE  TablesAgree'
<1>1. PICK p \in Plans, order \in Order :
        /\ signals[p] \in {"RECEIVED", "AWAITING_APPROVAL"}
        /\ order.state # "NONE" /\ order.filled <= Quantity[p]
        /\ RecordExecution(p, order)
  BY DEF Recorded
<1>2. /\ orders[p] = NoOrder /\ orders'[p] = order /\ order # NoOrder
      /\ signals'[p] = ExecutedState(p, order) /\ signals'[p] \in Executed
      /\ \A q \in Plans \ {p} : signals'[q] = signals[q] /\ orders'[q] = orders[q]
      /\ approvals' = approvals
  BY <1>1, RecordedRows DEF NoOrder
<1>3. /\ positions'[p] = IF order.filled > 0 THEN OpenedPosition(order) ELSE positions[p]
      /\ \A q \in Plans \ {p} : positions'[q] = positions[q]
      /\ journal' = journal \cup {OrderEntry(p)}
  BY <1>1 DEF RecordExecution, OrderEntry, ControllerTypeOK, LedgerTypeOK
<1>4. \A q \in Plans : RowsAgree(q) /\ EntriesOf(q) = EntriesDue(q)
  BY TablesByPlan
<1>5. /\ EntriesOf(p)' = EntriesOf(p) \cup {OrderEntry(p)}
      /\ \A q \in Plans \ {p} : EntriesOf(q)' = EntriesOf(q)
  BY <1>3, EntryAppended DEF OrderEntry
<1>6. \A q \in Plans \ {p} : RowsAgree(q)' /\ EntriesDue(q)' = EntriesDue(q)
  BY <1>2, <1>3, <1>4 DEF RowsAgree, EntriesDue
<1>7. positions[p].state = "NONE" /\ positions[p].quantity = 0
  <2>1. positions[p] \in Position
    BY DEF ControllerTypeOK, LedgerTypeOK
  <2>2. QED
    BY <1>2, <1>4, <2>1 DEF RowsAgree, NoOrder, Position
<1>8. order.filled \in Nat /\ Quantity[p] \in Nat \ {0}
  BY PlansAssumption DEF PlansAssumption, Order
<1>9. /\ positions'[p].quantity = order.filled
      /\ positions'[p].state = IF order.filled > 0 THEN "OPEN" ELSE "NONE"
  BY <1>3, <1>7, <1>8 DEF OpenedPosition
<1>10. RowsAgree(p)'
  <2>1. /\ signals'[p] = "FILLED" <=> order.filled = Quantity[p]
        /\ signals'[p] = "PARTIALLY_FILLED" <=> order.filled \in 1..(Quantity[p] - 1)
    BY <1>1, <1>2, <1>8 DEF ExecutedState
  <2>2. QED
    BY <1>2, <1>8, <1>9, <2>1 DEF RowsAgree
<1>11. EntriesOf(p)' = EntriesDue(p)'
  BY <1>2, <1>4, <1>5, <1>7, <1>9 DEF EntriesDue
<1>12. QED
  BY <1>4, <1>5, <1>6, <1>10, <1>11, TablesByPlan

\* A closing keeps the size of the position and appends its own row.
LEMMA ClosedTables ==
    ASSUME ControllerTypeOK, TablesAgree, Closed
    PROVE  TablesAgree'
<1>1. PICK p \in Plans, move \in Int, at \in Nat : ClosePosition(p, move, at)
  BY DEF Closed
<1> DEFINE pnl == move * positions[p].quantity
<1>2. /\ positions[p].state = "OPEN"
      /\ positions'[p].state = "CLOSED" /\ positions'[p].pnl = pnl
      /\ positions'[p].quantity = positions[p].quantity
      /\ \A q \in Plans \ {p} : positions'[q] = positions[q]
      /\ journal' = journal \cup {ClosedEntry(p, pnl)}
      /\ UNCHANGED <<signals, approvals, orders>>
  BY <1>1 DEF ClosePosition, ClosedEntry, ControllerTypeOK, LedgerTypeOK
<1> HIDE DEF pnl
<1>3. \A q \in Plans : RowsAgree(q) /\ EntriesOf(q) = EntriesDue(q)
  BY TablesByPlan
<1>4. /\ EntriesOf(p)' = EntriesOf(p) \cup {ClosedEntry(p, pnl)}
      /\ \A q \in Plans \ {p} : EntriesOf(q)' = EntriesOf(q)
  BY <1>2, EntryAppended DEF ClosedEntry
<1>5. \A q \in Plans \ {p} : RowsAgree(q)' /\ EntriesDue(q)' = EntriesDue(q)
  BY <1>2, <1>3 DEF RowsAgree, EntriesDue
<1>6. RowsAgree(p)'
  BY <1>2, <1>3 DEF RowsAgree
<1>7. EntriesOf(p)' = EntriesDue(p)'
  BY <1>2, <1>3, <1>4 DEF EntriesDue
<1>8. QED
  BY <1>3, <1>4, <1>5, <1>6, <1>7, TablesByPlan

\* The five tables never contradict one another, whatever is interleaved with the
\* transactions of a call, refused by the schema, or cut short by a restart.
THEOREM TablesTheorem == Spec => []TablesAgree
<1>1. Init => TablesAgree
  <2>1. \A p \in Plans : Quantity[p] \in Nat \ {0}
    BY PlansAssumption DEF PlansAssumption
  <2>2. QED
    BY <2>1 DEF Init, LedgerInit, TablesAgree, NoOrder, NoPosition, Executed
<1>2. ControllerTypeOK /\ RowsOwned /\ TablesAgree /\ [Next]_vars => TablesAgree'
  <2> SUFFICES ASSUME ControllerTypeOK, RowsOwned, TablesAgree, [Next]_vars
               PROVE  TablesAgree'
    OBVIOUS
  <2>1. CASE Untouched
    BY <2>1 DEF Untouched, TablesAgree
  <2>2. QED
    BY <2>1, LedgerSteps, StateTables, RecordedTables, ClosedTables
<1>3. QED
  BY <1>1, <1>2, RowsAlwaysOwned, PTL DEF Spec

-----------------------------------------------------------------------------
(* Refinement *)

\* One signal's row moves from a state of one phase to a state of another.
LEMMA PhaseMove ==
    ASSUME ControllerTypeOK, NEW p \in Plans, NEW s, signals' = [signals EXCEPT ![p] = s]
    PROVE  [q \in Plans |-> PhaseOf(signals[q])]'
             = [[q \in Plans |-> PhaseOf(signals[q])] EXCEPT ![p] = PhaseOf(s)]
  BY DEF ControllerTypeOK, LedgerTypeOK

LEMMA ExposureStep ==
    ASSUME ControllerTypeOK, RowsOwned, [Next]_vars
    PROVE  [Exposure!AbsNext]_(Exposure!absVars)
<1> DEFINE phase == [q \in Plans |-> PhaseOf(signals[q])]
<1>1. CASE Untouched \/ Approved
  BY <1>1 DEF Untouched, Approved, RecordApproval, OpenPlans, Exposure!absVars
<1>2. CASE TakenUp
  <2>1. PICK p \in Plans : RecordSignal(p, "RECEIVED")
    BY <1>2 DEF TakenUp
  <2>2. phase[p] = "unseen" /\ phase' = [phase EXCEPT ![p] = "intended"]
    BY <2>1, PhaseMove DEF RecordSignal, SignalExists, PhaseOf
  <2>3. OpenPlans' = OpenPlans
    BY <2>1 DEF RecordSignal, OpenPlans
  <2>4. Exposure!Intend(p)
    BY <2>2, <2>3 DEF Exposure!Intend, Exposure!MoveTo
  <2>5. QED
    BY <2>4 DEF Exposure!AbsNext
<1>3. CASE SettledUnexecuted
  <2>1. PICK p \in Plans, s \in {"BLOCKED", "AWAITING_APPROVAL"} :
          signals[p] = "RECEIVED" /\ UpdateSignalState(p, s)
    BY <1>3 DEF SettledUnexecuted
  <2>2. phase[p] = "intended" /\ phase' = [phase EXCEPT ![p] = PhaseOf(s)]
    BY <2>1, PhaseMove DEF UpdateSignalState, PhaseOf
  <2>3. PhaseOf(s) \in {"parked", "refused"} /\ OpenPlans' = OpenPlans
    BY <2>1 DEF UpdateSignalState, OpenPlans, PhaseOf
  <2>4. Exposure!Park(p) \/ Exposure!Refuse(p)
    BY <2>2, <2>3 DEF Exposure!Park, Exposure!Refuse, Exposure!MoveTo
  <2>5. QED
    BY <2>4 DEF Exposure!AbsNext
<1>4. CASE Recorded
  <2>1. PICK p \in Plans, order \in Order :
          /\ signals[p] \in {"RECEIVED", "AWAITING_APPROVAL"}
          /\ RecordExecution(p, order)
    BY <1>4 DEF Recorded
  <2>2. phase[p] \in {"intended", "parked"} /\ phase' = [phase EXCEPT ![p] = "executed"]
    <3>1. phase' = [phase EXCEPT ![p] = PhaseOf(ExecutedState(p, order))]
      BY <2>1, PhaseMove DEF RecordExecution
    <3>2. PhaseOf(ExecutedState(p, order)) = "executed"
      BY DEF ExecutedState, PhaseOf
    <3>3. QED
      BY <2>1, <3>1, <3>2 DEF PhaseOf
  <2>3. \/ OpenPlans' = OpenPlans
        \/ Exposure!Holder(SecurityOf[p]) = {} /\ OpenPlans' = OpenPlans \cup {p}
    BY <2>1, RecordedExposure DEF OpenPositionForSecurity, Exposure!Holder
  <2>4. Exposure!Execute(p)
    BY <2>2, <2>3 DEF Exposure!Execute, Exposure!MoveTo
  <2>5. QED
    BY <2>4 DEF Exposure!AbsNext
<1>5. CASE LeftUncertain
  <2>1. PICK p \in Plans : signals[p] = "SUBMITTED" /\ UpdateSignalState(p, "UNCERTAIN")
    BY <1>5 DEF LeftUncertain
  <2>2. phase' = phase /\ OpenPlans' = OpenPlans
    BY <2>1, PhaseMove DEF UpdateSignalState, PhaseOf, OpenPlans
  <2>3. QED
    BY <2>2 DEF Exposure!absVars
<1>6. CASE Closed
  <2>1. PICK p \in Plans, move \in Int, at \in Nat : ClosePosition(p, move, at)
    BY <1>6 DEF Closed
  <2>2. p \in OpenPlans /\ OpenPlans' = OpenPlans \ {p} /\ phase' = phase
    BY <2>1, ClosedExposure DEF ClosePosition
  <2>3. Exposure!Close(p)
    BY <2>2 DEF Exposure!Close
  <2>4. QED
    BY <2>3 DEF Exposure!AbsNext
<1>7. QED
  BY <1>1, <1>2, <1>3, <1>4, <1>5, <1>6, LedgerSteps

\* Read through PhaseOf and the open positions, the ledger takes only steps of
\* SignalExposure: a signal is taken up once, comes to one outcome, and shares
\* its security with no other open position.
THEOREM RefinementTheorem == Spec => ImplementsExposure
<1>1. Init => Exposure!AbsInit
  BY DEF Init, LedgerInit, NoPosition, OpenPlans, PhaseOf, Exposure!AbsInit
<1>2. ControllerTypeOK /\ RowsOwned /\ [Next]_vars => [Exposure!AbsNext]_(Exposure!absVars)
  BY ExposureStep
<1>3. QED
  BY <1>1, <1>2, RowsAlwaysOwned, PTL DEF Spec, ImplementsExposure, Exposure!AbsSpec

=============================================================================
