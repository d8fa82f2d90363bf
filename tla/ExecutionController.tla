------------------------- MODULE ExecutionController -------------------------
(***************************************************************************)
(* Execution control: submit, approve, the kill limits, and the paper and  *)
(* live execution paths (execution/controller.py, execution/paper.py),     *)
(* over the ledger of ExecutionLedger.                                     *)
(*                                                                         *)
(* The controller takes no lock over a call: a call is a sequence of       *)
(* ledger transactions, each atomic, between which other calls, the        *)
(* operator's kill switch, a master refresh and the closing of a position  *)
(* may run.  There is one action per ledger access or broker exchange, and *)
(* pc says which one comes next.                                           *)
(***************************************************************************)
EXTENDS ExecutionLedger

CONSTANTS
    Submitters,     \* threads that call submit (the acquisition worker)
    Approvers,      \* threads that call approve (HTTP request threads)
    Modes,          \* execution modes a (re)started process may be given
    LiveReady,      \* live_enabled, and a live gateway is configured
    Admissible,     \* the plans that pass every check not about time or state
    ValidFrom,      \* plan -> first instant at which its time gates pass
    ValidUntil,     \* plan -> first instant at which they no longer do
    MaxDailyLoss, MaxConsecutiveLosses,
    FillNum, FillDen,   \* partial_fill_ratio of the paper broker
    AckStates,      \* order states the live broker may report
    Moves,          \* price moves at which a position may be closed
    Registries,     \* the sets of securities a master refresh may verify
    NoPlan,
    MaxClock, MaxRestarts

Callers == Submitters \cup Approvers
ExecutionModes == {"OFF", "DATA_ONLY", "PAPER_TRADING", "MANUAL_APPROVAL", "LIVE_AUTOMATIC"}

ASSUME ControllerAssumption ==
    /\ Modes \subseteq ExecutionModes
    /\ LiveReady \in BOOLEAN
    /\ Admissible \subseteq Plans
    /\ ValidFrom \in [Plans -> Nat]
    /\ ValidUntil \in [Plans -> Nat]
    /\ MaxDailyLoss \in Nat \ {0}
    /\ MaxConsecutiveLosses \in Nat \ {0}
    /\ FillDen \in Nat \ {0}
    /\ FillNum \in 0..FillDen
    /\ AckStates \subseteq OrderStates
    /\ Moves \subseteq Int
    /\ Registries \subseteq SUBSET Securities
    /\ NoPlan \notin Plans
    /\ MaxClock \in Nat
    /\ MaxRestarts \in Nat

VARIABLES
    clock,          \* the wall clock
    mode,           \* policy.mode of the running process
    registry,       \* securities of the verified instrument registry
    restarts,       \* number of crashes so far
    broker,         \* per plan, what the live broker was sent and holds
    pc,             \* per caller, the next step of its call
    call,           \* per caller, the operation, its plan and its `now`
    ack,            \* per caller, the broker's acknowledgement
    halted          \* history: the kill switch has been on throughout the call

envVars    == <<clock, mode, registry, restarts>>
callVars   == <<pc, call, ack, halted>>
vars       == <<ledgerVars, envVars, broker, callVars>>

Labels == {"idle", "awaiting_check", "kill_switch", "daily_loss", "streak",
           "trip_daily", "trip_streak", "known_check", "gates", "exposure",
           "record_signal", "route", "record_approval", "paper",
           "live_lookup", "live_record", "live_unknown", "live_uncertain"}

NoCall == [op |-> "none", plan |-> NoPlan, now |-> 0]
Call   == [op : {"submit", "approve"}, plan : Plans, now : Nat]

EnvTypeOK ==
    /\ clock \in Nat
    /\ mode \in ExecutionModes
    /\ registry \subseteq Securities
    /\ restarts \in Nat
    /\ broker \in [Plans -> [sent : Nat, holds : {"nothing", "inflight", "order"}]]

CallTypeOK ==
    /\ pc \in [Callers -> Labels]
    /\ call \in [Callers -> Call \cup {NoCall}]
    /\ \A t \in Callers : pc[t] # "idle" => call[t] \in Call
    /\ ack \in [Callers -> Order]
    /\ halted \in [Callers -> BOOLEAN]

\* Every variable has its type, and a call in progress has its plan.
ControllerTypeOK == LedgerTypeOK /\ EnvTypeOK /\ CallTypeOK

Init ==
    /\ LedgerInit
    /\ clock = 0
    /\ mode \in Modes
    /\ registry = {}
    /\ restarts = 0
    /\ broker = [p \in Plans |-> [sent |-> 0, holds |-> "nothing"]]
    /\ pc = [t \in Callers |-> "idle"]
    /\ call = [t \in Callers |-> NoCall]
    /\ ack = [t \in Callers |-> NoOrder]
    /\ halted = [t \in Callers |-> FALSE]

-----------------------------------------------------------------------------
(* Control flow of a call *)

Goto(t, label) ==
    /\ pc' = [pc EXCEPT ![t] = label]
    /\ UNCHANGED <<call, ack, halted>>

\* The call returns or raises: nothing of it survives but what it committed.
Return(t) ==
    /\ pc' = [pc EXCEPT ![t] = "idle"]
    /\ call' = [call EXCEPT ![t] = NoCall]
    /\ ack' = [ack EXCEPT ![t] = NoOrder]
    /\ halted' = [halted EXCEPT ![t] = FALSE]

Begin(t, op, p, label) ==
    /\ pc[t] = "idle"
    /\ pc' = [pc EXCEPT ![t] = label]
    /\ call' = [call EXCEPT ![t] = [op |-> op, plan |-> p, now |-> clock]]
    /\ halted' = [halted EXCEPT ![t] = killSwitch.active]
    /\ UNCHANGED <<ack, ledgerVars, envVars, broker>>

BeginSubmit(t, p) == t \in Submitters /\ Begin(t, "submit", p, "kill_switch")

BeginApprove(t, p) ==
    /\ t \in Approvers
    /\ mode = "MANUAL_APPROVAL"
    /\ Begin(t, "approve", p, "awaiting_check")

\* Mutant: approve goes to the plan's gates without the kill limits.
CheckAwaitingOnly(t) ==
    /\ pc[t] = "awaiting_check"
    /\ IF signals[call[t].plan] = "AWAITING_APPROVAL" THEN Goto(t, "gates") ELSE Return(t)
    /\ UNCHANGED <<ledgerVars, envVars, broker>>

\* approve: the plan exists and its signal is awaiting approval.
CheckAwaiting(t) ==
    /\ pc[t] = "awaiting_check"
    /\ IF signals[call[t].plan] = "AWAITING_APPROVAL" THEN Goto(t, "kill_switch") ELSE Return(t)
    /\ UNCHANGED <<ledgerVars, envVars, broker>>

-----------------------------------------------------------------------------
(* _check_kill_limits *)

CheckKillSwitch(t) ==
    /\ pc[t] = "kill_switch"
    /\ IF killSwitch.active THEN Return(t) ELSE Goto(t, "daily_loss")
    /\ UNCHANGED <<ledgerVars, envVars, broker>>

DailyLossReached(now) == DailyRealizedPnl(Day(now)) <= -MaxDailyLoss

\* Mutant: the loss has to exceed the limit.
CheckDailyLossStrict(t) ==
    /\ pc[t] = "daily_loss"
    /\ Goto(t, IF DailyRealizedPnl(Day(call[t].now)) < -MaxDailyLoss THEN "trip_daily" ELSE "streak")
    /\ UNCHANGED <<ledgerVars, envVars, broker>>

CheckDailyLoss(t) ==
    /\ pc[t] = "daily_loss"
    /\ Goto(t, IF DailyLossReached(call[t].now) THEN "trip_daily" ELSE "streak")
    /\ UNCHANGED <<ledgerVars, envVars, broker>>

StreakReached == ConsecutiveLosses >= MaxConsecutiveLosses

\* Mutant: the streak has to exceed the limit.
CheckStreakStrict(t) ==
    /\ pc[t] = "streak"
    /\ Goto(t, IF ConsecutiveLosses > MaxConsecutiveLosses THEN "trip_streak"
               ELSE IF call[t].op = "submit" THEN "known_check" ELSE "gates")
    /\ UNCHANGED <<ledgerVars, envVars, broker>>

\* The limits hold; submit goes on to its idempotency check, approve skips it.
CheckStreak(t) ==
    /\ pc[t] = "streak"
    /\ Goto(t, IF StreakReached THEN "trip_streak"
               ELSE IF call[t].op = "submit" THEN "known_check" ELSE "gates")
    /\ UNCHANGED <<ledgerVars, envVars, broker>>

TripKillSwitch(t) ==
    /\ pc[t] \in {"trip_daily", "trip_streak"}
    /\ SetKillSwitch(TRUE, IF pc[t] = "trip_daily" THEN "daily loss limit reached"
                           ELSE "consecutive loss limit reached")
    /\ Return(t)
    /\ UNCHANGED <<envVars, broker>>

-----------------------------------------------------------------------------
(* _validate_plan *)

CheckKnown(t) ==
    /\ pc[t] = "known_check"
    /\ IF SignalExists(call[t].plan) THEN Return(t) ELSE Goto(t, "gates")
    /\ UNCHANGED <<ledgerVars, envVars, broker>>

\* The registry is read under its own lock; the gates on quantity, price, loss
\* and risk flags are Admissible, and those that compare an instant of the plan
\* with the call's now (data age, validity, expiry buffer) are an interval.
GatesPass(p, now) ==
    /\ SecurityOf[p] \in registry
    /\ p \in Admissible
    /\ ValidFrom[p] <= now
    /\ now < ValidUntil[p]

CheckGates(t) ==
    /\ pc[t] = "gates"
    /\ IF GatesPass(call[t].plan, call[t].now) THEN Goto(t, "exposure") ELSE Return(t)
    /\ UNCHANGED <<ledgerVars, envVars, broker>>

\* Mutant: an open position is no reason to stop.
CheckExposureIgnored(t) ==
    /\ pc[t] = "exposure"
    /\ Goto(t, IF call[t].op = "submit" THEN "record_signal" ELSE "record_approval")
    /\ UNCHANGED <<ledgerVars, envVars, broker>>

\* Mutant: submit executes first and leaves the signal row for later.
CheckExposureBeforeIntent(t) ==
    /\ pc[t] = "exposure"
    /\ IF OpenPositionForSecurity(SecurityOf[call[t].plan]) THEN Return(t)
       ELSE Goto(t, IF call[t].op = "submit" THEN "route" ELSE "record_approval")
    /\ UNCHANGED <<ledgerVars, envVars, broker>>

CheckExposure(t) ==
    /\ pc[t] = "exposure"
    /\ IF OpenPositionForSecurity(SecurityOf[call[t].plan]) THEN Return(t)
       ELSE Goto(t, IF call[t].op = "submit" THEN "record_signal" ELSE "record_approval")
    /\ UNCHANGED <<ledgerVars, envVars, broker>>

-----------------------------------------------------------------------------
(* The rest of submit and approve *)

\* The insert, or DuplicateSignalError from the primary key.
RecordReceived(t) ==
    /\ pc[t] = "record_signal"
    /\ \/ RecordSignal(call[t].plan, "RECEIVED") /\ Goto(t, "route")
       \/ SignalExists(call[t].plan) /\ Return(t) /\ UNCHANGED ledgerVars
    /\ UNCHANGED <<envVars, broker>>

\* Mutant: DATA_ONLY is forgotten among the modes.
BlocksOff == \/ mode = "OFF"
             \/ mode = "LIVE_AUTOMATIC" /\ ~LiveReady

Blocks == \/ mode \in {"OFF", "DATA_ONLY"}
          \/ mode = "LIVE_AUTOMATIC" /\ ~LiveReady

Block(t) ==
    /\ pc[t] = "route"
    /\ Blocks
    /\ UpdateSignalState(call[t].plan, "BLOCKED")
    /\ Return(t)
    /\ UNCHANGED <<envVars, broker>>

Park(t) ==
    /\ pc[t] = "route"
    /\ mode = "MANUAL_APPROVAL"
    /\ UpdateSignalState(call[t].plan, "AWAITING_APPROVAL")
    /\ Return(t)
    /\ UNCHANGED <<envVars, broker>>

\* Mutant: the approval is not recorded before the execution.
ApproveUnrecorded(t) ==
    /\ pc[t] = "record_approval"
    /\ Goto(t, "paper")
    /\ UNCHANGED <<ledgerVars, envVars, broker>>

\* The insert, or ApprovalError when the signal already has an approval.
Approve(t) ==
    /\ pc[t] = "record_approval"
    /\ \/ RecordApproval(call[t].plan) /\ Goto(t, "paper")
       \/ call[t].plan \in approvals /\ Return(t) /\ UNCHANGED ledgerVars
    /\ UNCHANGED <<envVars, broker>>

-----------------------------------------------------------------------------
(* Paper execution *)

\* floor(quantity * ratio), at least 1 when the ratio is positive, at most quantity.
PaperFilled(p) ==
    LET share == (Quantity[p] * FillNum) \div FillDen
        atLeast == IF FillNum > 0 /\ share = 0 THEN 1 ELSE share
    IN  IF atLeast > Quantity[p] THEN Quantity[p] ELSE atLeast

PaperOrder(p) ==
    [state  |-> IF PaperFilled(p) = Quantity[p] THEN "FILLED"
                ELSE IF PaperFilled(p) > 0 THEN "PARTIALLY_FILLED"
                ELSE "ACKNOWLEDGED",
     filled |-> PaperFilled(p)]

\* record_execution commits, or its IntegrityError rolls it back and is raised.
Execute(t, p, order) ==
    /\ \/ RecordExecution(p, order)
       \/ ExecutionRefused(p, order) /\ UNCHANGED ledgerVars
    /\ Return(t)

ExecutePaper(t) ==
    /\ \/ pc[t] = "route" /\ mode = "PAPER_TRADING"
       \/ pc[t] = "paper"
    /\ Execute(t, call[t].plan, PaperOrder(call[t].plan))
    /\ UNCHANGED <<envVars, broker>>

-----------------------------------------------------------------------------
(* Live execution.  The gateway is a protocol with no implementation in the  *)
(* repository: it may answer, time out, or fail, and in the last two cases   *)
(* the broker may or may not have, or may yet come to have, the order.       *)

Acknowledgements(p) == [state : AckStates, filled : 0..Quantity[p]]

MaySend(t) == pc[t] = "route" /\ mode = "LIVE_AUTOMATIC" /\ LiveReady

Sent(p, holds) == broker' = [broker EXCEPT ![p] = [sent |-> @.sent + 1, holds |-> holds]]

SubmitAnswered(t) ==
    /\ MaySend(t)
    /\ Sent(call[t].plan, "order")
    /\ \E a \in Acknowledgements(call[t].plan) : ack' = [ack EXCEPT ![t] = a]
    /\ pc' = [pc EXCEPT ![t] = "live_record"]
    /\ UNCHANGED <<call, halted, ledgerVars, envVars>>

\* Mutant: a timeout is retried.
SubmitTimedOutRetry(t) ==
    /\ MaySend(t)
    /\ \E h \in {"nothing", "inflight", "order"} : Sent(call[t].plan, h)
    /\ Goto(t, "route")
    /\ UNCHANGED <<ledgerVars, envVars>>

SubmitTimedOut(t) ==
    /\ MaySend(t)
    /\ \E h \in {"nothing", "inflight", "order"} : Sent(call[t].plan, h)
    /\ Goto(t, "live_lookup")
    /\ UNCHANGED <<ledgerVars, envVars>>

\* An acknowledgement that fails the checks, or any other exception.
SubmitUnusable(t) ==
    /\ MaySend(t)
    /\ \E h \in {"nothing", "inflight", "order"} : Sent(call[t].plan, h)
    /\ Return(t)
    /\ UNCHANGED <<ledgerVars, envVars>>

LookupFound(t) ==
    /\ pc[t] = "live_lookup"
    /\ broker[call[t].plan].holds = "order"
    /\ \E a \in Acknowledgements(call[t].plan) : ack' = [ack EXCEPT ![t] = a]
    /\ pc' = [pc EXCEPT ![t] = "live_record"]
    /\ UNCHANGED <<call, halted, ledgerVars, envVars, broker>>

LookupMissing(t) ==
    /\ pc[t] = "live_lookup"
    /\ broker[call[t].plan].holds # "order"
    /\ Goto(t, "live_unknown")
    /\ UNCHANGED <<ledgerVars, envVars, broker>>

LookupUnusable(t) ==
    /\ pc[t] = "live_lookup"
    /\ Return(t)
    /\ UNCHANGED <<ledgerVars, envVars, broker>>

ExecuteLive(t) ==
    /\ pc[t] = "live_record"
    /\ Execute(t, call[t].plan, ack[t])
    /\ UNCHANGED <<envVars, broker>>

UnknownOrder == [state |-> "UNKNOWN", filled |-> 0]

\* The unknown order and the UNCERTAIN state are two transactions.
RecordUnknown(t) ==
    /\ pc[t] = "live_unknown"
    /\ \/ RecordExecution(call[t].plan, UnknownOrder) /\ Goto(t, "live_uncertain")
       \/ ExecutionRefused(call[t].plan, UnknownOrder) /\ Return(t) /\ UNCHANGED ledgerVars
    /\ UNCHANGED <<envVars, broker>>

MarkUncertain(t) ==
    /\ pc[t] = "live_uncertain"
    /\ UpdateSignalState(call[t].plan, "UNCERTAIN")
    /\ Return(t)
    /\ UNCHANGED <<envVars, broker>>

-----------------------------------------------------------------------------
(* The environment of the calls *)

\* POST /kill-switch.
OperatorSetKillSwitch(active) ==
    /\ SetKillSwitch(active, "operator")
    /\ halted' = [t \in Callers |-> active /\ halted[t]]
    /\ UNCHANGED <<envVars, broker, pc, call, ack>>

\* The only writer of positions after their creation; it has no caller in src/
\* but the tests, and stands for whoever squares off a position.
Close(p) ==
    /\ \E move \in Moves : ClosePosition(p, move, clock)
    /\ UNCHANGED <<envVars, broker, callVars>>

\* replace_instrument_registry after a master refresh.
ReplaceRegistry ==
    /\ registry' \in Registries \ {registry}
    /\ UNCHANGED <<ledgerVars, clock, mode, restarts, broker, callVars>>

\* The mutation that timed out reaches the broker after all.
LateAccept(p) ==
    /\ broker[p].holds = "inflight"
    /\ broker' = [broker EXCEPT ![p] = [sent |-> broker[p].sent, holds |-> "order"]]
    /\ UNCHANGED <<ledgerVars, envVars, callVars>>

Tick ==
    /\ clock < MaxClock
    /\ clock' = clock + 1
    /\ UNCHANGED <<ledgerVars, mode, registry, restarts, broker, callVars>>

\* The process dies between two steps and is started again: calls vanish, the
\* registry is empty until a refresh, the mode is read anew; ledger and broker stay.
Restart ==
    /\ restarts < MaxRestarts
    /\ restarts' = restarts + 1
    /\ mode' \in Modes
    /\ registry' = {}
    /\ pc' = [t \in Callers |-> "idle"]
    /\ call' = [t \in Callers |-> NoCall]
    /\ ack' = [t \in Callers |-> NoOrder]
    /\ halted' = [t \in Callers |-> FALSE]
    /\ UNCHANGED <<ledgerVars, clock, broker>>

-----------------------------------------------------------------------------

LimitStep(t) == CheckAwaiting(t) \/ CheckKillSwitch(t) \/ CheckDailyLoss(t)
                \/ CheckStreak(t) \/ TripKillSwitch(t)
PlanStep(t)  == CheckKnown(t) \/ CheckGates(t) \/ CheckExposure(t)
WriteStep(t) == RecordReceived(t) \/ Block(t) \/ Park(t) \/ Approve(t) \/ ExecutePaper(t)
LiveStep(t)  == SubmitAnswered(t) \/ SubmitTimedOut(t) \/ SubmitUnusable(t)
                \/ LookupFound(t) \/ LookupMissing(t) \/ LookupUnusable(t)
                \/ ExecuteLive(t) \/ RecordUnknown(t) \/ MarkUncertain(t)

Step(t) == LimitStep(t) \/ PlanStep(t) \/ WriteStep(t) \/ LiveStep(t)

Environment ==
    \/ \E active \in BOOLEAN : OperatorSetKillSwitch(active)
    \/ \E p \in Plans : Close(p) \/ LateAccept(p)
    \/ ReplaceRegistry
    \/ Tick
    \/ Restart

Next ==
    \/ \E t \in Callers, p \in Plans : BeginSubmit(t, p) \/ BeginApprove(t, p)
    \/ \E t \in Callers : Step(t)
    \/ Environment

Spec == Init /\ [][Next]_vars

\* A started call keeps running: its thread is scheduled and the gateway ends
\* every exchange, with an answer, a timeout or an error.  Nothing obliges the
\* environment, or a caller to begin.
FairSpec == Spec /\ \A t \in Callers : WF_vars(Step(t))

=============================================================================
