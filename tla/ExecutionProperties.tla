------------------------ MODULE ExecutionProperties ------------------------
(***************************************************************************)
(* What must hold of execution control, and the refinement of              *)
(* SignalExposure by it.                                                   *)
(***************************************************************************)
EXTENDS ExecutionController

Executed == {"SUBMITTED", "PARTIALLY_FILLED", "FILLED", "UNCERTAIN"}

\* At most one open position per security, whichever callers race for it: the
\* gate of _validate_plan is read long before record_execution writes, so the
\* unique index one_open_position_per_security has to carry this.
OneOpenPositionPerSecurity ==
    \A p, q \in OpenPlans : SecurityOf[p] = SecurityOf[q] => p = q

\* The tables tell one story of a signal whatever was rolled back, crashed or
\* closed: an order row exactly for an executed signal, a state that agrees with
\* the filled quantity, a position exactly for a fill and of its size, an approval
\* only for a signal that was parked, and one journal row per order and closing.
TablesAgree ==
    \A p \in Plans :
        /\ signals[p] \in Executed <=> orders[p] # NoOrder
        /\ signals[p] = "FILLED" <=> orders[p].filled = Quantity[p]
        /\ signals[p] = "PARTIALLY_FILLED" <=> orders[p].filled \in 1..(Quantity[p] - 1)
        /\ positions[p].state # "NONE" <=> orders[p].filled > 0
        /\ positions[p].quantity = orders[p].filled
        /\ p \in approvals => signals[p] \in {"AWAITING_APPROVAL"} \cup Executed
        /\ {j \in journal : j.signal = p} =
              (IF orders[p] # NoOrder
               THEN {[entry |-> "ORDER_RECORDED", signal |-> p, amount |-> 0]} ELSE {})
              \cup
              (IF positions[p].state = "CLOSED"
               THEN {[entry |-> "POSITION_CLOSED", signal |-> p, amount |-> positions[p].pnl]}
               ELSE {})

\* A kill switch that has been on throughout a call stops it at
\* _check_kill_limits: no call gets past that check on a stale reading from
\* before it began, by submit or by approve.
HaltStopsCalls ==
    \A t \in Callers : pc[t] \in Labels \ {"idle", "awaiting_check", "kill_switch"} => ~halted[t]

\* A parked signal leaves AWAITING_APPROVAL only with an approval on record,
\* across restarts into any mode and however often it is submitted again.
ParkedNeedsApproval ==
    [][\A p \in Plans :
         signals[p] = "AWAITING_APPROVAL" /\ signals'[p] # signals[p] => p \in approvals]_vars

\* The mutation is sent at most once per correlation id, over all callers,
\* timeouts and restarts ("never submit the mutation a second time").
AtMostOneMutation == \A p \in Plans : broker[p].sent <= 1

\* No order can be at the broker that the ledger has no trace of: the signal is
\* recorded before the mutation is sent, and nothing marks it blocked or parked.
IntentPrecedesMutation ==
    \A p \in Plans : broker[p].sent > 0 => signals[p] \in {"RECEIVED"} \cup Executed

Settled == Labels \ {"idle", "awaiting_check", "kill_switch", "daily_loss", "streak",
                     "trip_streak", "trip_daily"}

\* No position left to win back with, the loss streak at its limit, and no call
\* that read it before.
StreakLock == StreakReached /\ OpenPlans = {} /\ \A t \in Callers : pc[t] \notin Settled

\* consecutive_losses is over all days and only a profitable closing ends it, so
\* this lock is never left: not by the operator switching the kill switch off,
\* not by a new day, not by a restart.
StreakLockIsPermanent == [][StreakLock => StreakLock']_vars

\* The same of the daily limit, with every running call's now on the day itself.
DailyLock ==
    /\ DailyLossReached(clock)
    /\ OpenPlans = {}
    /\ \A t \in Callers : pc[t] \notin Settled \cup {"streak", "trip_streak"}
    /\ \A t \in Callers : pc[t] # "idle" => Day(call[t].now) = Day(clock)

\* Once the daily limit is reached, nothing short of the next day lifts the lock: not the kill
\* switch, not a restart, not a further closing.
DailyLockLastsTheDay == [][DailyLock => DailyLock' \/ Day(clock') # Day(clock)]_vars

\* With submit called from one thread at a time, as the acquisition cycle lock
\* has it, the exposure gate still holds when the execution is recorded, some
\* transactions after it was read: no fill is turned away by the unique index.
GateHoldsToRecord ==
    \A t \in Callers : pc[t] = "route" => ~OpenPositionForSecurity(SecurityOf[call[t].plan])

\* A recorded signal does not stay RECEIVED: the call that recorded it goes on to
\* block it, park it or execute it.  (Not so after a crash, an unusable answer of
\* the gateway, or a lost race for the security.)
ReceivedIsSettled ==
    \A p \in Plans : signals[p] = "RECEIVED" ~> signals[p] # "RECEIVED"

-----------------------------------------------------------------------------
(* The inductive invariant behind the theorems: who may touch a plan's rows *)

AfterSubmit  == {"known_check", "record_signal", "route",
                 "live_lookup", "live_record", "live_unknown", "live_uncertain"}
AfterApprove == {"awaiting_check", "record_approval", "paper"}

\* The labels at which a submit call owns the plan whose row it inserted.
Owning == {"route", "live_lookup", "live_record", "live_unknown", "live_uncertain"}

PathsApart ==
    \A t \in Callers :
        /\ pc[t] \in AfterSubmit => call[t].op = "submit"
        /\ pc[t] \in AfterApprove => call[t].op = "approve"

OneOwner ==
    \A t, u \in Callers :
        pc[t] \in Owning /\ pc[u] \in Owning /\ call[t].plan = call[u].plan => t = u

OwnedRows ==
    \A t \in Callers :
        /\ pc[t] \in Owning \ {"live_uncertain"} => signals[call[t].plan] = "RECEIVED"
        /\ pc[t] = "live_uncertain" => signals[call[t].plan] = "SUBMITTED"
        /\ pc[t] = "route" => broker[call[t].plan].sent = 0
        /\ pc[t] = "live_record" => /\ ack[t].state # "NONE"
                                    /\ ack[t].filled <= Quantity[call[t].plan]

\* A signal past its parking is never handed back to a submit call.
ParkedRows ==
    /\ \A p \in approvals : signals[p] \in {"AWAITING_APPROVAL"} \cup Executed
    /\ \A t \in Callers :
         /\ call[t].op = "approve" /\ pc[t] \notin {"idle", "awaiting_check"} =>
              signals[call[t].plan] \in {"AWAITING_APPROVAL"} \cup Executed
         /\ pc[t] = "paper" => call[t].plan \in approvals

OrderRows == \A p \in Plans : signals[p] \in Executed <=> orders[p].state # "NONE"

RowsOwned == /\ PathsApart /\ OneOwner /\ OwnedRows /\ ParkedRows /\ OrderRows
             /\ AtMostOneMutation /\ IntentPrecedesMutation

\* A halted call was begun, and has stayed, under an active kill switch.
HaltIsActive == \A t \in Callers : halted[t] => killSwitch.active

-----------------------------------------------------------------------------
(* Refinement *)

PhaseOf(state) ==
    IF state = "ABSENT" THEN "unseen"
    ELSE IF state = "RECEIVED" THEN "intended"
    ELSE IF state = "AWAITING_APPROVAL" THEN "parked"
    ELSE IF state = "BLOCKED" THEN "refused"
    ELSE "executed"

Exposure == INSTANCE SignalExposure
    WITH phase <- [p \in Plans |-> PhaseOf(signals[p])], exposed <- OpenPlans

\* Execution control implements SignalExposure: the ledger's rows, read through
\* PhaseOf and the open positions, only ever take its steps.
ImplementsExposure == Exposure!AbsSpec

=============================================================================
