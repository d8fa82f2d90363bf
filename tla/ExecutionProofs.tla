--------------------------- MODULE ExecutionProofs ---------------------------
(***************************************************************************)
(* Theorems about execution control, for every set of plans, securities,   *)
(* callers and every value of the limits.                                  *)
(***************************************************************************)
EXTENDS ExecutionProperties, FiniteSetTheorems, TLAPS

-----------------------------------------------------------------------------
(* Types *)

\* The row a fill inserts into positions is well typed; its row number is one
\* more than the number of rows, which is finite.
LEMMA OpenedPositionType ==
    ASSUME NEW order \in Order
    PROVE  OpenedPosition(order) \in Position
<1>1. Cardinality(OpenPlans \cup ClosedPlans) \in Nat
  <2>1. OpenPlans \cup ClosedPlans \subseteq Plans
    BY DEF OpenPlans, ClosedPlans
  <2>2. IsFiniteSet(OpenPlans \cup ClosedPlans)
    BY <2>1, PlansAssumption, FS_Subset DEF PlansAssumption
  <2>3. QED
    BY <2>2, FS_CardinalityType
<1>2. QED
  BY <1>1 DEF OpenedPosition, NoPosition, Order, Position

\* The paper broker fills between nothing and the ordered quantity.
LEMMA PaperFilledBounds ==
    ASSUME NEW p \in Plans
    PROVE  PaperFilled(p) \in 0..Quantity[p]
<1> DEFINE share == (Quantity[p] * FillNum) \div FillDen
<1>1. Quantity[p] \in Nat /\ Quantity[p] > 0
  BY PlansAssumption DEF PlansAssumption
<1>2. FillNum \in Nat /\ FillDen \in Nat /\ FillDen > 0
  BY ControllerAssumption DEF ControllerAssumption
<1>3. Quantity[p] * FillNum \in Nat
  BY <1>1, <1>2
<1>4. share \in Nat
  BY <1>2, <1>3
<1> HIDE DEF share
<1>5. QED
  BY <1>1, <1>2, <1>4 DEF PaperFilled, share

LEMMA PaperOrderType ==
    ASSUME NEW p \in Plans
    PROVE  PaperOrder(p) \in Order
  BY PaperFilledBounds, PlansAssumption DEF PlansAssumption, PaperOrder, Order, OrderStates

\* Every transaction keeps the ledger's types.
LEMMA SignalWriteTypes ==
    ASSUME LedgerTypeOK, NEW p \in Plans, NEW s \in SignalStates,
           RecordSignal(p, s) \/ UpdateSignalState(p, s)
    PROVE  LedgerTypeOK'
  BY DEF LedgerTypeOK, RecordSignal, UpdateSignalState

LEMMA ApprovalWriteTypes ==
    ASSUME LedgerTypeOK, NEW p \in Plans, RecordApproval(p)
    PROVE  LedgerTypeOK'
  BY DEF LedgerTypeOK, RecordApproval

LEMMA ExecutionWriteTypes ==
    ASSUME LedgerTypeOK, NEW p \in Plans, NEW order \in Order, RecordExecution(p, order)
    PROVE  LedgerTypeOK'
<1>1. ExecutedState(p, order) \in SignalStates
  BY DEF ExecutedState, SignalStates
<1>2. OpenedPosition(order) \in Position
  BY OpenedPositionType
<1>3. [entry |-> "ORDER_RECORDED", signal |-> p, amount |-> 0] \in JournalEntry
  BY DEF JournalEntry
<1>4. QED
  BY <1>1, <1>2, <1>3 DEF LedgerTypeOK, RecordExecution

LEMMA CloseWriteTypes ==
    ASSUME LedgerTypeOK, NEW p \in Plans, NEW move \in Int, NEW at \in Nat,
           ClosePosition(p, move, at)
    PROVE  LedgerTypeOK'
<1> DEFINE pnl == move * positions[p].quantity
           closed == [state |-> "CLOSED", quantity |-> positions[p].quantity, pnl |-> pnl,
                      closedAt |-> at, row |-> positions[p].row]
           entry == [entry |-> "POSITION_CLOSED", signal |-> p, amount |-> pnl]
<1>1. positions[p].quantity \in Nat /\ positions[p].row \in Nat
  BY DEF LedgerTypeOK, Position
<1>2. pnl \in Int
  BY <1>1
<1>3. positions' = [positions EXCEPT ![p] = closed] /\ journal' = journal \cup {entry}
  BY DEF ClosePosition
<1> HIDE DEF pnl
<1>4. closed \in Position /\ entry \in JournalEntry
  BY <1>1, <1>2 DEF Position, JournalEntry
<1> HIDE DEF closed, entry
<1>5. QED
  BY <1>3, <1>4 DEF LedgerTypeOK, ClosePosition

\* Control flow keeps the types of a call's variables.
LEMMA ReturnTypes ==
    ASSUME CallTypeOK, NEW t \in Callers, Return(t)
    PROVE  CallTypeOK'
<1>1. NoOrder \in Order /\ "idle" \in Labels
  BY DEF NoOrder, Order, Labels
<1>2. QED
  BY <1>1 DEF Return, CallTypeOK

LEMMA GotoTypes ==
    ASSUME CallTypeOK, NEW t \in Callers, NEW label \in Labels, pc[t] # "idle", Goto(t, label)
    PROVE  CallTypeOK'
  BY DEF Goto, CallTypeOK


\* A call in progress names a plan and carries the instant it began at.
LEMMA CallInProgress ==
    ASSUME ControllerTypeOK, NEW t \in Callers, pc[t] # "idle"
    PROVE  call[t] \in Call /\ call[t].plan \in Plans /\ call[t].now \in Nat
  BY DEF ControllerTypeOK, CallTypeOK, Call

\* Steps that leave the ledger and the environment alone.
LEMMA ReadStepTypes ==
    ASSUME ControllerTypeOK, NEW t \in Callers, pc[t] # "idle",
           Return(t) \/ \E label \in Labels : Goto(t, label),
           UNCHANGED <<ledgerVars, envVars, broker>>
    PROVE  ControllerTypeOK'
<1>1. LedgerTypeOK'
  BY DEF ControllerTypeOK, LedgerTypeOK, ledgerVars
<1>2. EnvTypeOK'
  BY DEF ControllerTypeOK, EnvTypeOK, envVars
<1>3. CallTypeOK'
  BY ReturnTypes, GotoTypes DEF ControllerTypeOK
<1>4. QED
  BY <1>1, <1>2, <1>3 DEF ControllerTypeOK

LEMMA BeginTypes ==
    ASSUME ControllerTypeOK, NEW t \in Callers, NEW p \in Plans,
           BeginSubmit(t, p) \/ BeginApprove(t, p)
    PROVE  ControllerTypeOK'
<1>1. PICK op \in {"submit", "approve"}, label \in Labels \ {"idle"} : Begin(t, op, p, label)
  BY DEF BeginSubmit, BeginApprove, Labels
<1>2. LedgerTypeOK' /\ EnvTypeOK'
  BY <1>1 DEF ControllerTypeOK, Begin, LedgerTypeOK, ledgerVars, EnvTypeOK, envVars
<1>3. [op |-> op, plan |-> p, now |-> clock] \in Call
  BY DEF Call, ControllerTypeOK, EnvTypeOK
<1>4. killSwitch.active \in BOOLEAN
  BY DEF ControllerTypeOK, LedgerTypeOK
<1>5. CallTypeOK'
  BY <1>1, <1>3, <1>4 DEF ControllerTypeOK, CallTypeOK, Begin
<1>6. QED
  BY <1>2, <1>5 DEF ControllerTypeOK

LEMMA LimitStepTypes ==
    ASSUME ControllerTypeOK, NEW t \in Callers, LimitStep(t)
    PROVE  ControllerTypeOK'
<1>1. CASE CheckAwaiting(t) \/ CheckKillSwitch(t) \/ CheckDailyLoss(t) \/ CheckStreak(t)
  <2>1. Return(t) \/ \E label \in Labels : Goto(t, label)
    BY <1>1 DEF CheckAwaiting, CheckKillSwitch, CheckDailyLoss, CheckStreak, Labels
  <2>2. pc[t] # "idle" /\ UNCHANGED <<ledgerVars, envVars, broker>>
    BY <1>1 DEF CheckAwaiting, CheckKillSwitch, CheckDailyLoss, CheckStreak
  <2>3. QED
    BY <2>1, <2>2, ReadStepTypes
<1>2. CASE TripKillSwitch(t)
  <2>1. LedgerTypeOK'
    BY <1>2 DEF TripKillSwitch, SetKillSwitch, ControllerTypeOK, LedgerTypeOK, KillReasons
  <2>2. EnvTypeOK'
    BY <1>2 DEF TripKillSwitch, ControllerTypeOK, EnvTypeOK, envVars
  <2>3. CallTypeOK'
    BY <1>2, ReturnTypes DEF TripKillSwitch, ControllerTypeOK
  <2>4. QED
    BY <2>1, <2>2, <2>3 DEF ControllerTypeOK
<1>3. QED
  BY <1>1, <1>2 DEF LimitStep

LEMMA PlanStepTypes ==
    ASSUME ControllerTypeOK, NEW t \in Callers, PlanStep(t)
    PROVE  ControllerTypeOK'
<1>1. Return(t) \/ \E label \in Labels : Goto(t, label)
  BY DEF PlanStep, CheckKnown, CheckGates, CheckExposure, Labels
<1>2. pc[t] # "idle" /\ UNCHANGED <<ledgerVars, envVars, broker>>
  BY DEF PlanStep, CheckKnown, CheckGates, CheckExposure
<1>3. QED
  BY <1>1, <1>2, ReadStepTypes

\* A recorded or refused execution, with the return that follows it.
LEMMA ExecuteTypes ==
    ASSUME ControllerTypeOK, NEW t \in Callers, NEW p \in Plans, NEW order \in Order,
           Execute(t, p, order), UNCHANGED <<envVars, broker>>
    PROVE  ControllerTypeOK'
<1>1. LedgerTypeOK'
  <2>1. CASE RecordExecution(p, order)
    BY <2>1, ExecutionWriteTypes DEF ControllerTypeOK
  <2>2. CASE UNCHANGED ledgerVars
    BY <2>2 DEF ControllerTypeOK, LedgerTypeOK, ledgerVars
  <2>3. QED
    BY <2>1, <2>2 DEF Execute
<1>2. EnvTypeOK'
  BY DEF ControllerTypeOK, EnvTypeOK, envVars
<1>3. CallTypeOK'
  BY ReturnTypes DEF Execute, ControllerTypeOK
<1>4. QED
  BY <1>1, <1>2, <1>3 DEF ControllerTypeOK


\* Steps that write the ledger and then go on or return.
LEMMA LedgerStepTypes ==
    ASSUME ControllerTypeOK, NEW t \in Callers, pc[t] # "idle", LedgerTypeOK',
           Return(t) \/ \E label \in Labels : Goto(t, label),
           UNCHANGED <<envVars, broker>>
    PROVE  ControllerTypeOK'
<1>1. EnvTypeOK'
  BY DEF ControllerTypeOK, EnvTypeOK, envVars
<1>2. CallTypeOK'
  BY ReturnTypes, GotoTypes DEF ControllerTypeOK
<1>3. QED
  BY <1>1, <1>2 DEF ControllerTypeOK

LEMMA WriteStepTypes ==
    ASSUME ControllerTypeOK, NEW t \in Callers, WriteStep(t)
    PROVE  ControllerTypeOK'
<1> DEFINE p == call[t].plan
<1>1. pc[t] # "idle"
  BY DEF WriteStep, RecordReceived, Block, Park, Approve, ExecutePaper
<1>2. p \in Plans /\ LedgerTypeOK
  BY <1>1, CallInProgress DEF ControllerTypeOK
<1>3. "route" \in Labels /\ "paper" \in Labels
  BY DEF Labels
<1>4. CASE RecordReceived(t)
  <2>1. LedgerTypeOK'
    <3>1. CASE RecordSignal(p, "RECEIVED")
      BY <3>1, <1>2, SignalWriteTypes DEF SignalStates
    <3>2. CASE UNCHANGED ledgerVars
      BY <3>2, <1>2 DEF LedgerTypeOK, ledgerVars
    <3>3. QED
      BY <1>4, <3>1, <3>2 DEF RecordReceived
  <2>2. QED
    BY <1>1, <1>3, <1>4, <2>1, LedgerStepTypes DEF RecordReceived
<1>5. CASE Block(t) \/ Park(t)
  <2>1. PICK s \in {"BLOCKED", "AWAITING_APPROVAL"} : UpdateSignalState(p, s)
    BY <1>5 DEF Block, Park
  <2>2. LedgerTypeOK'
    BY <2>1, <1>2, SignalWriteTypes DEF SignalStates
  <2>3. QED
    BY <1>1, <1>5, <2>2, LedgerStepTypes DEF Block, Park
<1>6. CASE Approve(t)
  <2>1. LedgerTypeOK'
    <3>1. CASE RecordApproval(p)
      BY <3>1, <1>2, ApprovalWriteTypes
    <3>2. CASE UNCHANGED ledgerVars
      BY <3>2, <1>2 DEF LedgerTypeOK, ledgerVars
    <3>3. QED
      BY <1>6, <3>1, <3>2 DEF Approve
  <2>2. QED
    BY <1>1, <1>3, <1>6, <2>1, LedgerStepTypes DEF Approve
<1>7. CASE ExecutePaper(t)
  BY <1>7, <1>2, PaperOrderType, ExecuteTypes DEF ExecutePaper
<1>8. QED
  BY <1>4, <1>5, <1>6, <1>7 DEF WriteStep

\* What the live broker acknowledges is an order.
LEMMA AcknowledgementType ==
    ASSUME NEW p \in Plans
    PROVE  Acknowledgements(p) \subseteq Order
  BY PlansAssumption, ControllerAssumption
     DEF PlansAssumption, ControllerAssumption, Acknowledgements, Order

LEMMA SendTypes ==
    ASSUME ControllerTypeOK, NEW p \in Plans, NEW h \in {"nothing", "inflight", "order"},
           Sent(p, h), UNCHANGED <<ledgerVars, envVars>>
    PROVE  LedgerTypeOK' /\ EnvTypeOK'
<1>1. LedgerTypeOK'
  BY DEF ControllerTypeOK, LedgerTypeOK, ledgerVars
<1>2. EnvTypeOK'
  BY DEF ControllerTypeOK, EnvTypeOK, envVars, Sent
<1>3. QED
  BY <1>1, <1>2

LEMMA LiveStepTypes ==
    ASSUME ControllerTypeOK, NEW t \in Callers, LiveStep(t)
    PROVE  ControllerTypeOK'
<1> DEFINE p == call[t].plan
<1>1. pc[t] # "idle"
  BY DEF LiveStep, SubmitAnswered, SubmitTimedOut, SubmitUnusable, MaySend, LookupFound,
         LookupMissing, LookupUnusable, ExecuteLive, RecordUnknown, MarkUncertain
<1>2. p \in Plans /\ LedgerTypeOK
  BY <1>1, CallInProgress DEF ControllerTypeOK
<1>3. {"live_lookup", "live_record", "live_unknown", "live_uncertain"} \subseteq Labels
  BY DEF Labels
<1>4. CASE SubmitAnswered(t)
  <2>1. LedgerTypeOK' /\ EnvTypeOK'
    BY <1>4, <1>2, SendTypes DEF SubmitAnswered
  <2>2. CallTypeOK'
    BY <1>1, <1>2, <1>3, <1>4, AcknowledgementType DEF SubmitAnswered, ControllerTypeOK, CallTypeOK
  <2>3. QED
    BY <2>1, <2>2 DEF ControllerTypeOK
<1>5. CASE SubmitTimedOut(t) \/ SubmitUnusable(t)
  <2>1. LedgerTypeOK' /\ EnvTypeOK'
    BY <1>5, <1>2, SendTypes DEF SubmitTimedOut, SubmitUnusable
  <2>2. CallTypeOK'
    BY <1>1, <1>3, <1>5, GotoTypes, ReturnTypes DEF SubmitTimedOut, SubmitUnusable, ControllerTypeOK
  <2>3. QED
    BY <2>1, <2>2 DEF ControllerTypeOK
<1>6. CASE LookupFound(t)
  <2>1. LedgerTypeOK' /\ EnvTypeOK'
    BY <1>6 DEF LookupFound, ControllerTypeOK, LedgerTypeOK, ledgerVars, EnvTypeOK, envVars
  <2>2. CallTypeOK'
    BY <1>1, <1>2, <1>3, <1>6, AcknowledgementType DEF LookupFound, ControllerTypeOK, CallTypeOK
  <2>3. QED
    BY <2>1, <2>2 DEF ControllerTypeOK
<1>7. CASE LookupMissing(t) \/ LookupUnusable(t)
  BY <1>1, <1>3, <1>7, ReadStepTypes DEF LookupMissing, LookupUnusable
<1>8. CASE ExecuteLive(t)
  <2>1. ack[t] \in Order
    BY DEF ControllerTypeOK, CallTypeOK
  <2>2. QED
    BY <1>2, <1>8, <2>1, ExecuteTypes DEF ExecuteLive
<1>9. CASE RecordUnknown(t)
  <2>1. UnknownOrder \in Order
    BY DEF UnknownOrder, Order, OrderStates
  <2>2. LedgerTypeOK'
    <3>1. CASE RecordExecution(p, UnknownOrder)
      BY <3>1, <1>2, <2>1, ExecutionWriteTypes
    <3>2. CASE UNCHANGED ledgerVars
      BY <3>2, <1>2 DEF LedgerTypeOK, ledgerVars
    <3>3. QED
      BY <1>9, <3>1, <3>2 DEF RecordUnknown
  <2>3. QED
    BY <1>1, <1>3, <1>9, <2>2, LedgerStepTypes DEF RecordUnknown
<1>10. CASE MarkUncertain(t)
  <2>1. LedgerTypeOK'
    BY <1>2, <1>10, SignalWriteTypes DEF MarkUncertain, SignalStates
  <2>2. QED
    BY <1>1, <1>10, <2>1, LedgerStepTypes DEF MarkUncertain
<1>11. QED
  BY <1>4, <1>5, <1>6, <1>7, <1>8, <1>9, <1>10 DEF LiveStep

LEMMA EnvironmentTypes ==
    ASSUME ControllerTypeOK, Environment
    PROVE  ControllerTypeOK'
<1> USE DEF ControllerTypeOK
<1>1. ASSUME NEW active \in BOOLEAN, OperatorSetKillSwitch(active) PROVE ControllerTypeOK'
  <2>1. LedgerTypeOK'
    BY <1>1 DEF OperatorSetKillSwitch, SetKillSwitch, LedgerTypeOK, KillReasons
  <2>2. EnvTypeOK' /\ CallTypeOK'
    BY <1>1 DEF OperatorSetKillSwitch, EnvTypeOK, envVars, CallTypeOK
  <2>3. QED
    BY <2>1, <2>2
<1>2. ASSUME NEW p \in Plans, Close(p) PROVE ControllerTypeOK'
  <2>1. PICK move \in Moves : ClosePosition(p, move, clock)
    BY <1>2 DEF Close
  <2>2. move \in Int /\ clock \in Nat
    BY ControllerAssumption DEF ControllerAssumption, EnvTypeOK
  <2>3. LedgerTypeOK'
    BY <2>1, <2>2, CloseWriteTypes
  <2>4. EnvTypeOK' /\ CallTypeOK'
    BY <1>2 DEF Close, EnvTypeOK, envVars, CallTypeOK, callVars
  <2>5. QED
    BY <2>3, <2>4
<1>3. ASSUME NEW p \in Plans, LateAccept(p) PROVE ControllerTypeOK'
  <2>1. LedgerTypeOK' /\ CallTypeOK'
    BY <1>3 DEF LateAccept, LedgerTypeOK, ledgerVars, CallTypeOK, callVars
  <2>2. EnvTypeOK'
    BY <1>3 DEF LateAccept, EnvTypeOK, envVars
  <2>3. QED
    BY <2>1, <2>2
<1>4. CASE ReplaceRegistry \/ Tick
  <2>1. LedgerTypeOK' /\ CallTypeOK'
    BY <1>4 DEF ReplaceRegistry, Tick, LedgerTypeOK, ledgerVars, CallTypeOK, callVars
  <2>2. EnvTypeOK'
    BY <1>4, ControllerAssumption DEF ReplaceRegistry, Tick, EnvTypeOK, ControllerAssumption
  <2>3. QED
    BY <2>1, <2>2
<1>5. CASE Restart
  <2>1. LedgerTypeOK'
    BY <1>5 DEF Restart, LedgerTypeOK, ledgerVars
  <2>2. EnvTypeOK'
    BY <1>5, ControllerAssumption DEF Restart, EnvTypeOK, ControllerAssumption
  <2>3. CallTypeOK'
    BY <1>5 DEF Restart, CallTypeOK, Labels, NoOrder, Order
  <2>4. QED
    BY <2>1, <2>2, <2>3
<1>6. QED
  BY <1>1, <1>2, <1>3, <1>4, <1>5 DEF Environment

LEMMA InitTypes == Init => ControllerTypeOK
<1>1. Init => LedgerTypeOK
  BY DEF Init, LedgerInit, LedgerTypeOK, NoOrder, Order, NoPosition, Position, KillReasons
<1>2. Init => EnvTypeOK
  BY ControllerAssumption DEF Init, EnvTypeOK, ControllerAssumption
<1>3. Init => CallTypeOK
  BY DEF Init, CallTypeOK, Labels, NoOrder, Order
<1>4. QED
  BY <1>1, <1>2, <1>3 DEF ControllerTypeOK

LEMMA NextTypes ==
    ASSUME ControllerTypeOK, [Next]_vars
    PROVE  ControllerTypeOK'
<1>1. ASSUME NEW t \in Callers, Step(t) PROVE ControllerTypeOK'
  BY <1>1, LimitStepTypes, PlanStepTypes, WriteStepTypes, LiveStepTypes DEF Step
<1>2. CASE UNCHANGED vars
  BY <1>2 DEF vars, ledgerVars, envVars, callVars,
              ControllerTypeOK, LedgerTypeOK, EnvTypeOK, CallTypeOK
<1>3. QED
  BY <1>1, <1>2, BeginTypes, EnvironmentTypes DEF Next

\* Every reachable state is well typed, and every call in progress has a plan:
\* no position of negative size, no call left without its arguments by a crash.
THEOREM TypeCorrectness == Spec => []ControllerTypeOK
<1>1. Init => ControllerTypeOK
  BY InitTypes
<1>2. ControllerTypeOK /\ [Next]_vars => ControllerTypeOK'
  BY NextTypes
<1>3. QED
  BY <1>1, <1>2, PTL DEF Spec


-----------------------------------------------------------------------------
(* Halting *)

HaltInv == HaltIsActive /\ HaltStopsCalls

\* A call that finds the switch on returns; one that finds it off is not halted.
LEMMA HaltNext ==
    ASSUME ControllerTypeOK, HaltInv, [Next]_vars
    PROVE  HaltInv'
<1> USE DEF HaltInv, HaltIsActive, HaltStopsCalls
<1> DEFINE Past == Labels \ {"idle", "awaiting_check", "kill_switch"}
<1>1. ASSUME NEW t \in Callers, Return(t), killSwitch' = killSwitch \/ killSwitch'.active
      PROVE  HaltInv'
  <2>1. \A u \in Callers : halted'[u] => halted[u]
    BY <1>1 DEF Return, ControllerTypeOK, CallTypeOK
  <2>2. \A u \in Callers : pc'[u] \in Past => pc[u] \in Past
    BY <1>1 DEF Return, ControllerTypeOK, CallTypeOK
  <2>3. QED
    BY <1>1, <2>1, <2>2
<1>2. ASSUME NEW t \in Callers, NEW label \in Labels, Goto(t, label), killSwitch' = killSwitch,
             pc[t] \in Past \/ label \notin Past \/ ~halted[t]
      PROVE  HaltInv'
  BY <1>2 DEF Goto, ControllerTypeOK, CallTypeOK
<1>3. ASSUME NEW t \in Callers, NEW p \in Plans, BeginSubmit(t, p) \/ BeginApprove(t, p)
      PROVE  HaltInv'
  <2>1. PICK op \in {"submit", "approve"}, label \in {"awaiting_check", "kill_switch"} :
            Begin(t, op, p, label)
    BY <1>3 DEF BeginSubmit, BeginApprove
  <2>2. QED
    BY <2>1 DEF Begin, ledgerVars, ControllerTypeOK, CallTypeOK
<1>4. ASSUME NEW t \in Callers, LimitStep(t) PROVE HaltInv'
  <2>1. CASE CheckAwaiting(t)
    BY <1>1, <1>2, <2>1 DEF CheckAwaiting, ledgerVars, Labels
  <2>2. CASE CheckKillSwitch(t)
    BY <1>1, <1>2, <2>2 DEF CheckKillSwitch, ledgerVars, Labels
  <2>3. CASE CheckDailyLoss(t) \/ CheckStreak(t)
    BY <1>2, <2>3 DEF CheckDailyLoss, CheckStreak, ledgerVars, Labels
  <2>4. CASE TripKillSwitch(t)
    BY <1>1, <2>4 DEF TripKillSwitch, SetKillSwitch
  <2>5. QED
    BY <1>4, <2>1, <2>2, <2>3, <2>4 DEF LimitStep
<1>5. ASSUME NEW t \in Callers, PlanStep(t) PROVE HaltInv'
  BY <1>1, <1>2, <1>5 DEF PlanStep, CheckKnown, CheckGates, CheckExposure, ledgerVars, Labels
<1>6. ASSUME NEW t \in Callers, WriteStep(t) PROVE HaltInv'
  <2>1. killSwitch' = killSwitch
    BY <1>6 DEF WriteStep, RecordReceived, Block, Park, Approve, ExecutePaper, Execute,
           RecordSignal, UpdateSignalState, RecordApproval, RecordExecution, ledgerVars
  <2>2. Return(t) \/ \E label \in Labels : Goto(t, label)
    BY <1>6 DEF WriteStep, RecordReceived, Block, Park, Approve, ExecutePaper, Execute, Labels
  <2>3. pc[t] \in Past
    BY <1>6 DEF WriteStep, RecordReceived, Block, Park, Approve, ExecutePaper, Labels
  <2>4. QED
    BY <1>1, <1>2, <2>1, <2>2, <2>3
<1>7. ASSUME NEW t \in Callers, LiveStep(t) PROVE HaltInv'
  <2>1. killSwitch' = killSwitch
    BY <1>7 DEF LiveStep, SubmitAnswered, SubmitTimedOut, SubmitUnusable, LookupFound,
           LookupMissing, LookupUnusable, ExecuteLive, RecordUnknown, MarkUncertain, Execute,
           UpdateSignalState, RecordExecution, ledgerVars
  <2>2. pc[t] \in Past
    BY <1>7 DEF LiveStep, SubmitAnswered, SubmitTimedOut, SubmitUnusable, MaySend, LookupFound,
           LookupMissing, LookupUnusable, ExecuteLive, RecordUnknown, MarkUncertain, Labels
  <2>3. CASE SubmitAnswered(t) \/ LookupFound(t)
    BY <2>1, <2>2, <2>3 DEF SubmitAnswered, LookupFound, ControllerTypeOK, CallTypeOK
  <2>4. CASE Return(t) \/ \E label \in Labels : Goto(t, label)
    BY <1>1, <1>2, <2>1, <2>2, <2>4
  <2>5. QED
    BY <1>7, <2>3, <2>4 DEF LiveStep, SubmitTimedOut, SubmitUnusable, LookupMissing,
           LookupUnusable, ExecuteLive, RecordUnknown, MarkUncertain, Execute, Labels
<1>8. CASE Environment
  <2>1. ASSUME NEW active \in BOOLEAN, OperatorSetKillSwitch(active) PROVE HaltInv'
    BY <2>1 DEF OperatorSetKillSwitch, SetKillSwitch, ControllerTypeOK, CallTypeOK
  <2>2. CASE (\E p \in Plans : Close(p) \/ LateAccept(p)) \/ ReplaceRegistry \/ Tick
    BY <2>2 DEF Close, ClosePosition, LateAccept, ReplaceRegistry, Tick, ledgerVars, callVars
  <2>3. CASE Restart
    BY <2>3 DEF Restart
  <2>4. QED
    BY <1>8, <2>1, <2>2, <2>3 DEF Environment
<1>9. CASE UNCHANGED vars
  BY <1>9 DEF vars, ledgerVars, callVars
<1>10. QED
  BY <1>3, <1>4, <1>5, <1>6, <1>7, <1>8, <1>9 DEF Next, Step

\* A kill switch that has been on since before a call began stops the call at
\* _check_kill_limits, for submit and approve alike and whatever trips, resets,
\* restarts and other calls come between.
THEOREM HaltingTheorem == Spec => []HaltStopsCalls
<1>1. Init => HaltInv
  BY DEF Init, HaltInv, HaltIsActive, HaltStopsCalls
<1>2. ControllerTypeOK /\ HaltInv /\ [Next]_vars => HaltInv'
  BY HaltNext
<1>3. HaltInv => HaltStopsCalls
  BY DEF HaltInv
<1>4. QED
  BY <1>1, <1>2, <1>3, TypeCorrectness, PTL DEF Spec


-----------------------------------------------------------------------------
(* Positions *)

\* Only record_execution and close_position write the positions.
LEMMA PositionMoves ==
    ASSUME ControllerTypeOK, [Next]_vars
    PROVE  \/ positions' = positions
           \/ \E p \in Plans : \E order \in Order : RecordExecution(p, order)
           \/ \E p \in Plans : \E move \in Int, at \in Nat : ClosePosition(p, move, at)
<1>1. ASSUME NEW t \in Callers, NEW p \in Plans, BeginSubmit(t, p) \/ BeginApprove(t, p)
      PROVE  positions' = positions
  BY <1>1 DEF BeginSubmit, BeginApprove, Begin, ledgerVars
<1>2. ASSUME NEW t \in Callers, LimitStep(t) \/ PlanStep(t)
      PROVE  positions' = positions
  BY <1>2 DEF LimitStep, CheckAwaiting, CheckKillSwitch, CheckDailyLoss, CheckStreak,
         TripKillSwitch, SetKillSwitch, PlanStep, CheckKnown, CheckGates, CheckExposure, ledgerVars
<1>3. ASSUME NEW t \in Callers, WriteStep(t)
      PROVE  \/ positions' = positions
             \/ \E p \in Plans : \E order \in Order : RecordExecution(p, order)
  <2>1. CASE ExecutePaper(t)
    <3>1. pc[t] # "idle"
      BY <2>1 DEF ExecutePaper
    <3>2. call[t].plan \in Plans /\ PaperOrder(call[t].plan) \in Order
      BY <3>1, CallInProgress, PaperOrderType
    <3>3. QED
      BY <2>1, <3>2 DEF ExecutePaper, Execute, ledgerVars
  <2>2. QED
    BY <1>3, <2>1 DEF WriteStep, RecordReceived, RecordSignal, Block, Park, UpdateSignalState,
           Approve, RecordApproval, ledgerVars
<1>4. ASSUME NEW t \in Callers, LiveStep(t)
      PROVE  \/ positions' = positions
             \/ \E p \in Plans : \E order \in Order : RecordExecution(p, order)
  <2>1. CASE ExecuteLive(t) \/ RecordUnknown(t)
    <3>1. pc[t] # "idle"
      BY <2>1 DEF ExecuteLive, RecordUnknown
    <3>2. call[t].plan \in Plans /\ ack[t] \in Order /\ UnknownOrder \in Order
      BY <3>1, CallInProgress DEF ControllerTypeOK, CallTypeOK, UnknownOrder, Order, OrderStates
    <3>3. QED
      BY <2>1, <3>2 DEF ExecuteLive, RecordUnknown, Execute, ledgerVars
  <2>2. QED
    BY <1>4, <2>1 DEF LiveStep, SubmitAnswered, SubmitTimedOut, SubmitUnusable, LookupFound,
           LookupMissing, LookupUnusable, MarkUncertain, UpdateSignalState, ledgerVars
<1>5. ASSUME NEW p \in Plans, Close(p)
      PROVE  \E move \in Int, at \in Nat : ClosePosition(p, move, at)
  BY <1>5, ControllerAssumption DEF Close, ControllerAssumption, ControllerTypeOK, EnvTypeOK
<1>6. ASSUME Environment, \A p \in Plans : ~Close(p)
      PROVE  positions' = positions
  BY <1>6 DEF Environment, OperatorSetKillSwitch, SetKillSwitch, LateAccept, ReplaceRegistry,
         Tick, Restart, ledgerVars
<1>7. CASE UNCHANGED vars
  BY <1>7 DEF vars, ledgerVars
<1>8. QED
  BY <1>1, <1>2, <1>3, <1>4, <1>5, <1>6, <1>7 DEF Next, Step

\* A recorded fill adds its plan to the open ones, if the security is free.
LEMMA RecordedExposure ==
    ASSUME ControllerTypeOK, NEW p \in Plans, NEW order \in Order, RecordExecution(p, order)
    PROVE  \/ OpenPlans' = OpenPlans
           \/ /\ OpenPlans' = OpenPlans \cup {p}
              /\ ~OpenPositionForSecurity(SecurityOf[p])
<1>1. CASE order.filled > 0
  <2>1. positions' = [positions EXCEPT ![p] = OpenedPosition(order)]
    BY <1>1 DEF RecordExecution
  <2>2. OpenedPosition(order).state = "OPEN"
    BY DEF OpenedPosition
  <2>3. OpenPlans' = OpenPlans \cup {p}
    BY <2>1, <2>2 DEF OpenPlans, ControllerTypeOK, LedgerTypeOK
  <2>4. QED
    BY <1>1, <2>3 DEF RecordExecution, ExecutionRefused
<1>2. CASE ~(order.filled > 0)
  BY <1>2 DEF RecordExecution, OpenPlans
<1>3. QED
  BY <1>1, <1>2

LEMMA ClosedExposure ==
    ASSUME ControllerTypeOK, NEW p \in Plans, NEW move \in Int, NEW at \in Nat,
           ClosePosition(p, move, at)
    PROVE  p \in OpenPlans /\ OpenPlans' = OpenPlans \ {p}
<1>1. p \in OpenPlans
  BY DEF ClosePosition, OpenPlans
<1>2. positions'[p].state = "CLOSED" /\ \A q \in Plans \ {p} : positions'[q] = positions[q]
  BY DEF ClosePosition, ControllerTypeOK, LedgerTypeOK
<1>3. QED
  BY <1>1, <1>2 DEF OpenPlans

\* However many callers have passed the exposure gate for one security, and
\* whatever is closed or recorded since, at most one of them opens a position.
THEOREM OnePositionTheorem == Spec => []OneOpenPositionPerSecurity
<1>1. Init => OneOpenPositionPerSecurity
  BY DEF Init, LedgerInit, OneOpenPositionPerSecurity, OpenPlans, NoPosition
<1>2. ControllerTypeOK /\ OneOpenPositionPerSecurity /\ [Next]_vars => OneOpenPositionPerSecurity'
  <2> SUFFICES ASSUME ControllerTypeOK, OneOpenPositionPerSecurity, [Next]_vars
               PROVE  OneOpenPositionPerSecurity'
    OBVIOUS
  <2>1. CASE positions' = positions
    BY <2>1 DEF OneOpenPositionPerSecurity, OpenPlans
  <2>2. ASSUME NEW p \in Plans, NEW order \in Order, RecordExecution(p, order)
        PROVE  OneOpenPositionPerSecurity'
    BY <2>2, RecordedExposure DEF OneOpenPositionPerSecurity, OpenPositionForSecurity
  <2>3. ASSUME NEW p \in Plans, NEW move \in Int, NEW at \in Nat, ClosePosition(p, move, at)
        PROVE  OneOpenPositionPerSecurity'
    BY <2>3, ClosedExposure DEF OneOpenPositionPerSecurity
  <2>4. QED
    BY <2>1, <2>2, <2>3, PositionMoves
<1>3. QED
  BY <1>1, <1>2, TypeCorrectness, PTL DEF Spec

-----------------------------------------------------------------------------
(* The exposure gate, with one caller *)

\* As the acquisition cycle lock has it: no two threads are in a call at a time.
OneCaller == \A t, u \in Callers : t = u

\* From the gate to the recording no position of the plan's security is opened.
GateKept ==
    \A t \in Callers : pc[t] \in {"record_signal", "route"} =>
        ~OpenPositionForSecurity(SecurityOf[call[t].plan])

\* What the caller's own step leaves of the gate: it has just passed it, or its
\* signal row is the only thing it has written since.
LEMMA GateStep ==
    ASSUME ControllerTypeOK, GateKept, NEW t \in Callers, Step(t),
           pc'[t] \in {"record_signal", "route"}
    PROVE  ~OpenPositionForSecurity(SecurityOf[call[t].plan])' /\ call'[t] = call[t]
<1>1. CASE LimitStep(t)
  <2>1. pc'[t] \notin {"record_signal", "route"}
    BY <1>1 DEF LimitStep, CheckAwaiting, CheckKillSwitch, CheckDailyLoss, CheckStreak,
           TripKillSwitch, Goto, Return, ControllerTypeOK, CallTypeOK
  <2>2. QED
    BY <2>1
<1>2. CASE PlanStep(t)
  <2>1. CheckExposure(t) /\ Goto(t, "record_signal")
    BY <1>2 DEF PlanStep, CheckKnown, CheckGates, CheckExposure, Goto, Return, ControllerTypeOK,
           CallTypeOK
  <2>2. ~OpenPositionForSecurity(SecurityOf[call[t].plan])
    BY <2>1 DEF CheckExposure, Return, Goto, ControllerTypeOK, CallTypeOK
  <2>3. QED
    BY <2>1, <2>2 DEF CheckExposure, Goto, ledgerVars, OpenPositionForSecurity, OpenPlans
<1>3. CASE WriteStep(t)
  <2>1. pc[t] = "record_signal" /\ RecordSignal(call[t].plan, "RECEIVED") /\ Goto(t, "route")
    BY <1>3 DEF WriteStep, RecordReceived, Block, Park, Approve, ExecutePaper, Execute, Goto, Return,
           ControllerTypeOK, CallTypeOK
  <2>2. QED
    BY <2>1 DEF GateKept, RecordSignal, Goto, OpenPositionForSecurity, OpenPlans
<1>4. CASE LiveStep(t)
  <2>1. pc'[t] \notin {"record_signal", "route"}
    BY <1>4 DEF LiveStep, SubmitAnswered, SubmitTimedOut, SubmitUnusable, LookupFound,
           LookupMissing, LookupUnusable, ExecuteLive, Execute, RecordUnknown, MarkUncertain,
           Goto, Return, ControllerTypeOK, CallTypeOK
  <2>2. QED
    BY <2>1
<1>5. QED
  BY <1>1, <1>2, <1>3, <1>4 DEF Step

LEMMA GateNext ==
    ASSUME OneCaller, ControllerTypeOK, GateKept, [Next]_vars
    PROVE  GateKept'
<1> SUFFICES ASSUME NEW t \in Callers, pc'[t] \in {"record_signal", "route"}
             PROVE  ~OpenPositionForSecurity(SecurityOf[call[t].plan])'
  BY DEF GateKept
<1>1. ASSUME NEW u \in Callers, NEW p \in Plans, BeginSubmit(u, p) \/ BeginApprove(u, p)
      PROVE  FALSE
  <2>1. u = t
    BY DEF OneCaller
  <2>2. QED
    BY <1>1, <2>1 DEF BeginSubmit, BeginApprove, Begin, ControllerTypeOK, CallTypeOK
<1>2. ASSUME NEW u \in Callers, Step(u)
      PROVE  ~OpenPositionForSecurity(SecurityOf[call[t].plan])'
  <2>1. u = t
    BY DEF OneCaller
  <2>2. QED
    BY <1>2, <2>1, GateStep DEF OpenPositionForSecurity
<1>3. ASSUME Environment \/ UNCHANGED vars
      PROVE  ~OpenPositionForSecurity(SecurityOf[call[t].plan])'
  <2>1. pc' = pc /\ call' = call
    BY <1>3 DEF Environment, OperatorSetKillSwitch, Close, LateAccept, ReplaceRegistry, Tick,
           Restart, vars, callVars
  <2>2. OpenPlans' \subseteq OpenPlans
    <3>1. CASE \E p \in Plans : Close(p)
      BY <3>1, ControllerAssumption, ClosedExposure
         DEF Close, ControllerAssumption, ControllerTypeOK, EnvTypeOK
    <3>2. CASE ~ \E p \in Plans : Close(p)
      BY <1>3, <3>2 DEF Environment, OperatorSetKillSwitch, SetKillSwitch, LateAccept,
             ReplaceRegistry, Tick, Restart, vars, ledgerVars, OpenPlans
    <3>3. QED
      BY <3>1, <3>2
  <2>3. QED
    BY <2>1, <2>2 DEF GateKept, OpenPositionForSecurity
<1>4. QED
  BY <1>1, <1>2, <1>3 DEF Next

\* With calls one at a time the gate that was read some transactions ago still
\* holds when the execution is recorded: the kill switch, a refresh, a crash or
\* the closing of a position in between do not undo it.
THEOREM GateTheorem ==
    ASSUME OneCaller
    PROVE  Spec => []GateHoldsToRecord
<1>1. Init => GateKept
  BY DEF Init, GateKept
<1>2. ControllerTypeOK /\ GateKept /\ [Next]_vars => GateKept'
  BY GateNext
<1>3. GateKept => GateHoldsToRecord
  BY DEF GateKept, GateHoldsToRecord
<1>4. QED
  BY <1>1, <1>2, <1>3, TypeCorrectness, PTL DEF Spec

-----------------------------------------------------------------------------
(* The loss-streak lock *)

\* With no call past the limits and nothing left to close, no step writes the
\* positions: the calls end at the limits or have yet to come to them.
LEMMA LockedSteps ==
    ASSUME ControllerTypeOK, OpenPlans = {}, \A t \in Callers : pc[t] \notin Settled, [Next]_vars
    PROVE  positions' = positions
<1>1. ASSUME NEW t \in Callers, NEW p \in Plans, BeginSubmit(t, p) \/ BeginApprove(t, p)
      PROVE  positions' = positions
  BY <1>1 DEF BeginSubmit, BeginApprove, Begin, ledgerVars
<1>2. ASSUME NEW t \in Callers, Step(t)
      PROVE  positions' = positions
  <2>1. LimitStep(t)
    BY <1>2 DEF Step, PlanStep, CheckKnown, CheckGates, CheckExposure, WriteStep, RecordReceived,
           Block, Park, Approve, ExecutePaper, LiveStep, SubmitAnswered, SubmitTimedOut,
           SubmitUnusable, MaySend, LookupFound, LookupMissing, LookupUnusable, ExecuteLive,
           RecordUnknown, MarkUncertain, Settled, Labels
  <2>2. QED
    BY <2>1 DEF LimitStep, CheckAwaiting, CheckKillSwitch, CheckDailyLoss, CheckStreak,
           TripKillSwitch, SetKillSwitch, ledgerVars
<1>3. ASSUME NEW p \in Plans PROVE ~Close(p)
  BY DEF Close, ClosePosition, OpenPlans
<1>4. CASE Environment \/ UNCHANGED vars
  BY <1>3, <1>4 DEF Environment, OperatorSetKillSwitch, SetKillSwitch, LateAccept, ReplaceRegistry,
         Tick, Restart, vars, ledgerVars
<1>5. QED
  BY <1>1, <1>2, <1>4 DEF Next

\* Nor does a call get past the limits while the streak is at its own.
LEMMA LockedCalls ==
    ASSUME ControllerTypeOK, StreakReached, \A t \in Callers : pc[t] \notin Settled, [Next]_vars,
           NEW t \in Callers
    PROVE  pc'[t] \notin Settled
<1>1. ASSUME NEW u \in Callers, NEW p \in Plans, BeginSubmit(u, p) \/ BeginApprove(u, p)
      PROVE  pc'[t] \notin Settled
  BY <1>1 DEF BeginSubmit, BeginApprove, Begin, Settled, ControllerTypeOK, CallTypeOK
<1>2. ASSUME NEW u \in Callers, Step(u)
      PROVE  pc'[t] \notin Settled
  <2>1. LimitStep(u)
    BY <1>2 DEF Step, PlanStep, CheckKnown, CheckGates, CheckExposure, WriteStep, RecordReceived,
           Block, Park, Approve, ExecutePaper, LiveStep, SubmitAnswered, SubmitTimedOut,
           SubmitUnusable, MaySend, LookupFound, LookupMissing, LookupUnusable, ExecuteLive,
           RecordUnknown, MarkUncertain, Settled, Labels
  <2>2. CASE u = t
    BY <2>1, <2>2 DEF LimitStep, CheckAwaiting, CheckKillSwitch, CheckDailyLoss, CheckStreak,
           TripKillSwitch, Goto, Return, Settled, ControllerTypeOK, CallTypeOK
  <2>3. CASE u # t
    BY <2>1, <2>3 DEF LimitStep, CheckAwaiting, CheckKillSwitch, CheckDailyLoss, CheckStreak,
           TripKillSwitch, Goto, Return, ControllerTypeOK, CallTypeOK
  <2>4. QED
    BY <2>2, <2>3
<1>3. CASE Environment \/ UNCHANGED vars
  BY <1>3 DEF Environment, OperatorSetKillSwitch, Close, LateAccept, ReplaceRegistry, Tick, Restart,
         vars, callVars, Settled
<1>4. QED
  BY <1>1, <1>2, <1>3 DEF Next

\* Once the loss streak has reached its limit with no position left to win back
\* with, no step of anyone, the operator and a new process included, ends it.
THEOREM StreakTheorem == Spec => StreakLockIsPermanent
<1>1. ControllerTypeOK /\ [Next]_vars => [StreakLock => StreakLock']_vars
  <2> SUFFICES ASSUME ControllerTypeOK, [Next]_vars, StreakLock
               PROVE  StreakLock'
    OBVIOUS
  <2>1. positions' = positions
    BY LockedSteps DEF StreakLock
  <2>2. OpenPlans' = {}
    BY <2>1 DEF StreakLock, OpenPlans
  <2>3. ConsecutiveLosses' = ConsecutiveLosses
    BY <2>1 DEF ConsecutiveLosses, ClosedPlans, ClosedNoEarlier
  <2>4. \A t \in Callers : pc'[t] \notin Settled
    BY LockedCalls DEF StreakLock
  <2>5. QED
    BY <2>2, <2>3, <2>4 DEF StreakLock, StreakReached
<1>2. QED
  BY <1>1, TypeCorrectness, PTL DEF Spec, StreakLockIsPermanent

-----------------------------------------------------------------------------
(* The daily lock *)

\* The day's realised result is a sum over the closed positions alone.
LEMMA PnlOfPositions ==
    ASSUME positions' = positions, Day(clock') = Day(clock)
    PROVE  DailyRealizedPnl(Day(clock))' = DailyRealizedPnl(Day(clock))
  BY DEF DailyRealizedPnl, ClosedPlans, MapThenSumSet, MapThenFoldSet

\* The labels of calls that have yet to read the day's result, or have stopped at it.
BeforeDaily == Labels \ (Settled \cup {"streak", "trip_streak"})

\* While the day's loss is at its limit, and every running call is of this day,
\* no call gets past the daily check, and one that begins is of this day too.
LEMMA DailyLockedCalls ==
    ASSUME ControllerTypeOK, DailyLock, [Next]_vars, Day(clock') = Day(clock), NEW t \in Callers
    PROVE  pc'[t] \in BeforeDaily /\ (pc'[t] # "idle" => Day(call'[t].now) = Day(clock))
<1> DEFINE Goal == pc'[t] \in BeforeDaily /\ (pc'[t] # "idle" => Day(call'[t].now) = Day(clock))
<1>1. pc[t] \in BeforeDaily /\ (pc[t] # "idle" => Day(call[t].now) = Day(clock))
  BY DEF DailyLock, BeforeDaily, ControllerTypeOK, CallTypeOK
<1>2. BeforeDaily = {"idle", "awaiting_check", "kill_switch", "daily_loss", "trip_daily"}
  BY DEF BeforeDaily, Settled, Labels
<1>3. ASSUME NEW u \in Callers, NEW p \in Plans, BeginSubmit(u, p) \/ BeginApprove(u, p)
      PROVE  Goal
  <2>1. PICK op \in {"submit", "approve"}, label \in {"kill_switch", "awaiting_check"} :
            Begin(u, op, p, label)
    BY <1>3 DEF BeginSubmit, BeginApprove
  <2>2. CASE u = t
    <3>1. pc'[t] = label /\ call'[t].now = clock
      BY <2>1, <2>2 DEF Begin, ControllerTypeOK, CallTypeOK
    <3>2. QED
      BY <1>2, <3>1
  <2>3. CASE u # t
    BY <1>1, <2>1, <2>3 DEF Begin, ControllerTypeOK, CallTypeOK
  <2>4. QED
    BY <2>2, <2>3
<1>4. ASSUME NEW u \in Callers, Step(u)
      PROVE  Goal
  <2>1. pc[u] \in BeforeDaily /\ Day(call[u].now) = Day(clock)
    <3>1. pc[u] # "idle"
      BY <1>4 DEF Step, LimitStep, CheckAwaiting, CheckKillSwitch, CheckDailyLoss, CheckStreak,
             TripKillSwitch, PlanStep, CheckKnown, CheckGates, CheckExposure, WriteStep,
             RecordReceived, Block, Park, Approve, ExecutePaper, LiveStep, SubmitAnswered,
             SubmitTimedOut, SubmitUnusable, MaySend, LookupFound, LookupMissing, LookupUnusable,
             ExecuteLive, RecordUnknown, MarkUncertain
    <3>2. QED
      BY <3>1 DEF DailyLock, BeforeDaily, ControllerTypeOK, CallTypeOK
  <2>2. LimitStep(u) /\ ~CheckStreak(u)
    BY <1>2, <1>4, <2>1 DEF Step, CheckStreak, PlanStep, CheckKnown, CheckGates, CheckExposure,
           WriteStep, RecordReceived, Block, Park, Approve, ExecutePaper, LiveStep, SubmitAnswered,
           SubmitTimedOut, SubmitUnusable, MaySend, LookupFound, LookupMissing, LookupUnusable,
           ExecuteLive, RecordUnknown, MarkUncertain
  <2>3. DailyLossReached(call[u].now)
    BY <2>1 DEF DailyLock, DailyLossReached
  <2>4. Return(u) \/ \E label \in BeforeDaily : Goto(u, label)
    BY <1>2, <2>2, <2>3 DEF LimitStep, CheckAwaiting, CheckKillSwitch, CheckDailyLoss,
           TripKillSwitch
  <2>5. CASE u = t
    BY <1>2, <2>1, <2>4, <2>5 DEF Return, Goto, ControllerTypeOK, CallTypeOK
  <2>6. CASE u # t
    BY <1>1, <2>4, <2>6 DEF Return, Goto, ControllerTypeOK, CallTypeOK
  <2>7. QED
    BY <2>5, <2>6
<1>5. CASE Environment \/ UNCHANGED vars
  BY <1>1, <1>2, <1>5 DEF Environment, OperatorSetKillSwitch, Close, LateAccept, ReplaceRegistry,
         Tick, Restart, vars, callVars
<1>6. QED
  BY <1>3, <1>4, <1>5 DEF Next

\* The loss of a day that has reached its limit stops every call of that day,
\* whatever the operator does with the kill switch and however often the process
\* is started again.
THEOREM DailyTheorem == Spec => DailyLockLastsTheDay
<1>1. ControllerTypeOK /\ [Next]_vars => [DailyLock => DailyLock' \/ Day(clock') # Day(clock)]_vars
  <2> SUFFICES ASSUME ControllerTypeOK, [Next]_vars, DailyLock, Day(clock') = Day(clock)
               PROVE  DailyLock'
    OBVIOUS
  <2>1. positions' = positions
    BY LockedSteps DEF DailyLock
  <2>2. OpenPlans' = {}
    BY <2>1 DEF DailyLock, OpenPlans
  <2>3. DailyLossReached(clock)'
    BY <2>1, PnlOfPositions DEF DailyLock, DailyLossReached
  <2>4. \A t \in Callers : pc'[t] \in BeforeDaily
                           /\ (pc'[t] # "idle" => Day(call'[t].now) = Day(clock))
    BY DailyLockedCalls
  <2>5. QED
    BY <2>2, <2>3, <2>4 DEF DailyLock, BeforeDaily
<1>2. QED
  BY <1>1, TypeCorrectness, PTL DEF Spec, DailyLockLastsTheDay

=============================================================================
