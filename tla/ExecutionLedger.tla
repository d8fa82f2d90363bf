--------------------------- MODULE ExecutionLedger ---------------------------
(***************************************************************************)
(* The execution ledger: the SQLite database behind execution control      *)
(* (backend/src/teco_quant/execution/ledger.py).  Every public method of   *)
(* the class runs under one RLock, and every method that writes is one     *)
(* BEGIN IMMEDIATE ... COMMIT transaction, so each is one operator here    *)
(* and is used as (part of) one atomic step of a caller.                   *)
(*                                                                         *)
(* Rows are keyed by the plan: signals.signal_id is the primary key, and   *)
(* orders, approvals and positions each carry a UNIQUE signal_id.  The     *)
(* only producer of plans makes correlation_id equal to signal_id          *)
(* (signals/adapters.py:33-34), so a correlation is identified with its    *)
(* plan.  The execution_events table is a write-only audit trail and is    *)
(* left out.                                                               *)
(***************************************************************************)
EXTENDS Integers, FiniteSets, FiniteSetsExt

CONSTANTS
    Plans,          \* the trade plans (signal ids) that may ever be submitted
    Securities,     \* the security ids they name
    SecurityOf,     \* plan -> security
    Quantity,       \* plan -> ordered quantity
    DayLength       \* clock ticks per UTC day

ASSUME PlansAssumption ==
    /\ IsFiniteSet(Plans)
    /\ SecurityOf \in [Plans -> Securities]
    /\ Quantity \in [Plans -> Nat \ {0}]
    /\ DayLength \in Nat \ {0}

VARIABLES
    signals,        \* signals.state by plan, "ABSENT" when there is no row
    approvals,      \* plans with a row in approvals
    orders,         \* the order row of a plan, NoOrder when there is none
    positions,      \* the position row of a plan, NoPosition when there is none
    journal,        \* journal rows
    killSwitch      \* the kill_switch singleton

ledgerVars == <<signals, approvals, orders, positions, journal, killSwitch>>

SignalStates == {"RECEIVED", "BLOCKED", "AWAITING_APPROVAL", "SUBMITTED",
                 "PARTIALLY_FILLED", "FILLED", "UNCERTAIN"}
OrderStates  == {"PENDING", "ACKNOWLEDGED", "PARTIALLY_FILLED", "FILLED",
                 "REJECTED", "CANCELLED", "UNKNOWN"}
KillReasons  == {"none", "operator", "daily loss limit reached",
                 "consecutive loss limit reached"}

NoOrder    == [state |-> "NONE", filled |-> 0]
NoPosition == [state |-> "NONE", quantity |-> 0, pnl |-> 0, closedAt |-> 0, row |-> 0]

Order        == [state : OrderStates \cup {"NONE"}, filled : Nat]
Position     == [state : {"NONE", "OPEN", "CLOSED"}, quantity : Nat, pnl : Int,
                 closedAt : Nat, row : Nat]
JournalEntry == [entry : {"ORDER_RECORDED", "POSITION_CLOSED"}, signal : Plans, amount : Int]

LedgerTypeOK ==
    /\ signals \in [Plans -> SignalStates \cup {"ABSENT"}]
    /\ approvals \subseteq Plans
    /\ orders \in [Plans -> Order]
    /\ positions \in [Plans -> Position]
    /\ journal \subseteq JournalEntry
    /\ killSwitch \in [active : BOOLEAN, reason : KillReasons]

\* A new database: no rows, and the kill switch inactive.
LedgerInit ==
    /\ signals = [p \in Plans |-> "ABSENT"]
    /\ approvals = {}
    /\ orders = [p \in Plans |-> NoOrder]
    /\ positions = [p \in Plans |-> NoPosition]
    /\ journal = {}
    /\ killSwitch = [active |-> FALSE, reason |-> "none"]

-----------------------------------------------------------------------------
(* Reads *)

Day(time) == time \div DayLength

SignalExists(p) == signals[p] # "ABSENT"

OpenPlans   == {p \in Plans : positions[p].state = "OPEN"}
ClosedPlans == {p \in Plans : positions[p].state = "CLOSED"}

OpenPositionForSecurity(s) == \E p \in OpenPlans : SecurityOf[p] = s

DailyRealizedPnl(day) ==
    MapThenSumSet(LAMBDA p : positions[p].pnl,
                  {p \in ClosedPlans : Day(positions[p].closedAt) = day})

\* ORDER BY closed_at DESC, rowid DESC: q comes no later than p in that order.
ClosedNoEarlier(q, p) ==
    \/ positions[q].closedAt > positions[p].closedAt
    \/ /\ positions[q].closedAt = positions[p].closedAt
       /\ positions[q].row >= positions[p].row

\* The losses at the head of that order, before the first closing at no loss.
ConsecutiveLosses ==
    Cardinality({p \in ClosedPlans :
        \A q \in ClosedPlans : ClosedNoEarlier(q, p) => positions[q].pnl < 0})

-----------------------------------------------------------------------------
(* Transactions *)

RecordSignal(p, state) ==
    /\ ~SignalExists(p)
    /\ signals' = [signals EXCEPT ![p] = state]
    /\ UNCHANGED <<approvals, orders, positions, journal, killSwitch>>

UpdateSignalState(p, state) ==
    /\ SignalExists(p)
    /\ signals' = [signals EXCEPT ![p] = state]
    /\ UNCHANGED <<approvals, orders, positions, journal, killSwitch>>

RecordApproval(p) ==
    /\ SignalExists(p)
    /\ p \notin approvals
    /\ approvals' = approvals \cup {p}
    /\ UNCHANGED <<signals, orders, positions, journal, killSwitch>>

\* The state record_execution gives the signal: by filled quantity alone.
ExecutedState(p, order) ==
    IF order.filled = Quantity[p] THEN "FILLED"
    ELSE IF order.filled > 0 THEN "PARTIALLY_FILLED"
    ELSE "SUBMITTED"

OpenedPosition(order) ==
    [state |-> "OPEN", quantity |-> order.filled, pnl |-> 0, closedAt |-> 0,
     row |-> Cardinality(OpenPlans \cup ClosedPlans) + 1]

\* Mutant: the schema without the unique index on open positions.
ExecutionRefusedNoIndex(p, order) == ~SignalExists(p) \/ orders[p] # NoOrder

\* The constraints of the schema under which the transaction is rolled back:
\* the foreign key, the UNIQUE columns, and one_open_position_per_security.
ExecutionRefused(p, order) ==
    \/ ~SignalExists(p)
    \/ orders[p] # NoOrder
    \/ /\ order.filled > 0
       /\ positions[p] # NoPosition \/ OpenPositionForSecurity(SecurityOf[p])

\* Mutant: the signal's state is left to a later transaction.
RecordExecutionWithoutSignal(p, order) ==
    /\ ~ExecutionRefused(p, order)
    /\ orders' = [orders EXCEPT ![p] = order]
    /\ positions' = IF order.filled > 0
                    THEN [positions EXCEPT ![p] = OpenedPosition(order)]
                    ELSE positions
    /\ journal' = journal \cup {[entry |-> "ORDER_RECORDED", signal |-> p, amount |-> 0]}
    /\ UNCHANGED <<signals, approvals, killSwitch>>

RecordExecution(p, order) ==
    /\ ~ExecutionRefused(p, order)
    /\ orders' = [orders EXCEPT ![p] = order]
    /\ positions' = IF order.filled > 0
                    THEN [positions EXCEPT ![p] = OpenedPosition(order)]
                    ELSE positions
    /\ signals' = [signals EXCEPT ![p] = ExecutedState(p, order)]
    /\ journal' = journal \cup {[entry |-> "ORDER_RECORDED", signal |-> p, amount |-> 0]}
    /\ UNCHANGED <<approvals, killSwitch>>

\* move is the exit price less the entry price, signed by the side.
ClosePosition(p, move, closedAt) ==
    LET pnl == move * positions[p].quantity IN
    /\ positions[p].state = "OPEN"
    /\ positions' = [positions EXCEPT ![p] = [state    |-> "CLOSED",
                                              quantity |-> positions[p].quantity,
                                              pnl      |-> pnl,
                                              closedAt |-> closedAt,
                                              row      |-> positions[p].row]]
    /\ journal' = journal \cup {[entry |-> "POSITION_CLOSED", signal |-> p, amount |-> pnl]}
    /\ UNCHANGED <<signals, approvals, orders, killSwitch>>

SetKillSwitch(active, reason) ==
    /\ killSwitch' = [active |-> active, reason |-> reason]
    /\ UNCHANGED <<signals, approvals, orders, positions, journal>>

=============================================================================
