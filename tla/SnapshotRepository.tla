------------------------- MODULE SnapshotRepository -------------------------
(***************************************************************************)
(* The market database (backend/src/teco_quant/persistence/sqlite.py): one *)
(* SQLite file in WAL mode, one connection and one RLock per process.      *)
(* Every write is a transaction begun with BEGIN IMMEDIATE, so it has two  *)
(* steps here: Begin takes the write lock of the file and reads, and a     *)
(* Commit... operator decides and writes what it read for.  Processes      *)
(* started on the same file share it.                                      *)
(*                                                                         *)
(* A stream is a contract_key of the only source, Dhan REST: the digest of *)
(* a contract names its instrument-master batch and its five strikes, so a *)
(* stream is a batch and a window of strikes, and a contract revision is   *)
(* its stream.  A snapshot has one leg, with its open interest.            *)
(***************************************************************************)
EXTENDS Integers, Sequences, FiniteSets

CONSTANTS
    Processes,     \* runs of the program on this database
    Batches,       \* instrument masters that may be fetched
    Windows,       \* the strikes around a price
    MaxInterval,   \* _MAX_CHANGE_OI_INTERVAL_SECONDS, in clock ticks
    None

ASSUME RepositoryAssumption ==
    /\ IsFiniteSet(Processes) /\ IsFiniteSet(Batches) /\ IsFiniteSet(Windows)
    /\ MaxInterval \in Nat
    /\ None \notin Batches /\ None \notin Nat
    /\ None \notin Batches \X Windows
    /\ None \notin [head : [seq : Int, ts : Int, id : Nat], last : Nat]

VARIABLES
    file,          \* the database file: "absent", "created" (version 0) or "v3"
    strategy,      \* the strategy configuration is in the database
    batches,       \* recorded instrument masters
    revisions,     \* contract revisions, by stream
    attempts,      \* ingestion_attempts, with what snapshots of them are accepted
    heads,         \* source_order_heads
    overrides,     \* accepted snapshots with a manual override
    audit,         \* audit_events, in the order of their ids
    tx             \* the open transaction of a process: what it has read, or None

rows == <<batches, revisions, attempts, heads, overrides, audit>>
database == <<file, strategy, rows>>
repositoryVars == <<database, tx>>

Streams == Batches \X Windows
Statuses == {"ACCEPTED", "REJECTED"}
FileStates == {"absent", "created", "v3"}

\* ref is the change_oi_source_snapshot_id (0: none), gap the declared interval.
Snapshots == [id : Nat, stream : Streams, seq : Nat, ts : Nat, oi : Int,
              ref : Nat, change : Int, gap : Int]
Attempts == [snapshot : Snapshots, status : Statuses]

NoHead == [seq |-> -1, ts |-> -1, id |-> 0]
Heads == [seq : Int, ts : Int, id : Nat]

EventTypes == {"STRATEGY_CONFIG_PUBLISHED", "INSTRUMENT_MASTER_RECORDED",
               "SNAPSHOT_INGESTED", "MANUAL_OVERRIDE_RECORDED"}

\* previous stands for previous_hash: the number of events the hashed chain had.
Event(type, about, previous) == [type |-> type, about |-> about, previous |-> previous]

RepositoryInit ==
    /\ file = "absent" /\ strategy = FALSE
    /\ batches = {} /\ revisions = {} /\ attempts = {} /\ overrides = {}
    /\ heads = [s \in Streams |-> NoHead]
    /\ audit = <<>>
    /\ tx = [p \in Processes |-> None]

-----------------------------------------------------------------------------
(* Reads *)

Accepted == {a.snapshot : a \in {b \in attempts : b.status = "ACCEPTED"}}
AcceptedIn(stream) == {s \in Accepted : s.stream = stream}

\* latest_previous_option_snapshot, without its optional bounds.
IsLatest(s, stream) ==
    /\ s \in AcceptedIn(stream)
    /\ \A o \in AcceptedIn(stream) : o.ts < s.ts \/ (o.ts = s.ts /\ o.seq <= s.seq)

-----------------------------------------------------------------------------
(* Opening the file *)

\* _verify_existing_schema: the version, fingerprint, columns and integrity of v3, which
\* the one transaction that creates the schema writes together.
SchemaAccepted == file = "v3"

\* _initialize_fresh_schema: CREATE TABLE fails on tables that are there.
SchemaCanBeCreated == file = "created"

-----------------------------------------------------------------------------
(* Transactions *)

\* Bug: BEGIN, which takes no lock.
UnlockedAlways == TRUE

\* No transaction is open: BEGIN IMMEDIATE takes the write lock.
Unlocked == \A q \in Processes : tx[q] = None

\* BEGIN IMMEDIATE, and the reads of the transaction: the head of the stream and the last
\* audit event.
Begin(p, stream) ==
    /\ Unlocked
    /\ tx' = [tx EXCEPT ![p] = [head |-> IF stream = None THEN NoHead ELSE heads[stream],
                                last |-> Len(audit)]]

End(p) == tx' = [tx EXCEPT ![p] = None]

\* The transaction raises: ROLLBACK.
Rollback(p) == End(p) /\ UNCHANGED database

AppendAudit(p, type, about) ==
    audit' = Append(audit, Event(type, about, tx[p].last))

\* publish_strategy_config: the program has one configuration, so an existing row is equal.
CommitStrategy(p) ==
    /\ strategy' = TRUE
    /\ IF strategy THEN UNCHANGED audit
       ELSE AppendAudit(p, "STRATEGY_CONFIG_PUBLISHED", 0)
    /\ End(p)
    /\ UNCHANGED <<file, batches, revisions, attempts, heads, overrides>>

\* record_instrument_master: a batch that is there has the same content.
CommitMaster(p, b) ==
    /\ batches' = batches \cup {b}
    /\ IF b \in batches THEN UNCHANGED audit
       ELSE AppendAudit(p, "INSTRUMENT_MASTER_RECORDED", b)
    /\ End(p)
    /\ UNCHANGED <<file, strategy, revisions, attempts, heads, overrides>>

\* Bug: only the sequence has to advance.
OrderAdvancesInSequence(p, s) == s.seq > tx[p].head.seq

\* _enforce_order
OrderAdvances(p, s) == s.seq > tx[p].head.seq /\ s.ts > tx[p].head.ts

\* _verify_change_oi_provenance, of the one leg; the validator makes the same test of the
\* snapshot its loader returns.
ChangeVerified(s) ==
    s.ref # 0 =>
        \E r \in Accepted :
            /\ r.id = s.ref /\ r.stream = s.stream
            /\ r.seq < s.seq
            /\ s.gap = s.ts - r.ts
            /\ s.gap \in 1 .. MaxInterval
            /\ s.change = s.oi - r.oi

\* _ensure_contract: the revision is stored, or the batch is whose exact records it holds.
ContractKnown(s) == s.stream \in revisions \/ s.stream[1] \in batches

\* What save_ingestion demands of an accepted snapshot.
Savable(p, s) ==
    /\ strategy
    /\ ContractKnown(s)
    /\ OrderAdvances(p, s)
    /\ ChangeVerified(s)

\* Bug: the head of the stream moves with rejected attempts too.
MovesHeadAlways(status) == TRUE

MovesHead(status) == status = "ACCEPTED"

\* Bug: INSERT OR REPLACE, by stream and sequence.
InsertReplaces(s, status) ==
    attempts' = {a \in attempts : a.snapshot.stream # s.stream \/ a.snapshot.seq # s.seq}
                    \cup {[snapshot |-> s, status |-> status]}

\* The rows of a snapshot: its components are stored in tables of accepted ones alone.
Insert(s, status) == attempts' = attempts \cup {[snapshot |-> s, status |-> status]}

\* save_ingestion, of the report's status.
CommitSnapshot(p, s, status) ==
    /\ Insert(s, status)
    /\ revisions' = IF status = "ACCEPTED" THEN revisions \cup {s.stream} ELSE revisions
    /\ heads' = IF MovesHead(status)
                THEN [heads EXCEPT ![s.stream] = [seq |-> s.seq, ts |-> s.ts, id |-> s.id]]
                ELSE heads
    /\ AppendAudit(p, "SNAPSHOT_INGESTED", s.id)
    /\ End(p)
    /\ UNCHANGED <<file, strategy, batches, overrides>>

\* add_manual_override, with an imported value that is the base's; one override is
\* the bound of the model.
AddOverride(base) ==
    /\ Unlocked
    /\ \E s \in Accepted : s.id = base
    /\ overrides = {}
    /\ overrides' = overrides \cup {base}
    /\ audit' = Append(audit, Event("MANUAL_OVERRIDE_RECORDED", base, Len(audit)))
    /\ UNCHANGED <<file, strategy, batches, revisions, attempts, heads, tx>>
=============================================================================
