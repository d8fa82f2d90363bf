--------------------------- MODULE IngestionCycle ---------------------------
(***************************************************************************)
(* What a run of the program does with the market database: it opens the   *)
(* file and publishes its strategy (runtime.py), records an instrument     *)
(* master, and takes one snapshot of a market after the other through the  *)
(* steps of _acquire_market (ingestion/dhan_acquisition.py): the chain is  *)
(* fetched, the previous snapshot read, the new one built, validated and   *)
(* saved, evaluated and recorded, a plan submitted, and the snapshot       *)
(* published to the read model.  Each step reads or writes another store,  *)
(* and a run may die between any two.                                      *)
(***************************************************************************)
EXTENDS SnapshotRepository

CONSTANTS
    Configured,      \* runs with credentials: the others acquire nothing
    OpenInterestAt,  \* open interest of the leg at each time
    MaxTime,         \* bound of the clock
    MaxSnapshots,    \* bound of the snapshots built
    MaxMishaps       \* bound of crashes, failures of SQLite and settings back of the clock

ASSUME CycleAssumption ==
    /\ Configured \subseteq Processes
    /\ OpenInterestAt \in [0 .. MaxTime -> Int]
    /\ MaxTime \in Nat /\ MaxSnapshots \in Nat /\ MaxMishaps \in Nat

VARIABLES
    clock,     \* the wall clock of the machine, which may be set back
    mishaps,   \* crashes, failures and settings back so far
    built,     \* snapshots built: their ids (uuid4) are 1 .. built
    pc,        \* the step a run is at
    catalog,   \* the instrument master in use, None before the first
    fetched,   \* the instrument master fetched last
    work,      \* the snapshot in hand
    valid,     \* the report on it accepts it
    history,   \* snapshots with a row in signal_evaluations
    executed,  \* snapshots whose plan the execution controller carried out
    shown      \* the publication in the read model

outside == <<clock, mishaps, built>>
memory == <<catalog, fetched, work, valid, shown>>
effects == <<history, executed>>
cycleVars == <<outside, pc, memory, effects>>
vars == <<repositoryVars, cycleVars>>

Steps == {"down", "refused", "absent", "fresh", "verify", "publish", "idle", "record", "fetched",
          "built", "save", "saved", "submit", "decided", "failed"}

\* A chain received at a time, of which no snapshot is built yet.
Received(stream, ts, oi) ==
    [id |-> 0, stream |-> stream, seq |-> 0, ts |-> ts, oi |-> oi, ref |-> 0, change |-> 0,
     gap |-> 0]

NoWork == Received(None, 0, 0)
NoPublication == [id |-> 0, order |-> <<-1, -1, -1>>, analysed |-> FALSE]

Init ==
    /\ RepositoryInit
    /\ clock = 0 /\ mishaps = 0 /\ built = 0
    /\ pc = [p \in Processes |-> "down"]
    /\ catalog = [p \in Processes |-> None]
    /\ fetched = [p \in Processes |-> None]
    /\ work = [p \in Processes |-> NoWork]
    /\ valid = [p \in Processes |-> FALSE]
    /\ history = {} /\ executed = {}
    /\ shown = [p \in Processes |-> NoPublication]

Goto(p, step) == pc' = [pc EXCEPT ![p] = step]

\* A run ends: what it had in memory is gone.
Forget(p, step) ==
    /\ Goto(p, step)
    /\ catalog' = [catalog EXCEPT ![p] = None]
    /\ fetched' = [fetched EXCEPT ![p] = None]
    /\ work' = [work EXCEPT ![p] = NoWork]
    /\ valid' = [valid EXCEPT ![p] = FALSE]
    /\ shown' = [shown EXCEPT ![p] = NoPublication]
    /\ UNCHANGED <<clock, built, effects>>

\* The market is done with, whatever came of it.
Done(p) ==
    /\ Goto(p, "idle")
    /\ work' = [work EXCEPT ![p] = NoWork]
    /\ valid' = [valid EXCEPT ![p] = FALSE]
    /\ UNCHANGED <<clock, built, catalog, fetched, effects>>

-----------------------------------------------------------------------------
(* The machine *)

Tick ==
    /\ clock < MaxTime
    /\ clock' = clock + 1
    /\ UNCHANGED <<repositoryVars, mishaps, built, pc, memory, effects>>

Mishap == mishaps < MaxMishaps /\ mishaps' = mishaps + 1

\* The clock is set back.
SetBack ==
    /\ Mishap
    /\ clock > 0
    /\ clock' = 0
    /\ UNCHANGED <<repositoryVars, built, pc, memory, effects>>

\* A run dies; SQLite rolls its open transaction back.
Crash(p) ==
    /\ pc[p] \notin {"down", "refused"}
    /\ Mishap
    /\ Forget(p, "down")
    /\ End(p)
    /\ UNCHANGED database

-----------------------------------------------------------------------------
(* Start *)

\* SQLiteRepository.__init__: what Path.exists says, before connecting, decides whether the
\* schema is verified or created.
LookForFile(p) ==
    /\ pc[p] \in {"down", "refused"}
    /\ Goto(p, IF file = "absent" THEN "absent" ELSE "verify")
    /\ UNCHANGED <<repositoryVars, outside, memory, effects>>

\* Connecting creates the file, unless another run has since; the journal mode is written
\* before the schema is.
Connect(p) ==
    /\ pc[p] = "absent"
    /\ file' = IF file = "absent" THEN "created" ELSE file
    /\ Goto(p, "fresh")
    /\ UNCHANGED <<strategy, rows, tx, outside, memory, effects>>

Verify(p) ==
    /\ pc[p] = "verify"
    /\ Goto(p, IF SchemaAccepted THEN "publish" ELSE "refused")
    /\ UNCHANGED <<repositoryVars, outside, memory, effects>>

\* One transaction.  The start fails when the tables are there, or another has the lock.
CreateSchema(p) ==
    /\ pc[p] = "fresh"
    /\ IF Unlocked /\ SchemaCanBeCreated
       THEN file' = "v3" /\ Goto(p, "publish")
       ELSE UNCHANGED file /\ Goto(p, "refused")
    /\ UNCHANGED <<strategy, rows, tx, outside, memory, effects>>

-----------------------------------------------------------------------------
(* Transactions *)

Writing(p) == pc[p] \in {"publish", "record", "save"}

BeginWrite(p) ==
    /\ Writing(p)
    /\ tx[p] = None
    /\ Begin(p, work[p].stream)
    /\ UNCHANGED <<database, cycleVars>>

\* What a failed transaction ends: the start of the run, the refresh of the master (the
\* prior catalog stays) or the market.
WriteFails(p) ==
    IF pc[p] = "publish" THEN Forget(p, "refused")
    ELSE Done(p) /\ UNCHANGED shown

\* The lock is not had within busy_timeout, or SQLite fails in the transaction.
StorageFails(p) ==
    /\ Writing(p)
    /\ tx[p] # None \/ ~Unlocked
    /\ Mishap
    /\ WriteFails(p)
    /\ Rollback(p)

PublishStrategy(p) ==
    /\ pc[p] = "publish" /\ tx[p] # None
    /\ CommitStrategy(p)
    /\ Done(p) /\ UNCHANGED <<mishaps, shown>>

-----------------------------------------------------------------------------
(* A cycle *)

\* A batch id digests the time of the fetch: no two fetches are the same batch.
Fresh(b) == b \notin batches /\ \A q \in Processes : fetched[q] # b

\* _refresh_master up to the transaction.
FetchMaster(p) ==
    /\ p \in Configured
    /\ pc[p] = "idle"
    /\ \E b \in Batches :
          /\ Fresh(b)
          /\ fetched' = [fetched EXCEPT ![p] = b]
    /\ Goto(p, "record")
    /\ UNCHANGED <<repositoryVars, outside, catalog, work, valid, effects, shown>>

RecordMaster(p) ==
    /\ pc[p] = "record" /\ tx[p] # None
    /\ CommitMaster(p, fetched[p])
    /\ Goto(p, "idle")
    /\ catalog' = [catalog EXCEPT ![p] = fetched[p]]
    /\ UNCHANGED <<outside, fetched, work, valid, effects, shown>>

\* The quote chooses the strikes, and the chain is received: its time is the source time.
FetchChain(p) ==
    /\ pc[p] = "idle" /\ catalog[p] # None
    /\ \E w \in Windows :
          work' = [work EXCEPT ![p] = Received(<<catalog[p], w>>, clock, OpenInterestAt[clock])]
    /\ Goto(p, "fetched")
    /\ UNCHANGED <<repositoryVars, outside, catalog, fetched, valid, effects, shown>>

\* A request fails, or what it returned is refused before a snapshot is built: expired,
\* incoherent in time, without the candles it needs.
AcquisitionFails(p) ==
    /\ pc[p] \in {"idle", "fetched"}
    /\ Done(p)
    /\ UNCHANGED <<repositoryVars, mishaps, shown>>

\* _compatible_previous_quotes: the previous leg, when it is recent enough.
Compatible(s, previous) == s.ts - previous.ts \in 1 .. MaxInterval

\* build_dhan_snapshot on the previous accepted snapshot of the stream, if there is one.
Build(s, id, previous) ==
    LET next == [s EXCEPT !.id = id, !.seq = IF previous = None THEN 1 ELSE previous.seq + 1]
    IN  IF previous # None /\ Compatible(s, previous)
        THEN [next EXCEPT !.ref = previous.id, !.gap = s.ts - previous.ts,
                          !.change = s.oi - previous.oi]
        ELSE next

ReadPrevious(p) ==
    /\ pc[p] = "fetched"
    /\ built < MaxSnapshots
    /\ built' = built + 1
    /\ \E previous \in AcceptedIn(work[p].stream) \cup {None} :
          /\ IF previous = None THEN AcceptedIn(work[p].stream) = {}
             ELSE IsLatest(previous, work[p].stream)
          /\ work' = [work EXCEPT ![p] = Build(work[p], built + 1, previous)]
    /\ Goto(p, "built")
    /\ UNCHANGED <<repositoryVars, clock, mishaps, catalog, fetched, valid, effects,
                   shown>>

\* SnapshotValidator.validate: any of its other rules may reject the payload.
Validate(p) ==
    /\ pc[p] = "built"
    /\ \E ok \in BOOLEAN :
          /\ ok => ChangeVerified(work[p])
          /\ valid' = [valid EXCEPT ![p] = ok]
    /\ Goto(p, "save")
    /\ UNCHANGED <<repositoryVars, outside, catalog, fetched, work, effects, shown>>

Save(p) ==
    /\ pc[p] = "save" /\ tx[p] # None
    /\ valid[p] => Savable(p, work[p])
    /\ CommitSnapshot(p, work[p], IF valid[p] THEN "ACCEPTED" ELSE "REJECTED")
    /\ Goto(p, "saved")
    /\ UNCHANGED <<outside, memory, effects>>

\* save_ingestion raises: no evidence is kept, and the market fails in this cycle.
SaveRefused(p) ==
    /\ pc[p] = "save" /\ tx[p] # None
    /\ valid[p] /\ ~Savable(p, work[p])
    /\ Rollback(p)
    /\ Done(p) /\ UNCHANGED <<mishaps, shown>>

\* The signal is evaluated and put into the history; only an accepted snapshot can give
\* an actionable plan.
Evaluate(p) ==
    /\ pc[p] = "saved"
    /\ history' = history \cup {work[p].id}
    /\ \E next \in {"submit", "decided"} :
          /\ next = "submit" => valid[p]
          /\ Goto(p, next)
    /\ UNCHANGED <<repositoryVars, outside, memory, executed>>

\* The evaluation or the history raises: the snapshot goes on without an analysis.
EvaluationFails(p) ==
    /\ pc[p] = "saved"
    /\ Goto(p, "failed")
    /\ UNCHANGED <<repositoryVars, outside, memory, effects>>

\* submit carries the plan out, or is blocked; it may also raise, before or after it has
\* carried the plan out, and then the analysis is lost to the read model.
Submit(p) ==
    /\ pc[p] = "submit"
    /\ \E done \in SUBSET {work[p].id}, next \in {"decided", "failed"} :
          /\ executed' = executed \cup done
          /\ Goto(p, next)
    /\ UNCHANGED <<repositoryVars, outside, memory, history>>

\* <<source time, sequence, time of receipt>>: of two snapshots of a run that agree in the
\* first two, the one built later is received later.
OrderOf(s) == <<s.ts, s.seq, s.id>>

\* Python's order of tuples.
Before(a, b) ==
    \/ a[1] < b[1]
    \/ a[1] = b[1] /\ (a[2] < b[2] \/ (a[2] = b[2] /\ a[3] < b[3]))

\* Bug: a snapshot without an analysis is not published.
PublishAnalysed(p) ==
    /\ pc[p] \in {"decided", "failed"}
    /\ IF Before(shown[p].order, OrderOf(work[p])) /\ pc[p] = "decided"
       THEN shown' = [shown EXCEPT ![p] = [id |-> work[p].id, order |-> OrderOf(work[p]),
                                           analysed |-> TRUE]]
       ELSE UNCHANGED shown
    /\ Done(p)
    /\ UNCHANGED <<repositoryVars, mishaps>>

\* MarketReadModelStore.publish, of the one selection.
Publish(p) ==
    /\ pc[p] \in {"decided", "failed"}
    /\ IF Before(shown[p].order, OrderOf(work[p]))
       THEN shown' = [shown EXCEPT ![p] = [id |-> work[p].id, order |-> OrderOf(work[p]),
                                           analysed |-> pc[p] = "decided"]]
       ELSE UNCHANGED shown
    /\ Done(p)
    /\ UNCHANGED <<repositoryVars, mishaps>>

\* A caller of the repository in a run that is up.
Override(p) ==
    /\ pc[p] = "idle"
    /\ \E base \in 1 .. built : AddOverride(base)
    /\ UNCHANGED cycleVars

Next ==
    \/ Tick \/ SetBack
    \/ \E p \in Processes :
          \/ Crash(p) \/ LookForFile(p) \/ Connect(p) \/ Verify(p) \/ CreateSchema(p)
          \/ BeginWrite(p) \/ StorageFails(p) \/ PublishStrategy(p)
          \/ FetchMaster(p) \/ RecordMaster(p)
          \/ FetchChain(p) \/ AcquisitionFails(p) \/ ReadPrevious(p) \/ Validate(p)
          \/ Save(p) \/ SaveRefused(p)
          \/ Evaluate(p) \/ EvaluationFails(p) \/ Submit(p) \/ Publish(p)
          \/ Override(p)

Spec == Init /\ [][Next]_vars

-----------------------------------------------------------------------------
(* Properties *)

\* Every variable of the database and of the runs has its type
\* (persistence/sqlite.py, ingestion/dhan_acquisition.py).
TypeOK ==
    /\ file \in FileStates /\ strategy \in BOOLEAN
    /\ batches \subseteq Batches /\ revisions \subseteq Streams
    /\ attempts \subseteq Attempts /\ overrides \subseteq Nat
    /\ heads \in [Streams -> Heads]
    /\ audit \in Seq([type : EventTypes, about : Batches \cup Nat, previous : Nat])
    /\ tx \in [Processes -> {None} \cup [head : Heads, last : Nat]]
    /\ clock \in 0 .. MaxTime /\ mishaps \in Nat /\ built \in Nat
    /\ pc \in [Processes -> Steps]
    /\ catalog \in [Processes -> Batches \cup {None}]
    /\ fetched \in [Processes -> Batches \cup {None}]
    /\ work \in [Processes -> Snapshots \cup {NoWork}]
    /\ valid \in [Processes -> BOOLEAN]
    /\ history \subseteq Nat /\ executed \subseteq Nat
    /\ shown \in [Processes -> [id : Nat, order : Int \X Int \X Int, analysed : BOOLEAN]]

SequencesAdvance(stream) ==
    \A a, b \in AcceptedIn(stream) : a # b => a.seq # b.seq /\ (a.seq < b.seq <=> a.ts < b.ts)

\* A change of open interest is the difference to the snapshot just before.
ChangesAreExact(stream) ==
    \A a \in AcceptedIn(stream) :
        a.ref # 0 =>
            \E b \in AcceptedIn(stream) :
                /\ b.id = a.ref /\ b.seq = a.seq - 1
                /\ a.change = a.oi - b.oi
                /\ a.gap = a.ts - b.ts /\ a.gap \in 1 .. MaxInterval

HeadIsLast(stream) ==
    IF AcceptedIn(stream) = {} THEN heads[stream] = NoHead
    ELSE \E a \in AcceptedIn(stream) :
            /\ IsLatest(a, stream)
            /\ heads[stream] = [seq |-> a.seq, ts |-> a.ts, id |-> a.id]

\* Within a stream the accepted snapshots advance in sequence and in source time together,
\* without a gap in the sequence, the head is the last of them, and every change of open
\* interest is the difference to the snapshot just before, whatever the clock does and
\* whoever dies (_enforce_order, _verify_change_oi_provenance and the upsert of
\* source_order_heads, sqlite.py).
StreamsInOrder ==
    \A s \in Streams :
        /\ SequencesAdvance(s)
        /\ {a.seq : a \in AcceptedIn(s)} = 1 .. Cardinality(AcceptedIn(s))
        /\ ChangesAreExact(s)
        /\ HeadIsLast(s)

\* The rows that an audit event must tell of.
AuditedRows ==
    {<<"STRATEGY_CONFIG_PUBLISHED", 0>> : x \in IF strategy THEN {0} ELSE {}}
    \cup {<<"INSTRUMENT_MASTER_RECORDED", b>> : b \in batches}
    \cup {<<"SNAPSHOT_INGESTED", a.snapshot.id>> : a \in attempts}
    \cup {<<"MANUAL_OVERRIDE_RECORDED", o>> : o \in overrides}

\* The audit is one chain, in which each event names the one before it, and it tells of
\* each committed row once and of nothing else (_append_audit, sqlite.py).
AuditIsWhole ==
    /\ \A i \in 1 .. Len(audit) : audit[i].previous = i - 1
    /\ Len(audit) = Cardinality(AuditedRows)
    /\ {<<audit[i].type, audit[i].about>> : i \in 1 .. Len(audit)} = AuditedRows

ShownIsSaved == \A p \in Processes : shown[p].id \in {0} \cup {a.snapshot.id : a \in attempts}

\* Nothing is done about a snapshot that the database does not hold: a signal in the
\* history, an order, and what the API shows are of saved snapshots, and an order is of an
\* accepted one with its signal in the history (automation/service.py process).
EffectsHaveEvidence ==
    /\ history \subseteq {a.snapshot.id : a \in attempts}
    /\ executed \subseteq history \cap {s.id : s \in Accepted}
    /\ ShownIsSaved

\* A snapshot the validator accepts is refused by the transaction for one reason: its source
\* time does not pass the head's, because the clock did not.  Its strategy, contract, change
\* of open interest and sequence, all read before the transaction, still stand
\* (save_ingestion, sqlite.py).
RefusedOnlyForClock ==
    \A p \in Processes :
        (pc[p] = "save" /\ tx[p] # None /\ valid[p] /\ ~Savable(p, work[p])) =>
            /\ work[p].ts <= heads[work[p].stream].ts
            /\ strategy /\ work[p].stream[1] \in batches
            /\ ChangeVerified(work[p])
            /\ work[p].seq > heads[work[p].stream].seq

\* The read model shows only what was saved and, between two markets, nothing older than any
\* saved snapshot of its master: rejected ones, and those whose analysis failed, included
\* (_acquire_market, dhan_acquisition.py).
ShownIsNewest ==
    /\ ShownIsSaved
    /\ \A p \in Processes :
          pc[p] = "idle" =>
              \A a \in attempts :
                  a.snapshot.stream[1] = catalog[p] =>
                      ~Before(shown[p].order, OrderOf(a.snapshot))

-----------------------------------------------------------------------------
(* Refinement *)

\* ingestion_attempts, whatever the report said.
Saved == {a.snapshot : a \in attempts}

Log == INSTANCE EvidenceLog
    WITH saved <- Saved, accepted <- Accepted, judged <- history, acted <- executed

\* Crashes, retries, other runs and a clock that is set back included, every step is one of
\* EvidenceLog, or none: a snapshot once saved is never rewritten or dropped, an accepted one
\* continues what its stream was at the commit, and a plan is carried out after its snapshot
\* was accepted and its signal recorded (save_ingestion, sqlite.py; _acquire_market,
\* dhan_acquisition.py).
ImplementsLog == Log!LogSpec
=============================================================================
