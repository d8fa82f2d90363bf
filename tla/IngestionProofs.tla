--------------------------- MODULE IngestionProofs ---------------------------
(***************************************************************************)
(* Proofs about IngestionCycle for any number of processes, masters,       *)
(* windows, snapshots and mishaps, and any clock.  The inductive invariant *)
(* says what the transaction that holds the write lock has read (Locked),  *)
(* that ids and masters are given once (IdsApart, MastersApart), what a    *)
(* run at each step knows of the snapshot it has in hand (HandsSaved,      *)
(* FollowsHead), and what that makes of the streams, the audit and the     *)
(* publications.                                                           *)
(***************************************************************************)
EXTENDS IngestionCycle, FiniteSetTheorems, TLAPS

-----------------------------------------------------------------------------
(* The invariant *)

\* A snapshot is in hand; it is built; it is saved.
InHand(p) == pc[p] \in {"fetched", "built", "save", "saved", "submit", "decided", "failed"}
Unsaved(p) == pc[p] \in {"built", "save"}
IsSaved(p) == pc[p] \in {"saved", "submit", "decided", "failed"}

HandsTyped ==
    \A p \in Processes :
        /\ InHand(p) => work[p] \in Snapshots
        /\ pc[p] = "record" => fetched[p] # None
        /\ tx[p] # None => Writing(p)

\* One transaction at most, and what it has read still stands.
Locked ==
    /\ \A p, q \in Processes : tx[p] # None /\ tx[q] # None => p = q
    /\ \A p \in Processes :
          tx[p] # None =>
              /\ tx[p].last = Len(audit)
              /\ pc[p] = "save" => tx[p].head = heads[work[p].stream]

\* Ids are given once: to one attempt, or to one snapshot that is not saved yet.
IdsApart ==
    /\ \A a \in attempts : a.snapshot.id \in 1 .. built
    /\ \A a, b \in attempts : a.snapshot.id = b.snapshot.id => a = b
    /\ \A p \in Processes : Unsaved(p) => /\ work[p].id \in 1 .. built
                                          /\ \A a \in attempts : a.snapshot.id # work[p].id
    /\ \A p, q \in Processes :
          Unsaved(p) /\ Unsaved(q) /\ work[p].id = work[q].id => p = q

\* What a run does about a snapshot it does with a saved one; it submits the plan of an
\* accepted one, whose signal is in the history.
HandsSaved ==
    \A p \in Processes :
        IsSaved(p) =>
            /\ [snapshot |-> work[p],
                status |-> IF valid[p] THEN "ACCEPTED" ELSE "REJECTED"] \in attempts
            /\ pc[p] = "submit" => valid[p] /\ work[p].id \in history

\* A master is fetched by one run, which alone takes snapshots of it.
MastersApart ==
    /\ \A p, q \in Processes :
          p # q =>
              /\ fetched[p] # None => fetched[p] # fetched[q] /\ fetched[p] # catalog[q]
              /\ catalog[p] # None => catalog[p] # catalog[q]
    /\ \A p \in Processes :
          /\ catalog[p] # None => catalog[p] \in batches
          /\ pc[p] = "record" => fetched[p] \notin batches
          /\ InHand(p) => work[p].stream[1] = catalog[p]
    /\ \A a \in attempts : a.snapshot.stream[1] \in batches

\* The snapshot that is built follows one that was accepted, the only one it may refer to,
\* and nothing has followed it since.
Follows(s) ==
    /\ \/ s.seq = 1 /\ s.ref = 0
       \/ \E r \in AcceptedIn(s.stream) : s.seq = r.seq + 1 /\ s.ref \in {0, r.id}
    /\ s.seq > heads[s.stream].seq

FollowsHead ==
    \A p \in Processes :
        /\ pc[p] = "fetched" => work[p].ref = 0
        /\ Unsaved(p) => Follows(work[p])
        /\ pc[p] = "save" /\ valid[p] => ChangeVerified(work[p])

\* Past the start, the strategy is in the database.
StrategyPublished ==
    \A p \in Processes :
        pc[p] \notin {"down", "refused", "absent", "fresh", "verify", "publish"} => strategy

\* Only what a run has in hand may be newer than what it shows.
NewestShown ==
    \A p \in Processes :
        \A a \in attempts :
            a.snapshot.stream[1] = catalog[p] =>
                \/ IsSaved(p) /\ a.snapshot = work[p]
                \/ ~Before(shown[p].order, OrderOf(a.snapshot))

-----------------------------------------------------------------------------
(* Types *)

\* A snapshot in the making has the type of a snapshot.
LEMMA BuildType ==
    ASSUME NEW s \in Snapshots, NEW id \in Nat, NEW previous \in Snapshots \cup {None}
    PROVE  Build(s, id, previous) \in Snapshots
<1> DEFINE n == IF previous = None THEN 1 ELSE previous.seq + 1
           next == [s EXCEPT !.id = id, !.seq = n]
<1>1. next \in Snapshots
    <2>1. n \in Nat
        BY DEF Snapshots
    <2> HIDE DEF n
    <2> QED
        BY <2>1 DEF Snapshots
<1>2. Build(s, id, previous) =
          IF previous # None /\ Compatible(s, previous)
          THEN [next EXCEPT !.ref = previous.id, !.gap = s.ts - previous.ts,
                            !.change = s.oi - previous.oi]
          ELSE next
    BY Zenon DEF Build
<1> HIDE DEF next
<1>3. ASSUME previous # None
      PROVE  previous.id \in Nat /\ s.ts - previous.ts \in Int /\ s.oi - previous.oi \in Int
    BY <1>3 DEF Snapshots
<1>4. ASSUME NEW r \in Nat, NEW g \in Int, NEW c \in Int
      PROVE  [next EXCEPT !.ref = r, !.gap = g, !.change = c] \in Snapshots
    BY <1>1 DEF Snapshots
<1>5. CASE previous # None /\ Compatible(s, previous)
    BY <1>2, <1>3, <1>4, <1>5, ZenonT(60)
<1> QED
    BY <1>1, <1>2, <1>5

\* What building gives a snapshot and what it leaves alone.
LEMMA BuiltId ==
    ASSUME NEW s \in Snapshots, NEW id, NEW previous
    PROVE  /\ Build(s, id, previous).id = id
           /\ Build(s, id, previous).stream = s.stream
           /\ Build(s, id, previous).ts = s.ts
           /\ Build(s, id, previous).oi = s.oi
           /\ Build(s, id, previous).seq = IF previous = None THEN 1 ELSE previous.seq + 1
           /\ IF previous # None /\ Compatible(s, previous)
              THEN Build(s, id, previous).ref = previous.id
              ELSE Build(s, id, previous).ref = s.ref
<1> DEFINE n == IF previous = None THEN 1 ELSE previous.seq + 1
           next == [s EXCEPT !.id = id, !.seq = n]
<1>1. /\ next.id = id /\ next.seq = n /\ next.stream = s.stream /\ next.ts = s.ts
      /\ next.oi = s.oi /\ next.ref = s.ref
      /\ DOMAIN next = {"id", "stream", "seq", "ts", "oi", "ref", "change", "gap"}
    BY DEF Snapshots
<1>2. Build(s, id, previous) =
          IF previous # None /\ Compatible(s, previous)
          THEN [next EXCEPT !.ref = previous.id, !.gap = s.ts - previous.ts,
                            !.change = s.oi - previous.oi]
          ELSE next
    BY Zenon DEF Build
<1> HIDE DEF next
<1> QED
    BY <1>1, <1>2

LEMMA ReceivedType ==
    ASSUME NEW s \in Streams, NEW t \in Nat, NEW o \in Int
    PROVE  Received(s, t, o) \in Snapshots
    BY DEF Received, Snapshots

LEMMA TypedInit == Init => TypeOK /\ HandsTyped
<1> SUFFICES ASSUME Init
             PROVE  TypeOK /\ HandsTyped
    OBVIOUS
<1> USE DEF Init, RepositoryInit
<1>1. TypeOK
    <2>1. heads \in [Streams -> Heads] /\ tx \in [Processes -> {None}]
        BY DEF Heads, NoHead
    <2>2. /\ pc \in [Processes -> Steps] /\ valid \in [Processes -> BOOLEAN]
          /\ catalog \in [Processes -> {None}] /\ fetched \in [Processes -> {None}]
          /\ work \in [Processes -> {NoWork}]
        BY DEF Steps
    <2>3. shown \in [Processes -> [id : Nat, order : Int \X Int \X Int, analysed : BOOLEAN]]
        <3>1. <<-1, -1, -1>> \in Int \X Int \X Int
            OBVIOUS
        <3>2. NoPublication \in [id : Nat, order : Int \X Int \X Int, analysed : BOOLEAN]
            BY <3>1 DEF NoPublication
        <3> QED
            BY <3>2
    <2>4. audit \in Seq([type : EventTypes, about : Batches \cup Nat, previous : Nat])
        OBVIOUS
    <2>5. 0 \in 0 .. MaxTime
        BY CycleAssumption
    <2> QED
        BY <2>1, <2>2, <2>3, <2>4, <2>5 DEF TypeOK, FileStates
<1>2. HandsTyped
    BY DEF HandsTyped, InHand
<1> QED
    BY <1>1, <1>2

\* What a transaction reads has its type, and a transaction that has begun is none's.
LEMMA BeginType ==
    ASSUME TypeOK, NEW p \in Processes, NEW s \in Streams \cup {None}, Begin(p, s)
    PROVE  /\ tx' \in [Processes -> {None} \cup [head : Heads, last : Nat]]
           /\ tx'[p] # None
           /\ \A q \in Processes \ {p} : tx'[q] = tx[q]
<1> DEFINE read == [head |-> IF s = None THEN NoHead ELSE heads[s], last |-> Len(audit)]
<1>1. read \in [head : Heads, last : Nat]
    <2>1. NoHead \in Heads
        BY DEF NoHead, Heads
    <2>2. s # None => heads[s] \in Heads
        BY DEF TypeOK
    <2>3. Len(audit) \in Nat
        BY DEF TypeOK
    <2> QED
        BY <2>1, <2>2, <2>3
<1>2. read # None
    BY <1>1, RepositoryAssumption DEF Heads
<1>3. tx' = [tx EXCEPT ![p] = read] /\ tx \in [Processes -> {None} \cup [head : Heads, last : Nat]]
    BY DEF Begin, TypeOK
<1> QED
    BY <1>1, <1>2, <1>3

AuditEvents == [type : EventTypes, about : Batches \cup Nat, previous : Nat]
Readings == [head : Heads, last : Nat]

\* The two halves of TypeOK.
DatabaseTyped ==
    /\ file \in FileStates /\ strategy \in BOOLEAN
    /\ batches \subseteq Batches /\ revisions \subseteq Streams
    /\ attempts \subseteq Attempts /\ overrides \subseteq Nat
    /\ heads \in [Streams -> Heads]
    /\ audit \in Seq(AuditEvents)
    /\ tx \in [Processes -> {None} \cup Readings]

RunsTyped ==
    /\ clock \in 0 .. MaxTime /\ mishaps \in Nat /\ built \in Nat
    /\ pc \in [Processes -> Steps]
    /\ catalog \in [Processes -> Batches \cup {None}]
    /\ fetched \in [Processes -> Batches \cup {None}]
    /\ work \in [Processes -> Snapshots \cup {NoWork}]
    /\ valid \in [Processes -> BOOLEAN]
    /\ history \subseteq Nat /\ executed \subseteq Nat
    /\ shown \in [Processes -> [id : Nat, order : Int \X Int \X Int, analysed : BOOLEAN]]

LEMMA TypeHalves == TypeOK <=> DatabaseTyped /\ RunsTyped
    BY DEF TypeOK, DatabaseTyped, RunsTyped, AuditEvents, Readings

LEMMA EventTyped ==
    ASSUME NEW type \in EventTypes, NEW about \in Batches \cup Nat, NEW previous \in Nat
    PROVE  Event(type, about, previous) \in AuditEvents
    BY DEF Event, AuditEvents

\* An event is appended after the last.
LEMMA Appended ==
    ASSUME DatabaseTyped, NEW event \in AuditEvents, audit' = Append(audit, event)
    PROVE  /\ audit' \in Seq(AuditEvents)
           /\ Len(audit') = Len(audit) + 1
           /\ \A i \in 1 .. Len(audit) : audit'[i] = audit[i]
           /\ audit'[Len(audit) + 1] = event
    BY DEF DatabaseTyped

LEMMA AuditTyped ==
    ASSUME DatabaseTyped, NEW p \in Processes, tx[p] # None,
           NEW type \in EventTypes, NEW about \in Batches \cup Nat,
           AppendAudit(p, type, about)
    PROVE  audit' \in Seq(AuditEvents)
<1>1. tx[p].last \in Nat
    BY DEF DatabaseTyped, Readings
<1> QED
    BY <1>1, EventTyped, Appended DEF AppendAudit

\* A run hands the repository no batch and no snapshot but one of the right type.
LEMMA DatabaseTypedNext ==
    ASSUME TypeOK, HandsTyped, [Next]_vars
    PROVE  DatabaseTyped'
<1>1. DatabaseTyped /\ RunsTyped
    BY TypeHalves
<1> USE <1>1
<1>2. ASSUME NEW p \in Processes, End(p), UNCHANGED database
      PROVE  DatabaseTyped'
    BY <1>2 DEF End, DatabaseTyped, database, rows
<1>3. ASSUME NEW p \in Processes, End(p)
      PROVE  tx' \in [Processes -> {None} \cup Readings]
    BY <1>3 DEF End, DatabaseTyped
<1>4. ASSUME NEW p \in Processes, PublishStrategy(p)
      PROVE  DatabaseTyped'
    <2>1. audit' \in Seq(AuditEvents)
        BY <1>4, AuditTyped DEF PublishStrategy, CommitStrategy, EventTypes, DatabaseTyped
    <2> QED
        BY <1>3, <1>4, <2>1 DEF PublishStrategy, CommitStrategy, DatabaseTyped
<1>5. ASSUME NEW p \in Processes, RecordMaster(p)
      PROVE  DatabaseTyped'
    <2>1. fetched[p] \in Batches
        BY <1>5 DEF RecordMaster, HandsTyped, RunsTyped
    <2>2. audit' \in Seq(AuditEvents)
        BY <1>5, <2>1, AuditTyped DEF RecordMaster, CommitMaster, EventTypes, DatabaseTyped
    <2> QED
        BY <1>3, <1>5, <2>1, <2>2 DEF RecordMaster, CommitMaster, DatabaseTyped
<1>6. ASSUME NEW p \in Processes, Save(p)
      PROVE  DatabaseTyped'
    <2> DEFINE s == work[p]
               status == IF valid[p] THEN "ACCEPTED" ELSE "REJECTED"
    <2>1. s \in Snapshots /\ status \in Statuses /\ tx[p] # None /\ CommitSnapshot(p, s, status)
        BY <1>6 DEF Save, HandsTyped, InHand, Statuses
    <2> HIDE DEF s, status
    <2>2. /\ s.id \in Nat /\ s.stream \in Streams
          /\ [seq |-> s.seq, ts |-> s.ts, id |-> s.id] \in Heads
          /\ [snapshot |-> s, status |-> status] \in Attempts
        BY <2>1 DEF Snapshots, Heads, Attempts
    <2>3. audit' \in Seq(AuditEvents)
        BY <2>1, <2>2, AuditTyped DEF CommitSnapshot, EventTypes
    <2>4. /\ file' \in FileStates /\ strategy' \in BOOLEAN
          /\ batches' \subseteq Batches /\ overrides' \subseteq Nat
          /\ attempts' \subseteq Attempts /\ revisions' \subseteq Streams
        BY <2>1, <2>2 DEF CommitSnapshot, Insert, DatabaseTyped
    <2>5. heads' \in [Streams -> Heads]
        BY <2>1, <2>2 DEF CommitSnapshot, DatabaseTyped
    <2> QED
        BY <1>3, <2>1, <2>3, <2>4, <2>5 DEF CommitSnapshot, DatabaseTyped
<1>7. ASSUME NEW p \in Processes, Override(p)
      PROVE  DatabaseTyped'
    <2>1. PICK base \in 1 .. built : AddOverride(base)
        BY <1>7 DEF Override
    <2>2. base \in Nat /\ Len(audit) \in Nat
        BY DEF RunsTyped, DatabaseTyped
    <2>3. audit' \in Seq(AuditEvents)
        BY <2>1, <2>2, EventTyped, Appended DEF AddOverride, EventTypes
    <2> QED
        BY <2>1, <2>2, <2>3 DEF AddOverride, DatabaseTyped
<1>8. ASSUME NEW p \in Processes, BeginWrite(p)
      PROVE  DatabaseTyped'
    <2>1. work[p].stream \in Streams \cup {None}
        BY DEF RunsTyped, Snapshots, NoWork, Received
    <2>2. tx' \in [Processes -> {None} \cup Readings]
        BY <1>8, <2>1, BeginType DEF BeginWrite, Readings
    <2> QED
        BY <1>8, <2>2 DEF BeginWrite, database, rows, DatabaseTyped
<1>9. ASSUME NEW p \in Processes, Crash(p) \/ StorageFails(p) \/ SaveRefused(p)
      PROVE  DatabaseTyped'
    BY <1>2, <1>9 DEF Crash, StorageFails, SaveRefused, Rollback
<1>10. ASSUME NEW p \in Processes, LookForFile(p) \/ Connect(p) \/ Verify(p) \/ CreateSchema(p)
       PROVE  DatabaseTyped'
    BY <1>10 DEF LookForFile, Connect, Verify, CreateSchema, DatabaseTyped, repositoryVars,
                 database, rows,
                 FileStates
<1>11. CASE UNCHANGED repositoryVars
    BY <1>11 DEF DatabaseTyped, repositoryVars, database, rows
<1> QED
    BY <1>4, <1>5, <1>6, <1>7, <1>8, <1>9, <1>10, <1>11, SMTT(30)
       DEF Next, Tick, SetBack, FetchMaster, FetchChain, AcquisitionFails, ReadPrevious,
           Validate, Evaluate, EvaluationFails, Submit, Publish, vars

LEMMA RunsTypedNext ==
    ASSUME TypeOK, HandsTyped, [Next]_vars
    PROVE  RunsTyped'
<1>1. DatabaseTyped /\ RunsTyped
    BY TypeHalves
<1> USE <1>1
<1>2. ASSUME NEW p \in Processes, NEW step \in Steps, Forget(p, step), mishaps' \in Nat
      PROVE  RunsTyped'
    <2>1. NoPublication \in [id : Nat, order : Int \X Int \X Int, analysed : BOOLEAN]
        BY DEF NoPublication
    <2> QED
        BY <1>2, <2>1 DEF Forget, Goto, effects, RunsTyped
<1>3. ASSUME NEW p \in Processes, Done(p), UNCHANGED shown, mishaps' \in Nat
      PROVE  RunsTyped'
    BY <1>3 DEF Done, Goto, effects, RunsTyped, Steps
<1>4. ASSUME NEW p \in Processes, NEW step \in Steps, Goto(p, step),
             UNCHANGED <<outside, memory, effects>>
      PROVE  RunsTyped'
    BY <1>4 DEF Goto, outside, memory, effects, RunsTyped
<1>5. Tick \/ SetBack => RunsTyped'
    <2>1. MaxTime \in Nat
        BY CycleAssumption
    <2>2. ASSUME UNCHANGED <<built, pc, memory, effects>>, clock' \in 0 .. MaxTime, mishaps' \in Nat
          PROVE  RunsTyped'
        BY <2>2 DEF memory, effects, RunsTyped
    <2>3. Tick => clock' \in 0 .. MaxTime /\ mishaps' \in Nat
        BY <2>1 DEF Tick, RunsTyped
    <2>4. SetBack => clock' \in 0 .. MaxTime /\ mishaps' \in Nat
        BY <2>1 DEF SetBack, Mishap, RunsTyped
    <2> QED
        BY <2>2, <2>3, <2>4 DEF Tick, SetBack
<1>6. ASSUME NEW p \in Processes, Crash(p) \/ StorageFails(p)
      PROVE  RunsTyped'
    <2>1. mishaps' \in Nat
        BY <1>6 DEF Crash, StorageFails, Mishap, RunsTyped
    <2> QED
        BY <1>2, <1>3, <1>6, <2>1 DEF Crash, StorageFails, WriteFails, Steps
<1>7. ASSUME NEW p \in Processes,
             \/ LookForFile(p) \/ Connect(p) \/ Verify(p) \/ CreateSchema(p)
             \/ Save(p) \/ EvaluationFails(p)
      PROVE  RunsTyped'
    BY <1>4, <1>7 DEF LookForFile, Connect, Verify, CreateSchema, Save, EvaluationFails, Steps
<1>8. ASSUME NEW p \in Processes,
             PublishStrategy(p) \/ AcquisitionFails(p) \/ SaveRefused(p)
      PROVE  RunsTyped'
    BY <1>3, <1>8 DEF PublishStrategy, AcquisitionFails, SaveRefused, RunsTyped
<1>9. ASSUME NEW p \in Processes, FetchMaster(p) \/ RecordMaster(p)
      PROVE  RunsTyped'
    <2>1. pc' \in [Processes -> Steps]
        BY <1>9 DEF FetchMaster, RecordMaster, Goto, RunsTyped, Steps
    <2>2. fetched' \in [Processes -> Batches \cup {None}]
        BY <1>9 DEF FetchMaster, RecordMaster, RunsTyped
    <2>3. catalog' \in [Processes -> Batches \cup {None}]
        BY <1>9 DEF FetchMaster, RecordMaster, RunsTyped
    <2> QED
        BY <1>9, <2>1, <2>2, <2>3 DEF FetchMaster, RecordMaster, outside, effects, RunsTyped
<1>10. ASSUME NEW p \in Processes, FetchChain(p)
       PROVE  RunsTyped'
    <2>1. PICK w \in Windows :
              work' = [work EXCEPT
                  ![p] = Received(<<catalog[p], w>>, clock, OpenInterestAt[clock])]
        BY <1>10 DEF FetchChain
    <2>2. /\ <<catalog[p], w>> \in Streams /\ clock \in Nat /\ OpenInterestAt[clock] \in Int
        BY <1>10, CycleAssumption DEF FetchChain, RunsTyped, Streams
    <2>3. Received(<<catalog[p], w>>, clock, OpenInterestAt[clock]) \in Snapshots
        BY <2>2, ReceivedType
    <2>4. work' \in [Processes -> Snapshots \cup {NoWork}]
        BY <2>1, <2>3 DEF RunsTyped
    <2> QED
        BY <1>10, <2>4 DEF FetchChain, Goto, outside, effects, RunsTyped, Steps
<1>11. ASSUME NEW p \in Processes, ReadPrevious(p)
       PROVE  RunsTyped'
    <2>1. PICK previous \in AcceptedIn(work[p].stream) \cup {None} :
              work' = [work EXCEPT ![p] = Build(work[p], built + 1, previous)]
        BY <1>11 DEF ReadPrevious
    <2>2. previous \in Snapshots \cup {None}
        BY DEF AcceptedIn, Accepted, DatabaseTyped, Attempts
    <2>3. work[p] \in Snapshots /\ built + 1 \in Nat
        BY <1>11 DEF ReadPrevious, HandsTyped, InHand, RunsTyped
    <2>4. work' \in [Processes -> Snapshots \cup {NoWork}]
        BY <2>1, <2>2, <2>3, BuildType DEF RunsTyped
    <2> QED
        BY <1>11, <2>4 DEF ReadPrevious, Goto, effects, RunsTyped, Steps
<1>12. ASSUME NEW p \in Processes, Validate(p)
       PROVE  RunsTyped'
    BY <1>12 DEF Validate, Goto, outside, effects, RunsTyped, Steps
<1>13. ASSUME NEW p \in Processes, Evaluate(p) \/ Submit(p)
       PROVE  RunsTyped'
    <2>1. work[p].id \in Nat
        BY DEF RunsTyped, Snapshots, NoWork, Received
    <2>2. \E step \in Steps : Goto(p, step)
        BY <1>13 DEF Evaluate, Submit, Steps
    <2>3. history' \subseteq Nat /\ executed' \subseteq Nat
        BY <1>13, <2>1 DEF Evaluate, Submit, RunsTyped
    <2> QED
        BY <1>13, <2>2, <2>3 DEF Evaluate, Submit, Goto, outside, memory, RunsTyped
<1>14. ASSUME NEW p \in Processes, Publish(p)
       PROVE  RunsTyped'
    <2>1. work[p].id \in Nat /\ OrderOf(work[p]) \in Int \X Int \X Int
        BY DEF RunsTyped, Snapshots, NoWork, Received, OrderOf
    <2> DEFINE publication == [id |-> work[p].id, order |-> OrderOf(work[p]),
                               analysed |-> pc[p] = "decided"]
    <2>2. shown' \in [Processes -> [id : Nat, order : Int \X Int \X Int, analysed : BOOLEAN]]
        <3>1. publication \in [id : Nat, order : Int \X Int \X Int, analysed : BOOLEAN]
            BY <2>1
        <3>2. shown' = [shown EXCEPT ![p] = publication] \/ shown' = shown
            BY <1>14 DEF Publish
        <3> QED
            BY <3>1, <3>2 DEF RunsTyped
    <2> QED
        BY <1>14, <2>2 DEF Publish, Done, Goto, effects, RunsTyped, Steps
<1>15. CASE UNCHANGED cycleVars
    BY <1>15 DEF cycleVars, outside, memory, effects, RunsTyped
<1> QED
    BY <1>5, <1>6, <1>7, <1>8, <1>9, <1>10, <1>11, <1>12, <1>13, <1>14, <1>15
       DEF Next, BeginWrite, Override, vars

LEMMA HandsTypedNext ==
    ASSUME TypeOK, HandsTyped, RunsTyped', [Next]_vars
    PROVE  HandsTyped'
<1>1. DatabaseTyped /\ RunsTyped
    BY TypeHalves
<1> USE <1>1
<1>2. ASSUME NEW p \in Processes,
             pc'[p] \in {"down", "refused", "publish", "idle", "verify", "absent", "fresh"},
             \A q \in Processes \ {p} : pc'[q] = pc[q] /\ work'[q] = work[q]
                                        /\ fetched'[q] = fetched[q] /\ tx'[q] = tx[q],
             tx'[p] = None
      PROVE  HandsTyped'
    BY <1>2 DEF HandsTyped, InHand, Writing
<1>3. ASSUME NEW p \in Processes, End(p)
      PROVE  tx'[p] = None /\ \A q \in Processes \ {p} : tx'[q] = tx[q]
    BY <1>3 DEF End, DatabaseTyped
<1>4. ASSUME NEW p \in Processes, ~Writing(p)
      PROVE  tx[p] = None
    BY <1>4 DEF HandsTyped
<1>5. ASSUME NEW p \in Processes, Crash(p) \/ StorageFails(p) \/ PublishStrategy(p) \/ SaveRefused(p)
      PROVE  HandsTyped'
    BY <1>2, <1>3, <1>5 DEF Crash, StorageFails, WriteFails, PublishStrategy, SaveRefused, Rollback,
          CommitStrategy, Forget, Done, Goto, RunsTyped
<1>6. ASSUME NEW p \in Processes,
             \/ LookForFile(p) \/ Connect(p) \/ Verify(p) \/ CreateSchema(p)
             \/ AcquisitionFails(p) \/ Publish(p)
      PROVE  HandsTyped'
    <2>1. tx[p] = None /\ tx' = tx
        BY <1>4, <1>6 DEF LookForFile, Connect, Verify, CreateSchema, AcquisitionFails, Publish,
                          Writing,
                          repositoryVars
    <2> QED
        BY <1>2, <1>6, <2>1 DEF LookForFile, Connect, Verify, CreateSchema, AcquisitionFails,
                                Publish, Done, Goto,
          memory, RunsTyped
<1>7. ASSUME NEW p \in Processes, BeginWrite(p)
      PROVE  HandsTyped'
    <2>1. \A q \in Processes \ {p} : tx'[q] = tx[q]
        BY <1>7 DEF BeginWrite, Begin, DatabaseTyped
    <2> QED
        BY <1>7, <2>1 DEF BeginWrite, cycleVars, memory, HandsTyped, InHand, Writing
<1>8. ASSUME NEW p \in Processes, FetchMaster(p)
      PROVE  HandsTyped'
    <2>1. fetched'[p] # None /\ pc'[p] = "record" /\ tx[p] = None /\ tx' = tx
        BY <1>4, <1>8, RepositoryAssumption DEF FetchMaster, Goto, RunsTyped, Writing, repositoryVars
    <2> QED
        BY <1>8, <2>1 DEF FetchMaster, Goto, RunsTyped, HandsTyped, InHand, Writing
<1>9. ASSUME NEW p \in Processes, RecordMaster(p)
      PROVE  HandsTyped'
    BY <1>2, <1>3, <1>9 DEF RecordMaster, CommitMaster, Goto, RunsTyped
<1>10. ASSUME NEW p \in Processes, FetchChain(p) \/ ReadPrevious(p)
       PROVE  HandsTyped'
    <2>1. tx[p] = None /\ tx' = tx /\ UNCHANGED fetched
        BY <1>4, <1>10 DEF FetchChain, ReadPrevious, Writing, repositoryVars
    <2>2. pc'[p] \in {"fetched", "built"}
        BY <1>10 DEF FetchChain, ReadPrevious, Goto, RunsTyped
    <2>3. work'[p] \in Snapshots
        <3>1. CASE FetchChain(p)
            <4>1. PICK w \in Windows :
                      work' = [work EXCEPT
                          ![p] = Received(<<catalog[p], w>>, clock, OpenInterestAt[clock])]
                BY <3>1 DEF FetchChain
            <4>2. work'[p].stream = <<catalog[p], w>> /\ catalog[p] \in Batches
                BY <3>1, <4>1 DEF FetchChain, RunsTyped, Received
            <4>3. work'[p].stream \in Batches \X Windows
                BY <4>2
            <4>4. work'[p] # NoWork
                BY <4>3, RepositoryAssumption DEF NoWork, Received
            <4> QED
                BY <4>4 DEF RunsTyped
        <3>2. CASE ReadPrevious(p)
            <4>1. PICK previous \in AcceptedIn(work[p].stream) \cup {None} :
                      work' = [work EXCEPT ![p] = Build(work[p], built + 1, previous)]
                BY <3>2 DEF ReadPrevious
            <4>2. previous \in Snapshots \cup {None}
                BY DEF AcceptedIn, Accepted, DatabaseTyped, Attempts
            <4>3. work[p] \in Snapshots /\ built + 1 \in Nat
                BY <3>2 DEF ReadPrevious, HandsTyped, InHand, RunsTyped
            <4> QED
                BY <4>1, <4>2, <4>3, BuildType DEF RunsTyped
        <3> QED
            BY <1>10, <3>1, <3>2
    <2>4. \A q \in Processes \ {p} : pc'[q] = pc[q] /\ work'[q] = work[q]
        BY <1>10 DEF FetchChain, ReadPrevious, Goto, RunsTyped
    <2> QED
        BY <2>1, <2>2, <2>3, <2>4 DEF HandsTyped, InHand, Writing
<1>11. ASSUME NEW p \in Processes, Validate(p) \/ Evaluate(p) \/ EvaluationFails(p) \/ Submit(p)
       PROVE  HandsTyped'
    <2>1. tx[p] = None /\ tx' = tx /\ UNCHANGED <<work, fetched>> /\ InHand(p)
        BY <1>4, <1>11 DEF Validate, Evaluate, EvaluationFails, Submit, Writing, InHand,
                           repositoryVars, memory
    <2>2. \E step \in Steps : pc' = [pc EXCEPT ![p] = step] /\ step # "record"
        BY <1>11 DEF Validate, Evaluate, EvaluationFails, Submit, Goto, Steps
    <2> QED
        BY <2>1, <2>2 DEF HandsTyped, InHand, Writing, RunsTyped
<1>12. ASSUME NEW p \in Processes, Save(p)
       PROVE  HandsTyped'
    BY <1>3, <1>12 DEF Save, CommitSnapshot, Goto, memory, HandsTyped, InHand, Writing, RunsTyped
<1>13. ASSUME UNCHANGED <<pc, work, fetched, tx>>
       PROVE  HandsTyped'
    BY <1>13 DEF HandsTyped, InHand, Writing
<1> QED
    BY <1>5, <1>6, <1>7, <1>8, <1>9, <1>10, <1>11, <1>12, <1>13, SMTT(30)
       DEF Next, Tick, SetBack, Override, AddOverride, vars, repositoryVars, cycleVars, memory

LEMMA TypedNext == TypeOK /\ HandsTyped /\ [Next]_vars => TypeOK' /\ HandsTyped'
<1>1. ASSUME TypeOK, HandsTyped, [Next]_vars
      PROVE  TypeOK' /\ HandsTyped'
    <2>1. TypeOK'
        BY <1>1, DatabaseTypedNext, RunsTypedNext
           DEF TypeOK, DatabaseTyped, RunsTyped, AuditEvents, Readings
    <2> QED
        BY <1>1, <2>1, RunsTypedNext, HandsTypedNext
<1> QED
    BY <1>1

LEMMA AlwaysTyped == Spec => [](TypeOK /\ HandsTyped)
    BY TypedInit, TypedNext, PTL DEF Spec

\* Every variable of the database and of the runs keeps its type through every step of the
\* start and of a cycle (persistence/sqlite.py, ingestion/dhan_acquisition.py).
THEOREM CycleTypeCorrectness == Spec => []TypeOK
    BY AlwaysTyped, PTL

-----------------------------------------------------------------------------
(* The write lock *)

\* A transaction that ends leaves the lock to nobody.
LEMMA LockReleased ==
    ASSUME TypeOK, Locked, NEW p \in Processes, End(p),
           tx[p] # None \/ UNCHANGED <<audit, heads>>,
           \A q \in Processes \ {p} : pc'[q] = pc[q] /\ work'[q] = work[q]
    PROVE  Locked'
<1>1. tx'[p] = None /\ \A q \in Processes \ {p} : tx'[q] = tx[q]
    BY DEF End, TypeOK
<1>2. CASE tx[p] # None
    <2>1. \A q \in Processes : tx'[q] = None
        BY <1>1, <1>2 DEF Locked
    <2> QED
        BY <2>1 DEF Locked
<1>3. CASE UNCHANGED <<audit, heads>>
    BY <1>1, <1>3 DEF Locked
<1> QED
    BY <1>2, <1>3

\* A run that is not writing has no transaction, and may do anything but write.
LEMMA LockUntouched ==
    ASSUME HandsTyped, Locked, NEW p \in Processes, ~Writing(p), UNCHANGED <<tx, audit, heads>>,
           \A q \in Processes \ {p} : pc'[q] = pc[q] /\ work'[q] = work[q]
    PROVE  Locked'
<1>1. tx[p] = None
    BY DEF HandsTyped
<1> QED
    BY <1>1 DEF Locked

LEMMA LockedNext ==
    ASSUME TypeOK, HandsTyped, Locked, [Next]_vars
    PROVE  Locked'
<1>1. ASSUME NEW p \in Processes,
             \/ LookForFile(p) \/ Connect(p) \/ Verify(p) \/ CreateSchema(p)
             \/ FetchMaster(p) \/ FetchChain(p)
             \/ AcquisitionFails(p) \/ ReadPrevious(p) \/ Validate(p) \/ Evaluate(p)
             \/ EvaluationFails(p) \/ Submit(p) \/ Publish(p)
      PROVE  Locked'
    <2>1. ~Writing(p) /\ UNCHANGED <<tx, audit, heads>>
        BY <1>1 DEF LookForFile, Connect, Verify, CreateSchema, FetchMaster, FetchChain,
                    AcquisitionFails,
               ReadPrevious, Validate, Evaluate, EvaluationFails, Submit, Publish, Writing,
               repositoryVars, database, rows
    <2>2. \A q \in Processes \ {p} : pc'[q] = pc[q] /\ work'[q] = work[q]
        BY <1>1 DEF LookForFile, Connect, Verify, CreateSchema, FetchMaster, FetchChain,
                    AcquisitionFails,
               ReadPrevious, Validate, Evaluate, EvaluationFails, Submit, Publish, Goto, Done,
               memory, TypeOK
    <2> QED
        BY <2>1, <2>2, LockUntouched
<1>2. ASSUME NEW p \in Processes,
             \/ Crash(p) \/ StorageFails(p) \/ SaveRefused(p)
             \/ PublishStrategy(p) \/ RecordMaster(p) \/ Save(p)
      PROVE  Locked'
    <2>1. End(p)
        BY <1>2 DEF Crash, StorageFails, SaveRefused, PublishStrategy, RecordMaster, Save, Rollback,
               CommitStrategy, CommitMaster, CommitSnapshot
    <2>2. tx[p] # None \/ UNCHANGED <<audit, heads>>
        BY <1>2 DEF Crash, StorageFails, SaveRefused, PublishStrategy, RecordMaster, Save, Rollback,
               database, rows
    <2>3. \A q \in Processes \ {p} : pc'[q] = pc[q] /\ work'[q] = work[q]
        BY <1>2 DEF Crash, StorageFails, SaveRefused, PublishStrategy, RecordMaster, Save, WriteFails,
               Forget, Done, Goto, memory, TypeOK
    <2> QED
        BY <2>1, <2>2, <2>3, LockReleased
<1>3. ASSUME NEW p \in Processes, BeginWrite(p)
      PROVE  Locked'
    <2>1. /\ tx'[p] = [head |-> IF work[p].stream = None THEN NoHead ELSE heads[work[p].stream],
                       last |-> Len(audit)]
          /\ \A q \in Processes \ {p} : tx'[q] = None
          /\ UNCHANGED <<pc, work, audit, heads>>
        BY <1>3 DEF BeginWrite, Begin, Unlocked, TypeOK, cycleVars, memory, database, rows
    <2>2. pc[p] = "save" => work[p].stream # None
        BY RepositoryAssumption DEF HandsTyped, InHand, Snapshots, Streams
    <2> QED
        BY <2>1, <2>2 DEF Locked
<1>4. ASSUME NEW p \in Processes, Override(p)
      PROVE  Locked'
    BY <1>4 DEF Override, AddOverride, Unlocked, Locked
<1>5. CASE Tick \/ SetBack \/ UNCHANGED vars
    BY <1>5 DEF Tick, SetBack, vars, cycleVars, memory, repositoryVars, database, rows, Locked
<1> QED
    BY <1>1, <1>2, <1>3, <1>4, <1>5 DEF Next

LEMMA AlwaysLocked == Spec => []Locked
<1>1. Init => Locked
    BY DEF Init, RepositoryInit, Locked
<1> QED
    BY <1>1, AlwaysTyped, LockedNext, PTL DEF Spec

-----------------------------------------------------------------------------
(* What is told apart *)

\* Steps that build nothing and save nothing only lose the snapshot in hand.
LEMMA IdsKept ==
    ASSUME IdsApart, NEW p \in Processes, UNCHANGED <<attempts, built>>,
           \A q \in Processes \ {p} : pc'[q] = pc[q] /\ work'[q] = work[q],
           Unsaved(p)' => Unsaved(p) /\ work'[p] = work[p]
    PROVE  IdsApart'
    BY DEF IdsApart, Unsaved

LEMMA IdsApartNext ==
    ASSUME TypeOK, HandsTyped, IdsApart, [Next]_vars
    PROVE  IdsApart'
<1>1. ASSUME NEW p \in Processes,
             \/ Crash(p) \/ LookForFile(p) \/ Connect(p) \/ Verify(p) \/ CreateSchema(p)
             \/ StorageFails(p) \/ PublishStrategy(p) \/ FetchMaster(p) \/ RecordMaster(p)
             \/ FetchChain(p) \/ AcquisitionFails(p) \/ Validate(p) \/ SaveRefused(p)
             \/ Evaluate(p) \/ EvaluationFails(p) \/ Submit(p) \/ Publish(p)
      PROVE  IdsApart'
    <2> USE DEF Crash, LookForFile, Connect, Verify, CreateSchema, StorageFails, PublishStrategy,
                FetchMaster, RecordMaster, FetchChain, AcquisitionFails, Validate, SaveRefused,
                Evaluate, EvaluationFails, Submit, Publish, Goto, Done, Forget, WriteFails
    <2>1. UNCHANGED <<attempts, built>>
        BY <1>1 DEF CommitStrategy, CommitMaster, Rollback, repositoryVars, database, rows, outside
    <2>2. \A q \in Processes \ {p} : pc'[q] = pc[q] /\ work'[q] = work[q]
        BY <1>1 DEF memory, TypeOK
    <2>3. Unsaved(p)' => Unsaved(p) /\ work'[p] = work[p]
        BY <1>1 DEF Unsaved, TypeOK
    <2> QED
        BY <2>1, <2>2, <2>3, IdsKept
<1>2. ASSUME NEW p \in Processes, ReadPrevious(p)
      PROVE  IdsApart'
    <2>1. PICK previous : work' = [work EXCEPT ![p] = Build(work[p], built + 1, previous)]
        BY <1>2 DEF ReadPrevious
    <2>2. work'[p].id = built + 1
        <3>1. work[p] \in Snapshots
            BY <1>2 DEF ReadPrevious, HandsTyped, InHand
        <3>2. Build(work[p], built + 1, previous).id = built + 1
            BY <3>1, BuiltId
        <3> QED
            BY <2>1, <3>2 DEF TypeOK
    <2>3. built \in Nat /\ built' = built + 1 /\ attempts' = attempts
        BY <1>2 DEF ReadPrevious, TypeOK, repositoryVars, database, rows
    <2>4. \A q \in Processes \ {p} : pc'[q] = pc[q] /\ work'[q] = work[q]
        BY <1>2, <2>1 DEF ReadPrevious, Goto, TypeOK
    <2> QED
        BY <2>2, <2>3, <2>4 DEF IdsApart, Unsaved
<1>3. ASSUME NEW p \in Processes, Save(p)
      PROVE  IdsApart'
    <2> DEFINE saved == [snapshot |-> work[p],
                         status |-> IF valid[p] THEN "ACCEPTED" ELSE "REJECTED"]
    <2>1. attempts' = attempts \cup {saved} /\ UNCHANGED <<built, work>>
        BY <1>3 DEF Save, CommitSnapshot, Insert, outside, memory
    <2>2. Unsaved(p) /\ ~Unsaved(p)' /\ \A q \in Processes \ {p} : pc'[q] = pc[q]
        BY <1>3 DEF Save, Goto, Unsaved, TypeOK
    <2> QED
        BY <2>1, <2>2 DEF IdsApart, Unsaved
<1>4. CASE UNCHANGED <<attempts, built, pc, work>>
    BY <1>4 DEF IdsApart, Unsaved
<1> QED
    BY <1>1, <1>2, <1>3, <1>4, SMTT(30)
       DEF Next, Tick, SetBack, BeginWrite, Override, AddOverride, vars, cycleVars, outside, memory,
           repositoryVars, database, rows

LEMMA MastersApartNext ==
    ASSUME TypeOK, HandsTyped, MastersApart, [Next]_vars
    PROVE  MastersApart'
<1>1. ASSUME NEW p \in Processes, UNCHANGED <<batches, attempts>>,
             \A q \in Processes \ {p} : /\ pc'[q] = pc[q] /\ work'[q] = work[q]
                                        /\ fetched'[q] = fetched[q] /\ catalog'[q] = catalog[q],
             \/ fetched'[p] = fetched[p] /\ catalog'[p] = catalog[p]
             \/ fetched'[p] = None /\ catalog'[p] = None,
             pc'[p] # "record",
             InHand(p)' => work'[p].stream[1] = catalog'[p]
      PROVE  MastersApart'
    BY <1>1 DEF MastersApart, InHand
<1>2. ASSUME NEW p \in Processes,
             \/ Crash(p) \/ LookForFile(p) \/ Connect(p) \/ Verify(p) \/ CreateSchema(p)
             \/ StorageFails(p) \/ PublishStrategy(p) \/ AcquisitionFails(p) \/ SaveRefused(p)
             \/ Publish(p)
      PROVE  MastersApart'
    <2> USE DEF Crash, LookForFile, Connect, Verify, CreateSchema, StorageFails, PublishStrategy,
                AcquisitionFails, SaveRefused, Publish, Goto, Done, Forget, WriteFails, memory,
                TypeOK
    <2>1. UNCHANGED <<batches, attempts>>
        BY <1>2 DEF CommitStrategy, Rollback, repositoryVars, database, rows
    <2>2. \A q \in Processes \ {p} : /\ pc'[q] = pc[q] /\ work'[q] = work[q]
                                     /\ fetched'[q] = fetched[q] /\ catalog'[q] = catalog[q]
        BY <1>2
    <2>3. \/ fetched'[p] = fetched[p] /\ catalog'[p] = catalog[p]
          \/ fetched'[p] = None /\ catalog'[p] = None
        BY <1>2
    <2>4. pc'[p] # "record" /\ ~InHand(p)'
        BY <1>2 DEF InHand
    <2> QED
        BY <1>1, <2>1, <2>2, <2>3, <2>4
<1>3. ASSUME NEW p \in Processes,
             Validate(p) \/ Evaluate(p) \/ EvaluationFails(p) \/ Submit(p) \/ ReadPrevious(p)
      PROVE  MastersApart'
    <2> USE DEF Validate, Evaluate, EvaluationFails, Submit, ReadPrevious, Goto, memory, TypeOK
    <2>1. UNCHANGED <<batches, attempts, fetched, catalog>>
        BY <1>3 DEF repositoryVars, database, rows
    <2>2. \A q \in Processes \ {p} : pc'[q] = pc[q] /\ work'[q] = work[q]
        BY <1>3
    <2>3. InHand(p) /\ pc'[p] # "record"
        BY <1>3 DEF InHand
    <2>4. work'[p].stream = work[p].stream
        <3>1. CASE ReadPrevious(p)
            <4>1. PICK previous : work' = [work EXCEPT ![p] = Build(work[p], built + 1, previous)]
                BY <3>1
            <4>2. work[p] \in Snapshots
                BY <2>3 DEF HandsTyped
            <4>3. Build(work[p], built + 1, previous).stream = work[p].stream
                BY <4>2, BuiltId
            <4> QED
                BY <4>1, <4>3
        <3> QED
            BY <1>3, <3>1
    <2>5. InHand(p)' => work'[p].stream[1] = catalog'[p]
        BY <2>1, <2>3, <2>4 DEF MastersApart
    <2> QED
        BY <1>1, <2>1, <2>2, <2>3, <2>5
<1>4. ASSUME NEW p \in Processes, FetchMaster(p)
      PROVE  MastersApart'
    <2>1. PICK b \in Batches : Fresh(b) /\ fetched' = [fetched EXCEPT ![p] = b]
        BY <1>4 DEF FetchMaster
    <2>2. /\ UNCHANGED <<batches, attempts, catalog, work>>
          /\ pc'[p] = "record" /\ \A q \in Processes \ {p} : pc'[q] = pc[q]
        BY <1>4 DEF FetchMaster, Goto, TypeOK, repositoryVars, database, rows
    <2>3. b \notin batches /\ b # None /\ \A q \in Processes : fetched[q] # b /\ catalog[q] # b
        BY <2>1, RepositoryAssumption DEF Fresh, MastersApart
    <2>4. fetched'[p] = b /\ \A q \in Processes \ {p} : fetched'[q] = fetched[q]
        BY <2>1 DEF TypeOK
    <2> QED
        BY <2>2, <2>3, <2>4 DEF MastersApart, InHand
<1>5. ASSUME NEW p \in Processes, RecordMaster(p)
      PROVE  MastersApart'
    <2>1. /\ batches' = batches \cup {fetched[p]} /\ UNCHANGED <<attempts, fetched, work>>
          /\ catalog'[p] = fetched[p] /\ \A q \in Processes \ {p} : catalog'[q] = catalog[q]
          /\ pc'[p] = "idle" /\ \A q \in Processes \ {p} : pc'[q] = pc[q]
        BY <1>5 DEF RecordMaster, CommitMaster, Goto, TypeOK
    <2>2. fetched[p] # None
        BY <1>5 DEF RecordMaster, HandsTyped
    <2> QED
        BY <2>1, <2>2 DEF MastersApart, HandsTyped, InHand
<1>6. ASSUME NEW p \in Processes, FetchChain(p)
      PROVE  MastersApart'
    <2>1. PICK w \in Windows :
              work' = [work EXCEPT
                  ![p] = Received(<<catalog[p], w>>, clock, OpenInterestAt[clock])]
        BY <1>6 DEF FetchChain
    <2>2. work'[p].stream[1] = catalog[p]
        BY <2>1 DEF Received, TypeOK
    <2>3. /\ UNCHANGED <<batches, attempts, catalog, fetched>>
          /\ pc'[p] = "fetched"
          /\ \A q \in Processes \ {p} : pc'[q] = pc[q] /\ work'[q] = work[q]
        BY <1>6, <2>1 DEF FetchChain, Goto, TypeOK, repositoryVars, database, rows
    <2> QED
        BY <1>1, <2>2, <2>3
<1>7. ASSUME NEW p \in Processes, Save(p)
      PROVE  MastersApart'
    <2>1. /\ UNCHANGED <<batches, fetched, catalog, work>>
          /\ attempts' = attempts \cup {[snapshot |-> work[p],
                                         status |-> IF valid[p] THEN "ACCEPTED" ELSE "REJECTED"]}
          /\ pc'[p] = "saved" /\ \A q \in Processes \ {p} : pc'[q] = pc[q]
        BY <1>7 DEF Save, CommitSnapshot, Insert, memory, Goto, TypeOK
    <2>2. InHand(p) /\ catalog[p] # None /\ work[p].stream[1] \in batches
        <3>1. InHand(p) /\ work[p] \in Snapshots
            BY <1>7 DEF Save, InHand, HandsTyped
        <3>2. work[p].stream[1] \in Batches
            BY <3>1 DEF Snapshots, Streams
        <3> QED
            BY <3>1, <3>2, RepositoryAssumption DEF MastersApart
    <2> QED
        BY <2>1, <2>2 DEF MastersApart, InHand
<1>8. CASE UNCHANGED <<batches, attempts, pc, work, fetched, catalog>>
    BY <1>8 DEF MastersApart, InHand
<1> QED
    BY <1>2, <1>3, <1>4, <1>5, <1>6, <1>7, <1>8, SMTT(30)
       DEF Next, Tick, SetBack, BeginWrite, Override, AddOverride, vars, cycleVars, memory,
           repositoryVars, database, rows

\* Ids and masters are told apart.
Apart == IdsApart /\ MastersApart

LEMMA AlwaysApart == Spec => []Apart
<1>1. Init => Apart
    BY RepositoryAssumption
       DEF Init, RepositoryInit, Apart, IdsApart, MastersApart, Unsaved, InHand
<1>2. TypeOK /\ HandsTyped /\ Apart /\ [Next]_vars => Apart'
    BY IdsApartNext, MastersApartNext DEF Apart
<1> QED
    BY <1>1, <1>2, AlwaysTyped, PTL DEF Spec

-----------------------------------------------------------------------------
(* Evidence *)

\* An accepted attempt is of an accepted snapshot.
LEMMA AcceptedOf ==
    ASSUME NEW s, [snapshot |-> s, status |-> "ACCEPTED"] \in attempts
    PROVE  s \in Accepted
<1> DEFINE a == [snapshot |-> s, status |-> "ACCEPTED"]
<1>1. a.snapshot = s /\ a.status = "ACCEPTED" /\ a \in attempts
    OBVIOUS
<1> HIDE DEF a
<1> QED
    BY <1>1 DEF Accepted

Evidence == HandsSaved /\ EffectsHaveEvidence

LEMMA EvidenceNext ==
    ASSUME TypeOK, HandsTyped, Evidence, [Next]_vars
    PROVE  Evidence'
<1> USE DEF Evidence
<1>1. attempts \subseteq attempts' /\ history \subseteq history'
    BY ZenonT(60)
       DEF Next, Tick, SetBack, Crash, LookForFile, Connect, Verify, CreateSchema, BeginWrite,
           StorageFails,
           PublishStrategy, FetchMaster, RecordMaster, FetchChain, AcquisitionFails,
           ReadPrevious, Validate, Save, SaveRefused, Evaluate, EvaluationFails, Submit, Publish,
           Override, AddOverride, CommitStrategy, CommitMaster, CommitSnapshot, Insert, Rollback,
           Done, Forget, WriteFails, vars, cycleVars, effects, repositoryVars, database, rows
<1>2. Accepted \subseteq Accepted'
    BY <1>1 DEF Accepted
<1>3. ASSUME history' = history, executed' = executed,
             \A p \in Processes : shown'[p].id \in {0, shown[p].id}
      PROVE  EffectsHaveEvidence'
    BY <1>1, <1>2, <1>3 DEF EffectsHaveEvidence, ShownIsSaved
<1>4. ASSUME NEW p \in Processes,
             \A q \in Processes \ {p} : pc'[q] = pc[q] /\ work'[q] = work[q] /\ valid'[q] = valid[q],
             ~IsSaved(p)'
      PROVE  HandsSaved'
    BY <1>1, <1>4 DEF HandsSaved, IsSaved
<1>5. ASSUME NEW p \in Processes,
             \/ Crash(p) \/ LookForFile(p) \/ Connect(p) \/ Verify(p) \/ CreateSchema(p)
             \/ StorageFails(p) \/ PublishStrategy(p) \/ FetchMaster(p) \/ RecordMaster(p)
             \/ FetchChain(p) \/ AcquisitionFails(p) \/ ReadPrevious(p) \/ Validate(p)
             \/ SaveRefused(p)
      PROVE  Evidence'
    <2> USE DEF Crash, LookForFile, Connect, Verify, CreateSchema, StorageFails, PublishStrategy,
                FetchMaster, RecordMaster, FetchChain, AcquisitionFails, ReadPrevious, Validate,
                SaveRefused, Goto, Done, Forget, WriteFails, memory, effects, TypeOK
    <2>1. \A q \in Processes \ {p} : pc'[q] = pc[q] /\ work'[q] = work[q] /\ valid'[q] = valid[q]
        BY <1>5
    <2>2. ~IsSaved(p)'
        BY <1>5 DEF IsSaved
    <2>3. history' = history /\ executed' = executed
        BY <1>5
    <2>4. \A q \in Processes : shown'[q].id \in {0, shown[q].id}
        <3>1. NoPublication.id = 0
            BY DEF NoPublication
        <3>2. shown' = shown \/ shown' = [shown EXCEPT ![p] = NoPublication]
            BY <1>5
        <3> HIDE DEF NoPublication
        <3> QED
            BY <3>1, <3>2
    <2> QED
        BY <1>3, <1>4, <2>1, <2>2, <2>3, <2>4
<1>6. ASSUME NEW p \in Processes, Publish(p)
      PROVE  Evidence'
    <2>1. HandsSaved'
        BY <1>4, <1>6 DEF Publish, Done, Goto, IsSaved, TypeOK
    <2>2. \E a \in attempts : a.snapshot.id = work[p].id
        <3>1. IsSaved(p)
            BY <1>6 DEF Publish, IsSaved
        <3> QED
            BY <3>1 DEF HandsSaved
    <2>3. \A q \in Processes : shown'[q].id \in {shown[q].id, work[p].id}
        <3> DEFINE publication == [id |-> work[p].id, order |-> OrderOf(work[p]),
                                   analysed |-> pc[p] = "decided"]
        <3>1. publication.id = work[p].id
            OBVIOUS
        <3>2. shown' = [shown EXCEPT ![p] = publication] \/ shown' = shown
            BY <1>6 DEF Publish
        <3> HIDE DEF publication
        <3> QED
            BY <3>1, <3>2 DEF TypeOK
    <2>4. attempts' = attempts /\ history' = history /\ executed' = executed
        BY <1>6 DEF Publish, Done, effects, repositoryVars, database, rows
    <2>5. \A q \in Processes : shown'[q].id \in {0} \cup {a.snapshot.id : a \in attempts}
        BY <2>2, <2>3 DEF EffectsHaveEvidence, ShownIsSaved
    <2> QED
        BY <1>2, <2>1, <2>4, <2>5 DEF EffectsHaveEvidence, ShownIsSaved
<1>7. ASSUME NEW p \in Processes, Save(p)
      PROVE  Evidence'
    <2>1. /\ [snapshot |-> work[p],
              status |-> IF valid[p] THEN "ACCEPTED" ELSE "REJECTED"] \in attempts'
          /\ UNCHANGED <<work, valid, shown, history, executed>>
          /\ pc'[p] = "saved" /\ \A q \in Processes \ {p} : pc'[q] = pc[q]
        BY <1>7 DEF Save, CommitSnapshot, Insert, Goto, memory, effects, TypeOK
    <2>2. HandsSaved'
        BY <1>1, <2>1 DEF HandsSaved, IsSaved
    <2> QED
        BY <1>3, <2>1, <2>2
<1>8. ASSUME NEW p \in Processes, Evaluate(p) \/ EvaluationFails(p) \/ Submit(p)
      PROVE  Evidence'
    <2>1. /\ UNCHANGED <<attempts, work, valid, shown>> /\ IsSaved(p)
          /\ \A q \in Processes \ {p} : pc'[q] = pc[q]
        BY <1>8 DEF Evaluate, EvaluationFails, Submit, Goto, memory, IsSaved, repositoryVars,
                    database, rows, TypeOK
    <2>2. pc'[p] = "submit" => valid[p] /\ work[p].id \in history'
        BY <1>8 DEF Evaluate, EvaluationFails, Submit, Goto, TypeOK
    <2>3. HandsSaved'
        BY <1>1, <2>1, <2>2 DEF HandsSaved, IsSaved
    <2>4. \E a \in attempts : a.snapshot.id = work[p].id
        BY <2>1 DEF HandsSaved
    <2>5. history' \subseteq history \cup {work[p].id}
        BY <1>8 DEF Evaluate, EvaluationFails, Submit, effects
    <2>6. history' \subseteq {a.snapshot.id : a \in attempts}
        BY <2>4, <2>5 DEF EffectsHaveEvidence, ShownIsSaved
    <2>7. executed' \subseteq history' \cap {s.id : s \in Accepted'}
        <3>1. CASE Submit(p)
            <4>1. pc[p] = "submit" /\ executed' \subseteq executed \cup {work[p].id}
                BY <3>1 DEF Submit
            <4>2. [snapshot |-> work[p], status |-> "ACCEPTED"] \in attempts
                BY <4>1 DEF HandsSaved, IsSaved
            <4>3. work[p] \in Accepted
                BY <4>2, AcceptedOf
            <4>4. work[p].id \in history
                BY <4>1 DEF HandsSaved, IsSaved
            <4> QED
                BY <1>1, <1>2, <4>1, <4>3, <4>4 DEF EffectsHaveEvidence, ShownIsSaved
        <3>2. CASE Evaluate(p) \/ EvaluationFails(p)
            BY <1>1, <1>2, <3>2
               DEF Evaluate, EvaluationFails, effects, EffectsHaveEvidence, ShownIsSaved
        <3> QED
            BY <1>8, <3>1, <3>2
    <2> QED
        BY <2>1, <2>3, <2>6, <2>7 DEF EffectsHaveEvidence, ShownIsSaved
<1>9. ASSUME UNCHANGED <<pc, memory, effects>>
      PROVE  Evidence'
    BY <1>1, <1>3, <1>9 DEF HandsSaved, IsSaved, memory, effects
<1> QED
    BY <1>5, <1>6, <1>7, <1>8, <1>9, SMTT(30)
       DEF Next, Tick, SetBack, BeginWrite, Override, vars, cycleVars

LEMMA AlwaysEvident == Spec => []Evidence
<1>1. Init => Evidence
    BY DEF Init, RepositoryInit, Evidence, HandsSaved, IsSaved, EffectsHaveEvidence, ShownIsSaved,
           NoPublication
<1> QED
    BY <1>1, AlwaysTyped, EvidenceNext, PTL DEF Spec

\* Whoever dies at whatever step, nothing was done about a snapshot the database does not hold
\* (_acquire_market, dhan_acquisition.py).
THEOREM EvidenceTheorem == Spec => []EffectsHaveEvidence
<1>1. Evidence => EffectsHaveEvidence
    BY DEF Evidence
<1> QED
    BY <1>1, AlwaysEvident, PTL

-----------------------------------------------------------------------------
(* The audit *)

AuditWhole == AuditIsWhole /\ IsFiniteSet(AuditedRows)

\* One event for one new row.
LEMMA AuditGrows ==
    ASSUME TypeOK, TypeOK', AuditWhole, NEW type, NEW about,
           audit' = Append(audit, Event(type, about, Len(audit))),
           <<type, about>> \notin AuditedRows,
           AuditedRows' = AuditedRows \cup {<<type, about>>}
    PROVE  AuditWhole'
<1> DEFINE n == Len(audit)
           event == Event(type, about, n)
<1>1. /\ n \in Nat /\ Len(audit') = n + 1
      /\ \A i \in 1 .. n : audit'[i] = audit[i]
      /\ audit'[n + 1] = event
    BY DEF TypeOK
<1>2. event.type = type /\ event.about = about /\ event.previous = n
    BY DEF Event
<1> HIDE DEF event
<1>3. /\ IsFiniteSet(AuditedRows')
      /\ Cardinality(AuditedRows') = Cardinality(AuditedRows) + 1
    BY FS_AddElement DEF AuditWhole
<1>4. \A i \in 1 .. Len(audit') : audit'[i].previous = i - 1
    <2> SUFFICES ASSUME NEW i \in 1 .. n + 1
                 PROVE  audit'[i].previous = i - 1
        BY <1>1
    <2>1. CASE i = n + 1
        BY <1>1, <1>2, <2>1
    <2>2. CASE i \in 1 .. n
        BY <1>1, <2>2 DEF AuditWhole, AuditIsWhole
    <2> QED
        BY <1>1, <2>1, <2>2
<1>5. {<<audit'[i].type, audit'[i].about>> : i \in 1 .. Len(audit')} = AuditedRows'
    <2> DEFINE Told(events, m) == {<<events[i].type, events[i].about>> : i \in 1 .. m}
    <2>1. Told(audit, n) = AuditedRows
        BY DEF AuditWhole, AuditIsWhole
    <2>2. Told(audit', n + 1) = Told(audit, n) \cup {<<type, about>>}
        BY <1>1, <1>2
    <2> QED
        BY <1>1, <2>1, <2>2
<1> QED
    BY <1>1, <1>3, <1>4, <1>5 DEF AuditWhole, AuditIsWhole

\* No other row and no other event.
LEMMA AuditStays ==
    ASSUME AuditWhole, UNCHANGED <<audit, strategy, batches, overrides, attempts>>
    PROVE  AuditWhole'
    BY DEF AuditWhole, AuditIsWhole, AuditedRows

LEMMA AuditNext ==
    ASSUME TypeOK, TypeOK', HandsTyped, Locked, IdsApart, AuditWhole, [Next]_vars
    PROVE  AuditWhole'
<1>1. ASSUME NEW p \in Processes, PublishStrategy(p)
      PROVE  AuditWhole'
    <2>1. CASE strategy
        BY <1>1, <2>1, AuditStays DEF PublishStrategy, CommitStrategy
    <2>2. CASE ~strategy
        <3>1. audit' = Append(audit, Event("STRATEGY_CONFIG_PUBLISHED", 0, Len(audit)))
            BY <1>1, <2>2 DEF PublishStrategy, CommitStrategy, AppendAudit, Locked
        <3>2. strategy' /\ UNCHANGED <<batches, overrides, attempts>>
            BY <1>1 DEF PublishStrategy, CommitStrategy
        <3>3. <<"STRATEGY_CONFIG_PUBLISHED", 0>> \notin AuditedRows
            BY <2>2 DEF AuditedRows
        <3>4. AuditedRows' = AuditedRows \cup {<<"STRATEGY_CONFIG_PUBLISHED", 0>>}
            BY <2>2, <3>2 DEF AuditedRows
        <3> QED
            BY <3>1, <3>3, <3>4, AuditGrows
    <2> QED
        BY <2>1, <2>2
<1>2. ASSUME NEW p \in Processes, RecordMaster(p)
      PROVE  AuditWhole'
    <2> DEFINE b == fetched[p]
    <2>1. CASE b \in batches
        <3>1. batches' = batches
            BY <1>2, <2>1 DEF RecordMaster, CommitMaster
        <3> QED
            BY <1>2, <2>1, <3>1, AuditStays DEF RecordMaster, CommitMaster
    <2>2. CASE b \notin batches
        <3>1. audit' = Append(audit, Event("INSTRUMENT_MASTER_RECORDED", b, Len(audit)))
            BY <1>2, <2>2 DEF RecordMaster, CommitMaster, AppendAudit, Locked
        <3>2. batches' = batches \cup {b} /\ UNCHANGED <<strategy, overrides, attempts>>
            BY <1>2 DEF RecordMaster, CommitMaster
        <3>3. <<"INSTRUMENT_MASTER_RECORDED", b>> \notin AuditedRows
            BY <2>2 DEF AuditedRows
        <3>4. AuditedRows' = AuditedRows \cup {<<"INSTRUMENT_MASTER_RECORDED", b>>}
            BY <3>2 DEF AuditedRows
        <3> QED
            BY <3>1, <3>3, <3>4, AuditGrows
    <2> QED
        BY <2>1, <2>2
<1>3. ASSUME NEW p \in Processes, Save(p)
      PROVE  AuditWhole'
    <2> DEFINE id == work[p].id
               saved == [snapshot |-> work[p],
                         status |-> IF valid[p] THEN "ACCEPTED" ELSE "REJECTED"]
    <2>1. audit' = Append(audit, Event("SNAPSHOT_INGESTED", id, Len(audit)))
        BY <1>3 DEF Save, CommitSnapshot, AppendAudit, Locked
    <2>2. attempts' = attempts \cup {saved} /\ UNCHANGED <<strategy, batches, overrides>>
        BY <1>3 DEF Save, CommitSnapshot, Insert
    <2>3. <<"SNAPSHOT_INGESTED", id>> \notin AuditedRows
        BY <1>3 DEF AuditedRows, Save, IdsApart, Unsaved
    <2>4. AuditedRows' = AuditedRows \cup {<<"SNAPSHOT_INGESTED", id>>}
        <3>1. saved.snapshot.id = id
            OBVIOUS
        <3> HIDE DEF saved, id
        <3> QED
            BY <2>2, <3>1 DEF AuditedRows
    <2> QED
        BY <2>1, <2>3, <2>4, AuditGrows
<1>4. ASSUME NEW p \in Processes, Override(p)
      PROVE  AuditWhole'
    <2>1. PICK base : /\ overrides = {} /\ overrides' = overrides \cup {base}
                      /\ audit' = Append(audit, Event("MANUAL_OVERRIDE_RECORDED", base, Len(audit)))
                      /\ UNCHANGED <<strategy, batches, attempts>>
        BY <1>4 DEF Override, AddOverride
    <2>2. <<"MANUAL_OVERRIDE_RECORDED", base>> \notin AuditedRows
        BY <2>1 DEF AuditedRows
    <2>3. AuditedRows' = AuditedRows \cup {<<"MANUAL_OVERRIDE_RECORDED", base>>}
        BY <2>1 DEF AuditedRows
    <2> QED
        BY <2>1, <2>2, <2>3, AuditGrows
<1>5. CASE UNCHANGED <<audit, strategy, batches, overrides, attempts>>
    BY <1>5, AuditStays
<1> QED
    BY <1>1, <1>2, <1>3, <1>4, <1>5, SMTT(30)
       DEF Next, Tick, SetBack, Crash, LookForFile, Connect, Verify, CreateSchema, BeginWrite,
           StorageFails,
           FetchMaster, FetchChain, AcquisitionFails, ReadPrevious, Validate, SaveRefused,
           Evaluate, EvaluationFails, Submit, Publish, Rollback, vars, repositoryVars, database,
           rows

\* Whatever processes write and die, the audit is one chain and tells of each row once
\* (_append_audit, sqlite.py).
THEOREM AuditTheorem == Spec => []AuditIsWhole
<1>1. Init => AuditWhole
    <2> SUFFICES ASSUME Init
                 PROVE  AuditWhole
        OBVIOUS
    <2>1. AuditedRows = {} /\ audit = <<>>
        BY DEF Init, RepositoryInit, AuditedRows
    <2> QED
        BY <2>1, FS_EmptySet DEF AuditWhole, AuditIsWhole
<1>2. TypeOK /\ TypeOK' /\ HandsTyped /\ Locked /\ Apart /\ AuditWhole /\ [Next]_vars => AuditWhole'
    BY AuditNext DEF Apart
<1>3. AuditWhole => AuditIsWhole
    BY DEF AuditWhole
<1> QED
    BY <1>1, <1>2, <1>3, AlwaysTyped, AlwaysLocked, AlwaysApart, PTL DEF Spec

-----------------------------------------------------------------------------
(* The order of a stream *)

\* StreamsInOrder, of one stream.
Ordered(stream) ==
    /\ SequencesAdvance(stream)
    /\ {a.seq : a \in AcceptedIn(stream)} = 1 .. Cardinality(AcceptedIn(stream))
    /\ ChangesAreExact(stream)
    /\ HeadIsLast(stream)

StreamsKept == \A s \in Streams : Ordered(s) /\ IsFiniteSet(AcceptedIn(s))

LEMMA AcceptedTyped ==
    ASSUME TypeOK, NEW stream
    PROVE  AcceptedIn(stream) \subseteq Snapshots
    BY DEF TypeOK, AcceptedIn, Accepted, Attempts

\* The head has the highest sequence, which is the number of snapshots, and the latest time.
LEMMA HeadIsHighest ==
    ASSUME TypeOK, NEW stream \in Streams, Ordered(stream), IsFiniteSet(AcceptedIn(stream)),
           AcceptedIn(stream) # {}
    PROVE  /\ heads[stream].seq = Cardinality(AcceptedIn(stream))
           /\ \A a \in AcceptedIn(stream) :
                 a.seq <= heads[stream].seq /\ a.ts <= heads[stream].ts
           /\ \A a \in AcceptedIn(stream) : IsLatest(a, stream) => a.seq = heads[stream].seq
<1> DEFINE n == Cardinality(AcceptedIn(stream))
<1>1. \A a \in AcceptedIn(stream) : a.seq \in Nat /\ a.ts \in Nat
    BY AcceptedTyped DEF Snapshots
<1>2. n \in Nat /\ n # 0
    BY FS_CardinalityType, FS_EmptySet
<1>3. PICK a \in AcceptedIn(stream) :
          IsLatest(a, stream) /\ heads[stream] = [seq |-> a.seq, ts |-> a.ts, id |-> a.id]
    BY DEF Ordered, HeadIsLast
<1>4. heads[stream].seq = a.seq /\ heads[stream].ts = a.ts
    BY <1>3
<1>5. \A b \in AcceptedIn(stream) : b.seq <= a.seq /\ b.ts <= a.ts
    BY <1>1, <1>3 DEF IsLatest, Ordered, SequencesAdvance
<1>6. a.seq = n
    <2>1. PICK b \in AcceptedIn(stream) : b.seq = n
        BY <1>2 DEF Ordered
    <2>2. a.seq \in 1 .. n
        BY DEF Ordered
    <2> QED
        BY <1>1, <1>2, <1>5, <2>1, <2>2
<1>7. \A b \in AcceptedIn(stream) : IsLatest(b, stream) => b.seq = a.seq
    BY <1>1, <1>3 DEF IsLatest
<1> QED
    BY <1>4, <1>5, <1>6, <1>7

\* A snapshot that follows the head, advances past it and refers to what it says is the next
\* of its stream, and its change the difference to the one before it.
LEMMA NextOfStream ==
    ASSUME TypeOK, IdsApart, NEW stream \in Streams,
           Ordered(stream), IsFiniteSet(AcceptedIn(stream)),
           NEW s \in Snapshots, s.stream = stream,
           Follows(s), s.ts > heads[stream].ts, ChangeVerified(s)
    PROVE  /\ s.seq = Cardinality(AcceptedIn(stream)) + 1
           /\ \A a \in AcceptedIn(stream) : a.seq < s.seq /\ a.ts < s.ts
           /\ s.ref # 0 =>
                 \E b \in AcceptedIn(stream) :
                     /\ b.id = s.ref /\ b.seq = s.seq - 1
                     /\ s.change = s.oi - b.oi
                     /\ s.gap = s.ts - b.ts /\ s.gap \in 1 .. MaxInterval
<1> DEFINE old == AcceptedIn(stream)
           n == Cardinality(old)
<1>1. /\ \A a \in old : a.seq \in Nat /\ a.ts \in Nat /\ a \in Accepted /\ a.stream = stream
      /\ s.seq \in Nat /\ s.ts \in Nat
    BY AcceptedTyped DEF Snapshots, AcceptedIn
<1>2. n \in Nat /\ (old = {} => n = 0)
    BY FS_CardinalityType, FS_EmptySet
<1>3. \A a \in old : a.seq < s.seq /\ a.ts < s.ts
    <2>1. CASE old = {}
        BY <2>1
    <2>2. CASE old # {}
        <3>1. heads[stream].seq \in Int /\ heads[stream].ts \in Int
            BY DEF TypeOK, Heads
        <3> QED
            BY <1>1, <2>2, <3>1, HeadIsHighest DEF Follows
    <2> QED
        BY <2>1, <2>2
<1>4. s.seq = n + 1
    <2>1. CASE old = {}
        BY <1>2, <2>1 DEF Follows
    <2>2. CASE old # {}
        <3>1. heads[stream].seq = n /\ \A a \in old : a.seq <= n
            BY <2>2, HeadIsHighest
        <3>2. s.seq > n
            BY <3>1 DEF Follows
        <3>3. n # 0
            BY <2>2, FS_EmptySet
        <3>4. PICK r \in old : s.seq = r.seq + 1
            BY <1>1, <1>2, <3>2, <3>3 DEF Follows
        <3> QED
            BY <1>1, <1>2, <3>1, <3>2, <3>4
    <2> QED
        BY <2>1, <2>2
<1>5. ASSUME s.ref # 0
      PROVE  \E b \in old : /\ b.id = s.ref /\ b.seq = s.seq - 1
                            /\ s.change = s.oi - b.oi
                            /\ s.gap = s.ts - b.ts /\ s.gap \in 1 .. MaxInterval
    <2>1. PICK r \in old : s.seq = r.seq + 1 /\ r.id = s.ref
        BY <1>5 DEF Follows
    <2>2. PICK b \in Accepted : /\ b.id = s.ref
                                /\ s.gap = s.ts - b.ts
                                /\ s.gap \in 1 .. MaxInterval
                                /\ s.change = s.oi - b.oi
        BY <1>5 DEF ChangeVerified
    <2>3. b = r
        BY <1>1, <2>1, <2>2 DEF Accepted, IdsApart
    <2>4. r.seq = s.seq - 1
        BY <1>1, <2>1
    <2> QED
        BY <2>1, <2>2, <2>3, <2>4
<1> QED
    BY <1>3, <1>4, <1>5

\* It keeps the stream in order, as its new head.
LEMMA StreamGrows ==
    ASSUME TypeOK, IdsApart, NEW stream \in Streams,
           Ordered(stream), IsFiniteSet(AcceptedIn(stream)),
           NEW s \in Snapshots, s.stream = stream,
           Follows(s), s.ts > heads[stream].ts, ChangeVerified(s),
           AcceptedIn(stream)' = AcceptedIn(stream) \cup {s},
           heads'[stream] = [seq |-> s.seq, ts |-> s.ts, id |-> s.id]
    PROVE  Ordered(stream)' /\ IsFiniteSet(AcceptedIn(stream)')
<1> DEFINE old == AcceptedIn(stream)
           n == Cardinality(old)
<1>1. /\ \A a \in old : a.seq \in Nat /\ a.ts \in Nat /\ a \in Accepted /\ a.stream = stream
      /\ s.seq \in Nat /\ s.ts \in Nat
    BY AcceptedTyped DEF Snapshots, AcceptedIn
<1>2. n \in Nat /\ (old = {} => n = 0)
    BY FS_CardinalityType, FS_EmptySet
<1>3. \A a \in old : a.seq < s.seq /\ a.ts < s.ts
    BY NextOfStream
<1>4. s \notin old
    BY <1>1, <1>3
<1>5. /\ s.seq = n + 1
      /\ s.ref # 0 => \E b \in old : /\ b.id = s.ref /\ b.seq = s.seq - 1
                                     /\ s.change = s.oi - b.oi
                                     /\ s.gap = s.ts - b.ts /\ s.gap \in 1 .. MaxInterval
    BY NextOfStream
<1>6. IsFiniteSet(AcceptedIn(stream)') /\ Cardinality(AcceptedIn(stream)') = n + 1
    BY <1>4, FS_AddElement
<1>7. SequencesAdvance(stream)'
    BY <1>1, <1>3 DEF SequencesAdvance, Ordered
<1>8. {a.seq : a \in AcceptedIn(stream)'} = 1 .. n + 1
    <2>1. {a.seq : a \in old} = 1 .. n
        BY DEF Ordered
    <2>2. {a.seq : a \in old \cup {s}} = {a.seq : a \in old} \cup {s.seq}
        OBVIOUS
    <2>3. (1 .. n) \cup {n + 1} = 1 .. n + 1
        BY <1>2
    <2> QED
        BY <1>5, <2>1, <2>2, <2>3
<1>9. ChangesAreExact(stream)'
    <2> SUFFICES ASSUME NEW a \in old \cup {s}, a.ref # 0
                 PROVE  \E b \in old \cup {s} :
                            /\ b.id = a.ref /\ b.seq = a.seq - 1
                            /\ a.change = a.oi - b.oi
                            /\ a.gap = a.ts - b.ts /\ a.gap \in 1 .. MaxInterval
        BY DEF ChangesAreExact
    <2>1. CASE a \in old
        BY <2>1 DEF Ordered, ChangesAreExact
    <2>2. CASE a = s
        BY <1>5, <2>2
    <2> QED
        BY <2>1, <2>2
<1>10. HeadIsLast(stream)'
    <2>1. IsLatest(s, stream)'
        BY <1>1, <1>3 DEF IsLatest
    <2> QED
        BY <2>1 DEF HeadIsLast
<1> QED
    BY <1>6, <1>7, <1>8, <1>9, <1>10 DEF Ordered

\* Only an accepted save changes what is accepted and a head; it saves what follows the head.
LEMMA AcceptedSteps ==
    ASSUME TypeOK, HandsTyped, Locked, FollowsHead, [Next]_vars
    PROVE  \/ UNCHANGED <<Accepted, heads>>
           \/ \E p \in Processes :
                 LET s == work[p]
                 IN  /\ Save(p) /\ s \in Snapshots /\ Accepted' = Accepted \cup {s}
                     /\ heads' = [heads EXCEPT ![s.stream] =
                                      [seq |-> s.seq, ts |-> s.ts, id |-> s.id]]
                     /\ Follows(s) /\ s.ts > heads[s.stream].ts /\ ChangeVerified(s)
<1>1. ASSUME NEW p \in Processes, Save(p), valid[p]
      PROVE  /\ work[p] \in Snapshots /\ Accepted' = Accepted \cup {work[p]}
             /\ heads' = [heads EXCEPT ![work[p].stream] =
                              [seq |-> work[p].seq, ts |-> work[p].ts, id |-> work[p].id]]
             /\ Follows(work[p]) /\ work[p].ts > heads[work[p].stream].ts
             /\ ChangeVerified(work[p])
    <2> DEFINE saved == [snapshot |-> work[p], status |-> "ACCEPTED"]
    <2>1. work[p] \in Snapshots
        BY <1>1 DEF Save, HandsTyped, InHand
    <2>2. attempts' = attempts \cup {saved}
        BY <1>1 DEF Save, CommitSnapshot, Insert
    <2>3. saved.snapshot = work[p] /\ saved.status = "ACCEPTED"
        OBVIOUS
    <2> HIDE DEF saved
    <2>4. Accepted' = Accepted \cup {work[p]}
        BY <2>2, <2>3 DEF Accepted
    <2>5. heads' = [heads EXCEPT ![work[p].stream] =
                        [seq |-> work[p].seq, ts |-> work[p].ts, id |-> work[p].id]]
        BY <1>1 DEF Save, CommitSnapshot, MovesHead
    <2>6. tx[p] # None /\ pc[p] = "save" /\ Savable(p, work[p])
        BY <1>1 DEF Save
    <2>7. tx[p].head = heads[work[p].stream]
        BY <2>6 DEF Locked
    <2> QED
        BY <2>1, <2>4, <2>5, <2>6, <2>7 DEF Savable, OrderAdvances, FollowsHead, Unsaved
<1>2. ASSUME NEW p \in Processes, Save(p), ~valid[p]
      PROVE  UNCHANGED <<Accepted, heads>>
    <2> DEFINE saved == [snapshot |-> work[p], status |-> "REJECTED"]
    <2>1. attempts' = attempts \cup {saved} /\ heads' = heads
        BY <1>2 DEF Save, CommitSnapshot, Insert, MovesHead
    <2>2. saved.status # "ACCEPTED"
        OBVIOUS
    <2> HIDE DEF saved
    <2> QED
        BY <2>1, <2>2 DEF Accepted
<1>3. CASE UNCHANGED <<attempts, heads>>
    BY <1>3 DEF Accepted
<1> QED
    BY <1>1, <1>2, <1>3, ZenonT(60)
       DEF Next, Tick, SetBack, Crash, LookForFile, Connect, Verify, CreateSchema, BeginWrite,
           StorageFails,
           PublishStrategy, FetchMaster, RecordMaster, FetchChain, AcquisitionFails,
           ReadPrevious, Validate, SaveRefused, Evaluate, EvaluationFails, Submit, Publish,
           Override, AddOverride, CommitStrategy, CommitMaster, Rollback, vars, repositoryVars,
           database, rows

LEMMA StreamsKeptNext ==
    ASSUME TypeOK, HandsTyped, Locked, IdsApart, FollowsHead, StreamsKept, [Next]_vars
    PROVE  StreamsKept'
<1>1. CASE UNCHANGED <<Accepted, heads>>
    <2>1. \A s \in Streams : AcceptedIn(s)' = AcceptedIn(s)
        BY <1>1 DEF AcceptedIn
    <2> QED
        BY <1>1, <2>1 DEF StreamsKept, Ordered, SequencesAdvance, ChangesAreExact, HeadIsLast,
                          IsLatest
<1>2. ASSUME NEW p \in Processes, NEW s \in Snapshots, Accepted' = Accepted \cup {s},
             heads' = [heads EXCEPT ![s.stream] = [seq |-> s.seq, ts |-> s.ts, id |-> s.id]],
             Follows(s), s.ts > heads[s.stream].ts, ChangeVerified(s)
      PROVE  StreamsKept'
    <2> SUFFICES ASSUME NEW t \in Streams
                 PROVE  Ordered(t)' /\ IsFiniteSet(AcceptedIn(t)')
        BY DEF StreamsKept
    <2>1. Ordered(t) /\ IsFiniteSet(AcceptedIn(t))
        BY DEF StreamsKept
    <2>2. CASE t = s.stream
        <3>1. AcceptedIn(t)' = AcceptedIn(t) \cup {s}
            BY <1>2, <2>2 DEF AcceptedIn
        <3>2. heads'[t] = [seq |-> s.seq, ts |-> s.ts, id |-> s.id]
            BY <1>2, <2>2 DEF TypeOK
        <3> QED
            BY <1>2, <2>1, <2>2, <3>1, <3>2, StreamGrows
    <2>3. CASE t # s.stream
        <3>1. AcceptedIn(t)' = AcceptedIn(t)
            BY <1>2, <2>3 DEF AcceptedIn
        <3>2. heads'[t] = heads[t]
            BY <1>2, <2>3 DEF TypeOK
        <3> QED
            BY <2>1, <3>1, <3>2
               DEF Ordered, SequencesAdvance, ChangesAreExact, HeadIsLast, IsLatest
    <2> QED
        BY <2>2, <2>3
<1> QED
    BY <1>1, <1>2, AcceptedSteps

\* A snapshot in hand still follows the head of its stream: only the run that fetched the
\* master of a stream adds to it.
LEMMA StillFollows ==
    ASSUME TypeOK, HandsTyped, Locked, MastersApart, FollowsHead, [Next]_vars,
           NEW q \in Processes, Unsaved(q), ~Save(q), work'[q] = work[q]
    PROVE  Follows(work[q])'
<1>1. PICK w \in Snapshots : w = work[q] /\ Follows(w)
    BY DEF HandsTyped, InHand, Unsaved, FollowsHead
<1>2. ASSUME Accepted \subseteq Accepted', heads'[w.stream] = heads[w.stream]
      PROVE  Follows(work[q])'
    <2>1. \A r \in AcceptedIn(w.stream) : r \in AcceptedIn(w.stream)'
        BY <1>2 DEF AcceptedIn
    <2> QED
        BY <1>1, <1>2, <2>1 DEF Follows
<1>3. CASE UNCHANGED <<Accepted, heads>>
    BY <1>2, <1>3
<1>4. ASSUME NEW p \in Processes, Save(p), Accepted' = Accepted \cup {work[p]},
             work[p] \in Snapshots,
             heads' = [heads EXCEPT ![work[p].stream] =
                           [seq |-> work[p].seq, ts |-> work[p].ts, id |-> work[p].id]]
      PROVE  Follows(work[q])'
    <2>1. p # q /\ InHand(p) /\ InHand(q)
        BY <1>4 DEF Save, InHand, Unsaved
    <2>2. work[p].stream[1] = catalog[p] /\ w.stream[1] = catalog[q] /\ catalog[p] # None
        <3>1. work[p].stream[1] \in Batches
            BY <1>4 DEF Snapshots, Streams
        <3> QED
            BY <1>1, <2>1, <3>1, RepositoryAssumption DEF MastersApart
    <2>3. work[p].stream # w.stream
        BY <2>1, <2>2 DEF MastersApart
    <2>4. heads'[w.stream] = heads[w.stream]
        BY <1>1, <1>4, <2>3 DEF TypeOK, Snapshots
    <2> QED
        BY <1>2, <1>4, <2>4
<1> QED
    BY <1>3, <1>4, AcceptedSteps

\* What is verified of a change stays so.
LEMMA StillVerified ==
    ASSUME NEW s, ChangeVerified(s), Accepted \subseteq Accepted'
    PROVE  ChangeVerified(s)'
    BY DEF ChangeVerified

LEMMA FollowsHeadNext ==
    ASSUME TypeOK, HandsTyped, Locked, MastersApart, FollowsHead, StreamsKept, [Next]_vars
    PROVE  FollowsHead'
<1>1. Accepted \subseteq Accepted'
    BY AcceptedSteps
<1>2. ASSUME NEW q \in Processes, work'[q] = work[q], pc'[q] = pc[q], valid'[q] = valid[q],
             Unsaved(q) => ~Save(q)
      PROVE  /\ pc'[q] = "fetched" => work'[q].ref = 0
             /\ Unsaved(q)' => Follows(work[q])'
             /\ pc'[q] = "save" /\ valid'[q] => ChangeVerified(work[q])'
    <2>1. pc'[q] = "fetched" => work'[q].ref = 0
        BY <1>2 DEF FollowsHead
    <2>2. Unsaved(q)' => Follows(work[q])'
        BY <1>2, StillFollows DEF Unsaved
    <2>3. ASSUME pc'[q] = "save", valid'[q]
          PROVE  ChangeVerified(work[q])'
        <3>1. PICK s : s = work[q] /\ ChangeVerified(s)
            BY <1>2, <2>3 DEF FollowsHead
        <3>2. ChangeVerified(s)'
            BY <1>1, <3>1, StillVerified
        <3> QED
            BY <1>2, <3>1, <3>2 DEF ChangeVerified
    <2> QED
        BY <2>1, <2>2, <2>3
<1>3. ASSUME NEW p \in Processes,
             \A q \in Processes \ {p} : /\ work'[q] = work[q] /\ pc'[q] = pc[q]
                                        /\ valid'[q] = valid[q] /\ ~Save(q),
             /\ pc'[p] = "fetched" => work'[p].ref = 0
             /\ Unsaved(p)' => Follows(work[p])'
             /\ pc'[p] = "save" /\ valid'[p] => ChangeVerified(work[p])'
      PROVE  FollowsHead'
    BY <1>2, <1>3 DEF FollowsHead
<1>4. ASSUME NEW p \in Processes, NEW q \in Processes, pc'[p] # pc[p], pc'[q] = pc[q]
      PROVE  ~Save(q)
    BY <1>4 DEF Save, Goto, TypeOK
<1>5. ASSUME NEW p \in Processes,
             \/ Crash(p) \/ LookForFile(p) \/ Connect(p) \/ Verify(p) \/ CreateSchema(p)
             \/ StorageFails(p) \/ PublishStrategy(p) \/ FetchMaster(p) \/ RecordMaster(p)
             \/ FetchChain(p) \/ AcquisitionFails(p) \/ Save(p) \/ SaveRefused(p)
             \/ Evaluate(p) \/ EvaluationFails(p) \/ Submit(p) \/ Publish(p)
      PROVE  FollowsHead'
    <2> USE DEF Crash, LookForFile, Connect, Verify, CreateSchema, StorageFails, PublishStrategy,
                FetchMaster, RecordMaster, FetchChain, AcquisitionFails, SaveRefused,
                Evaluate, EvaluationFails, Submit, Publish, Goto, Done, Forget, WriteFails,
                memory, TypeOK
    <2>1. \A q \in Processes \ {p} : /\ work'[q] = work[q] /\ pc'[q] = pc[q]
                                     /\ valid'[q] = valid[q]
        BY <1>5 DEF Save
    <2>2. ~Unsaved(p)' /\ (pc'[p] = "fetched" => work'[p].ref = 0)
        BY <1>5 DEF Save, Unsaved, Received
    <2>3. \A q \in Processes \ {p} : ~Save(q)
        <3>1. pc'[p] # pc[p] \/ AcquisitionFails(p)
            <4>1. CASE Crash(p) \/ LookForFile(p) \/ Connect(p) \/ Verify(p) \/ CreateSchema(p)
                BY <4>1
            <4>2. CASE \/ StorageFails(p) \/ PublishStrategy(p) \/ Save(p) \/ SaveRefused(p)
                BY <4>2 DEF Save, Writing
            <4>3. CASE \/ FetchMaster(p) \/ RecordMaster(p) \/ FetchChain(p)
                       \/ Evaluate(p) \/ EvaluationFails(p) \/ Submit(p) \/ Publish(p)
                BY <4>3
            <4> QED
                BY <1>5, <4>1, <4>2, <4>3
        <3>2. AcquisitionFails(p) => tx' = tx
            BY DEF repositoryVars
        <3>3. ASSUME NEW q \in Processes, Save(q), tx' = tx
              PROVE  FALSE
            BY <3>3 DEF Save, CommitSnapshot, End
        <3> QED
            BY <1>4, <2>1, <3>1, <3>2, <3>3
    <2> QED
        BY <1>3, <2>1, <2>2, <2>3 DEF Unsaved
<1>6. ASSUME NEW p \in Processes, Validate(p)
      PROVE  FollowsHead'
    <2>1. /\ \A q \in Processes \ {p} : /\ work'[q] = work[q] /\ pc'[q] = pc[q]
                                        /\ valid'[q] = valid[q]
          /\ work' = work /\ pc[p] = "built" /\ pc'[p] = "save"
          /\ valid'[p] => ChangeVerified(work[p])
        BY <1>6 DEF Validate, Goto, TypeOK
    <2>2. \A q \in Processes : ~Save(q)
        BY <1>4, <2>1 DEF Save
    <2>3. Follows(work[p])'
        BY <2>1, <2>2, StillFollows DEF Unsaved
    <2>4. valid'[p] => ChangeVerified(work[p])'
        BY <1>1, <2>1, StillVerified DEF ChangeVerified
    <2> QED
        BY <1>3, <2>1, <2>2, <2>3, <2>4
<1>7. ASSUME NEW p \in Processes, ReadPrevious(p)
      PROVE  FollowsHead'
    <2> DEFINE stream == work[p].stream
    <2>1. PICK previous \in AcceptedIn(stream) \cup {None} :
              /\ IF previous = None THEN AcceptedIn(stream) = {} ELSE IsLatest(previous, stream)
              /\ work' = [work EXCEPT ![p] = Build(work[p], built + 1, previous)]
        BY <1>7 DEF ReadPrevious
    <2>2. /\ \A q \in Processes \ {p} : /\ work'[q] = work[q] /\ pc'[q] = pc[q]
                                        /\ valid'[q] = valid[q]
          /\ pc[p] = "fetched" /\ pc'[p] = "built" /\ UNCHANGED <<attempts, heads>>
          /\ work'[p] = Build(work[p], built + 1, previous)
        BY <1>7, <2>1 DEF ReadPrevious, Goto, TypeOK, repositoryVars, database, rows
    <2>3. \A q \in Processes : ~Save(q)
        BY <1>4, <2>2 DEF Save
    <2>4. work[p] \in Snapshots /\ work[p].ref = 0 /\ stream \in Streams
        BY <2>2 DEF HandsTyped, InHand, FollowsHead, Snapshots
    <2>5. /\ work'[p].stream = stream
          /\ work'[p].seq = IF previous = None THEN 1 ELSE previous.seq + 1
          /\ previous = None => work'[p].ref = 0
          /\ work'[p].ref \in {0, previous.id}
        BY <2>2, <2>4, BuiltId
    <2>6. Follows(work[p])'
        <3>1. CASE previous = None
            <4>1. heads[stream].seq = -1
                BY <2>1, <2>4, <3>1 DEF StreamsKept, Ordered, HeadIsLast, NoHead
            <4> QED
                BY <2>2, <2>5, <3>1, <4>1 DEF Follows
        <3>2. CASE previous # None
            <4>1. previous \in AcceptedIn(stream) /\ IsLatest(previous, stream)
                BY <2>1, <3>2
            <4>2. previous.seq = heads[stream].seq
                BY <2>4, <4>1, HeadIsHighest DEF StreamsKept
            <4>3. previous.seq \in Nat
                BY <4>1, AcceptedTyped DEF Snapshots
            <4>4. previous \in AcceptedIn(stream)'
                BY <2>2, <2>5, <4>1 DEF AcceptedIn, Accepted
            <4> QED
                BY <2>2, <2>5, <3>2, <4>2, <4>3, <4>4 DEF Follows
        <3> QED
            BY <3>1, <3>2
    <2> QED
        BY <1>3, <2>2, <2>3, <2>6
<1>8. ASSUME UNCHANGED <<pc, work, valid>>
      PROVE  FollowsHead'
    <2>1. \A q \in Processes : Unsaved(q) => ~Save(q)
        BY <1>8 DEF Save, Goto, Unsaved, TypeOK
    <2> QED
        BY <1>2, <1>8, <2>1 DEF FollowsHead
<1> QED
    BY <1>5, <1>6, <1>7, <1>8, SMTT(30)
       DEF Next, Tick, SetBack, BeginWrite, Override, vars, cycleVars, memory

LEMMA AlwaysInOrder == Spec => [](FollowsHead /\ StreamsKept)
<1>1. Init => FollowsHead /\ StreamsKept
    <2> SUFFICES ASSUME Init
                 PROVE  FollowsHead /\ StreamsKept
        OBVIOUS
    <2>1. FollowsHead
        BY DEF Init, FollowsHead, Unsaved
    <2>2. \A s \in Streams : AcceptedIn(s) = {} /\ heads[s] = NoHead
        BY DEF Init, RepositoryInit, AcceptedIn, Accepted
    <2>3. ASSUME NEW s \in Streams
          PROVE  Ordered(s) /\ IsFiniteSet(AcceptedIn(s))
        <3>1. AcceptedIn(s) = {} /\ heads[s] = NoHead /\ Cardinality(AcceptedIn(s)) = 0
            BY <2>2, FS_EmptySet
        <3>2. {a.seq : a \in AcceptedIn(s)} = 1 .. 0
            BY <3>1
        <3> QED
            BY <3>1, <3>2, FS_EmptySet DEF Ordered, SequencesAdvance, ChangesAreExact, HeadIsLast
    <2> QED
        BY <2>1, <2>3 DEF StreamsKept
<1>2. TypeOK /\ HandsTyped /\ Locked /\ Apart /\ FollowsHead /\ StreamsKept /\ [Next]_vars
          => FollowsHead' /\ StreamsKept'
    BY FollowsHeadNext, StreamsKeptNext DEF Apart
<1> QED
    BY <1>1, <1>2, AlwaysTyped, AlwaysLocked, AlwaysApart, PTL DEF Spec

\* Whatever the clock does and whoever dies, the accepted snapshots of a stream are numbered
\* without a gap in the order of their times, and each change of open interest is the
\* difference to the one before (_enforce_order, sqlite.py).
THEOREM OrderTheorem == Spec => []StreamsInOrder
<1>1. StreamsKept => StreamsInOrder
    BY DEF StreamsKept, Ordered, StreamsInOrder
<1> QED
    BY <1>1, AlwaysInOrder, PTL

-----------------------------------------------------------------------------
(* What a transaction may refuse *)

LEMMA AlwaysPublished == Spec => []StrategyPublished
<1>1. Init => StrategyPublished
    BY DEF Init, StrategyPublished
<1>2. TypeOK /\ HandsTyped /\ StrategyPublished /\ [Next]_vars => StrategyPublished'
    <2> SUFFICES ASSUME TypeOK, HandsTyped, StrategyPublished, [Next]_vars
                 PROVE  StrategyPublished'
        OBVIOUS
    <2> DEFINE before == {"down", "refused", "absent", "fresh", "verify", "publish"}
    <2>1. strategy => strategy'
        BY ZenonT(60)
       DEF Next, Tick, SetBack, Crash, LookForFile, Connect, Verify, CreateSchema, BeginWrite,
           StorageFails,
               PublishStrategy, FetchMaster, RecordMaster, FetchChain, AcquisitionFails,
               ReadPrevious, Validate, Save, SaveRefused, Evaluate, EvaluationFails, Submit,
               Publish, Override, AddOverride, CommitStrategy, CommitMaster, CommitSnapshot,
               Rollback, vars, repositoryVars, database, rows
    <2>2. ASSUME NEW p \in Processes, \A q \in Processes \ {p} : pc'[q] = pc[q],
                 pc'[p] \in before \/ pc[p] \notin before \/ strategy'
          PROVE  StrategyPublished'
        BY <2>1, <2>2 DEF StrategyPublished
    <2>3. ASSUME NEW p \in Processes,
                 \/ Crash(p) \/ LookForFile(p) \/ Connect(p) \/ Verify(p) \/ CreateSchema(p)
                 \/ StorageFails(p) \/ PublishStrategy(p) \/ FetchMaster(p) \/ RecordMaster(p)
                 \/ FetchChain(p) \/ AcquisitionFails(p) \/ ReadPrevious(p) \/ Validate(p)
                 \/ Save(p) \/ SaveRefused(p)
                 \/ Evaluate(p) \/ EvaluationFails(p) \/ Submit(p) \/ Publish(p)
          PROVE  StrategyPublished'
        <3> USE DEF Crash, LookForFile, Connect, Verify, CreateSchema, StorageFails, PublishStrategy,
                    FetchMaster, RecordMaster, FetchChain, AcquisitionFails, ReadPrevious,
                    Validate, Save, SaveRefused, Evaluate, EvaluationFails, Submit, Publish, Goto,
                    Done, Forget, WriteFails, TypeOK
        <3>1. \A q \in Processes \ {p} : pc'[q] = pc[q]
            BY <2>3
        <3>2. pc'[p] \in before \/ pc[p] \notin before \/ strategy'
            BY <2>3 DEF Writing, CommitStrategy
        <3> QED
            BY <2>2, <3>1, <3>2
    <2>4. ASSUME UNCHANGED pc
          PROVE  StrategyPublished'
        BY <2>1, <2>4 DEF StrategyPublished
    <2> QED
        BY <2>3, <2>4, SMTT(30) DEF Next, Tick, SetBack, BeginWrite, Override, vars, cycleVars
<1> QED
    BY <1>1, <1>2, AlwaysTyped, PTL DEF Spec

\* What was read before the transaction still stands in it, for any number of processes: only
\* the time can have been overtaken (save_ingestion, sqlite.py).
THEOREM RefusalTheorem == Spec => []RefusedOnlyForClock
<1>1. TypeOK /\ HandsTyped /\ Locked /\ Apart /\ FollowsHead /\ StrategyPublished
          => RefusedOnlyForClock
    <2> SUFFICES ASSUME TypeOK, HandsTyped, Locked, Apart, FollowsHead, StrategyPublished,
                        NEW p \in Processes,
                        pc[p] = "save", tx[p] # None, valid[p], ~Savable(p, work[p])
                 PROVE  /\ work[p].ts <= heads[work[p].stream].ts
                        /\ strategy /\ work[p].stream[1] \in batches
                        /\ ChangeVerified(work[p])
                        /\ work[p].seq > heads[work[p].stream].seq
        BY DEF RefusedOnlyForClock
    <2> DEFINE stream == work[p].stream
    <2>1. strategy /\ ChangeVerified(work[p]) /\ work[p].seq > heads[stream].seq
        BY DEF StrategyPublished, FollowsHead, Follows, Unsaved
    <2>2. work[p] \in Snapshots
        BY DEF HandsTyped, InHand
    <2>3. stream[1] \in batches
        <3>1. stream[1] \in Batches /\ stream[1] = catalog[p]
            BY <2>2 DEF Snapshots, Streams, Apart, MastersApart, InHand
        <3> QED
            BY <3>1, RepositoryAssumption DEF Apart, MastersApart
    <2>4. tx[p].head = heads[stream]
        BY DEF Locked
    <2>5. ~(work[p].ts > heads[stream].ts)
        BY <2>1, <2>3, <2>4 DEF Savable, ContractKnown, OrderAdvances
    <2>6. work[p].ts \in Nat /\ heads[stream].ts \in Int
        BY <2>2 DEF Snapshots, TypeOK, Heads
    <2> QED
        BY <2>1, <2>3, <2>5, <2>6
<1> QED
    BY <1>1, AlwaysTyped, AlwaysLocked, AlwaysApart, AlwaysInOrder, AlwaysPublished, PTL

-----------------------------------------------------------------------------
(* What is shown *)

\* Before orders what it compares.
LEMMA NotBeforeTransitive ==
    ASSUME NEW a \in Int \X Int \X Int, NEW b \in Int \X Int \X Int, NEW c \in Int \X Int \X Int,
           Before(a, b), ~Before(a, c)
    PROVE  ~Before(b, c)
    BY DEF Before

LEMMA OrderTyped ==
    ASSUME NEW s \in Snapshots
    PROVE  OrderOf(s) \in Int \X Int \X Int /\ ~Before(OrderOf(s), OrderOf(s))
    BY DEF OrderOf, Snapshots, Before

LEMMA NewestShownNext ==
    ASSUME TypeOK, HandsTyped, HandsSaved, MastersApart, NewestShown, [Next]_vars
    PROVE  NewestShown'
<1>1. ASSUME NEW p \in Processes, UNCHANGED <<attempts, catalog, shown>>,
             \A q \in Processes \ {p} : pc'[q] = pc[q] /\ work'[q] = work[q],
             IsSaved(p) => IsSaved(p)' /\ work'[p] = work[p]
      PROVE  NewestShown'
    BY <1>1 DEF NewestShown, IsSaved
<1>2. ASSUME NEW p \in Processes, UNCHANGED attempts,
             \A q \in Processes \ {p} : /\ pc'[q] = pc[q] /\ work'[q] = work[q]
                                        /\ catalog'[q] = catalog[q] /\ shown'[q] = shown[q],
             \A a \in attempts : a.snapshot.stream[1] # catalog'[p]
      PROVE  NewestShown'
    BY <1>2 DEF NewestShown, IsSaved
<1>3. \A a \in attempts : a.snapshot.stream[1] \in Batches /\ a.snapshot.stream[1] # None
    BY RepositoryAssumption DEF TypeOK, Attempts, Snapshots, Streams
<1>4. ASSUME NEW p \in Processes,
             \/ LookForFile(p) \/ Connect(p) \/ Verify(p) \/ CreateSchema(p)
             \/ PublishStrategy(p) \/ SaveRefused(p)
             \/ FetchMaster(p) \/ FetchChain(p) \/ AcquisitionFails(p) \/ ReadPrevious(p)
             \/ Validate(p) \/ Evaluate(p) \/ EvaluationFails(p) \/ Submit(p)
      PROVE  NewestShown'
    <2> USE DEF LookForFile, Connect, Verify, CreateSchema, PublishStrategy, SaveRefused,
                FetchMaster,
                FetchChain, AcquisitionFails, ReadPrevious, Validate, Evaluate, EvaluationFails,
                Submit, Goto, Done, memory, TypeOK
    <2>1. UNCHANGED <<attempts, catalog, shown>>
        BY <1>4 DEF CommitStrategy, Rollback, repositoryVars, database, rows
    <2>2. \A q \in Processes \ {p} : pc'[q] = pc[q] /\ work'[q] = work[q]
        BY <1>4
    <2>3. IsSaved(p) => IsSaved(p)' /\ work'[p] = work[p]
        BY <1>4 DEF IsSaved
    <2> QED
        BY <1>1, <2>1, <2>2, <2>3
<1>5. ASSUME NEW p \in Processes, NEW step, Forget(p, step), UNCHANGED attempts
      PROVE  NewestShown'
    <2>1. \A q \in Processes \ {p} : /\ pc'[q] = pc[q] /\ work'[q] = work[q]
                                     /\ catalog'[q] = catalog[q] /\ shown'[q] = shown[q]
        BY <1>5 DEF Forget, Goto, TypeOK
    <2>2. catalog'[p] = None
        BY <1>5 DEF Forget, TypeOK
    <2> QED
        BY <1>2, <1>3, <1>5, <2>1, <2>2
<1>6. ASSUME NEW p \in Processes, Crash(p)
      PROVE  NewestShown'
    BY <1>5, <1>6 DEF Crash, database, rows
<1>7. ASSUME NEW p \in Processes, StorageFails(p)
      PROVE  NewestShown'
    <2>1. UNCHANGED attempts
        BY <1>7 DEF StorageFails, Rollback, database, rows
    <2>2. CASE pc[p] = "publish"
        BY <1>5, <1>7, <2>1, <2>2 DEF StorageFails, WriteFails
    <2>3. CASE pc[p] # "publish"
        <3>1. Done(p) /\ UNCHANGED shown /\ ~IsSaved(p)
            BY <1>7, <2>3 DEF StorageFails, WriteFails, Writing, IsSaved
        <3>2. \A q \in Processes \ {p} : pc'[q] = pc[q] /\ work'[q] = work[q]
            BY <3>1 DEF Done, Goto, TypeOK
        <3> QED
            BY <1>1, <2>1, <3>1, <3>2 DEF Done
    <2> QED
        BY <2>2, <2>3
<1>8. ASSUME NEW p \in Processes, RecordMaster(p)
      PROVE  NewestShown'
    <2>1. /\ UNCHANGED attempts
          /\ \A q \in Processes \ {p} : /\ pc'[q] = pc[q] /\ work'[q] = work[q]
                                        /\ catalog'[q] = catalog[q] /\ shown'[q] = shown[q]
          /\ catalog'[p] = fetched[p]
        BY <1>8 DEF RecordMaster, CommitMaster, Goto, TypeOK
    <2>2. \A a \in attempts : a.snapshot.stream[1] # fetched[p]
        BY <1>8 DEF RecordMaster, MastersApart
    <2> QED
        BY <1>2, <2>1, <2>2
<1>9. ASSUME NEW p \in Processes, Save(p)
      PROVE  NewestShown'
    <2> DEFINE saved == [snapshot |-> work[p],
                         status |-> IF valid[p] THEN "ACCEPTED" ELSE "REJECTED"]
    <2>1. /\ attempts' = attempts \cup {saved} /\ UNCHANGED <<catalog, shown, work>>
          /\ pc[p] = "save" /\ pc'[p] = "saved" /\ \A q \in Processes \ {p} : pc'[q] = pc[q]
        BY <1>9 DEF Save, CommitSnapshot, Insert, Goto, memory, TypeOK
    <2>2. saved.snapshot = work[p]
        OBVIOUS
    <2> HIDE DEF saved
    <2>3. \A q \in Processes \ {p} : work[p].stream[1] # catalog[q]
        <3>1. work[p].stream[1] = catalog[p] /\ work[p].stream[1] \in Batches
            BY <2>1 DEF HandsTyped, MastersApart, InHand, Snapshots, Streams
        <3> QED
            BY <3>1, RepositoryAssumption DEF MastersApart
    <2> SUFFICES ASSUME NEW q \in Processes, NEW a \in attempts',
                        a.snapshot.stream[1] = catalog[q]
                 PROVE  \/ IsSaved(q)' /\ a.snapshot = work[q]
                        \/ ~Before(shown[q].order, OrderOf(a.snapshot))
        BY <2>1 DEF NewestShown
    <2>4. CASE a = saved
        BY <2>1, <2>2, <2>3, <2>4 DEF IsSaved
    <2>5. CASE a \in attempts
        BY <2>1, <2>5 DEF NewestShown, IsSaved
    <2> QED
        BY <2>1, <2>4, <2>5
<1>10. ASSUME NEW p \in Processes, Publish(p)
       PROVE  NewestShown'
    <2> DEFINE publication == [id |-> work[p].id, order |-> OrderOf(work[p]),
                               analysed |-> pc[p] = "decided"]
               newer == Before(shown[p].order, OrderOf(work[p]))
    <2>1. publication.order = OrderOf(work[p])
        OBVIOUS
    <2>2. shown' = IF newer THEN [shown EXCEPT ![p] = publication] ELSE shown
        BY <1>10 DEF Publish
    <2> HIDE DEF publication
    <2>3. /\ UNCHANGED <<attempts, catalog>>
          /\ \A q \in Processes \ {p} : /\ pc'[q] = pc[q] /\ work'[q] = work[q]
                                        /\ shown'[q] = shown[q]
        BY <1>10, <2>2 DEF Publish, Done, Goto, TypeOK, repositoryVars, database, rows
    <2>4. shown'[p].order = IF newer THEN OrderOf(work[p]) ELSE shown[p].order
        BY <2>1, <2>2 DEF TypeOK
    <2>5. work[p] \in Snapshots
        BY <1>10 DEF Publish, HandsTyped, InHand
    <2>6. ASSUME NEW a \in attempts, a.snapshot.stream[1] = catalog[p]
          PROVE  ~Before(shown'[p].order, OrderOf(a.snapshot))
        <3>1. a.snapshot \in Snapshots
            BY DEF TypeOK, Attempts
        <3>2. shown[p].order \in Int \X Int \X Int
            BY DEF TypeOK
        <3>3. a.snapshot = work[p] \/ ~Before(shown[p].order, OrderOf(a.snapshot))
            BY <2>6 DEF NewestShown
        <3>4. CASE newer
            <4>1. shown'[p].order = OrderOf(work[p])
                BY <2>4, <3>4
            <4> QED
                BY <2>5, <3>1, <3>2, <3>3, <3>4, <4>1, OrderTyped, NotBeforeTransitive
        <3>5. CASE ~newer
            BY <2>4, <3>3, <3>5
        <3> QED
            BY <3>4, <3>5
    <2> QED
        BY <2>3, <2>6 DEF NewestShown, IsSaved
<1>11. ASSUME UNCHANGED <<attempts, pc, memory>>
       PROVE  NewestShown'
    BY <1>11 DEF NewestShown, IsSaved, memory
<1> QED
    BY <1>4, <1>6, <1>7, <1>8, <1>9, <1>10, <1>11, SMTT(30)
       DEF Next, Tick, SetBack, BeginWrite, Override, AddOverride, vars, cycleVars, repositoryVars,
           database, rows

\* Whatever order snapshots are built in, what a run shows is saved, and between two markets
\* no older than any it has saved (_acquire_market, dhan_acquisition.py).
THEOREM ShownTheorem == Spec => []ShownIsNewest
<1>1. Init => NewestShown
    BY DEF Init, RepositoryInit, NewestShown
<1>2. TypeOK /\ HandsTyped /\ Evidence /\ Apart /\ NewestShown /\ [Next]_vars => NewestShown'
    BY NewestShownNext DEF Evidence, Apart
<1>3. NewestShown /\ Evidence => ShownIsNewest
    BY DEF NewestShown, ShownIsNewest, IsSaved, Evidence, EffectsHaveEvidence
<1> QED
    BY <1>1, <1>2, <1>3, AlwaysTyped, AlwaysEvident, AlwaysApart, PTL DEF Spec

-----------------------------------------------------------------------------
(* Refinement *)

\* A save keeps one snapshot more, whose id none before it has, and does nothing else.
LEMMA SaveKeeps ==
    ASSUME TypeOK, IdsApart, NEW p \in Processes, Save(p)
    PROVE  /\ Saved' = Saved \cup {work[p]}
           /\ work[p] \in Saved' \ Saved
           /\ \A e \in Saved : e.id # work[p].id
           /\ UNCHANGED <<history, executed>>
<1>1. PICK status : attempts' = attempts \cup {[snapshot |-> work[p], status |-> status]}
    BY DEF Save, CommitSnapshot, Insert
<1>2. Saved' = Saved \cup {work[p]}
    <2> DEFINE a == [snapshot |-> work[p], status |-> status]
    <2>1. a.snapshot = work[p] /\ attempts' = attempts \cup {a}
        BY <1>1
    <2> HIDE DEF a
    <2> QED
        BY <2>1 DEF Saved
<1>3. \A e \in Saved : e.id # work[p].id
    <2>1. Unsaved(p)
        BY DEF Save, Unsaved
    <2> QED
        BY <2>1 DEF IdsApart, Saved
<1>4. UNCHANGED <<history, executed>>
    BY DEF Save, effects
<1> QED
    BY <1>2, <1>3, <1>4

\* An accepted save keeps what continues its stream as the stream is at the commit.
LEMMA AcceptedContinues ==
    ASSUME TypeOK, IdsApart, StreamsKept, NEW s \in Snapshots,
           Follows(s), s.ts > heads[s.stream].ts, ChangeVerified(s)
    PROVE  Log!Continues(s)
<1>1. s.stream \in Streams
    BY DEF Snapshots
<1>2. Ordered(s.stream) /\ IsFiniteSet(AcceptedIn(s.stream))
    BY <1>1 DEF StreamsKept
<1>3. Log!Stream(s) = AcceptedIn(s.stream)
    BY DEF Log!Stream, AcceptedIn
<1>4. /\ \A a \in AcceptedIn(s.stream) : a.seq < s.seq /\ a.ts < s.ts
      /\ s.ref # 0 =>
            \E b \in AcceptedIn(s.stream) :
                /\ b.id = s.ref /\ b.seq = s.seq - 1
                /\ s.change = s.oi - b.oi
                /\ s.gap = s.ts - b.ts /\ s.gap \in 1 .. MaxInterval
    BY <1>1, <1>2, NextOfStream
<1>5. s.ref # 0 => \E e \in AcceptedIn(s.stream) : Log!ChangeOf(s, e)
    BY <1>4 DEF Log!ChangeOf
<1>6. s.seq = 1 \/ \E r \in AcceptedIn(s.stream) : s.seq = r.seq + 1
    BY DEF Follows
<1> QED
    BY <1>3, <1>4, <1>5, <1>6 DEF Log!Continues

\* What a step that is no save, no evaluation and no submission does to the evidence: nothing.
LEMMA EvidenceUntouched ==
    ASSUME [Next]_vars,
           \A p \in Processes : ~Save(p) /\ ~Evaluate(p) /\ ~Submit(p)
    PROVE  UNCHANGED <<attempts, history, executed>>
    BY ZenonT(60)
       DEF Next, Tick, SetBack, Crash, LookForFile, Connect, Verify, CreateSchema, BeginWrite,
           StorageFails,
           PublishStrategy, FetchMaster, RecordMaster, FetchChain, AcquisitionFails,
           ReadPrevious, Validate, SaveRefused, EvaluationFails, Publish, Override, AddOverride,
           CommitStrategy, CommitMaster, Rollback, Done, Forget, WriteFails, vars, cycleVars,
           effects, repositoryVars, database, rows

\* Every step of the runs is one of the log, or none.
LEMMA LogStep ==
    ASSUME TypeOK, HandsTyped, Locked, Apart, Evidence, FollowsHead, StreamsKept, [Next]_vars
    PROVE  [Log!LogNext]_(Log!logVars)
<1> USE DEF Log!LogNext
<1>1. ASSUME NEW p \in Processes, Save(p)
      PROVE  Log!Keep
    <2>1. /\ Saved' = Saved \cup {work[p]} /\ work[p] \in Saved' \ Saved
          /\ \A e \in Saved : e.id # work[p].id
          /\ UNCHANGED <<history, executed>>
        BY <1>1, SaveKeeps DEF Apart
    <2>2. CASE UNCHANGED Accepted
        BY <2>1, <2>2 DEF Log!Keep
    <2>3. CASE ~UNCHANGED Accepted
        <3>1. PICK q \in Processes :
                  /\ Save(q) /\ work[q] \in Snapshots /\ Accepted' = Accepted \cup {work[q]}
                  /\ Follows(work[q]) /\ work[q].ts > heads[work[q].stream].ts
                  /\ ChangeVerified(work[q])
            BY <2>3, AcceptedSteps
        <3>2. q = p
            BY <1>1, <3>1 DEF Save, Goto, TypeOK
        <3>3. Log!Continues(work[p])
            BY <3>1, <3>2, AcceptedContinues DEF Apart
        <3> QED
            BY <2>1, <3>1, <3>2, <3>3 DEF Log!Keep
    <2> QED
        BY <2>2, <2>3
<1>2. ASSUME NEW p \in Processes, Evaluate(p)
      PROVE  Log!Judge
    <2>1. work[p] \in Saved
        <3>1. PICK status : [snapshot |-> work[p], status |-> status] \in attempts
            BY <1>2 DEF Evaluate, IsSaved, Evidence, HandsSaved
        <3> QED
            BY <3>1 DEF Saved
    <2>2. history' = history \cup {work[p].id} /\ UNCHANGED <<attempts, executed>>
        BY <1>2 DEF Evaluate, repositoryVars, database, rows
    <2>3. UNCHANGED <<Saved, Accepted>>
        BY <2>2 DEF Saved, Accepted
    <2> QED
        BY <2>1, <2>2, <2>3 DEF Log!Judge
<1>3. ASSUME NEW p \in Processes, Submit(p)
      PROVE  Log!Act \/ UNCHANGED Log!logVars
    <2>1. pc[p] = "submit" /\ UNCHANGED <<attempts, history>>
        BY <1>3 DEF Submit, repositoryVars, database, rows
    <2>2. UNCHANGED <<Saved, Accepted>>
        BY <2>1 DEF Saved, Accepted
    <2>3. [snapshot |-> work[p], status |-> "ACCEPTED"] \in attempts /\ work[p].id \in history
        BY <2>1 DEF IsSaved, Evidence, HandsSaved
    <2>4. work[p] \in Accepted
        BY <2>3, AcceptedOf
    <2>5. PICK done \in SUBSET {work[p].id} : executed' = executed \cup done
        BY <1>3 DEF Submit
    <2>6. CASE done = {}
        BY <2>1, <2>2, <2>5, <2>6 DEF Log!logVars
    <2>7. CASE done = {work[p].id}
        BY <2>1, <2>2, <2>3, <2>4, <2>5, <2>7 DEF Log!Act
    <2> QED
        BY <2>5, <2>6, <2>7
<1>4. CASE \A p \in Processes : ~Save(p) /\ ~Evaluate(p) /\ ~Submit(p)
    <2>1. UNCHANGED <<attempts, history, executed>>
        BY <1>4, EvidenceUntouched
    <2> QED
        BY <2>1 DEF Log!logVars, Saved, Accepted
<1> QED
    BY <1>1, <1>2, <1>3, <1>4

\* Whoever dies, retries or sets the clock back, each run's steps are those of one log: what is
\* saved stays, what is accepted continues its stream, and a plan is carried out after both
\* its snapshot and its signal are there (save_ingestion, _acquire_market).
THEOREM LogTheorem == Spec => ImplementsLog
<1>1. Init => Log!LogInit
    BY DEF Init, RepositoryInit, Saved, Accepted, Log!LogInit
<1>2. TypeOK /\ HandsTyped /\ Locked /\ Apart /\ Evidence /\ FollowsHead /\ StreamsKept
          /\ [Next]_vars => [Log!LogNext]_(Log!logVars)
    BY LogStep
<1> QED
    BY <1>1, <1>2, AlwaysTyped, AlwaysLocked, AlwaysApart, AlwaysEvident, AlwaysInOrder, PTL
       DEF Spec, ImplementsLog, Log!LogSpec
=============================================================================
