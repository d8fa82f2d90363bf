---------------------------- MODULE MarketProofs ----------------------------
(***************************************************************************)
(* Proofs about MarketReadModel and MarketClient, for any selections,       *)
(* instruments and clients: the read model only advances, its waiters are   *)
(* woken and its answers consistent; a browser that waits has missed        *)
(* nothing.                                                                 *)
(***************************************************************************)
EXTENDS MarketClient, FiniteSetTheorems, TLAPS

\* The variables' types, without the tick cache's limit.
StoreTypes ==
    /\ latest \in [Keys -> Publications]
    /\ observed \in [Securities -> 0 .. MaxTime]
    /\ revision \in Nat /\ event \in Nat /\ closed \in BOOLEAN
    /\ backend \in Nat /\ mishaps \in Nat
    /\ handler \in [Clients -> Handlers]

\* The event in store is that of the revision.
EventIsNewest == event = revision

\* A request thread past its check is not ahead of the store, and what it carries is
\* what an answer may carry.
SoundRequest(h) ==
    /\ h.pc \in {"asked", "wait", "waiting"} => h.event = 0 /\ ~h.reset
    /\ h.pc \in {"wait", "waiting", "returned"} => h.after <= revision
    /\ h.pc = "returned" =>
          ~h.reset /\ h.event <= revision /\ (h.event # 0 => h.event > h.after)
    /\ h.pc = "replied" =>
          /\ h.event <= h.revision /\ (h.event # 0 => h.event > h.after)
          /\ ~h.reset => h.revision >= h.after

RequestsSound == \A c \in Clients : SoundRequest(handler[c])

StoreInv == StoreTypes /\ EventIsNewest /\ RequestsSound /\ NoWaiterSleepsOn

LEMMA NoHandlerTyped == NoHandler \in Handlers
  BY DEF NoHandler, Handlers, HandlerLabels

LEMMA StoreInitInv ==
    ASSUME ReadModelAssumption, ServerInit
    PROVE  StoreInv
<1> USE DEF ServerInit
<1>1. StoreTypes
  <2>1. NoPublication \in Publications
    BY DEF ReadModelAssumption, NoPublication, Publications
  <2>2. handler \in [Clients -> Handlers]
    BY NoHandlerTyped
  <2>3. latest \in [Keys -> Publications]
    BY <2>1
  <2>4. observed \in [Securities -> 0 .. MaxTime]
    BY DEF ReadModelAssumption
  <2>5. QED
    BY <2>2, <2>3, <2>4 DEF StoreTypes
<1>2. \A c \in Clients : handler[c] = NoHandler
  OBVIOUS
<1>3. RequestsSound /\ NoWaiterSleepsOn
  BY <1>2 DEF RequestsSound, SoundRequest, NoWaiterSleepsOn, NoHandler
<1>4. QED
  BY <1>1, <1>3 DEF StoreInv, EventIsNewest

\* What a writer does to the requests: revisions grow and every waiter is notified.
LEMMA NotifyStep ==
    ASSUME StoreInv, revision' \in Nat, revision' >= revision, NotifyAll
    PROVE  /\ handler' \in [Clients -> Handlers]
           /\ RequestsSound'
           /\ NoWaiterSleepsOn'
<1> USE DEF StoreInv, StoreTypes
<1>1. ASSUME NEW c \in Clients
      PROVE  /\ handler'[c] \in Handlers
             /\ SoundRequest(handler[c])'
             /\ handler'[c].pc = "waiting" => handler'[c].notified
  <2>1. handler[c] \in Handlers /\ SoundRequest(handler[c])
    BY DEF RequestsSound
  <2>2. CASE handler[c].pc = "waiting"
    <3>1. handler'[c] = [handler[c] EXCEPT !.notified = TRUE]
      BY <2>2 DEF NotifyAll
    <3>2. /\ handler'[c].pc = "waiting" /\ handler'[c].notified
          /\ handler'[c].after = handler[c].after /\ handler'[c].event = handler[c].event
          /\ handler'[c].reset = handler[c].reset
      BY <2>1, <2>2, <3>1 DEF Handlers
    <3>3. handler'[c] \in Handlers
      BY <2>1, <3>1 DEF Handlers
    <3>4. handler[c].after \in Nat
      BY <2>1 DEF Handlers
    <3>5. SoundRequest(handler[c])'
      BY <2>1, <2>2, <3>2, <3>4 DEF SoundRequest
    <3>6. QED
      BY <3>2, <3>3, <3>5
  <2>3. CASE handler[c].pc # "waiting"
    <3>1. handler'[c] = handler[c]
      BY <2>3 DEF NotifyAll
    <3>2. QED
      BY <2>1, <2>3, <3>1 DEF SoundRequest, Handlers
  <2>4. QED
    BY <2>2, <2>3
<1>2. handler' \in [Clients -> Handlers]
  BY <1>1 DEF NotifyAll
<1>3. QED
  BY <1>1, <1>2 DEF RequestsSound, NoWaiterSleepsOn, Awaited

\* A change of one request that leaves the store alone.
LEMMA HandlerChange ==
    ASSUME StoreInv, NEW c \in Clients, NEW h \in Handlers,
           handler' = [handler EXCEPT ![c] = h],
           UNCHANGED <<store, backend>>, mishaps' \in Nat,
           SoundRequest(h),
           h.pc = "waiting" /\ (closed \/ revision > h.after) => h.notified
    PROVE  StoreInv'
<1> USE DEF StoreInv, StoreTypes, store
<1>1. handler' \in [Clients -> Handlers]
  OBVIOUS
<1>2. \A d \in Clients : handler'[d] = IF d = c THEN h ELSE handler[d]
  OBVIOUS
<1>3. RequestsSound'
  BY <1>2 DEF RequestsSound, SoundRequest
<1>4. NoWaiterSleepsOn'
  BY <1>2 DEF NoWaiterSleepsOn, Awaited
<1>5. QED
  BY <1>1, <1>3, <1>4 DEF EventIsNewest

LEMMA HandlerStep ==
    ASSUME StoreInv, NEW c \in Clients, NEW h \in Handlers,
           SetHandler(c, h), SoundRequest(h),
           h.pc = "waiting" /\ (closed \/ revision > h.after) => h.notified
    PROVE  StoreInv'
  BY HandlerChange DEF SetHandler, StoreInv, StoreTypes

\* A restart leaves no request but dead ones.
LEMMA RestartStep ==
    ASSUME ReadModelAssumption, StoreInv, Restart
    PROVE  StoreInv'
<1> USE DEF StoreInv, StoreTypes, Restart
<1>1. \A c \in Clients : handler'[c] \in {NoHandler, [NoHandler EXCEPT !.pc = "dead"]}
  OBVIOUS
<1>2. [NoHandler EXCEPT !.pc = "dead"] \in Handlers
  BY DEF NoHandler, Handlers, HandlerLabels
<1>3. handler' \in [Clients -> Handlers]
  BY <1>1, <1>2, NoHandlerTyped
<1>4. RequestsSound' /\ NoWaiterSleepsOn'
  BY <1>1 DEF RequestsSound, SoundRequest, NoWaiterSleepsOn, NoHandler
<1>5. NoPublication \in Publications
  BY DEF ReadModelAssumption, NoPublication, Publications
<1>6. latest' \in [Keys -> Publications] /\ observed' \in [Securities -> 0 .. MaxTime]
  BY <1>5 DEF ReadModelAssumption
<1>7. revision' \in Nat /\ event' = revision' /\ closed' \in BOOLEAN
  OBVIOUS
<1>8. backend' \in Nat /\ mishaps' \in Nat
  OBVIOUS
<1>9. QED
  BY <1>3, <1>4, <1>6, <1>7, <1>8 DEF EventIsNewest

\* The request threads' own steps.
LEMMA ServeStep ==
    ASSUME StoreInv, NEW c \in Clients, Serve(c)
    PROVE  StoreInv'
<1> DEFINE h == handler[c]
<1>1. h \in Handlers /\ SoundRequest(h)
  BY DEF StoreInv, StoreTypes, RequestsSound
<1>2. revision \in Nat /\ event = revision
  BY DEF StoreInv, StoreTypes, EventIsNewest
<1>3. Returned(c) \in Handlers
  BY <1>1, <1>2 DEF Returned, Handlers, HandlerLabels
<1>4. h.pc \in {"wait", "waiting"} => SoundRequest(Returned(c)) /\ Returned(c).pc # "waiting"
  BY <1>1, <1>2 DEF Returned, SoundRequest, Handlers, HandlerLabels
<1>5. CASE CheckReset(c)
  <2>1. CASE h.after > revision
    <3> DEFINE g == [h EXCEPT !.pc = "replied", !.reset = TRUE, !.revision = revision]
    <3>1. SetHandler(c, g)
      BY <1>5, <2>1 DEF CheckReset
    <3>2. g \in Handlers
      BY <1>1, <1>2 DEF Handlers, HandlerLabels
    <3>3. g.pc = "replied" /\ g.reset /\ g.event = h.event /\ g.revision = revision
      BY <1>1 DEF Handlers
    <3>4. h.event = 0
      BY <1>1, <1>5 DEF CheckReset, SoundRequest
    <3>5. SoundRequest(g)
      BY <1>2, <3>3, <3>4 DEF SoundRequest
    <3>6. QED
      BY <3>1, <3>2, <3>3, <3>5, HandlerStep
  <2>2. CASE ~(h.after > revision)
    <3> DEFINE g == [h EXCEPT !.pc = "wait"]
    <3>1. SetHandler(c, g)
      BY <1>5, <2>2 DEF CheckReset
    <3>2. g \in Handlers /\ SoundRequest(g) /\ g.pc # "waiting"
      BY <1>1, <1>2, <1>5, <2>2 DEF CheckReset, SoundRequest, Handlers, HandlerLabels
    <3>3. QED
      BY <3>1, <3>2, HandlerStep
  <2>3. QED
    BY <2>1, <2>2
<1>6. CASE EnterWait(c)
  <2>1. CASE Awaited(c)
    BY <1>3, <1>4, <1>6, <2>1, HandlerStep DEF EnterWait
  <2>2. CASE ~Awaited(c)
    <3> DEFINE g == [h EXCEPT !.pc = "waiting"]
    <3>1. SetHandler(c, g)
      BY <1>6, <2>2 DEF EnterWait
    <3>2. g \in Handlers /\ SoundRequest(g) /\ g.after = h.after
      BY <1>1, <1>6 DEF EnterWait, SoundRequest, Handlers, HandlerLabels
    <3>3. QED
      BY <2>2, <3>1, <3>2, HandlerStep DEF Awaited
  <2>3. QED
    BY <2>1, <2>2
<1>7. CASE Wake(c)
  <2>1. CASE Awaited(c)
    BY <1>3, <1>4, <1>7, <2>1, HandlerStep DEF Wake
  <2>2. CASE ~Awaited(c)
    <3> DEFINE g == [h EXCEPT !.notified = FALSE]
    <3>1. SetHandler(c, g)
      BY <1>7, <2>2 DEF Wake
    <3>2. g \in Handlers /\ SoundRequest(g) /\ g.after = h.after
      BY <1>1, <1>7 DEF Wake, SoundRequest, Handlers, HandlerLabels
    <3>3. QED
      BY <2>2, <3>1, <3>2, HandlerStep DEF Awaited
  <2>3. QED
    BY <2>1, <2>2
<1>8. CASE TimeOut(c)
  BY <1>3, <1>4, <1>8, HandlerStep DEF TimeOut
<1>9. CASE Reply(c)
  <2> DEFINE g == [h EXCEPT !.pc = "replied", !.revision = revision]
  <2>1. SetHandler(c, g)
    BY <1>9 DEF Reply
  <2>2. g \in Handlers /\ SoundRequest(g) /\ g.pc # "waiting"
    BY <1>1, <1>2, <1>9 DEF Reply, SoundRequest, Handlers, HandlerLabels
  <2>3. QED
    BY <2>1, <2>2, HandlerStep
<1>10. QED
  BY <1>5, <1>6, <1>7, <1>8, <1>9 DEF Serve

\* Whatever the backend does by itself.
LEMMA ServerStep ==
    ASSUME ReadModelAssumption, StoreInv, ServerNext
    PROVE  StoreInv'
<1> USE DEF StoreInv, StoreTypes
<1>1. ASSUME NEW k \in Keys, NEW n \in 1 .. MaxOrder, NEW ids \in Contracts,
             Publish(k, [order |-> n, ids |-> ids])
      PROVE  StoreInv'
  <2>1. [order |-> n, ids |-> ids] \in Publications
    BY DEF ReadModelAssumption, Publications
  <2>2. latest' \in [Keys -> Publications]
    BY <1>1, <2>1 DEF Publish
  <2>3. revision' = revision + 1 /\ NotifyAll
    BY <1>1 DEF Publish
  <2>4. QED
    BY <1>1, <2>2, <2>3, NotifyStep DEF Publish, EventIsNewest
<1>2. ASSUME NEW s \in Securities, NEW price \in BOOLEAN, NEW at \in 1 .. MaxTime,
             PublishFeedTick(s, price, at)
      PROVE  StoreInv'
  <2>1. observed' \in [Securities -> 0 .. MaxTime]
    BY <1>2 DEF PublishFeedTick
  <2>2. revision' = revision + 1 /\ NotifyAll
    BY <1>2 DEF PublishFeedTick
  <2>3. QED
    BY <1>2, <2>1, <2>2, NotifyStep DEF PublishFeedTick, EventIsNewest
<1>3. CASE Close
  <2>1. revision' = revision /\ NotifyAll
    BY <1>3 DEF Close
  <2>2. QED
    BY <1>3, <2>1, NotifyStep DEF Close, EventIsNewest
<1>4. CASE Restart
  BY <1>4, RestartStep
<1>5. ASSUME NEW c \in Clients, Serve(c)
      PROVE  StoreInv'
  BY <1>5, ServeStep
<1>6. QED
  BY <1>1, <1>2, <1>3, <1>4, <1>5 DEF ServerNext

\* A client that asks, or is done with its request.
LEMMA ClientRequestStep ==
    ASSUME StoreInv, NEW c \in Clients, NEW after \in Nat, NEW h,
           h = NoHandler \/ h = Asked(after),
           handler' = [handler EXCEPT ![c] = h],
           UNCHANGED <<store, backend>>, mishaps' \in Nat
    PROVE  StoreInv'
<1>1. h \in Handlers /\ SoundRequest(h) /\ h.pc # "waiting"
  BY NoHandlerTyped DEF NoHandler, Asked, SoundRequest, Handlers, HandlerLabels
<1>2. QED
  BY <1>1, HandlerChange

\* A step of no request that leaves the store alone.
LEMMA StoreStutter ==
    ASSUME StoreInv, UNCHANGED <<store, backend, handler>>, mishaps' \in Nat
    PROVE  StoreInv'
  BY DEF store, StoreInv, StoreTypes, EventIsNewest, RequestsSound, SoundRequest,
     NoWaiterSleepsOn, Awaited

LEMMA StoreStep ==
    ASSUME ReadModelAssumption, StoreInv, [StoreNext]_serverVars
    PROVE  StoreInv'
<1>1. CASE ServerNext
  BY <1>1, ServerStep
<1>2. ASSUME NEW c \in Clients, NEW after \in 0 .. MaxRevision, Ask(c, after)
      PROVE  StoreInv'
  <2>1. after \in Nat
    BY DEF ReadModelAssumption
  <2>2. handler' = [handler EXCEPT ![c] = Asked(after)] /\ UNCHANGED <<store, backend, mishaps>>
    BY <1>2 DEF Ask, SetHandler
  <2>3. QED
    BY <2>1, <2>2, ClientRequestStep DEF StoreInv, StoreTypes
<1>3. ASSUME NEW c \in Clients, Finish(c)
      PROVE  StoreInv'
  BY <1>3, ClientRequestStep DEF Finish, SetHandler, StoreInv, StoreTypes
<1>4. CASE UNCHANGED serverVars
  BY <1>4, StoreStutter DEF serverVars, StoreInv, StoreTypes
<1>5. QED
  BY <1>1, <1>2, <1>3, <1>4 DEF StoreNext

-----------------------------------------------------------------------------
(* The tick cache *)

CacheBounded == Cardinality(Cached) <= MaxTickInstruments

LEMMA CachedIsFinite ==
    ASSUME ReadModelAssumption
    PROVE  IsFiniteSet(Cached)
  BY FS_Subset DEF ReadModelAssumption, Cached

\* A price packet adds at most its own instrument, and only where there is room.
LEMMA CacheTick ==
    ASSUME ReadModelAssumption, StoreTypes, CacheBounded,
           NEW s \in Securities, NEW price \in BOOLEAN, NEW at \in 1 .. MaxTime,
           PublishFeedTick(s, price, at)
    PROVE  CacheBounded'
<1>1. observed' = [observed EXCEPT ![s] = IF price THEN at ELSE @]
  BY DEF PublishFeedTick
<1>2. CASE HasTick(s)
  <2>1. Cached' = Cached
    BY <1>1, <1>2 DEF StoreTypes, Cached, HasTick
  <2>2. QED
    BY <2>1 DEF CacheBounded
<1>3. CASE ~HasTick(s)
  <2>1. price /\ Cardinality(Cached) < MaxTickInstruments
    BY <1>3 DEF PublishFeedTick, TickAccepted
  <2>2. Cached' = Cached \cup {s} /\ s \notin Cached
    BY <1>1, <1>3, <2>1 DEF StoreTypes, Cached, HasTick
  <2>3. Cardinality(Cached \cup {s}) = Cardinality(Cached) + 1
    BY <2>2, CachedIsFinite, FS_AddElement
  <2>4. Cardinality(Cached) \in Nat
    BY CachedIsFinite, FS_CardinalityType
  <2>5. QED
    BY <2>1, <2>2, <2>3, <2>4 DEF CacheBounded, ReadModelAssumption
<1>4. QED
  BY <1>2, <1>3

LEMMA CacheEmpty ==
    ASSUME ReadModelAssumption, observed = [s \in Securities |-> 0]
    PROVE  CacheBounded
<1>1. Cached = {}
  BY DEF Cached, HasTick
<1>2. QED
  BY <1>1, FS_EmptySet DEF CacheBounded, ReadModelAssumption

\* Only ticks and restarts touch the cache.
LEMMA CacheStep ==
    ASSUME ReadModelAssumption, StoreTypes, CacheBounded,
           ServerNext \/ UNCHANGED store
    PROVE  CacheBounded'
<1>1. ASSUME NEW s \in Securities, NEW price \in BOOLEAN, NEW at \in 1 .. MaxTime,
             PublishFeedTick(s, price, at)
      PROVE  CacheBounded'
  BY <1>1, CacheTick
<1>2. CASE Restart
  <2>1. Cached' = {}
    BY <1>2 DEF Restart, Cached, HasTick
  <2>2. QED
    BY <2>1, FS_EmptySet DEF CacheBounded, ReadModelAssumption
<1>3. CASE UNCHANGED observed
  BY <1>3 DEF CacheBounded, Cached, HasTick
<1>4. ASSUME NEW c \in Clients, Serve(c)
      PROVE  UNCHANGED observed
  BY <1>4 DEF Serve, CheckReset, EnterWait, Wake, TimeOut, Reply, SetHandler, store
<1>5. ASSUME NEW k \in Keys, NEW p, Publish(k, p)
      PROVE  UNCHANGED observed
  BY <1>5 DEF Publish
<1>6. Close \/ UNCHANGED store => UNCHANGED observed
  BY DEF Close, store
<1>7. QED
  BY <1>1, <1>2, <1>3, <1>4, <1>5, <1>6 DEF ServerNext

-----------------------------------------------------------------------------
(* The read model by itself *)

\* Every reachable state of the read model keeps its invariant.
LEMMA StoreInvariance == StoreSpec => [](StoreInv /\ CacheBounded)
<1>1. ServerInit => StoreInv /\ CacheBounded
  BY ReadModelAssumption, StoreInitInv, CacheEmpty DEF ServerInit
<1>2. StoreInv /\ CacheBounded /\ [StoreNext]_serverVars => (StoreInv /\ CacheBounded)'
  <2> SUFFICES ASSUME StoreInv, CacheBounded, [StoreNext]_serverVars
               PROVE  (StoreInv /\ CacheBounded)'
    OBVIOUS
  <2>1. StoreInv'
    BY ReadModelAssumption, StoreStep
  <2>2. ServerNext \/ UNCHANGED store
    BY DEF StoreNext, Ask, Finish, SetHandler, serverVars
  <2>3. CacheBounded'
    BY ReadModelAssumption, <2>2, CacheStep DEF StoreInv
  <2>4. QED
    BY <2>1, <2>3
<1>3. QED
  BY <1>1, <1>2, PTL DEF StoreSpec

\* MarketReadModelStore's state is well typed and its tick cache within
\* maximum_tick_instruments, for any limit and any instruments.
THEOREM StoreTypeCorrectness == StoreSpec => []StoreTypeOK
<1>1. StoreInv /\ CacheBounded => StoreTypeOK
  BY DEF StoreInv, StoreTypes, CacheBounded, StoreTypeOK
<1>2. QED
  BY <1>1, StoreInvariance, PTL

\* No thread in wait_for_revision sleeps on what publish, publish_feed_tick or close
\* has for it, however many threads wait.
THEOREM NoWaiterSleepsOnTheorem == StoreSpec => []NoWaiterSleepsOn
<1>1. StoreInv => NoWaiterSleepsOn
  BY DEF StoreInv
<1>2. QED
  BY <1>1, StoreInvariance, PTL

\* Every answer of the /market/updates handler is consistent, whatever is published
\* between its two reads of the revision.
THEOREM AnswersTheorem == StoreSpec => []AnswersAreConsistent
<1>1. StoreInv => AnswersAreConsistent
  BY DEF StoreInv, RequestsSound, SoundRequest, AnswersAreConsistent
<1>2. QED
  BY <1>1, StoreInvariance, PTL

\* Publications, price times and the revision only advance while a backend lives
\* (publish and publish_feed_tick).
THEOREM UpdatesAdvanceTheorem == StoreSpec => UpdatesAdvance
<1> DEFINE Advances ==
      backend' = backend =>
          /\ \A k \in Keys : latest'[k] # latest[k] => latest'[k].order > latest[k].order
          /\ \A s \in Securities : observed'[s] >= observed[s]
          /\ revision' >= revision
          /\ latest' # latest \/ observed' # observed => revision' > revision
<1>1. StoreInv /\ [StoreNext]_serverVars => [Advances]_serverVars
  <2> SUFFICES ASSUME StoreInv, StoreNext
               PROVE  Advances
    OBVIOUS
  <2> USE DEF StoreInv, StoreTypes
  <2>1. \A s \in Securities : observed[s] >= observed[s]
    OBVIOUS
  <2>2. ASSUME NEW k \in Keys, NEW n \in 1 .. MaxOrder, NEW ids \in Contracts,
               Publish(k, [order |-> n, ids |-> ids])
        PROVE  Advances
    BY <2>1, <2>2 DEF Publish
  <2>3. ASSUME NEW s \in Securities, NEW price \in BOOLEAN, NEW at \in 1 .. MaxTime,
               PublishFeedTick(s, price, at)
        PROVE  Advances
    <3>1. \A t \in Securities : observed'[t] >= observed[t]
      BY <2>3, <2>1 DEF PublishFeedTick, TickAccepted
    <3>2. QED
      BY <2>3, <3>1 DEF PublishFeedTick
  <2>4. CASE Restart
    BY <2>4 DEF Restart
  <2>5. CASE UNCHANGED <<latest, observed, revision>>
    BY <2>1, <2>5
  <2>6. ASSUME NEW c \in Clients, Serve(c)
        PROVE  UNCHANGED <<latest, observed, revision>>
    BY <2>6 DEF Serve, CheckReset, EnterWait, Wake, TimeOut, Reply, SetHandler, store
  <2>7. Close => UNCHANGED <<latest, observed, revision>>
    BY DEF Close
  <2>8. ASSUME NEW c \in Clients, NEW after, Ask(c, after) \/ Finish(c)
        PROVE  UNCHANGED <<latest, observed, revision>>
    BY <2>8 DEF Ask, Finish, SetHandler, store
  <2>9. QED
    BY <2>2, <2>3, <2>4, <2>5, <2>6, <2>7, <2>8 DEF StoreNext, ServerNext
<1>2. QED
  BY <1>1, StoreInvariance, PTL DEF StoreSpec, UpdatesAdvance

-----------------------------------------------------------------------------
(* The browser's loop against the read model *)

LoopTypes ==
    /\ loop \in [Clients -> Loops]
    /\ current \in Clients
    /\ selection \in Keys \cup {NoKey}
    /\ workspace \in [key : Keys \cup {NoKey}, order : Nat, backend : Nat]
    /\ expired \subseteq Keys

\* The running loop asks for a workspace of its own selection only.
Running(l) == ~l.aborted /\ (l.pc = "workspace" => l.sel # NoKey)

\* What a running loop and its request know: a revision learned from this backend has
\* been reached, and a loop that waits for the next one shows the last.
Knows(l, h) ==
    /\ l.learned = backend => l.revision <= revision
    /\ l.learned <= backend
    /\ h.pc = "replied" => h.revision <= revision
    /\ l.pc = "update" /\ h.pc \in {"asked", "wait", "waiting"} => h.after = l.revision
    /\ l.pc = "update" /\ l.sel # NoKey /\ l.learned = backend /\ revision <= l.revision =>
          workspace = Shown(l.sel)

ClientInv ==
    /\ LoopTypes
    /\ OneLoop
    /\ DisplayedIsSelected
    /\ Running(loop[current])
    /\ Knows(loop[current], handler[current])

\* What a step of the backend does to a request, and to what a loop knows by it.
Unanswered == {"asked", "wait", "waiting"}
Progress(c) ==
    /\ backend' = backend /\ revision' >= revision
    /\ latest' = latest \/ revision' > revision
    /\ handler'[c].pc \in Unanswered =>
          handler[c].pc \in Unanswered /\ handler'[c].after = handler[c].after
    /\ handler'[c].pc = "replied" =>
          \/ handler'[c].revision = revision'
          \/ handler[c].pc = "replied" /\ handler'[c].revision = handler[c].revision
Renewal(c) == backend' = backend + 1 /\ handler'[c].pc \in {"none", "dead"}

LEMMA ServerEffect ==
    ASSUME StoreInv, ServerNext, NEW c \in Clients
    PROVE  /\ handler[c] = NoHandler => handler'[c] = NoHandler
           /\ Progress(c) \/ Renewal(c)
<1> USE DEF StoreInv, StoreTypes
<1> DEFINE Kept == handler[c] = NoHandler => handler'[c] = NoHandler
<1>1. handler[c] \in Handlers /\ revision \in Nat
  OBVIOUS
<1>2. ASSUME NotifyAll, backend' = backend, revision' >= revision,
             latest' = latest \/ revision' > revision
      PROVE  Kept /\ Progress(c)
  <2>1. handler'[c] = handler[c] \/ handler'[c] = [handler[c] EXCEPT !.notified = TRUE]
    BY <1>2 DEF NotifyAll
  <2>2. /\ handler'[c].pc = handler[c].pc /\ handler'[c].after = handler[c].after
        /\ handler'[c].revision = handler[c].revision
    BY <1>1, <2>1 DEF Handlers
  <2>3. handler[c] = NoHandler => handler[c].pc # "waiting"
    BY DEF NoHandler
  <2>4. Kept
    BY <1>2, <2>3 DEF NotifyAll
  <2>5. QED
    BY <1>2, <2>2, <2>4 DEF Progress
<1>3. ASSUME NEW k \in Keys, NEW p, Publish(k, p)
      PROVE  Kept /\ Progress(c)
  BY <1>1, <1>2, <1>3 DEF Publish
<1>4. ASSUME NEW s \in Securities, NEW price, NEW at, PublishFeedTick(s, price, at)
      PROVE  Kept /\ Progress(c)
  BY <1>1, <1>2, <1>4 DEF PublishFeedTick
<1>5. CASE Close
  BY <1>1, <1>2, <1>5 DEF Close
<1>6. CASE Restart
  <2>1. handler'[c] = IF handler[c].pc = "none" THEN NoHandler
                      ELSE [NoHandler EXCEPT !.pc = "dead"]
    BY <1>6 DEF Restart
  <2>2. Kept /\ handler'[c].pc \in {"none", "dead"}
    BY <2>1 DEF NoHandler
  <2>3. QED
    BY <1>6, <2>2 DEF Restart, Renewal
<1>7. ASSUME NEW d \in Clients, Serve(d)
      PROVE  Kept /\ Progress(c)
  <2>1. UNCHANGED <<latest, revision, backend>>
    BY <1>7 DEF Serve, CheckReset, EnterWait, Wake, TimeOut, Reply, SetHandler, store
  <2>2. CASE d # c
    <3>1. handler'[c] = handler[c]
      BY <1>7, <2>2 DEF Serve, CheckReset, EnterWait, Wake, TimeOut, Reply, SetHandler
    <3>2. QED
      BY <1>1, <2>1, <3>1 DEF Progress
  <2>3. CASE d = c
    <3>1. handler[c] # NoHandler
      BY <1>7, <2>3 DEF Serve, CheckReset, EnterWait, Wake, TimeOut, Reply, NoHandler
    <3>2. ASSUME NEW h \in Handlers, SetHandler(c, h),
                 h.after = handler[c].after,
                 h.pc \in Unanswered => handler[c].pc \in Unanswered,
                 h.pc = "replied" => h.revision = revision
          PROVE  Progress(c)
      <4>1. handler'[c] = h
        BY <3>2 DEF SetHandler
      <4>2. QED
        BY <1>1, <2>1, <3>2, <4>1 DEF Progress
    <3>3. CASE CheckReset(c)
      <4> DEFINE g == IF handler[c].after > revision
                      THEN [handler[c] EXCEPT !.pc = "replied", !.reset = TRUE,
                                              !.revision = revision]
                      ELSE [handler[c] EXCEPT !.pc = "wait"]
      <4>1. SetHandler(c, g) /\ handler[c].pc \in Unanswered
        BY <3>3 DEF CheckReset, Unanswered
      <4>2. g \in Handlers /\ g.after = handler[c].after
        BY <1>1 DEF Handlers, HandlerLabels
      <4>3. g.pc = "replied" => g.revision = revision
        BY <1>1 DEF Handlers
      <4>4. QED
        BY <3>1, <3>2, <4>1, <4>2, <4>3
    <3>4. /\ Returned(c) \in Handlers /\ Returned(c).after = handler[c].after
          /\ Returned(c).pc = "returned"
      BY <1>1 DEF Returned, Handlers, HandlerLabels
    <3>5. SetHandler(c, Returned(c)) => Progress(c)
      BY <3>2, <3>4 DEF Unanswered
    <3>6. CASE EnterWait(c)
      <4> DEFINE g == [handler[c] EXCEPT !.pc = "waiting"]
      <4>1. g \in Handlers /\ g.after = handler[c].after /\ g.pc = "waiting"
        BY <1>1 DEF Handlers, HandlerLabels
      <4>2. handler[c].pc \in Unanswered
        BY <3>6 DEF EnterWait, Unanswered
      <4>3. SetHandler(c, g) \/ SetHandler(c, Returned(c))
        BY <3>6 DEF EnterWait
      <4>4. QED
        BY <3>1, <3>2, <3>5, <4>1, <4>2, <4>3
    <3>7. CASE Wake(c)
      <4> DEFINE g == [handler[c] EXCEPT !.notified = FALSE]
      <4>1. g \in Handlers /\ g.after = handler[c].after /\ g.pc = "waiting"
        BY <1>1, <3>7 DEF Wake, Handlers, HandlerLabels
      <4>2. handler[c].pc \in Unanswered
        BY <3>7 DEF Wake, Unanswered
      <4>3. SetHandler(c, g) \/ SetHandler(c, Returned(c))
        BY <3>7 DEF Wake
      <4>4. QED
        BY <3>1, <3>2, <3>5, <4>1, <4>2, <4>3
    <3>8. CASE TimeOut(c)
      BY <3>1, <3>5, <3>8 DEF TimeOut
    <3>9. CASE Reply(c)
      <4> DEFINE g == [handler[c] EXCEPT !.pc = "replied", !.revision = revision]
      <4>1. g \in Handlers /\ g.after = handler[c].after /\ g.pc = "replied"
            /\ g.revision = revision
        BY <1>1 DEF Handlers, HandlerLabels
      <4>2. SetHandler(c, g)
        BY <3>9 DEF Reply
      <4>3. QED
        BY <3>1, <3>2, <4>1, <4>2 DEF Unanswered
    <3>10. QED
      BY <1>7, <2>3, <3>1, <3>3, <3>6, <3>7, <3>8, <3>9 DEF Serve
  <2>4. QED
    BY <2>2, <2>3
<1>8. QED
  BY <1>3, <1>4, <1>5, <1>6, <1>7 DEF ServerNext

LEMMA ClientInitInv ==
    ASSUME ClientAssumption, Init
    PROVE  ClientInv
<1> USE DEF Init, ServerInit
<1>1. selection \in Keys \cup {NoKey} /\ current = 1 /\ 1 \in Clients
  BY DEF ClientAssumption
<1>2. NewLoop(selection) \in Loops /\ Idle("unborn") \in Loops
  BY DEF NewLoop, Idle, Loops, LoopLabels
<1>3. \A c \in Clients : loop[c] = IF c = 1 THEN NewLoop(selection) ELSE Idle("unborn")
  OBVIOUS
<1>4. LoopTypes
  <2>1. loop \in [Clients -> Loops]
    BY <1>2
  <2>2. workspace \in [key : Keys \cup {NoKey}, order : Nat, backend : Nat]
    BY DEF NoWorkspace
  <2>3. QED
    BY <1>1, <2>1, <2>2 DEF LoopTypes
<1>5. OneLoop
  <2>1. Idle("unborn").pc = "unborn" /\ NewLoop(selection).sel = selection
    BY DEF Idle, NewLoop
  <2>2. QED
    BY <1>1, <1>3, <2>1 DEF OneLoop
<1>6. /\ loop[current].pc = "status" /\ ~loop[current].aborted
      /\ loop[current].revision = 0 /\ loop[current].learned = 0
      /\ handler[current].pc = "none"
  BY <1>1, <1>3 DEF NewLoop, NoHandler
<1>7. Running(loop[current]) /\ Knows(loop[current], handler[current])
  BY <1>6 DEF Running, Knows
<1>8. QED
  BY <1>4, <1>5, <1>7 DEF ClientInv, DisplayedIsSelected, NoWorkspace

\* The backend's steps leave what the loop knows true.
LEMMA ServerClientStep ==
    ASSUME StoreInv, ClientInv, ServerNext, UNCHANGED client
    PROVE  ClientInv'
<1> USE DEF ClientInv, client
<1>1. LoopTypes' /\ DisplayedIsSelected' /\ Running(loop[current])'
  BY DEF LoopTypes, DisplayedIsSelected, Running
<1>2. OneLoop'
  BY ServerEffect DEF OneLoop, LoopTypes
<1>3. current \in Clients /\ loop[current] \in Loops
  BY DEF LoopTypes
<1>4. Knows(loop[current], handler[current])'
  <2> DEFINE l == loop[current]
  <2>1. /\ l.learned \in Nat /\ l.revision \in Nat /\ revision \in Nat /\ backend \in Nat
        /\ handler[current].revision \in Nat
    BY <1>3 DEF Loops, Handlers, StoreInv, StoreTypes
  <2>2. CASE Renewal(current)
    BY <2>1, <2>2 DEF Renewal, Knows
  <2>3. CASE Progress(current)
    <3>1. l.learned = backend' => l.revision <= revision
      BY <2>3 DEF Progress, Knows
    <3>2. revision' \in Nat
      BY ReadModelAssumption, ServerStep DEF StoreInv, StoreTypes
    <3>3. l.learned = backend' /\ revision' <= l.revision => latest' = latest /\ revision' = revision
      BY <2>1, <2>3, <3>1, <3>2 DEF Progress
    <3>4. l.pc = "update" /\ l.sel # NoKey /\ l.learned = backend' /\ revision' <= l.revision
              => workspace' = Shown(l.sel)'
      BY <2>3, <3>3 DEF Progress, Knows, Shown
    <3>5. handler'[current].pc = "replied" => handler'[current].revision <= revision'
      BY <2>1, <2>3, <3>2 DEF Progress, Knows
    <3>6. l.pc = "update" /\ handler'[current].pc \in Unanswered
              => handler'[current].after = l.revision
      BY <2>3 DEF Progress, Knows, Unanswered
    <3>7. l.learned = backend' => l.revision <= revision'
      BY <2>1, <2>3, <3>1, <3>2 DEF Progress
    <3>8. l.learned <= backend'
      BY <2>3 DEF Progress, Knows
    <3>9. QED
      BY <3>4, <3>5, <3>6, <3>7, <3>8 DEF Knows, Unanswered
  <2>4. QED
    BY <1>3, <2>2, <2>3, ServerEffect
<1>5. QED
  BY <1>1, <1>2, <1>4

\* A loop that awaits something is the current one.
LEMMA OnlyCurrentAwaits ==
    ASSUME ClientInv, NEW c \in Clients,
           NEW pc \in {"status", "catalog", "workspace", "update"}, Awaiting(c, pc)
    PROVE  c = current
  BY DEF ClientInv, OneLoop, Awaiting

\* A step of the current loop: what has to hold of its new state.
LEMMA LoopStep ==
    ASSUME ClientInv, NEW l \in Loops, NEW h,
           loop' = [loop EXCEPT ![current] = l],
           handler' = [handler EXCEPT ![current] = h],
           UNCHANGED <<store, backend, current, selection, expired>>,
           workspace' \in [key : Keys \cup {NoKey}, order : Nat, backend : Nat],
           workspace'.key \in {selection, NoKey},
           handler \in [Clients -> Handlers],
           Running(l), l.sel = loop[current].sel,
           l.learned = backend => l.revision <= revision,
           l.learned <= backend,
           h.pc = "replied" => h.revision <= revision,
           l.pc = "update" /\ h.pc \in Unanswered => h.after = l.revision,
           l.pc = "update" /\ l.sel # NoKey /\ l.learned = backend /\ revision <= l.revision =>
               workspace' = Shown(l.sel)
    PROVE  ClientInv'
<1> USE DEF ClientInv, LoopTypes
<1>1. LoopTypes'
  OBVIOUS
<1>2. loop'[current] = l /\ handler'[current] = h
  OBVIOUS
<1>3. OneLoop'
  BY <1>2 DEF OneLoop
<1>4. DisplayedIsSelected'
  BY DEF DisplayedIsSelected
<1>5. Running(loop[current])'
  BY <1>2 DEF Running
<1>6. Knows(loop[current], handler[current])'
  BY <1>2 DEF Knows, Shown, store, Unanswered
<1>7. QED
  BY <1>1, <1>3, <1>4, <1>5, <1>6

\* What Learned does to a loop's state, for a revision of this backend.
LEMMA LearnedIsKnown ==
    ASSUME StoreInv, NEW l \in Loops, NEW n \in Nat, n <= revision,
           l.learned = backend => l.revision <= revision, l.learned <= backend
    PROVE  LET m == Learned(l, n) IN
           /\ m \in Loops
           /\ m.sel = l.sel /\ m.pc = l.pc /\ m.aborted = l.aborted
           /\ m.learned = backend => m.revision <= revision
           /\ m.learned <= backend
<1> DEFINE g == [l EXCEPT !.revision = n, !.learned = backend]
<1>1. revision \in Nat /\ backend \in Nat
  BY DEF StoreInv, StoreTypes
<1>2. /\ g \in Loops /\ g.sel = l.sel /\ g.pc = l.pc /\ g.aborted = l.aborted
      /\ g.revision = n /\ g.learned = backend
  BY <1>1 DEF Loops
<1>3. Learned(l, n) = l \/ Learned(l, n) = g
  BY DEF Learned
<1>4. CASE Learned(l, n) = l
  BY <1>4
<1>5. CASE Learned(l, n) = g
  BY <1>1, <1>2, <1>5
<1>6. QED
  BY <1>3, <1>4, <1>5

\* A loop that goes somewhere and waits for nothing there.
LEMMA GoingOn ==
    ASSUME StoreInv, ClientInv,
           NEW pc \in {"status", "catalog", "workspace"},
           pc = "workspace" => loop[current].sel # NoKey,
           Goto(current, pc),
           NEW h, h = handler[current] \/ h = NoHandler,
           handler' = [handler EXCEPT ![current] = h],
           UNCHANGED <<store, backend, current, selection, expired>>,
           workspace' \in [key : Keys \cup {NoKey}, order : Nat, backend : Nat],
           workspace'.key \in {selection, NoKey}
    PROVE  ClientInv'
<1> DEFINE l == [loop[current] EXCEPT !.pc = pc]
<1>1. loop[current] \in Loops /\ Running(loop[current])
  BY DEF ClientInv, LoopTypes
<1>2. l \in Loops /\ l.pc = pc /\ l.sel = loop[current].sel /\ l.aborted = loop[current].aborted
      /\ l.learned = loop[current].learned /\ l.revision = loop[current].revision
  BY <1>1 DEF Loops, LoopLabels
<1>3. Running(l)
  BY <1>1, <1>2 DEF Running
<1>4. h.pc = "replied" => h.revision <= revision
  BY DEF ClientInv, Knows, NoHandler
<1>5. loop' = [loop EXCEPT ![current] = l]
  BY DEF Goto
<1>6. QED
  BY <1>2, <1>3, <1>4, <1>5, LoopStep DEF ClientInv, Knows, StoreInv, StoreTypes

\* A loop that learns a revision of this backend and goes somewhere with it.
LEMMA Learning ==
    ASSUME StoreInv, ClientInv, NEW n \in Nat, n <= revision,
           NEW pc \in {"status", "catalog"},
           loop' = [loop EXCEPT ![current] = [Learned(@, n) EXCEPT !.pc = pc]],
           NEW h, h = handler[current] \/ h = NoHandler,
           handler' = [handler EXCEPT ![current] = h],
           UNCHANGED <<store, backend, current, selection, workspace, expired>>
    PROVE  ClientInv'
<1> DEFINE l == loop[current]
           m == Learned(l, n)
           g == [m EXCEPT !.pc = pc]
<1>1. l \in Loops /\ Running(l)
  BY DEF ClientInv, LoopTypes
<1>2. l.learned = backend => l.revision <= revision
  BY DEF ClientInv, Knows
<1>3. l.learned <= backend
  BY DEF ClientInv, Knows
<1>4. /\ m \in Loops /\ m.sel = l.sel /\ m.aborted = l.aborted
      /\ m.learned = backend => m.revision <= revision
      /\ m.learned <= backend
  BY <1>1, <1>2, <1>3, LearnedIsKnown
<1>5. /\ g \in Loops /\ g.pc = pc /\ g.sel = l.sel /\ g.aborted = l.aborted
      /\ g.learned = m.learned /\ g.revision = m.revision
  BY <1>4 DEF Loops, LoopLabels
<1>6. Running(g)
  BY <1>1, <1>5 DEF Running
<1>7. h.pc = "replied" => h.revision <= revision
  BY DEF ClientInv, Knows, NoHandler
<1>8. loop' = [loop EXCEPT ![current] = g]
  BY <1>1
<1>9. QED
  BY <1>4, <1>5, <1>6, <1>7, <1>8, LoopStep DEF ClientInv, LoopTypes, DisplayedIsSelected,
     StoreInv, StoreTypes

\* The request that follows a cycle, after the loop's revision.
LEMMA Requesting ==
    ASSUME StoreInv, ClientInv, Request(current),
           UNCHANGED <<current, selection, expired>>,
           workspace' \in [key : Keys \cup {NoKey}, order : Nat, backend : Nat],
           workspace'.key \in {selection, NoKey},
           loop[current].sel # NoKey => workspace' = Shown(loop[current].sel)
    PROVE  ClientInv'
<1> DEFINE l == [loop[current] EXCEPT !.pc = "update"]
           h == Asked(loop[current].revision)
<1>1. loop[current] \in Loops /\ Running(loop[current])
  BY DEF ClientInv, LoopTypes
<1>2. /\ l \in Loops /\ l.pc = "update" /\ l.sel = loop[current].sel
      /\ l.aborted = loop[current].aborted
      /\ l.learned = loop[current].learned /\ l.revision = loop[current].revision
  BY <1>1 DEF Loops, LoopLabels
<1>3. h.pc = "asked" /\ h.after = loop[current].revision
  BY DEF Asked, NoHandler
<1>4. Running(l)
  BY <1>1, <1>2 DEF Running
<1>5. loop' = [loop EXCEPT ![current] = l] /\ handler' = [handler EXCEPT ![current] = h]
      /\ UNCHANGED <<store, backend>>
  BY DEF Request, Goto
<1>6. QED
  BY <1>2, <1>3, <1>4, <1>5, LoopStep DEF ClientInv, Knows, StoreInv, StoreTypes

\* The steps by which the current loop takes an answer, or the loss of one.
LEMMA AdvanceStep ==
    ASSUME ClientAssumption, StoreInv, ClientInv, NEW c \in Clients,
           Advance(c) \/ RequestFails(c) \/ ConfigRequired(c), ~loop[c].aborted
    PROVE  ClientInv'
<1>1. c = current
  BY OnlyCurrentAwaits DEF Advance, Abort, StatusRead, CatalogOnly, CatalogRead, WorkspaceRead,
     WorkspacePending, UpdateRead, UpdateLost, RequestFails, ConfigRequired
<1>2. /\ revision \in Nat /\ backend \in Nat /\ handler \in [Clients -> Handlers]
      /\ current \in Clients /\ handler[current].revision \in Nat
      /\ loop[current] \in Loops /\ loop[current].sel = selection
      /\ loop[current].sel \in Keys \cup {NoKey}
      /\ workspace \in [key : Keys \cup {NoKey}, order : Nat, backend : Nat]
      /\ workspace.key \in {selection, NoKey}
      /\ Running(loop[current])
  BY DEF StoreInv, StoreTypes, ClientInv, LoopTypes, OneLoop, DisplayedIsSelected, Handlers, Loops
<1>3. NoWorkspace \in [key : Keys \cup {NoKey}, order : Nat, backend : Nat]
      /\ NoWorkspace.key = NoKey
  BY DEF NoWorkspace
<1>4. UNCHANGED handler => handler' = [handler EXCEPT ![current] = handler[current]]
  BY <1>2
<1>5. CASE StatusRead(c)
  <2>1. /\ UNCHANGED <<store, backend, current, selection, workspace, expired>>
        /\ handler' = [handler EXCEPT ![current] = handler[current]]
        /\ loop' = [loop EXCEPT ![current] = [Learned(@, revision) EXCEPT !.pc = "catalog"]]
    BY <1>1, <1>4, <1>5 DEF StatusRead, serverVars
  <2>2. revision <= revision
    BY <1>2
  <2>3. QED
    BY <1>2, <2>1, <2>2, Learning
<1>6. CASE CatalogOnly(c)
  <2>1. CASE Listed = {}
    BY <1>1, <1>3, <1>4, <1>6, <2>1, GoingOn DEF CatalogOnly, serverVars
  <2>2. CASE Listed # {}
    BY <1>1, <1>3, <1>6, <2>2, Requesting DEF CatalogOnly
  <2>3. QED
    BY <2>1, <2>2
<1>7. CASE CatalogRead(c)
  <2>1. ASSUME NEW pc \in {"status", "workspace"}, Goto(c, pc)
        PROVE  ClientInv'
    BY <1>1, <1>2, <1>4, <1>7, <2>1, GoingOn DEF CatalogRead, serverVars
  <2>2. QED
    BY <1>7, <2>1 DEF CatalogRead
<1>8. CASE WorkspaceRead(c)
  <2>1. loop[current].sel \in Keys
    BY <1>1, <1>2, <1>8 DEF WorkspaceRead, Awaiting, Running
  <2>2. latest[loop[current].sel].order \in Nat
    BY <2>1 DEF StoreInv, StoreTypes, Publications
  <2>3. workspace' = Shown(loop[current].sel)
    BY <1>1, <1>8 DEF WorkspaceRead, Shown
  <2>4. /\ workspace' \in [key : Keys \cup {NoKey}, order : Nat, backend : Nat]
        /\ workspace'.key = loop[current].sel
    BY <1>2, <2>1, <2>2, <2>3 DEF Shown
  <2>5. QED
    BY <1>1, <1>2, <1>8, <2>3, <2>4, Requesting DEF WorkspaceRead
<1>9. CASE WorkspacePending(c)
  BY <1>1, <1>2, <1>4, <1>9, GoingOn DEF WorkspacePending, serverVars
<1>10. CASE UpdateRead(c)
  <2>1. handler[current].revision <= revision
    BY <1>1, <1>10 DEF UpdateRead, ClientInv, Knows
  <2>2. QED
    BY <1>1, <1>2, <1>10, <2>1, Learning DEF UpdateRead
<1>11. CASE UpdateLost(c)
  BY <1>1, <1>2, <1>11, GoingOn DEF UpdateLost
<1>12. CASE RequestFails(c)
  BY <1>1, <1>2, <1>12, GoingOn DEF RequestFails
<1>13. CASE ConfigRequired(c)
  <2>1. /\ UNCHANGED <<store, backend, current, selection, workspace, expired>>
        /\ handler' = [handler EXCEPT ![current] = handler[current]]
        /\ loop' = [loop EXCEPT ![current] = [Learned(@, revision) EXCEPT !.pc = "status"]]
    BY <1>1, <1>4, <1>13 DEF ConfigRequired
  <2>2. revision <= revision
    BY <1>2
  <2>3. QED
    BY <1>2, <2>1, <2>2, Learning
<1>14. QED
  BY <1>5, <1>6, <1>7, <1>8, <1>9, <1>10, <1>11, <1>12, <1>13 DEF Advance, Abort

\* A change of the selection, or a refresh: the loop before is aborted, its request gone.
LEMMA SelectStep ==
    ASSUME ClientAssumption, StoreInv, ClientInv, NEW sel \in Keys \cup {NoKey}, Select(sel)
    PROVE  StoreInv' /\ ClientInv'
<1> USE DEF Select
<1>1. /\ current \in Clients /\ current + 1 \in Clients /\ current # current + 1
      /\ backend \in Nat /\ revision \in Nat /\ handler \in [Clients -> Handlers]
  BY DEF ClientAssumption, ClientInv, LoopTypes, StoreInv, StoreTypes
<1>2. StoreInv'
  BY <1>1, ClientRequestStep DEF StoreInv, StoreTypes
<1> DEFINE old == [Idle(loop[current].pc) EXCEPT !.sel = loop[current].sel, !.aborted = TRUE]
           new == NewLoop(sel)
<1>3. \A c \in Clients : loop'[c] = IF c = current + 1 THEN new
                                    ELSE IF c = current THEN old ELSE loop[c]
  BY <1>1 DEF ClientInv, LoopTypes
<1>4. old \in Loops /\ old.aborted
  <2>1. loop[current] \in Loops
    BY DEF ClientInv, LoopTypes
  <2>2. loop[current].pc \in LoopLabels /\ loop[current].sel \in Keys \cup {NoKey}
    BY <2>1 DEF Loops
  <2>3. QED
    BY <2>2 DEF Idle, NewLoop, Loops
<1>5. /\ new \in Loops /\ new.sel = sel /\ ~new.aborted /\ new.pc = "status"
      /\ new.revision = 0 /\ new.learned = backend
  BY <1>1 DEF NewLoop, Loops, LoopLabels
<1>6. \A c \in Clients \ {current'} : handler'[c] = NoHandler
  <2>1. \A c \in Clients \ {current} : handler[c] = NoHandler
    BY DEF ClientInv, OneLoop
  <2>2. QED
    BY <1>1, <2>1
<1>7. handler'[current'].pc = "none"
  <2>1. handler[current + 1] = NoHandler
    BY <1>1 DEF ClientInv, OneLoop
  <2>2. handler'[current'] = NoHandler
    BY <1>1, <2>1
  <2>3. QED
    BY <2>2 DEF NoHandler
<1>8. LoopTypes'
  <2>1. loop' \in [Clients -> Loops]
    BY <1>3, <1>4, <1>5 DEF ClientInv, LoopTypes
  <2>2. workspace' \in [key : Keys \cup {NoKey}, order : Nat, backend : Nat]
    BY DEF ClientInv, LoopTypes, NoWorkspace
  <2>3. QED
    BY <1>1, <2>1, <2>2 DEF ClientInv, LoopTypes
<1>9. OneLoop'
  <2>1. \A c \in Clients \ {current'} :
            loop'[c].pc \in {"unborn", "ended"} \/ loop'[c].aborted
    BY <1>1, <1>3, <1>4 DEF ClientInv, OneLoop
  <2>2. loop'[current'].sel = selection'
    BY <1>1, <1>3, <1>5
  <2>3. QED
    BY <1>6, <2>1, <2>2 DEF OneLoop
<1>10. DisplayedIsSelected'
  BY DEF DisplayedIsSelected, NoWorkspace
<1>11. loop'[current'] = new
  BY <1>1, <1>3
<1>12. Running(loop[current])'
  BY <1>5, <1>11 DEF Running
<1>13. Knows(loop[current], handler[current])'
  BY <1>1, <1>5, <1>7, <1>11 DEF Knows, store
<1>14. QED
  BY <1>2, <1>8, <1>9, <1>10, <1>12, <1>13 DEF ClientInv

\* An aborted loop ends, and nothing else changes.
LEMMA AbortStep ==
    ASSUME StoreInv, ClientInv, NEW c \in Clients, Abort(c)
    PROVE  ClientInv'
<1> USE DEF Abort, serverVars, store, ClientInv
<1>1. c # current
  BY DEF Running
<1>2. Idle("ended") \in Loops /\ Idle("ended").pc = "ended"
  BY DEF Idle, NewLoop, Loops, LoopLabels, StoreInv, StoreTypes
<1>3. \A d \in Clients : loop'[d] = IF d = c THEN Idle("ended") ELSE loop[d]
  BY DEF LoopTypes
<1>4. LoopTypes'
  BY <1>2, <1>3 DEF LoopTypes
<1>5. OneLoop'
  BY <1>1, <1>2, <1>3 DEF OneLoop, LoopTypes
<1>6. loop'[current'] = loop[current]
  BY <1>1, <1>3 DEF LoopTypes
<1>7. Running(loop[current])' /\ Knows(loop[current], handler[current])'
  BY <1>6 DEF Running, Knows, Shown
<1>8. QED
  BY <1>4, <1>5, <1>7 DEF DisplayedIsSelected

\* A loop's step does no more to the read model than open or close its request.
LEMMA LoopStoreStep ==
    ASSUME StoreInv, ClientInv, NEW c \in Clients,
           Advance(c) \/ RequestFails(c) \/ ConfigRequired(c)
    PROVE  StoreInv' /\ UNCHANGED store
<1>1. mishaps \in Nat /\ loop[c].revision \in Nat
  BY DEF StoreInv, StoreTypes, ClientInv, LoopTypes, Loops
<1>2. mishaps' \in Nat /\ UNCHANGED <<store, backend>>
  BY <1>1 DEF Advance, Abort, StatusRead, CatalogOnly, CatalogRead, WorkspaceRead,
     WorkspacePending, UpdateRead, UpdateLost, RequestFails, ConfigRequired, Request, serverVars
<1>3. \/ UNCHANGED handler
      \/ handler' = [handler EXCEPT ![c] = NoHandler]
      \/ handler' = [handler EXCEPT ![c] = Asked(loop[c].revision)]
  BY DEF Advance, Abort, StatusRead, CatalogOnly, CatalogRead, WorkspaceRead,
     WorkspacePending, UpdateRead, UpdateLost, RequestFails, ConfigRequired, Request, serverVars
<1>4. QED
  BY <1>1, <1>2, <1>3, StoreStutter, ClientRequestStep

SystemInv == StoreInv /\ CacheBounded /\ ClientInv

LEMMA SystemStep ==
    ASSUME ReadModelAssumption, ClientAssumption, SystemInv, [Next]_vars
    PROVE  SystemInv'
<1> USE DEF SystemInv
<1>1. CASE ServerNext /\ UNCHANGED client
  BY <1>1, ServerStep, CacheStep, ServerClientStep DEF StoreInv
<1>2. ASSUME NEW sel \in Keys \cup {NoKey}, Select(sel)
      PROVE  SystemInv'
  <2>1. UNCHANGED store
    BY <1>2 DEF Select
  <2>2. QED
    BY <1>2, <2>1, SelectStep, CacheStep DEF StoreInv
<1>3. ASSUME NEW k \in Keys, Expire(k)
      PROVE  SystemInv'
  <2>1. UNCHANGED <<store, backend, handler>> /\ mishaps' \in Nat
    BY <1>3 DEF Expire, StoreInv, StoreTypes
  <2>2. StoreInv' /\ CacheBounded'
    BY <2>1, StoreStutter, CacheStep DEF StoreInv
  <2>3. ClientInv'
    BY <1>3, <2>1 DEF Expire, store, ClientInv, LoopTypes, OneLoop, DisplayedIsSelected, Running,
       Knows, Shown
  <2>4. QED
    BY <2>2, <2>3
<1>4. ASSUME NEW c \in Clients, Advance(c) \/ RequestFails(c) \/ ConfigRequired(c)
      PROVE  SystemInv'
  <2>1. StoreInv' /\ CacheBounded'
    BY <1>4, LoopStoreStep, CacheStep DEF StoreInv
  <2>2. CASE loop[c].aborted
    <3>1. Abort(c)
      BY <1>4, <2>2 DEF Advance, Awaiting, StatusRead, CatalogOnly, CatalogRead, WorkspaceRead,
         WorkspacePending, UpdateRead, UpdateLost, RequestFails, ConfigRequired
    <3>2. QED
      BY <2>1, <3>1, AbortStep
  <2>3. CASE ~loop[c].aborted
    BY <1>4, <2>1, <2>3, AdvanceStep
  <2>4. QED
    BY <2>2, <2>3
<1>5. CASE UNCHANGED vars
  <2>1. UNCHANGED <<store, backend, handler>> /\ mishaps' \in Nat
    BY <1>5 DEF vars, serverVars, StoreInv, StoreTypes
  <2>2. StoreInv' /\ CacheBounded'
    BY <2>1, StoreStutter, CacheStep DEF StoreInv
  <2>3. ClientInv'
    BY <1>5, <2>1 DEF vars, store, ClientInv, LoopTypes, OneLoop, DisplayedIsSelected, Running,
       Knows, Shown
  <2>4. QED
    BY <2>2, <2>3
<1>6. QED
  BY <1>1, <1>2, <1>3, <1>4, <1>5 DEF Next

LEMMA SystemInvariance == Spec => []SystemInv
<1>1. Init => SystemInv
  BY ReadModelAssumption, ClientAssumption, StoreInitInv, CacheEmpty, ClientInitInv
     DEF Init, ServerInit, SystemInv
<1>2. SystemInv /\ [Next]_vars => SystemInv'
  BY ReadModelAssumption, ClientAssumption, SystemStep
<1>3. QED
  BY <1>1, <1>2, PTL DEF Spec

\* The hook's state and the store's are well typed, and never more than one loop of
\* useLiveMarketData takes answers, however the selection changes.
THEOREM ClientTypeCorrectness == Spec => []TypeOK
<1>1. SystemInv => TypeOK
  BY DEF SystemInv, StoreInv, StoreTypes, CacheBounded, ClientInv, LoopTypes, StoreTypeOK, TypeOK
<1>2. QED
  BY <1>1, SystemInvariance, PTL

\* A loop of useLiveMarketData that blocks in its long poll, on a revision this backend
\* told it, has missed no publication of its selection.
THEOREM NothingMissedTheorem == Spec => []NothingMissed
<1>1. SystemInv => NothingMissed
  <2> SUFFICES ASSUME SystemInv, NEW c \in Clients, Blocked(c), loop[c].learned = backend
               PROVE  workspace = Shown(loop[c].sel)
    BY DEF NothingMissed
  <2>1. c = current
    BY OnlyCurrentAwaits DEF SystemInv, Blocked
  <2>2. handler[c].pc = "waiting" /\ ~Awaited(c)
    BY DEF SystemInv, StoreInv, NoWaiterSleepsOn, Blocked
  <2>3. handler[c].after = loop[c].revision /\ revision \in Nat /\ loop[c].revision \in Nat
    BY <2>1, <2>2 DEF SystemInv, StoreInv, StoreTypes, ClientInv, LoopTypes, Loops, Knows, Blocked,
       Awaiting
  <2>4. revision <= loop[c].revision
    BY <2>2, <2>3 DEF Awaited
  <2>5. QED
    BY <2>1, <2>4 DEF SystemInv, ClientInv, Knows, Blocked, Awaiting
<1>2. QED
  BY <1>1, SystemInvariance, PTL

\* The hook never returns a workspace of anything but what is selected, whatever answers
\* come late to aborted loops.
THEOREM DisplayedIsSelectedTheorem == Spec => []DisplayedIsSelected
<1>1. SystemInv => DisplayedIsSelected
  BY DEF SystemInv, ClientInv
<1>2. QED
  BY <1>1, SystemInvariance, PTL
=============================================================================
