-------------------------- MODULE MarketReadModel --------------------------
(***************************************************************************)
(* The market read model (tq/api/market_read_model.py) and the long poll    *)
(* that waits on it (the /market/updates handler of tq/api/wsgi.py): the    *)
(* latest publication of each selection, the bounded tick cache, the        *)
(* revision they advance, and one request thread per polling client.        *)
(*                                                                          *)
(* A publication is its rank in the order of (source timestamp, sequence,   *)
(* received at) and the security ids of its contract; a tick is the time of *)
(* its last price packet.  A request of a client that is gone changes       *)
(* nothing and is dropped.                                                  *)
(***************************************************************************)
EXTENDS Integers, FiniteSets

CONSTANTS
    Keys,                \* selections: market, symbol and expiry
    Securities,          \* security ids
    Contracts,           \* the sets of security ids a contract can have
    Clients,             \* the clients that can have a long poll open
    MaxTickInstruments,  \* maximum_tick_instruments
    MaxOrder, MaxTime, MaxRevision, MaxMishaps  \* bounds of the model

ASSUME ReadModelAssumption ==
    /\ IsFiniteSet(Securities)
    /\ Contracts \subseteq SUBSET Securities
    /\ MaxTickInstruments \in Nat \ {0}
    /\ MaxOrder \in Nat /\ MaxTime \in Nat /\ MaxRevision \in Nat /\ MaxMishaps \in Nat

VARIABLES
    latest,    \* _latest: the publication of each selection, of order 0 if there is none
    observed,  \* _ticks: the time of the price each security's tick shows, 0 without a tick
    revision,  \* _revision
    event,     \* the revision of _latest_event, 0 without one
    closed,    \* _closed
    backend,   \* how many times the backend has been restarted
    mishaps,   \* closings and restarts, and what MarketClient counts with them
    handler    \* the request thread that serves each client's long poll

store == <<latest, observed, revision, event, closed>>
serverVars == <<store, backend, mishaps, handler>>

Publications == [order : 0 .. MaxOrder, ids : SUBSET Securities]
NoPublication == [order |-> 0, ids |-> {}]
IsPublished(k) == latest[k].order > 0

-----------------------------------------------------------------------------
(* Request threads: where one is, what it was asked, and what it will answer *)

HandlerLabels == {"none", "asked", "wait", "waiting", "returned", "replied", "dead"}
NoHandler == [pc |-> "none", after |-> 0, notified |-> FALSE,
              event |-> 0, revision |-> 0, reset |-> FALSE]
Handlers == [pc : HandlerLabels, after : Nat, notified : BOOLEAN,
             event : Nat, revision : Nat, reset : BOOLEAN]

Asked(after) == [NoHandler EXCEPT !.pc = "asked", !.after = after]

\* notify_all: every thread in the condition's wait is to look again.
NotifyAll == handler' = [c \in Clients |->
    IF handler[c].pc = "waiting" THEN [handler[c] EXCEPT !.notified = TRUE]
                                 ELSE handler[c]]

ServerInit ==
    /\ latest = [k \in Keys |-> NoPublication]
    /\ observed = [s \in Securities |-> 0]
    /\ revision = 0 /\ event = 0 /\ closed = FALSE
    /\ backend = 0 /\ mishaps = 0
    /\ handler = [c \in Clients |-> NoHandler]

-----------------------------------------------------------------------------
(* Writers *)

\* publish: a newer publication of the selection replaces the older one; a delayed or
\* repeated one is refused and changes nothing.
Publish(k, p) ==
    /\ ~closed /\ revision < MaxRevision
    /\ p.order > latest[k].order
    /\ latest' = [latest EXCEPT ![k] = p]
    /\ revision' = revision + 1
    /\ event' = revision'
    /\ NotifyAll
    /\ UNCHANGED <<observed, closed, backend, mishaps>>

KnownSecurities == UNION {latest[k].ids : k \in Keys}
HasTick(s) == observed[s] > 0
Cached == {s \in Securities : HasTick(s)}

\* Bug: the cache grows without limit.
TickAcceptedUnbounded(s, price, at) == IF price THEN at > observed[s] ELSE HasTick(s)

\* A price packet must be newer than the price shown, and finds room or its tick;
\* any other packet only enriches a tick and leaves its time alone.
TickAccepted(s, price, at) ==
    IF price THEN /\ at > observed[s]
                  /\ HasTick(s) \/ Cardinality(Cached) < MaxTickInstruments
             ELSE HasTick(s)

\* Bug: the waiters are not notified.
TickUnannounced(s, price, at) ==
    /\ ~closed /\ revision < MaxRevision
    /\ s \in KnownSecurities
    /\ TickAccepted(s, price, at)
    /\ observed' = [observed EXCEPT ![s] = IF price THEN at ELSE @]
    /\ revision' = revision + 1
    /\ event' = revision'
    /\ UNCHANGED <<latest, closed, backend, mishaps, handler>>

\* publish_feed_tick, the live feed's packet callback.  at is the packet's receipt by
\* a clock that can be set back.
PublishFeedTick(s, price, at) ==
    /\ ~closed /\ revision < MaxRevision
    /\ s \in KnownSecurities
    /\ TickAccepted(s, price, at)
    /\ observed' = [observed EXCEPT ![s] = IF price THEN at ELSE @]
    /\ revision' = revision + 1
    /\ event' = revision'
    /\ NotifyAll
    /\ UNCHANGED <<latest, closed, backend, mishaps>>

\* close.  The runtime calls it when the server has drained, an embedder at any time.
Close ==
    /\ ~closed /\ mishaps < MaxMishaps
    /\ mishaps' = mishaps + 1
    /\ closed' = TRUE
    /\ NotifyAll
    /\ UNCHANGED <<latest, observed, revision, event, backend>>

\* The process ends and another takes its place with an empty read model; every request
\* it was serving is dead.
Restart ==
    /\ mishaps < MaxMishaps
    /\ mishaps' = mishaps + 1
    /\ backend' = backend + 1
    /\ latest' = [k \in Keys |-> NoPublication]
    /\ observed' = [s \in Securities |-> 0]
    /\ revision' = 0 /\ event' = 0 /\ closed' = FALSE
    /\ handler' = [c \in Clients |->
           IF handler[c].pc = "none" THEN NoHandler ELSE [NoHandler EXCEPT !.pc = "dead"]]

-----------------------------------------------------------------------------
(* The long poll of one client *)

SetHandler(c, h) == handler' = [handler EXCEPT ![c] = h] /\ UNCHANGED <<store, backend, mishaps>>

\* The predicate of wait_for.
Awaited(c) == closed \/ revision > handler[c].after

\* What wait_for_revision returns, whatever ended the wait: the newest event or none.
Returned(c) == [handler[c] EXCEPT !.pc = "returned", !.notified = FALSE,
                    !.event = IF closed \/ revision <= handler[c].after THEN 0 ELSE event]

\* A client that is ahead of this process is answered at once, to start anew.
CheckReset(c) ==
    /\ handler[c].pc = "asked"
    /\ SetHandler(c, IF handler[c].after > revision
                     THEN [handler[c] EXCEPT !.pc = "replied", !.reset = TRUE,
                                             !.revision = revision]
                     ELSE [handler[c] EXCEPT !.pc = "wait"])

EnterWait(c) ==
    /\ handler[c].pc = "wait"
    /\ SetHandler(c, IF Awaited(c) THEN Returned(c)
                     ELSE [handler[c] EXCEPT !.pc = "waiting"])

\* A notified thread looks again, and goes on waiting if nothing has come.
Wake(c) ==
    /\ handler[c].pc = "waiting" /\ handler[c].notified
    /\ SetHandler(c, IF Awaited(c) THEN Returned(c)
                     ELSE [handler[c] EXCEPT !.notified = FALSE])

TimeOut(c) ==
    /\ handler[c].pc = "waiting"
    /\ SetHandler(c, Returned(c))

\* Bug: the revision of the answer is the one the request came with.
ReplyOldRevision(c) ==
    /\ handler[c].pc = "returned"
    /\ SetHandler(c, [handler[c] EXCEPT !.pc = "replied", !.revision = handler[c].after])

\* The revision is read once more, after the wait.
Reply(c) ==
    /\ handler[c].pc = "returned"
    /\ SetHandler(c, [handler[c] EXCEPT !.pc = "replied", !.revision = revision])

Serve(c) == CheckReset(c) \/ EnterWait(c) \/ Wake(c) \/ TimeOut(c) \/ Reply(c)

\* What the backend does by itself, whoever its clients are.
ServerNext ==
    \/ \E k \in Keys, n \in 1 .. MaxOrder, ids \in Contracts :
           Publish(k, [order |-> n, ids |-> ids])
    \/ \E s \in Securities, price \in BOOLEAN, at \in 1 .. MaxTime :
           PublishFeedTick(s, price, at)
    \/ Close
    \/ Restart
    \/ \E c \in Clients : Serve(c)

\* Any client can ask after any revision, and be done with the answer.
Ask(c, after) == handler[c].pc = "none" /\ SetHandler(c, Asked(after))
Finish(c) == handler[c].pc \in {"replied", "dead"} /\ SetHandler(c, NoHandler)

StoreNext ==
    \/ ServerNext
    \/ \E c \in Clients, after \in 0 .. MaxRevision : Ask(c, after)
    \/ \E c \in Clients : Finish(c)

StoreSpec == ServerInit /\ [][StoreNext]_serverVars

-----------------------------------------------------------------------------
(* Properties *)

\* Every variable keeps its type; the tick cache stays within its limit
\* (MarketReadModelStore).
StoreTypeOK ==
    /\ latest \in [Keys -> Publications]
    /\ observed \in [Securities -> 0 .. MaxTime]
    /\ Cardinality(Cached) <= MaxTickInstruments
    /\ revision \in Nat /\ event \in Nat /\ closed \in BOOLEAN
    /\ backend \in Nat /\ mishaps \in Nat
    /\ handler \in [Clients -> Handlers]

\* A thread that waits in wait_for_revision while there is something to return, or the
\* store is closed, has been notified (publish, publish_feed_tick and close).
NoWaiterSleepsOn ==
    \A c \in Clients : handler[c].pc = "waiting" /\ Awaited(c) => handler[c].notified

\* Every answer of /market/updates is one parseMarketUpdates takes and a browser can go
\* on from: its event is newer than what was asked for and no newer than its revision,
\* and only a reset takes the client back.
AnswersAreConsistent ==
    \A c \in Clients : handler[c].pc = "replied" =>
        LET answer == handler[c] IN
        /\ answer.event <= answer.revision
        /\ answer.event # 0 => answer.event > answer.after
        /\ ~answer.reset => answer.revision >= answer.after

\* While a backend lives, publications and price times only advance, and whatever
\* changes moves the revision (publish and publish_feed_tick).
UpdatesAdvance ==
    [][backend' = backend =>
          /\ \A k \in Keys : latest'[k] # latest[k] => latest'[k].order > latest[k].order
          /\ \A s \in Securities : observed'[s] >= observed[s]
          /\ revision' >= revision
          /\ latest' # latest \/ observed' # observed => revision' > revision]_serverVars
=============================================================================
