------------------------- MODULE MarketDataService -------------------------
(***************************************************************************)
(* The market data service (tq/market_data_runtime.py) and the closing of  *)
(* the runtime that owns it (tq/runtime.py).  Two threads share the handle *)
(* of the live feed: the acquisition worker, whose subscription callback   *)
(* creates, rotates and detaches feeds, and the thread that closes the     *)
(* runtime.  A feed is a supervisor object with a thread of its own.       *)
(***************************************************************************)
EXTENDS Naturals, FiniteSets

CONSTANTS
    Feeds,         \* identities a live feed supervisor can have
    NoFeed,        \* the handle None
    Subs,          \* the non-empty subscription sets the worker can resolve
    NoSubs,        \* the empty subscription set
    MaxTimeouts,   \* bound: joins that run out of time
    MaxFailures    \* bound: provider cycles and feed starts that fail

ASSUME ServiceAssumption ==
    /\ NoFeed \notin Feeds
    /\ NoSubs \notin Subs
    /\ MaxTimeouts \in Nat /\ MaxFailures \in Nat

VARIABLES
    started, stopping, closed,  \* the service's flags
    liveFeed,                   \* the handle the service holds
    feed,                       \* the thread of each feed
    desired,                    \* the instruments each feed subscribes
    worker,                     \* where the acquisition worker is
    wanted, contracts,          \* the generation the worker published last
    detached,                   \* the worker's local: the feed it detached
    stopRequested,              \* acquisition's stop event
    closer,                     \* where the closing thread is
    captured, workerStopped, feedStopped,  \* its locals
    dependencies,               \* the read model, the ledger and the databases
    timeouts, failures

service  == <<started, stopping, closed, liveFeed>>
feeds    == <<feed, desired>>
working  == <<worker, wanted, contracts, detached>>
locals   == <<captured, workerStopped, feedStopped>>
budgets  == <<timeouts, failures>>
vars == <<started, stopping, closed, liveFeed, feed, desired, worker, wanted,
          contracts, detached, stopRequested, closer, captured, workerStopped,
          feedStopped, dependencies, timeouts, failures>>

FeedStates   == {"none", "running", "told"}
WorkerStates == {"none", "idle", "cycle", "notify", "detached", "joining"}
CloserStates == {"idle", "tellWorker", "joinWorker", "tellFeed", "joinFeed",
                 "finish", "dependencies"}

Alive(f)    == feed[f] # "none"
Serving(s)  == /\ liveFeed # NoFeed
               /\ feed[liveFeed] = "running"
               /\ desired[liveFeed] = s

\* A supervisor nobody holds and whose thread is not alive: the identity a newly
\* constructed one takes.
Unused(f) == ~Alive(f) /\ f \notin {liveFeed, detached, captured}

Init ==
    /\ started = FALSE /\ stopping = FALSE /\ closed = FALSE
    /\ liveFeed = NoFeed
    /\ feed = [f \in Feeds |-> "none"]
    /\ desired = [f \in Feeds |-> NoSubs]
    /\ worker = "none" /\ wanted = NoSubs /\ contracts = FALSE
    /\ detached = NoFeed
    /\ stopRequested = FALSE
    /\ closer = "idle" /\ captured = NoFeed
    /\ workerStopped = FALSE /\ feedStopped = FALSE
    /\ dependencies = "open"
    /\ timeouts = 0 /\ failures = 0

-----------------------------------------------------------------------------
(* start: under the lifecycle lock, hence never while a stop is in flight. *)

Start ==
    /\ closer = "idle"
    /\ ~closed /\ ~started
    /\ started' = TRUE /\ stopping' = FALSE
    /\ worker' = "idle" /\ stopRequested' = FALSE
    /\ UNCHANGED <<closed, liveFeed, feeds, wanted, contracts, detached, closer,
                   locals, dependencies, budgets>>

-----------------------------------------------------------------------------
(* The acquisition worker. *)

WorkerEnds ==
    /\ worker = "idle" /\ stopRequested
    /\ worker' = "none"
    /\ UNCHANGED <<service, feeds, wanted, contracts, detached, stopRequested,
                   closer, locals, dependencies, budgets>>

BeginCycle ==
    /\ worker = "idle" /\ ~stopRequested
    /\ worker' = "cycle"
    /\ UNCHANGED <<service, feeds, wanted, contracts, detached, stopRequested,
                   closer, locals, dependencies, budgets>>

\* No catalogue yet: the cycle returns before it publishes a generation.
CycleFails ==
    /\ worker = "cycle" /\ failures < MaxFailures
    /\ worker' = "idle" /\ failures' = failures + 1
    /\ UNCHANGED <<service, feeds, wanted, contracts, detached, stopRequested,
                   closer, locals, dependencies, timeouts>>

\* The generation of the focused symbol is s, and other symbols may be active
\* besides it.  The callbacks run if there is a generation now or there was one.
Resolve(s, active) ==
    /\ worker = "cycle"
    /\ s \in Subs => active
    /\ worker' = IF s \in Subs \/ wanted # NoSubs \/ contracts
                 THEN "notify" ELSE "idle"
    /\ wanted' = s /\ contracts' = active
    /\ UNCHANGED <<service, feeds, detached, stopRequested, closer, locals,
                   dependencies, budgets>>

\* Bug: only a completed stop suppresses the callbacks.
SuppressedOnlyClosed == closed

\* The subscription callback, in its cases, each under the state lock.
Suppressed == stopping \/ closed

NotifySuppressed ==
    /\ worker = "notify" /\ Suppressed
    /\ worker' = "idle"
    /\ UNCHANGED <<service, feeds, wanted, contracts, detached, stopRequested,
                   closer, locals, dependencies, budgets>>

Detach ==
    /\ worker = "notify" /\ ~Suppressed /\ wanted = NoSubs
    /\ worker' = IF liveFeed = NoFeed THEN "idle" ELSE "detached"
    /\ detached' = liveFeed
    /\ liveFeed' = NoFeed
    /\ UNCHANGED <<started, stopping, closed, feeds, wanted, contracts,
                   stopRequested, closer, locals, dependencies, budgets>>

Rotate ==
    /\ worker = "notify" /\ ~Suppressed /\ wanted # NoSubs /\ liveFeed # NoFeed
    /\ desired' = [desired EXCEPT ![liveFeed] = wanted]
    /\ worker' = "idle"
    /\ UNCHANGED <<service, feed, wanted, contracts, detached, stopRequested,
                   closer, locals, dependencies, budgets>>

CreateFeed(f) ==
    /\ worker = "notify" /\ ~Suppressed /\ wanted # NoSubs /\ liveFeed = NoFeed
    /\ Unused(f)
    /\ feed' = [feed EXCEPT ![f] = "running"]
    /\ desired' = [desired EXCEPT ![f] = wanted]
    /\ liveFeed' = f
    /\ worker' = "idle"
    /\ UNCHANGED <<started, stopping, closed, wanted, contracts, detached,
                   stopRequested, closer, locals, dependencies, budgets>>

\* Bug: the slot is not given back when start raises.
CreateFailsKeepsSlot ==
    /\ worker = "notify" /\ ~Suppressed /\ wanted # NoSubs /\ liveFeed = NoFeed
    /\ failures < MaxFailures
    /\ \E f \in Feeds : Unused(f) /\ liveFeed' = f
    /\ worker' = "idle" /\ failures' = failures + 1
    /\ UNCHANGED <<started, stopping, closed, feeds, wanted, contracts, detached,
                   stopRequested, closer, locals, dependencies, timeouts>>

\* feed.start() raises: the slot is given back before the lock is released.
CreateFails ==
    /\ worker = "notify" /\ ~Suppressed /\ wanted # NoSubs /\ liveFeed = NoFeed
    /\ failures < MaxFailures
    /\ worker' = "idle" /\ failures' = failures + 1
    /\ UNCHANGED <<service, feeds, wanted, contracts, detached, stopRequested,
                   closer, locals, dependencies, timeouts>>

Tell(f) == feed' = [feed EXCEPT ![f] = IF @ = "running" THEN "told" ELSE @]

TellDetached ==
    /\ worker = "detached"
    /\ Tell(detached)
    /\ worker' = "joining"
    /\ UNCHANGED <<service, desired, wanted, contracts, detached, stopRequested,
                   closer, locals, dependencies, budgets>>

DetachedJoined ==
    /\ worker = "joining" /\ ~Alive(detached)
    /\ worker' = "idle" /\ detached' = NoFeed
    /\ UNCHANGED <<service, feeds, wanted, contracts, stopRequested, closer,
                   locals, dependencies, budgets>>

\* Bug: the handle of a feed that did not stop in time is dropped.
NeverReattached == liveFeed

\* The join ran out: the handle goes back into the slot, unless the slot was taken
\* or the service is being stopped.
Reattached == IF liveFeed = NoFeed /\ ~Suppressed THEN detached ELSE liveFeed

DetachedTimedOut ==
    /\ worker = "joining" /\ Alive(detached) /\ timeouts < MaxTimeouts
    /\ liveFeed' = Reattached
    /\ worker' = "idle" /\ detached' = NoFeed
    /\ timeouts' = timeouts + 1
    /\ UNCHANGED <<started, stopping, closed, feeds, wanted, contracts,
                   stopRequested, closer, locals, dependencies, failures>>

Work ==
    \/ WorkerEnds \/ BeginCycle \/ CycleFails
    \/ \E s \in Subs \cup {NoSubs}, active \in BOOLEAN : Resolve(s, active)
    \/ NotifySuppressed \/ Detach \/ Rotate
    \/ \E f \in Feeds : CreateFeed(f)
    \/ CreateFails \/ TellDetached \/ DetachedJoined \/ DetachedTimedOut

\* A feed's thread ends once it has been told to stop.
FeedEnds(f) ==
    /\ feed[f] = "told"
    /\ feed' = [feed EXCEPT ![f] = "none"]
    /\ UNCHANGED <<service, desired, working, stopRequested, closer, locals,
                   dependencies, budgets>>

-----------------------------------------------------------------------------
(* Closing the runtime: first the producer's stop, then the dependencies. *)

BeginStop ==
    /\ closer = "idle" /\ ~closed
    /\ stopping' = TRUE /\ captured' = liveFeed
    /\ workerStopped' = FALSE /\ feedStopped' = (liveFeed = NoFeed)
    /\ closer' = "tellWorker"
    /\ UNCHANGED <<started, closed, liveFeed, feeds, working, stopRequested,
                   dependencies, budgets>>

\* Bug: stop wakes the worker but does not set its stop event.
TellWorkerWakesOnly ==
    /\ closer = "tellWorker"
    /\ closer' = "joinWorker"
    /\ UNCHANGED <<service, feeds, working, stopRequested, locals, dependencies,
                   budgets>>

TellWorker ==
    /\ closer = "tellWorker"
    /\ stopRequested' = TRUE
    /\ closer' = "joinWorker"
    /\ UNCHANGED <<service, feeds, working, locals, dependencies, budgets>>

WorkerJoined ==
    /\ closer = "joinWorker" /\ worker = "none"
    /\ workerStopped' = TRUE
    /\ closer' = "tellFeed"
    /\ UNCHANGED <<service, feeds, working, stopRequested, captured, feedStopped,
                   dependencies, budgets>>

WorkerTimedOut ==
    /\ closer = "joinWorker" /\ worker # "none" /\ timeouts < MaxTimeouts
    /\ closer' = "tellFeed"
    /\ timeouts' = timeouts + 1
    /\ UNCHANGED <<service, feeds, working, stopRequested, locals, dependencies,
                   failures>>

TellFeed ==
    /\ closer = "tellFeed"
    /\ IF captured = NoFeed
       THEN closer' = "finish" /\ UNCHANGED feed
       ELSE closer' = "joinFeed" /\ Tell(captured)
    /\ UNCHANGED <<service, desired, working, stopRequested, locals,
                   dependencies, budgets>>

FeedJoined ==
    /\ closer = "joinFeed" /\ ~Alive(captured)
    /\ feedStopped' = TRUE
    /\ closer' = "finish"
    /\ UNCHANGED <<service, feeds, working, stopRequested, captured,
                   workerStopped, dependencies, budgets>>

FeedTimedOut ==
    /\ closer = "joinFeed" /\ Alive(captured) /\ timeouts < MaxTimeouts
    /\ closer' = "finish"
    /\ timeouts' = timeouts + 1
    /\ UNCHANGED <<service, feeds, working, stopRequested, locals, dependencies,
                   failures>>

StopSucceeds ==
    /\ closer = "finish" /\ workerStopped /\ feedStopped
    /\ started' = FALSE /\ stopping' = FALSE /\ closed' = TRUE
    /\ liveFeed' = NoFeed
    /\ closer' = "dependencies" /\ captured' = NoFeed
    /\ UNCHANGED <<feeds, working, stopRequested, workerStopped, feedStopped,
                   dependencies, budgets>>

\* Handles and the stopping flag are kept and the error is raised: the runtime
\* keeps its dependencies open and a later close tries again.
StopFails ==
    /\ closer = "finish" /\ ~(workerStopped /\ feedStopped)
    /\ closer' = "idle" /\ captured' = NoFeed
    /\ UNCHANGED <<service, feeds, working, stopRequested, workerStopped,
                   feedStopped, dependencies, budgets>>

CloseDependencies ==
    /\ closer = "dependencies"
    /\ dependencies' = "closed"
    /\ closer' = "idle"
    /\ UNCHANGED <<service, feeds, working, stopRequested, locals, budgets>>

Close ==
    \/ TellWorker \/ WorkerJoined \/ TellFeed \/ FeedJoined
    \/ StopSucceeds \/ StopFails \/ CloseDependencies

Next ==
    \/ Start \/ Work \/ BeginStop \/ Close \/ WorkerTimedOut \/ FeedTimedOut
    \/ \E f \in Feeds : FeedEnds(f)

Spec == Init /\ [][Next]_vars

\* The threads that were started keep running and a told feed ends.  Nobody has to
\* start the service or to close it, and the closer's joins need not run out.
FairSpec ==
    /\ Spec
    /\ WF_vars(Work) /\ WF_vars(Close)
    /\ \A f \in Feeds : WF_vars(FeedEnds(f))

-----------------------------------------------------------------------------

TypeOK ==
    /\ started \in BOOLEAN /\ stopping \in BOOLEAN /\ closed \in BOOLEAN
    /\ liveFeed \in Feeds \cup {NoFeed}
    /\ feed \in [Feeds -> FeedStates]
    /\ desired \in [Feeds -> Subs \cup {NoSubs}]
    /\ worker \in WorkerStates
    /\ wanted \in Subs \cup {NoSubs} /\ contracts \in BOOLEAN
    /\ detached \in Feeds \cup {NoFeed}
    /\ stopRequested \in BOOLEAN
    /\ closer \in CloserStates
    /\ captured \in Feeds \cup {NoFeed}
    /\ workerStopped \in BOOLEAN /\ feedStopped \in BOOLEAN
    /\ dependencies \in {"open", "closed"}
    /\ timeouts \in 0 .. MaxTimeouts /\ failures \in 0 .. MaxFailures

\* At most one live feed thread exists at any time, whatever the worker detaches,
\* fails to stop and creates again: two would both publish ticks, one of them for
\* an obsolete generation.
OneFeedThread == \A f, g \in Feeds : Alive(f) /\ Alive(g) => f = g

\* Once the service is closed no feed is left that nobody told to stop, even when
\* the worker was in the middle of its callback when stop began.
NoFeedRunsOn == closed => \A f \in Feeds : feed[f] # "running"

\* The databases are closed only after the acquisition worker is gone, whichever
\* joins ran out before (BackendRuntime.close).
WorkerGoneFirst == dependencies = "closed" => worker = "none"

\* "Producers must be gone before their read models and databases" (runtime.py),
\* the live feed being one of them.
ProducersGone ==
    dependencies = "closed" => worker = "none" /\ \A f \in Feeds : ~Alive(f)

\* A generation that stays wanted is in the end served by a running feed, as long
\* as no join ran out of time and nobody stops the service.
ServedUnlessTimedOut ==
    \A s \in Subs :
        wanted = s ~> \/ Serving(s) \/ wanted # s
                      \/ stopping \/ closed \/ timeouts > 0

\* A stop that neither join times out closes the runtime: the worker it joins is
\* never itself waiting for the closer.
CloseEnds ==
    closer = "tellWorker" ~> dependencies = "closed" \/ timeouts > 0
-----------------------------------------------------------------------------
(* Refinement *)

Phase ==
    IF dependencies = "closed" THEN "released"
    ELSE IF closed THEN "closed"
    ELSE IF stopping THEN "stopping"
    ELSE IF started THEN "serving"
    ELSE "new"

\* The one thread, whichever feed it is of.
Living == {f \in Feeds : Alive(f)}
Thread == IF Living = {} THEN "none" ELSE feed[CHOOSE f \in Living : TRUE]
Subscribed == IF Living = {} THEN NoSubs ELSE desired[CHOOSE f \in Living : TRUE]

Lifecycle == INSTANCE RuntimeLifecycle
    WITH Generations <- Subs, Nothing <- NoSubs, thread <- Thread,
         subscribes <- Subscribed, phase <- Phase, acquiring <- (worker # "none")

\* The service and the closing of the runtime implement RuntimeLifecycle: whatever joins run
\* out and whatever is retried, a runtime that has begun to stop never serves again, its feeds
\* are one thread, none is begun or changed once the stop has begun, and the databases go when
\* the worker is gone and no feed is untold (market_data_runtime.py, BackendRuntime.close).
ImplementsLifecycle == Lifecycle!LifecycleSpec
=============================================================================
