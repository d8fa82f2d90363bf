---------------------- MODULE MarketDataServiceProofs ----------------------
(***************************************************************************)
(* Proofs about MarketDataService for every set of feeds and of            *)
(* generations and every bound.  The strengthening, HandleInv, says who    *)
(* holds a feed whose thread is alive: the service's slot, or the worker   *)
(* that is stopping it, or, once the service is being stopped, nobody.     *)
(* With it every step is one of RuntimeLifecycle, or none.                 *)
(***************************************************************************)
EXTENDS MarketDataService, TLAPS

\* The worker has a feed detached exactly while it is stopping it, and the slot
\* is empty all that time: only the worker fills it.
WorkerHolds ==
    /\ worker \in {"detached", "joining"} <=> detached # NoFeed
    /\ detached # NoFeed => liveFeed = NoFeed

\* A running feed is in the slot or about to be told to stop.
RunningHeld ==
    \A f \in Feeds :
        feed[f] = "running" => \/ f = liveFeed
                               \/ f = detached /\ worker = "detached"

\* A feed that is alive has a holder unless the service is being stopped.
AliveHeld ==
    \A f \in Feeds : Alive(f) => f \in {liveFeed, detached} \/ stopping \/ closed

\* Before start the service owns no thread.
Unstarted ==
    ~started /\ ~closed =>
        worker = "none" /\ liveFeed = NoFeed /\ \A f \in Feeds : ~Alive(f)

\* While a stop is in flight the slot is what it captured and the service is
\* marked as stopping; what its locals say has happened has happened.
StopHolds ==
    closer \notin {"idle", "dependencies"} =>
        /\ stopping
        /\ captured = liveFeed
        /\ workerStopped => worker = "none"
        /\ feedStopped => captured = NoFeed \/ ~Alive(captured)

\* What a finished stop leaves.
Closed ==
    /\ closed => worker = "none" /\ liveFeed = NoFeed
    /\ closed => \A f \in Feeds : feed[f] # "running"
    /\ closer = "dependencies" \/ dependencies = "closed" => closed

\* A stop begins once and goes one way.  The worker is told by a stop only, the flag
\* is that of a stop that has not ended, and what is left of a failed one was started:
\* the service nobody started has no thread to wait for, so its stop never fails.
StopEnds ==
    /\ stopRequested => stopping \/ closed
    /\ closer \notin {"idle", "dependencies"} => ~closed
    /\ closer = "idle" /\ stopping /\ ~closed => started
    /\ closer \notin {"idle", "dependencies"} /\ ~started => feedStopped
    /\ closer \in {"tellFeed", "joinFeed", "finish"} /\ ~started => workerStopped

HandleInv ==
    /\ WorkerHolds /\ RunningHeld /\ AliveHeld /\ Unstarted /\ StopHolds /\ Closed
    /\ StopEnds /\ OneFeedThread

IInv == TypeOK /\ HandleInv

-----------------------------------------------------------------------------
(* Types *)

\* A told feed is still one of the feed's thread states.
LEMMA TellType ==
    ASSUME TypeOK, NEW f \in Feeds, Tell(f)
    PROVE  feed' \in [Feeds -> FeedStates]
  BY DEF TypeOK, Tell, FeedStates

\* Every step keeps every variable in its type.
LEMMA TypeStep ==
    ASSUME ServiceAssumption, TypeOK, HandleInv, [Next]_vars
    PROVE  TypeOK'
<1> USE DEF TypeOK, FeedStates, WorkerStates, CloserStates, service, feeds, working,
            locals, budgets
<1>1. CASE Start
  BY <1>1, ServiceAssumption DEF Start
<1>2. CASE WorkerEnds
  BY <1>2, ServiceAssumption DEF WorkerEnds
<1>3. CASE BeginCycle
  BY <1>3, ServiceAssumption DEF BeginCycle
<1>4. CASE CycleFails
  BY <1>4, ServiceAssumption DEF CycleFails
<1>5. CASE \E s \in Subs \cup {NoSubs}, active \in BOOLEAN : Resolve(s, active)
  BY <1>5, ServiceAssumption DEF Resolve
<1>6. CASE NotifySuppressed
  BY <1>6, ServiceAssumption DEF NotifySuppressed
<1>7. CASE Detach
  BY <1>7, ServiceAssumption DEF Detach
<1>8. CASE Rotate
  BY <1>8, ServiceAssumption DEF Rotate
<1>9. CASE \E f \in Feeds : CreateFeed(f)
  BY <1>9, ServiceAssumption DEF CreateFeed, Unused
<1>10. CASE CreateFails
  BY <1>10, ServiceAssumption DEF CreateFails
<1>11. CASE TellDetached
  <2>1. detached \in Feeds
    BY <1>11 DEF TellDetached, HandleInv, WorkerHolds
  <2>2. feed' \in [Feeds -> FeedStates]
    BY <1>11, <2>1, TellType DEF TellDetached
  <2>3. QED
    BY <1>11, <2>2 DEF TellDetached
<1>12. CASE DetachedJoined
  BY <1>12, ServiceAssumption DEF DetachedJoined
<1>13. CASE DetachedTimedOut
  BY <1>13, ServiceAssumption DEF DetachedTimedOut, Reattached
<1>14. CASE \E f \in Feeds : FeedEnds(f)
  BY <1>14, ServiceAssumption DEF FeedEnds
<1>15. CASE BeginStop
  BY <1>15, ServiceAssumption DEF BeginStop
<1>16. CASE TellWorker
  BY <1>16, ServiceAssumption DEF TellWorker
<1>17. CASE WorkerJoined
  BY <1>17, ServiceAssumption DEF WorkerJoined
<1>18. CASE WorkerTimedOut
  BY <1>18, ServiceAssumption DEF WorkerTimedOut
<1>19. CASE TellFeed
  <2>1. feed' \in [Feeds -> FeedStates]
    BY <1>19, TellType DEF TellFeed
  <2>2. QED
    BY <1>19, <2>1 DEF TellFeed
<1>20. CASE FeedJoined
  BY <1>20, ServiceAssumption DEF FeedJoined
<1>21. CASE FeedTimedOut
  BY <1>21, ServiceAssumption DEF FeedTimedOut
<1>22. CASE StopSucceeds
  BY <1>22, ServiceAssumption DEF StopSucceeds
<1>23. CASE StopFails
  BY <1>23, ServiceAssumption DEF StopFails
<1>24. CASE CloseDependencies
  BY <1>24, ServiceAssumption DEF CloseDependencies
<1>25. CASE UNCHANGED vars
  BY <1>25 DEF vars
<1>26. QED
  BY <1>1, <1>2, <1>3, <1>4, <1>5, <1>6, <1>7, <1>8, <1>9, <1>10, <1>11, <1>12, <1>13,
     <1>14, <1>15, <1>16, <1>17, <1>18, <1>19, <1>20, <1>21, <1>22, <1>23, <1>24, <1>25
     DEF Next, Work, Close

-----------------------------------------------------------------------------
(* The handle *)

\* Every step keeps who holds an alive feed.
LEMMA HandleStep ==
    ASSUME ServiceAssumption, TypeOK, HandleInv, [Next]_vars
    PROVE  HandleInv'
<1> USE DEF TypeOK, HandleInv, WorkerHolds, RunningHeld, AliveHeld, Unstarted, StopHolds,
            Closed, StopEnds, OneFeedThread, Alive, FeedStates, WorkerStates, CloserStates,
            service, feeds, working, locals, budgets
<1>1. CASE Start
  BY <1>1, ServiceAssumption DEF Start
<1>2. CASE WorkerEnds
  BY <1>2, ServiceAssumption DEF WorkerEnds
<1>3. CASE BeginCycle
  BY <1>3, ServiceAssumption DEF BeginCycle
<1>4. CASE CycleFails
  BY <1>4, ServiceAssumption DEF CycleFails
<1>5. CASE \E s \in Subs \cup {NoSubs}, active \in BOOLEAN : Resolve(s, active)
  BY <1>5, ServiceAssumption DEF Resolve
<1>6. CASE NotifySuppressed
  BY <1>6, ServiceAssumption DEF NotifySuppressed, Suppressed
<1>7. CASE Detach
  BY <1>7, ServiceAssumption DEF Detach, Suppressed
<1>8. CASE Rotate
  BY <1>8, ServiceAssumption DEF Rotate, Suppressed
<1>9. CASE \E f \in Feeds : CreateFeed(f)
  BY <1>9, ServiceAssumption DEF CreateFeed, Unused, Suppressed
<1>10. CASE CreateFails
  BY <1>10, ServiceAssumption DEF CreateFails, Suppressed
<1>11. CASE TellDetached
  BY <1>11, ServiceAssumption DEF TellDetached, Tell
<1>12. CASE DetachedJoined
  BY <1>12, ServiceAssumption DEF DetachedJoined
<1>13. CASE DetachedTimedOut
  BY <1>13, ServiceAssumption DEF DetachedTimedOut, Reattached, Suppressed
<1>14. CASE \E f \in Feeds : FeedEnds(f)
  BY <1>14, ServiceAssumption DEF FeedEnds
<1>15. CASE BeginStop
  BY <1>15, ServiceAssumption DEF BeginStop
<1>16. CASE TellWorker
  BY <1>16, ServiceAssumption DEF TellWorker
<1>17. CASE WorkerJoined
  BY <1>17, ServiceAssumption DEF WorkerJoined
<1>18. CASE WorkerTimedOut
  BY <1>18, ServiceAssumption DEF WorkerTimedOut
<1>19. CASE TellFeed
  BY <1>19, ServiceAssumption DEF TellFeed, Tell
<1>20. CASE FeedJoined
  BY <1>20, ServiceAssumption DEF FeedJoined
<1>21. CASE FeedTimedOut
  BY <1>21, ServiceAssumption DEF FeedTimedOut
<1>22. CASE StopSucceeds
  BY <1>22, ServiceAssumption DEF StopSucceeds
<1>23. CASE StopFails
  BY <1>23, ServiceAssumption DEF StopFails
<1>24. CASE CloseDependencies
  BY <1>24, ServiceAssumption DEF CloseDependencies
<1>25. CASE UNCHANGED vars
  BY <1>25 DEF vars
<1>26. QED
  BY <1>1, <1>2, <1>3, <1>4, <1>5, <1>6, <1>7, <1>8, <1>9, <1>10, <1>11, <1>12, <1>13,
     <1>14, <1>15, <1>16, <1>17, <1>18, <1>19, <1>20, <1>21, <1>22, <1>23, <1>24, <1>25
     DEF Next, Work, Close

-----------------------------------------------------------------------------
(* Theorems *)

\* A fresh service satisfies the strengthening.
LEMMA ServiceStarts == Init => IInv
<1> SUFFICES ASSUME Init PROVE IInv
  OBVIOUS
<1>1. TypeOK
  <2>1. feed \in [Feeds -> FeedStates] /\ desired \in [Feeds -> Subs \cup {NoSubs}]
    BY DEF Init, FeedStates
  <2>2. timeouts \in 0 .. MaxTimeouts /\ failures \in 0 .. MaxFailures
    BY ServiceAssumption DEF Init
  <2>3. QED
    BY <2>1, <2>2 DEF Init, TypeOK, WorkerStates, CloserStates
<1>2. \A f \in Feeds : feed[f] = "none"
  BY DEF Init
<1>3. HandleInv
  BY <1>2 DEF Init, HandleInv, WorkerHolds, RunningHeld, AliveHeld, Unstarted, StopHolds,
     Closed, StopEnds, OneFeedThread, Alive
<1>4. QED
  BY <1>1, <1>3 DEF IInv

\* Every reachable state of the service satisfies the strengthening.
LEMMA ServiceInvariant == Spec => []IInv
<1>1. IInv /\ [Next]_vars => IInv'
  BY ServiceAssumption, TypeStep, HandleStep DEF IInv
<1>2. QED
  BY <1>1, ServiceStarts, PTL DEF Spec

\* The service's state stays well typed: it never holds as a handle what is not one.
THEOREM ServiceTypeCorrectness == Spec => []TypeOK
<1>1. IInv => TypeOK
  BY DEF IInv
<1>2. QED
  BY <1>1, ServiceInvariant, PTL

\* At most one feed thread is ever alive: the callback creates a feed only when no
\* earlier one is alive, those included whose stop timed out.
THEOREM OneFeedThreadTheorem == Spec => []OneFeedThread
<1>1. IInv => OneFeedThread
  BY DEF IInv, HandleInv
<1>2. QED
  BY <1>1, ServiceInvariant, PTL

\* A closed service leaves no feed that was never told to stop, and so none that
\* will run for ever.
THEOREM NoFeedRunsOnTheorem == Spec => []NoFeedRunsOn
<1>1. IInv => NoFeedRunsOn
  BY DEF IInv, HandleInv, Closed, NoFeedRunsOn
<1>2. QED
  BY <1>1, ServiceInvariant, PTL

\* The databases are closed only after the acquisition worker is gone.
THEOREM WorkerGoneFirstTheorem == Spec => []WorkerGoneFirst
<1>1. IInv => WorkerGoneFirst
  BY DEF IInv, HandleInv, Closed, WorkerGoneFirst
<1>2. QED
  BY <1>1, ServiceInvariant, PTL

-----------------------------------------------------------------------------
(* Refinement *)

\* The one living feed is the thread of the lifecycle.
LEMMA TheThread ==
    ASSUME OneFeedThread, NEW f \in Feeds, Alive(f)
    PROVE  Thread = feed[f] /\ Subscribed = desired[f]
<1>1. f \in Living /\ \A g \in Living : g = f
  BY DEF Living, OneFeedThread
<1>2. Living # {} /\ (CHOOSE g \in Living : TRUE) = f
  BY <1>1
<1>3. QED
  BY <1>2 DEF Thread, Subscribed

\* The same of the next state.
LEMMA TheThreadNext ==
    ASSUME OneFeedThread', NEW f \in Feeds, Alive(f)'
    PROVE  Thread' = feed'[f] /\ Subscribed' = desired'[f]
<1>1. f \in Living' /\ \A g \in Living' : g = f
  BY DEF Living, OneFeedThread
<1>2. Living' # {} /\ (CHOOSE g \in Living' : TRUE) = f
  BY <1>1
<1>3. QED
  BY <1>2 DEF Thread, Subscribed

\* Without a living feed the lifecycle has no thread.
LEMMA NoThread ==
    ASSUME \A f \in Feeds : ~Alive(f)
    PROVE  Thread = "none" /\ Subscribed = NoSubs
<1>1. Living = {}
  BY DEF Living
<1>2. QED
  BY <1>1 DEF Thread, Subscribed

\* The same of the next state.
LEMMA NoThreadNext ==
    ASSUME \A f \in Feeds : ~Alive(f)'
    PROVE  Thread' = "none" /\ Subscribed' = NoSubs
<1>1. Living' = {}
  BY DEF Living
<1>2. QED
  BY <1>1 DEF Thread, Subscribed

\* A step that leaves the feeds alone leaves the thread alone.
LEMMA ThreadKept ==
    ASSUME UNCHANGED feeds
    PROVE  UNCHANGED Lifecycle!threadVars
<1>1. Living' = Living
  BY DEF Living, Alive, feeds
<1>2. Thread' = Thread /\ Subscribed' = Subscribed
  BY <1>1 DEF Thread, Subscribed, feeds
<1>3. QED
  BY <1>2 DEF Lifecycle!threadVars

\* A worker whose callback is not suppressed is that of a service that serves.
LEMMA CallbackServes ==
    ASSUME IInv, worker \in {"notify", "detached", "joining"}, ~Suppressed
    PROVE  Phase = "serving"
  BY DEF IInv, TypeOK, HandleInv, Unstarted, Closed, Suppressed, Phase

\* A worker that still runs, or a stop that is in flight, is that of a service that serves
\* or is stopping.
LEMMA UntoldPhase ==
    ASSUME IInv, worker # "none" \/ closer \notin {"idle", "dependencies"}
    PROVE  Phase \in {"serving", "stopping"}
  BY DEF IInv, TypeOK, HandleInv, Unstarted, StopHolds, StopEnds, Closed, Phase

\* The service begins: the first of its phases, whose threads are still to come.
LEMMA StartServes ==
    ASSUME IInv, IInv', Start
    PROVE  Lifecycle!Serve
<1>1. UNCHANGED Lifecycle!threadVars
  BY ThreadKept DEF Start
<1>2. Phase = "new" /\ Phase' = "serving"
  BY DEF IInv, TypeOK, HandleInv, StopEnds, Closed, Start, Phase
<1>3. (worker # "none")' = TRUE
  BY DEF Start
<1>4. QED
  BY <1>1, <1>2, <1>3 DEF Lifecycle!Serve, Lifecycle!MoveOn

\* A created feed is the one thread: no earlier one is alive, for its handle would be in
\* the slot or with the worker.
LEMMA CreateSubscribes ==
    ASSUME ServiceAssumption, IInv, IInv', NEW f \in Feeds, CreateFeed(f)
    PROVE  Lifecycle!Subscribe
<1>1. \A g \in Feeds : ~Alive(g)
  BY DEF CreateFeed, IInv, HandleInv, WorkerHolds, AliveHeld, Suppressed, ServiceAssumption
<1>2. Thread = "none"
  BY <1>1, NoThread
<1>3. feed'[f] = "running" /\ desired'[f] \in Subs
  BY DEF CreateFeed, IInv, TypeOK
<1>4. Thread' = "running" /\ Subscribed' \in Subs
  BY <1>3, TheThreadNext DEF IInv, HandleInv, Alive
<1>5. Lifecycle!Begin
  BY <1>2, <1>4 DEF Lifecycle!Begin
<1>6. Phase = "serving" /\ Phase' = Phase
  BY CallbackServes DEF CreateFeed, Phase
<1>7. worker # "none" /\ (worker # "none")' = (worker # "none")
  BY DEF CreateFeed
<1>8. QED
  BY <1>5, <1>6, <1>7 DEF Lifecycle!Subscribe

\* A rotation changes what the one thread subscribes, or says it to a supervisor without
\* a thread.
LEMMA RotateSubscribes ==
    ASSUME ServiceAssumption, IInv, IInv', Rotate
    PROVE  [Lifecycle!LifecycleNext]_(Lifecycle!lifecycleVars)
<1>1. Phase = "serving" /\ Phase' = Phase
  BY CallbackServes DEF Rotate, service, Phase
<1>2. worker # "none" /\ (worker # "none")' = (worker # "none")
  BY DEF Rotate
<1>3. CASE Alive(liveFeed)
  <2>1. PICK f \in Feeds : f = liveFeed
    BY DEF Rotate, IInv, TypeOK
  <2>2. Alive(f) /\ Alive(f)' /\ feed'[f] = feed[f] /\ desired'[f] \in Subs
    BY <1>3, <2>1 DEF Rotate, IInv, TypeOK, Alive
  <2>3. Thread = feed[f]
    BY <2>2, TheThread DEF IInv, HandleInv
  <2>4. Thread' = feed'[f] /\ Subscribed' = desired'[f]
    BY <2>2, TheThreadNext DEF IInv, HandleInv
  <2>5. Lifecycle!Change
    BY <2>2, <2>3, <2>4 DEF Lifecycle!Change, Alive
  <2>6. Lifecycle!Subscribe
    BY <1>1, <1>2, <2>5 DEF Lifecycle!Subscribe
  <2>7. QED
    BY <2>6 DEF Lifecycle!LifecycleNext
<1>4. CASE ~Alive(liveFeed)
  <2>1. \A f \in Feeds : ~Alive(f)
    BY <1>4 DEF Rotate, IInv, HandleInv, WorkerHolds, AliveHeld, Suppressed, ServiceAssumption
  <2>2. \A f \in Feeds : ~Alive(f)'
    BY <2>1 DEF Rotate, Alive
  <2>3. UNCHANGED Lifecycle!threadVars
    BY <2>1, <2>2, NoThread, NoThreadNext DEF Lifecycle!threadVars
  <2>4. QED
    BY <1>1, <1>2, <2>3 DEF Lifecycle!lifecycleVars
<1>5. QED
  BY <1>3, <1>4

\* Telling a feed to stop lets go of the one thread, or finds it told or gone.
LEMMA TellUnsubscribes ==
    ASSUME IInv, IInv', NEW f \in Feeds, Tell(f), UNCHANGED desired,
           Phase \in {"serving", "stopping"}, Phase' = Phase,
           (worker # "none")' = (worker # "none")
    PROVE  [Lifecycle!LifecycleNext]_(Lifecycle!lifecycleVars)
<1>1. CASE feed[f] = "running"
  <2>1. feed'[f] = "told" /\ Alive(f) /\ Alive(f)'
    BY <1>1 DEF Tell, IInv, TypeOK, Alive
  <2>2. Thread = "running" /\ Subscribed = desired[f]
    BY <1>1, <2>1, TheThread DEF IInv, HandleInv
  <2>3. Thread' = "told" /\ Subscribed' = desired[f]
    BY <2>1, TheThreadNext DEF IInv, HandleInv
  <2>4. Lifecycle!LetGo
    BY <2>2, <2>3 DEF Lifecycle!LetGo
  <2>5. Lifecycle!Unsubscribe
    BY <2>4 DEF Lifecycle!Unsubscribe
  <2>6. QED
    BY <2>5 DEF Lifecycle!LifecycleNext
<1>2. CASE feed[f] # "running"
  <2>1. UNCHANGED feeds
    BY <1>2 DEF Tell, IInv, TypeOK, feeds
  <2>2. QED
    BY <2>1, ThreadKept DEF Lifecycle!lifecycleVars
<1>3. QED
  BY <1>1, <1>2

\* A feed that ends was the one thread, and leaves none.
LEMMA FeedEndsThread ==
    ASSUME IInv, IInv', NEW f \in Feeds, FeedEnds(f)
    PROVE  Lifecycle!ThreadEnds
<1>1. Alive(f) /\ ~Alive(f)' /\ feed[f] = "told"
  BY DEF FeedEnds, IInv, TypeOK, Alive
<1>2. \A g \in Feeds : ~Alive(g)'
  BY <1>1 DEF FeedEnds, IInv, TypeOK, HandleInv, OneFeedThread, Alive
<1>3. Thread = "told"
  BY <1>1, TheThread DEF IInv, HandleInv
<1>4. Thread' = "none" /\ Subscribed' = NoSubs
  BY <1>2, NoThreadNext
<1>5. Lifecycle!End
  BY <1>3, <1>4 DEF Lifecycle!End
<1>6. Phase' = Phase /\ (worker # "none")' = (worker # "none")
  BY DEF FeedEnds, service, working, Phase
<1>7. QED
  BY <1>5, <1>6 DEF Lifecycle!ThreadEnds

\* A stop that begins moves the service on once; a retry finds it stopping.
LEMMA BeginStopStops ==
    ASSUME IInv, BeginStop
    PROVE  Lifecycle!Stop \/ UNCHANGED Lifecycle!lifecycleVars
<1>1. UNCHANGED Lifecycle!threadVars /\ (worker # "none")' = (worker # "none")
  BY ThreadKept DEF BeginStop, working
<1>2. Phase \in {"new", "serving", "stopping"} /\ Phase' = "stopping"
  BY DEF BeginStop, IInv, TypeOK, HandleInv, Closed, Phase
<1>3. CASE Phase = "stopping"
  BY <1>1, <1>2, <1>3 DEF Lifecycle!lifecycleVars
<1>4. CASE Phase # "stopping"
  BY <1>1, <1>2, <1>4 DEF Lifecycle!Stop, Lifecycle!MoveOn
<1>5. QED
  BY <1>3, <1>4

\* The worker ends only in a service that is being stopped.
LEMMA WorkerQuits ==
    ASSUME IInv, WorkerEnds
    PROVE  Lifecycle!Quit
<1>1. UNCHANGED Lifecycle!threadVars
  BY ThreadKept DEF WorkerEnds
<1>2. Phase = "stopping" /\ Phase' = Phase
  BY DEF WorkerEnds, IInv, TypeOK, HandleInv, StopEnds, Closed, service, Phase
<1>3. worker # "none" /\ (worker # "none")' = FALSE
  BY DEF WorkerEnds
<1>4. QED
  BY <1>1, <1>2, <1>3 DEF Lifecycle!Quit

\* A stop that succeeds closes a service whose worker is gone and whose feed, if one is
\* alive, was told.
LEMMA StopCloses ==
    ASSUME ServiceAssumption, IInv, IInv', StopSucceeds
    PROVE  Lifecycle!Close
<1>1. UNCHANGED Lifecycle!threadVars
  BY ThreadKept DEF StopSucceeds
<1>2. Phase = "stopping" /\ Phase' = "closed"
  BY DEF StopSucceeds, IInv, TypeOK, HandleInv, StopHolds, StopEnds, Closed, Phase
<1>3. worker = "none" /\ (worker # "none")' = (worker # "none")
  BY DEF StopSucceeds, IInv, HandleInv, StopHolds, working
<1>4. \A f \in Feeds : feed'[f] # "running"
  BY DEF StopSucceeds, IInv, HandleInv, Closed
<1>5. Thread # "running"
  <2>1. CASE \E f \in Feeds : Alive(f)
    BY <1>4, <2>1, TheThread DEF IInv, HandleInv, StopSucceeds, feeds
  <2>2. CASE \A f \in Feeds : ~Alive(f)
    BY <2>2, NoThread
  <2>3. QED
    BY <2>1, <2>2
<1>6. QED
  BY <1>1, <1>2, <1>3, <1>5 DEF Lifecycle!Close, Lifecycle!MoveOn

\* The dependencies are closed after the service is, once.
LEMMA DependenciesReleased ==
    ASSUME IInv, CloseDependencies
    PROVE  Lifecycle!Release \/ UNCHANGED Lifecycle!lifecycleVars
<1>1. UNCHANGED Lifecycle!threadVars /\ (worker # "none")' = (worker # "none")
  BY ThreadKept DEF CloseDependencies, working
<1>2. Phase \in {"closed", "released"} /\ Phase' = "released"
  BY DEF CloseDependencies, IInv, HandleInv, Closed, Phase
<1>3. CASE Phase = "released"
  BY <1>1, <1>2, <1>3 DEF Lifecycle!lifecycleVars
<1>4. CASE Phase # "released"
  BY <1>1, <1>2, <1>4 DEF Lifecycle!Release, Lifecycle!MoveOn
<1>5. QED
  BY <1>3, <1>4

\* A step that leaves the feeds and the flags alone, and starts or ends no worker, is none
\* of the lifecycle.
LEMMA LifecycleKept ==
    ASSUME UNCHANGED <<feeds, started, stopping, closed, dependencies>>,
           (worker # "none")' = (worker # "none")
    PROVE  UNCHANGED Lifecycle!lifecycleVars
<1>1. UNCHANGED Lifecycle!threadVars
  BY ThreadKept
<1>2. Phase' = Phase
  BY DEF Phase
<1>3. QED
  BY <1>1, <1>2 DEF Lifecycle!lifecycleVars

\* Every step of the service and its closing is a step of the lifecycle, or none.
LEMMA LifecycleStep ==
    ASSUME ServiceAssumption, IInv, IInv', [Next]_vars
    PROVE  [Lifecycle!LifecycleNext]_(Lifecycle!lifecycleVars)
<1> USE DEF Lifecycle!LifecycleNext
<1>1. CASE Start
  BY <1>1, StartServes
<1>2. CASE WorkerEnds
  BY <1>2, WorkerQuits
<1>3. CASE \E f \in Feeds : CreateFeed(f)
  BY <1>3, CreateSubscribes
<1>4. CASE Rotate
  BY <1>4, RotateSubscribes
<1>5. CASE TellDetached
  <2>1. detached \in Feeds /\ Tell(detached) /\ UNCHANGED desired
    BY <1>5 DEF TellDetached, IInv, TypeOK, HandleInv, WorkerHolds
  <2>2. Phase \in {"serving", "stopping"} /\ Phase' = Phase
    BY <1>5, UntoldPhase DEF TellDetached, service, Phase
  <2>3. (worker # "none")' = (worker # "none")
    BY <1>5 DEF TellDetached
  <2>4. QED
    BY <2>1, <2>2, <2>3, TellUnsubscribes
<1>6. CASE TellFeed
  <2>1. Phase \in {"serving", "stopping"} /\ Phase' = Phase
    BY <1>6, UntoldPhase DEF TellFeed, service, Phase
  <2>2. UNCHANGED desired /\ (worker # "none")' = (worker # "none")
    BY <1>6 DEF TellFeed, working
  <2>3. CASE captured = NoFeed
    BY <1>6, <2>2, <2>3, LifecycleKept DEF TellFeed, service, feeds
  <2>4. CASE captured # NoFeed
    <3>1. captured \in Feeds /\ Tell(captured)
      BY <1>6, <2>4 DEF TellFeed, IInv, TypeOK
    <3>2. QED
      BY <2>1, <2>2, <3>1, TellUnsubscribes
  <2>5. QED
    BY <2>3, <2>4
<1>7. CASE \E f \in Feeds : FeedEnds(f)
  BY <1>7, FeedEndsThread
<1>8. CASE BeginStop
  BY <1>8, BeginStopStops
<1>9. CASE StopSucceeds
  BY <1>9, StopCloses
<1>10. CASE CloseDependencies
  BY <1>10, DependenciesReleased
<1>11. CASE \/ BeginCycle \/ CycleFails
            \/ \E s \in Subs \cup {NoSubs}, active \in BOOLEAN : Resolve(s, active)
            \/ NotifySuppressed \/ Detach \/ CreateFails \/ DetachedJoined \/ DetachedTimedOut
  <2>1. /\ UNCHANGED <<feeds, started, stopping, closed, dependencies>>
        /\ (worker # "none")' = (worker # "none")
    BY <1>11 DEF BeginCycle, CycleFails, Resolve, NotifySuppressed, Detach, CreateFails,
                 DetachedJoined, DetachedTimedOut, service
  <2>2. QED
    BY <2>1, LifecycleKept
<1>12. CASE \/ TellWorker \/ WorkerJoined \/ WorkerTimedOut \/ FeedJoined \/ FeedTimedOut
            \/ StopFails \/ UNCHANGED vars
  <2>1. /\ UNCHANGED <<feeds, started, stopping, closed, dependencies>>
        /\ (worker # "none")' = (worker # "none")
    BY <1>12 DEF TellWorker, WorkerJoined, WorkerTimedOut, FeedJoined, FeedTimedOut, StopFails,
                 vars, service, working, feeds
  <2>2. QED
    BY <2>1, LifecycleKept
<1>13. QED
  BY <1>1, <1>2, <1>3, <1>4, <1>5, <1>6, <1>7, <1>8, <1>9, <1>10, <1>11, <1>12
     DEF Next, Work, Close

\* The service and the closing of the runtime implement RuntimeLifecycle: joins that run
\* out, handles that come back and closes that are tried again never take a phase back, give
\* the runtime a second feed, or close what a producer still writes to.
THEOREM LifecycleTheorem == Spec => ImplementsLifecycle
<1>1. ASSUME Init PROVE Lifecycle!LifecycleInit
  <2>1. Thread = "none" /\ Subscribed = NoSubs
    BY <1>1, NoThread DEF Init, Alive
  <2>2. Phase = "new" /\ (worker # "none") = FALSE
    BY <1>1 DEF Init, Phase
  <2>3. QED
    BY <2>1, <2>2 DEF Lifecycle!LifecycleInit, Lifecycle!ThreadInit
<1>2. IInv /\ IInv' /\ [Next]_vars => [Lifecycle!LifecycleNext]_(Lifecycle!lifecycleVars)
  BY ServiceAssumption, LifecycleStep
<1>3. QED
  BY <1>1, <1>2, ServiceInvariant, PTL DEF Spec, ImplementsLifecycle, Lifecycle!LifecycleSpec
=============================================================================
