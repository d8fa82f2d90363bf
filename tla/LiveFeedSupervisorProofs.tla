---------------------- MODULE LiveFeedSupervisorProofs ----------------------
(***************************************************************************)
(* Proofs about LiveFeedSupervisor for any instruments, sockets and bounds. *)
(* FeedInv says what the safety invariants do not: whose the open socket    *)
(* is, and that readiness is empty on a connection that has not received.   *)
(* Announced says who may close the socket under the worker, and that the   *)
(* worker can see it from the events.                                       *)
(***************************************************************************)
EXTENDS LiveFeedSupervisor, TLAPS

\* The worker's labels at which it holds no connection.
Unconnected == {"none", "top", "begin", "connecting", "tail", "backoff", "exit"}

\* Only the worker's own socket is open, and between connections it has none.
OwnSocket ==
    /\ open \subseteq {mySocket}
    /\ worker \in Unconnected => mySocket = NoSocket

\* A connection begins with nothing ready.
BeginsEmpty ==
    worker \in {"connecting", "linked", "register", "subscribe", "send"} => ready = {}

\* A worker that publishes a connection after stop has passed gets no further with
\* it than the check before the first receive.
StoppedConnection ==
    stopEvent /\ stopper # "mark" /\ connected =>
        /\ ready = {}
        /\ worker \in {"subscribe", "send", "receive", "raised", "clear"}

FeedInv == OwnSocket /\ BeginsEmpty /\ StoppedConnection /\ ReadyIsWanted

\* From connect to the registration the connection is nobody else's, and open.
Unpublished ==
    worker \in {"linked", "register"} =>
        /\ mySocket \in open
        /\ mySocket \notin {socket, rotated, taken}

\* The labels from the registration to the handler of failures.
Published == {"subscribe", "send", "receive", "waiting", "batch", "deliver", "record",
              "raised"}

\* A published connection that a caller has taken, or closed, was announced: the restart
\* event says so for a replacement, the stop event for a stop.
TakenAfterEvent ==
    worker \in Published /\ mySocket # NoSocket =>
        /\ mySocket = rotated => restartEvent
        /\ mySocket \notin open => restartEvent \/ stopEvent

\* A stop that has begun holds the event, and only such a stop holds a socket.  The worker
\* leaves its loop for a stop alone.
StopUnderWay ==
    /\ stopper # "idle" => stopEvent
    /\ taken # NoSocket => stopper = "close"
    /\ worker = "exit" => stopEvent

Announced == Unpublished /\ TakenAfterEvent /\ StopUnderWay

IInv == TypeOK /\ FeedInv /\ Announced

-----------------------------------------------------------------------------
(* Types *)

\* Every step keeps every variable in its type.
LEMMA TypeStep ==
    ASSUME FeedAssumption, TypeOK, FeedInv, [Next]_vars
    PROVE  TypeOK'
<1> USE DEF TypeOK, WorkerLabels, MarketStatuses, health, events, mine, callers
<1>1. CASE Start
  <2>1. stopEvent' \in BOOLEAN /\ restartEvent' \in BOOLEAN /\ worker' \in WorkerLabels
    BY <1>1 DEF Start, Goto, Running
  <2>2. QED
    BY <1>1, <2>1 DEF Start
<1>2. CASE Top
  <2>1. worker' \in WorkerLabels /\ rotating' \in BOOLEAN
    BY <1>2 DEF Top, Goto
  <2>2. QED
    BY <1>2, <2>1 DEF Top
<1>3. CASE BeginAttempt
  <2>1. /\ connected' \in BOOLEAN /\ ready' \subseteq Instruments
        /\ restartEvent' \in BOOLEAN /\ market' \in MarketStatuses
        /\ worker' \in WorkerLabels
    BY <1>3 DEF BeginAttempt, Goto
  <2>2. QED
    BY <1>3, <2>1 DEF BeginAttempt
<1>4. CASE \E s \in Sockets : Connect(s)
  BY <1>4, FeedAssumption DEF Connect, Goto
<1>5. CASE ConnectFails
  BY <1>5, FeedAssumption DEF ConnectFails, Goto, Fails
<1>6. CASE Linked
  BY <1>6, FeedAssumption DEF Linked, Goto
<1>7. CASE Register
  <2>1. /\ restartEvent' \in BOOLEAN /\ connected' \in BOOLEAN
        /\ socket' \in Sockets \cup {NoSocket} /\ worker' \in WorkerLabels
    BY <1>7 DEF Register, Goto
  <2>2. QED
    BY <1>7, <2>1 DEF Register
<1>8. CASE Subscribe
  BY <1>8, FeedAssumption DEF Subscribe, Goto
<1>9. CASE Send
  BY <1>9, FeedAssumption DEF Send, Goto
<1>10. CASE Receive
  BY <1>10, FeedAssumption DEF Receive, Goto
<1>11. CASE ReceiveNothing
  BY <1>11, FeedAssumption DEF ReceiveNothing, Goto
<1>12. CASE \E keys \in SUBSET Instruments : ReceivePackets(keys)
  BY <1>12, FeedAssumption DEF ReceivePackets, Goto
<1>13. CASE \E status \in {"OPEN", "CLOSED"} : ReceiveStatus(status)
  BY <1>13, FeedAssumption DEF ReceiveStatus, Goto
<1>14. CASE SocketFails
  BY <1>14, FeedAssumption DEF SocketFails, Goto, Fails
<1>15. CASE \E k \in Instruments : Accept(k)
  BY <1>15, FeedAssumption DEF Accept, Goto, AfterPacket
<1>16. CASE Deliver
  BY <1>16, FeedAssumption DEF Deliver, Goto, Fails, AfterPacket
<1>17. CASE Record
  BY <1>17, FeedAssumption DEF Record, Goto, AfterPacket, StillWanted
<1>18. CASE Rotation
  <2>1. restartEvent' \in BOOLEAN /\ rotating' \in BOOLEAN /\ worker' \in WorkerLabels
    BY <1>18 DEF Rotation, Goto
  <2>2. QED
    BY <1>18, <2>1 DEF Rotation
<1>19. CASE StoppedWhileFailing
  BY <1>19, FeedAssumption DEF StoppedWhileFailing, Goto
<1>20. CASE RecordFailure
  <2>1. /\ connected' \in BOOLEAN /\ ready' \subseteq Instruments
        /\ worker' \in WorkerLabels
    BY <1>20 DEF RecordFailure, Goto
  <2>2. QED
    BY <1>20, <2>1 DEF RecordFailure
<1>21. CASE ClearSocket
  <2>1. /\ connected' \in BOOLEAN /\ ready' \subseteq Instruments
        /\ socket' \in Sockets \cup {NoSocket} /\ worker' \in WorkerLabels
    BY <1>21 DEF ClearSocket, Goto
  <2>2. QED
    BY <1>21, <2>1 DEF ClearSocket
<1>22. CASE CloseSocket
  BY <1>22, FeedAssumption DEF CloseSocket, Goto
<1>23. CASE Tail
  BY <1>23, FeedAssumption DEF Tail, Goto
<1>24. CASE BackOff
  BY <1>24, FeedAssumption DEF BackOff, Goto
<1>25. CASE Exit
  <2>1. /\ socket' \in Sockets \cup {NoSocket} /\ worker' \in WorkerLabels
        /\ connected' \in BOOLEAN /\ ready' \subseteq Instruments
    BY <1>25 DEF Exit, Goto
  <2>2. QED
    BY <1>25, <2>1 DEF Exit
<1>26. CASE \E k \in Instruments : GoesStale(k)
  BY <1>26, FeedAssumption DEF GoesStale
<1>27. CASE \E wanted \in Sets : Replace(wanted)
  BY <1>27, FeedAssumption DEF Replace, Running
<1>28. CASE CloseRotated
  BY <1>28, FeedAssumption DEF CloseRotated
<1>29. CASE BeginStop
  BY <1>29, FeedAssumption DEF BeginStop
<1>30. CASE MarkStopping
  <2>1. /\ connected' \in BOOLEAN /\ ready' \subseteq Instruments
        /\ taken' \in Sockets \cup {NoSocket} /\ stopper' \in {"idle", "close"}
    BY <1>30 DEF MarkStopping
  <2>2. QED
    BY <1>30, <2>1 DEF MarkStopping
<1>31. CASE CloseTaken
  BY <1>31, FeedAssumption DEF CloseTaken
<1>32. CASE Joined
  BY <1>32, FeedAssumption DEF Joined
<1>33. CASE UNCHANGED vars
  BY <1>33 DEF vars
<1>34. QED
  BY <1>1, <1>2, <1>3, <1>4, <1>5, <1>6, <1>7, <1>8, <1>9, <1>10, <1>11, <1>12,
     <1>13, <1>14, <1>15, <1>16, <1>17, <1>18, <1>19, <1>20, <1>21, <1>22, <1>23,
     <1>24, <1>25, <1>26, <1>27, <1>28, <1>29, <1>30, <1>31, <1>32, <1>33
     DEF Next, Worker, Stop

-----------------------------------------------------------------------------
(* The strengthening *)

\* Every step keeps the open socket the worker's, and readiness in its bounds.
LEMMA FeedStep ==
    ASSUME FeedAssumption, TypeOK, FeedInv, [Next]_vars
    PROVE  FeedInv'
<1> USE DEF TypeOK, FeedInv, OwnSocket, BeginsEmpty, StoppedConnection, ReadyIsWanted,
            Unconnected, WorkerLabels, health, events, mine, callers
<1>1. CASE Start
  BY <1>1, FeedAssumption DEF Start, Goto, Running
<1>2. CASE Top
  BY <1>2, FeedAssumption DEF Top, Goto
<1>3. CASE BeginAttempt
  BY <1>3, FeedAssumption DEF BeginAttempt, Goto
<1>4. CASE \E s \in Sockets : Connect(s)
  BY <1>4, FeedAssumption DEF Connect, Goto
<1>5. CASE ConnectFails
  BY <1>5, FeedAssumption DEF ConnectFails, Goto, Fails
<1>6. CASE Linked
  BY <1>6, FeedAssumption DEF Linked, Goto
<1>7. CASE Register
  BY <1>7, FeedAssumption DEF Register, Goto
<1>8. CASE Subscribe
  BY <1>8, FeedAssumption DEF Subscribe, Goto
<1>9. CASE Send
  BY <1>9, FeedAssumption DEF Send, Goto
<1>10. CASE Receive
  BY <1>10, FeedAssumption DEF Receive, Goto
<1>11. CASE ReceiveNothing
  BY <1>11, FeedAssumption DEF ReceiveNothing, Goto
<1>12. CASE \E keys \in SUBSET Instruments : ReceivePackets(keys)
  BY <1>12, FeedAssumption DEF ReceivePackets, Goto
<1>13. CASE \E status \in {"OPEN", "CLOSED"} : ReceiveStatus(status)
  BY <1>13, FeedAssumption DEF ReceiveStatus, Goto
<1>14. CASE SocketFails
  BY <1>14, FeedAssumption DEF SocketFails, Goto, Fails
<1>15. CASE \E k \in Instruments : Accept(k)
  BY <1>15, FeedAssumption DEF Accept, Goto, AfterPacket
<1>16. CASE Deliver
  BY <1>16, FeedAssumption DEF Deliver, Goto, Fails, AfterPacket
<1>17. CASE Record
  BY <1>17, FeedAssumption DEF Record, Goto, AfterPacket, StillWanted
<1>18. CASE Rotation
  BY <1>18, FeedAssumption DEF Rotation, Goto
<1>19. CASE StoppedWhileFailing
  BY <1>19, FeedAssumption DEF StoppedWhileFailing, Goto
<1>20. CASE RecordFailure
  BY <1>20, FeedAssumption DEF RecordFailure, Goto
<1>21. CASE ClearSocket
  BY <1>21, FeedAssumption DEF ClearSocket, Goto
<1>22. CASE CloseSocket
  BY <1>22, FeedAssumption DEF CloseSocket, Goto
<1>23. CASE Tail
  BY <1>23, FeedAssumption DEF Tail, Goto
<1>24. CASE BackOff
  BY <1>24, FeedAssumption DEF BackOff, Goto
<1>25. CASE Exit
  BY <1>25, FeedAssumption DEF Exit, Goto
<1>26. CASE \E k \in Instruments : GoesStale(k)
  BY <1>26, FeedAssumption DEF GoesStale
<1>27. CASE \E wanted \in Sets : Replace(wanted)
  BY <1>27, FeedAssumption DEF Replace, Running
<1>28. CASE CloseRotated
  BY <1>28, FeedAssumption DEF CloseRotated
<1>29. CASE BeginStop
  BY <1>29, FeedAssumption DEF BeginStop
<1>30. CASE MarkStopping
  BY <1>30, FeedAssumption DEF MarkStopping, Running
<1>31. CASE CloseTaken
  BY <1>31, FeedAssumption DEF CloseTaken
<1>32. CASE Joined
  BY <1>32, FeedAssumption DEF Joined
<1>33. CASE UNCHANGED vars
  BY <1>33 DEF vars
<1>34. QED
  BY <1>1, <1>2, <1>3, <1>4, <1>5, <1>6, <1>7, <1>8, <1>9, <1>10, <1>11, <1>12,
     <1>13, <1>14, <1>15, <1>16, <1>17, <1>18, <1>19, <1>20, <1>21, <1>22, <1>23,
     <1>24, <1>25, <1>26, <1>27, <1>28, <1>29, <1>30, <1>31, <1>32, <1>33
     DEF Next, Worker, Stop

\* Every step that closes a socket of the worker, or gives it to who will, leaves the event
\* that says so; only a step without a published connection takes an event back.
LEMMA AnnouncedStep ==
    ASSUME FeedAssumption, TypeOK, FeedInv, Announced, [Next]_vars
    PROVE  Announced'
<1> USE DEF TypeOK, FeedInv, OwnSocket, Unconnected, Announced, Unpublished, Published,
            TakenAfterEvent, StopUnderWay, WorkerLabels, health, events, mine, callers
<1>1. CASE Start
  BY <1>1, FeedAssumption DEF Start, Goto, Running
<1>2. CASE Top
  BY <1>2, FeedAssumption DEF Top, Goto
<1>3. CASE BeginAttempt
  BY <1>3, FeedAssumption DEF BeginAttempt, Goto
<1>4. CASE \E s \in Sockets : Connect(s)
  BY <1>4, FeedAssumption DEF Connect, Goto
<1>5. CASE ConnectFails
  BY <1>5, FeedAssumption DEF ConnectFails, Goto, Fails
<1>6. CASE Linked
  BY <1>6, FeedAssumption DEF Linked, Goto
<1>7. CASE Register
  BY <1>7, FeedAssumption DEF Register, Goto
<1>8. CASE Subscribe
  BY <1>8, FeedAssumption DEF Subscribe, Goto
<1>9. CASE Send
  BY <1>9, FeedAssumption DEF Send, Goto
<1>10. CASE Receive
  BY <1>10, FeedAssumption DEF Receive, Goto
<1>11. CASE ReceiveNothing
  BY <1>11, FeedAssumption DEF ReceiveNothing, Goto
<1>12. CASE \E keys \in SUBSET Instruments : ReceivePackets(keys)
  BY <1>12, FeedAssumption DEF ReceivePackets, Goto
<1>13. CASE \E status \in {"OPEN", "CLOSED"} : ReceiveStatus(status)
  BY <1>13, FeedAssumption DEF ReceiveStatus, Goto
<1>14. CASE SocketFails
  BY <1>14, FeedAssumption DEF SocketFails, Goto, Fails
<1>15. CASE \E k \in Instruments : Accept(k)
  BY <1>15, FeedAssumption DEF Accept, Goto, AfterPacket
<1>16. CASE Deliver
  BY <1>16, FeedAssumption DEF Deliver, Goto, Fails, AfterPacket
<1>17. CASE Record
  BY <1>17, FeedAssumption DEF Record, Goto, AfterPacket, StillWanted
<1>18. CASE Rotation
  BY <1>18, FeedAssumption DEF Rotation, Goto
<1>19. CASE StoppedWhileFailing
  BY <1>19, FeedAssumption DEF StoppedWhileFailing, Goto
<1>20. CASE RecordFailure
  BY <1>20, FeedAssumption DEF RecordFailure, Goto
<1>21. CASE ClearSocket
  BY <1>21, FeedAssumption DEF ClearSocket, Goto
<1>22. CASE CloseSocket
  BY <1>22, FeedAssumption DEF CloseSocket, Goto
<1>23. CASE Tail
  BY <1>23, FeedAssumption DEF Tail, Goto
<1>24. CASE BackOff
  BY <1>24, FeedAssumption DEF BackOff, Goto
<1>25. CASE Exit
  BY <1>25, FeedAssumption DEF Exit, Goto
<1>26. CASE \E k \in Instruments : GoesStale(k)
  BY <1>26, FeedAssumption DEF GoesStale
<1>27. CASE \E wanted \in Sets : Replace(wanted)
  <2>1. PICK wanted \in Sets : Replace(wanted)
    BY <1>27
  <2>2. worker # "none" => restartEvent'
    BY <2>1 DEF Replace, Running
  <2>3. rotated' = socket /\ UNCHANGED <<stopEvent, socket, open, worker, mine, stopper, taken>>
    BY <2>1 DEF Replace
  <2>4. Unpublished' /\ StopUnderWay'
    BY <2>3
  <2>5. TakenAfterEvent'
    BY <2>2, <2>3
  <2>6. QED
    BY <2>4, <2>5
<1>28. CASE CloseRotated
  BY <1>28, FeedAssumption DEF CloseRotated
<1>29. CASE BeginStop
  BY <1>29, FeedAssumption DEF BeginStop
<1>30. CASE MarkStopping
  BY <1>30, FeedAssumption DEF MarkStopping, Running
<1>31. CASE CloseTaken
  BY <1>31, FeedAssumption DEF CloseTaken
<1>32. CASE Joined
  BY <1>32, FeedAssumption DEF Joined
<1>33. CASE UNCHANGED vars
  BY <1>33 DEF vars
<1>34. QED
  BY <1>1, <1>2, <1>3, <1>4, <1>5, <1>6, <1>7, <1>8, <1>9, <1>10, <1>11, <1>12,
     <1>13, <1>14, <1>15, <1>16, <1>17, <1>18, <1>19, <1>20, <1>21, <1>22, <1>23,
     <1>24, <1>25, <1>26, <1>27, <1>28, <1>29, <1>30, <1>31, <1>32, <1>33
     DEF Next, Worker, Stop

-----------------------------------------------------------------------------
(* Theorems *)

\* Every reachable state of the supervisor satisfies the strengthening.
LEMMA FeedInvariant == Spec => []IInv
<1>1. Init => IInv
  <2> SUFFICES ASSUME Init PROVE IInv
    OBVIOUS
  <2>1. failures \in 0 .. MaxFailures
    BY FeedAssumption DEF Init
  <2>2. TypeOK
    BY <2>1 DEF Init, TypeOK, WorkerLabels, MarketStatuses
  <2>3. FeedInv
    BY DEF Init, FeedInv, OwnSocket, BeginsEmpty, StoppedConnection, ReadyIsWanted,
       Unconnected
  <2>4. Announced
    BY DEF Init, Announced, Unpublished, Published, TakenAfterEvent, StopUnderWay
  <2>5. QED
    BY <2>2, <2>3, <2>4 DEF IInv
<1>2. IInv /\ [Next]_vars => IInv'
  BY FeedAssumption, TypeStep, FeedStep, AnnouncedStep DEF IInv
<1>3. QED
  BY <1>1, <1>2, PTL DEF Spec

\* The supervisor's state stays well typed.
THEOREM FeedTypeCorrectness == Spec => []TypeOK
<1>1. IInv => TypeOK
  BY DEF IInv
<1>2. QED
  BY <1>1, FeedInvariant, PTL

\* Readiness never covers an instrument that is no longer wanted, wherever the
\* replacement falls between the consumer and the second look.
THEOREM ReadyIsWantedTheorem == Spec => []ReadyIsWanted
<1>1. IInv => ReadyIsWanted
  BY DEF IInv, FeedInv
<1>2. QED
  BY <1>1, FeedInvariant, PTL

\* No instrument is healthy after stop has marked the supervisor.
THEOREM NotHealthyAfterStopTheorem == Spec => []NotHealthyAfterStop
<1>1. IInv => NotHealthyAfterStop
  BY DEF IInv, FeedInv, StoppedConnection, NotHealthyAfterStop, InstrumentsHealthy
<1>2. QED
  BY <1>1, FeedInvariant, PTL

\* A worker that has ended leaves no connection open.
THEOREM NoSocketLeftTheorem == Spec => []NoSocketLeft
<1>1. IInv => NoSocketLeft
  BY FeedAssumption DEF IInv, TypeOK, FeedInv, OwnSocket, Unconnected, NoSocketLeft
<1>2. QED
  BY <1>1, FeedInvariant, PTL

\* The failure handler records no failure, and the loop backs off for none, when it was
\* replace_instruments that closed the socket: at every step of every behaviour.
THEOREM RotationIsNoFailureTheorem == Spec => RotationIsNoFailure
<1>1. IInv => (RecordFailure => mySocket = NoSocket \/ mySocket \in open)
  BY DEF IInv, Announced, TakenAfterEvent, Published, RecordFailure
<1>2. QED
  BY <1>1, FeedInvariant, PTL DEF RotationIsNoFailure

-----------------------------------------------------------------------------
(* Refinement *)

\* Most steps of the worker and of its callers are none of the thread as its holder sees it.
LEMMA ThreadUntouched ==
    ASSUME UNCHANGED <<desired, stopEvent>>, Running' = Running
    PROVE  UNCHANGED Feed!threadVars
  BY DEF Feed!threadVars, Running

\* Every step is one of a feed thread, or none.
LEMMA ThreadStep ==
    ASSUME FeedAssumption, IInv, [Next]_vars
    PROVE  [Feed!ThreadNext]_(Feed!threadVars)
<1> USE DEF health, events, mine, callers
<1>1. CASE Start
  <2>1. Feed!Begin
    BY <1>1 DEF Start, Goto, Running, IInv, TypeOK, Feed!Begin
  <2>2. QED
    BY <2>1 DEF Feed!ThreadNext
<1>2. ASSUME NEW wanted \in Sets, Replace(wanted)
      PROVE  [Feed!ThreadNext]_(Feed!threadVars)
  <2>1. CASE Running
    <3>1. Feed!Change
      BY <1>2, <2>1 DEF Replace, Running, Feed!Change
    <3>2. QED
      BY <3>1 DEF Feed!ThreadNext
  <2>2. CASE ~Running
    BY <1>2, <2>2 DEF Replace, Running, Feed!threadVars
  <2>3. QED
    BY <2>1, <2>2
<1>3. CASE BeginStop
  <2>1. CASE Running /\ ~stopEvent
    <3>1. Feed!LetGo
      BY <1>3, <2>1 DEF BeginStop, Running, Feed!LetGo
    <3>2. QED
      BY <3>1 DEF Feed!ThreadNext
  <2>2. CASE ~(Running /\ ~stopEvent)
    BY <1>3, <2>2 DEF BeginStop, Running, Feed!threadVars
  <2>3. QED
    BY <2>1, <2>2
<1>4. CASE Exit
  <2>1. Feed!End
    BY <1>4 DEF Exit, Goto, Running, IInv, Announced, StopUnderWay, Feed!End
  <2>2. QED
    BY <2>1 DEF Feed!ThreadNext
<1>5. CASE \/ CloseRotated \/ Stop
           \/ \E k \in Instruments : GoesStale(k)
           \/ UNCHANGED vars
  <2>1. UNCHANGED <<desired, stopEvent>> /\ Running' = Running
    BY <1>5 DEF CloseRotated, Stop, MarkStopping, CloseTaken, Joined, GoesStale, vars, Running
  <2>2. QED
    BY <2>1, ThreadUntouched
<1>6. CASE \/ Top \/ BeginAttempt \/ ConnectFails \/ Linked \/ Register \/ Subscribe
           \/ \E s \in Sockets : Connect(s)
           \/ Send \/ Receive \/ ReceiveNothing \/ SocketFails
  <2>1. UNCHANGED <<desired, stopEvent>> /\ Running' = Running
    BY <1>6 DEF Top, BeginAttempt, ConnectFails, Linked, Register, Subscribe, Connect, Send,
                Receive, ReceiveNothing, SocketFails, Goto, Running
  <2>2. QED
    BY <2>1, ThreadUntouched
<1>7. CASE \/ \E keys \in SUBSET Instruments : ReceivePackets(keys)
           \/ \E status \in {"OPEN", "CLOSED"} : ReceiveStatus(status)
           \/ \E k \in Instruments : Accept(k)
           \/ Deliver \/ Record
  <2>1. UNCHANGED <<desired, stopEvent>> /\ Running' = Running
    BY <1>7 DEF ReceivePackets, ReceiveStatus, Accept, Deliver, Record, AfterPacket, Goto,
                Running
  <2>2. QED
    BY <2>1, ThreadUntouched
<1>8. CASE Rotation \/ StoppedWhileFailing \/ RecordFailure \/ ClearSocket \/ CloseSocket
           \/ Tail \/ BackOff
  <2>1. UNCHANGED <<desired, stopEvent>> /\ Running' = Running
    BY <1>8 DEF Rotation, StoppedWhileFailing, RecordFailure, ClearSocket, CloseSocket, Tail,
                BackOff, Goto, Running
  <2>2. QED
    BY <2>1, ThreadUntouched
<1>9. QED
  BY <1>1, <1>2, <1>3, <1>4, <1>5, <1>6, <1>7, <1>8 DEF Next, Worker

\* To its holder the supervisor is a thread that runs until it is told to stop: every step of
\* the worker and its callers is a step of FeedThread or none (start, stop, _run_loop).
THEOREM FeedThreadTheorem == Spec => ImplementsFeedThread
<1>1. Init => Feed!ThreadInit
  BY DEF Init, Running, Feed!ThreadInit
<1>2. IInv /\ [Next]_vars => [Feed!ThreadNext]_(Feed!threadVars)
  BY FeedAssumption, ThreadStep
<1>3. QED
  BY <1>1, <1>2, FeedInvariant, PTL DEF Spec, ImplementsFeedThread, Feed!ThreadSpec
=============================================================================
