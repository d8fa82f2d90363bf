------------------------ MODULE LiveFeedSupervisor ------------------------
(***************************************************************************)
(* One live feed supervisor (tq/brokers/dhan_live.py): the worker thread    *)
(* that connects, subscribes and receives, and the two callers that change  *)
(* its mind from outside, replace_instruments and stop.  Both take the      *)
(* socket under the lock and close it after the lock is released, so the    *)
(* worker can be anywhere when its socket closes under it.                  *)
(***************************************************************************)
EXTENDS Naturals, FiniteSets

CONSTANTS
    Instruments,  \* what can be subscribed
    Sets,         \* the instrument sets the callers ask for
    Sockets,      \* identities of connections
    NoSocket,     \* the handle None
    NoKey,        \* no packet in hand
    MaxFailures   \* bound: failures of the network or the packet consumer

ASSUME FeedAssumption ==
    /\ Sets \subseteq (SUBSET Instruments) \ {{}} /\ Sets # {}
    /\ NoSocket \notin Sockets /\ NoKey \notin Instruments
    /\ MaxFailures \in Nat

VARIABLES
    desired,              \* the instruments to subscribe
    connected, ready,     \* health: connection flag, instruments with a fresh packet
    market,               \* market status of this connection
    stopEvent, restartEvent,
    socket,               \* the socket handle under the lock
    open,                 \* the sockets that are open
    worker,               \* where the worker thread is
    mySocket, messages, subscribed, inbox, key, rotating,  \* its locals
    replacer, rotated,    \* a replace_instruments call and the socket it took
    stopper, taken,       \* a stop call and the socket it took
    failures

health  == <<connected, ready, market>>
events  == <<stopEvent, restartEvent>>
mine    == <<mySocket, messages, subscribed, inbox, key, rotating>>
callers == <<replacer, rotated, stopper, taken>>
vars == <<desired, connected, ready, market, stopEvent, restartEvent, socket, open,
          worker, mySocket, messages, subscribed, inbox, key, rotating, replacer,
          rotated, stopper, taken, failures>>

WorkerLabels == {"none", "top", "begin", "connecting", "linked", "register",
                 "subscribe", "send", "receive", "waiting", "batch", "deliver",
                 "record", "raised", "clear", "close", "tail", "backoff", "exit"}
MarketStatuses == {"UNKNOWN", "OPEN", "CLOSED"}

Running == worker # "none"
Goto(label) == worker' = label

\* The answer of instruments_healthy for a set of instruments.
InstrumentsHealthy(wanted) ==
    /\ connected /\ market # "CLOSED"
    /\ wanted \subseteq desired /\ wanted \subseteq ready

Init ==
    /\ desired \in Sets
    /\ connected = FALSE /\ ready = {} /\ market = "UNKNOWN"
    /\ stopEvent = FALSE /\ restartEvent = FALSE
    /\ socket = NoSocket /\ open = {}
    /\ worker = "none" /\ mySocket = NoSocket
    /\ messages = {} /\ subscribed = {} /\ inbox = {} /\ key = NoKey
    /\ rotating = FALSE
    /\ replacer = "idle" /\ rotated = NoSocket
    /\ stopper = "idle" /\ taken = NoSocket
    /\ failures = 0

-----------------------------------------------------------------------------
(* The worker thread *)

\* Bug: a supervisor that is running is started again.
StartUnchecked ==
    /\ stopper = "idle"
    /\ stopEvent' = FALSE /\ restartEvent' = FALSE
    /\ Goto("top")
    /\ UNCHANGED <<desired, health, socket, open, mine, callers, failures>>

Start ==
    /\ ~Running /\ stopper = "idle"
    /\ stopEvent' = FALSE /\ restartEvent' = FALSE
    /\ Goto("top")
    /\ UNCHANGED <<desired, health, socket, open, mine, callers, failures>>

Top ==
    /\ worker = "top"
    /\ Goto(IF stopEvent THEN "exit" ELSE "begin")
    /\ rotating' = FALSE
    /\ UNCHANGED <<desired, health, events, socket, open, mySocket, messages,
                   subscribed, inbox, key, callers, failures>>

BeginAttempt ==
    /\ worker = "begin"
    /\ restartEvent' = FALSE
    /\ connected' = FALSE /\ ready' = {} /\ market' = "UNKNOWN"
    /\ Goto("connecting")
    /\ UNCHANGED <<desired, stopEvent, socket, open, mine, callers, failures>>

Connect(s) ==
    /\ worker = "connecting"
    /\ s \notin open \cup {socket, rotated, taken}
    /\ mySocket' = s /\ open' = open \cup {s}
    /\ Goto("linked")
    /\ UNCHANGED <<desired, health, events, socket, messages, subscribed, inbox,
                   key, rotating, callers, failures>>

\* The network or the consumer fails; the bound counts how often.
Fails ==
    /\ failures < MaxFailures
    /\ failures' = failures + 1

ConnectFails ==
    /\ worker = "connecting" /\ Fails
    /\ Goto("raised")
    /\ UNCHANGED <<desired, health, events, socket, open, mine, callers>>

\* Bug: a stop during connect leaves the loop without closing the new socket.
LinkedNoClose ==
    /\ worker = "linked"
    /\ Goto(IF stopEvent THEN "tail" ELSE "register")
    /\ UNCHANGED <<desired, health, events, socket, open, mine, callers, failures>>

\* A stop that arrived while connect was blocked: the connection is not published.
Linked ==
    /\ worker = "linked"
    /\ Goto(IF stopEvent THEN "clear" ELSE "register")
    /\ UNCHANGED <<desired, health, events, socket, open, mine, callers, failures>>

Register ==
    /\ worker = "register"
    /\ restartEvent' = FALSE
    /\ socket' = mySocket /\ connected' = TRUE
    /\ Goto("subscribe")
    /\ UNCHANGED <<desired, ready, market, stopEvent, open, mine, callers, failures>>

Subscribe ==
    /\ worker = "subscribe"
    /\ messages' = desired
    /\ Goto("send")
    /\ UNCHANGED <<desired, health, events, socket, open, mySocket, subscribed,
                   inbox, key, rotating, callers, failures>>

Send ==
    /\ worker = "send" /\ mySocket \in open
    /\ subscribed' = messages
    /\ Goto("receive")
    /\ UNCHANGED <<desired, health, events, socket, open, mySocket, messages, inbox,
                   key, rotating, callers, failures>>

\* Bug: the loop relies on the closed socket and does not look at the stop event.
ReceiveUnchecked ==
    /\ worker = "receive"
    /\ Goto("waiting")
    /\ UNCHANGED <<desired, health, events, socket, open, mine, callers, failures>>

Receive ==
    /\ worker = "receive"
    /\ Goto(IF stopEvent THEN "clear" ELSE "waiting")
    /\ UNCHANGED <<desired, health, events, socket, open, mine, callers, failures>>

ReceiveNothing ==
    /\ worker = "waiting" /\ mySocket \in open
    /\ Goto("receive")
    /\ UNCHANGED <<desired, health, events, socket, open, mine, callers, failures>>

\* A message of the broker carries packets of instruments subscribed on this socket.
ReceivePackets(keys) ==
    /\ worker = "waiting" /\ mySocket \in open
    /\ keys # {} /\ keys \subseteq subscribed
    /\ inbox' = keys
    /\ Goto("batch")
    /\ UNCHANGED <<desired, health, events, socket, open, mySocket, messages,
                   subscribed, key, rotating, callers, failures>>

\* A market-status packet: a change of status makes earlier prices unusable.
ReceiveStatus(status) ==
    /\ worker = "waiting" /\ mySocket \in open
    /\ market' = status
    /\ ready' = IF status # market THEN {} ELSE ready
    /\ Goto("receive")
    /\ UNCHANGED <<desired, connected, events, socket, open, mine, callers, failures>>

\* The closed socket ends send and receive; so can the network.
SocketFails ==
    /\ worker \in {"send", "waiting"}
    /\ \/ mySocket \notin open /\ UNCHANGED failures
       \/ Fails
    /\ Goto("raised")
    /\ UNCHANGED <<desired, health, events, socket, open, mine, callers>>

AfterPacket(rest) == Goto(IF rest = {} THEN "receive" ELSE "batch")

\* accept_packet, first part: an instrument no longer wanted is rejected.
Accept(k) ==
    /\ worker = "batch" /\ k \in inbox
    /\ inbox' = inbox \ {k}
    /\ IF k \in desired
       THEN key' = k /\ Goto("deliver")
       ELSE key' = NoKey /\ AfterPacket(inbox \ {k})
    /\ UNCHANGED <<desired, health, events, socket, open, mySocket, messages,
                   subscribed, rotating, callers, failures>>

\* The consumer takes the packet, refuses it, or raises.
Deliver ==
    /\ worker = "deliver"
    /\ \/ Goto("record") /\ UNCHANGED <<key, failures>>
       \/ AfterPacket(inbox) /\ key' = NoKey /\ UNCHANGED failures
       \/ Goto("raised") /\ key' = NoKey /\ Fails
    /\ UNCHANGED <<desired, health, events, socket, open, mySocket, messages,
                   subscribed, inbox, rotating, callers>>

\* Bug: the check made before the consumer ran is trusted.
StillWantedUnchecked == TRUE

\* accept_packet, second part: wanted is read again, after the consumer.
StillWanted == key \in desired

Record ==
    /\ worker = "record"
    /\ ready' = IF StillWanted THEN ready \cup {key} ELSE ready
    /\ key' = NoKey
    /\ AfterPacket(inbox)
    /\ UNCHANGED <<desired, connected, market, events, socket, open, mySocket,
                   messages, subscribed, inbox, rotating, callers, failures>>

\* The handler: a requested rotation is no failure.
Rotation ==
    /\ worker = "raised" /\ restartEvent
    /\ restartEvent' = FALSE /\ rotating' = TRUE
    /\ Goto("clear")
    /\ UNCHANGED <<desired, health, stopEvent, socket, open, mySocket, messages,
                   subscribed, inbox, key, callers, failures>>

StoppedWhileFailing ==
    /\ worker = "raised" /\ ~restartEvent /\ stopEvent
    /\ Goto("clear")
    /\ UNCHANGED <<desired, health, events, socket, open, mine, callers, failures>>

RecordFailure ==
    /\ worker = "raised" /\ ~restartEvent /\ ~stopEvent
    /\ connected' = FALSE /\ ready' = {}
    /\ Goto("clear")
    /\ UNCHANGED <<desired, market, events, socket, open, mine, callers, failures>>

ClearSocket ==
    /\ worker = "clear"
    /\ socket' = IF socket = mySocket THEN NoSocket ELSE socket
    /\ connected' = FALSE /\ ready' = {}
    /\ Goto("close")
    /\ UNCHANGED <<desired, market, events, open, mine, callers, failures>>

CloseSocket ==
    /\ worker = "close"
    /\ open' = open \ {mySocket}
    /\ mySocket' = NoSocket
    /\ messages' = {} /\ subscribed' = {} /\ inbox' = {} /\ key' = NoKey
    /\ Goto("tail")
    /\ UNCHANGED <<desired, health, events, socket, rotating, callers, failures>>

Tail ==
    /\ worker = "tail"
    /\ Goto(IF stopEvent THEN "exit" ELSE IF rotating THEN "top" ELSE "backoff")
    /\ UNCHANGED <<desired, health, events, socket, open, mine, callers, failures>>

BackOff ==
    /\ worker = "backoff"
    /\ Goto("top")
    /\ UNCHANGED <<desired, health, events, socket, open, mine, callers, failures>>

Exit ==
    /\ worker = "exit"
    /\ socket' = NoSocket
    /\ connected' = FALSE /\ ready' = {}
    /\ Goto("none")
    /\ UNCHANGED <<desired, market, events, open, mine, callers, failures>>

Worker ==
    \/ Top \/ BeginAttempt \/ ConnectFails \/ Linked \/ Register \/ Subscribe
    \/ \E s \in Sockets : Connect(s)
    \/ Send \/ Receive \/ ReceiveNothing \/ SocketFails
    \/ \E keys \in SUBSET Instruments : ReceivePackets(keys)
    \/ \E status \in {"OPEN", "CLOSED"} : ReceiveStatus(status)
    \/ \E k \in Instruments : Accept(k)
    \/ Deliver \/ Record \/ Rotation \/ StoppedWhileFailing \/ RecordFailure
    \/ ClearSocket \/ CloseSocket \/ Tail \/ BackOff \/ Exit

\* A packet's receipt grows older than data_stale_seconds.
GoesStale(k) ==
    /\ k \in ready
    /\ ready' = ready \ {k}
    /\ UNCHANGED <<desired, connected, market, events, socket, open, worker, mine,
                   callers, failures>>

-----------------------------------------------------------------------------
(* replace_instruments *)

\* Bug: the rotation is not announced to the worker's failure handler.
ReplaceUnannounced(wanted) ==
    /\ replacer = "idle" /\ wanted # desired
    /\ desired' = wanted /\ ready' = {}
    /\ rotated' = socket
    /\ replacer' = IF socket = NoSocket THEN "idle" ELSE "close"
    /\ UNCHANGED <<connected, market, events, socket, open, worker, mine, stopper,
                   taken, failures>>

\* Bug: the open connection is left to itself.
ReplaceKeepsSocket(wanted) ==
    /\ replacer = "idle" /\ wanted # desired
    /\ desired' = wanted /\ ready' = {}
    /\ restartEvent' = (restartEvent \/ Running)
    /\ UNCHANGED <<connected, market, stopEvent, socket, open, worker, mine, callers,
                   failures>>

Replace(wanted) ==
    /\ replacer = "idle" /\ wanted # desired
    /\ desired' = wanted /\ ready' = {}
    /\ restartEvent' = (restartEvent \/ Running)
    /\ rotated' = socket
    /\ replacer' = IF socket = NoSocket THEN "idle" ELSE "close"
    /\ UNCHANGED <<connected, market, stopEvent, socket, open, worker, mine, stopper,
                   taken, failures>>

CloseRotated ==
    /\ replacer = "close"
    /\ open' = open \ {rotated}
    /\ rotated' = NoSocket /\ replacer' = "idle"
    /\ UNCHANGED <<desired, health, events, socket, worker, mine, stopper, taken,
                   failures>>

-----------------------------------------------------------------------------
(* stop *)

BeginStop ==
    /\ stopper = "idle"
    /\ stopEvent' = TRUE
    /\ stopper' = "mark"
    /\ UNCHANGED <<desired, health, restartEvent, socket, open, worker, mine, replacer,
                   rotated, taken, failures>>

MarkStopping ==
    /\ stopper = "mark"
    /\ connected' = FALSE /\ ready' = {}
    /\ taken' = socket
    /\ stopper' = IF ~Running /\ socket = NoSocket THEN "idle" ELSE "close"
    /\ UNCHANGED <<desired, market, events, socket, open, worker, mine, replacer,
                   rotated, failures>>

CloseTaken ==
    /\ stopper = "close"
    /\ open' = open \ {taken}
    /\ taken' = NoSocket /\ stopper' = "join"
    /\ UNCHANGED <<desired, health, events, socket, worker, mine, replacer, rotated,
                   failures>>

\* The join ends with the thread, or with its timeout.
Joined ==
    /\ stopper = "join"
    /\ stopper' = "idle"
    /\ UNCHANGED <<desired, health, events, socket, open, worker, mine, replacer,
                   rotated, taken, failures>>

Stop == MarkStopping \/ CloseTaken \/ Joined

Next ==
    \/ Start \/ Worker \/ CloseRotated \/ BeginStop \/ Stop
    \/ \E wanted \in Sets : Replace(wanted)
    \/ \E k \in Instruments : GoesStale(k)

Spec == Init /\ [][Next]_vars

\* A live thread keeps running: connect and the consumer return, sleeps end.  A call
\* that was begun is finished; nobody has to start, replace or stop.
FairSpec ==
    Spec /\ WF_vars(Worker) /\ WF_vars(CloseRotated) /\ WF_vars(Stop)

-----------------------------------------------------------------------------

TypeOK ==
    /\ desired \in Sets
    /\ connected \in BOOLEAN /\ ready \subseteq Instruments
    /\ market \in MarketStatuses
    /\ stopEvent \in BOOLEAN /\ restartEvent \in BOOLEAN
    /\ socket \in Sockets \cup {NoSocket} /\ open \subseteq Sockets
    /\ worker \in WorkerLabels
    /\ mySocket \in Sockets \cup {NoSocket}
    /\ messages \subseteq Instruments /\ subscribed \subseteq Instruments
    /\ inbox \subseteq Instruments /\ key \in Instruments \cup {NoKey}
    /\ rotating \in BOOLEAN
    /\ replacer \in {"idle", "close"} /\ rotated \in Sockets \cup {NoSocket}
    /\ stopper \in {"idle", "mark", "close", "join"}
    /\ taken \in Sockets \cup {NoSocket}
    /\ failures \in 0 .. MaxFailures

\* An instrument counts as ready only while it is wanted: a packet whose consumer ran
\* while its instrument was replaced does not come back into the ready set.
ReadyIsWanted == ready \subseteq desired

\* Once stop has marked the supervisor no instrument is healthy, whatever the worker
\* was doing with a packet or a connection at that moment.
NotHealthyAfterStop ==
    stopEvent /\ stopper # "mark" => ~\E k \in Instruments : InstrumentsHealthy({k})

\* A worker that has ended leaves no connection open, whoever closed what.
NoSocketLeft == worker = "none" => open = {}

\* A failure is recorded, and a backoff taken, only for a failure: not because
\* replace_instruments closed the socket ("treated as a requested rotation rather
\* than a transport failure").
RotationIsNoFailure ==
    [][RecordFailure => mySocket = NoSocket \/ mySocket \in open]_vars

\* An instrument set that stays wanted by a running feed is in the end subscribed on
\* a connection that is open.
Subscribed(wanted) == mySocket \in open /\ subscribed = wanted
ReplacementSubscribed ==
    \A wanted \in Sets :
        desired = wanted /\ Running ~>
            Subscribed(wanted) \/ desired # wanted \/ stopEvent

\* A stop ends the worker, wherever it was.
StopEndsWorker == stopEvent ~> ~Running
-----------------------------------------------------------------------------
(* Refinement *)

Feed == INSTANCE FeedThread
    WITH Generations <- Sets, Nothing <- {},
         thread <- IF ~Running THEN "none" ELSE IF stopEvent THEN "told" ELSE "running",
         subscribes <- IF Running THEN desired ELSE {}

\* The supervisor implements FeedThread, as which the market data service takes its feeds:
\* no failure, rotation or packet ends the worker's thread, only a stop does, and no step
\* takes a stop back while the thread is there (start, stop, _run_loop, dhan_live.py).
ImplementsFeedThread == Feed!ThreadSpec
=============================================================================
