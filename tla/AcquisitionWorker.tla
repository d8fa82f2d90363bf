------------------------- MODULE AcquisitionWorker -------------------------
(***************************************************************************)
(* The acquisition worker's schedule (tq/ingestion/dhan_acquisition.py):    *)
(* which symbols the next provider cycle reads, how long the worker sleeps  *)
(* after it, and the two events by which HTTP threads (a new focus) and the *)
(* closing thread (stop) wake it.  What a cycle does is only its outcome    *)
(* here: rate limited, clean, or failed.                                    *)
(***************************************************************************)
EXTENDS Integers, Sequences, FiniteSets

CONSTANTS
    Symbols,         \* the configured universe, in its order
    NoFocus,         \* no symbol focused yet
    Clients,         \* HTTP threads that request a focus
    PollInterval, InitialBackoff, MaximumBackoff  \* delays, in ticks

Universe == {Symbols[i] : i \in DOMAIN Symbols}

ASSUME WorkerAssumption ==
    /\ Symbols \in Seq(Universe) /\ Len(Symbols) \in Nat \ {0}
    /\ \A i, j \in DOMAIN Symbols : Symbols[i] = Symbols[j] => i = j
    /\ NoFocus \notin Universe
    /\ PollInterval \in Nat /\ InitialBackoff \in Nat \ {0}
    /\ MaximumBackoff \in Nat \ {0} /\ MaximumBackoff >= PollInterval

VARIABLES
    stopEvent, wake,           \* _stop_event and _reschedule_event
    focused, pending, cursor,  \* focus, its pending refresh, background rotation
    worker, batch,             \* where the worker is, and the symbols of its cycle
    backoff,                   \* _rate_limit_backoff
    left,                      \* ticks left of the current wait
    client,                    \* where each request_focus call is
    stopper                    \* where a stop call is

vars == <<stopEvent, wake, focused, pending, cursor, worker, batch, backoff,
          left, client, stopper>>

WorkerLabels == {"none", "check", "clear", "select", "cycle", "wait", "cooldown",
                 "woken"}

Running == worker # "none"
Smaller(a, b) == IF a <= b THEN a ELSE b

Init ==
    /\ stopEvent = FALSE /\ wake = FALSE
    /\ focused = NoFocus /\ pending = FALSE /\ cursor = 0
    /\ worker = "none" /\ batch = {}
    /\ backoff = 0 /\ left = 0
    /\ client = [c \in Clients |-> "idle"]
    /\ stopper = "idle"

-----------------------------------------------------------------------------
(* The worker's thread *)

\* The service starts its acquisition once: stop closes the provider client.
Start ==
    /\ ~Running /\ stopper = "idle" /\ ~stopEvent
    /\ wake' = FALSE /\ stopEvent' = FALSE
    /\ worker' = "check"
    /\ UNCHANGED <<focused, pending, cursor, batch, backoff, left, client, stopper>>

Check ==
    /\ worker = "check"
    /\ worker' = IF stopEvent THEN "none" ELSE "clear"
    /\ UNCHANGED <<stopEvent, wake, focused, pending, cursor, batch, backoff, left,
                   client, stopper>>

ClearWake ==
    /\ worker = "clear"
    /\ wake' = FALSE
    /\ worker' = "select"
    /\ UNCHANGED <<stopEvent, focused, pending, cursor, batch, backoff, left,
                   client, stopper>>

Position(s) == CHOOSE i \in DOMAIN Symbols : Symbols[i] = s

\* The symbols the rotation runs over: without a focus all, else the others.
BackgroundOf(f) ==
    IF f = NoFocus THEN Symbols
    ELSE [i \in 1 .. Len(Symbols) - 1 |-> Symbols[IF i < Position(f) THEN i ELSE i + 1]]
Background == BackgroundOf(focused)
Turn(seq) == seq[(cursor % Len(seq)) + 1]

\* Bug: the cursor is not moved.
AdvancedNever(seq) == cursor

\* Bug: the cursor is wrapped by the universe, not by what it runs over.
AdvancedInUniverse(seq) == (cursor + 1) % Len(Symbols)

Advanced(seq) == (cursor + 1) % Len(seq)

\* worker_cycle_symbols: a new focus alone, else the focus and one in rotation.
Exclusive == Len(Symbols) = 1 \/ (focused # NoFocus /\ pending)

SelectFocus ==
    /\ worker = "select" /\ Exclusive
    /\ batch' = IF Len(Symbols) = 1 THEN Universe ELSE {focused}
    /\ pending' = FALSE
    /\ worker' = "cycle"
    /\ UNCHANGED <<stopEvent, wake, focused, cursor, backoff, left, client, stopper>>

SelectRotation ==
    /\ worker = "select" /\ ~Exclusive
    /\ batch' = {Turn(Background)} \cup ({focused} \ {NoFocus})
    /\ cursor' = Advanced(Background)
    /\ worker' = "cycle"
    /\ UNCHANGED <<stopEvent, wake, focused, pending, backoff, left, client, stopper>>

\* What the cycle did to the backoff: every rate-limited cycle in a row doubles it up
\* to the maximum, a clean one ends it, a failed one leaves it.
Outcomes == {"limited", "clean", "failed"}
NextBackoff(outcome) ==
    CASE outcome = "limited" ->
            Smaller(MaximumBackoff, IF backoff = 0 THEN InitialBackoff ELSE 2 * backoff)
      [] outcome = "clean"   -> 0
      [] outcome = "failed"  -> backoff

\* Bug: the event is cleared between the cycle and the sleep.
CycleClearsWake(outcome, delay) ==
    /\ worker = "cycle"
    /\ backoff' = NextBackoff(outcome)
    /\ delay <= PollInterval \/ (outcome = "failed" /\ backoff' = 0)
    /\ wake' = FALSE
    /\ IF backoff' > 0
       THEN worker' = "cooldown" /\ left' = Smaller(MaximumBackoff, delay + backoff')
       ELSE worker' = "wait" /\ left' = delay
    /\ batch' = {}
    /\ UNCHANGED <<stopEvent, focused, pending, cursor, client, stopper>>

\* The cycle ends after part of the poll interval, delay being the rest; a cycle
\* that raised waits longer.  Under a backoff the wait is a cooldown.
Cycle(outcome, delay) ==
    /\ worker = "cycle"
    /\ backoff' = NextBackoff(outcome)
    /\ delay <= PollInterval \/ (outcome = "failed" /\ backoff' = 0)
    /\ IF backoff' > 0
       THEN worker' = "cooldown" /\ left' = Smaller(MaximumBackoff, delay + backoff')
       ELSE worker' = "wait" /\ left' = delay
    /\ batch' = {}
    /\ UNCHANGED <<stopEvent, wake, focused, pending, cursor, client, stopper>>

\* A normal wait ends when the event is set or the time is over.
WaitEnds ==
    /\ worker = "wait" /\ (wake \/ left = 0)
    /\ left' = 0
    /\ worker' = "check"
    /\ UNCHANGED <<stopEvent, wake, focused, pending, cursor, batch, backoff,
                   client, stopper>>

\* Bug: any event ends the cooldown.
CooldownEndsWoken ==
    /\ worker = "cooldown" /\ (stopEvent \/ wake \/ left = 0)
    /\ worker' = "check"
    /\ UNCHANGED <<stopEvent, wake, focused, pending, cursor, batch, backoff, left,
                   client, stopper>>

\* A cooldown is left for a stop or at its deadline, not for the event.
CooldownEnds ==
    /\ worker = "cooldown" /\ (stopEvent \/ left = 0)
    /\ worker' = "check"
    /\ UNCHANGED <<stopEvent, wake, focused, pending, cursor, batch, backoff, left,
                   client, stopper>>

CooldownWoken ==
    /\ worker = "cooldown" /\ ~stopEvent /\ left > 0 /\ wake
    /\ worker' = "woken"
    /\ UNCHANGED <<stopEvent, wake, focused, pending, cursor, batch, backoff, left,
                   client, stopper>>

ResumeCooldown ==
    /\ worker = "woken"
    /\ IF stopEvent THEN worker' = "check" /\ UNCHANGED wake
                    ELSE worker' = "cooldown" /\ wake' = FALSE
    /\ UNCHANGED <<stopEvent, focused, pending, cursor, batch, backoff, left,
                   client, stopper>>

Work ==
    \/ Check \/ ClearWake \/ SelectFocus \/ SelectRotation
    \/ \E outcome \in Outcomes, delay \in 0 .. MaximumBackoff : Cycle(outcome, delay)
    \/ WaitEnds \/ CooldownEnds \/ CooldownWoken \/ ResumeCooldown

Tick ==
    /\ left > 0
    /\ left' = left - 1
    /\ UNCHANGED <<stopEvent, wake, focused, pending, cursor, worker, batch, backoff,
                   client, stopper>>

-----------------------------------------------------------------------------
(* The threads that wake it *)

RequestFocus(c, s) ==
    /\ client[c] = "idle" /\ s # focused
    /\ focused' = s /\ pending' = TRUE
    /\ client' = [client EXCEPT ![c] = "signal"]
    /\ UNCHANGED <<stopEvent, wake, cursor, worker, batch, backoff, left, stopper>>

SignalFocus(c) ==
    /\ client[c] = "signal"
    /\ wake' = TRUE
    /\ client' = [client EXCEPT ![c] = "idle"]
    /\ UNCHANGED <<stopEvent, focused, pending, cursor, worker, batch, backoff, left,
                   stopper>>

BeginStop ==
    /\ stopper = "idle"
    /\ stopEvent' = TRUE
    /\ stopper' = "signal"
    /\ UNCHANGED <<wake, focused, pending, cursor, worker, batch, backoff, left,
                   client>>

SignalStop ==
    /\ stopper = "signal"
    /\ wake' = TRUE
    /\ stopper' = "join"
    /\ UNCHANGED <<stopEvent, focused, pending, cursor, worker, batch, backoff, left,
                   client>>

\* The join ends with the thread, or with its timeout.
StopReturns ==
    /\ stopper = "join"
    /\ stopper' = "idle"
    /\ UNCHANGED <<stopEvent, wake, focused, pending, cursor, worker, batch, backoff,
                   left, client>>

Next ==
    \/ Start \/ Work \/ Tick \/ BeginStop \/ SignalStop \/ StopReturns
    \/ \E c \in Clients : SignalFocus(c) \/ \E s \in Universe : RequestFocus(c, s)

Spec == Init /\ [][Next]_vars

\* The worker's thread runs, time passes, and a call that was begun is finished.
Fairness ==
    /\ WF_vars(Work) /\ WF_vars(Tick) /\ WF_vars(SignalStop)
    /\ \A c \in Clients : WF_vars(SignalFocus(c))

-----------------------------------------------------------------------------

TypeOK ==
    /\ stopEvent \in BOOLEAN /\ wake \in BOOLEAN
    /\ focused \in Universe \cup {NoFocus} /\ pending \in BOOLEAN
    /\ cursor \in 0 .. Len(Symbols) - 1
    /\ worker \in WorkerLabels /\ batch \subseteq Universe
    /\ backoff \in 0 .. MaximumBackoff
    /\ left \in 0 .. MaximumBackoff
    /\ client \in [Clients -> {"idle", "signal"}]
    /\ stopper \in {"idle", "signal", "join"}

\* No focus request sleeps through a normal poll: while one is pending, the sleeping
\* worker's event is set or about to be ("clearing before reading focus avoids losing
\* a focus update").
NoFocusSleepsOn ==
    worker = "wait" /\ pending => wake \/ \E c \in Clients : client[c] = "signal"

\* A provider cycle never begins inside a rate-limit cooldown, however often the
\* selection changes ("without letting selection churn bypass a 429 cooldown").
CooldownHonoured == worker \in {"clear", "select", "cycle"} => left = 0

\* As long as the focus stays where it is, every symbol keeps getting its cycles,
\* whatever fails ("so one bad contract cannot starve every other market").
EveryMarketServed ==
    \A f \in Universe \cup {NoFocus}, s \in Universe :
        <>[](focused = f /\ Running /\ ~stopEvent) =>
            []<>(worker = "cycle" /\ s \in batch)

\* A stop that has set both events finds no worker asleep that they do not wake
\* ("wake a normal poll immediately; stop() does too").
StopWakes == stopEvent /\ stopper = "join" /\ worker = "wait" => wake
=============================================================================
