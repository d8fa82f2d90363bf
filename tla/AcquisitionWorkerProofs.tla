---------------------- MODULE AcquisitionWorkerProofs ----------------------
(***************************************************************************)
(* Proofs about AcquisitionWorker for any universe, any number of HTTP      *)
(* threads and any delays: a focus request wakes the worker, nothing but    *)
(* time or a stop ends a cooldown, and every market is served in turn.      *)
(***************************************************************************)
EXTENDS AcquisitionRotation, TLAPS

\* From the moment the focus was read until the worker sleeps, a request made since
\* has set the event or is about to.
RequestsSeen ==
    worker \in {"cycle", "wait"} /\ pending =>
        wake \/ \E c \in Clients : client[c] = "signal"

\* Outside a wait no time is left to wait, unless a stop cut a cooldown short: then
\* the worker goes no further than its next look at the stop event.
TimeIsUp ==
    /\ worker \in {"clear", "select", "cycle"} => left = 0
    /\ worker \in {"none", "check"} => left = 0 \/ stopEvent

\* Only a focus can be pending.
PendingFocus == pending => focused # NoFocus

ClientsTyped == client \in [Clients -> {"idle", "signal"}]

WakeInv == ClientsTyped /\ PendingFocus /\ RequestsSeen /\ TimeIsUp

\* The worker's steps.
LEMMA WorkStep ==
    ASSUME WakeInv, Work
    PROVE  WakeInv'
<1> USE DEF WakeInv, ClientsTyped, PendingFocus, RequestsSeen, TimeIsUp
<1>1. CASE Check
  BY <1>1 DEF Check
<1>2. CASE ClearWake
  BY <1>2 DEF ClearWake
<1>3. CASE SelectFocus
  BY <1>3 DEF SelectFocus
<1>4. CASE SelectRotation
  BY <1>4 DEF SelectRotation, Exclusive
<1>5. ASSUME NEW outcome \in Outcomes, NEW delay \in 0 .. MaximumBackoff,
             Cycle(outcome, delay)
      PROVE  WakeInv'
  BY <1>5 DEF Cycle
<1>6. CASE WaitEnds
  BY <1>6 DEF WaitEnds
<1>7. CASE CooldownEnds
  BY <1>7 DEF CooldownEnds
<1>8. CASE CooldownWoken
  BY <1>8 DEF CooldownWoken
<1>9. CASE ResumeCooldown
  BY <1>9 DEF ResumeCooldown
<1>10. QED
  BY <1>1, <1>2, <1>3, <1>4, <1>5, <1>6, <1>7, <1>8, <1>9 DEF Work

\* Every other step.
LEMMA WakeStep ==
    ASSUME WorkerAssumption, WakeInv, [Next]_vars
    PROVE  WakeInv'
<1> USE DEF WakeInv, ClientsTyped, PendingFocus, RequestsSeen, TimeIsUp
<1>1. CASE Start
  BY <1>1 DEF Start, Running
<1>2. CASE Work
  BY <1>2, WorkStep
<1>3. CASE Tick
  BY <1>3 DEF Tick
<1>4. CASE BeginStop
  BY <1>4 DEF BeginStop
<1>5. CASE SignalStop
  BY <1>5 DEF SignalStop
<1>6. CASE StopReturns
  BY <1>6 DEF StopReturns
<1>7. ASSUME NEW c \in Clients, SignalFocus(c)
      PROVE  WakeInv'
  BY <1>7 DEF SignalFocus
<1>8. ASSUME NEW c \in Clients, NEW s \in Universe, RequestFocus(c, s)
      PROVE  WakeInv'
  <2>1. client'[c] = "signal"
    BY <1>8 DEF RequestFocus
  <2>2. focused' # NoFocus
    BY <1>8, WorkerAssumption DEF RequestFocus
  <2>3. QED
    BY <1>8, <2>1, <2>2 DEF RequestFocus
<1>9. CASE UNCHANGED vars
  BY <1>9 DEF vars
<1>10. QED
  BY <1>1, <1>2, <1>3, <1>4, <1>5, <1>6, <1>7, <1>8, <1>9 DEF Next

\* Every reachable state of the schedule satisfies the strengthening.
LEMMA WakeInvariant == Spec => []WakeInv
<1>1. Init => WakeInv
  BY DEF Init, WakeInv, ClientsTyped, PendingFocus, RequestsSeen, TimeIsUp
<1>2. WakeInv /\ [Next]_vars => WakeInv'
  BY WakeStep, WorkerAssumption
<1>3. QED
  BY <1>1, <1>2, PTL DEF Spec

\* No focus request sleeps through a normal poll: the event is cleared before the
\* focus is read, never between the reading and the sleep.
THEOREM NoFocusSleepsOnTheorem == Spec => []NoFocusSleepsOn
<1>1. WakeInv => NoFocusSleepsOn
  BY DEF WakeInv, RequestsSeen, NoFocusSleepsOn
<1>2. QED
  BY <1>1, WakeInvariant, PTL

\* No provider cycle begins inside a rate-limit cooldown.
THEOREM CooldownHonouredTheorem == Spec => []CooldownHonoured
<1>1. WakeInv => CooldownHonoured
  BY DEF WakeInv, TimeIsUp, CooldownHonoured
<1>2. QED
  BY <1>1, WakeInvariant, PTL

-----------------------------------------------------------------------------
(* What the rotation runs over *)

\* The background of a focus is the universe without it, each symbol once.
LEMMA BackgroundSymbols ==
    ASSUME WorkerAssumption, NEW f \in Universe \cup {NoFocus}
    PROVE  /\ BackgroundOf(f) \in Seq(Universe)
           /\ Len(BackgroundOf(f)) = IF f = NoFocus THEN Len(Symbols) ELSE Len(Symbols) - 1
           /\ \A i, j \in 1 .. Len(BackgroundOf(f)) :
                 BackgroundOf(f)[i] = BackgroundOf(f)[j] => i = j
           /\ \A i \in 1 .. Len(BackgroundOf(f)) : BackgroundOf(f)[i] \in Universe \ {f}
           /\ \A s \in Universe \ {f} :
                 \E i \in 1 .. Len(BackgroundOf(f)) : BackgroundOf(f)[i] = s
<1> DEFINE n == Len(Symbols)
<1>1. /\ n \in Nat \ {0} /\ DOMAIN Symbols = 1 .. n
      /\ \A i \in 1 .. n : Symbols[i] \in Universe
      /\ \A i, j \in 1 .. n : Symbols[i] = Symbols[j] => i = j
      /\ \A s \in Universe : \E i \in 1 .. n : Symbols[i] = s
  BY DEF WorkerAssumption, Universe
<1>2. CASE f = NoFocus
  <2>1. BackgroundOf(f) = Symbols
    BY <1>2 DEF BackgroundOf
  <2>2. Symbols \in Seq(Universe) /\ NoFocus \notin Universe
    BY DEF WorkerAssumption
  <2>3. QED
    BY <1>1, <1>2, <2>1, <2>2
<1>3. CASE f # NoFocus
  <2> DEFINE at == Position(f)
             From(i) == IF i < at THEN i ELSE i + 1
             others == [i \in 1 .. n - 1 |-> Symbols[From(i)]]
  <2>1. at \in 1 .. n /\ Symbols[at] = f
    BY <1>1, <1>3 DEF Position
  <2>2. BackgroundOf(f) = others
    BY <1>3 DEF BackgroundOf
  <2> HIDE DEF at
  <2>3. \A i \in 1 .. n - 1 : From(i) \in 1 .. n /\ From(i) # at
    BY <1>1, <2>1
  <2>4. \A i, j \in 1 .. n - 1 : From(i) = From(j) => i = j
    BY <1>1, <2>1
  <2>5. \A k \in 1 .. n : k # at => \E i \in 1 .. n - 1 : From(i) = k
    <3> SUFFICES ASSUME NEW k \in 1 .. n, k # at
                 PROVE  \E i \in 1 .. n - 1 : From(i) = k
      OBVIOUS
    <3>1. CASE k < at
      BY <1>1, <2>1, <3>1
    <3>2. CASE k > at
      <4>1. k - 1 \in 1 .. n - 1 /\ From(k - 1) = k
        BY <1>1, <2>1, <3>2
      <4>2. QED
        BY <4>1
    <3>3. QED
      BY <1>1, <2>1, <3>1, <3>2
  <2> HIDE DEF From
  <2>6. others \in [1 .. n - 1 -> Universe] /\ n - 1 \in Nat
    BY <1>1, <2>3
  <2>7. others \in Seq(Universe) /\ Len(others) = n - 1
    BY <2>6
  <2>8. \A i \in 1 .. n - 1 : others[i] = Symbols[From(i)]
    OBVIOUS
  <2> HIDE DEF others, n
  <2>9. \A i, j \in 1 .. n - 1 : others[i] = others[j] => i = j
    BY <1>1, <2>3, <2>4, <2>8
  <2>10. \A i \in 1 .. n - 1 : others[i] \in Universe \ {f}
    BY <1>1, <2>1, <2>3, <2>8
  <2>11. ASSUME NEW s \in Universe \ {f}
         PROVE  \E i \in 1 .. n - 1 : others[i] = s
    <3>1. PICK k \in 1 .. n : Symbols[k] = s
      BY <1>1
    <3>2. k # at
      BY <2>1, <3>1
    <3>3. PICK i \in 1 .. n - 1 : From(i) = k
      BY <2>5, <3>2
    <3>4. QED
      BY <2>8, <3>1, <3>3
  <2>12. QED
    BY <1>3, <2>2, <2>7, <2>9, <2>10, <2>11 DEF n
<1>4. QED
  BY <1>2, <1>3

\* The cursor, which a shorter background may have left just beyond its end.
LEMMA Wrapped ==
    ASSUME NEW m \in Nat \ {0}, NEW k \in 0 .. m
    PROVE  k % m = IF k = m THEN 0 ELSE k
<1>1. CASE k = m
  BY <1>1
<1>2. CASE k # m
  BY <1>2
<1>3. QED
  BY <1>1, <1>2

\* The place after it.
LEMMA WrappedNext ==
    ASSUME NEW m \in Nat \ {0}, NEW k \in 0 .. m
    PROVE  (k + 1) % m = IF (k % m) + 1 = m THEN 0 ELSE (k % m) + 1
<1>1. 1 % m = IF m = 1 THEN 0 ELSE 1
  OBVIOUS
<1>2. CASE k = m
  <2>1. (k + 1) % m = 1 % m
    BY <1>2
  <2>2. k % m = 0
    BY <1>2, Wrapped
  <2>3. QED
    BY <1>1, <2>1, <2>2
<1>3. CASE k # m
  <2>1. k % m = k
    BY <1>3, Wrapped
  <2>2. k + 1 \in 0 .. m
    BY <1>3
  <2>3. (k + 1) % m = IF k + 1 = m THEN 0 ELSE k + 1
    BY <2>2, Wrapped
  <2>4. QED
    BY <2>1, <2>3
<1>4. QED
  BY <1>2, <1>3

-----------------------------------------------------------------------------
(* Types *)

\* A cursor of the universe is within what the rotation runs over, or just beyond its end.
LEMMA CursorWithin ==
    ASSUME WorkerAssumption, NEW f \in Universe \cup {NoFocus},
           NEW k \in 0 .. Len(Symbols) - 1
    PROVE  Len(BackgroundOf(f)) \in Nat /\ k \in 0 .. Len(BackgroundOf(f))
<1>1. Len(Symbols) \in Nat \ {0}
  BY DEF WorkerAssumption
<1>2. Len(BackgroundOf(f)) = IF f = NoFocus THEN Len(Symbols) ELSE Len(Symbols) - 1
  BY BackgroundSymbols
<1>3. QED
  BY <1>1, <1>2

\* A cycle with a turn of the rotation finds a symbol for it.
LEMMA RotationRuns ==
    ASSUME WorkerAssumption, TypeOK, ~Exclusive
    PROVE  Len(Background) \in Nat \ {0} /\ cursor \in 0 .. Len(Background)
<1>1. Len(Symbols) \in Nat \ {0, 1}
  BY DEF WorkerAssumption, Exclusive
<1>2. focused \in Universe \cup {NoFocus} /\ cursor \in 0 .. Len(Symbols) - 1
  BY DEF TypeOK
<1>3. Len(Background) = IF focused = NoFocus THEN Len(Symbols) ELSE Len(Symbols) - 1
  BY <1>2, BackgroundSymbols DEF Background
<1>4. QED
  BY <1>1, <1>2, <1>3

\* A turn of the rotation is a configured symbol other than the focus, and it leaves the
\* cursor at the next one.
LEMMA TurnOf ==
    ASSUME WorkerAssumption, TypeOK, ~Exclusive
    PROVE  LET m == Len(Background)
               c == cursor % m
           IN  /\ c \in 0 .. m - 1
               /\ Turn(Background) = Background[c + 1]
               /\ Background[c + 1] \in Universe \ {focused}
               /\ Advanced(Background) = IF c + 1 = m THEN 0 ELSE c + 1
<1> DEFINE m == Len(Background)
           c == cursor % m
<1>1. m \in Nat \ {0} /\ cursor \in 0 .. m
  BY RotationRuns
<1>2. c = IF cursor = m THEN 0 ELSE cursor
  BY <1>1, Wrapped
<1>3. (cursor + 1) % m = IF c + 1 = m THEN 0 ELSE c + 1
  BY <1>1, WrappedNext
<1>4. c \in 0 .. m - 1
  BY <1>1, <1>2
<1> HIDE DEF c
<1>5. c + 1 \in 1 .. m
  BY <1>1, <1>4
<1>6. Background[c + 1] \in Universe \ {focused}
  BY <1>5, BackgroundSymbols DEF Background, TypeOK
<1>7. QED
  BY <1>3, <1>4, <1>6 DEF Turn, Advanced, c

\* Every step keeps every variable in its type.
LEMMA WorkerTypeStep ==
    ASSUME WorkerAssumption, TypeOK, PendingFocus, [Next]_vars
    PROVE  TypeOK'
<1>1. Len(Symbols) \in Nat \ {0} /\ NoFocus \notin Universe
  BY DEF WorkerAssumption
<1>2. /\ PollInterval \in Nat /\ InitialBackoff \in Nat \ {0}
      /\ MaximumBackoff \in Nat \ {0} /\ PollInterval <= MaximumBackoff
  BY DEF WorkerAssumption
<1>3. CASE SelectFocus
  BY <1>3 DEF SelectFocus, Exclusive, TypeOK, PendingFocus, WorkerLabels
<1>4. CASE SelectRotation
  <2>1. /\ Turn(Background) \in Universe
        /\ Advanced(Background) \in 0 .. Len(Symbols) - 1
    <3> DEFINE m == Len(Background)
               c == cursor % m
    <3>1. /\ c \in 0 .. m - 1 /\ Turn(Background) \in Universe
          /\ Advanced(Background) = IF c + 1 = m THEN 0 ELSE c + 1
      BY <1>4, TurnOf DEF SelectRotation
    <3>2. m \in Nat /\ m <= Len(Symbols)
      <4>1. focused \in Universe \cup {NoFocus}
        BY DEF TypeOK
      <4>2. m = IF focused = NoFocus THEN Len(Symbols) ELSE Len(Symbols) - 1
        BY <4>1, BackgroundSymbols DEF Background
      <4> HIDE DEF m
      <4>3. QED
        BY <1>1, <4>2
    <3> HIDE DEF m, c
    <3>3. QED
      BY <1>1, <3>1, <3>2
  <2>2. batch' \subseteq Universe
    BY <1>4, <2>1 DEF SelectRotation, TypeOK
  <2>3. QED
    BY <1>4, <2>1, <2>2 DEF SelectRotation, TypeOK, WorkerLabels
<1>5. ASSUME NEW outcome \in Outcomes, NEW delay \in 0 .. MaximumBackoff, Cycle(outcome, delay)
      PROVE  TypeOK'
  <2>1. NextBackoff(outcome) \in 0 .. MaximumBackoff
    BY <1>2 DEF NextBackoff, Outcomes, Smaller, TypeOK
  <2>2. \A d \in Nat : Smaller(MaximumBackoff, d) \in 0 .. MaximumBackoff
    BY <1>2 DEF Smaller
  <2>3. backoff' \in 0 .. MaximumBackoff
    BY <1>5, <2>1 DEF Cycle
  <2>4. delay + backoff' \in Nat
    <3>1. delay \in Nat
      BY <1>2
    <3>2. backoff' \in Nat
      BY <1>2, <2>3
    <3>3. \A a, b \in Nat : a + b \in Nat
      OBVIOUS
    <3>4. QED
      BY ONLY <3>1, <3>2, <3>3
  <2>5. Smaller(MaximumBackoff, delay + backoff') \in 0 .. MaximumBackoff
    BY <2>2, <2>4
  <2>6. left' \in 0 .. MaximumBackoff
    BY <1>5, <2>5 DEF Cycle
  <2>7. QED
    BY <1>5, <2>3, <2>6 DEF Cycle, TypeOK, WorkerLabels
<1>6. CASE Check \/ ClearWake \/ WaitEnds \/ CooldownEnds \/ CooldownWoken \/ ResumeCooldown
  <2>1. 0 \in 0 .. MaximumBackoff
    BY <1>2
  <2>2. QED
    BY <1>6, <2>1 DEF Check, ClearWake, WaitEnds, CooldownEnds, CooldownWoken, ResumeCooldown,
                      TypeOK, WorkerLabels
<1>7. CASE Tick
  <2>1. left - 1 \in 0 .. MaximumBackoff
    BY <1>2, <1>7 DEF Tick, TypeOK
  <2>2. QED
    BY <1>7, <2>1 DEF Tick, TypeOK
<1>8. CASE Start \/ BeginStop \/ SignalStop \/ StopReturns \/ UNCHANGED vars
  BY <1>8 DEF Start, BeginStop, SignalStop, StopReturns, TypeOK, WorkerLabels, vars
<1>9. ASSUME NEW k \in Clients, SignalFocus(k) \/ \E s \in Universe : RequestFocus(k, s)
      PROVE  TypeOK'
  BY <1>9 DEF SignalFocus, RequestFocus, TypeOK
<1>10. QED
  BY <1>3, <1>4, <1>5, <1>6, <1>7, <1>8, <1>9 DEF Next, Work

LEMMA AlwaysTyped == Spec => [](TypeOK /\ WakeInv)
<1>1. Init => TypeOK
  <2>1. 0 \in 0 .. MaximumBackoff /\ 0 \in 0 .. Len(Symbols) - 1
    BY WorkerAssumption DEF WorkerAssumption
  <2>2. QED
    BY <2>1 DEF Init, TypeOK, WorkerLabels
<1>2. TypeOK /\ WakeInv /\ [Next]_vars => TypeOK'
  BY WorkerAssumption, WorkerTypeStep DEF WakeInv
<1>3. QED
  BY <1>1, <1>2, WakeInvariant, PTL DEF Spec

\* Every variable of the worker keeps its type: the cursor stays within the universe and a
\* cycle reads configured symbols only (_worker_cycle_symbols).
THEOREM WorkerTypeCorrectness == Spec => []TypeOK
  BY AlwaysTyped, PTL

-----------------------------------------------------------------------------
(* Turns *)

\* How many turns a rotation over m symbols, with its cursor at k, is away from the i-th.
Away(i, k, m) ==
    LET c == k % m
    IN  IF c < i THEN i - 1 - c ELSE i - 1 - c + m

\* The cycles a symbol has waited for, those before its turn, and the one a new focus has to
\* itself, are no more than the background has symbols.
Turns ==
    /\ waited \in [Universe -> Nat]
    /\ focused # NoFocus => waited[focused] = 0
    /\ \A i \in 1 .. Len(Background) :
          waited[Background[i]] + Away(i, cursor, Len(Background)) + (IF pending THEN 1 ELSE 0)
              <= Len(Background)

\* Every symbol is less turns away than there are symbols.
LEMMA AwayBounded ==
    ASSUME NEW m \in Nat \ {0}, NEW k \in 0 .. m, NEW i \in 1 .. m
    PROVE  Away(i, k, m) \in 0 .. m - 1
<1> DEFINE c == k % m
<1>1. c \in 0 .. m - 1
  BY Wrapped
<1>2. Away(i, k, m) = IF c < i THEN i - 1 - c ELSE i - 1 - c + m
  BY DEF Away
<1> HIDE DEF c
<1>3. QED
  BY <1>1, <1>2

\* A turn leaves the symbol it was at to the last, and brings every other one nearer.
LEMMA AwayNext ==
    ASSUME NEW m \in Nat \ {0}, NEW k \in 0 .. m, NEW i \in 1 .. m
    PROVE  Away(i, (k + 1) % m, m) = IF i = (k % m) + 1 THEN m - 1 ELSE Away(i, k, m) - 1
<1> DEFINE c == k % m
           d == IF c + 1 = m THEN 0 ELSE c + 1
<1>1. c \in 0 .. m - 1
  BY Wrapped
<1>2. (k + 1) % m = d
  BY WrappedNext
<1>3. d \in 0 .. m - 1
  BY <1>1
<1>4. d % m = d
  <2> HIDE DEF d
  <2>1. d \in 0 .. m /\ d # m
    BY <1>3
  <2>2. QED
    BY <2>1, Wrapped
<1>5. Away(i, d, m) = IF d < i THEN i - 1 - d ELSE i - 1 - d + m
  BY <1>4 DEF Away
<1>6. Away(i, k, m) = IF c < i THEN i - 1 - c ELSE i - 1 - c + m
  BY DEF Away
<1> HIDE DEF c
<1>7. Away(i, d, m) = IF i = c + 1 THEN m - 1 ELSE Away(i, k, m) - 1
  BY <1>1, <1>5, <1>6
<1>8. QED
  BY <1>2, <1>7 DEF c

\* Where nobody has waited yet, every symbol gets its turn in time.
LEMMA FreshTurns ==
    ASSUME WorkerAssumption, NEW f \in Universe \cup {NoFocus},
           NEW k \in 0 .. Len(Symbols) - 1, NEW i \in 1 .. Len(BackgroundOf(f))
    PROVE  /\ NobodyWaited[BackgroundOf(f)[i]] = 0
           /\ Away(i, k, Len(BackgroundOf(f))) \in 0 .. Len(BackgroundOf(f)) - 1
<1> DEFINE m == Len(BackgroundOf(f))
<1>1. BackgroundOf(f)[i] \in Universe
  BY BackgroundSymbols
<1>2. m \in Nat /\ k \in 0 .. m
  BY CursorWithin
<1>3. m \in Nat \ {0} /\ i \in 1 .. m
  BY <1>2
<1>4. Away(i, k, m) \in 0 .. m - 1
  BY <1>2, <1>3, AwayBounded
<1>5. QED
  BY <1>1, <1>4 DEF NobodyWaited

\* The count goes on by one at most.
LEMMA CountsOn ==
    ASSUME WorkerAssumption, NEW n \in Nat
    PROVE  OneMore(n) \in Nat /\ OneMore(n) <= n + 1
  BY DEF WorkerAssumption, OneMore, Smaller

\* A turn of the rotation serves the symbol it is at, and brings every other one nearer.
LEMMA RotationTurns ==
    ASSUME WorkerAssumption, TypeOK, Turns, SelectRotation,
           waited' = [s \in Universe |-> IF s \in batch' THEN 0 ELSE OneMore(waited[s])]
    PROVE  Turns'
<1> DEFINE m == Len(Background)
           c == cursor % m
           turn == Background[c + 1]
<1>1. m \in Nat \ {0} /\ cursor \in 0 .. m
  BY RotationRuns DEF SelectRotation
<1>2. /\ c \in 0 .. m - 1 /\ turn \in Universe \ {focused}
      /\ batch' = {turn} \cup ({focused} \ {NoFocus})
      /\ cursor' = (cursor + 1) % m
  BY TurnOf DEF SelectRotation, Advanced
<1>3. UNCHANGED <<focused, pending>> /\ Background' = Background
  BY DEF SelectRotation, Background
<1>4. /\ \A i, j \in 1 .. m : Background[i] = Background[j] => i = j
      /\ \A i \in 1 .. m : Background[i] \in Universe \ {focused}
  BY BackgroundSymbols DEF Background, TypeOK
<1>5. \A s \in Universe : waited'[s] = IF s \in batch' THEN 0 ELSE OneMore(waited[s])
  OBVIOUS
<1>6. waited' \in [Universe -> Nat] /\ (focused' # NoFocus => waited'[focused'] = 0)
  <2>1. \A s \in Universe : waited[s] \in Nat
    BY DEF Turns
  <2>2. focused' # NoFocus => focused' \in Universe /\ focused' \in batch'
    BY <1>2, <1>3 DEF TypeOK
  <2>3. QED
    BY <1>5, <2>1, <2>2, CountsOn
<1>7. ASSUME NEW i \in 1 .. m
      PROVE  waited'[Background[i]] + Away(i, cursor', m) + (IF pending THEN 1 ELSE 0) <= m
  <2> DEFINE w == waited[Background[i]]
             w2 == waited'[Background[i]]
             a == Away(i, cursor, m)
             a2 == Away(i, cursor', m)
             p == IF pending THEN 1 ELSE 0
  <2>1. Background[i] \in Universe \ {focused} /\ w \in Nat /\ w + a + p <= m
    BY <1>4 DEF Turns
  <2>2. c + 1 \in 1 .. m
    <3> HIDE DEF c, m
    <3>1. QED
      BY <1>1, <1>2
  <2>3. w2 \in Nat /\ w2 <= IF i = c + 1 THEN 0 ELSE w + 1
    <3>1. w2 = IF i = c + 1 THEN 0 ELSE OneMore(w)
      BY <1>2, <1>4, <1>5, <2>1, <2>2
    <3>2. OneMore(w) \in Nat /\ OneMore(w) <= w + 1
      BY <2>1, CountsOn
    <3> HIDE DEF w, w2, c
    <3>3. QED
      BY <3>1, <3>2
  <2>4. a2 = IF i = c + 1 THEN m - 1 ELSE a - 1
    <3> HIDE DEF m
    <3>1. QED
      BY <1>1, <1>2, AwayNext DEF c
  <2>5. a \in 0 .. m - 1
    <3> HIDE DEF m
    <3>1. QED
      BY <1>1, AwayBounded
  <2>6. p \in {0, 1}
    OBVIOUS
  <2> HIDE DEF w, w2, a, a2, p, c, m
  <2>7. w2 + a2 + p <= m
    BY <1>1, <2>1, <2>3, <2>4, <2>5, <2>6
  <2>8. QED
    BY <2>7 DEF w2, a2, p
<1>8. QED
  BY <1>3, <1>6, <1>7 DEF Turns

\* A new focus has one cycle to itself, which every other symbol waits for.
LEMMA FocusTurns ==
    ASSUME WorkerAssumption, TypeOK, PendingFocus, Turns, SelectFocus,
           waited' = [s \in Universe |-> IF s \in batch' THEN 0 ELSE OneMore(waited[s])]
    PROVE  Turns'
<1> DEFINE m == Len(Background)
<1>1. UNCHANGED <<focused, cursor>> /\ pending' = FALSE /\ Background' = Background
  BY DEF SelectFocus, Background
<1>2. \A s \in Universe : waited[s] \in Nat
  BY DEF Turns
<1>3. \A s \in Universe : waited'[s] = IF s \in batch' THEN 0 ELSE OneMore(waited[s])
  OBVIOUS
<1>4. focused # NoFocus => focused \in batch'
  BY DEF SelectFocus, TypeOK
<1>5. waited' \in [Universe -> Nat] /\ (focused' # NoFocus => waited'[focused'] = 0)
  BY <1>1, <1>2, <1>3, <1>4, CountsOn DEF TypeOK
<1>6. \A i \in 1 .. m : Background[i] \in Universe \ {focused}
  BY BackgroundSymbols DEF Background, TypeOK
<1>7. ASSUME NEW i \in 1 .. m
      PROVE  waited'[Background[i]] + Away(i, cursor, m) + 0 <= m
  <2> DEFINE w == waited[Background[i]]
             w2 == waited'[Background[i]]
             a == Away(i, cursor, m)
             p == IF pending THEN 1 ELSE 0
  <2>1. w \in Nat /\ w + a + p <= m /\ w2 \in Nat /\ w2 <= w + 1
    <3>1. w \in Nat /\ w + a + p <= m /\ (w2 = 0 \/ w2 = OneMore(w))
      BY <1>2, <1>3, <1>6 DEF Turns
    <3>2. OneMore(w) \in Nat /\ OneMore(w) <= w + 1
      BY <3>1, CountsOn
    <3> HIDE DEF w, w2, a, p, m
    <3>3. QED
      BY <3>1, <3>2
  <2>2. p = 1 \/ w2 = 0
    <3>1. CASE Len(Symbols) = 1
      BY <1>3, <1>6, <3>1 DEF SelectFocus
    <3>2. CASE pending
      BY <3>2
    <3>3. QED
      BY <3>1, <3>2 DEF SelectFocus, Exclusive
  <2>3. m \in Nat /\ a \in 0 .. m - 1
    <3>1. m \in Nat /\ cursor \in 0 .. m
      BY CursorWithin DEF Background, TypeOK
    <3> HIDE DEF m
    <3>2. m \in Nat \ {0}
      BY <3>1
    <3>3. QED
      BY <3>1, <3>2, AwayBounded
  <2>4. p \in {0, 1}
    OBVIOUS
  <2> HIDE DEF w, w2, a, p, m
  <2>5. w2 + a + 0 <= m
    BY <2>1, <2>2, <2>3, <2>4
  <2>6. QED
    BY <2>5 DEF w2, a
<1>8. QED
  BY <1>1, <1>5, <1>7 DEF Turns

\* A request starts the count anew, for the background of the new focus.
LEMMA RequestTurns ==
    ASSUME WorkerAssumption, TypeOK, NEW c \in Clients, NEW s \in Universe, RequestFocus(c, s),
           waited' = NobodyWaited
    PROVE  Turns'
<1>1. focused' = s /\ cursor' = cursor /\ Background' = BackgroundOf(s) /\ pending' = TRUE
  BY DEF RequestFocus, Background
<1>2. waited' \in [Universe -> Nat] /\ waited'[s] = 0
  BY DEF NobodyWaited
<1>3. ASSUME NEW i \in 1 .. Len(BackgroundOf(s))
      PROVE  waited'[BackgroundOf(s)[i]] + Away(i, cursor, Len(BackgroundOf(s))) + 1
                 <= Len(BackgroundOf(s))
  <2> DEFINE m == Len(BackgroundOf(s))
             w == waited'[BackgroundOf(s)[i]]
             a == Away(i, cursor, m)
  <2>1. w = 0 /\ a \in 0 .. m - 1
    BY FreshTurns DEF TypeOK
  <2>2. m \in Nat
    BY CursorWithin DEF TypeOK
  <2> HIDE DEF m, w, a
  <2>3. w + a + 1 <= m
    BY <2>1, <2>2
  <2>4. QED
    BY <2>3 DEF w, a, m
<1>4. QED
  BY <1>1, <1>2, <1>3 DEF Turns

\* Every step keeps what the symbols wait for.
LEMMA TurnsStep ==
    ASSUME WorkerAssumption, TypeOK, WakeInv, Turns, [RotationNext]_rotationVars
    PROVE  Turns'
<1>1. CASE Next /\ waited' = Waited
  <2>1. CASE SelectRotation
    <3>1. focused' = focused /\ CycleBegins
      BY <2>1 DEF SelectRotation, CycleBegins
    <3>2. QED
      BY <1>1, <2>1, <3>1, RotationTurns DEF Waited
  <2>2. CASE SelectFocus
    <3>1. focused' = focused /\ CycleBegins
      BY <2>2 DEF SelectFocus, CycleBegins
    <3>2. QED
      BY <1>1, <2>2, <3>1, FocusTurns DEF Waited, WakeInv
  <2>3. ASSUME NEW c \in Clients, NEW s \in Universe, RequestFocus(c, s)
        PROVE  Turns'
    <3>1. waited' = NobodyWaited
      BY <1>1, <2>3 DEF RequestFocus, Waited
    <3>2. QED
      BY <2>3, <3>1, RequestTurns
  <2>4. CASE /\ ~SelectRotation /\ ~SelectFocus
             /\ \A c \in Clients, s \in Universe : ~RequestFocus(c, s)
    <3>1. UNCHANGED <<focused, pending, cursor>> /\ ~CycleBegins
      BY <1>1, <2>4
         DEF Next, Work, Start, Check, ClearWake, Cycle, WaitEnds, CooldownEnds, CooldownWoken,
             ResumeCooldown, Tick, SignalFocus, BeginStop, SignalStop, StopReturns, CycleBegins
    <3>2. waited' = waited /\ Background' = Background
      BY <1>1, <3>1 DEF Waited, Background
    <3>3. QED
      BY <3>1, <3>2 DEF Turns
  <2>5. QED
    BY <2>1, <2>2, <2>3, <2>4
<1>2. CASE UNCHANGED rotationVars
  <2>1. UNCHANGED <<focused, pending, cursor, waited>> /\ Background' = Background
    BY <1>2 DEF rotationVars, vars, Background
  <2>2. QED
    BY <2>1 DEF Turns
<1>3. QED
  BY <1>1, <1>2 DEF RotationNext

\* The count only watches the worker.
LEMMA RotationWorks == RotationSpec => Spec
<1>1. RotationInit => Init
  BY DEF RotationInit
<1>2. [RotationNext]_rotationVars => [Next]_vars
  BY DEF RotationNext, rotationVars
<1>3. QED
  BY <1>1, <1>2, PTL DEF RotationSpec, Spec

\* However the focus moves and wherever it leaves the cursor, the focused market is in every
\* cycle and no market waits for more cycles than the background has (_worker_cycle_symbols).
THEOREM ServedInTurnTheorem == RotationSpec => []ServedInTurn
<1>1. RotationInit => Turns
  <2>1. SUFFICES ASSUME RotationInit PROVE Turns
    OBVIOUS
  <2>2. /\ waited = NobodyWaited /\ pending = FALSE /\ cursor = 0 /\ focused = NoFocus
        /\ Background = BackgroundOf(NoFocus)
    BY <2>1 DEF RotationInit, Init, Background
  <2>3. 0 \in 0 .. Len(Symbols) - 1 /\ NoFocus \in Universe \cup {NoFocus}
    BY WorkerAssumption DEF WorkerAssumption
  <2>4. ASSUME NEW i \in 1 .. Len(BackgroundOf(NoFocus))
        PROVE  waited[BackgroundOf(NoFocus)[i]] + Away(i, 0, Len(BackgroundOf(NoFocus))) + 0
                   <= Len(BackgroundOf(NoFocus))
    <3> DEFINE m == Len(BackgroundOf(NoFocus))
               w == waited[BackgroundOf(NoFocus)[i]]
               a == Away(i, 0, m)
    <3>1. w = 0 /\ a \in 0 .. m - 1
      BY <2>2, <2>3, FreshTurns, WorkerAssumption
    <3>2. m \in Nat
      BY <2>3, CursorWithin, WorkerAssumption
    <3> HIDE DEF m, w, a
    <3>3. w + a + 0 <= m
      BY <3>1, <3>2
    <3>4. QED
      BY <3>3 DEF w, a, m
  <2>5. waited \in [Universe -> Nat]
    BY <2>2 DEF NobodyWaited
  <2>6. QED
    BY <2>2, <2>4, <2>5 DEF Turns
<1>2. TypeOK /\ WakeInv /\ Turns /\ [RotationNext]_rotationVars => Turns'
  BY TurnsStep, WorkerAssumption
<1>3. TypeOK /\ Turns => ServedInTurn
  <2>1. SUFFICES ASSUME TypeOK, Turns, NEW s \in Universe
                 PROVE  waited[s] <= Len(Background)
    BY DEF ServedInTurn, Turns
  <2> DEFINE m == Len(Background)
  <2>2. m \in Nat /\ cursor \in 0 .. m
    BY <2>1, CursorWithin, WorkerAssumption DEF Background, TypeOK
  <2>3. CASE s = focused
    <3>1. waited[s] = 0
      BY <2>1, <2>3, WorkerAssumption DEF Turns, WorkerAssumption
    <3>2. QED
      BY <2>2, <3>1
  <2>4. CASE s # focused
    <3>1. PICK i \in 1 .. m : Background[i] = s
      BY <2>1, <2>4, BackgroundSymbols, WorkerAssumption DEF Background, TypeOK
    <3> DEFINE a == Away(i, cursor, m)
               p == IF pending THEN 1 ELSE 0
    <3>2. waited[s] + a + p <= m /\ waited[s] \in Nat
      BY <2>1, <3>1 DEF Turns
    <3>3. a \in 0 .. m - 1
      <4> HIDE DEF m
      <4>1. m \in Nat \ {0}
        BY <2>2
      <4>2. QED
        BY <2>2, <4>1, AwayBounded
    <3>4. p \in {0, 1}
      OBVIOUS
    <3> HIDE DEF a, p, m
    <3>5. waited[s] <= m
      BY <2>2, <3>2, <3>3, <3>4
    <3>6. QED
      BY <3>5 DEF m
  <2>5. QED
    BY <2>3, <2>4
<1>4. QED
  BY <1>1, <1>2, <1>3, RotationWorks, AlwaysTyped, PTL DEF RotationSpec
=============================================================================
