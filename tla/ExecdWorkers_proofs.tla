------------------------ MODULE ExecdWorkers_proofs ------------------------
(***************************************************************************)
(* Proofs about ExecdWorkers, for every set of required workers and every  *)
(* configuration.                                                          *)
(***************************************************************************)
EXTENDS ExecdWorkers, FiniteSetTheorems, TLAPS

LEMMA WorkersFinite ==
  /\ IsFiniteSet(Workers) /\ Cardinality(Workers) \in Nat /\ MaxFaults \in Nat
  /\ \A S \in SUBSET Workers :
       IsFiniteSet(S) /\ Cardinality(S) \in Nat /\ Cardinality(S) <= Cardinality(Workers)
<1>1. IsFiniteSet(Workers) /\ MaxFaults \in Nat
  BY WorkersAssumption DEF WorkersAssumption
<1>2. \A S \in SUBSET Workers : IsFiniteSet(S) /\ Cardinality(S) <= Cardinality(Workers)
  BY <1>1, FS_Subset
<1>3. QED
  BY <1>1, <1>2, FS_CardinalityType

\* The counter of waitWorkers covers the watchers: one that ends takes one from both.
LEMMA OneLess ==
  ASSUME NEW S \in SUBSET Workers, NEW w \in S
  PROVE  Cardinality(S \ {w}) = Cardinality(S) - 1
  BY WorkersFinite, FS_RemoveElement

LEMMA OneMore ==
  ASSUME NEW S \in SUBSET Workers, NEW w \in Workers, w \notin S
  PROVE  Cardinality(S \cup {w}) = Cardinality(S) + 1
  BY WorkersFinite, FS_AddElement

\* A fault leaves the number of faults within its bound.
LEMMA FaultType ==
  ASSUME CountsOK, Fault
  PROVE  faults' \in 0 .. MaxFaults /\ faults' = faults + 1 /\ faults \in Nat
  BY WorkersFinite DEF CountsOK, Fault

\* A group of variables that does not change keeps its types.
LEMMA SameType ==
  ASSUME TypeOK
  PROVE  /\ UNCHANGED <<main, loop, producer, ended>> => MainOK'
         /\ UNCHANGED <<panicked, mutex, interrupt, sig, past>> => FlagsOK'
         /\ UNCHANGED <<deaths, wg, zero, faults>> => CountsOK'
         /\ UNCHANGED workers => WorkersOK'
<1>1. UNCHANGED <<main, loop, producer, ended>> => MainOK'
  BY DEF TypeOK, MainOK
<1>2. UNCHANGED <<panicked, mutex, interrupt, sig, past>> => FlagsOK'
  BY DEF TypeOK, FlagsOK, past
<1>3. UNCHANGED <<deaths, wg, zero, faults>> => CountsOK'
  BY DEF TypeOK, CountsOK
<1>4. UNCHANGED workers => WorkersOK'
  BY DEF TypeOK, WorkersOK, workers
<1>5. QED
  BY <1>1, <1>2, <1>3, <1>4

\* The number of deaths that are not received yet, and the counted commands.
LEMMA SameBound ==
  ASSUME Bounded, UNCHANGED <<deaths, zero, faults, routine>>, main' = "spawn" => main = "spawn"
  PROVE  Bounded'
  BY DEF Bounded, Over

\* When the process ends every goroutine ends with it.
LEMMA GoneType ==
  ASSUME TypeOK, Bounded, NEW how \in {"return", "abort"}, Gone(how),
         UNCHANGED <<deaths, faults, panicked, producer, interrupt, sig, wg, proc, past>>
  PROVE  TypeOK' /\ Bounded'
<1>1. MainOK' /\ WorkersOK'
  BY DEF Gone, TypeOK, MainOK, WorkersOK
<1>2. FlagsOK'
  BY DEF Gone, TypeOK, FlagsOK, past
<1>3. CountsOK'
  BY WorkersFinite DEF Gone, TypeOK, CountsOK
<1>4. Bounded'
  <2>1. Over' = Workers
    BY DEF Gone, Over
  <2>2. deaths \in 0 .. Cardinality(Workers) /\ faults \in 0 .. MaxFaults
    BY DEF TypeOK, CountsOK
  <2>3. QED
    BY <2>1, <2>2, WorkersFinite DEF Gone, Bounded
<1>5. QED
  BY <1>1, <1>2, <1>3, <1>4 DEF TypeOK


LEMMA MainType == TypeOK /\ Bounded /\ (Main \/ KafkaFails) => TypeOK' /\ Bounded'
<1> SUFFICES ASSUME TypeOK, Bounded, Main \/ KafkaFails PROVE TypeOK' /\ Bounded'
  OBVIOUS
<1>1. CASE Return
  BY <1>1, GoneType DEF Return
<1>2. CASE SpawnWorkers
  <2>1. MainOK' /\ WorkersOK'
    BY <1>2 DEF SpawnWorkers, TypeOK, MainOK, WorkersOK
  <2>2. CountsOK'
    BY <1>2, WorkersFinite DEF SpawnWorkers, TypeOK, CountsOK
  <2>3. FlagsOK'
    BY <1>2, SameType DEF SpawnWorkers
  <2>4. Bounded'
    <3>1. Over' \in SUBSET Workers /\ UNCHANGED <<deaths, zero, faults>> /\ main' # "spawn" /\ deaths = 0
      BY <1>2 DEF SpawnWorkers, Over, Bounded
    <3>2. Cardinality(Over') \in Nat
      BY <3>1, WorkersFinite
    <3>3. QED
      BY <3>1, <3>2 DEF Bounded
  <2>5. QED
    BY <2>1, <2>2, <2>3, <2>4 DEF TypeOK
<1>3. CASE TestOk \/ WaitWorkers \/ Release \/ Recover \/ Serve
  <2>1. /\ UNCHANGED <<deaths, wg, zero, faults, workers>> /\ (main' = "spawn" => main = "spawn")
        /\ UNCHANGED routine
    BY <1>3 DEF TestOk, WaitWorkers, AfterWait, Release, Recover, Serve, shared, workers
  <2>2. MainOK'
    BY <1>3 DEF TestOk, WaitWorkers, AfterWait, Release, Recover, Serve, shared, TypeOK, MainOK
  <2>3. FlagsOK'
    BY <1>3 DEF TestOk, WaitWorkers, Release, Recover, RecoverInterrupt, Serve, shared, past, TypeOK, FlagsOK
  <2>4. QED
    BY <2>1, <2>2, <2>3, SameType, SameBound DEF TypeOK
<1>4. CASE TestFails \/ KafkaFails \/ StopHook \/ Close
  <2>1. /\ UNCHANGED <<deaths, wg, zero, workers, routine>> /\ main' # "spawn"
        /\ UNCHANGED faults \/ Fault
    BY <1>4 DEF TestFails, KafkaFails, StopHook, Close, shared, workers
  <2>2. MainOK'
    BY <1>4 DEF TestFails, KafkaFails, StopHook, Close, shared, TypeOK, MainOK
  <2>3. FlagsOK'
    BY <1>4 DEF TestFails, KafkaFails, StopHook, Close, shared, past, TypeOK, FlagsOK
  <2>4. faults' \in 0 .. MaxFaults /\ faults' >= faults /\ faults \in Nat
    BY <2>1, FaultType DEF TypeOK, CountsOK
  <2>5. CountsOK'
    BY <2>1, <2>4 DEF TypeOK, CountsOK
  <2>6. Bounded'
    BY <2>1, <2>4 DEF Bounded, Over, TypeOK, CountsOK
  <2>7. QED
    BY <2>1, <2>2, <2>3, <2>5, <2>6, SameType DEF TypeOK
<1>5. QED
  BY <1>1, <1>2, <1>3, <1>4 DEF Main

\* The loop, the signals and the commands of the journal.
LoopSteps ==
  Loop \/ Signal \/ TakeMessage \/ TestFailsInLoop \/ ZeroCommand \/ LoopPanic
  \/ TakeSignal \/ TakeDeath \/ ZeroDone \/ DonePanics

LEMMA LoopType == TypeOK /\ Bounded /\ LoopSteps => TypeOK' /\ Bounded'
<1> SUFFICES ASSUME TypeOK, Bounded, LoopSteps PROVE TypeOK' /\ Bounded'
  OBVIOUS
<1>1. CASE LoopPanic \/ DonePanics
  BY <1>1, GoneType DEF LoopPanic, DonePanics
<1>2. CASE Loop \/ TakeMessage \/ TakeSignal
  <2>1. /\ UNCHANGED <<deaths, wg, zero, faults, workers, routine>> /\ (main' = "spawn" => main = "spawn")
    BY <1>2 DEF Loop, MessageDone, SendDone, TakeMessage, TakeSignal, shared, workers
  <2>2. MainOK'
    BY <1>2 DEF Loop, MessageDone, SendDone, TakeMessage, TakeSignal, shared, TypeOK, MainOK
  <2>3. FlagsOK'
    BY <1>2 DEF Loop, MessageDone, SendDone, TakeMessage, TakeSignal, shared, past, TypeOK, FlagsOK
  <2>4. QED
    BY <2>1, <2>2, <2>3, SameType, SameBound DEF TypeOK
<1>3. CASE Signal \/ TestFailsInLoop \/ ZeroCommand
  <2>1. /\ UNCHANGED <<threads, producer, deaths, wg, workers>> /\ Fault
        /\ zero' = zero \/ zero' = zero + 1
    BY <1>3 DEF Signal, TestFailsInLoop, ZeroCommand
  <2>2. faults' \in 0 .. MaxFaults /\ faults' = faults + 1 /\ faults \in Nat
    BY <2>1, FaultType DEF TypeOK
  <2>3. FlagsOK'
    BY <1>3 DEF Signal, TestFailsInLoop, ZeroCommand, threads, past, TypeOK, FlagsOK
  <2>4. zero' \in Nat /\ zero' <= faults'
    BY <2>1, <2>2 DEF TypeOK, CountsOK, Bounded
  <2>5. CountsOK'
    BY <2>1, <2>2, <2>4, WorkersFinite DEF TypeOK, CountsOK
  <2>6. Bounded'
    BY <2>1, <2>4 DEF Bounded, Over, threads, workers
  <2>7. QED
    BY <2>1, <2>3, <2>5, <2>6, SameType DEF TypeOK, threads
<1>4. CASE TakeDeath \/ ZeroDone
  <2>1. /\ UNCHANGED <<main, producer, ended, panicked, mutex, interrupt, sig, past, faults, workers>>
        /\ loop' = loop \/ loop' = "done"
        /\ \/ deaths > 0 /\ deaths' = deaths - 1 /\ UNCHANGED <<wg, zero>>
           \/ zero > 0 /\ wg > 0 /\ zero' = zero - 1 /\ wg' = wg - 1 /\ UNCHANGED deaths
    BY <1>4 DEF TakeDeath, ZeroDone, threads
  <2>2. MainOK'
    BY <2>1 DEF TypeOK, MainOK
  <2>3. CountsOK'
    BY <2>1, WorkersFinite DEF TypeOK, CountsOK
  <2>4. Bounded'
    <3>1. Over' = Over /\ Over \in SUBSET Workers
      BY <2>1 DEF Over, workers
    <3>2. Cardinality(Over) \in Nat /\ deaths \in Nat /\ zero \in Nat /\ faults \in Nat
      BY <3>1, WorkersFinite DEF TypeOK, CountsOK
    <3>3. QED
      BY <2>1, <3>1, <3>2 DEF Bounded, workers
  <2>5. QED
    BY <2>1, <2>2, <2>3, <2>4, SameType DEF TypeOK
<1>5. QED
  BY <1>1, <1>2, <1>3, <1>4 DEF LoopSteps

LEMMA WorkerType ==
  ASSUME TypeOK, Bounded, NEW w \in Workers, Worker(w) \/ WorkerEnds(w)
  PROVE  TypeOK' /\ Bounded'
<1>1. WorkersOK'
  BY DEF Worker, StartWorker, WorkerNotStarted, Reap, NoticeDeath, ReportDeath, WatchEnds, WatchKills, WatchKilled,
     WatchDone, WorkerEnds, TypeOK, WorkersOK
<1>2. /\ UNCHANGED <<threads, producer, mutex, sig, past, zero>>
      /\ interrupt' = interrupt \/ interrupt' = TRUE
  BY DEF Worker, StartWorker, WorkerNotStarted, Reap, NoticeDeath, ReportDeath, WatchEnds, WatchKills, WatchKilled,
     WatchDone, WorkerEnds, shared
<1>3. MainOK' /\ FlagsOK'
  <2>1. interrupt' \in BOOLEAN
    BY <1>2 DEF TypeOK, FlagsOK
  <2>2. QED
    BY <1>2, <2>1 DEF TypeOK, MainOK, FlagsOK, threads, past
<1>4. Over \in SUBSET Workers /\ Over' \in SUBSET Workers
  BY DEF Over
<1>5. Cardinality(Over) \in Nat /\ Cardinality(Over') \in Nat /\ Cardinality(Over') <= Cardinality(Workers)
  BY <1>4, WorkersFinite
<1>6. CASE ReportDeath(w)
  <2>1. w \notin Over /\ Over' = Over \cup {w}
    BY <1>6 DEF ReportDeath, Over, TypeOK, WorkersOK
  <2>2. Cardinality(Over') = Cardinality(Over) + 1
    BY <1>4, <2>1, OneMore
  <2>3. deaths' = deaths + 1 /\ UNCHANGED <<wg, faults>> /\ deaths \in Nat
    BY <1>6 DEF ReportDeath, Notifies, TypeOK, CountsOK
  <2>4. main # "spawn" /\ main' = main
    BY <1>6 DEF ReportDeath, Bounded, threads
  <2>5. Bounded'
    BY <1>2, <1>5, <2>2, <2>3, <2>4 DEF Bounded
  <2>6. deaths' \in 0 .. Cardinality(Workers)
    BY <1>5, <2>3, <2>5, WorkersFinite DEF Bounded
  <2>7. CountsOK'
    BY <1>2, <2>3, <2>6 DEF TypeOK, CountsOK
  <2>8. QED
    BY <1>1, <1>3, <2>5, <2>7 DEF TypeOK
<1>7. CASE ~ReportDeath(w)
  <2>1. /\ UNCHANGED deaths
        /\ \/ UNCHANGED <<wg, faults>> \/ (UNCHANGED wg /\ Fault)
           \/ wg > 0 /\ wg' = wg - 1 /\ UNCHANGED faults
    BY <1>7 DEF Worker, StartWorker, WorkerNotStarted, Reap, NoticeDeath, WatchEnds, WatchKills, WatchKilled,
       WatchDone, WorkerEnds, shared
  <2>2. Over \subseteq Over'
    BY <1>7 DEF Worker, StartWorker, WorkerNotStarted, Reap, NoticeDeath, WatchEnds, WatchKills, WatchKilled,
       WatchDone, WorkerEnds, Over, TypeOK, WorkersOK
  <2>3. main = "spawn" => UNCHANGED routine
    BY <1>7 DEF Worker, StartWorker, WorkerNotStarted, Reap, NoticeDeath, WatchEnds, WatchKills, WatchKilled,
       WatchDone, WorkerEnds, Bounded, TypeOK, WorkersOK
  <2>4. Cardinality(Over) <= Cardinality(Over')
    BY <1>4, <2>2, WorkersFinite, FS_Subset
  <2>5. faults' \in 0 .. MaxFaults /\ faults <= faults' /\ faults \in Nat
    BY <2>1, FaultType, WorkersFinite DEF TypeOK, CountsOK
  <2>6. CountsOK'
    BY <1>2, <2>1, <2>5, WorkersFinite DEF TypeOK, CountsOK
  <2>7. Bounded'
    BY <1>2, <1>5, <2>1, <2>3, <2>4, <2>5 DEF Bounded, TypeOK, CountsOK, threads
  <2>8. QED
    BY <1>1, <1>3, <2>6, <2>7 DEF TypeOK
<1>8. QED
  BY <1>6, <1>7

\* Every variable keeps to its kind: as the channel takes one element of every worker
\* that died, it never holds more than there are workers.
THEOREM TypeCorrect == Spec => [](TypeOK /\ Bounded)
<1>1. Init => TypeOK /\ Bounded
  <2> SUFFICES ASSUME Init PROVE TypeOK /\ Bounded
    OBVIOUS
  <2>1. MainOK /\ FlagsOK /\ WorkersOK
    BY DEF Init, MainOK, FlagsOK, WorkersOK
  <2>2. CountsOK
    BY WorkersFinite DEF Init, CountsOK
  <2>3. Cardinality(Over) \in Nat
    BY WorkersFinite DEF Over
  <2>4. QED
    BY <2>1, <2>2, <2>3 DEF Init, TypeOK, Bounded
<1>2. TypeOK /\ Bounded /\ [Next]_vars => TypeOK' /\ Bounded'
  <2> SUFFICES ASSUME TypeOK, Bounded, [Next]_vars PROVE TypeOK' /\ Bounded'
    OBVIOUS
  <2>1. CASE UNCHANGED vars
    BY <2>1, SameType, SameBound DEF vars, threads, shared, workers, TypeOK
  <2>2. CASE Next
    BY <2>2, MainType, LoopType, WorkerType DEF Next, LoopSteps
  <2>3. QED
    BY <2>1, <2>2
<1>3. QED
  BY <1>1, <1>2, PTL DEF Spec

----------------------------------------------------------------------------
(* WaitCoversUncounted, by the inductive invariant WaitInv. *)

\* When the process ends nothing is counted any more.
LEMMA GoneWait ==
  ASSUME WaitInv, NEW how \in {"return", "abort"}, Gone(how), Bounded',
         UNCHANGED <<panicked, wg, proc, zeroed>>,
         how = "return" => main = "return" \/ main = "rewait"
  PROVE  WaitInv'
<1>1. Watched' /\ Counted'
  BY DEF Gone, Watched, Running, Counted
<1>2. Waited'
  <2>1. ASSUME ~zeroed, ~panicked, how = "return" PROVE NoWorkers
    <3>1. main = "return" /\ wg = 0 /\ Cardinality(Owing) = 0
      BY <2>1 DEF WaitInv, Waited, Counted
    <3>2. Owing = {}
      BY <3>1, WorkersFinite, FS_EmptySet DEF Owing
    <3>3. QED
      BY <3>1, <3>2 DEF Owing, NoWorkers, WaitInv, Watched, Running
  <2>2. QED
    BY <2>1 DEF Gone, Waited, NoWorkers
<1>3. QED
  BY <1>1, <1>2 DEF WaitInv

\* A step of main or the loop that leaves the workers alone.
LEMMA QuietWait ==
  ASSUME WaitInv, Bounded', UNCHANGED <<routine, watch, proc, wg, ended>>,
         main # "gone", main' # "gone", main # "spawn", main' # "spawn",
         ~zeroed' => ~zeroed /\ (zero = 0 => zero' = 0),
         panicked => panicked',
         main' \in {"recover", "rewait"} => panicked' \/ main \in {"recover", "rewait"},
         main' \in {"hook", "close", "release", "return"} /\ ~panicked' /\ ~zeroed' =>
           wg = 0 \/ main \in {"hook", "close", "release", "return"}
  PROVE  WaitInv'
<1>1. Watched'
  BY DEF WaitInv, Watched, Running
<1>2. Counted'
  BY DEF WaitInv, Counted, Owing
<1>3. Waited'
  BY DEF WaitInv, Waited, NoWorkers
<1>4. QED
  BY <1>1, <1>2, <1>3 DEF WaitInv

LEMMA MainWait == TypeOK /\ WaitInv /\ Bounded' /\ (Main \/ KafkaFails) => WaitInv'
<1> SUFFICES ASSUME TypeOK, WaitInv, Bounded', Main \/ KafkaFails PROVE WaitInv'
  OBVIOUS
<1>1. CASE Return
  BY <1>1, GoneWait DEF Return, past
<1>2. CASE SpawnWorkers
  <2>1. /\ main = "spawn" /\ main' \in {"test", "kafka"} /\ wg' = Cardinality(Workers)
        /\ UNCHANGED <<watch, proc, zero, zeroed, ended>>
        /\ \A w \in Workers : watch[w] = "none" /\ proc[w] = "none" /\ routine'[w] = "new"
    BY <1>2 DEF SpawnWorkers, WaitInv, Bounded, Watched, Running, past
  <2>2. Owing' = Workers
    BY <2>1 DEF Owing
  <2>3. QED
    BY <2>1, <2>2 DEF WaitInv, Watched, Running, Counted, Waited, NoWorkers
<1>3. CASE TestOk \/ TestFails \/ Serve \/ WaitWorkers \/ StopHook \/ Close \/ Release \/ Recover \/ KafkaFails
  <2>1. UNCHANGED <<routine, watch, proc, wg, ended, zero, zeroed>> /\ (panicked => panicked')
    BY <1>3 DEF TestOk, TestFails, Serve, WaitWorkers, StopHook, Close, Release, Recover, KafkaFails, shared, workers, past
  <2>2. main # "gone" /\ main' # "gone" /\ main # "spawn" /\ main' # "spawn"
    BY <1>3 DEF TestOk, TestFails, Serve, WaitWorkers, AfterWait, StopHook, Close, Release, Recover, KafkaFails
  <2>3. main' \in {"recover", "rewait"} => panicked' \/ main \in {"recover", "rewait"}
    BY <1>3 DEF TestOk, TestFails, Serve, WaitWorkers, AfterWait, StopHook, Close, Release, Recover, KafkaFails
  <2>4. main' \in {"hook", "close", "release", "return"} /\ ~panicked' =>
           wg = 0 \/ main \in {"hook", "close", "release", "return"}
    BY <1>3 DEF TestOk, TestFails, Serve, WaitWorkers, WorkersEnded, StopHook, Close, Release, Recover, KafkaFails
  <2>5. QED
    BY <2>1, <2>2, <2>3, <2>4, QuietWait
<1>4. QED
  BY <1>1, <1>2, <1>3 DEF Main

LEMMA LoopWait == TypeOK /\ WaitInv /\ Bounded' /\ LoopSteps => WaitInv'
<1> SUFFICES ASSUME TypeOK, WaitInv, Bounded', LoopSteps PROVE WaitInv'
  OBVIOUS
<1>1. CASE LoopPanic \/ DonePanics
  BY <1>1, GoneWait DEF LoopPanic, DonePanics, past
<1>2. CASE ~(LoopPanic \/ DonePanics)
  <2>1. /\ UNCHANGED <<routine, watch, proc, ended, panicked>>
        /\ UNCHANGED main \/ (main = "serve" /\ main' = "wait")
    BY <1>2 DEF LoopSteps, Loop, MessageDone, SendDone, Signal, TakeMessage, TestFailsInLoop, ZeroCommand, TakeSignal,
       TakeDeath, ZeroDone, threads, shared, workers
  <2>2. ~zeroed' => ~zeroed /\ zero' = zero /\ wg' = wg
    BY <1>2 DEF LoopSteps, Loop, MessageDone, SendDone, Signal, TakeMessage, TestFailsInLoop, ZeroCommand, TakeSignal,
       TakeDeath, ZeroDone, shared, past, WaitInv, Counted
  <2>3. QED
    BY <2>1, <2>2 DEF WaitInv, Watched, Running, Counted, Owing, Waited, NoWorkers
<1>3. QED
  BY <1>1, <1>2

\* A worker leaves the wait group with its watcher, when its process has ended.
LEMMA WorkerWait ==
  ASSUME TypeOK, WaitInv, Bounded', NEW w \in Workers, Worker(w) \/ WorkerEnds(w)
  PROVE  WaitInv'
<1>0. Running
  BY DEF Worker, StartWorker, WorkerNotStarted, Reap, NoticeDeath, ReportDeath, WatchEnds, WatchKills, WatchKilled,
     WatchDone, WorkerEnds, WaitInv, Watched
<1>1. UNCHANGED <<main, panicked, ended, zero, zeroed>>
  BY DEF Worker, StartWorker, WorkerNotStarted, Reap, NoticeDeath, ReportDeath, WatchEnds, WatchKills, WatchKilled,
     WatchDone, WorkerEnds, threads, shared, past
<1>2. Watched'
  <2> SUFFICES ASSUME Running, NEW v \in Workers
               PROVE  /\ routine'[v] \in {"none", "new"} => watch'[v] = "none" /\ proc'[v] = "none"
                      /\ proc'[v] = "alive" => routine'[v] = "exec" /\ watch'[v] \in {"watching", "killing"}
    BY <1>0, <1>1 DEF Watched, Running
  <2>1. /\ routine[v] \in {"none", "new"} => watch[v] = "none" /\ proc[v] = "none"
        /\ proc[v] = "alive" => routine[v] = "exec" /\ watch[v] \in {"watching", "killing"}
    BY DEF WaitInv, Watched
  <2>2. CASE v = w
    BY <2>1, <2>2 DEF Worker, StartWorker, WorkerNotStarted, Reap, NoticeDeath, ReportDeath, WatchEnds, Reaped, WatchKills,
       WatchKilled, WatchDone, WorkerEnds, TypeOK, WorkersOK
  <2>3. CASE v # w
    BY <2>1, <2>3 DEF Worker, StartWorker, WorkerNotStarted, Reap, NoticeDeath, ReportDeath, WatchEnds, WatchKills,
       WatchKilled, WatchDone, WorkerEnds, TypeOK, WorkersOK
  <2>4. QED
    BY <2>2, <2>3
<1>3. CASE WatchDone(w)
  <2>1. w \in Owing /\ Owing' = Owing \ {w} /\ Owing \in SUBSET Workers
    BY <1>3 DEF WatchDone, Owing, TypeOK, WorkersOK
  <2>2. Cardinality(Owing') = Cardinality(Owing) - 1
    BY <2>1, OneLess
  <2>3. wg > 0 /\ wg' = wg - 1 /\ proc' = proc
    BY <1>3 DEF WatchDone
  <2>4. Counted'
    BY <1>1, <2>2, <2>3 DEF WaitInv, Counted
  <2>5. Waited'
    BY <1>0, <1>1, <2>3 DEF WaitInv, Waited, Running, TypeOK, CountsOK
  <2>6. QED
    BY <1>2, <2>4, <2>5 DEF WaitInv
<1>4. CASE ~WatchDone(w)
  <2>1. wg' = wg
    BY <1>4 DEF Worker, StartWorker, WorkerNotStarted, Reap, NoticeDeath, ReportDeath, WatchEnds, WatchKills,
       WatchKilled, WorkerEnds, shared
  <2>2. \A v \in Workers : watch'[v] = "end" <=> watch[v] = "end"
    BY <1>4 DEF Worker, StartWorker, WorkerNotStarted, Reap, NoticeDeath, ReportDeath, WatchEnds, WatchKills,
       WatchKilled, WorkerEnds, TypeOK, WorkersOK, WaitInv, Watched
  <2>3. Owing' = Owing
    BY <2>2 DEF Owing
  <2>4. Waited'
    BY <1>0, <1>1, <2>1 DEF WaitInv, Waited, Running
  <2>5. QED
    BY <1>1, <1>2, <2>1, <2>3, <2>4 DEF WaitInv, Counted
<1>5. QED
  BY <1>3, <1>4

\* WaitInv holds in every state, and ...
THEOREM WaitInvCorrect == Spec => []WaitInv
<1>1. Init => WaitInv
  <2> SUFFICES ASSUME Init PROVE WaitInv
    OBVIOUS
  <2>1. Cardinality(Over) \in Nat
    BY WorkersFinite DEF Over
  <2>2. QED
    BY <2>1 DEF Init, WaitInv, Watched, Running, Counted, Waited, Bounded
<1>2. TypeOK /\ WaitInv /\ Bounded' /\ [Next]_vars => WaitInv'
  <2> SUFFICES ASSUME TypeOK, WaitInv, Bounded', [Next]_vars PROVE WaitInv'
    OBVIOUS
  <2>1. CASE UNCHANGED vars
    BY <2>1 DEF vars, threads, shared, workers, past, WaitInv, Watched, Running, Counted, Owing, Waited, NoWorkers
  <2>2. CASE Next
    BY <2>2, MainWait, LoopWait, WorkerWait DEF Next, LoopSteps
  <2>3. QED
    BY <2>1, <2>2
<1>3. QED
  BY <1>1, <1>2, TypeCorrect, PTL DEF Spec

\* ... with it WaitCoversUncounted: without a journal command whose timeout is 0, main
\* does not give back the mutex while a worker process runs, unless it panicked.
THEOREM WaitCoversUncountedCorrect == Spec => []WaitCoversUncounted
<1>1. WaitInv => WaitCoversUncounted
  <2> SUFFICES ASSUME WaitInv, ~zeroed, Released, ~panicked PROVE NoWorkers
    BY DEF WaitCoversUncounted, WaitCoversWorkers
  <2>1. CASE ended = "return"
    BY <2>1 DEF WaitInv, Waited
  <2>2. CASE main = "return"
    <3>1. wg = 0 /\ Cardinality(Owing) = 0
      BY <2>2 DEF WaitInv, Waited, Counted
    <3>2. Owing = {}
      BY <3>1, WorkersFinite, FS_EmptySet DEF Owing
    <3>3. QED
      BY <2>2, <3>2 DEF Owing, NoWorkers, WaitInv, Watched, Running
  <2>3. QED
    BY <2>1, <2>2 DEF Released, WaitInv, Waited
<1>2. QED
  BY <1>1, WaitInvCorrect, PTL
=============================================================================
