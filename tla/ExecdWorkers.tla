---------------------------- MODULE ExecdWorkers ----------------------------
(***************************************************************************)
(* The life of an execd process (KAFKA/execd/src/main.go): main starts the *)
(* required workers, serves until doneCh, waits for the workers, runs the  *)
(* stop hook and the deferred calls, releases the mutex and returns.       *)
(*                                                                         *)
(* Threads: main; the loop goroutine; for every required worker the        *)
(* goroutine workerRequired, the goroutine of execCommand that watches its *)
(* process, and the process itself, which outlives execd unless killed.    *)
(* A panic in main unwinds through the deferred calls; a panic in any      *)
(* other goroutine ends the whole process at once.                         *)
(*                                                                         *)
(* A message is taken as one step that may do what processMessage can do   *)
(* to this part of the state; Execd has the rest of it.  SIGKILL of execd  *)
(* is left out: nothing could be promised about its workers then.          *)
(***************************************************************************)
EXTENDS Integers, FiniteSets

CONSTANTS
  Workers,       \* CONF.Workers.Required
  HasTest,       \* is CONF.Workers.Test configured
  HookStop,      \* is CONF.Hooks.Stop configured
  ForkFails,     \* can cmd.Start of a worker fail
  ZeroTimeouts,  \* are there journal commands with "timeout": 0
  LoopPanics,    \* does processMessage panic (stop offsets, failed commit or send)
  MaxFaults      \* bound on signals, dying workers, failing tests, hooks, brokers

ASSUME WorkersAssumption ==
  /\ IsFiniteSet(Workers) /\ MaxFaults \in Nat
  /\ {HasTest, HookStop, ForkFails, ZeroTimeouts, LoopPanics} \subseteq BOOLEAN

VARIABLES
  main,        \* where main is; "gone": the process has ended
  panicked,    \* is main unwinding from a panic
  loop,        \* the loop goroutine: "none", "select", "busy", "done"
  producer,    \* PRODUCER: "none", "open", "closed"
  mutex,       \* is MUTEX held
  interrupt,   \* interrupt
  sig,         \* is there something in the channel signals
  deaths,      \* elements in the channel workerDead
  wg,          \* the counter of waitWorkers
  routine,     \* worker -> workerRequired: "none", "new", "exec", "after", "dying", "end"
  watch,       \* worker -> its watcher: "none", "watching", "killing", "leaving", "end"
  proc,        \* worker -> its process: "none", "alive", "dead"
  zero,        \* watchers of journal commands with "timeout": 0
  ended,       \* how the process ended: "no", "return" of main, "abort"
  served,      \* has main reached the loop
  hookRan,     \* has Hooks.Stop run, with a producer for its report
  zeroed,      \* was there a journal command with "timeout": 0
  faults       \* faults so far

threads == <<main, panicked, loop, ended>>
shared  == <<producer, mutex, interrupt, sig, deaths, wg, zero>>
workers == <<routine, watch, proc>>
past    == <<served, hookRan, zeroed>>
vars    == <<threads, shared, workers, past, faults>>

Init ==
  /\ main = "spawn" /\ panicked = FALSE /\ loop = "none" /\ ended = "no"
  /\ producer = "none" /\ mutex = TRUE /\ interrupt = FALSE /\ sig = FALSE
  /\ deaths = 0 /\ wg = 0 /\ zero = 0
  /\ routine = [w \in Workers |-> "none"] /\ watch = [w \in Workers |-> "none"]
  /\ proc = [w \in Workers |-> "none"]
  /\ served = FALSE /\ hookRan = FALSE /\ zeroed = FALSE /\ faults = 0

Fault   == faults < MaxFaults /\ faults' = faults + 1
Running == main # "gone"

\* The process has ended: its goroutines are gone, the system takes the mutex
\* back, the worker processes stay as they are.
Gone(how) ==
  /\ main' = "gone" /\ ended' = how /\ loop' = "none" /\ mutex' = FALSE /\ zero' = 0
  /\ routine' = [w \in Workers |-> "end"] /\ watch' = [w \in Workers |-> "end"]

----------------------------------------------------------------------------
(* main. *)

SpawnWorkers ==
  /\ main = "spawn"
  /\ routine' = [w \in Workers |-> "new"] /\ wg' = Cardinality(Workers)
  /\ main' = IF HasTest THEN "test" ELSE "kafka"
  /\ UNCHANGED <<panicked, loop, ended, producer, mutex, interrupt, sig, deaths, zero, watch, proc, past, faults>>

TestOk ==
  /\ main = "test" /\ ~interrupt
  /\ main' = "kafka"
  /\ UNCHANGED <<panicked, loop, ended, shared, workers, past, faults>>

\* Workers.Test fails all the attempts, or a worker is dead already.
TestFails ==
  /\ main = "test"
  /\ IF interrupt THEN UNCHANGED faults ELSE Fault
  /\ main' = "release" /\ panicked' = TRUE
  /\ UNCHANGED <<loop, ended, shared, workers, past>>

\* One of the steps of the kafka part of the initialisation panics.
KafkaFails ==
  /\ main = "kafka" /\ Fault
  /\ \/ producer' = "none" /\ main' = "release"
     \/ producer' = "open" /\ main' = "close"
  /\ panicked' = TRUE
  /\ UNCHANGED <<loop, ended, mutex, interrupt, sig, deaths, wg, zero, workers, past>>

Serve ==
  /\ main = "kafka"
  /\ producer' = "open" /\ loop' = "select" /\ main' = "serve" /\ served' = TRUE
  /\ UNCHANGED <<panicked, ended, mutex, interrupt, sig, deaths, wg, zero, workers, hookRan, zeroed, faults>>

AfterWait == IF HookStop THEN "hook" ELSE "close"

WorkersEnded_Never == TRUE      \* (mutant) main does not wait
WorkersEnded == wg = 0

WaitWorkers ==
  /\ main = "wait" /\ WorkersEnded
  /\ main' = AfterWait
  /\ UNCHANGED <<panicked, loop, ended, shared, workers, past, faults>>

\* doHookStop, with the report to kafka if Hooks.Produce, which may panic.
StopHook ==
  /\ main = "hook"
  /\ hookRan' = (producer = "open")
  /\ \/ UNCHANGED <<panicked, faults>>
     \/ Fault /\ panicked' = TRUE
  /\ main' = "close"
  /\ UNCHANGED <<loop, ended, shared, workers, served, zeroed>>

\* The deferred closes of consumer, producer and client; each may panic.
Close ==
  /\ main = "close"
  /\ producer' = "closed"
  /\ \/ UNCHANGED <<panicked, faults>>
     \/ Fault /\ panicked' = TRUE
  /\ main' = "release"
  /\ UNCHANGED <<loop, ended, mutex, interrupt, sig, deaths, wg, zero, workers, past>>

Release ==
  /\ main = "release"
  /\ mutex' = FALSE
  /\ main' = IF panicked THEN "recover" ELSE "return"
  /\ UNCHANGED <<panicked, loop, ended, producer, interrupt, sig, deaths, wg, zero, workers, past, faults>>

Recover_Quiet == interrupt      \* (mutant) the workers are not told
RecoverInterrupt == TRUE

\* The first deferred call of main is the last to run.
Recover ==
  /\ main = "recover"
  /\ interrupt' = RecoverInterrupt
  /\ main' = "rewait"
  /\ UNCHANGED <<panicked, loop, ended, producer, mutex, sig, deaths, wg, zero, workers, past, faults>>

Return ==
  /\ main = "return" \/ (main = "rewait" /\ wg = 0)
  /\ Gone("return")
  /\ UNCHANGED <<panicked, producer, interrupt, sig, deaths, wg, proc, past, faults>>

----------------------------------------------------------------------------
(* The loop goroutine. *)

Signal ==
  /\ Running /\ loop # "none" /\ ~sig
  /\ Fault /\ sig' = TRUE
  /\ UNCHANGED <<threads, producer, mutex, interrupt, deaths, wg, zero, workers, past>>

TakeMessage ==
  /\ loop = "select"
  /\ loop' = "busy"
  /\ UNCHANGED <<main, panicked, ended, shared, workers, past, faults>>

MessageDone ==
  /\ loop = "busy"
  /\ loop' = IF interrupt THEN "done" ELSE "select"
  /\ UNCHANGED <<main, panicked, ended, shared, workers, past, faults>>

\* processMessage: Workers.Test fails after a batch.
TestFailsInLoop ==
  /\ loop = "busy" /\ HasTest /\ ~interrupt
  /\ Fault /\ interrupt' = TRUE
  /\ UNCHANGED <<threads, producer, mutex, sig, deaths, wg, zero, workers, past>>

\* execCommand of a journal command starts the same watcher as for a worker.
ZeroCommand ==
  /\ loop = "busy" /\ ZeroTimeouts /\ ~interrupt
  /\ Fault /\ zero' = zero + 1 /\ zeroed' = TRUE
  /\ UNCHANGED <<threads, producer, mutex, interrupt, sig, deaths, wg, workers, served, hookRan>>

LoopPanic ==
  /\ loop = "busy" /\ LoopPanics
  /\ Gone("abort")
  /\ UNCHANGED <<panicked, producer, interrupt, sig, deaths, wg, proc, past, faults>>

TakeSignal ==
  /\ loop = "select" /\ sig
  /\ sig' = FALSE /\ interrupt' = TRUE /\ loop' = "done"
  /\ UNCHANGED <<main, panicked, ended, producer, mutex, deaths, wg, zero, workers, past, faults>>

TakeDeath ==
  /\ loop = "select" /\ deaths > 0
  /\ deaths' = deaths - 1 /\ loop' = "done"
  /\ UNCHANGED <<main, panicked, ended, producer, mutex, interrupt, sig, wg, zero, workers, past, faults>>

\* doneCh <- struct{}{} meets main once.
SendDone ==
  /\ loop = "done" /\ main = "serve"
  /\ main' = "wait" /\ loop' = "select"
  /\ UNCHANGED <<panicked, ended, shared, workers, past, faults>>

----------------------------------------------------------------------------
(* The workers: workerRequired and execCommand. *)

StartWorker(w) ==
  /\ routine[w] = "new" /\ ~interrupt
  /\ routine' = [routine EXCEPT ![w] = "exec"]
  /\ watch' = [watch EXCEPT ![w] = "watching"]
  /\ proc' = [proc EXCEPT ![w] = "alive"]
  /\ UNCHANGED <<threads, shared, past, faults>>

\* execCommand refuses after an interrupt, or cmd.Start fails: it returns without
\* a process and without the watcher that would call waitWorkers.Done().
WorkerNotStarted(w) ==
  /\ routine[w] = "new" /\ (interrupt \/ ForkFails)
  /\ routine' = [routine EXCEPT ![w] = "after"]
  /\ UNCHANGED <<threads, shared, watch, proc, past, faults>>

\* The process ends by itself, at its own time or on SIGTERM.
WorkerEnds(w) ==
  /\ proc[w] = "alive" /\ Running
  /\ IF watch[w] = "killing" THEN UNCHANGED faults ELSE Fault
  /\ proc' = [proc EXCEPT ![w] = "dead"]
  /\ UNCHANGED <<threads, shared, routine, watch, past>>

\* cmd.Wait() returns.
Reap(w) ==
  /\ routine[w] = "exec" /\ proc[w] = "dead"
  /\ routine' = [routine EXCEPT ![w] = "after"]
  /\ UNCHANGED <<threads, shared, watch, proc, past, faults>>

Notifies == 1

Reaped(w) == routine[w] \in {"after", "dying", "end"}

\* Nothing orders the test of interrupt and its assignment: several workers may
\* find it unset.
NoticeDeath(w) ==
  /\ routine[w] = "after"
  /\ routine' = [routine EXCEPT ![w] = IF interrupt THEN "end" ELSE "dying"]
  /\ UNCHANGED <<threads, shared, watch, proc, past, faults>>

ReportDeath(w) ==
  /\ routine[w] = "dying"
  /\ interrupt' = TRUE /\ deaths' = deaths + Notifies
  /\ routine' = [routine EXCEPT ![w] = "end"]
  /\ UNCHANGED <<threads, producer, mutex, sig, wg, zero, watch, proc, past, faults>>

\* The watcher sees that the process was reaped, or ...
WatchEnds(w) ==
  /\ watch[w] = "watching" /\ Reaped(w)
  /\ watch' = [watch EXCEPT ![w] = "leaving"]
  /\ UNCHANGED <<threads, shared, routine, proc, past, faults>>

\* ... sends SIGTERM on an interrupt, and SIGKILL half a second later.
WatchKills(w) ==
  /\ watch[w] = "watching" /\ interrupt
  /\ watch' = [watch EXCEPT ![w] = "killing"]
  /\ UNCHANGED <<threads, shared, routine, proc, past, faults>>

WatchKilled(w) ==
  /\ watch[w] = "killing"
  /\ watch' = [watch EXCEPT ![w] = "leaving"]
  /\ proc' = [proc EXCEPT ![w] = "dead"]
  /\ UNCHANGED <<threads, shared, routine, past, faults>>

\* Its deferred waitWorkers.Done(), and that of the watcher of a journal command.
WatchDone(w) ==
  /\ watch[w] = "leaving" /\ wg > 0
  /\ watch' = [watch EXCEPT ![w] = "end"] /\ wg' = wg - 1
  /\ UNCHANGED <<threads, producer, mutex, interrupt, sig, deaths, zero, routine, proc, past, faults>>

ZeroDone ==
  /\ zero > 0 /\ wg > 0
  /\ zero' = zero - 1 /\ wg' = wg - 1
  /\ UNCHANGED <<threads, producer, mutex, interrupt, sig, deaths, workers, past, faults>>

\* On a counter of zero it panics.
DonePanics ==
  /\ wg = 0 /\ (zero > 0 \/ \E w \in Workers : watch[w] = "leaving")
  /\ Gone("abort")
  /\ UNCHANGED <<panicked, producer, interrupt, sig, deaths, wg, proc, past, faults>>

----------------------------------------------------------------------------
Main ==
  \/ SpawnWorkers \/ TestOk \/ TestFails \/ Serve
  \/ WaitWorkers \/ StopHook \/ Close \/ Release \/ Recover \/ Return

Loop == MessageDone \/ SendDone

Worker(w) ==
  \/ StartWorker(w) \/ WorkerNotStarted(w) \/ Reap(w) \/ NoticeDeath(w) \/ ReportDeath(w)
  \/ WatchEnds(w) \/ WatchKills(w) \/ WatchKilled(w) \/ WatchDone(w)

Next ==
  \/ Main \/ KafkaFails \/ Loop \/ Signal \/ TakeMessage \/ TestFailsInLoop \/ ZeroCommand
  \/ LoopPanic \/ TakeSignal \/ TakeDeath \/ ZeroDone \/ DonePanics
  \/ \E w \in Workers : Worker(w) \/ WorkerEnds(w)

Spec == Init /\ [][Next]_vars

\* Every goroutine that can go on does, and the select of the loop does not pass
\* over a channel for ever.  No message, signal or death is bound to come.
Fairness ==
  /\ WF_vars(Main) /\ WF_vars(Loop) /\ WF_vars(ZeroDone \/ DonePanics)
  /\ SF_vars(TakeSignal) /\ SF_vars(TakeDeath)
  /\ \A w \in Workers : WF_vars(Worker(w))

FairSpec == Spec /\ Fairness

----------------------------------------------------------------------------
(* Properties. *)

MainOK    == /\ main \in {"spawn", "test", "kafka", "serve", "wait", "hook", "close", "release", "recover",
                            "rewait", "return", "gone"}
             /\ loop \in {"none", "select", "busy", "done"} /\ producer \in {"none", "open", "closed"}
             /\ ended \in {"no", "return", "abort"}
FlagsOK   == /\ panicked \in BOOLEAN /\ mutex \in BOOLEAN /\ interrupt \in BOOLEAN /\ sig \in BOOLEAN
             /\ served \in BOOLEAN /\ hookRan \in BOOLEAN /\ zeroed \in BOOLEAN
CountsOK  == /\ deaths \in 0 .. Cardinality(Workers) /\ wg \in 0 .. Cardinality(Workers)
             /\ zero \in 0 .. MaxFaults /\ faults \in 0 .. MaxFaults
WorkersOK == /\ routine \in [Workers -> {"none", "new", "exec", "after", "dying", "end"}]
             /\ watch \in [Workers -> {"none", "watching", "killing", "leaving", "end"}]
             /\ proc \in [Workers -> {"none", "alive", "dead"}]

\* Every variable holds a value of its kind.
TypeOK == MainOK /\ FlagsOK /\ CountsOK /\ WorkersOK

NoWorkers == \A w \in Workers : proc[w] # "alive"
Released  == main \in {"return", "recover", "rewait"} \/ ended = "return"

\* A regular shutdown "waits for workers to be terminated": main does not give the
\* mutex back, to the next instance, before the last worker process has ended ...
WaitCoversWorkers == Released /\ ~panicked => NoWorkers

\* ... unless the wait group was counted down by commands of the journal.
WaitCoversUncounted == ~zeroed => WaitCoversWorkers

\* Why: the counter is the number of workers whose watcher has not come to its end, and
\* a process that runs has a watcher.  It never rises again once main has waited.
Owing == {w \in Workers : watch[w] # "end"}
Over  == {w \in Workers : routine[w] = "end"}

Watched == \A w \in Workers :
  /\ Running /\ routine[w] \in {"none", "new"} => watch[w] = "none" /\ proc[w] = "none"
  /\ Running /\ proc[w] = "alive" => routine[w] = "exec" /\ watch[w] \in {"watching", "killing"}
  /\ ~Running => routine[w] = "end" /\ watch[w] = "end"

Counted == ~zeroed =>
  /\ zero = 0
  /\ main \notin {"spawn", "gone"} => wg = Cardinality(Owing)

Waited ==
  /\ main \in {"recover", "rewait"} => panicked
  /\ ~zeroed /\ ~panicked /\ main \in {"hook", "close", "release", "return"} => wg = 0
  /\ ~zeroed /\ ~panicked /\ ended = "return" => NoWorkers
  /\ ended = "return" => main = "gone"

Bounded ==
  /\ zero <= faults /\ deaths <= Cardinality(Over)
  /\ main = "spawn" => deaths = 0 /\ \A w \in Workers : routine[w] = "none"

WaitInv == Watched /\ Counted /\ Waited /\ Bounded

\* A shutdown from whatever cause, the death of a worker among them ("Panic if
\* dies"), comes to its end if every worker was started: one that was refused is
\* waited for in vain.
Ending == interrupt \/ panicked \/ \E w \in Workers : proc[w] = "dead"
Refused(w) == Reaped(w) /\ proc[w] = "none"
ShutdownOfStartedEnds == Ending ~> (main = "gone" \/ \E w \in Workers : Refused(w))

=============================================================================
