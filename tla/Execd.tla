------------------------------- MODULE Execd -------------------------------
(***************************************************************************)
(* The journal consumer of execd (KAFKA/execd/src/main.go): one daemon     *)
(* that takes command batches from the journals of several topics, runs    *)
(* them, reports each of them and commits the journal position of each     *)
(* topic to a local file.                                                  *)
(*                                                                         *)
(* The journals and the position files survive the daemon; everything else *)
(* is lost when it exits.  The threads are the reader goroutine of each    *)
(* topic (Fetch), the single goroutine that runs main's initialisation and *)
(* then the select loop (pc), main waiting for the end (main), and the     *)
(* goroutine that watches a required worker (WorkerDies).                  *)
(*                                                                         *)
(* Abstractions.  A message is the class of what processMessage does with  *)
(* it (see AllKinds).  A journal starts at offset 0 and is never           *)
(* truncated.  An I/O error of commitOffset panics, which is Crash at the  *)
(* same place.  The loss of unsynced data at a power failure is left out.  *)
(***************************************************************************)
EXTENDS Integers, Sequences, FiniteSets

CONSTANTS
  Topics,       \* CONF.Consume.Topics
  Kinds,        \* topic -> the classes of message that occur in its journal
  MaxLen,       \* topic -> bound on the length of its journal
  Batch,        \* commands per message
  FirstOffset,  \* the --topic=offset key given at the first start
  StopAt,       \* the --topic^=offset keys given at the first start
  HookStart,    \* is Hooks.Start configured
  Silent,       \* Produce.Silent
  Defer,        \* is Consume.Defer configured
  HasTest,      \* is Workers.Test configured
  HasWorkers,   \* is Workers.Required configured
  MaxFaults     \* bound on kills, signals, dead workers, failed tests and sends

Newest == -1      \* sarama.OffsetNewest
Oldest == -2      \* sarama.OffsetOldest
Empty  == -3      \* the content of a position file with nothing in it
Absent == -4      \* there is no such file
Unset  == -5      \* base of a topic that was never consumed

\* "bad": not json or no such field.  "badre": invalid host_regex.  "other":
\* meant for another host.  "ttl": exec_ttl may or may not have run out.
\* "quiet": report_ttl has run out or is negative.  "run": all the rest.
AllKinds == {"bad", "badre", "other", "ttl", "quiet", "run"}

ASSUME ExecdAssumption ==
  /\ Topics # {} /\ IsFiniteSet(Topics)
  /\ Kinds \in [Topics -> SUBSET AllKinds] /\ MaxLen \in [Topics -> Nat]
  /\ Batch \in Nat \ {0} /\ MaxFaults \in Nat
  /\ FirstOffset \in {Newest, Oldest, 0}
  /\ DOMAIN StopAt \subseteq Topics /\ \A t \in DOMAIN StopAt : StopAt[t] \in Nat
  /\ HookStart \in BOOLEAN /\ Silent \in BOOLEAN /\ Defer \in BOOLEAN
  /\ HasTest \in BOOLEAN /\ HasWorkers \in BOOLEAN

VARIABLES
  journal,      \* topic -> the messages produced so far
  file,         \* topic -> content of <topic>.offset
  old,          \* topic -> content of <topic>.offset.old
  pc,           \* what the initialising, later the looping goroutine does
  main,         \* main itself: "init", "wait" for doneCh, "exit"ing
  offsets,      \* OFFSETS
  pos,          \* topic -> offset of the next message of its reader
  rd,           \* topic -> its reader: "none", "select", "holding", "stopped"
  todo,         \* topics consume() has not reached yet
  cur,          \* the message in process: its topic and offset
  k,            \* commands of it that are done
  refused,      \* has execCommand refused one of them
  panicking,    \* is the goroutine unwinding from a panic
  interrupt,    \* interrupt
  workerDead,   \* is there something in the channel workerDead
  sig,          \* is there something in the channel signals
  stops,        \* the keys of OFFSETSx
  reached,      \* the keys of OFFSETSxx
  onStart,      \* OFFSETS_ON_START as it was filled
  pending,      \* the keys left in OFFSETS_ON_START
  hookStart     \* hookStart

\* What happened, for the properties; no action reads these but faults and base.
VARIABLES
  faults,       \* faults so far
  base,         \* topic -> where its consumption began, once a position was stored
  handled,      \* <<topic, offset>> executed to the end, or rightly skipped
  executed,     \* <<topic, offset>> with some command started
  sent,         \* <<topic, offset>> whose report is in the journal
  unsent,       \* <<topic, offset>> whose report could not be sent
  hookRuns      \* runs of Hooks.Start since the daemon was started

disk   == <<journal, file, old>>
conf   == <<stops, onStart>>
input  == <<pos, rd, todo>>
msg    == <<cur, k, refused, panicking>>
flags  == <<interrupt, workerDead, sig>>
hook   == <<pending, hookStart, hookRuns>>
past   == <<faults, base, handled, executed, sent, unsent>>
vars   == <<disk, pc, main, offsets, reached, conf, input, msg, flags, hook, past>>

Stored(v) == v >= Oldest
NoMsg     == [t |-> CHOOSE t \in Topics : TRUE, o |-> 0]
Here      == <<cur.t, cur.o>>

Init ==
  /\ pc = "down" /\ main = "init"
  /\ offsets = [t \in Topics |-> 0]
  /\ pos = [t \in Topics |-> 0] /\ rd = [t \in Topics |-> "none"] /\ todo = {}
  /\ cur = NoMsg /\ k = 0 /\ refused = FALSE /\ panicking = FALSE
  /\ interrupt = FALSE /\ workerDead = FALSE /\ sig = FALSE
  /\ stops = {} /\ reached = {}
  /\ onStart = [t \in Topics |-> 0] /\ pending = {}
  /\ hookStart = FALSE /\ hookRuns = 0
  /\ journal = [t \in Topics |-> <<>>]
  /\ file = [t \in Topics |-> Absent] /\ old = [t \in Topics |-> Absent]
  /\ faults = 0 /\ base = [t \in Topics |-> Unset]
  /\ handled = {} /\ executed = {} /\ sent = {} /\ unsent = {}

\* The process is gone, with its memory and all its goroutines.
Halt ==
  /\ pc' = "down" /\ main' = "init"
  /\ offsets' = [t \in Topics |-> 0]
  /\ pos' = [t \in Topics |-> 0] /\ rd' = [t \in Topics |-> "none"] /\ todo' = {}
  /\ cur' = NoMsg /\ k' = 0 /\ refused' = FALSE /\ panicking' = FALSE
  /\ interrupt' = FALSE /\ workerDead' = FALSE /\ sig' = FALSE
  /\ stops' = {} /\ reached' = {}
  /\ onStart' = [t \in Topics |-> 0] /\ pending' = {}
  /\ hookStart' = FALSE /\ hookRuns' = 0

Fault == faults < MaxFaults /\ faults' = faults + 1

----------------------------------------------------------------------------
(* Outside the daemon. *)

Produce(t, kind) ==
  /\ Len(journal[t]) < MaxLen[t]
  /\ journal' = [journal EXCEPT ![t] = Append(@, kind)]
  /\ UNCHANGED <<file, old, pc, main, offsets, reached, conf, input, msg, flags, hook, past>>

\* SIGKILL, an I/O error of commitOffset, a signal before signal.Notify.
Crash ==
  /\ pc # "down"
  /\ Fault /\ Halt
  /\ UNCHANGED <<disk, base, handled, executed, sent, unsent>>

Signal ==
  /\ main # "init" /\ pc # "down"
  /\ ~sig \/ pc = "defer"
  /\ Fault /\ sig' = TRUE
  /\ pc' = IF pc = "defer" THEN "woken" ELSE pc
  /\ UNCHANGED <<disk, main, offsets, reached, conf, input, msg, interrupt, workerDead,
                 hook, base, handled, executed, sent, unsent>>

\* workerRequired, after its command has ended.
WorkerDies ==
  /\ HasWorkers /\ pc # "down" /\ ~interrupt
  /\ Fault /\ interrupt' = TRUE /\ workerDead' = TRUE
  /\ UNCHANGED <<disk, pc, main, offsets, reached, conf, input, msg, sig, hook,
                 base, handled, executed, sent, unsent>>

----------------------------------------------------------------------------
(* Initialisation. *)

\* The operator gives the offset keys of a topic only before it has a journal
\* position at all.
Fresh(t) == ~Stored(file[t]) /\ ~Stored(old[t])

\* parseConfigFile opens every position file, creating the missing ones, and
\* panics if a position is neither stored nor given.
Start ==
  /\ pc = "down"
  /\ \A t \in Topics : Stored(file[t]) \/ Fresh(t)
  /\ file' = [t \in Topics |-> IF Fresh(t) THEN Empty ELSE file[t]]
  /\ offsets' = [t \in Topics |-> IF Fresh(t) THEN FirstOffset ELSE file[t]]
  /\ stops' = {t \in DOMAIN StopAt : Fresh(t)}
  /\ hookStart' = HookStart
  /\ pc' = "query"
  /\ UNCHANGED <<journal, old, main, reached, onStart, input, msg, flags, pending, hookRuns, past>>

StartFails ==
  /\ pc = "down"
  /\ \E t \in Topics : ~Stored(file[t]) /\ ~Fresh(t)
  /\ file' = [t \in Topics |-> IF file[t] = Absent THEN Empty ELSE file[t]]
  /\ UNCHANGED <<journal, old, pc, main, offsets, reached, conf, input, msg, flags, hook, past>>

\* client.GetOffset for every topic.
QueryOffsets ==
  /\ pc = "query"
  /\ onStart' = [t \in Topics |-> Len(journal[t])]
  /\ pending' = Topics /\ todo' = Topics
  /\ pc' = "consume"
  /\ UNCHANGED <<disk, main, offsets, reached, stops, pos, rd, msg, flags, hookStart, hookRuns, past>>

\* consume() commits the position it was given, special offsets included ...
ConsumeTopic(t) ==
  /\ pc = "consume" /\ t \in todo
  /\ cur' = [t |-> t, o |-> 0]
  /\ pc' = "commit"
  /\ UNCHANGED <<disk, main, offsets, reached, conf, input, k, refused, panicking, flags, hook, past>>

\* ... and starts the reader of the topic there.
FirstMessage(t) ==
  CASE offsets[t] = Oldest -> 0
    [] offsets[t] = Newest -> Len(journal[t])
    [] OTHER -> offsets[t]

ConsumePartition ==
  LET t == cur.t IN
  /\ pc = "partition"
  /\ pos' = [pos EXCEPT ![t] = FirstMessage(t)]
  /\ rd' = [rd EXCEPT ![t] = "select"]
  /\ base' = [base EXCEPT ![t] = IF @ = Unset /\ Stored(file[t]) THEN FirstMessage(t) ELSE @]
  /\ todo' = todo \ {t}
  /\ pc' = "consume" /\ cur' = NoMsg
  /\ UNCHANGED <<disk, main, offsets, reached, conf, k, refused, panicking, flags, hook,
                 faults, handled, executed, sent, unsent>>

\* doHookStart forgets the topics that have caught up, and runs the hook when
\* none is left.
CaughtUp(t) ==
  IF offsets[t] = Oldest
    THEN onStart[t] = 0
    ELSE offsets[t] >= onStart[t] \/ offsets[t] = Newest

DoHookStart ==
  IF hookStart
    THEN /\ pending' = {t \in pending : ~CaughtUp(t)}
         /\ hookStart' = (pending' # {})
         /\ hookRuns' = IF pending' = {} THEN hookRuns + 1 ELSE hookRuns
    ELSE UNCHANGED hook

\* The end of main's initialisation: signal.Notify, the start hook, the loop.
Serve ==
  /\ pc = "consume" /\ todo = {}
  /\ DoHookStart
  /\ main' = "wait" /\ pc' = "select"
  /\ UNCHANGED <<disk, offsets, reached, conf, input, msg, flags, past>>

----------------------------------------------------------------------------
(* commitOffset(topic, offset), called by consume and by processMessage. *)

Target_Ahead == IF main = "init" THEN offsets[cur.t] ELSE pos[cur.t] + 1   \* (mutant)
Target == IF main = "init" THEN offsets[cur.t] ELSE cur.o + 1

CommitReturns ==
  IF main = "init" THEN pc' = "partition" /\ UNCHANGED <<main, offsets, reached, conf, input, msg, flags, hook>>
  ELSE IF panicking THEN Halt
  ELSE pc' = "post" /\ UNCHANGED <<main, offsets, reached, conf, input, msg, flags, hook>>

CommitAllowed_Always == TRUE   \* (mutant) an interrupted batch is committed
CommitAllowed == ~interrupt

CommitRefused ==
  /\ pc = "commit" /\ ~CommitAllowed
  /\ CommitReturns
  /\ UNCHANGED <<disk, past>>

Backup_None(t) == old[t]       \* (mutant) the position file is written in place
Backup(t) == file[t]

CommitRename ==
  /\ pc = "commit" /\ CommitAllowed
  /\ offsets' = [offsets EXCEPT ![cur.t] = Target]
  /\ old' = [old EXCEPT ![cur.t] = Backup(cur.t)]
  /\ file' = [file EXCEPT ![cur.t] = Absent]
  /\ pc' = "create"
  /\ UNCHANGED <<journal, main, reached, conf, input, msg, flags, hook, past>>

CommitCreate ==
  /\ pc = "create"
  /\ file' = [file EXCEPT ![cur.t] = Empty]
  /\ pc' = "write"
  /\ UNCHANGED <<journal, old, main, offsets, reached, conf, input, msg, flags, hook, past>>

CommitWrite ==
  /\ pc = "write"
  /\ file' = [file EXCEPT ![cur.t] = Target]
  /\ CommitReturns
  /\ UNCHANGED <<journal, old, past>>

----------------------------------------------------------------------------
(* The reader goroutine of a topic and the loop of main. *)

Fetch(t) ==
  /\ rd[t] = "select" /\ pos[t] < Len(journal[t])
  /\ rd' = [rd EXCEPT ![t] = "holding"]
  /\ UNCHANGED <<disk, pc, main, offsets, reached, conf, pos, todo, msg, flags, hook, past>>

\* The channel is unbuffered: the reader goes on, and looks at interrupt, when
\* the loop has taken its message.
NextRead_Once == "stopped"     \* (mutant) return instead of another turn
NextRead == IF interrupt THEN "stopped" ELSE "select"

TakeMessage(t) ==
  /\ pc = "select" /\ rd[t] = "holding"
  /\ cur' = [t |-> t, o |-> pos[t]]
  /\ k' = 0 /\ refused' = FALSE
  /\ pos' = [pos EXCEPT ![t] = @ + 1]
  /\ rd' = [rd EXCEPT ![t] = NextRead]
  /\ pc' = "process"
  /\ UNCHANGED <<disk, main, offsets, reached, conf, todo, panicking, flags, hook, past>>

TakeSignal ==
  /\ pc = "select" /\ sig
  /\ sig' = FALSE /\ interrupt' = TRUE /\ pc' = "done"
  /\ UNCHANGED <<disk, main, offsets, reached, conf, input, msg, workerDead, hook, past>>

TakeWorkerDead ==
  /\ pc = "select" /\ workerDead
  /\ workerDead' = FALSE /\ pc' = "done"
  /\ UNCHANGED <<disk, main, offsets, reached, conf, input, msg, interrupt, sig, hook, past>>

\* doneCh <- struct{}{}: main receives once, and the loop goes on as long as
\* main has not returned.
SendDone ==
  /\ pc \in {"done", "postdone"} /\ main = "wait"
  /\ main' = "exit"
  /\ pc' = "select"
  /\ IF pc = "done" THEN UNCHANGED hook ELSE DoHookStart
  /\ UNCHANGED <<disk, offsets, reached, conf, input, msg, flags, past>>

\* After processMessage.
MustEnd == interrupt

Post ==
  /\ pc = "post"
  /\ IF MustEnd THEN pc' = "postdone" /\ UNCHANGED hook
                ELSE pc' = "select" /\ DoHookStart
  /\ UNCHANGED <<disk, main, offsets, reached, conf, input, msg, flags, past>>

\* main returns: the process ends, whatever the loop is doing.
Exit ==
  /\ main = "exit"
  /\ Halt
  /\ UNCHANGED <<disk, past>>

----------------------------------------------------------------------------
(* processMessage. *)

Kind    == journal[cur.t][cur.o + 1]
StopOffset(t) == IF t \in stops THEN StopAt[t] ELSE 0   \* a map without the key gives 0
Stopping == stops # {} /\ cur.o >= StopOffset(cur.t)

\* len(OFFSETSxx) == len(OFFSETSx): the panic that ends the daemon.
AllStopped(r) == Cardinality(r) = Cardinality(stops)

AfterStop == "post"

StopReached ==
  /\ pc = "process" /\ Stopping
  /\ IF AllStopped(reached \cup {cur.t})
       THEN Halt
       ELSE /\ reached' = reached \cup {cur.t} /\ pc' = AfterStop
            /\ UNCHANGED <<main, offsets, conf, input, msg, flags, hook>>
  /\ UNCHANGED <<disk, past>>

\* Nothing to execute: not json, an invalid or another host.
Unwanted ==
  /\ pc = "process" /\ ~Stopping
  /\ Kind \in {"bad", "badre", "other"}
  /\ pc' = IF Kind = "other" THEN "commit" ELSE "report"
  /\ handled' = handled \cup {Here}
  /\ UNCHANGED <<disk, main, offsets, reached, conf, input, msg, flags, hook,
                 faults, base, executed, sent, unsent>>

Wanted ==
  /\ pc = "process" /\ ~Stopping
  /\ Kind \notin {"bad", "badre", "other"}
  /\ pc' = IF Defer THEN "defer" ELSE "due"
  /\ UNCHANGED <<disk, main, offsets, reached, conf, input, msg, flags, hook, past>>

\* Consume.Defer: wait for the timer or for a signal ("woken").  The signal is
\* delivered to the select of the loop as well.
Woken ==
  /\ pc = "woken"
  /\ pc' = "post" /\ interrupt' = TRUE
  /\ UNCHANGED <<disk, main, offsets, reached, conf, input, msg, workerDead, sig, hook, past>>

\* exec_ttl: execute, or pass the message because it is outdated (or not yet).
Due ==
  /\ pc \in {"defer", "woken", "due"}
  /\ \/ pc' = "exec" /\ UNCHANGED handled
     \/ Kind = "ttl" /\ pc' = "commit" /\ handled' = handled \cup {Here}
  /\ UNCHANGED <<disk, main, offsets, reached, conf, input, msg, flags, hook,
                 faults, base, executed, sent, unsent>>

Refuses_Never == FALSE         \* (mutant) commands run on after an interrupt
Refuses == interrupt

\* One command of the batch: refused, not for this host, or executed; a
\* failure with error_fails ends the batch.
ExecCommand ==
  /\ pc = "exec" /\ k < Batch
  /\ \/ /\ Refuses
        /\ refused' = TRUE /\ k' \in {k + 1, Batch}
        /\ UNCHANGED executed
     \/ /\ k' = k + 1
        /\ UNCHANGED <<refused, executed>>
     \/ /\ ~Refuses
        /\ executed' = executed \cup {Here} /\ k' \in {k + 1, Batch}
        /\ UNCHANGED refused
  /\ UNCHANGED <<disk, pc, main, offsets, reached, conf, input, cur, panicking, flags, hook,
                 faults, base, handled, sent, unsent>>

AfterBatch == IF HasTest THEN "test" ELSE "report"

BatchDone ==
  /\ pc = "exec" /\ k = Batch
  /\ handled' = IF refused THEN handled ELSE handled \cup {Here}
  /\ pc' = AfterBatch
  /\ UNCHANGED <<disk, main, offsets, reached, conf, input, msg, flags, hook,
                 faults, base, executed, sent, unsent>>

\* workerTest is an ordinary command: execCommand refuses it after an interrupt.
TestWorkers ==
  /\ pc = "test"
  /\ \/ ~interrupt /\ UNCHANGED <<interrupt, faults>>
     \/ ~interrupt /\ Fault /\ interrupt' = TRUE
     \/ interrupt /\ UNCHANGED <<interrupt, faults>>
  /\ pc' = "report"
  /\ UNCHANGED <<disk, main, offsets, reached, conf, input, msg, workerDead, sig, hook,
                 base, handled, executed, sent, unsent>>

NoReport == Silent \/ Kind = "quiet"

\* produceExecReport.  For a message that was not json it is called with no
\* commands at all, whose reportTTL it reads.
SendReport ==
  /\ pc = "report" /\ pc' = "commit"
  /\ \/ /\ NoReport
        /\ UNCHANGED <<panicking, faults, sent, unsent>>
     \/ /\ ~NoReport /\ Kind = "bad"
        /\ panicking' = TRUE
        /\ UNCHANGED <<faults, sent, unsent>>
     \/ /\ ~NoReport /\ Kind # "bad"
        /\ sent' = IF refused THEN sent ELSE sent \cup {Here}
        /\ UNCHANGED <<panicking, faults, unsent>>
     \/ /\ ~NoReport /\ Kind # "bad"
        /\ Fault /\ panicking' = TRUE /\ unsent' = unsent \cup {Here}
        /\ UNCHANGED sent
  /\ UNCHANGED <<disk, main, offsets, reached, conf, input, cur, k, refused, flags, hook,
                 base, handled, executed>>

----------------------------------------------------------------------------
Loop ==
  \/ \E t \in Topics : TakeMessage(t)
  \/ TakeSignal \/ TakeWorkerDead \/ SendDone \/ Post
  \/ StopReached \/ Unwanted \/ Wanted \/ Woken \/ Due
  \/ ExecCommand \/ BatchDone \/ TestWorkers \/ SendReport
  \/ CommitRefused \/ CommitRename \/ CommitCreate \/ CommitWrite

Boot ==
  \/ QueryOffsets \/ \E t \in Topics : ConsumeTopic(t)
  \/ ConsumePartition \/ Serve

Environment ==
  \/ \E t \in Topics : \E kind \in Kinds[t] : Produce(t, kind)
  \/ Crash \/ Signal \/ WorkerDies

Next == Start \/ StartFails \/ Boot \/ Loop \/ Exit \/ Environment \/ \E t \in Topics : Fetch(t)

Spec == Init /\ [][Next]_vars

\* The goroutines of a running daemon are scheduled.  Nothing obliges the operator
\* to start it again.
Fairness ==
  /\ WF_vars(Boot) /\ WF_vars(Loop) /\ WF_vars(Exit)
  /\ \A t \in Topics : WF_vars(Fetch(t))

FairSpec == Spec /\ Fairness

----------------------------------------------------------------------------
(* Properties. *)

Offs == Nat \cup {Newest, Oldest}
Pcs == {"down", "query", "consume", "partition", "select", "process", "defer", "woken", "due", "exec", "test",
        "report", "commit", "create", "write", "post", "done", "postdone"}

FileValues == Offs \cup {Empty, Absent}

DiskOK  == /\ journal \in [Topics -> Seq(AllKinds)]
           /\ file \in [Topics -> FileValues] /\ old \in [Topics -> FileValues]
PlaceOK == pc \in Pcs /\ main \in {"init", "wait", "exit"}
ConfOK  == stops \subseteq DOMAIN StopAt /\ reached \subseteq Topics /\ onStart \in [Topics -> Nat]
InputOK == /\ offsets \in [Topics -> Offs] /\ pos \in [Topics -> Nat] /\ todo \subseteq Topics
           /\ rd \in [Topics -> {"none", "select", "holding", "stopped"}]
MsgOK   == /\ cur \in [t : Topics, o : Nat] /\ k \in 0 .. Batch
           /\ refused \in BOOLEAN /\ panicking \in BOOLEAN
FlagsOK == interrupt \in BOOLEAN /\ workerDead \in BOOLEAN /\ sig \in BOOLEAN
HookOK  == pending \subseteq Topics /\ hookStart \in BOOLEAN /\ hookRuns \in Nat
PastOK  == /\ faults \in Nat /\ base \in [Topics -> Nat \cup {Unset}]
           /\ handled \subseteq Topics \X Nat /\ executed \subseteq Topics \X Nat
           /\ sent \subseteq Topics \X Nat /\ unsent \subseteq Topics \X Nat

\* Every variable holds a value of its kind.
TypeOK == DiskOK /\ PlaceOK /\ ConfOK /\ InputOK /\ MsgOK /\ FlagsOK /\ HookOK /\ PastOK

\* The position the files hold for a topic: while commitOffset is between
\* renaming and writing, the one in the old file.
Committed(t) == IF Stored(file[t]) THEN file[t] ELSE old[t]

\* A position is never committed past a message that was not processed: every
\* message from the start of consumption up to the stored position was executed
\* to the end or rightly skipped ("Offset must be incremented only after
\* processMessage()"), over any crashes, interrupts and restarts.
NothingSkipped ==
  \A t \in Topics : base[t] # Unset =>
    \A o \in base[t] .. Committed(t) - 1 : <<t, o>> \in handled

\* Why it is so, in every state, if consumption does not start at OffsetNewest:
\* every position in the files and in memory is safe, the message in process has
\* safe predecessors, and so has the next message of each reader, unless an
\* interrupt (which forbids commits) or a stop offset (which ends the topic) has
\* let a message pass.
Safe(done, t, n) == \A o \in 0 .. n - 1 : <<t, o>> \in done

BootPcs == {"down", "query", "consume", "partition"}
Busy    == main # "init" /\ pc \in {"process", "defer", "woken", "due", "exec", "test",
                                    "report", "commit", "create", "write"}

PlacesAgree ==
  /\ IF main = "init" THEN pc \in BootPcs \cup {"commit", "create", "write"} ELSE pc \notin BootPcs
  /\ pc = "down" => \A t \in Topics : pos[t] = 0

PositionsSafe == \A t \in Topics :
  /\ file[t] # Newest /\ Safe(handled, t, file[t])
  /\ old[t] # Newest /\ Safe(handled, t, old[t])
  /\ offsets[t] # Newest /\ Safe(handled, t, offsets[t])

MessageSafe == main # "init" =>
  /\ pc \in {"create", "write"} => Safe(handled, cur.t, cur.o + 1)
  /\ ~interrupt =>
       /\ pc \in {"test", "report", "commit"} => Here \in handled /\ Safe(handled, cur.t, cur.o)
       /\ pc \in {"defer", "woken", "due", "exec"} => Safe(handled, cur.t, cur.o)
       /\ pc = "process" => Stopping \/ Safe(handled, cur.t, cur.o)

Passed(t) == stops # {} /\ pos[t] >= StopOffset(t)
ReadersSafe == ~interrupt => \A t \in Topics :
  IF Busy /\ cur.t = t THEN pos[t] = cur.o + 1
                       ELSE Passed(t) \/ Safe(handled, t, pos[t])

RefusedIsInterrupted == refused => interrupt

SkipInv == /\ PlacesAgree /\ PositionsSafe /\ MessageSafe
           /\ ReadersSafe /\ RefusedIsInterrupted

\* Of the messages that were ever executed in part or whole, at most the one at
\* the stored position of each topic can be executed again after a restart.
Mark(t) == IF Committed(t) >= 0 THEN Committed(t) ELSE 0
ReplayBounded == FirstOffset # Newest => \A m \in executed : m[2] <= Mark(m[1])

\* Why, and why the mark moves by one: until its commit the message in process is
\* the one at the mark, unless an interrupt or a stop offset holds the mark back;
\* outside a commit the old file is not needed; and no position is past the journal.
InCommit(t) == pc \in {"create", "write"} /\ cur.t = t
AsMark(v)   == IF v >= 0 THEN v ELSE 0

FilesInOrder == \A t \in Topics :
  IF InCommit(t) THEN ~Stored(file[t]) ELSE pc = "down" \/ Stored(file[t]) \/ ~Stored(old[t])

BootMarks == main = "init" /\ pc # "down" => \A t \in Topics :
  /\ AsMark(offsets[t]) = Mark(t)
  /\ pc # "query" /\ t \notin todo => pos[t] = Mark(t)

ServeMarks == main # "init" => \A t \in Topics :
  IF Busy /\ cur.t = t
    THEN /\ pos[t] = cur.o + 1 /\ Mark(t) <= cur.o
         /\ ~interrupt \/ InCommit(t) => Mark(t) = cur.o \/ (pc = "process" /\ Stopping)
    ELSE Mark(t) <= pos[t] /\ (interrupt \/ Passed(t) \/ Mark(t) = pos[t])

WithinJournal == \A t \in Topics :
  /\ Len(journal[t]) <= MaxLen[t]
  /\ Mark(t) <= Len(journal[t]) /\ pos[t] <= Len(journal[t])
  /\ rd[t] = "holding" => pos[t] < Len(journal[t])

MarkInv == FilesInOrder /\ BootMarks /\ ServeMarks /\ WithinJournal /\ ReplayBounded

\* There is always a position to go back to: once a position was stored for a
\* topic, one of its two files holds a position.
PositionSurvives ==
  \A t \in Topics : base[t] # Unset => Stored(file[t]) \/ Stored(old[t])

\* Why: a topic in the middle of its commit has its position in the old file, and
\* only a crash there leaves it in the old file alone.
SurviveInv == \A t \in Topics : base[t] # Unset =>
  IF pc \in {"create", "write"} /\ cur.t = t
    THEN Stored(old[t])
    ELSE Stored(file[t]) \/ (pc = "down" /\ Stored(old[t]))

\* The daemon implements AtLeastOnce: the position in the files is its mark.
Offsets == UNION {0 .. MaxLen[t] - 1 : t \in Topics}
Promise == INSTANCE AtLeastOnce WITH mark <- [t \in Topics |-> Mark(t)]
AtLeastOnceSpec == Promise!Spec

\* Every message of every topic is processed, or the daemon ends: the readers that
\* hold one wait for the same loop, other goroutines set interrupt under them, and a
\* reader that has seen it brings no more.
EveryMessageHandled ==
  \A t \in Topics, o \in Offsets :
    (base[t] # Unset /\ base[t] <= o /\ o < Len(journal[t]))
      ~> (<<t, o>> \in handled \/ pc = "down")

=============================================================================
