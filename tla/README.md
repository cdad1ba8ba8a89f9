# A verification of VX-PBX

VX-PBX is a collection of programs that run a telephone exchange and the hosts
around it, together with the patched Asterisk 11 files the exchange is built from.
This directory holds TLA+ models of those parts whose correctness depends on
concurrency, on the order of steps and on failures, the TLC configurations that
check them on small instances, and proofs, checked by TLAPS, of the properties that
matter most. `PROJECT.json` names, for every definition, the lines of source it
stands for, and lists the runs, the known hazards with the properties that watch
them, and the theorems.

    tlc -config ExecdCrash.cfg MCExecd          # a run
    tlapm Execd_proofs.tla                      # the proofs of a component

## 1. The system

| Component | State it keeps | Operations | Hard to get right |
| --- | --- | --- | --- |
| **execd**, journal consumer (`KAFKA/execd/src/main.go`) | a position per topic, in memory (`OFFSETS`) and in `<topic>.offset` and `<topic>.offset.old`; start and stop offsets; `interrupt` | start, `consume`, the reader goroutine of a topic, the select loop, `processMessage`, `produceExecReport`, `commitOffset`, `doHookStart` | kills between any two steps; an interrupt set by other goroutines in the middle of a batch; several topics; deferred commits |
| **execd**, workers and shutdown (same file) | `waitWorkers`, `workerDead`, `doneCh`, the mutex, the producer, the worker processes | `workerRequired`, the watcher in `execCommand`, `workerTest`, deferred calls of `main`, stop hook | who tells whom to end, in which order; panics; a worker dying while a signal arrives |
| **report pool** (`KAFKA/modules/report`) | reports by uuid, notification channels, timer channels, three locks | `Add`, `Get`, `Del`, `Clean`, `AddNotifier`, `DelNotifier`, a timer goroutine | sends under locks, channels closed under senders |
| **xdns** (`KAFKA/modules/xdns`) | keys and access lists | `serve`, `checkTSIG`, `nsupdate`, `tsigError` | one answer per request on every path |
| **xlog** (`KAFKA/modules/xlog`) | outputs | `Log` | nothing |
| **ipaddr-collector** (`IPADDRD/GO`) | a ring of buffers, one file per session, rate limiting counters | receive loop, `process`, expiry of its files by ipaddr-check | goroutines of one session, a full ring, kills |
| **ipaddrd** agent (`IPADDRD/C`) | a pid file and its lock | pack addresses into a frame, send | two agents, full buffers |
| **ipaddr-check** (`IPADDRD/BASH`) | a snapshot of the reports, counters | copy, find duplicates, expire, mail | reading files that are being replaced |
| **rule-replace**, **rule-replica**, **replica** (`RUDDER/replicator`) | rules and directives of a remote server; a lock file; shell variables | info, rename, copy, move groups, delete | one request of many fails; interrupted and taken up again; overlapping runs |
| older RUDDER tools, techniques | the same | the same | deprecated |
| **dialplan** (`PBX/ael`) | Asterisk's global variables, groups and call files | 49 functions; FIFO queue with handlers; round robin | callers and handlers without a common lock |
| **informer**, fax, duty, autodial, call (`PBX/ast`, `PBX/sbin`) | message tables, call files | select, mark, place the call | a mark without a call, limits on calls in progress |
| **ldap2ast** (`PBX/sbin`) | two generations of the directory, the exchange's tables | search, swap, derive SQL, execute, reload | a stop between the two commits |
| **UPSERT**, **VX/schema**, SQL, administration scripts, web pages | configuration | translate, print | sequential |
| **x switcher** | keys per window | event loop | abandoned branch, by its README |
| **app_queue**, calls (`Asterisk/11/19/app_queue.c`) | the list of callers of a queue, call attempts of each caller, device states, pauses, penalty limits | `queue_exec`, `join_queue`, `wait_our_turn`, `try_calling`, `ring_one`, `wait_for_answer`, `rna`, `leave_queue`, device state changes | a thread per caller; two callers and one member; positions and priorities; rules by time; who ends which timeout |
| **app_queue**, members | members of each queue, the round, the astdb, the database | add, remove, pause, penalty, reload, realtime load, restart | four sources of members; reads before the lock; what a restart finds |
| **chan_sip**, calls (`Asterisk/11/19/chan_sip.c`) | a dialog: INVITE state, packets, timers, flags; counters of the peer | INVITE, re-INVITE, CANCEL, BYE, ACK and their answers, hang-up, timeouts | hang-ups that cross answers; retransmission; call limits |
| **chan_sip**, registration | a registry entry with its dialogs; a peer with address, nonces, timers, stored binding | REGISTER at both ends, challenge, expiry, qualify, reload, restart | late and repeated packets; what is stored and what is bound |
| **chan_sip**, sessions and media | streams, hold, T.38 state, session timer | offers and answers of both sides, `sip_indicate` for fax, refresh | glare; agreement after refusals; a peer that has gone |
| **chan_sip**, subscriptions | a dialog per subscription, the last state told | SUBSCRIBE, NOTIFY, state changes of the core, expiry | changes while a NOTIFY is unanswered |
| **chan_sip**, transfers | the legs, the REFER in progress | REFER blind, attended, parking; Replaces | hang-ups in the middle, deferred BYE |
| **chan_sip**, matching | the dialogs of a Call-ID | `find_call`, `match_req_to_dialog`, forked answers, merged requests | forks, copies, retransmissions |
| **chan_sip**, call completion | agent, monitor instance, publications | Call-Info, SUBSCRIBE, NOTIFY, PUBLISH | two cores, two monitor threads, no common lock |
| the rest of chan_sip, reqresp_parser, cdr_pgsql | sockets, configuration | parsing, console, one INSERT | pure or input and output |
| kafka and zookeeper templates | | | configuration of other programs |

How they interact: execd, its journal and the programs that put commands on it
share nothing but kafka; execd's reports go back to a journal, and a reader of
that journal keeps them in a report pool. Agents send datagrams to the
collector, which shares a directory with ipaddr-check. `replica` starts one
`rule-replace` per host and these call `rule-replica`, which talks REST to two
Rudder servers. Dialplan, call generators and ldap2ast meet in the database and
in Asterisk's spool directory. app_queue places its calls through channels, those of
chan_sip among them, and hears of members through device states. Inside chan_sip one
monitor thread handles packets and timers under the lock of a dialog, and each
channel has a thread of its own.

What makes each one correct, in a sentence:

* execd: no command batch is lost, and only the batch at the stored position may
  be repeated, whatever dies.
* its shutdown: it ends, and not before its workers do.
* report pool: nobody is held up by somebody else's channel.
* collector: what the checker reads is a complete report of one datagram.
* rule-replace: the new rule has the old one's groups, at no time is a group
  without a rule.
* queue calls: callers are served in the order of priority and position, no member is
  called twice at once, nothing is left ringing, nobody stays past his time.
* queue members: the astdb has every dynamic member, and nobody is passed over in the round.
* SIP calls: the peer's counters return, a dialog ends, and CANCEL and BYE are sent only when they may be.
* registration: the client goes on trying, a nonce is good once, what is stored is what is bound.
* sessions: when a negotiation is over both sides agree about it, and a dead peer is noticed.
* subscriptions, transfers, matching, call completion: the phone is told the truth
  in the end, and nothing is left behind at either end.
* FIFO, informer, ldap2ast, lock files, xdns (planned): see the plan.

## 2. The modules

    AtLeastOnce          what execd promises about a journal
      ^ implemented by
    Execd                the journal consumer          MCExecd          Execd_proofs
    ExecdWorkers         its process and workers       MCExecdWorkers   ExecdWorkers_proofs
    Collector            ipaddr-collector              MCCollector      Collector_proofs
    ReportPool           module report                 MCReportPool
    RuleReplace          rule-replace, rule-replica    MCRuleReplace    RuleReplace_proofs
    QueueCalls           the callers of a queue        MCQueueCalls     Queue_proofs
    QueueMembers         the members of the queues     MCQueueMembers   Queue_proofs
    SipDialog            a dialog, as operators
      ^ used by
    SipCall              a call and its other side     MCSipCall        SipCall_proofs
    SipRegistry, SipRegistrar   both ends of a registration, as operators
      ^ used by
    SipLocation          the two ends and the network  MCSipLocation    SipLocation_proofs
    SipSdp               session descriptions, as operators
      ^ used by
    SipSession           a session and re-INVITEs      MCSipSession
    SipSubscription, SipTransfer, SipMatch, SipCompletion
      ^ composed by
    SipUsages            what else a monitor thread does   MCSipUsages  SipUsages_proofs

### Execd

`journal`, `file` and `old` survive the process; `Halt` is the loss of the rest.
`pc` is the position of the goroutine that initialises and then loops, `main` that
of main, `rd[t]` that of a topic's reader.

| Code | Actions |
| --- | --- |
| `parseConfigFile`, positions; `client.GetOffset` | `Start`, `StartFails`, `QueryOffsets` |
| `consume` | `ConsumeTopic`, the commit, `ConsumePartition` |
| reader goroutine, select loop, `doneCh` | `Fetch`, `TakeMessage`, `TakeSignal`, `TakeWorkerDead`, `Post`, `SendDone`, `Exit` |
| `processMessage` | `StopReached`, `Unwanted`, `Wanted`, `Woken`, `Due`, `ExecCommand`, `BatchDone`, `TestWorkers`, `SendReport` |
| `commitOffset` | `CommitRefused`, `CommitRename`, `CommitCreate`, `CommitWrite` |
| `doHookStart` | `DoHookStart`, part of `Serve`, `Post` and `SendDone` |
| kill, signal, dead worker, producers | `Crash`, `Signal`, `WorkerDies`, `Produce` |

A message is the class of what `processMessage` does with it, `AllKinds`. The
operator gives an offset key only for a topic that has no position yet (`Fresh`).

### ExecdWorkers

Main from the start of the workers to the return of the process, each deferred
call being a value of `main`; the loop goroutine with what a message can do to
this state; and per worker the goroutine `workerRequired` (`routine`), the
goroutine that watches its process (`watch`) and the process (`proc`). A panic of
main unwinds; a panic of another goroutine (`LoopPanic`, `DonePanics`) ends the
process at once. The two modules about execd overlap in `interrupt`, the
channel of dead workers and `doneCh`; each has in full what the other one has as
a fault.

### Collector

One action for the receive loop (`Read`, the ring, the rate limit and its file) and
for the wait on a full ring, and one action per system call of the goroutine of a
datagram (`Serve`): remove and create, create again after the failed exclusive
create, write, rename, release. A datagram is its session and one of three kinds: a report, one
that a check refuses, and one whose length fields disagree, of which the goroutine panics and
takes the process with it; so does the second open that fails, for whatever reason. Contents of a
file are the datagram it came from; `full` says which were written to the end, `cut` which had a
failing write, `torn` which lost their goroutine while it wrote. Expiry, kill and restart are
actions.

### ReportPool

The two maps of channels and their read-write locks, with callers of `Add`, one client per
uuid and one timer goroutine per call of `AddNotifier`; the reports themselves nobody waits for.
A blocking send is an action whose guard is room in the channel, or a receiver. A client is as
slow as it likes, and those of `Leaving` may stop receiving for good (`GoDeaf`, `deaf`). The write
of `timers.pool` without its lock may meet a read of a timer goroutine, and the runtime then ends
the process (`MapRace`, `alive`).

### RuleReplace

The Rudder server as far as the scripts see it, one action for each request that
`rule-replica` makes, with every way it may end (`Get`, `Request`): answered,
refused, an HTTP error, broken off before or after it took effect, or not made
since the lock was taken. Where a rule and its directives, or two rules, are read
by requests that follow each other, one action reads them. The exit statuses of the calls are in the
steps the script goes to next.

### QueueCalls

One action per stretch of a caller's thread between two places where it holds no
lock of the queue: `pc[c]` is where it stands in `queue_exec`, `wait_our_turn`,
`try_calling`, `ring_one` and `wait_for_answer`; the device state thread, the members'
phones and the clock are `Outside`. The list is `line`, with the counter and positions
the code keeps beside it; `att[c][m]` is the call attempt of a caller to a member,
`call_pending` the flag that covers the time before the device shows the call. The
time of a penalty rule is an event that may come at any time. The settings
of the queue are one record of `Settings`.

### QueueMembers

A member is a record, a queue a set of them with the code's positions. `load` is what a
thread has read from the database and not applied yet: reads come before the lock. The loops over
the rows of a reading and over a section of the file are closed expressions: the members
after them, new ones at the end in the order the rows come in. The astdb is
written by the actions that write it in the code; `Restart` starts from it, from the
file and from the database.

### SipDialog and SipCall

`SipDialog` has the parts of `sip_pvt` that handlers share, as operators on the record
`p`: packets, timers, `invitestate`, flags, the peer's counters. `SipCall` has one
action per handler: those of the channel's thread (`sip_call`, `sip_hangup`,
`sip_answer`, `sip_indicate`), of the scheduler, and of each request and response,
and the other side `ua`. `net` keeps every message ever sent, so that each may arrive
late, repeatedly, in any order or never.

### SipRegistry, SipRegistrar and SipLocation

The registry and its dialogs, and the peer, each as a record with operators that return
it changed and collect what is sent; `SipLocation` puts a network between them that
loses, delays, reorders and (up to `MaxFaults`) repeats, and has reloads, restarts,
timers and console commands as actions. A scenario says who the two ends are and what is
wrong with the peer. `twice` and `forced` are history, for properties only.

### SipSdp and SipSession

`process_sdp` and `add_sdp` as operators on the half of the dialog that is about media; a
media line is its kind, whether its port, transport and formats fit, and its
key. `SipSession` has both directions of re-INVITE, T.38 with its abort timer, the bridge
and the session timer. Messages arrive once and in order: `SipCall` is about the rest.

### SipUsages

Four modules with variables of their own, of which one is there in a behaviour:

* `SipSubscription`: the phone, the monitor thread with the two steps of a SUBSCRIBE
  between which it holds no lock, and the thread of the core that announces changes.
  A dialog is its Call-ID and the tag made for it: a SUBSCRIBE that is repeated after its
  dialog was destroyed makes a dialog with the same Call-ID and another tag, whose
  NOTIFYs are numbered from 1 again, and the phone must not take them for those of the first;
* `SipTransfer`: the calls A and B of a phone and C of another one, their parties, the REFER
  in the hands of the monitor thread, the parking thread, the deferred BYE;
* `SipMatch`: `find_call` and `match_req_to_dialog` with a forked INVITE of ours or
  the copies of a caller's, never both (`MatchAssumption`: the Call-ID is of one side);
* `SipCompletion`: two servers, with agent and publications at one and monitor instance and
  EPA entry at the other, and the thread of the core at each. The core's thread (`PublishState`)
  and the monitor thread (`PublishBusy`, `FinishCcNotify`) each make a PUBLISH in three steps, the
  body, the type and the transmission, of one entry that no lock protects: either may send what
  the other has written.

## 3. The runs

Each action and each alternative of it takes place in some run; deadlock is not
checked, as every one of these programs may stop (a daemon
that is not started again, a call that is over, bounds that are reached).

| Run | Question | Properties |
| --- | --- | --- |
| `execd_crash` | Two topics, stop offsets, any two kills, signals, dead workers and failed sends: is a message skipped, is there always a position, what may be executed again, does the daemon refine `AtLeastOnce`? | `NothingSkipped`, `PositionSurvives`, `ReplayBounded`, `AtLeastOnceSpec` |
| `execd_kinds` | Two topics, and so two readers at one channel; a message of any class beside two batches; deferral, worker test, one fault: does every message get its turn, or the daemon end? | `EveryMessageHandled` |
| `workers` | Two workers, three faults, everything configured: does main wait for the workers, and does a shutdown end? | `WaitCoversUncounted`, `ShutdownOfStartedEnds` |
| `collector` | Two sessions, a ring of two, four datagrams: buffers, what the checker can read, progress. | `BufferIsOwn`, `ReportsConsistent`, `ReaderGoesOn` |
| `report_pool` | Two callers, two clients of whom one may stop receiving for good, a time-out of two ticks: does everybody return while all listen, and who is not held up by a client that is gone? | `PoolServes`, `OthersServed` |
| `rules` | Three runs, two faults, two versions of a rule: are groups kept and exclusions made first, as long as requests are answered and runs do not overlap? | `KeptIfAnswered` |
| `queue_calls` | Seven queues of up to three callers and three members: who is called by whom, in which order callers wait, who leaves. | `PriorityOrder`, `OneCallPerMember`, `NothingRings`, `ExpiredLeaves`, `RulesTakeEffect` |
| `queue_members` | A queue of the file and a realtime queue, a database that may be down, three changes: who is next, and what would a restart restore? | `DynamicStored`, `NextKept` |
| `sip_call` | 18 scenarios of placed and received calls on a network that loses, repeats and reorders. | `Counted`, `CancelAfterProgress`, `ByeWaits`, `DialogEnds` |
| `sip_register` | A `register=` line and phones against this registrar and a foreign one, with faults, reload and restart. | `RegistryGoesOn`, `NonceOnce`, `StoredIsBound`, `SilenceNoticed` |
| `sip_session` | Re-INVITEs from both sides: media, keys, hold, fax, session timers, a peer that falls silent. | `SessionAgreed`, `OfferAnswered`, `SilenceEnds` |
| `sip_usages` | Six subscriptions, eight transfers, five forks, seven call completions. | `StateShown`, `ForgottenEnds`, `OutcomeTrue`, `ReferTold`, `LegsEnd`, `ByeFirst`, `StrayEnds`, `MergedOnce`, `CompletionEnds` |

All of them hold. What a property leaves out is in its comment and marked in the
model by a history variable or field, named below under "what the models show".
Each module with variables has a type invariant `TypeOK`; it is not listed in the
configurations, where every line costs a run of its own for its mutant, and holds
on each instance.

**Bounds.** `MaxLen` 2 lets a restart meet a batch before, at and after its
position; two topics and both stop offsets are the least at which one can be ahead
of the other. Two faults are a crash during the recovery from another. A ring of
two buffers with four datagrams wraps around and fills up; two sessions separate
what is and what is not an overlap. Two workers are needed for one to die before
the other was started; the three faults of `workers` are a signal, a death and one failure.
Two ticks have one that is not the last; two clients are the least of whom one can be gone and the
other wait. Three starts of `rule-replace` are a run, its continuation and the
continuation of that, or a third that overlaps. In `execd_kinds` one topic has a message
of any class and the other two batches, so that two readers wait for the loop at once and one of
them comes back to wait again; `execd_crash` has one class, two topics and two messages in each.
Three callers are the least in which one is inserted between two; three members of two
penalties have a second round for `ringall`. Two interfaces and three changes from outside
let a member be stored, changed and removed while a read is not applied yet. A call
has up to three INVITEs of ours and two of the other side, which is a glare and its retry. A registration
has three REGISTERs and nonces: a current, an older and a next one. Sessions have two or three
re-INVITEs from each side. Subscriptions have two changes, two SUBSCRIBEs or two
dialogs, and one lost or repeated message; transfers two REFERs; a fork two phones, a merge
three copies; a completion one suspension, one recall and one slip of each request.

**Fairness.** In `Execd` goroutines that can run do, and nothing more (weak fairness of the
start, of the loop, of each reader and of the end). No reader is promised the channel over
another: that every message is handled follows from the journals being finite, and a reader
starved by endless traffic of another topic is left to Go, whose channels queue blocked senders first
in, first out. In `ExecdWorkers` goroutines go on likewise, and of the channels its select looks at none is
passed over for ever, as Go's select chooses at random (strong fairness of `TakeSignal` and
`TakeDeath`). In `ReportPool` Go's read-write lock lets a waiting writer in before new readers,
which is in the guards, and serves waiters in turn (strong fairness of callers, clients and
timers); a client that is not deaf receives, and any client of `Leaving` may become deaf. A
caller's thread in
`QueueCalls` goes on if it can (weak fairness per caller): its waits have timeouts, but for the
rounds that have none (`Finite`). In
the SIP modules the monitor thread goes on, timers run out, a channel that was told to hang
up does, and what is not lost arrives: in `SipCall` a final response that is awaited is heard,
`SipSubscription` has four conditions, `SipTransfer` and
`SipCompletion` one, `SipMatch` one for each phone, `SipLocation` the qualify timer
only. Nothing is assumed of the operator, of producers, of users, nor that a fault comes.

**Mutants.** Every property of a run is broken by a plausible change of one
definition, named `Definition_Change` and kept next to it.

## 4. What is proved

Each theorem holds for every value of the constants that its module's assumption
allows: any number of callers, queues, datagrams, workers, any scenario. The
assumptions say that bounds are numbers, that sets which are counted are finite, and which
fields a scenario has. `THEOREM Spec => []Inv` is proved in three steps: the initial
states satisfy an inductive invariant, every action keeps it (one lemma for each action or
group of actions, most of them resting on lemmas about the operators the action is made
of), and it implies the property. The inductive invariants were checked by TLC on the
instances of section 3 before they were proved.

`Execd_proofs` (`ExecdAssumption`):

* `TypeCorrect`: `TypeOK`. Every action changes some groups of variables
  (`DiskOK`, `InputOK`, ...), the lemma `SameType` deals with the others.
* `SkipInvCorrect` and `NothingSkippedCorrect`: no stored position passes a
  message that was not processed. `NothingSkipped` is not inductive: it speaks of
  stored positions, and a position is stored several steps after the message was done.
  `SkipInv` adds that each position in the files and in memory is safe
  (`PositionsSafe`), that the message in process has safe predecessors and, from
  the end of its batch on, is itself done (`MessageSafe`), and that the next message
  of each reader has safe predecessors (`ReadersSafe`), except after an interrupt,
  which forbids commits, or past a stop offset, after which the topic never gets as
  far as a commit. The theorem assumes `FirstOffset # Newest`: with that key the stored
  position is -1, and means another message at each start until the first commit.
* `PositionSurvivesCorrect`, by `SurviveInv`: a topic in the middle of its commit
  has its position in the old file, and only a crash leaves it there alone.
* `MarkInvCorrect`, `ReplayBoundedCorrect` and `ImplementsAtLeastOnce`. The mark of a topic is
  the position the next start falls back to. `MarkInv` says that it stays within its journal, is
  what the files hold, is at most the message in process, and is that message itself
  when a command is executed. So what was executed and may be executed again is at the mark, and
  each step is a commit, a message done or a stutter of `AtLeastOnce` (again without
  `Newest`). The fairness of `AtLeastOnce` is none, so the refinement is proved as a whole.

`ExecdWorkers_proofs` (`WorkersAssumption`): `TypeCorrect`, and `WaitInvCorrect` and
`WaitCoversUncountedCorrect`: main does not give the mutex back before the last worker has
ended. The counter of the wait group is the cardinality of those who still owe a
`Done`; `WaitInv` has who they are (`Watched`), that the counter is their number (`Counted`), what
main has behind it where (`Waited`), and bounds on what is still to be counted down (`Bounded`).

`Collector_proofs` (`CollectorAssumption`): `TypeCorrect`, `ServeInvCorrect`,
`BufferIsOwnCorrect`, `SpacedConsistentCorrect`, `ReportsConsistentCorrect`. The
inductive invariant `ServeInv` says who owns a buffer (`Owned`), that the loop never
stands at a buffer in service (`ReadersTurn`), that two goroutines of a session are
an overlap (`OnePerSession`), and what a goroutine without an overlap finds under
its path at each of its steps (`FilesOwned`). Of sessions with an overlap nothing is known of whose
file a path holds; `FilesAccounted` says of each file under either path that it is complete, was
refused a write, is being written or lost its goroutine, and that is what the property needs.
`RrlBoundCorrect`, from `RrlInv` and the
arithmetic of remainders: above the threshold of a window at most one datagram of
`RRL_FACTOR` is served.

`RuleReplace_proofs` (`ReplaceAssumption`): `TypeCorrect` and `KeptIfAnsweredCorrect`. That no
group is without a rule cannot be seen from what the server has: a request is harmless because of what
the run has read and done before it. `SafeInv` says, while nothing has failed and no two
runs have overlapped (`Answered`), that the server has one rule of each name and only the plain and
the prefixed one (`ServerInv`), that one run at most is active (`OneRun`), and for each
step of that run (`Phase`) which rules it has in hand (`InHand`), that it has read them as they are
(`Known`), and that exclusions are complete before groups are included, and the old rule
includes nothing any more before it is deleted (`Moved`). A run that is taken up again starts from
`ServerInv` alone, which is why any number of interruptions does no harm.

`Queue_proofs` has both modules of app_queue. Of `QueueCalls`: `OneCallPerMemberCorrect` and `NothingRingsCorrect`, by `RingInv`: besides
both properties, a member that somebody has decided to call, and whose device does not show
it yet, has `call_pending` set (`PendingCovers`). `PriorityOrderCorrect`, by `LineInv`: besides
the order, nobody is in the list twice, the positions are the places, the counter
is the length, and who is out is not in the list; its lemmas are about the place
`insert_entry` finds and the renumbering of `leave_queue`.

Of `QueueMembers` (`MembersAssumption`): `InvCorrect` and `DynamicStoredCorrect`. The
property is about the queues in memory; the invariant (`StoredInv`) is about all of them,
because a queue that comes back from the database finds what was stored before. What
keeps it is that each step either leaves the dynamic members as they are (`From`) or
dumps the queue it changed. `PlacesCorrect` and the action property `NextKeptCorrect`: that the round
passes nobody over rests on the positions being 0, 1, ... without a gap and without two
alike (`Slots`), which every operation on a queue has to keep: `WithSlots` for those that
come, `WithoutSlots` for those that go (who is behind moves up by the number of those who
went before him, `Ahead`), `HandledForm` and `ChangedPlaced` for those that stay. It also needs that a
member is known by its interface among those of its kind (`Once`), or the one removed could be another
than the one looked at; and that needs the rows, the astdb and what was read to have an interface once
(`Distinct`). `WithoutKeepsFirst` is the arithmetic: positions and the place in the
round move together, so that who is before the place stays before it. The theorem is about
queues of at most 1000 members (`[]SmallQueues`): the code marks who had his turn by adding 1000 to his
position (5172), and among more members the two halves of a round overlap.

`SipCall_proofs` (`CallAssumption`): `CallInvCorrect`, `TypeCorrect`, `CountedCorrect`,
`CancelAfterProgressCorrect` and the action property `ByeWaitsCorrect`. Every operator of `SipDialog` and `SipCall` has a
lemma that takes a dialog in order to one in order (`Ok`, or `Over` once a BYE was sent): its
fields are of their kinds, `inuse` and `ringing` agree with the flags, and a BYE was sent only
when no INVITE was pending. `ByeWaits` has two exceptions that the code has: a re-INVITE
that went past its timeout, and a BYE that is repeated with credentials. `CancelAfterProgress`
is about the network: a CANCEL on its way has a provisional response to its INVITE that
the other side sent. `HushInv` is about calls in which no INVITE has been answered
with 200 yet (`Hushed`): what the dialog may be like then (`Tame`: of a call that was received, `ReceivedSo`, it says nothing but
answers; of one that is placed, `PlacedSo`, one INVITE is out at most, and the state
"proceeding" of that INVITE was heard from a message in `net`), and what may be on the way (`Wire`).

`SipLocation_proofs`: `TypeCorrect`, `InvCorrect`, `RegistryGoesOnCorrect`, `NonceOnceCorrect`
and `StoredIsBoundCorrect`. `Inv` is the types and two invariants named in the model:
of the client, that the dialog, the timer and the state of a registry entry agree
(`Consistent`) and that one that has not given up has a timer (`GoesOn`); of the peer, that
the nonces it let through are older than the one it waits for (`NoncesKept`) and that
the stored entry is there exactly while the registration lasts (`EntryKept`).

`SipUsages_proofs`: a step is a step of one usage, so each has an invariant of its own.

* `SubscriptionCorrect`, `StateShownCorrect` (`SubscriptionBounds`): `StateShown` speaks of what
  the phone has got; `SubscriptionInv` follows the last NOTIFY of each dialog, wherever it is. It is among the
  packets that are sent again, or the phone has it (`Delivered`); a copy with its number, and a phone
  that shows it, has the state noted last (`Shows`, `LastInv`), unless a state is queued, and then a
  NOTIFY is out whose answer brings it (`QueueInv`); and the state noted last is the one
  announced last (`NotedInv`), which needs that a ringing channel skipped as already told was told. What
  the monitor has read without the lock is tied to the announcements by `MonitorInv`, and what
  the phone has confirmed it has got by `PhoneInv`: an answer that drops a packet must not come
  from a phone that lacks it.
* `TransferCorrect`, `OutcomeTrueCorrect`, `ByeFirstCorrect`: `LegsInv` says that a leg goes, or
  is about to, only when both ends know or a timer is left that sends the BYE; `TellInv`
  says for each REFER what its NOTIFYs have told and what the monitor or parking thread that has it
  in hand may still make of it.
* `MatchCorrect`, `MergedOnceCorrect` (`MatchAssumption`): until the ACK, the dialog that rings has
  the branch and the URI of the copy it was made for, and every later copy finds it.

**What proofs found.** Attempts at a proof failed for good reasons in three places, and the
models were corrected after the code: `QueueMembers` had new members of a reading in the reverse
order; a phone of `SipSubscription` took the NOTIFYs of two dialogs with one
Call-ID for one sequence; `CancelAfterProgress` and `ByeWaits` were said of cases that the code
does not treat (an answered call whose state another INVITE left; a challenged BYE), and the scenario
with the second is now in `sip_call`.

**Model-checked only**: of the invariants, `SessionAgreed` (`SipSession`). It is true of the scenarios
of its run and not of all that the constants allow: with an address 0.0.0.0, which begins and
ends a hold in `process_sdp`, the two sides disagree. Of the modules, `ReportPool` and
`SipCompletion`, whose properties are of liveness. Liveness (the properties with `~>` or `<>` in
section 3) rests on fairness and `ENABLED`, which this version of TLAPS does not treat, and stays
with TLC, and so does what a recursive definition computes for every input.

## 5. What the models leave out, and what they show

Left out:

* `Execd`: journals that are truncated by retention (and `ErrOffsetOutOfRange`);
  data not yet on disk at a power failure; local copies of reports
  (`Produce.LocalDirectory`); the errors channel of a consumer; offset keys given to
  repair a position; the replacement of an old producer (1145-1161). An I/O error
  of `commitOffset` is a crash at its place.
* `ExecdWorkers`: SIGKILL of execd itself.
* `Collector`: the bytes of a frame are its kind: a report, refused, or one that panics. `rename`
  is atomic, as POSIX says and against the comment at main.go:184.
* `ReportPool`: the clients are not in the repository. One here receives, at any pace, until its
  channels are closed or it stops for good, and does not call `AddNotifier` twice in a row. The
  reports themselves (`Get`, `Del`, `Clean`), whose lock nobody holds while blocked.
* `RuleReplace`: the Rudder server is not in the repository: its names are unique
  and a deleted directive leaves its rules. INIT, DELETE and ORPHAN runs, rule
  categories, tags, and single groups are left out.
* `QueueCalls`: what is announced and recorded, statistics, the strategies other
  than their order of members; time is the events it brings about. The rounds that have no time
  at all, because the caller's last second runs out between the look at it and the call (5673-5675).
  `RulesTakeEffect` is checked with one caller.
* `SipCall`: media and session timers, which are `SipSession`. Transports other than UDP. The gap
  in which `sip_queue_hangup_cause` lets go of dialog and channel in the middle of an answer
  (22749-22771): a handler is one step. A first transmission that the socket refuses (4194).
* `SipRegistry`: a dialog that cannot be allocated (15262), after which no timer is left.
* `SipTransfer`: an attended transfer tells its success (26327), lets go of the locks and then does
  the masquerade (26351); that is one step, as a hang-up in between makes the core do it first.
* `SipSdp`: AVPF, video security, direct media and the text of formats; a malformed
  line is the last one.
* `SipSubscription`: only peers with `subscribemwi`; authentication always succeeds; a
  message is shorter-lived than the shortest subscription. The core is external.
* `SipMatch`: two phones; losses are fewer than transmissions, so no BYE is given up; an
  incoming dialog outlives the late copies (32 s); hang-up only after an answer, which
  `SipCall` has otherwise.
* `SipCompletion`: the cores are external; authentication is left out; losses are fewer than
  transmissions; a publication lasts an hour, so it expires only when nothing is on
  its way; a request that is lost and sent again is a slow one. The body of a publication is
  written, and read with type and tag for a transmission, as a whole: a torn one is left out.
* Components without a module are listed in `PROJECT.json` with the reason.

What the models show in the code, where nothing promises the contrary; each is a state
of the model, and the properties name the mark that leaves it out:

* execd: the deferred commit of a message that is not json, or whose report could
  not be sent, passes it while the daemon panics (main.go:1134, 1213); a command with timeout 0
  counts the workers' wait group down (436, mark `zeroed`); a worker that is refused before
  it was started is waited for in vain (2002, `Refused`).
* collector: two datagrams of one session in service at once share a path, and the checker may read a report that is not complete (`overlap`); a failing
  second open, or a frame whose lengths disagree, ends the daemon (main.go:119, 175); a RRL file
  that grew too big is never opened again (main.go:263: `f` stays "closed").
* report pool: a write of `timers.pool` without its lock (report.go:144, `MapRace`); a client that is
  gone holds up whoever has a report for it, and then everybody who comes or goes (162, `deaf`).
* rule-replace: a failed request (`broken`) or an overlapping run (`overlap`) loses groups.
* app_queue: `call_next` of an attempt is stale after the list is rebuilt (4417); a failing
  database deletes a realtime queue (2799-2808); `use_weight` is miscounted (2950); above
  1000 members the two halves of a round overlap (5172, `SmallQueues`); without a queue timeout
  and with `timeoutpriority=conf` a round has no end though the caller has one (5673, `Finite`); a
  caller who is taken out of the list follows no penalty rule any more (3519, 5028).
* chan_sip: the call limit is looked at without a lock (6610); a hang-up between the 200 and the
  frame that tells of it sends no BYE (7051); an ACK of a repeated final response confirms a
  dialog that had ended (23945); a call without an owner that is left without a timer while it waits (23193, `left`, which goes
  again when another handler starts one); an offer that was refused after it had changed the call (9773, 10461, 26104, `refused`); a
  poll from the console that stops the timer (29770, `forced`); a state told after a newer
  one (28213, 29050, `raced`) and a NOTIFY of a mailbox that was given up (`missed`); a second
  REFER that destroys the dialog of the first (26499, `refused`); a copy of an INVITE that
  rings again after the ACK (8823, 28463); a suspension that is linked before its data is
  set (2080), an agent made available too late (1865), two threads that write one publication
  (2115, 14058, 24692), which leave the agent with the caller's former state, and an instance that is never freed
  (23356, `leaked`); the uninitialised `expires_int` (27742), which may have any value.

## 6. Plan

Done: the modules above.

What the models could be extended by, in this order:

1. `PbxQueue`: FIFO, Q_HANDLE and Q_CALL of the dialplan with callers that hang up,
   handlers, call files and the agent, against an abstract queue; `RoundRobin` beside it.
2. `LockFiles`: open, lock, unlink of ipaddrd and of rule-replica as two ways of
   the same module, three processes.
3. `Informer`: two mailing lists, call files, answers; `Simultaneous` and marks
   without a call. `LdapSync`: two generations against the tables, with a stop between
   the two commits.
4. `IpaddrCheck` composed with `Collector` through the report directory.
5. `Xdns`: answers per request; CheckACL against a reference.
