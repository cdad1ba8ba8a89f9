----------------------------- MODULE ReportPool -----------------------------
(***************************************************************************)
(* The shared pool of execution reports (KAFKA/modules/report/report.go):  *)
(* reports are stored under the uuid of their message, and a client that   *)
(* waits for them is notified of each through a buffered channel, and of   *)
(* the time that passes through a second, unbuffered one.                  *)
(*                                                                         *)
(* Threads: the callers of Add; one client per uuid, which calls           *)
(* AddNotifier, receives, and calls DelNotifier; and the timer goroutine   *)
(* of each AddNotifier.  The callers are not in the repository: a client   *)
(* here is as slow as it likes, and may stop receiving for good before it  *)
(* calls DelNotifier or during that call (deaf); it does not call          *)
(* AddNotifier twice without a DelNotifier.                                *)
(*                                                                         *)
(* The locks are Go's: a pending Lock keeps new readers out.  The lock of  *)
(* the pool itself is held for one step only and never while blocked.      *)
(***************************************************************************)
EXTENDS Integers, Sequences, FiniteSets

CONSTANTS
  UUIDs,      \* uuids of messages
  Adders,     \* callers of Add
  Length,     \* length of the channel of notifications
  Ticks,      \* uuid -> the time_out of its client in units of time_tick, 0 without a timer
  Leaving,    \* uuids whose client may stop receiving for good
  MaxRounds   \* bound, uuid -> calls of AddNotifier for it

ASSUME PoolAssumption ==
  /\ UUIDs # {} /\ Length \in Nat \ {0} /\ Ticks \in [UUIDs -> Nat]
  /\ MaxRounds \in [UUIDs -> Nat] /\ Leaving \subseteq UUIDs

VARIABLES
  alive,      \* FALSE after the runtime found concurrent accesses to a map
  opened,     \* uuid -> is there a channel in notifiers.pool
  queued,     \* uuid -> how many indexes of reports are in it
  tchan,      \* uuid -> the channel in timers.pool: the round it was made in, or 0
  round,      \* uuid -> calls of AddNotifier
  client,     \* uuid -> its client: "idle", "lock", "write", "recv", "dlock", "dtimers"
  deaf,       \* uuid -> does nobody receive from its channels any more
  adder,      \* caller of Add -> "idle", "rlock", "send"
  note,       \* caller of Add -> the uuid of its report
  nwriter,    \* the client that holds notifiers.Lock
  timer,      \* uuid and round -> timer goroutine: "none", "sleep", "look", "send", "end"
  ticks       \* uuid and round -> count

notif   == <<opened, queued, nwriter>>
clients == <<round, client, deaf>>
adders  == <<adder, note>>
timers  == <<tchan, timer, ticks>>
vars    == <<alive, notif, clients, adders, timers>>

Timers == UNION {{u} \X (1 .. MaxRounds[u]) : u \in UUIDs}
NoOne  == {}
Nobody == CHOOSE u \in UUIDs : TRUE   \* of an adder that is idle

Init ==
  /\ alive = TRUE
  /\ opened = [u \in UUIDs |-> FALSE] /\ queued = [u \in UUIDs |-> 0]
  /\ tchan = [u \in UUIDs |-> 0] /\ round = [u \in UUIDs |-> 0]
  /\ client = [u \in UUIDs |-> "idle"] /\ deaf = [u \in UUIDs |-> FALSE]
  /\ adder = [a \in Adders |-> "idle"] /\ note = [a \in Adders |-> Nobody]
  /\ nwriter = NoOne
  /\ timer = [x \in Timers |-> "none"] /\ ticks = [x \in Timers |-> 0]

----------------------------------------------------------------------------
(* The locks of notifiers and of timers. *)

NotifiersRead    == {a \in Adders : adder[a] = "send"}
NotifiersPending == {u \in UUIDs : client[u] \in {"lock", "dlock"}}
NotifiersLock    == alive /\ nwriter = NoOne /\ NotifiersRead = {}
\* Mutant: notify takes the lock for itself alone.
NotifiersRLock_Exclusive == NotifiersLock

NotifiersRLock   == alive /\ nwriter = NoOne /\ NotifiersPending = {}

TimersRead    == {x \in Timers : timer[x] \in {"look", "send"}}
TimersPending == {u \in UUIDs : client[u] = "dtimers"}
TimersLock    == alive /\ TimersRead = {}
TimersRLock   == alive /\ TimersPending = {}

----------------------------------------------------------------------------
(* Add.  What it stores, under the lock of the pool, nobody waits for.     *)

Add(a, u) ==
  /\ alive /\ adder[a] = "idle"
  /\ note' = [note EXCEPT ![a] = u]
  /\ adder' = [adder EXCEPT ![a] = "rlock"]
  /\ UNCHANGED <<alive, notif, clients, timers>>

\* Then notify: notifiers.RLock(), ...
NotifyLock(a) ==
  /\ adder[a] = "rlock" /\ NotifiersRLock
  /\ adder' = [adder EXCEPT ![a] = "send"]
  /\ UNCHANGED <<alive, notif, clients, note, timers>>

\* ... the send, which waits for room in the channel, if there is one, and the
\* deferred unlock.
NotifySend(a) ==
  LET u == note[a] IN
  /\ alive /\ adder[a] = "send"
  /\ \/ ~opened[u] /\ UNCHANGED queued
     \/ opened[u] /\ queued[u] < Length /\ queued' = [queued EXCEPT ![u] = @ + 1]
  /\ adder' = [adder EXCEPT ![a] = "idle"] /\ note' = [note EXCEPT ![a] = Nobody]
  /\ UNCHANGED <<alive, opened, nwriter, clients, timers>>

----------------------------------------------------------------------------
(* AddNotifier and DelNotifier. *)

ClientGoes(u, pc) == client' = [client EXCEPT ![u] = pc]

CallAddNotifier(u) ==
  /\ alive /\ client[u] = "idle" /\ round[u] < MaxRounds[u]
  /\ round' = [round EXCEPT ![u] = @ + 1]
  /\ ClientGoes(u, "lock")
  /\ UNCHANGED <<alive, notif, deaf, adders, timers>>

\* With a timer the lock is held for longer.
MakeChannel(u) ==
  /\ client[u] = "lock" /\ NotifiersLock
  /\ opened' = [opened EXCEPT ![u] = TRUE] /\ queued' = [queued EXCEPT ![u] = 0]
  /\ IF Ticks[u] > 0 THEN ClientGoes(u, "write") /\ nwriter' = {u}
                     ELSE ClientGoes(u, "recv") /\ UNCHANGED nwriter
  /\ UNCHANGED <<alive, round, deaf, adders, timers>>

\* timers.pool is written without timers.Lock().
MakeTimer(u) ==
  LET x == <<u, round[u]>> IN
  /\ alive /\ client[u] = "write"
  /\ tchan' = [tchan EXCEPT ![u] = round[u]]
  /\ timer' = [timer EXCEPT ![x] = "sleep"]
  /\ nwriter' = NoOne /\ ClientGoes(u, "recv")
  /\ UNCHANGED <<alive, opened, queued, round, deaf, adders, ticks>>

\* So the runtime may find the write concurrent with a timer's read.
MapRace ==
  /\ alive /\ \E u \in UUIDs : client[u] = "write"
  /\ \E x \in Timers : timer[x] = "look"
  /\ alive' = FALSE
  /\ UNCHANGED <<notif, clients, adders, timers>>

\* Until its channels are closed a client has somebody who receives, or has stopped.
Listening == {u \in UUIDs : client[u] \in {"recv", "dlock", "dtimers"}}

Receives(u) == u \in Listening /\ ~deaf[u]

GoDeaf(u) ==
  /\ alive /\ u \in Leaving /\ Receives(u)
  /\ deaf' = [deaf EXCEPT ![u] = TRUE]
  /\ UNCHANGED <<alive, notif, round, client, adders, timers>>

ReceiveReport(u) ==
  /\ alive /\ Receives(u) /\ queued[u] > 0
  /\ queued' = [queued EXCEPT ![u] = @ - 1]
  /\ UNCHANGED <<alive, opened, nwriter, clients, adders, timers>>

CallDelNotifier(u) ==
  /\ alive /\ client[u] = "recv"
  /\ ClientGoes(u, "dlock")
  /\ UNCHANGED <<alive, notif, round, deaf, adders, timers>>

DelNotification(u) ==
  /\ client[u] = "dlock" /\ NotifiersLock
  /\ nwriter' = {u} /\ opened' = [opened EXCEPT ![u] = FALSE]
  /\ ClientGoes(u, "dtimers")
  /\ UNCHANGED <<alive, queued, round, deaf, adders, timers>>

\* Mutant: notifiers.Lock is not given back.
Unlocked_Kept(u) == {u}

Unlocked(u) == NoOne

DelTimer(u) ==
  /\ client[u] = "dtimers" /\ TimersLock
  /\ tchan' = [tchan EXCEPT ![u] = 0]
  /\ nwriter' = Unlocked(u) /\ ClientGoes(u, "idle") /\ deaf' = [deaf EXCEPT ![u] = FALSE]
  /\ UNCHANGED <<alive, opened, queued, round, adders, timer, ticks>>

----------------------------------------------------------------------------
(* The timer goroutine. *)

TimerGoes(x, pc) == timer' = [timer EXCEPT ![x] = pc]

\* It wakes, and waits for timers.RLock().
TimerWakes(x) ==
  /\ timer[x] = "sleep" /\ TimersRLock
  /\ ticks' = [ticks EXCEPT ![x] = @ + 1]
  /\ TimerGoes(x, "look")
  /\ UNCHANGED <<alive, notif, clients, adders, tchan>>

\* "Already was destroyed", or not.
TimerLooks(x) ==
  /\ alive /\ timer[x] = "look"
  /\ TimerGoes(x, IF tchan[x[1]] = 0 THEN "end" ELSE "send")
  /\ UNCHANGED <<alive, notif, clients, adders, tchan, ticks>>

AfterTick(x) == IF ticks[x] >= Ticks[x[1]] THEN "end" ELSE "sleep"

\* The send waits for the client.  The channel is the one in timers.pool now,
\* whichever round it was made in.
TimerSends(x) ==
  /\ alive /\ timer[x] = "send" /\ Receives(x[1])
  /\ TimerGoes(x, AfterTick(x))
  /\ UNCHANGED <<alive, notif, clients, adders, tchan, ticks>>

----------------------------------------------------------------------------
Client(u) ==
  \/ MakeChannel(u) \/ MakeTimer(u) \/ ReceiveReport(u) \/ DelNotification(u) \/ DelTimer(u)

Notifier(a) == NotifyLock(a) \/ NotifySend(a)

Timer(x) == TimerWakes(x) \/ TimerLooks(x) \/ TimerSends(x)

Next ==
  \/ \E a \in Adders : Notifier(a) \/ \E u \in UUIDs : Add(a, u)
  \/ \E u \in UUIDs : Client(u) \/ GoDeaf(u) \/ CallAddNotifier(u) \/ CallDelNotifier(u)
  \/ \E x \in Timers : Timer(x)
  \/ MapRace

Spec == Init /\ [][Next]_vars

\* Goroutines are scheduled, a client that is not deaf receives, and channels and locks
\* pass over nobody for ever.  When reports come and when clients come and go is not said.
Fairness ==
  /\ \A a \in Adders : SF_vars(Notifier(a))
  /\ \A u \in UUIDs : WF_vars(ReceiveReport(u)) /\ SF_vars(Client(u))
  /\ \A x \in Timers : SF_vars(Timer(x))

FairSpec == Spec /\ Fairness

----------------------------------------------------------------------------
(* Properties. *)

TypeOK ==
  /\ alive \in BOOLEAN /\ nwriter \subseteq UUIDs
  /\ opened \in [UUIDs -> BOOLEAN] /\ queued \in [UUIDs -> 0 .. Length]
  /\ tchan \in [UUIDs -> Nat] /\ round \in [UUIDs -> Nat] /\ ticks \in [Timers -> Nat]
  /\ client \in [UUIDs -> {"idle", "lock", "write", "recv", "dlock", "dtimers"}]
  /\ deaf \in [UUIDs -> BOOLEAN] /\ adder \in [Adders -> {"idle", "rlock", "send"}]
  /\ \A a \in Adders : adder[a] # "idle" => note[a] \in UUIDs
  /\ timer \in [Timers -> {"none", "sleep", "look", "send", "end"}]

\* As long as every client listens, however slow it is, whoever comes to the pool goes
\* again: Add returns; DelNotifier returns, and with it the locks it waits for or holds; and a
\* client that waits is told the time until the time_out.
Excused == ~alive \/ \E u \in UUIDs : deaf[u]

AddReturns == \A a \in Adders : adder[a] # "idle" ~> adder[a] = "idle" \/ Excused
DelReturns == \A u \in UUIDs : client[u] \in {"dlock", "dtimers"} ~> client[u] = "idle" \/ Excused
TimeoutComes ==
  \A x \in Timers : timer[x] = "sleep" ~> ticks[x] = Ticks[x[1]] \/ client[x[1]] # "recv" \/ Excused
PoolServes == AddReturns /\ DelReturns /\ TimeoutComes

\* A client that is gone holds up nobody but those who have reports for it, and clients that
\* come or go: as long as nobody does, Add returns for every client that listens (notify
\* sends under the read lock, which it shares with others).
Settled == \A u \in UUIDs : client[u] \in {"idle", "recv"}
Adding(a, u) == adder[a] # "idle" /\ note[a] = u

OthersServed ==
  \A a \in Adders, u \in UUIDs :
    Adding(a, u) /\ ~deaf[u] ~> ~Adding(a, u) \/ deaf[u] \/ ~Settled \/ ~alive
=============================================================================
