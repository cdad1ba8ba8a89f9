----------------------------- MODULE QueueCalls -----------------------------
(***************************************************************************)
(* The calls of one queue (app_queue.c): each caller runs queue_exec in a  *)
(* thread of its own - it joins the list of the queue, waits for its turn, *)
(* calls members until one answers, and leaves - while device states reach *)
(* the queue through another thread.                                       *)
(*                                                                         *)
(* A caller holds the lock of the queue or of a member only inside one     *)
(* step here.  The settings of the queue are one of Settings, chosen at    *)
(* the start.  Time is the events it brings about: a caller's timeout, the *)
(* timeout of one round of calls, the end of a wrapup time.                *)
(***************************************************************************)
EXTENDS Integers, FiniteSets, SequencesExt

CONSTANTS
  Callers, Members,
  NoMember,     \* NULL
  Order,        \* the members in the order of a list of call attempts
  Settings      \* the queues: their options, members (staff) and callers, with what
                \* the dialplan gives these (priority, position, penalty limit)

ASSUME QueueAssumption ==
  /\ NoMember \notin Members
  /\ Order \in Seq(Members) /\ ToSet(Order) = Members
  /\ \A s \in Settings :
       /\ s.staff \subseteq Members /\ s.joins \subseteq Callers
       /\ s.penalty \in [Members -> Nat]     \* member.penalty
       /\ s.limit \in [Callers -> Nat]       \* QUEUE_MAX_PENALTY, QUEUE_MIN_PENALTY
       /\ s.least \in [Callers -> Nat]       \* (INT_MAX where it is not set)
       /\ s.prio \in [Callers -> Int]        \* QUEUE_PRIO
       /\ s.position \in [Callers -> Nat]    \* the position asked for, 0 for none
       /\ s.said \in [Callers -> Nat]        \* the position told before a restart, or 0

VARIABLES
  set,           \* the settings
  line, count,   \* the callers in the queue, and call_queue.count
  pc,            \* caller -> where its thread is
  pos,           \* caller -> queue_ent.pos
  last_pos_said, \* caller -> queue_ent.last_pos_said
  spoken,        \* caller -> the position last spoken to it, 0 for none
  band,          \* caller -> queue_ent.max_penalty and min_penalty
  due, applied,  \* caller -> the penalty rules whose time has come, and those before qe.pr
  expired,       \* caller -> is it past queue_ent.expire
  pending,       \* caller -> queue_ent.pending
  batch,         \* caller -> the members ring_one is about to ring
  rung,          \* caller -> did one of the batch get called
  again,         \* caller -> was ring_one called for the next penalty already
  att,           \* caller -> member -> its call attempt
  lastcall,      \* caller -> member -> is callattempt.lastcall within the wrapup time
  start,         \* caller -> the first attempt that is watched
  call_next,     \* caller -> member -> callattempt.call_next
  peer,          \* caller -> the member that answered
  status,        \* member -> the device state the queue was last told of
  paused, call_pending,
  wrapup,        \* member -> is member.lastcall within the wrapup time
  own            \* member -> is its device in a call that is not the queue's

queue   == <<line, count, pos>>
told    == <<last_pos_said, spoken>>
rules   == <<band, due, applied>>
dialing == <<batch, rung, again>>
chain   == <<start, call_next>>
memberStates == <<status, paused, call_pending, wrapup, own>>
vars    == <<set, queue, told, rules, dialing, chain, memberStates, pc, expired, pending, att, lastcall, peer>>

Attempts == {"no", "todo", "pend", "ring", "up", "fwd", "fwdup", "dead"}
Places   == {"out", "turn", "head", "ring", "dial", "place", "wait", "poll",
             "none", "drop", "won", "answered", "talk", "retry", "bit", "stop"}
Channels == {"ring", "up", "fwd", "fwdup"}   \* stillgoing with a channel

InLine(c)  == c \in ToSet(line)
Live(c)    == {m \in Members : att[c][m] \in Channels}
Todo(c)    == {m \in Members : att[c][m] = "todo"}
FirstOf(S) == Order[CHOOSE i \in DOMAIN Order :
                      Order[i] \in S /\ \A j \in 1 .. i - 1 : Order[j] \notin S]

FirstBand(c) == [most |-> set.limit[c], least |-> set.least[c]]

Init ==
  /\ set \in Settings
  /\ line = <<>> /\ count = 0
  /\ pc = [c \in Callers |-> "out"]
  /\ pos = [c \in Callers |-> 0]
  /\ last_pos_said = set.said
  /\ spoken = [c \in Callers |-> 0] /\ due = spoken /\ applied = spoken
  /\ band = [c \in Callers |-> FirstBand(c)]
  /\ expired = [c \in Callers |-> FALSE] /\ pending = expired /\ rung = expired /\ again = expired
  /\ batch = [c \in Callers |-> {}]
  /\ att = [c \in Callers |-> [m \in Members |-> "no"]]
  /\ lastcall = [c \in Callers |-> [m \in Members |-> FALSE]]
  /\ start = [c \in Callers |-> NoMember] /\ peer = start
  /\ call_next = [c \in Callers |-> [m \in Members |-> NoMember]]
  /\ status = [m \in Members |-> "idle"]
  /\ paused = [m \in Members |-> FALSE]
  /\ call_pending = paused /\ wrapup = paused /\ own = paused
-----------------------------------------------------------------------------
(* The penalties a caller's members may have, and the rules that change    *)
(* them while it waits.                                                    *)

INT_MAX == 2147483647   \* no limit

\* insert_penaltychange: the rules of a list are sorted by their times.
InsertRule(list, r) ==
  LET later == {i \in DOMAIN list : r.time < list[i].time}
  IN  InsertAt(list, IF later = {} THEN Len(list) + 1 ELSE Min(later), r)

\* copy_rules: a caller keeps the list as it was when it came.
SortedRules == [s \in Settings |-> FoldLeft(InsertRule, <<>>, s.rules)]
Rules == SortedRules[set]

\* update_qe_rule
UpdateRule(b, r) ==
  LET new(old, rel, val) == IF old = INT_MAX THEN INT_MAX ELSE Max({0, IF rel THEN old + val ELSE val})
      most == new(b.most, r.maxrel, r.max)
  IN  [most |-> most, least |-> IF b.least = INT_MAX THEN INT_MAX ELSE Min({new(b.least, r.minrel, r.min), most})]

\* leave_queue frees the rules: a caller that was taken out of the line follows none.
Follows(c) == InLine(c)

\* The limits of c when all rules whose time has come are applied.
BandDue(c) ==
  IF applied[c] = due[c] \/ ~Follows(c) THEN band[c]
  ELSE FoldLeft(UpdateRule, band[c], SubSeq(Rules, applied[c] + 1, due[c]))

Admitted(m, b) ==
  /\ set.penalty[m] <= b.most
  /\ b.least = INT_MAX \/ set.penalty[m] >= b.least
-----------------------------------------------------------------------------
(* Members and their devices.                                              *)

\* The state of a device: that of the calls at it.  A forwarded call is not.
Dev(m) ==
  IF own[m] \/ \E c \in Callers : att[c][m] = "up" THEN "inuse"
  ELSE IF \E c \in Callers : att[c][m] = "ring" THEN "ringing" ELSE "idle"

\* is_member_available
Available(m) ==
  /\ status[m] = "idle" \/ set.ringinuse
  /\ ~paused[m] /\ ~wrapup[m]

\* num_available_members: with ringall or without autofill it counts one at most.
NumAvailable ==
  LET avl == Cardinality({m \in set.staff : Available(m)})
  IN  IF ~set.autofill \/ set.ringall THEN (IF avl > 0 THEN 1 ELSE 0) ELSE avl

\* get_member_status: nobody can take a call of c, by the conditions conds.  States
\* that lag are looked up again if the conditions ask about ringing members.
NoneFor(c, conds, state) ==
  \A m \in set.staff :
    \/ ~Admitted(m, band[c]) /\ "penalty" \in conds
    \/ state[m] # "idle" /\ state[m] \in conds
    \/ paused[m] /\ "paused" \in conds
    \/ wrapup[m] /\ "wrapup" \in conds

Empty(c, conds) ==
  /\ NoneFor(c, conds, status)
  /\ "ringing" \in conds => NoneFor(c, conds, [m \in Members |-> Dev(m)])

UpdateStatus(m, state) == status' = [status EXCEPT ![m] = state]

\* A device state change reaches the queue, with the state of that moment.
HandleStatechange(m) ==
  /\ status[m] # Dev(m)
  /\ UpdateStatus(m, Dev(m))
  /\ UNCHANGED <<set, queue, told, rules, dialing, chain, pc, expired, pending, att, lastcall, peer,
                 paused, call_pending, wrapup, own>>

SetPaused(m) ==
  /\ set.others /\ m \in set.staff
  /\ paused' = [paused EXCEPT ![m] = ~@]
  /\ UNCHANGED <<set, queue, told, rules, dialing, chain, pc, expired, pending, att, lastcall, peer,
                 status, call_pending, wrapup, own>>

OwnCall(m) ==
  /\ set.others /\ m \in set.staff
  /\ own' = [own EXCEPT ![m] = ~@]
  /\ UNCHANGED <<set, queue, told, rules, dialing, chain, pc, expired, pending, att, lastcall, peer,
                 status, paused, call_pending, wrapup>>

\* The wrapup time of a member ends, and with it that of the older copies.
WrapupOver(m) ==
  /\ wrapup[m]
  /\ wrapup' = [wrapup EXCEPT ![m] = FALSE]
  /\ lastcall' = [c \in Callers |-> [lastcall[c] EXCEPT ![m] = FALSE]]
  /\ UNCHANGED <<set, queue, told, rules, dialing, chain, pc, expired, pending, att, peer,
                 status, paused, call_pending, own>>
-----------------------------------------------------------------------------
(* Joining and leaving.                                                    *)

\* join_queue: a restored caller goes behind those who were told a position up to its own.
Wanted(c) ==
  LET ahead == {pos[x] : x \in {y \in ToSet(line) : last_pos_said[y] \in 1 .. set.position[c]}}
      last  == CHOOSE p \in ahead : \A q \in ahead : p >= q
  IN  IF set.said[c] > 0 /\ ahead # {} /\ last >= set.position[c] THEN last + 1 ELSE set.position[c]

\* Mutant: the position asked for counts whatever the priority
Precedes_AnyPrio(c, i, want) ==
  set.prio[c] > set.prio[line[i]] \/ (want > 0 /\ want <= i)

\* The place in the list: before the first caller of a lower priority, and, for one who
\* asks for a position, before the first of its own priority at or behind that position.
Precedes(c, i, want) ==
  \/ set.prio[c] > set.prio[line[i]]
  \/ set.prio[c] >= set.prio[line[i]] /\ want > 0 /\ want <= i

Place(c, want) ==
  LET later == {i \in DOMAIN line : Precedes(c, i, want)}
  IN  IF later = {} THEN Len(line) + 1 ELSE CHOOSE i \in later : \A j \in later : i <= j

Renumbered(l) == [c \in Callers |-> IF c \in ToSet(l) THEN CHOOSE i \in DOMAIN l : l[i] = c ELSE pos[c]]

Full == set.maxlen > 0 /\ count >= set.maxlen

Join(c) ==
  /\ pc[c] = "out" /\ c \in set.joins
  /\ ~Empty(c, set.joinempty) \/ set.joinempty = {}
  /\ ~Full
  /\ line' = InsertAt(line, Place(c, Wanted(c)), c)
  /\ count' = count + 1
  /\ pos' = Renumbered(line')
  /\ pc' = [pc EXCEPT ![c] = "turn"]
  /\ UNCHANGED <<set, told, rules, dialing, chain, memberStates, expired, pending, att, lastcall, peer>>

\* leave_queue
Leave(c) ==
  IF InLine(c)
  THEN /\ line' = RemoveAt(line, CHOOSE i \in DOMAIN line : line[i] = c)
       /\ count' = count - 1
       /\ pos' = Renumbered(line')
  ELSE UNCHANGED queue

\* The end of queue_exec.  The next call of c starts afresh.
Stop(c) ==
  /\ pc[c] = "stop"
  /\ Leave(c)
  /\ pc' = [pc EXCEPT ![c] = "out"]
  /\ last_pos_said' = [last_pos_said EXCEPT ![c] = set.said[c]]
  /\ spoken' = [spoken EXCEPT ![c] = 0]
  /\ expired' = [expired EXCEPT ![c] = FALSE]
  /\ pending' = [pending EXCEPT ![c] = FALSE]
  /\ due' = [due EXCEPT ![c] = 0]
  /\ applied' = [applied EXCEPT ![c] = 0]
  /\ band' = [band EXCEPT ![c] = FirstBand(c)]
  /\ UNCHANGED <<set, dialing, chain, memberStates, att, lastcall, peer>>
-----------------------------------------------------------------------------
(* wait_our_turn and the loop of the head callers.                         *)

IsOurTurn(c) ==
  /\ InLine(c)
  /\ Cardinality({x \in ToSet(line) : pos[x] < pos[c] /\ ~pending[x]}) < NumAvailable
  /\ set.autofill \/ pos[c] = 1

Goto(c, place) == pc' = [pc EXCEPT ![c] = place]

Still == UNCHANGED <<set, queue, told, rules, dialing, chain, memberStates, expired, pending, att, lastcall, peer>>

TurnComes(c) ==
  pc[c] = "turn" /\ IsOurTurn(c) /\ Goto(c, "head") /\ Still

\* The loop of the head callers ends what wait_our_turn gave up.
TurnExpires(c) ==
  pc[c] = "turn" /\ ~IsOurTurn(c) /\ expired[c] /\ Goto(c, "head") /\ Still

\* Nobody is left to take the call: the caller is out of the queue, but wait_our_turn
\* returns what it returns when the turn has come.
TurnEmpty(c) ==
  /\ pc[c] = "turn" /\ ~IsOurTurn(c) /\ ~expired[c]
  /\ set.leaveempty # {} /\ Empty(c, set.leaveempty)
  /\ Leave(c)
  /\ Goto(c, "head")
  /\ UNCHANGED <<set, told, rules, dialing, chain, memberStates, expired, pending, att, lastcall, peer>>

\* say_position.  Without backoff a caller hears the lowest position it was told before.
Announce(c) ==
  /\ set.announce
  /\ pc[c] = "turn" /\ ~IsOurTurn(c) /\ ~expired[c]
  /\ ~(set.leaveempty # {} /\ Empty(c, set.leaveempty))
  /\ LET before == last_pos_said[c]
     IN  /\ spoken' = [spoken EXCEPT ![c] =
                         IF ~set.backoff /\ before > 0 /\ pos[c] > before THEN before ELSE pos[c]]
         /\ last_pos_said' = [last_pos_said EXCEPT ![c] =
                                IF set.backoff \/ before = 0 \/ pos[c] < before THEN pos[c] ELSE before]
  /\ UNCHANGED <<set, queue, rules, dialing, chain, memberStates, pc, expired, pending, att, lastcall, peer>>

\* The time of the next rules comes.
RuleDue(c) ==
  /\ pc[c] # "out" /\ due[c] < Len(Rules)
  /\ due' = [due EXCEPT ![c] = Max({i \in DOMAIN Rules : Rules[i].time = Rules[@ + 1].time})]
  /\ UNCHANGED <<set, queue, told, band, applied, dialing, chain, memberStates, pc, expired, pending, att, lastcall, peer>>

FollowRules(c) ==
  /\ band' = [band EXCEPT ![c] = BandDue(c)]
  /\ applied' = [applied EXCEPT ![c] = IF Follows(c) THEN due[c] ELSE @]

\* wait_our_turn, at the end of its loop
MoveOn(c) ==
  /\ pc[c] = "turn" /\ ~IsOurTurn(c) /\ ~expired[c] /\ applied[c] < due[c] /\ Follows(c)
  /\ ~(set.leaveempty # {} /\ Empty(c, set.leaveempty))
  /\ FollowRules(c)
  /\ UNCHANGED <<set, queue, told, due, dialing, chain, memberStates, pc, expired, pending, att, lastcall, peer>>

\* The caller hangs up or dials an extension while it listens or waits.
Quit(c) ==
  pc[c] \in {"turn", "head", "bit"} /\ Goto(c, "stop") /\ Still

Expire(c) ==
  /\ set.expires /\ pc[c] # "out" /\ ~expired[c]
  /\ expired' = [expired EXCEPT ![c] = TRUE]
  /\ UNCHANGED <<set, queue, told, rules, dialing, chain, memberStates, pc, pending, att, lastcall, peer>>

HeadExpired(c) ==
  pc[c] = "head" /\ expired[c] /\ Goto(c, "stop") /\ Still

\* A round of calls ended without one: leave, or wait and look again.
Retry(c) ==
  /\ pc[c] = "retry"
  /\ LET leaves == expired[c] \/ (set.leaveempty # {} /\ Empty(c, set.leaveempty))
     IN  \/ leaves /\ Goto(c, "stop")
         \/ set.once /\ Goto(c, "stop")
         \/ ~leaves /\ Goto(c, "bit")
  /\ Still

Bit(c) ==
  pc[c] = "bit" /\ Goto(c, IF IsOurTurn(c) THEN "head" ELSE "turn") /\ Still
-----------------------------------------------------------------------------
(* try_calling: the attempts, and ring_one.                                *)

\* Mutant: a caller that need not wait for its turn keeps its limits
TryCalling_AsCame(c) ==
  /\ pc[c] = "head" /\ ~expired[c]
  /\ att' = [att EXCEPT ![c] = [m \in Members |-> IF m \in set.staff /\ Admitted(m, band[c]) THEN "todo" ELSE "no"]]
  /\ lastcall' = [lastcall EXCEPT ![c] = wrapup]
  /\ pending' = [pending EXCEPT ![c] = TRUE]
  /\ Goto(c, "ring")
  /\ UNCHANGED <<set, queue, told, rules, dialing, chain, memberStates, expired, peer>>

\* queue_exec and try_calling: the rules, and an attempt for every member they admit.
TryCalling(c) ==
  /\ pc[c] = "head" /\ ~expired[c]
  /\ FollowRules(c)
  /\ att' = [att EXCEPT ![c] = [m \in Members |-> IF m \in set.staff /\ Admitted(m, BandDue(c)) THEN "todo" ELSE "no"]]
  /\ lastcall' = [lastcall EXCEPT ![c] = wrapup]
  /\ pending' = [pending EXCEPT ![c] = TRUE]
  /\ Goto(c, "ring")
  /\ UNCHANGED <<set, queue, told, due, dialing, chain, memberStates, expired, peer>>

\* calc_metric and find_best: penalties come first, whatever the strategy.
Best(c) == {m \in Todo(c) : \A n \in Todo(c) : set.penalty[m] <= set.penalty[n]}

RingOne(c) ==
  /\ pc[c] = "ring"
  /\ \/ /\ Todo(c) = {}
        /\ Goto(c, "wait")
        /\ UNCHANGED <<batch, rung>>
     \/ /\ \E m \in Best(c) : batch' = [batch EXCEPT ![c] = IF set.ringall THEN Best(c) ELSE {m}]
        /\ rung' = [rung EXCEPT ![c] = FALSE]
        /\ Goto(c, "dial")
  /\ UNCHANGED <<set, queue, told, rules, chain, memberStates, again, expired, pending, att, lastcall, peer>>

\* Mutant: call_pending is not looked at
CanRing_NoPending(c, m) ==
  /\ ~paused[m]
  /\ set.ringinuse \/ status[m] = "idle"
  /\ ~lastcall[c][m]
  /\ set.ringinuse \/ Dev(m) = "idle"

\* can_ring_entry, with the state of the device itself at the end
CanRing(c, m) ==
  /\ ~paused[m]
  /\ set.ringinuse \/ status[m] = "idle"
  /\ ~lastcall[c][m]
  /\ set.ringinuse \/ (~call_pending[m] /\ Dev(m) = "idle")

RingEntry(c, m) ==
  /\ pc[c] = "dial" /\ batch[c] # {} /\ m = FirstOf(batch[c])
  /\ \/ /\ CanRing(c, m)
        /\ call_pending' = [call_pending EXCEPT ![m] = @ \/ ~set.ringinuse]
        /\ att' = [att EXCEPT ![c][m] = "pend"]
        /\ Goto(c, "place")
        /\ UNCHANGED batch
     \/ /\ ~CanRing(c, m) \/ set.weight   \* a queue with more weight may want the member
        /\ att' = [att EXCEPT ![c][m] = "dead"]
        /\ batch' = [batch EXCEPT ![c] = @ \ {m}]
        /\ UNCHANGED <<call_pending, pc>>
  /\ UNCHANGED <<set, queue, told, rules, rung, again, chain, expired, pending, lastcall, peer,
                 status, paused, wrapup, own>>

\* ast_request and ast_call, either of which may fail
PlaceCall(c, m) ==
  /\ pc[c] = "place" /\ att[c][m] = "pend"
  /\ \/ /\ att' = [att EXCEPT ![c][m] = "ring"]
        /\ rung' = [rung EXCEPT ![c] = TRUE]
     \/ /\ att' = [att EXCEPT ![c][m] = "dead"]
        /\ UNCHANGED rung
  /\ call_pending' = [call_pending EXCEPT ![m] = FALSE]
  /\ batch' = [batch EXCEPT ![c] = @ \ {m}]
  /\ Goto(c, "dial")
  /\ UNCHANGED <<set, queue, told, rules, again, chain, expired, pending, lastcall, peer,
                 status, paused, wrapup, own>>

\* ring_one goes on to the next best until a call was placed or the caller has expired.
RoundRung(c) ==
  /\ pc[c] = "dial" /\ batch[c] = {}
  /\ Goto(c, IF rung[c] \/ expired[c] THEN "wait" ELSE "ring")
  /\ Still
-----------------------------------------------------------------------------
(* wait_for_answer.                                                        *)

\* Mutant: the time the caller has left is not looked at
Finite_Timeout == set.timeout

\* A round of calls ends: by the timeout of the queue or, unless the configuration has
\* priority (timeoutpriority=conf), at the latest when the caller expires.
Finite == set.timeout \/ (set.expires /\ ~set.conf)

\* The attempts with channels are linked; what was linked before stays as it was.
Watch(c) ==
  /\ pc[c] = "wait" /\ Live(c) # {}
  /\ start' = [start EXCEPT ![c] = FirstOf(Live(c))]
  /\ call_next' = [call_next EXCEPT ![c] =
       [m \in Members |->
          LET later == {Order[j] : j \in {k \in DOMAIN Order : \E i \in 1 .. k - 1 : Order[i] = m}}
          IN  IF m \in Live(c) /\ later \cap Live(c) # {} THEN FirstOf(later \cap Live(c)) ELSE @[m]]]
  /\ again' = [again EXCEPT ![c] = FALSE]
  /\ Goto(c, "poll")
  /\ UNCHANGED <<set, queue, told, rules, batch, rung, memberStates, expired, pending, att, lastcall, peer>>

\* The attempts that are visited from start.
Chain(c) ==
  LET step[n \in Nat] == IF n = 0 THEN {start[c]} \ {NoMember}
                         ELSE step[n - 1] \cup ({call_next[c][m] : m \in step[n - 1]} \ {NoMember})
  IN  step[Cardinality(Members)]

\* Nobody rings any more: with ringall, the members of the next penalty are called.
NextLevel(c) ==
  /\ pc[c] = "wait" /\ Live(c) = {} /\ set.ringall /\ ~again[c] /\ Todo(c) # {}
  /\ again' = [again EXCEPT ![c] = TRUE]
  /\ Goto(c, "ring")
  /\ UNCHANGED <<set, queue, told, rules, batch, rung, chain, memberStates, expired, pending, att, lastcall, peer>>

NoLines(c) ==
  /\ pc[c] = "wait" /\ Live(c) = {}
  /\ ~set.ringall \/ again[c] \/ Todo(c) = {}
  /\ Goto(c, "none")
  /\ Still

\* rna: ring no answer, of every member of S
RingNoAnswer(S) == paused' = [m \in Members |-> paused[m] \/ (set.autopause /\ m \in S)]

\* The device of m, or where it forwards to, answers; c's thread sees it later.
PickUp(c, m) ==
  /\ att[c][m] \in {"ring", "fwd"}
  /\ att' = [att EXCEPT ![c][m] = IF @ = "ring" THEN "up" ELSE "fwdup"]
  /\ UNCHANGED <<set, queue, told, rules, dialing, chain, memberStates, pc, expired, pending, lastcall, peer>>

\* The first of the chain that is up takes the call.  If the time is over at that moment,
\* every member of the chain is treated as one that did not answer.
Answered(c) ==
  LET up == {m \in Chain(c) : att[c][m] \in {"up", "fwdup"}}
  IN  /\ pc[c] = "poll" /\ up # {}
      /\ peer' = [peer EXCEPT ![c] = FirstOf(up)]
      /\ \/ UNCHANGED paused
         \/ Finite /\ RingNoAnswer(Chain(c))
      /\ Goto(c, "won")
      /\ UNCHANGED <<set, queue, told, rules, dialing, chain, expired, pending, att, lastcall,
                     status, call_pending, wrapup, own>>

\* Busy, congestion or a hangup of the called device.  Except with ringall the next member
\* is called if there is time left.
AttemptFails(c, m) ==
  /\ pc[c] = "poll" /\ m \in Chain(c) /\ att[c][m] \in {"ring", "fwd"}
  /\ att' = [att EXCEPT ![c][m] = "dead"]
  /\ \/ RingNoAnswer({m})
     \/ ~set.pausebusy /\ UNCHANGED paused
  /\ \/ Goto(c, "wait")
     \/ ~set.ringall /\ Goto(c, "ring")
  /\ UNCHANGED <<set, queue, told, rules, dialing, chain, expired, pending, lastcall, peer,
                 status, call_pending, wrapup, own>>

\* The device forwards its call: the call goes there, unless that fails or is not allowed.
ForwardCall(c, m) ==
  /\ set.forward /\ pc[c] = "poll" /\ m \in Chain(c) /\ att[c][m] = "ring"
  /\ \E after \in {"fwd", "dead"} : att' = [att EXCEPT ![c][m] = after]
  /\ Goto(c, "wait")
  /\ UNCHANGED <<set, queue, told, rules, dialing, chain, memberStates, expired, pending, lastcall, peer>>

\* The caller hangs up or dials an extension; with the option H, '*' ends only the round.
CallerQuits(c) ==
  /\ pc[c] = "poll"
  /\ \E place \in {"drop"} \cup (IF set.star THEN {"none"} ELSE {}) : Goto(c, place)
  /\ Still

RingTimeout(c) ==
  /\ pc[c] \in {"wait", "poll"} /\ Finite
  /\ pc[c] = "poll" => \A m \in Chain(c) : att[c][m] \notin {"up", "fwdup"}
  /\ RingNoAnswer(Chain(c))
  /\ Goto(c, "none")
  /\ UNCHANGED <<set, queue, told, rules, dialing, chain, expired, pending, att, lastcall, peer,
                 status, call_pending, wrapup, own>>
-----------------------------------------------------------------------------
(* try_calling: after the round.                                           *)

NoAttempts   == [m \in Members |-> "no"]
ForgetRound(c) ==
  /\ start' = [start EXCEPT ![c] = NoMember]
  /\ call_next' = [call_next EXCEPT ![c] = [m \in Members |-> NoMember]]
  /\ again' = [again EXCEPT ![c] = FALSE]
  /\ rung' = [rung EXCEPT ![c] = FALSE]
  /\ lastcall' = [lastcall EXCEPT ![c] = [m \in Members |-> FALSE]]

\* Mutant: a call that was answered in between stays
HangUpCalls_Ringing(c) ==
  /\ pc[c] \in {"none", "drop"}
  /\ pending' = [pending EXCEPT ![c] = FALSE]
  /\ att' = [att EXCEPT ![c] = [m \in Members |-> IF @[m] = "up" THEN "up" ELSE "no"]]
  /\ ForgetRound(c)
  /\ Goto(c, IF pc[c] = "none" THEN "retry" ELSE "stop")
  /\ UNCHANGED <<set, queue, told, rules, batch, memberStates, expired, peer>>

\* hangupcalls
HangUpCalls(c) ==
  /\ pc[c] \in {"none", "drop"}
  /\ pending' = [pending EXCEPT ![c] = FALSE]
  /\ att' = [att EXCEPT ![c] = NoAttempts]
  /\ ForgetRound(c)
  /\ Goto(c, IF pc[c] = "none" THEN "retry" ELSE "stop")
  /\ UNCHANGED <<set, queue, told, rules, batch, memberStates, expired, peer>>

HangUpOthers(c) ==
  /\ pc[c] = "won"
  /\ att' = [att EXCEPT ![c] = [m \in Members |-> IF m = peer[c] THEN @[m] ELSE "no"]]
  /\ ForgetRound(c)
  /\ Goto(c, "answered")
  /\ UNCHANGED <<set, queue, told, rules, batch, memberStates, expired, pending, peer>>

HangUpPeer(c) ==
  /\ att' = [att EXCEPT ![c] = NoAttempts]
  /\ peer' = [peer EXCEPT ![c] = NoMember]

\* The member hangs up during its announcement: the caller goes on waiting.
AgentDump(c) ==
  /\ pc[c] = "answered" /\ set.greet
  /\ HangUpPeer(c)
  /\ Goto(c, "retry")
  /\ UNCHANGED <<set, queue, told, rules, dialing, chain, memberStates, expired, pending, lastcall>>

\* The caller has hung up during it, or the channels are not compatible.
NotConnected(c) ==
  /\ pc[c] = "answered"
  /\ HangUpPeer(c)
  /\ Goto(c, "stop")
  /\ UNCHANGED <<set, queue, told, rules, dialing, chain, memberStates, expired, pending, lastcall>>

Connect(c) ==
  /\ pc[c] = "answered"
  /\ Leave(c)
  /\ Goto(c, "talk")
  /\ UNCHANGED <<set, told, rules, dialing, chain, memberStates, expired, pending, att, lastcall, peer>>

\* The time of the last call counts only with a wrapup time.
UpdateQueue(m) == wrapup' = [wrapup EXCEPT ![m] = @ \/ set.wrapup]

\* The end of the bridge.  After an attended transfer the call goes on.
EndBridge(c) ==
  /\ pc[c] = "talk"
  /\ UpdateQueue(peer[c]) \/ UNCHANGED wrapup
  /\ HangUpPeer(c)
  /\ Goto(c, "stop")
  /\ UNCHANGED <<set, queue, told, rules, dialing, chain, expired, pending, lastcall,
                 status, paused, call_pending, own>>
-----------------------------------------------------------------------------
Thread(c) ==
  \/ TurnComes(c) \/ TurnExpires(c) \/ TurnEmpty(c) \/ Announce(c) \/ MoveOn(c)
  \/ HeadExpired(c) \/ TryCalling(c) \/ Retry(c) \/ Bit(c) \/ Stop(c)
  \/ RingOne(c) \/ RoundRung(c)
  \/ Watch(c) \/ NextLevel(c) \/ NoLines(c) \/ Answered(c) \/ RingTimeout(c)
  \/ HangUpCalls(c) \/ HangUpOthers(c) \/ Connect(c)
  \/ \E m \in Members : RingEntry(c, m) \/ PlaceCall(c, m)

Outside ==
  \/ \E c \in Callers :
       \/ Join(c) \/ Quit(c) \/ Expire(c) \/ RuleDue(c) \/ CallerQuits(c)
       \/ AgentDump(c) \/ NotConnected(c) \/ EndBridge(c)
       \/ \E m \in Members : PickUp(c, m) \/ AttemptFails(c, m) \/ ForwardCall(c, m)
  \/ \E m \in Members : HandleStatechange(m) \/ SetPaused(m) \/ OwnCall(m) \/ WrapupOver(m)

Next == Outside \/ \E c \in Callers : Thread(c)

Spec == Init /\ [][Next]_vars

\* A thread that can go on does: its waits all have an end.
FairSpec == Spec /\ \A c \in Callers : WF_vars(Thread(c))
-----------------------------------------------------------------------------
TypeOK ==
  /\ set \in Settings
  /\ line \in Seq(Callers) /\ count \in Nat
  /\ pc \in [Callers -> Places]
  /\ pos \in [Callers -> Nat]
  /\ last_pos_said \in [Callers -> Nat] /\ spoken \in [Callers -> Nat]
  /\ band \in [Callers -> [most : Nat, least : Nat]]
  /\ due \in [Callers -> Nat] /\ applied \in [Callers -> Nat]
  /\ expired \in [Callers -> BOOLEAN] /\ pending \in [Callers -> BOOLEAN]
  /\ batch \in [Callers -> SUBSET Members]
  /\ rung \in [Callers -> BOOLEAN] /\ again \in [Callers -> BOOLEAN]
  /\ att \in [Callers -> [Members -> Attempts]]
  /\ lastcall \in [Callers -> [Members -> BOOLEAN]]
  /\ start \in [Callers -> Members \cup {NoMember}]
  /\ call_next \in [Callers -> [Members -> Members \cup {NoMember}]]
  /\ peer \in [Callers -> Members \cup {NoMember}]
  /\ status \in [Members -> {"idle", "ringing", "inuse"}]
  /\ paused \in [Members -> BOOLEAN] /\ call_pending \in [Members -> BOOLEAN]
  /\ wrapup \in [Members -> BOOLEAN] /\ own \in [Members -> BOOLEAN]

\* The callers wait in the order of their priorities, whatever position they asked for, and
\* the counter of the queue is the number of them although some leave twice.
PriorityOrder ==
  /\ count = Len(line)
  /\ \A i, j \in DOMAIN line :
       i < j => line[i] # line[j] /\ set.prio[line[i]] >= set.prio[line[j]] /\ pos[line[i]] < pos[line[j]]

\* Two callers never ring or talk to the same member at once unless ringinuse allows it:
\* call_pending covers the time in which the device does not show the call yet.
OneCallPerMember ==
  ~set.ringinuse =>
    \A m \in Members : \A c, d \in Callers :
      c # d => ~(att[c][m] \in {"pend", "ring", "up"} /\ att[d][m] \in {"pend", "ring", "up"})

\* No call to a member outlives the round of calls it was placed in: a caller that waits,
\* or is gone, has nothing ringing.
NothingRings ==
  \A c \in Callers :
    pc[c] \in {"out", "turn", "head", "retry", "bit", "stop"} => \A m \in Members : att[c][m] = "no"

\* A caller whose time is over does not stay: it leaves or is in a conversation.  With
\* timeoutpriority=conf and no timeout of the queue it is kept (5681) as long as a member
\* that it called rings, and no longer.
StillRinging(c) ==
  set.conf /\ ~set.timeout /\ pc[c] = "poll" /\ \E m \in Chain(c) : att[c][m] \in {"ring", "fwd"}
ExpiredLeaves ==
  \A c \in Callers : expired[c] ~> pc[c] \in {"out", "talk"} \/ StillRinging(c)

\* Nobody in the line keeps its limits when the time of a rule has come: also a caller that
\* never waits for its turn, or that calls members in round after round, moves on or goes
\* (update_qe_rule).  One that the empty queue has taken out of the line (5028) keeps them.
RulesTakeEffect ==
  []<>(\A c \in Callers : applied[c] = due[c] \/ pc[c] \in {"out", "talk"} \/ ~InLine(c))

=============================================================================
