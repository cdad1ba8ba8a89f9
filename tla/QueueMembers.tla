---------------------------- MODULE QueueMembers ----------------------------
(***************************************************************************)
(* The members of the queues (app_queue.c) and the four places they come   *)
(* from: queues.conf (static members), the realtime database, the actions  *)
(* that add and remove dynamic members, and the astdb, which keeps those   *)
(* over a restart.                                                         *)
(*                                                                         *)
(* Every action but the database reads runs under the lock of the queue,   *)
(* or of the list of queues.  The reads come before the lock: what is      *)
(* applied may be old.  A member is a record; two members of a queue may   *)
(* have the same interface, as a realtime member is found by its uniqueid  *)
(* and not by its interface.  An operation on all queues is the sequence   *)
(* of that on each.                                                        *)
(***************************************************************************)
EXTENDS Integers, FiniteSets, SequencesExt

CONSTANTS
  Static, Realtime,   \* the names of queues in queues.conf and in the database
  Ifaces, RowOrder,      \* the interfaces, and the order in which rows and lines come
  RoundRobin,         \* the queues with the strategy rrmemory or rrordered
  Penalties,
  Files,              \* the contents of queues.conf: queue -> interface -> penalty
  Persistent,         \* persistentmembers
  NegativeInvalid,    \* negative_penalty_invalid
  MaxChanges,         \* bound: changes from outside
  MaxPos              \* bound: rrpos

Queues == Static \cup Realtime
Kinds  == {"static", "dynamic", "realtime"}
Member == [iface : Ifaces, kind : Kinds, penalty : Penalties, paused : BOOLEAN,
           pos : 0 .. 3 * Cardinality(Ifaces)]
Row    == [iface : Ifaces, penalty : Penalties \cup {-1}, paused : BOOLEAN]

ASSUME MembersAssumption ==
  /\ Static \cap Realtime = {}
  /\ RowOrder \in Seq(Ifaces) /\ ToSet(RowOrder) = Ifaces /\ IsInjective(RowOrder)
  /\ RoundRobin \subseteq Queues /\ Penalties \subseteq Nat
  /\ \A f \in Files : DOMAIN f \subseteq Static /\ \A q \in DOMAIN f :
       DOMAIN f[q] \subseteq Ifaces /\ \A i \in DOMAIN f[q] : f[q][i] \in Penalties
  /\ Persistent \in BOOLEAN /\ NegativeInvalid \in BOOLEAN

VARIABLES
  file,       \* queues.conf
  dbup,       \* does the database answer
  dbqueues,   \* the queues table
  rows,       \* queue -> its rows of queue_members
  queues,     \* the list of queues in memory
  members,    \* queue -> its members
  rrpos, wrapped,
  astdb,      \* queue -> the dynamic members that are stored
  load,       \* what a thread has read from the database and not applied yet
  ring,       \* the metrics of a round of calls that has begun
  changes

db   == <<dbup, dbqueues, rows>>
core == <<queues, members, rrpos>>
memberVars == <<file, db, core, wrapped, astdb, load, ring, changes>>

NoLoad == [step |-> "none"]
NoRing == [queue |-> "none"]

Named(S, i)  == {x \in S : x.iface = i}
Stored(S)    == {[iface |-> x.iface, penalty |-> x.penalty, paused |-> x.paused] : x \in S}
Before(i, j) == \E n, k \in DOMAIN RowOrder : n < k /\ RowOrder[n] = i /\ RowOrder[k] = j
-----------------------------------------------------------------------------
(* The members of one queue and their positions.                           *)

\* member_remove_from_queue, or the same for all of gone: who comes after moves up.
Without(S, gone) ==
  {[x EXCEPT !.pos = @ - Cardinality({g \in gone : g.pos < x.pos})] : x \in S \ gone}

\* Mutant: the place in the round stays where it was
RrposWithout_Same(q, gone) == [rrpos EXCEPT ![q] = @]

\* The place in the round moves with the members, so that nobody is passed over.
RrposWithout(q, gone) ==
  [rrpos EXCEPT ![q] = @ - Cardinality({g \in gone : g.pos < @})]

\* create_queue_member and member_add_to_queue: who is new comes last, in the order of the rows.
New(i, kind, penalty, paused) == [iface |-> i, kind |-> kind, penalty |-> penalty, paused |-> paused]

With(S, new) ==
  S \cup {[iface |-> e.iface, kind |-> e.kind, penalty |-> e.penalty, paused |-> e.paused,
           pos |-> Cardinality(S) + Cardinality({f \in new : Before(f.iface, e.iface)})] : e \in new}

\* dump_queue_members
Dumped(q, S) == [astdb EXCEPT ![q] = Stored({x \in S : x.kind = "dynamic"})]
-----------------------------------------------------------------------------
(* Realtime.                                                               *)

\* rt_handle_member_record for each row: the member of the row, or a new one.
Valid(r)   == r.penalty >= 0 \/ ~NegativeInvalid
Penalty(r) == IF r.penalty < 0 THEN 0 ELSE r.penalty

HandledAll(S, R) ==
  LET valid == {r \in R : Valid(r)}
      of(x) == {r \in valid : x.kind = "realtime" /\ r.iface = x.iface}
      after(x, r) == [x EXCEPT !.penalty = Penalty(r), !.paused = r.paused]
      known == {x \in S : of(x) # {}}
  IN  With((S \ known) \cup {after(x, CHOOSE r \in of(x) : TRUE) : x \in known},
           {New(r.iface, "realtime", Penalty(r), r.paused) : r \in {r \in valid : \A x \in S : r \notin of(x)}})

\* The members that no row has brought back
Dead(S, R) ==
  {x \in S : /\ x.kind = "realtime"
             /\ ~\E r \in R : r.iface = x.iface /\ Valid(r)}

\* update_realtime_members, and the same in find_queue_by_name_rt
Refreshed(S, R) ==
  LET all == HandledAll(S, R) IN Without(all, Dead(all, R))

Refresh(q, R) ==
  /\ members' = [members EXCEPT ![q] = Refreshed(@, R)]
  /\ rrpos' = RrposWithout(q, Dead(HandledAll(members[q], R), R))

\* find_load_queue_rt_friendly reads before it takes the lock of the queues: first the queue ...
Load(q) ==
  /\ load = NoLoad
  /\ q \in queues \/ q \in Realtime
  /\ load' = [step |-> "queue", queue |-> q, found |-> dbup /\ q \in dbqueues, rows |-> {}]
  /\ UNCHANGED <<file, db, core, wrapped, astdb, ring, changes>>

\* ... then its members.  A failure gives none.
LoadMembers ==
  /\ load.step = "queue"
  /\ load' = [load EXCEPT !.step = "apply",
                          !.rows = IF dbup /\ (load.found \/ load.queue \in Static) THEN rows[load.queue] ELSE {}]
  /\ UNCHANGED <<file, db, core, wrapped, astdb, ring, changes>>

Unlink(q) ==
  /\ queues' = queues \ {q}
  /\ members' = [members EXCEPT ![q] = {}]
  /\ rrpos' = [rrpos EXCEPT ![q] = 0]
  /\ wrapped' = [wrapped EXCEPT ![q] = FALSE]

\* find_queue_by_name_rt, update_realtime_members
Apply ==
  LET q == load.queue
  IN  /\ load.step = "apply"
      /\ \/ /\ q \in Static /\ q \notin queues
            /\ UNCHANGED <<core, wrapped>>
         \/ /\ q \in Realtime /\ ~load.found
            /\ Unlink(q)
         \/ /\ (q \in Static /\ q \in queues) \/ (q \in Realtime /\ load.found)
            /\ queues' = queues \cup {q}
            /\ Refresh(q, load.rows)
            /\ UNCHANGED wrapped
      /\ load' = NoLoad
      /\ UNCHANGED <<file, db, astdb, ring, changes>>

\* leave_queue: the last look at a realtime queue may find it deleted, or the database down.
LeaveDead(q) ==
  /\ q \in queues \cap Realtime
  /\ ~(dbup /\ q \in dbqueues)
  /\ Unlink(q)
  /\ UNCHANGED <<file, db, astdb, load, ring, changes>>

\* update_realtime_member_field: how many rows it has changed is known
Changeable(q, x) == dbup /\ \E r \in rows[q] : r.iface = x.iface

RowSet(q, i, r) == [rows EXCEPT ![q] = {x \in @ : x.iface # i} \cup {r}]
RowOf(q, i)     == CHOOSE r \in rows[q] : r.iface = i
-----------------------------------------------------------------------------
(* Dynamic members, pauses and penalties.                                  *)

Limit == changes < MaxChanges /\ changes' = changes + 1

AddQueueMember(q, i, penalty, paused) ==
  /\ Limit
  /\ q \in queues /\ Named(members[q], i) = {}
  /\ members' = [members EXCEPT ![q] = With(@, {New(i, "dynamic", penalty, paused)})]
  /\ astdb' = IF Persistent THEN Dumped(q, members'[q]) ELSE astdb
  /\ UNCHANGED <<file, db, queues, rrpos, wrapped, load, ring>>

\* remove_from_queue.  A realtime member gets an invalid penalty, if the database answers;
\* it is gone from memory in any case.
RemoveQueueMember(q, x) ==
  /\ Limit
  /\ q \in queues /\ x \in members[q]
  /\ \/ /\ x.kind = "realtime" /\ NegativeInvalid
        /\ rows' = IF Changeable(q, x)
                   THEN RowSet(q, x.iface, [RowOf(q, x.iface) EXCEPT !.penalty = -1]) ELSE rows
     \/ x.kind = "dynamic" /\ UNCHANGED rows
  /\ members' = [members EXCEPT ![q] = Without(@, {x})]
  /\ rrpos' = RrposWithout(q, {x})
  /\ astdb' = IF Persistent THEN Dumped(q, members'[q]) ELSE astdb
  /\ UNCHANGED <<file, dbup, dbqueues, queues, wrapped, load, ring>>

\* Mutant: only a member that is taken out of the pause is stored
Pause_Unpaused(q, x, paused) ==
  /\ Limit
  /\ q \in queues /\ x \in members[q]
  /\ members' = [members EXCEPT ![q] = (@ \ {x}) \cup {[x EXCEPT !.paused = paused]}]
  /\ astdb' = IF Persistent /\ ~paused THEN Dumped(q, members'[q]) ELSE astdb
  /\ UNCHANGED <<file, db, queues, rrpos, wrapped, load, ring>>

\* set_member_paused
Pause(q, x, paused) ==
  /\ Limit
  /\ q \in queues /\ x \in members[q]
  /\ \/ /\ x.kind = "realtime" /\ Changeable(q, x)
        /\ rows' = RowSet(q, x.iface, [RowOf(q, x.iface) EXCEPT !.paused = paused])
     \/ x.kind # "realtime" /\ UNCHANGED rows
  /\ members' = [members EXCEPT ![q] = (@ \ {x}) \cup {[x EXCEPT !.paused = paused]}]
  /\ astdb' = IF Persistent THEN Dumped(q, members'[q]) ELSE astdb
  /\ UNCHANGED <<file, dbup, dbqueues, queues, rrpos, wrapped, load, ring>>

\* set_member_penalty_help_members: in memory, or in the database; the astdb is not written
SetPenalty(q, x, penalty) ==
  /\ Limit
  /\ q \in queues /\ x \in members[q]
  /\ \/ /\ x.kind # "realtime"
        /\ members' = [members EXCEPT ![q] = (@ \ {x}) \cup {[x EXCEPT !.penalty = penalty]}]
        /\ UNCHANGED rows
     \/ /\ x.kind = "realtime" /\ Changeable(q, x)
        /\ rows' = RowSet(q, x.iface, [RowOf(q, x.iface) EXCEPT !.penalty = penalty])
        /\ UNCHANGED members
  /\ UNCHANGED <<file, dbup, dbqueues, queues, rrpos, wrapped, astdb, load, ring>>
-----------------------------------------------------------------------------
(* Reload and restart.                                                     *)

\* reload_single_member for each line: a member of that interface is replaced by a static
\* one, with its position and its pause; if there are two, the container finds either.
Listed(S, lines) ==
  LET found == {x \in S : x.iface \in DOMAIN lines /\ x = CHOOSE y \in Named(S, x.iface) : TRUE}
  IN  With((S \ found) \cup {[x EXCEPT !.kind = "static", !.penalty = lines[x.iface]] : x \in found},
           {New(i, "static", lines[i], FALSE) : i \in {j \in DOMAIN lines : Named(S, j) = {}}})

\* reload_single_queue: static members that are not listed any more go, and their followers
\* move up; the place in the round stays.
ReloadedMembers(S, lines) ==
  LET all == Listed(S, lines)
  IN  Without(all, {x \in all : x.kind = "static" /\ x.iface \notin DOMAIN lines})

\* reload_queues: the queues of the file, new or reloaded; those not in it are dropped with
\* their members, but not from the astdb.
Reload(f) ==
  /\ Limit
  /\ file' = f
  /\ queues' = DOMAIN f \cup (queues \cap Realtime)
  /\ members' = [q \in Queues |->
       IF q \in DOMAIN f THEN ReloadedMembers(members[q], f[q])
       ELSE IF q \in Realtime THEN members[q] ELSE {}]
  /\ rrpos'   = [q \in Queues |-> IF q \in queues' THEN rrpos[q] ELSE 0]
  /\ wrapped' = [q \in Queues |-> wrapped[q] /\ q \in queues']
  /\ UNCHANGED <<db, astdb, load, ring>>

\* reload_queue_members: the stored members of a queue; an interface that is in it already
\* is not added.
Restored(S, stored) ==
  With(S, {New(e.iface, "dynamic", e.penalty, e.paused) : e \in {f \in stored : Named(S, f.iface) = {}}})

\* Asterisk starts: load_module reads the file and then the astdb, whose queues are loaded
\* from the database if they are there; what is stored for an unknown queue is deleted.
Restart ==
  LET stored == {q \in Queues : Persistent /\ astdb[q] # {}}
      there  == DOMAIN file \cup {q \in stored : dbup /\ q \in dbqueues}
      lines(q) == IF q \in DOMAIN file THEN ReloadedMembers({}, file[q]) ELSE {}
      fresh(q) == IF q \in stored THEN Restored(Refreshed(lines(q), IF dbup THEN rows[q] ELSE {}), astdb[q])
                  ELSE lines(q)
  IN  /\ Limit
      /\ queues' = there
      /\ members' = [q \in Queues |-> IF q \in there THEN fresh(q) ELSE {}]
      /\ astdb' = [q \in Queues |-> IF q \in stored \ there THEN {} ELSE astdb[q]]
      /\ rrpos' = [q \in Queues |-> 0]
      /\ wrapped' = [q \in Queues |-> FALSE]
      /\ load' = NoLoad /\ ring' = NoRing
      /\ UNCHANGED <<file, db>>
-----------------------------------------------------------------------------
(* Round robin.                                                            *)

Metric(q, x) == IF x.pos < rrpos[q] THEN 1000 + x.pos ELSE x.pos
Smallest(N)  == CHOOSE n \in N : \A k \in N : n <= k

\* try_calling: calc_metric for every member
RingStart(q) ==
  /\ ring = NoRing /\ q \in queues \cap RoundRobin
  /\ ring' = [queue |-> q, metrics |-> {Metric(q, x) : x \in members[q]}]
  /\ wrapped' = [wrapped EXCEPT ![q] = @ \/ \E x \in members[q] : x.pos > rrpos[q]]
  /\ UNCHANGED <<file, db, core, astdb, load, changes>>

\* ring_entry: a device that cannot be called moves the place on.
RequestFails ==
  /\ ring # NoRing /\ ring.queue \in queues /\ ring.metrics # {}
  /\ rrpos[ring.queue] < MaxPos
  /\ ring' = [ring EXCEPT !.metrics = @ \ {Smallest(@)}]
  /\ rrpos' = [rrpos EXCEPT ![ring.queue] = @ + 1]
  /\ UNCHANGED <<file, db, queues, members, wrapped, astdb, load, changes>>

\* A member was tried.
Tried ==
  /\ ring # NoRing /\ ring.metrics # {}
  /\ ring' = [ring EXCEPT !.metrics = @ \ {Smallest(@)}]
  /\ UNCHANGED <<file, db, core, wrapped, astdb, load, changes>>

\* store_next_rr
RingEnd ==
  LET q == ring.queue
  IN  /\ ring # NoRing
      /\ ring' = NoRing
      /\ \/ /\ q \in queues
            /\ rrpos[q] < MaxPos
            /\ rrpos' = [rrpos EXCEPT ![q] =
                 IF ring.metrics # {} THEN Smallest(ring.metrics) % 1000
                 ELSE IF wrapped[q] THEN 0 ELSE @ + 1]
            /\ wrapped' = [wrapped EXCEPT ![q] = FALSE]
         \/ q \notin queues /\ UNCHANGED <<rrpos, wrapped>>
      /\ UNCHANGED <<file, db, queues, members, astdb, load, changes>>
-----------------------------------------------------------------------------
(* The database is changed from outside.                                   *)

DbChange ==
  /\ Limit
  /\ \/ dbup' = ~dbup /\ UNCHANGED <<dbqueues, rows>>
     \/ /\ \E q \in Realtime :
             dbqueues' = IF q \in dbqueues THEN dbqueues \ {q} ELSE dbqueues \cup {q}
        /\ UNCHANGED <<dbup, rows>>
     \/ /\ \E q \in Queues, i \in Ifaces :
             \/ \E r \in Row : r.iface = i /\ r.penalty >= 0 /\ rows' = RowSet(q, i, r)
             \/ rows' = [rows EXCEPT ![q] = {x \in @ : x.iface # i}]
        /\ UNCHANGED <<dbup, dbqueues>>
  /\ UNCHANGED <<file, core, wrapped, astdb, load, ring>>

MembersInit ==
  /\ file \in Files
  /\ dbup = TRUE /\ dbqueues = Realtime
  /\ rows = [q \in Queues |-> {}]
  /\ queues = DOMAIN file
  /\ members = [q \in Queues |-> IF q \in DOMAIN file THEN ReloadedMembers({}, file[q]) ELSE {}]
  /\ rrpos = [q \in Queues |-> 0] /\ wrapped = [q \in Queues |-> FALSE]
  /\ astdb = [q \in Queues |-> {}]
  /\ load = NoLoad /\ ring = NoRing
  /\ changes = 0

MembersNext ==
  \/ LoadMembers \/ Apply \/ RequestFails \/ Tried \/ RingEnd \/ DbChange \/ Restart
  \/ \E f \in Files : Reload(f)
  \/ \E q \in Queues :
       \/ Load(q) \/ LeaveDead(q) \/ RingStart(q)
       \/ \E i \in Ifaces, p \in Penalties, b \in BOOLEAN : AddQueueMember(q, i, p, b)
       \/ \E x \in members[q] :
            \/ RemoveQueueMember(q, x)
            \/ \E b \in BOOLEAN : Pause(q, x, b)
            \/ \E p \in Penalties : SetPenalty(q, x, p)

MembersSpec == MembersInit /\ [][MembersNext]_memberVars
-----------------------------------------------------------------------------
MembersTypeOK ==
  /\ file \in Files /\ queues \subseteq Queues /\ dbqueues \subseteq Realtime
  /\ members \in [Queues -> SUBSET Member] /\ rows \in [Queues -> SUBSET Row]
  /\ rrpos \in [Queues -> Nat] /\ wrapped \in [Queues -> BOOLEAN]

\* The member who is next in the round
NextUp(q) == {x \in members[q] : \A y \in members[q] : Metric(q, x) <= Metric(q, y)}

Id(S) == {<<x.iface, x.kind>> : x \in S}

\* A member that is removed, or that the database does not have any more, does not make the
\* round pass over the one who would have been next.
NextKept ==
  [][Apply \/ (\E q \in Queues : \E x \in members[q] : RemoveQueueMember(q, x)) =>
       \A q \in queues \cap queues' : Id(members'[q]) \subseteq Id(members[q]) =>
         \A x \in NextUp(q) : <<x.iface, x.kind>> \in Id(members'[q]) =>
           <<x.iface, x.kind>> \in Id(NextUp(q)')]_memberVars

\* What a restart would restore: every dynamic member is stored, paused as it is.
DynamicStored ==
  Persistent =>
    \A q \in queues : \A x \in members[q] : x.kind = "dynamic" =>
      \E e \in astdb[q] : e.iface = x.iface /\ e.paused = x.paused

=============================================================================
