---------------------------- MODULE Queue_proofs ----------------------------
(***************************************************************************)
(* Proofs about app_queue.c, in two parts: the calls of a queue            *)
(* (QueueCalls: whom it calls, and who waits in which order) and the       *)
(* members of the queues (QueueMembers: what is stored of them, and who is *)
(* next in the round).  The two modules have no variable in common.        *)
(*                                                                         *)
(* The calls have two inductive invariants.  RingInv is about the call     *)
(* attempts: next to the two properties themselves it needs that a member  *)
(* somebody decided to call is marked (PendingCovers), since its device    *)
(* shows nothing yet.  LineInv is about the list of callers: it needs that *)
(* no caller is in it twice, that the positions are the places, and that   *)
(* whoever is out of the queue is not in the list.                         *)
(*                                                                         *)
(* The members have two as well.  Inv: the dynamic members of every queue  *)
(* are stored, also of one that is not in memory, as a queue that comes    *)
(* back from the database finds nothing of what it was.  PlacesInv: every  *)
(* member has a place of its own, from 0 on without a gap, and a dynamic   *)
(* or realtime member has its interface for itself among those of its      *)
(* kind - which needs that the rows, what is stored and what was read of   *)
(* them have every interface once.                                         *)
(***************************************************************************)
EXTENDS QueueCalls, QueueMembers, SequenceTheorems, FiniteSetTheorems, WellFoundedInduction, TLAPS

-----------------------------------------------------------------------------
(* The call attempts: no member is called twice at once, and nothing rings *)
(* for a caller that waits or is gone.                                     *)

\* Between the decision to call a member and the call itself the device shows nothing: then
\* the member's call_pending is set, which keeps the others away (ring_entry, can_ring_entry).
PendingCovers ==
  ~set.ringinuse => \A c \in Callers, m \in Members : att[c][m] = "pend" => call_pending[m]

RingTypes ==
  /\ pc \in [Callers -> Places]
  /\ att \in [Callers -> [Members -> Attempts]]
  /\ call_pending \in [Members -> BOOLEAN]

RingInv == RingTypes /\ PendingCovers /\ OneCallPerMember /\ NothingRings

\* Where a caller is in no round of calls.
Idle == {"out", "turn", "head", "retry", "bit", "stop"}

\* The steps that leave the attempts alone and bring nobody to rest.
LEMMA RingKept ==
  ASSUME RingInv, NEW c \in Callers, UNCHANGED <<set, att, call_pending>>,
         NEW place \in Places, pc' = [pc EXCEPT ![c] = place],
         place \in Idle => pc[c] \in Idle
  PROVE  RingInv'
<1>1. RingTypes'
  BY DEF RingInv, RingTypes
<1>2. PendingCovers'
  BY DEF RingInv, PendingCovers
<1>3. OneCallPerMember'
  BY DEF RingInv, OneCallPerMember
<1>4. NothingRings'
  BY DEF RingInv, RingTypes, NothingRings, Idle
<1> QED
  BY <1>1, <1>2, <1>3, <1>4 DEF RingInv

\* The steps that touch neither the attempts nor the threads.
LEMMA RingStays ==
  ASSUME RingInv, UNCHANGED <<set, att, call_pending, pc>>
  PROVE  RingInv'
BY DEF RingInv, RingTypes, PendingCovers, OneCallPerMember, NothingRings

\* The steps that drop attempts of c or begin a round: they leave it with attempts that
\* do not occupy a member.
LEMMA RingDropped ==
  ASSUME RingInv, NEW c \in Callers, UNCHANGED <<set, call_pending>>,
         NEW a \in [Members -> Attempts], att' = [att EXCEPT ![c] = a],
         NEW place \in Places, pc' = [pc EXCEPT ![c] = place],
         \A m \in Members : a[m] \in {"pend", "ring", "up"} => a[m] = att[c][m],
         place \in Idle => \A m \in Members : a[m] = "no"
  PROVE  RingInv'
<1>1. RingTypes'
  BY DEF RingInv, RingTypes
<1>2. PendingCovers'
  BY DEF RingInv, RingTypes, PendingCovers
<1>3. OneCallPerMember'
  BY DEF RingInv, RingTypes, OneCallPerMember
<1>4. NothingRings'
  BY DEF RingInv, RingTypes, NothingRings, Idle
<1> QED
  BY <1>1, <1>2, <1>3, <1>4 DEF RingInv

\* One attempt of c changes, while c is in a round.
LEMMA RingChanged ==
  ASSUME RingInv, NEW c \in Callers, NEW m \in Members, UNCHANGED <<set, call_pending>>,
         NEW s \in Attempts, att' = [att EXCEPT ![c][m] = s],
         NEW place \in Places, pc' = [pc EXCEPT ![c] = place],
         s # "pend", s \in {"ring", "up"} => att[c][m] \in {"pend", "ring", "up"},
         pc[c] \notin Idle, place \notin Idle
  PROVE  RingInv'
<1>1. RingTypes'
  BY DEF RingInv, RingTypes
<1>2. PendingCovers'
  BY DEF RingInv, RingTypes, PendingCovers
<1>3. OneCallPerMember'
  BY DEF RingInv, RingTypes, OneCallPerMember
<1>4. NothingRings'
  BY DEF RingInv, RingTypes, NothingRings, Idle
<1> QED
  BY <1>1, <1>2, <1>3, <1>4 DEF RingInv

\* ring_entry decides to call a member, or not to.
LEMMA RingEntryKeeps ==
  ASSUME RingInv, NEW c \in Callers, NEW m \in Members, RingEntry(c, m)
  PROVE  RingInv'
<1> USE DEF RingEntry, Goto
<1>1. CASE att' = [att EXCEPT ![c][m] = "dead"] /\ UNCHANGED <<call_pending, pc>>
  <2>1. pc' = [pc EXCEPT ![c] = "dial"]
    BY <1>1 DEF RingInv, RingTypes
  <2> QED
    BY <1>1, <2>1, RingChanged DEF Attempts, Places, Idle
<1>2. CASE /\ CanRing(c, m)
           /\ call_pending' = [call_pending EXCEPT ![m] = @ \/ ~set.ringinuse]
           /\ att' = [att EXCEPT ![c][m] = "pend"]
           /\ pc' = [pc EXCEPT ![c] = "place"]
  <2>1. RingTypes'
    BY <1>2 DEF RingInv, RingTypes, Attempts, Places
  <2>2. PendingCovers'
    BY <1>2 DEF RingInv, RingTypes, PendingCovers
  <2>3. OneCallPerMember'
    <3>1. ASSUME ~set.ringinuse
          PROVE  \A d \in Callers : att[d][m] \notin {"pend", "ring", "up"}
      BY <1>2, <3>1 DEF RingInv, PendingCovers, CanRing, Dev
    <3> QED
      BY <1>2, <3>1 DEF RingInv, RingTypes, OneCallPerMember
  <2>4. NothingRings'
    BY <1>2 DEF RingInv, RingTypes, NothingRings
  <2> QED
    BY <2>1, <2>2, <2>3, <2>4 DEF RingInv
<1> QED
  BY <1>1, <1>2

\* The call itself: the device shows it from now on, or the attempt is dead.
LEMMA PlaceCallKeeps ==
  ASSUME RingInv, NEW c \in Callers, NEW m \in Members, PlaceCall(c, m)
  PROVE  RingInv'
<1> DEFINE After(s) == att' = [att EXCEPT ![c][m] = s]
<1>1. After("ring") \/ After("dead")
  BY DEF PlaceCall
<1>2. /\ UNCHANGED set /\ pc[c] = "place" /\ att[c][m] = "pend"
      /\ pc' = [pc EXCEPT ![c] = "dial"]
      /\ call_pending' = [call_pending EXCEPT ![m] = FALSE]
  BY DEF PlaceCall, Goto
<1>3. RingTypes'
  BY <1>1, <1>2 DEF RingInv, RingTypes, Attempts, Places
<1>4. PendingCovers'
  BY <1>1, <1>2 DEF RingInv, RingTypes, PendingCovers, OneCallPerMember
<1>5. OneCallPerMember'
  BY <1>1, <1>2 DEF RingInv, RingTypes, OneCallPerMember
<1>6. NothingRings'
  BY <1>1, <1>2 DEF RingInv, RingTypes, NothingRings
<1> QED
  BY <1>3, <1>4, <1>5, <1>6 DEF RingInv

LEMMA RingInit == Init => RingInv
BY DEF Init, RingInv, RingTypes, PendingCovers, OneCallPerMember, NothingRings, Attempts, Places

LEMMA RingThread ==
  ASSUME RingInv, NEW c \in Callers, Thread(c)
  PROVE  RingInv'
<1> USE DEF Goto, Places, Idle
<1> DEFINE Turns == \/ TurnComes(c) \/ TurnExpires(c) \/ TurnEmpty(c) \/ HeadExpired(c)
                    \/ Retry(c) \/ Bit(c)
           Rounds == \/ RingOne(c) \/ RoundRung(c) \/ Watch(c) \/ NextLevel(c) \/ NoLines(c)
                     \/ Answered(c) \/ RingTimeout(c) \/ Connect(c)
<1>1. CASE Turns
  <2>1. UNCHANGED <<set, att, call_pending>>
    BY <1>1 DEF TurnComes, TurnExpires, TurnEmpty, HeadExpired, Retry, Bit, Still, memberStates
  <2>2. pc[c] \in Idle /\ \E place \in Places : pc' = [pc EXCEPT ![c] = place]
    BY <1>1 DEF TurnComes, TurnExpires, TurnEmpty, HeadExpired, Retry, Bit
  <2> QED
    BY <2>1, <2>2, RingKept
<1>2. CASE Announce(c) \/ MoveOn(c)
  BY <1>2, RingStays DEF Announce, MoveOn, memberStates
<1>3. CASE TryCalling(c)
  <2> DEFINE a == [m \in Members |-> IF m \in set.staff /\ Admitted(m, BandDue(c)) THEN "todo" ELSE "no"]
  <2>1. /\ UNCHANGED <<set, call_pending>>
        /\ att' = [att EXCEPT ![c] = a]
        /\ pc' = [pc EXCEPT ![c] = "ring"]
    BY <1>3 DEF TryCalling, memberStates
  <2>2. a \in [Members -> Attempts] /\ \A m \in Members : a[m] \in {"todo", "no"}
    BY DEF Attempts
  <2> HIDE DEF a
  <2> QED
    BY <2>1, <2>2, RingDropped
<1>4. CASE Stop(c)
  <2>1. UNCHANGED <<set, att, call_pending>> /\ pc[c] \in Idle /\ pc' = [pc EXCEPT ![c] = "out"]
    BY <1>4 DEF Stop, memberStates
  <2> QED
    BY <2>1, RingKept
<1>5. CASE Rounds
  <2>1. UNCHANGED <<set, att, call_pending>>
    BY <1>5 DEF RingOne, RoundRung, Watch, NextLevel, NoLines, Answered, RingTimeout, Connect, Still, memberStates
  <2>2. \E place \in Places \ Idle : pc' = [pc EXCEPT ![c] = place]
    BY <1>5 DEF RingOne, RoundRung, Watch, NextLevel, NoLines, Answered, RingTimeout, Connect
  <2> QED
    BY <2>1, <2>2, RingKept
<1>6. CASE HangUpCalls(c)
  <2>1. NoAttempts \in [Members -> Attempts] /\ \A m \in Members : NoAttempts[m] = "no"
    BY DEF NoAttempts, Attempts
  <2>2. /\ UNCHANGED <<set, call_pending>>
        /\ att' = [att EXCEPT ![c] = NoAttempts]
        /\ \E place \in Places : pc' = [pc EXCEPT ![c] = place]
    BY <1>6 DEF HangUpCalls, memberStates
  <2> QED
    BY <2>1, <2>2, RingDropped
<1>7. CASE HangUpOthers(c)
  <2> DEFINE a == [m \in Members |-> IF m = peer[c] THEN att[c][m] ELSE "no"]
  <2>1. /\ UNCHANGED <<set, call_pending>>
        /\ att' = [att EXCEPT ![c] = a]
        /\ pc' = [pc EXCEPT ![c] = "answered"]
    BY <1>7 DEF HangUpOthers, memberStates, RingInv, RingTypes
  <2>2. a \in [Members -> Attempts] /\ \A m \in Members : a[m] \in {att[c][m], "no"}
    BY DEF Attempts, RingInv, RingTypes
  <2> HIDE DEF a
  <2> QED
    BY <2>1, <2>2, RingDropped
<1>8. ASSUME NEW m \in Members, RingEntry(c, m) \/ PlaceCall(c, m)
      PROVE  RingInv'
  BY <1>8, RingEntryKeeps, PlaceCallKeeps
<1> QED
  BY <1>1, <1>2, <1>3, <1>4, <1>5, <1>6, <1>7, <1>8 DEF Thread

LEMMA RingOutside ==
  ASSUME RingInv, Outside
  PROVE  RingInv'
<1> USE DEF Goto, Places, Idle
<1>1. ASSUME NEW c \in Callers, Join(c) \/ Quit(c) \/ CallerQuits(c)
      PROVE  RingInv'
  <2>1. UNCHANGED <<set, att, call_pending>>
    BY <1>1 DEF Join, Quit, CallerQuits, Still, memberStates
  <2>2. \E place \in Places : pc' = [pc EXCEPT ![c] = place] /\ (place \in Idle => pc[c] \in Idle)
    BY <1>1 DEF Join, Quit, CallerQuits
  <2> QED
    BY <2>1, <2>2, RingKept
<1>2. ASSUME NEW c \in Callers, Expire(c) \/ RuleDue(c)
      PROVE  RingInv'
  BY <1>2, RingStays DEF Expire, RuleDue, memberStates
<1>3. ASSUME NEW c \in Callers, AgentDump(c) \/ NotConnected(c) \/ EndBridge(c)
      PROVE  RingInv'
  <2>1. NoAttempts \in [Members -> Attempts] /\ \A m \in Members : NoAttempts[m] = "no"
    BY DEF NoAttempts, Attempts
  <2>2. /\ UNCHANGED <<set, call_pending>>
        /\ att' = [att EXCEPT ![c] = NoAttempts]
        /\ \E place \in Places : pc' = [pc EXCEPT ![c] = place]
    BY <1>3 DEF AgentDump, NotConnected, EndBridge, HangUpPeer, memberStates
  <2> QED
    BY <2>1, <2>2, RingDropped
<1>4. ASSUME NEW c \in Callers, NEW m \in Members, PickUp(c, m)
      PROVE  RingInv'
  <2> DEFINE s == IF att[c][m] = "ring" THEN "up" ELSE "fwdup"
  <2>1. /\ UNCHANGED <<set, call_pending, pc>> /\ att[c][m] \in {"ring", "fwd"}
        /\ att' = [att EXCEPT ![c][m] = s]
    BY <1>4 DEF PickUp, memberStates, RingInv, RingTypes
  <2>2. s \in Attempts
    BY DEF Attempts
  <2>3. s # "pend" /\ (s \in {"ring", "up"} => att[c][m] \in {"pend", "ring", "up"})
    OBVIOUS
  <2>4. pc[c] \notin Idle
    BY <2>1 DEF RingInv, NothingRings
  <2>5. pc[c] \in Places /\ pc' = [pc EXCEPT ![c] = pc[c]]
    BY <2>1 DEF RingInv, RingTypes
  <2> HIDE DEF s
  <2> QED
    BY <2>1, <2>2, <2>3, <2>4, <2>5, RingChanged
<1>5. ASSUME NEW c \in Callers, NEW m \in Members, AttemptFails(c, m) \/ ForwardCall(c, m)
      PROVE  RingInv'
  <2>1. /\ UNCHANGED <<set, call_pending>> /\ pc[c] = "poll"
        /\ \E s \in {"fwd", "dead"} : att' = [att EXCEPT ![c][m] = s]
        /\ \E place \in {"wait", "ring"} : pc' = [pc EXCEPT ![c] = place]
    BY <1>5 DEF AttemptFails, ForwardCall, memberStates
  <2>2. PICK s \in {"fwd", "dead"} : att' = [att EXCEPT ![c][m] = s]
    BY <2>1
  <2>3. PICK place \in {"wait", "ring"} : pc' = [pc EXCEPT ![c] = place]
    BY <2>1
  <2>4. place \in Places /\ place \notin Idle /\ s \in Attempts /\ s \notin {"pend", "ring", "up"}
    BY DEF Attempts
  <2> HIDE DEF Places, Idle
  <2>5. pc[c] \notin Idle
    BY <2>1 DEF Idle
  <2> QED
    BY <2>1, <2>2, <2>3, <2>4, <2>5, RingChanged
<1>6. ASSUME NEW m \in Members, HandleStatechange(m) \/ SetPaused(m) \/ OwnCall(m) \/ WrapupOver(m)
      PROVE  RingInv'
  BY <1>6, RingStays DEF HandleStatechange, SetPaused, OwnCall, WrapupOver
<1> QED
  BY <1>1, <1>2, <1>3, <1>4, <1>5, <1>6 DEF Outside

LEMMA RingCorrect == Spec => []RingInv
<1>1. RingInv /\ [Next]_vars => RingInv'
  <2>1. RingInv /\ UNCHANGED vars => RingInv'
    BY RingStays DEF vars, memberStates
  <2> QED
    BY <2>1, RingThread, RingOutside DEF Next
<1> QED
  BY <1>1, RingInit, PTL DEF Spec

\* Two callers never ring or talk to the same member at once unless ringinuse allows it.
THEOREM OneCallPerMemberCorrect == Spec => []OneCallPerMember
BY RingCorrect, PTL DEF RingInv

\* No call to a member outlives the round of calls it was placed in.
THEOREM NothingRingsCorrect == Spec => []NothingRings
BY RingCorrect, PTL DEF RingInv

-----------------------------------------------------------------------------
(* The line of callers.                                                    *)

\* A set of numbers has a least one.
LEMMA LeastNat ==
  ASSUME NEW S, S \subseteq Nat, S # {}
  PROVE  \E i \in S : \A j \in S : i <= j
<1> DEFINE R == OpToRel(<, Nat)
<1>1. IsWellFoundedOn(R, Nat)
  BY NatLessThanWellFounded
<1>2. \A x, y \in Nat : y < x => <<y, x>> \in R
  BY DEF OpToRel
<1> HIDE DEF R
<1>3. PICK x \in S : \A y \in S : ~(<<y, x>> \in R)
  BY <1>1, WFMin
<1>4. ASSUME NEW j \in S PROVE x <= j
  <2>1. x \in Nat /\ j \in Nat
    OBVIOUS
  <2>2. ~(<<j, x>> \in R)
    BY <1>3
  <2>3. ~(j < x)
    BY <2>1, <2>2, <1>2
  <2> QED
    BY <2>1, <2>3
<1> QED
  BY <1>4

\* What a sequence is with an element inserted.
LEMMA InsertProperties ==
  ASSUME NEW S, NEW s \in Seq(S), NEW p \in 1 .. Len(s) + 1, NEW e \in S
  PROVE  /\ InsertAt(s, p, e) \in Seq(S)
         /\ Len(InsertAt(s, p, e)) = Len(s) + 1
         /\ \A i \in 1 .. Len(s) + 1 :
              InsertAt(s, p, e)[i] = IF i < p THEN s[i] ELSE IF i = p THEN e ELSE s[i - 1]
<1> DEFINE front == SubSeq(s, 1, p - 1)
           back == SubSeq(s, p, Len(s))
<1>1. /\ front \in Seq(S) /\ Len(front) = p - 1
      /\ \A i \in 1 .. p - 1 : front[i] = s[i]
  BY SubSeqProperties
<1>2. /\ back \in Seq(S) /\ Len(back) = Len(s) - p + 1
      /\ \A i \in 1 .. Len(s) - p + 1 : back[i] = s[p + i - 1]
  BY SubSeqProperties
<1>3. <<e>> \in Seq(S) /\ Len(<<e>>) = 1 /\ <<e>>[1] = e
  OBVIOUS
<1>4. InsertAt(s, p, e) = (front \o <<e>>) \o back
  BY DEF InsertAt
<1> DEFINE begin == front \o <<e>>
<1> HIDE DEF front, back
<1>5. /\ begin \in Seq(S) /\ Len(begin) = p
      /\ \A i \in 1 .. p : begin[i] = IF i <= p - 1 THEN s[i] ELSE e
  BY <1>1, <1>3, ConcatProperties
<1> HIDE DEF begin
<1>6. /\ begin \o back \in Seq(S) /\ Len(begin \o back) = Len(s) + 1
      /\ \A i \in 1 .. Len(s) + 1 : (begin \o back)[i] = IF i <= p THEN begin[i] ELSE back[i - p]
  <2>1. p \in Nat /\ Len(s) \in Nat /\ p + (Len(s) - p + 1) = Len(s) + 1
    BY LenProperties
  <2>2. /\ begin \o back \in Seq(S) /\ Len(begin \o back) = Len(begin) + Len(back)
        /\ \A i \in 1 .. Len(begin) + Len(back) :
             (begin \o back)[i] = IF i <= Len(begin) THEN begin[i] ELSE back[i - Len(begin)]
    BY <1>2, <1>5, ConcatProperties
  <2> QED
    BY <1>2, <1>5, <2>1, <2>2
<1>7. InsertAt(s, p, e) = begin \o back
  BY <1>4 DEF begin
<1>8. ASSUME NEW i \in 1 .. Len(s) + 1
      PROVE  (begin \o back)[i] = IF i < p THEN s[i] ELSE IF i = p THEN e ELSE s[i - 1]
  <2>1. p \in Nat /\ Len(s) \in Nat /\ i \in Nat
    BY LenProperties
  <2>2. CASE i <= p
    <3>1. i \in 1 .. p /\ (begin \o back)[i] = begin[i]
      BY <1>6, <2>1, <2>2
    <3> QED
      BY <1>5, <2>1, <2>2, <3>1
  <2>3. CASE ~(i <= p)
    <3>1. i - p \in 1 .. Len(s) - p + 1 /\ p + (i - p) - 1 = i - 1 /\ ~(i < p) /\ i # p
      BY <2>1, <2>3
    <3>2. (begin \o back)[i] = back[i - p]
      BY <1>6, <2>3
    <3>3. back[i - p] = s[p + (i - p) - 1]
      BY <1>2, <3>1
    <3> QED
      BY <3>1, <3>2, <3>3
  <2> QED
    BY <2>2, <2>3
<1> QED
  BY <1>6, <1>7, <1>8

\* What a sequence is with an element removed.
LEMMA RemoveProperties ==
  ASSUME NEW S, NEW s \in Seq(S), NEW p \in 1 .. Len(s)
  PROVE  /\ RemoveAt(s, p) \in Seq(S)
         /\ Len(RemoveAt(s, p)) = Len(s) - 1
         /\ \A i \in 1 .. Len(s) - 1 :
              RemoveAt(s, p)[i] = IF i < p THEN s[i] ELSE s[i + 1]
<1> DEFINE front == SubSeq(s, 1, p - 1)
           back == SubSeq(s, p + 1, Len(s))
<1>1. /\ front \in Seq(S) /\ Len(front) = p - 1
      /\ \A i \in 1 .. p - 1 : front[i] = s[i]
  BY SubSeqProperties
<1>2. /\ back \in Seq(S) /\ Len(back) = Len(s) - p
      /\ \A i \in 1 .. Len(s) - p : back[i] = s[p + i]
  BY SubSeqProperties
<1>3. RemoveAt(s, p) = front \o back
  BY DEF RemoveAt
<1> HIDE DEF front, back
<1>4. /\ front \o back \in Seq(S) /\ Len(front \o back) = Len(s) - 1
      /\ \A i \in 1 .. Len(s) - 1 : (front \o back)[i] = IF i <= p - 1 THEN front[i] ELSE back[i - (p - 1)]
  <2>1. p \in Nat /\ Len(s) \in Nat /\ (p - 1) + (Len(s) - p) = Len(s) - 1
    BY LenProperties
  <2>2. /\ front \o back \in Seq(S) /\ Len(front \o back) = Len(front) + Len(back)
        /\ \A i \in 1 .. Len(front) + Len(back) :
             (front \o back)[i] = IF i <= Len(front) THEN front[i] ELSE back[i - Len(front)]
    BY <1>1, <1>2, ConcatProperties
  <2> QED
    BY <1>1, <1>2, <2>1, <2>2
<1>5. ASSUME NEW i \in 1 .. Len(s) - 1
      PROVE  (front \o back)[i] = IF i < p THEN s[i] ELSE s[i + 1]
  <2>0. p \in Nat /\ Len(s) \in Nat /\ i \in Nat /\ 1 <= i /\ i <= Len(s) - 1
    BY LenProperties
  <2>1. CASE i < p
    <3>1. i \in 1 .. p - 1 /\ i <= p - 1
      BY <2>0, <2>1
    <3> QED
      BY <1>1, <1>4, <2>1, <3>1
  <2>2. CASE ~(i < p)
    <3>1. i - (p - 1) \in 1 .. Len(s) - p /\ ~(i <= p - 1) /\ p + (i - (p - 1)) = i + 1
      BY <2>0, <2>2
    <3> QED
      BY <1>2, <1>4, <2>2, <3>1
  <2> QED
    BY <2>1, <2>2
<1> QED
  BY <1>3, <1>4, <1>5

\* The line is in order: each caller once, by priority, and with the number of its place.
Ordered(l, p) ==
  /\ l \in Seq(Callers)
  /\ \A i \in DOMAIN l : p[l[i]] = i
  /\ \A i, j \in DOMAIN l : i < j => l[i] # l[j] /\ set.prio[l[i]] >= set.prio[l[j]]

LineInv ==
  /\ set \in Settings
  /\ pc \in [Callers -> Places]
  /\ Ordered(line, pos) /\ count = Len(line)
  /\ \A c \in Callers : pc[c] = "out" => ~InLine(c)

\* leave_queue and insert_entry number the callers in order.
LEMMA RenumberedInOrder ==
  ASSUME NEW l \in Seq(Callers), \A i, j \in DOMAIN l : i < j => l[i] # l[j]
  PROVE  \A i \in DOMAIN l : Renumbered(l)[l[i]] = i
<1> SUFFICES ASSUME NEW i \in DOMAIN l PROVE Renumbered(l)[l[i]] = i
  OBVIOUS
<1>1. DOMAIN l = 1 .. Len(l) /\ l[i] \in Callers /\ l[i] \in ToSet(l)
  BY DEF ToSet
<1>2. Renumbered(l)[l[i]] = CHOOSE k \in DOMAIN l : l[k] = l[i]
  BY <1>1 DEF Renumbered
<1>3. \A k \in DOMAIN l : l[k] = l[i] => k = i
  BY <1>1
<1> QED
  BY <1>2, <1>3

\* The place of a new caller: all before it have at least its priority, all behind at most.
LEMMA PlaceProperties ==
  ASSUME LineInv, NEW c \in Callers, NEW want
  PROVE  /\ Place(c, want) \in 1 .. Len(line) + 1
         /\ \A i \in DOMAIN line :
              IF i < Place(c, want) THEN set.prio[line[i]] >= set.prio[c] ELSE set.prio[c] >= set.prio[line[i]]
<1> DEFINE later == {i \in DOMAIN line : Precedes(c, i, want)}
<1>1. line \in Seq(Callers) /\ DOMAIN line = 1 .. Len(line) /\ Len(line) \in Nat
  BY DEF LineInv, Ordered
<1>2. \A x \in Callers : set.prio[x] \in Int
  BY QueueAssumption DEF LineInv
<1>3. \A i \in DOMAIN line : i \notin later => set.prio[line[i]] >= set.prio[c]
  BY <1>1, <1>2 DEF Precedes
<1>4. \A i \in later : set.prio[c] >= set.prio[line[i]]
  BY <1>1, <1>2 DEF Precedes
<1>5. CASE later = {}
  <2>1. Place(c, want) = Len(line) + 1
    BY <1>5 DEF Place
  <2> QED
    BY <1>1, <1>3, <1>5, <2>1
<1>6. CASE later # {}
  <2>1. later \subseteq Nat
    BY <1>1
  <2> HIDE DEF later
  <2>2. \E i \in later : \A j \in later : i <= j
    BY <1>6, <2>1, LeastNat
  <2>3. Place(c, want) \in later /\ \A j \in later : Place(c, want) <= j
    BY <1>6, <2>2 DEF Place, later
  <2>4. Place(c, want) \in DOMAIN line
    BY <2>3 DEF later
  <2>5. \A i \in DOMAIN line : i < Place(c, want) => i \notin later
    BY <1>1, <2>3, <2>4
  <2>6. ASSUME NEW i \in DOMAIN line, ~(i < Place(c, want))
        PROVE  set.prio[c] >= set.prio[line[i]]
    <3>1. set.prio[c] >= set.prio[line[Place(c, want)]]
      BY <1>4, <2>3
    <3>2. i = Place(c, want) \/ Place(c, want) < i
      BY <1>1, <2>4, <2>6
    <3>3. i = Place(c, want) \/ set.prio[line[Place(c, want)]] >= set.prio[line[i]]
      BY <2>4, <3>2 DEF LineInv, Ordered
    <3> QED
      BY <1>1, <1>2, <2>4, <3>1, <3>3
  <2> QED
    BY <1>1, <1>3, <2>4, <2>5, <2>6
<1> QED
  BY <1>5, <1>6

\* A caller that joins at its place keeps the line in order.
LEMMA JoinInOrder ==
  ASSUME LineInv, NEW c \in Callers, ~InLine(c), NEW want, NEW l,
         l = InsertAt(line, Place(c, want), c)
  PROVE  /\ Ordered(l, Renumbered(l)) /\ Len(l) = Len(line) + 1
         /\ ToSet(l) \subseteq ToSet(line) \cup {c}
<1> DEFINE p == Place(c, want)
<1>1. line \in Seq(Callers) /\ DOMAIN line = 1 .. Len(line) /\ Len(line) \in Nat
  BY DEF LineInv, Ordered
<1>2. p \in 1 .. Len(line) + 1
  BY PlaceProperties
<1>3. \A i \in DOMAIN line : IF i < p THEN set.prio[line[i]] >= set.prio[c] ELSE set.prio[c] >= set.prio[line[i]]
  BY PlaceProperties
<1> HIDE DEF p
<1>4. l = InsertAt(line, p, c)
  BY DEF p
<1>5. /\ l \in Seq(Callers) /\ Len(l) = Len(line) + 1 /\ DOMAIN l = 1 .. Len(line) + 1
      /\ \A i \in DOMAIN l : l[i] = IF i < p THEN line[i] ELSE IF i = p THEN c ELSE line[i - 1]
  <2>1. /\ l \in Seq(Callers) /\ Len(l) = Len(line) + 1
        /\ \A i \in 1 .. Len(line) + 1 : l[i] = IF i < p THEN line[i] ELSE IF i = p THEN c ELSE line[i - 1]
    <3>1. /\ InsertAt(line, p, c) \in Seq(Callers) /\ Len(InsertAt(line, p, c)) = Len(line) + 1
          /\ \A i \in 1 .. Len(line) + 1 :
               InsertAt(line, p, c)[i] = IF i < p THEN line[i] ELSE IF i = p THEN c ELSE line[i - 1]
      BY <1>1, <1>2, InsertProperties
    <3> QED
      BY <1>4, <3>1
  <2>2. DOMAIN l = 1 .. Len(line) + 1
    BY <2>1
  <2> QED
    BY <2>1, <2>2
<1> DEFINE old(i) == IF i < p THEN i ELSE i - 1
<1>6. \A i \in DOMAIN l : i # p => old(i) \in DOMAIN line /\ l[i] = line[old(i)]
  BY <1>1, <1>2, <1>5
<1>7. l[p] = c /\ p \in DOMAIN l
  BY <1>1, <1>2, <1>5
<1>8. \A i \in DOMAIN line : line[i] # c
  BY DEF InLine, ToSet
<1>9. \A i, j \in DOMAIN l : i < j /\ i # p /\ j # p => old(i) < old(j)
  BY <1>1, <1>2, <1>5
<1>10. ASSUME NEW i \in DOMAIN l, NEW j \in DOMAIN l, i < j
       PROVE  l[i] # l[j] /\ set.prio[l[i]] >= set.prio[l[j]]
  <2>1. CASE i # p /\ j # p
    BY <1>6, <1>9, <1>10, <2>1 DEF LineInv, Ordered
  <2>2. CASE i = p
    <3>1. j # p /\ ~(old(j) < p)
      BY <1>1, <1>2, <1>5, <1>10, <2>2
    <3> QED
      BY <1>3, <1>6, <1>7, <1>8, <2>2, <3>1
  <2>3. CASE j = p
    <3>1. i # p /\ old(i) < p
      BY <1>1, <1>2, <1>5, <1>10, <2>3
    <3> QED
      BY <1>3, <1>6, <1>7, <1>8, <2>3, <3>1
  <2> QED
    BY <2>1, <2>2, <2>3
<1>11. ToSet(l) \subseteq ToSet(line) \cup {c}
  BY <1>6, <1>7 DEF ToSet
<1> QED
  BY <1>5, <1>10, <1>11, RenumberedInOrder DEF Ordered

\* So does one that leaves, and it is in the line no more.
LEMMA LeaveInOrder ==
  ASSUME LineInv, NEW c \in Callers, UNCHANGED set, Leave(c)
  PROVE  /\ Ordered(line', pos') /\ count' = Len(line')
         /\ ToSet(line') \subseteq ToSet(line) \ {c}
<1>1. CASE ~InLine(c)
  BY <1>1 DEF Leave, queue, LineInv, InLine
<1>2. CASE InLine(c)
  <2> DEFINE p == CHOOSE i \in DOMAIN line : line[i] = c
             l == RemoveAt(line, p)
  <2>1. line \in Seq(Callers) /\ DOMAIN line = 1 .. Len(line) /\ Len(line) \in Nat
    BY DEF LineInv, Ordered
  <2>2. p \in 1 .. Len(line) /\ line[p] = c
    BY <1>2, <2>1 DEF InLine, ToSet
  <2>3. line' = l /\ count' = count - 1 /\ pos' = Renumbered(l)
    <3>1. line' = l
      BY <1>2 DEF Leave
    <3>2. count' = count - 1 /\ pos' = Renumbered(line')
      BY <1>2 DEF Leave
    <3> QED
      BY <3>1, <3>2
  <2> HIDE DEF p
  <2>4. /\ l \in Seq(Callers) /\ Len(l) = Len(line) - 1 /\ DOMAIN l = 1 .. Len(line) - 1
        /\ \A i \in DOMAIN l : l[i] = IF i < p THEN line[i] ELSE line[i + 1]
    <3>1. /\ l \in Seq(Callers) /\ Len(l) = Len(line) - 1
          /\ \A i \in 1 .. Len(line) - 1 : l[i] = IF i < p THEN line[i] ELSE line[i + 1]
      BY <2>1, <2>2, RemoveProperties
    <3>2. DOMAIN l = 1 .. Len(line) - 1
      BY <3>1
    <3> QED
      BY <3>1, <3>2
  <2> HIDE DEF l
  <2> DEFINE old(i) == IF i < p THEN i ELSE i + 1
  <2>5. \A i \in DOMAIN l : old(i) \in DOMAIN line /\ old(i) # p /\ l[i] = line[old(i)]
    BY <2>1, <2>2, <2>4
  <2>6. \A i, j \in DOMAIN l : i < j => old(i) < old(j)
    BY <2>1, <2>2, <2>4
  <2> HIDE DEF old
  <2>7. \A i, j \in DOMAIN l : i < j => l[i] # l[j] /\ set.prio[l[i]] >= set.prio[l[j]]
    BY <2>5, <2>6 DEF LineInv, Ordered
  <2>8. \A i \in DOMAIN line : i # p => line[i] # c
    BY <2>1, <2>2 DEF LineInv, Ordered
  <2>9. ToSet(l) \subseteq ToSet(line) \ {c}
    BY <2>5, <2>8 DEF ToSet
  <2>10. Ordered(l, Renumbered(l))
    BY <2>4, <2>7, RenumberedInOrder DEF Ordered
  <2> QED
    BY <2>1, <2>3, <2>4, <2>9, <2>10 DEF LineInv
<1> QED
  BY <1>1, <1>2

\* The steps that leave the line alone and send nobody home.
LEMMA LineStays ==
  ASSUME LineInv, UNCHANGED <<set, queue>>, pc' \in [Callers -> Places],
         \A c \in Callers : pc'[c] = "out" => pc[c] = "out"
  PROVE  LineInv'
BY DEF LineInv, Ordered, InLine, queue

\* The steps in which a caller leaves the line.
LEMMA LineLeft ==
  ASSUME LineInv, NEW c \in Callers, UNCHANGED set, Leave(c),
         NEW place \in Places, pc' = [pc EXCEPT ![c] = place]
  PROVE  LineInv'
<1>1. /\ Ordered(line', pos') /\ count' = Len(line')
      /\ ToSet(line') \subseteq ToSet(line) \ {c}
  BY LeaveInOrder
<1>2. Ordered(line, pos)'
  BY <1>1 DEF Ordered
<1>3. pc' \in [Callers -> Places]
  BY DEF LineInv
<1>4. \A x \in Callers : pc'[x] = "out" => ~InLine(x)'
  <2>1. \A x \in Callers : pc'[x] = "out" => x = c \/ x \notin ToSet(line)
    BY DEF LineInv, InLine
  <2> QED
    BY <1>1, <2>1 DEF InLine
<1>5. set' \in Settings
  BY DEF LineInv
<1> QED
  BY <1>1, <1>2, <1>3, <1>4, <1>5 DEF LineInv

LEMMA LineJoined ==
  ASSUME LineInv, NEW c \in Callers, Join(c)
  PROVE  LineInv'
<1>1. ~InLine(c)
  BY DEF LineInv, Join
<1> DEFINE l == InsertAt(line, Place(c, Wanted(c)), c)
<1>2. /\ line' = l /\ count' = count + 1 /\ pos' = Renumbered(l) /\ UNCHANGED set
      /\ pc' = [pc EXCEPT ![c] = "turn"]
  BY DEF Join, Renumbered
<1>3. /\ Ordered(l, Renumbered(l)) /\ Len(l) = Len(line) + 1
      /\ ToSet(l) \subseteq ToSet(line) \cup {c}
  BY <1>1, JoinInOrder
<1> HIDE DEF l
<1>4. Ordered(line, pos)' /\ count' = Len(line')
  BY <1>2, <1>3 DEF Ordered, LineInv
<1>5. pc' \in [Callers -> Places]
  BY <1>2 DEF LineInv, Places
<1>6. \A x \in Callers : pc'[x] = "out" => ~(x \in ToSet(line'))
  BY <1>2, <1>3 DEF LineInv, InLine
<1> QED
  BY <1>2, <1>4, <1>5, <1>6 DEF LineInv, InLine

LEMMA LineInit == Init => LineInv
<1> SUFFICES ASSUME Init PROVE LineInv
  OBVIOUS
<1>1. line = <<>> /\ line \in Seq(Callers) /\ Len(line) = 0 /\ DOMAIN line = {}
  BY DEF Init
<1> QED
  BY <1>1 DEF Init, LineInv, Ordered, InLine, ToSet, Places

LEMMA LineThread ==
  ASSUME LineInv, NEW c \in Callers, Thread(c)
  PROVE  LineInv'
<1> USE DEF Goto
<1> DEFINE Turns == \/ TurnComes(c) \/ TurnExpires(c) \/ HeadExpired(c) \/ Retry(c) \/ Bit(c)
           Rounds == \/ RingOne(c) \/ RoundRung(c) \/ Watch(c) \/ NextLevel(c) \/ NoLines(c)
                     \/ Answered(c) \/ RingTimeout(c) \/ HangUpCalls(c) \/ HangUpOthers(c)
                     \/ TryCalling(c)
<1>1. CASE Turns \/ Rounds
  <2>1. UNCHANGED <<set, queue>>
    BY <1>1 DEF TurnComes, TurnExpires, HeadExpired, Retry, Bit, Still, RingOne, RoundRung, Watch,
                NextLevel, NoLines, Answered, RingTimeout, HangUpCalls, HangUpOthers, TryCalling
  <2>2. \E place \in Places \ {"out"} : pc' = [pc EXCEPT ![c] = place]
    <3>1. CASE Turns
      BY <3>1 DEF TurnComes, TurnExpires, HeadExpired, Retry, Bit, Places
    <3>2. CASE Rounds
      BY <3>2 DEF RingOne, RoundRung, Watch, NextLevel, NoLines, Answered, RingTimeout, HangUpCalls,
                  HangUpOthers, TryCalling, Places
    <3> QED
      BY <1>1, <3>1, <3>2
  <2>3. PICK place \in Places \ {"out"} : pc' = [pc EXCEPT ![c] = place]
    BY <2>2
  <2>4. pc' \in [Callers -> Places] /\ \A x \in Callers : pc'[x] = "out" => pc[x] = "out"
    BY <2>3 DEF LineInv
  <2> QED
    BY <2>1, <2>4, LineStays
<1>2. CASE Announce(c) \/ MoveOn(c)
  BY <1>2, LineStays DEF Announce, MoveOn, LineInv
<1>3. CASE TurnEmpty(c) \/ Connect(c) \/ Stop(c)
  <2>1. Leave(c) /\ UNCHANGED set /\ \E place \in Places : pc' = [pc EXCEPT ![c] = place]
    BY <1>3 DEF TurnEmpty, Connect, Stop, Places
  <2> QED
    BY <2>1, LineLeft
<1>4. ASSUME NEW m \in Members, RingEntry(c, m) \/ PlaceCall(c, m)
      PROVE  LineInv'
  <2>1. UNCHANGED <<set, queue>>
    BY <1>4 DEF RingEntry, PlaceCall
  <2>2. UNCHANGED pc \/ \E place \in Places \ {"out"} : pc' = [pc EXCEPT ![c] = place]
    BY <1>4 DEF RingEntry, PlaceCall, Places
  <2>3. pc' \in [Callers -> Places] /\ \A x \in Callers : pc'[x] = "out" => pc[x] = "out"
    BY <2>2 DEF LineInv
  <2> QED
    BY <2>1, <2>3, LineStays
<1> QED
  BY <1>1, <1>2, <1>3, <1>4 DEF Thread

LEMMA LineOutside ==
  ASSUME LineInv, Outside
  PROVE  LineInv'
<1> USE DEF Goto
<1>1. ASSUME NEW c \in Callers,
             Quit(c) \/ CallerQuits(c) \/ AgentDump(c) \/ NotConnected(c) \/ EndBridge(c)
      PROVE  LineInv'
  <2>1. UNCHANGED <<set, queue>>
    BY <1>1 DEF Quit, CallerQuits, Still, AgentDump, NotConnected, EndBridge
  <2>2. PICK place \in Places \ {"out"} : pc' = [pc EXCEPT ![c] = place]
    BY <1>1 DEF Quit, CallerQuits, AgentDump, NotConnected, EndBridge, Places
  <2>3. pc' \in [Callers -> Places] /\ \A x \in Callers : pc'[x] = "out" => pc[x] = "out"
    BY <2>2 DEF LineInv
  <2> QED
    BY <2>1, <2>3, LineStays
<1>2. ASSUME NEW c \in Callers, NEW m \in Members, AttemptFails(c, m) \/ ForwardCall(c, m)
      PROVE  LineInv'
  <2>1. UNCHANGED <<set, queue>>
    BY <1>2 DEF AttemptFails, ForwardCall
  <2>2. PICK place \in Places \ {"out"} : pc' = [pc EXCEPT ![c] = place]
    BY <1>2 DEF AttemptFails, ForwardCall, Places
  <2>3. pc' \in [Callers -> Places] /\ \A x \in Callers : pc'[x] = "out" => pc[x] = "out"
    BY <2>2 DEF LineInv
  <2> QED
    BY <2>1, <2>3, LineStays
<1>3. ASSUME NEW c \in Callers, Expire(c) \/ RuleDue(c)
      PROVE  LineInv'
  BY <1>3, LineStays DEF Expire, RuleDue, LineInv
<1>4. ASSUME NEW c \in Callers, NEW m \in Members, PickUp(c, m)
      PROVE  LineInv'
  BY <1>4, LineStays DEF PickUp, LineInv
<1>5. ASSUME NEW m \in Members, HandleStatechange(m) \/ SetPaused(m) \/ OwnCall(m) \/ WrapupOver(m)
      PROVE  LineInv'
  BY <1>5, LineStays DEF HandleStatechange, SetPaused, OwnCall, WrapupOver, LineInv
<1> QED
  BY <1>1, <1>2, <1>3, <1>4, <1>5, LineJoined DEF Outside

LEMMA LineCorrect == Spec => []LineInv
<1>1. LineInv /\ [Next]_vars => LineInv'
  <2>1. LineInv /\ UNCHANGED vars => LineInv'
    BY LineStays DEF vars, LineInv
  <2> QED
    BY <2>1, LineThread, LineOutside DEF Next
<1> QED
  BY <1>1, LineInit, PTL DEF Spec

\* The callers wait in the order of their priorities, whatever position they asked for, and
\* the counter of the queue is the number of them although some leave twice.
THEOREM PriorityOrderCorrect == Spec => []PriorityOrder
<1>1. LineInv => PriorityOrder
  BY DEF LineInv, Ordered, PriorityOrder
<1> QED
  BY <1>1, LineCorrect, PTL

-----------------------------------------------------------------------------
(* The members: what is stored of them.                                    *)

AnyMember == [iface : Ifaces, kind : Kinds, penalty : Nat, paused : BOOLEAN, pos : Int]
Entry     == [iface : Ifaces, kind : Kinds, penalty : Nat, paused : BOOLEAN]
Listing   == [iface : Ifaces, penalty : Nat, paused : BOOLEAN]
Reading   == [step : {"queue", "apply"}, queue : Queues, found : BOOLEAN, rows : SUBSET Row]

MemberSet(S) == S \subseteq AnyMember /\ IsFiniteSet(S)
Rows(R)    == R \subseteq Row /\ IsFiniteSet(R)

MembersOK == members = [q \in Queues |-> members[q]] /\ \A q \in Queues : MemberSet(members[q])
RowsOK    == rows = [q \in Queues |-> rows[q]] /\ \A q \in Queues : Rows(rows[q])
AstdbOK   == astdb \in [Queues -> SUBSET Listing] /\ \A q \in Queues : IsFiniteSet(astdb[q])
LoadOK    == load = NoLoad \/ (load \in Reading /\ IsFiniteSet(load.rows))

TypeInv ==
  /\ file \in Files /\ dbup \in BOOLEAN /\ queues \subseteq Queues
  /\ MembersOK /\ RowsOK /\ AstdbOK /\ LoadOK

\* The dynamic members of S are stored.
Kept(S, stored) ==
  \A x \in S : x.kind = "dynamic" => \E e \in stored : e.iface = x.iface /\ e.paused = x.paused

\* The dynamic members of T are among those of S.
From(T, S) ==
  \A x \in T : x.kind = "dynamic" =>
    \E y \in S : y.kind = "dynamic" /\ y.iface = x.iface /\ y.paused = x.paused

StoredInv == Persistent => \A q \in Queues : Kept(members[q], astdb[q])

Inv == TypeInv /\ StoredInv

LEMMA PenaltiesAreNumbers ==
  Penalties \subseteq Nat /\ (\A f \in Files : \A q \in DOMAIN f :
    DOMAIN f[q] \subseteq Ifaces /\ \A i \in DOMAIN f[q] : f[q][i] \in Nat)
<1>1. Penalties \subseteq Nat
  BY MembersAssumption
<1>2. ASSUME NEW f \in Files, NEW q \in DOMAIN f
      PROVE  DOMAIN f[q] \subseteq Ifaces /\ \A i \in DOMAIN f[q] : f[q][i] \in Nat
  <2>1. DOMAIN f[q] \subseteq Ifaces /\ \A i \in DOMAIN f[q] : f[q][i] \in Penalties
    BY <1>2, MembersAssumption
  <2> QED
    BY <1>1, <2>1
<1> QED
  BY <1>1, <1>2

\* What a function makes of a finite set is finite.
LEMMA ImageFinite ==
  ASSUME NEW S, NEW f, IsFiniteSet(S)
  PROVE  IsFiniteSet({f[x] : x \in S})
<1> DEFINE T == {f[x] : x \in S}
           g == [x \in S |-> f[x]]
<1>1. g \in Surjection(S, T)
  BY DEF Surjection
<1> QED
  BY <1>1, FS_Surjection

LEMMA IfacesFinite == IsFiniteSet(Ifaces)
<1>1. Ifaces = {RowOrder[n] : n \in 1 .. Len(RowOrder)} /\ Len(RowOrder) \in Nat
  BY MembersAssumption DEF ToSet
<1>2. IsFiniteSet(1 .. Len(RowOrder))
  BY <1>1, FS_Interval
<1> QED
  BY <1>1, <1>2, ImageFinite

\* Who is new is added to those that are there.
LEMMA WithProperties ==
  ASSUME NEW S, MemberSet(S), NEW new, new \subseteq Entry, IsFiniteSet(new)
  PROVE  /\ MemberSet(With(S, new))
         /\ (\A e \in new : e.kind # "dynamic") => From(With(S, new), S)
         /\ \A stored : Kept(S, stored) /\ Kept(new, stored) => Kept(With(S, new), stored)
<1> DEFINE place(e) == Cardinality(S) + Cardinality({f \in new : Before(f.iface, e.iface)})
           rec(e) == [iface |-> e.iface, kind |-> e.kind, penalty |-> e.penalty, paused |-> e.paused,
                      pos |-> place(e)]
           added == {rec(e) : e \in new}
<1>1. With(S, new) = S \cup added
  BY DEF With
<1>2. IsFiniteSet(added)
  <2> DEFINE f == [e \in new |-> rec(e)]
  <2>1. added = {f[e] : e \in new}
    OBVIOUS
  <2> HIDE DEF f, added
  <2> QED
    BY <2>1, ImageFinite
<1>3. \A e \in new : place(e) \in Int
  <2>1. Cardinality(S) \in Nat
    BY FS_CardinalityType DEF MemberSet
  <2>2. ASSUME NEW e \in new PROVE Cardinality({f \in new : Before(f.iface, e.iface)}) \in Nat
    BY FS_Subset, FS_CardinalityType
  <2> QED
    BY <2>1, <2>2
<1> HIDE DEF place
<1>4. added \subseteq AnyMember
  BY <1>3 DEF AnyMember, Entry
<1>5. MemberSet(With(S, new))
  BY <1>1, <1>2, <1>4, FS_Union DEF MemberSet
<1>6. \A x \in added : \E e \in new : e.kind = x.kind /\ e.iface = x.iface /\ e.paused = x.paused
  OBVIOUS
<1> HIDE DEF added
<1>7. (\A e \in new : e.kind # "dynamic") => From(With(S, new), S)
  BY <1>1, <1>6 DEF From
<1>8. \A stored : Kept(S, stored) /\ Kept(new, stored) => Kept(With(S, new), stored)
  BY <1>1, <1>6 DEF Kept
<1> QED
  BY <1>5, <1>7, <1>8

\* Who goes lets the others move up.
LEMMA WithoutProperties ==
  ASSUME NEW S, MemberSet(S), NEW gone, gone \subseteq S
  PROVE  MemberSet(Without(S, gone)) /\ From(Without(S, gone), S)
<1> DEFINE place(x) == x.pos - Cardinality({g \in gone : g.pos < x.pos})
           left == {[x EXCEPT !.pos = place(x)] : x \in S \ gone}
<1>1. Without(S, gone) = left
  <2>1. \A x \in S : "pos" \in DOMAIN x
    BY DEF MemberSet, AnyMember
  <2> QED
    BY DEF Without
<1>2. \A x \in S : place(x) \in Int
  <2>1. IsFiniteSet(gone)
    BY FS_Subset DEF MemberSet
  <2>2. ASSUME NEW x \in S PROVE Cardinality({g \in gone : g.pos < x.pos}) \in Nat
    BY <2>1, FS_Subset, FS_CardinalityType
  <2>3. \A x \in S : x.pos \in Int
    BY DEF MemberSet, AnyMember
  <2> QED
    BY <2>2, <2>3
<1> HIDE DEF place
<1>3. left \subseteq AnyMember
  BY <1>2 DEF MemberSet, AnyMember
<1>4. IsFiniteSet(left)
  <2>1. IsFiniteSet(S \ gone)
    BY FS_Subset DEF MemberSet
  <2> DEFINE f == [x \in S \ gone |-> [x EXCEPT !.pos = place(x)]]
  <2>2. left = {f[x] : x \in S \ gone}
    OBVIOUS
  <2> HIDE DEF f, left
  <2> QED
    BY <2>1, <2>2, ImageFinite
<1>5. From(left, S)
  BY DEF From, MemberSet, AnyMember
<1> QED
  BY <1>1, <1>3, <1>4, <1>5 DEF MemberSet

LEMMA FromIsKept ==
  ASSUME NEW T, NEW S, NEW stored, From(T, S), Kept(S, stored)
  PROVE  Kept(T, stored)
BY DEF From, Kept

LEMMA FromTransitive ==
  ASSUME NEW T, NEW S, NEW U, From(T, S), From(S, U)
  PROVE  From(T, U)
BY DEF From

Dump(S) == Stored({x \in S : x.kind = "dynamic"})

\* What dump_queue_members writes is what there is.
LEMMA DumpedIsKept ==
  ASSUME NEW S, MemberSet(S)
  PROVE  Kept(S, Dump(S)) /\ Dump(S) \subseteq Listing /\ IsFiniteSet(Dump(S))
<1> DEFINE dynamic == {x \in S : x.kind = "dynamic"}
           rec(x) == [iface |-> x.iface, penalty |-> x.penalty, paused |-> x.paused]
<1>1. Dump(S) = {rec(x) : x \in dynamic}
  BY DEF Stored, Dump
<1>2. IsFiniteSet({rec(x) : x \in dynamic})
  <2>1. IsFiniteSet(dynamic)
    BY FS_Subset DEF MemberSet
  <2> DEFINE f == [x \in dynamic |-> rec(x)]
  <2>2. {rec(x) : x \in dynamic} = {f[x] : x \in dynamic}
    OBVIOUS
  <2> HIDE DEF f, rec, dynamic
  <2> QED
    BY <2>1, <2>2, ImageFinite
<1>3. {rec(x) : x \in dynamic} \subseteq Listing
  BY DEF Listing, MemberSet, AnyMember
<1>4. Kept(S, {rec(x) : x \in dynamic})
  <2>1. ASSUME NEW x \in S, x.kind = "dynamic"
        PROVE  \E e \in {rec(y) : y \in dynamic} : e.iface = x.iface /\ e.paused = x.paused
    <3>1. rec(x) \in {rec(y) : y \in dynamic}
      BY <2>1
    <3> QED
      BY <3>1
  <2> QED
    BY <2>1 DEF Kept
<1> QED
  BY <1>1, <1>2, <1>3, <1>4

-----------------------------------------------------------------------------
(* What the operations on a whole queue make of its dynamic members.       *)

\* rt_handle_member_record touches realtime members only.
LEMMA HandledProperties ==
  ASSUME NEW S, MemberSet(S), NEW R, Rows(R)
  PROVE  MemberSet(HandledAll(S, R)) /\ From(HandledAll(S, R), S)
<1> DEFINE valid == {r \in R : Valid(r)}
           of(x) == {r \in valid : x.kind = "realtime" /\ r.iface = x.iface}
           after(x) == LET r == CHOOSE r \in of(x) : TRUE
                       IN  [x EXCEPT !.penalty = Penalty(r), !.paused = r.paused]
           known == {x \in S : of(x) # {}}
           kept == (S \ known) \cup {after(x) : x \in known}
           fresh == {r \in valid : \A x \in S : r \notin of(x)}
           entry(r) == New(r.iface, "realtime", Penalty(r), r.paused)
           new == {entry(r) : r \in fresh}
<1>1. HandledAll(S, R) = With(kept, new)
  BY DEF HandledAll
<1>2. \A r \in R : r.iface \in Ifaces /\ Penalty(r) \in Nat /\ r.paused \in BOOLEAN
  <2> SUFFICES ASSUME NEW r \in R
               PROVE  r.iface \in Ifaces /\ Penalty(r) \in Nat /\ r.paused \in BOOLEAN
    OBVIOUS
  <2>1. r.iface \in Ifaces /\ r.penalty \in Penalties \cup {-1} /\ r.paused \in BOOLEAN
    BY DEF Rows, Row
  <2>2. r.penalty \in Nat \/ r.penalty = -1
    BY <2>1, PenaltiesAreNumbers
  <2>3. Penalty(r) \in Nat
    BY <2>2 DEF Penalty
  <2> QED
    BY <2>1, <2>3
<1>3. new \subseteq Entry /\ \A e \in new : e.kind # "dynamic"
  BY <1>2 DEF Entry, New, Kinds
<1>4. IsFiniteSet(new)
  <2>1. IsFiniteSet(fresh)
    BY FS_Subset DEF Rows
  <2> DEFINE f == [r \in fresh |-> entry(r)]
  <2>2. new = {f[r] : r \in fresh}
    OBVIOUS
  <2> HIDE DEF f, new, fresh
  <2> QED
    BY <2>1, <2>2, ImageFinite
<1>5. ASSUME NEW x \in known
      PROVE  after(x) \in AnyMember /\ x.kind = "realtime" /\ after(x).kind = "realtime"
  <2> DEFINE r == CHOOSE r \in of(x) : TRUE
  <2>1. r \in of(x)
    OBVIOUS
  <2>2. r \in R /\ x.kind = "realtime"
    BY <2>1
  <2> HIDE DEF r
  <2>3. x \in AnyMember /\ Penalty(r) \in Nat /\ r.paused \in BOOLEAN
    BY <1>2, <2>2 DEF MemberSet
  <2>4. [x EXCEPT !.penalty = Penalty(r), !.paused = r.paused] \in AnyMember
    BY <2>3 DEF AnyMember
  <2>5. [x EXCEPT !.penalty = Penalty(r), !.paused = r.paused].kind = x.kind
    BY <2>3 DEF AnyMember
  <2> QED
    BY <2>2, <2>4, <2>5 DEF r
<1>6. MemberSet(kept) /\ From(kept, S)
  <2>1. IsFiniteSet({after(x) : x \in known})
    <3>1. IsFiniteSet(known)
      BY FS_Subset DEF MemberSet
    <3> DEFINE f == [x \in known |-> after(x)]
    <3>2. {after(x) : x \in known} = {f[x] : x \in known}
      OBVIOUS
    <3> HIDE DEF f, after, known
    <3> QED
      BY <3>1, <3>2, ImageFinite
  <2> HIDE DEF after
  <2>2. kept \subseteq AnyMember
    BY <1>5 DEF MemberSet
  <2>3. From(kept, S)
    BY <1>5 DEF From
  <2>4. IsFiniteSet(S \ known)
    BY FS_Subset DEF MemberSet
  <2> QED
    BY <2>1, <2>2, <2>3, <2>4, FS_Union DEF MemberSet
<1> HIDE DEF kept, new
<1> QED
  BY <1>1, <1>3, <1>4, <1>6, WithProperties, FromTransitive

LEMMA RefreshedProperties ==
  ASSUME NEW S, MemberSet(S), NEW R, Rows(R)
  PROVE  MemberSet(Refreshed(S, R)) /\ From(Refreshed(S, R), S)
<1> DEFINE all == HandledAll(S, R)
<1>1. MemberSet(all) /\ From(all, S)
  BY HandledProperties
<1>2. Dead(all, R) \subseteq all
  BY DEF Dead
<1>3. Refreshed(S, R) = Without(all, Dead(all, R))
  BY DEF Refreshed
<1> HIDE DEF all
<1> QED
  BY <1>1, <1>2, <1>3, WithoutProperties, FromTransitive

\* reload_single_queue makes members static or leaves them; dynamic ones keep their pause.
LEMMA ReloadedProperties ==
  ASSUME NEW S, MemberSet(S), NEW lines, DOMAIN lines \subseteq Ifaces,
         \A i \in DOMAIN lines : lines[i] \in Nat
  PROVE  MemberSet(ReloadedMembers(S, lines)) /\ From(ReloadedMembers(S, lines), S)
<1> DEFINE found == {x \in S : x.iface \in DOMAIN lines /\ x = CHOOSE y \in Named(S, x.iface) : TRUE}
           after(x) == [x EXCEPT !.kind = "static", !.penalty = lines[x.iface]]
           kept == (S \ found) \cup {after(x) : x \in found}
           fresh == {j \in DOMAIN lines : Named(S, j) = {}}
           entry(i) == New(i, "static", lines[i], FALSE)
           new == {entry(i) : i \in fresh}
           all == With(kept, new)
<1>1. Listed(S, lines) = all
  BY DEF Listed
<1>2. new \subseteq Entry /\ \A e \in new : e.kind # "dynamic"
  <2>1. \A i \in fresh : i \in Ifaces /\ lines[i] \in Nat
    OBVIOUS
  <2>2. \A i \in fresh : entry(i) \in Entry /\ entry(i).kind = "static"
    BY <2>1 DEF Entry, New, Kinds
  <2> HIDE DEF fresh, entry
  <2> QED
    BY <2>2
<1>3. IsFiniteSet(new)
  <2>1. IsFiniteSet(fresh)
    BY IfacesFinite, FS_Subset
  <2> DEFINE f == [i \in fresh |-> entry(i)]
  <2>2. new = {f[i] : i \in fresh}
    OBVIOUS
  <2> HIDE DEF f, new, fresh
  <2> QED
    BY <2>1, <2>2, ImageFinite
<1>4. \A x \in found : after(x) \in AnyMember /\ after(x).kind = "static"
  BY DEF MemberSet, AnyMember, Kinds
<1>5. MemberSet(kept) /\ From(kept, S)
  <2>1. IsFiniteSet({after(x) : x \in found})
    <3>1. IsFiniteSet(found)
      BY FS_Subset DEF MemberSet
    <3> DEFINE f == [x \in found |-> after(x)]
    <3>2. {after(x) : x \in found} = {f[x] : x \in found}
      OBVIOUS
    <3> HIDE DEF f, after, found
    <3> QED
      BY <3>1, <3>2, ImageFinite
  <2> HIDE DEF after, found
  <2>2. found \subseteq S
    BY DEF found
  <2>3. kept \subseteq AnyMember
    BY <1>4 DEF MemberSet
  <2>4. From(kept, S)
    BY <1>4 DEF From
  <2>5. IsFiniteSet(S \ found)
    BY FS_Subset DEF MemberSet
  <2> QED
    BY <2>1, <2>3, <2>4, <2>5, FS_Union DEF MemberSet
<1> HIDE DEF kept, new
<1>6. MemberSet(all) /\ From(all, S)
  BY <1>2, <1>3, <1>5, WithProperties, FromTransitive
<1> DEFINE gone == {x \in all : x.kind = "static" /\ x.iface \notin DOMAIN lines}
<1>7. ReloadedMembers(S, lines) = Without(all, gone)
  BY <1>1 DEF ReloadedMembers
<1>8. gone \subseteq all
  OBVIOUS
<1> HIDE DEF all, gone
<1> QED
  BY <1>6, <1>7, <1>8, WithoutProperties, FromTransitive

\* reload_queue_members brings back what was stored, as it was stored.
LEMMA RestoredProperties ==
  ASSUME NEW S, MemberSet(S), NEW stored, stored \subseteq Listing, IsFiniteSet(stored), Kept(S, stored)
  PROVE  MemberSet(Restored(S, stored)) /\ Kept(Restored(S, stored), stored)
<1> DEFINE fresh == {f \in stored : Named(S, f.iface) = {}}
           entry(e) == New(e.iface, "dynamic", e.penalty, e.paused)
           new == {entry(e) : e \in fresh}
<1>1. Restored(S, stored) = With(S, new)
  BY DEF Restored
<1>2. new \subseteq Entry
  BY DEF Entry, New, Kinds, Listing
<1>3. Kept(new, stored)
  BY DEF Kept, New
<1>4. IsFiniteSet(new)
  <2>1. IsFiniteSet(fresh)
    BY FS_Subset
  <2> DEFINE f == [e \in fresh |-> entry(e)]
  <2>2. new = {f[e] : e \in fresh}
    OBVIOUS
  <2> HIDE DEF f, new, fresh
  <2> QED
    BY <2>1, <2>2, ImageFinite
<1> HIDE DEF new
<1> QED
  BY <1>1, <1>2, <1>3, <1>4, WithProperties

-----------------------------------------------------------------------------
(* The steps.                                                              *)

\* The members of one queue change: either nobody dynamic is new, or the queue is stored.
LEMMA QueueChanged ==
  ASSUME MembersOK, AstdbOK, StoredInv, NEW q \in Queues, NEW T, MemberSet(T),
         members' = [members EXCEPT ![q] = T],
         \/ UNCHANGED astdb /\ From(T, members[q])
         \/ astdb' = IF Persistent THEN Dumped(q, T) ELSE astdb
  PROVE  MembersOK' /\ AstdbOK' /\ StoredInv'
<1>1. MembersOK'
  BY DEF MembersOK
<1>2. Kept(T, Dump(T)) /\ Dump(T) \subseteq Listing /\ IsFiniteSet(Dump(T))
  BY DumpedIsKept
<1>3. astdb' = astdb \/ (Persistent /\ astdb' = [astdb EXCEPT ![q] = Dump(T)])
  BY DEF Dumped, Dump
<1>4. AstdbOK'
  BY <1>2, <1>3 DEF AstdbOK
<1>5. ASSUME Persistent PROVE Kept(members'[q], astdb'[q])
  <2>1. members'[q] = T
    BY DEF MembersOK
  <2>2. CASE UNCHANGED astdb /\ From(T, members[q])
    BY <1>5, <2>1, <2>2, FromIsKept DEF StoredInv
  <2>3. CASE astdb' = IF Persistent THEN Dumped(q, T) ELSE astdb
    <3>1. astdb' = [astdb EXCEPT ![q] = Dump(T)]
      BY <1>5, <2>3 DEF Dumped, Dump
    <3>2. astdb'[q] = Dump(T)
      BY <3>1 DEF AstdbOK
    <3> QED
      BY <1>2, <2>1, <3>2
  <2> QED
    BY <2>2, <2>3
<1>6. ASSUME Persistent, NEW p \in Queues, p # q PROVE Kept(members'[p], astdb'[p])
  <2>1. members'[p] = members[p] /\ astdb'[p] = astdb[p]
    BY <1>3, <1>6 DEF MembersOK, AstdbOK
  <2> QED
    BY <1>6, <2>1 DEF StoredInv
<1>7. StoredInv'
  BY <1>5, <1>6 DEF StoredInv
<1> QED
  BY <1>1, <1>4, <1>7

\* A row is written, by the program or from outside.
LEMMA RowsChanged ==
  ASSUME RowsOK, NEW q \in Queues, NEW i, NEW r \in Row, rows' = RowSet(q, i, r)
  PROVE  RowsOK'
<1> DEFINE others == {x \in rows[q] : x.iface # i}
<1>1. Rows(others \cup {r})
  <2>1. IsFiniteSet(others)
    BY FS_Subset DEF RowsOK, Rows
  <2> QED
    BY <2>1, FS_Singleton, FS_Union DEF RowsOK, Rows
<1>2. rows' = [rows EXCEPT ![q] = others \cup {r}]
  BY DEF RowSet
<1> QED
  BY <1>1, <1>2 DEF RowsOK

LEMMA ApplyKeeps ==
  ASSUME Inv, Apply
  PROVE  Inv'
<1> DEFINE q == load.queue
<1>1. load.step = "apply"
  BY DEF Apply
<1>2. load \in Reading /\ Rows(load.rows)
  BY <1>1 DEF Inv, TypeInv, LoadOK, NoLoad, Reading, Rows
<1>3. q \in Queues
  BY <1>2 DEF Reading
<1>4. UNCHANGED <<file, dbup, rows, astdb>> /\ load' = NoLoad
  BY DEF Apply, db
<1>5. queues' \subseteq Queues
  BY <1>3 DEF Apply, core, Unlink, Inv, TypeInv
<1>6. MembersOK' /\ AstdbOK' /\ StoredInv'
  <2>1. CASE UNCHANGED members
    BY <1>4, <2>1 DEF Inv, TypeInv, MembersOK, AstdbOK, StoredInv
  <2>2. CASE members' = [members EXCEPT ![q] = {}]
    <3>1. MemberSet({}) /\ From({}, members[q])
      BY FS_EmptySet DEF MemberSet, From
    <3> QED
      BY <1>3, <1>4, <2>2, <3>1, QueueChanged DEF Inv, TypeInv
  <2>3. CASE members' = [members EXCEPT ![q] = Refreshed(@, load.rows)]
    <3>1. MemberSet(members[q])
      BY <1>3 DEF Inv, TypeInv, MembersOK
    <3>2. MemberSet(Refreshed(members[q], load.rows)) /\ From(Refreshed(members[q], load.rows), members[q])
      BY <1>2, <3>1, RefreshedProperties
    <3>3. members' = [members EXCEPT ![q] = Refreshed(members[q], load.rows)]
      BY <2>3
    <3> QED
      BY <1>3, <1>4, <3>2, <3>3, QueueChanged DEF Inv, TypeInv
  <2> QED
    BY <2>1, <2>2, <2>3 DEF Apply, Unlink, Refresh, core
<1> QED
  BY <1>4, <1>5, <1>6 DEF Inv, TypeInv, RowsOK, LoadOK

\* Somebody adds, removes, pauses a member or sets its penalty.
LEMMA ChangesKeep ==
  ASSUME Inv, NEW q \in Queues,
         \/ \E i \in Ifaces, p \in Penalties, b \in BOOLEAN : AddQueueMember(q, i, p, b)
         \/ \E x \in members[q] : \/ RemoveQueueMember(q, x)
                                  \/ \E b \in BOOLEAN : Pause(q, x, b)
                                  \/ \E p \in Penalties : SetPenalty(q, x, p)
  PROVE  Inv'
<1>1. MemberSet(members[q]) /\ MembersOK /\ AstdbOK /\ RowsOK /\ StoredInv
  BY DEF Inv, TypeInv, MembersOK
<1>2. ASSUME NEW i \in Ifaces, NEW p \in Penalties, NEW b \in BOOLEAN, AddQueueMember(q, i, p, b)
      PROVE  Inv'
  <2> DEFINE new == {New(i, "dynamic", p, b)}
             T == With(members[q], new)
  <2>1. new \subseteq Entry /\ IsFiniteSet(new)
    <3>1. p \in Nat
      BY PenaltiesAreNumbers
    <3>2. New(i, "dynamic", p, b) \in Entry
      BY <3>1 DEF New, Entry, Kinds
    <3> QED
      BY <3>2, FS_Singleton
  <2>2. MemberSet(T)
    BY <1>1, <2>1, WithProperties
  <2>3. members' = [members EXCEPT ![q] = T] /\ UNCHANGED <<file, dbup, rows, queues, load>>
    BY <1>2 DEF AddQueueMember, db
  <2> HIDE DEF T
  <2>4. members'[q] = T
    BY <1>1, <2>3 DEF MembersOK
  <2>5. astdb' = IF Persistent THEN Dumped(q, T) ELSE astdb
    BY <1>2, <2>4 DEF AddQueueMember
  <2>6. MembersOK' /\ AstdbOK' /\ StoredInv'
    BY <1>1, <2>2, <2>3, <2>5, QueueChanged
  <2> QED
    BY <2>3, <2>6 DEF Inv, TypeInv, RowsOK, LoadOK
<1>3. ASSUME NEW x \in members[q], RemoveQueueMember(q, x)
      PROVE  Inv'
  <2> DEFINE T == Without(members[q], {x})
  <2>1. MemberSet(T)
    BY <1>1, WithoutProperties
  <2>2. members' = [members EXCEPT ![q] = T] /\ UNCHANGED <<file, dbup, queues, load>>
    BY <1>3 DEF RemoveQueueMember
  <2> HIDE DEF T
  <2>3. members'[q] = T
    BY <1>1, <2>2 DEF MembersOK
  <2>4. astdb' = IF Persistent THEN Dumped(q, T) ELSE astdb
    BY <1>3, <2>3 DEF RemoveQueueMember
  <2>5. MembersOK' /\ AstdbOK' /\ StoredInv'
    BY <1>1, <2>1, <2>2, <2>4, QueueChanged
  <2>6. RowsOK'
    <3>1. CASE UNCHANGED rows
      BY <1>1, <3>1 DEF RowsOK
    <3>2. CASE Changeable(q, x) /\ rows' = RowSet(q, x.iface, [RowOf(q, x.iface) EXCEPT !.penalty = -1])
      <4>1. RowOf(q, x.iface) \in rows[q]
        BY <3>2 DEF Changeable, RowOf
      <4>2. [RowOf(q, x.iface) EXCEPT !.penalty = -1] \in Row
        BY <1>1, <4>1 DEF RowsOK, Rows, Row
      <4> QED
        BY <1>1, <3>2, <4>2, RowsChanged
    <3> QED
      BY <1>3, <3>1, <3>2 DEF RemoveQueueMember
  <2> QED
    BY <2>2, <2>5, <2>6 DEF Inv, TypeInv, LoadOK
<1>4. ASSUME NEW x \in members[q], NEW b \in BOOLEAN, Pause(q, x, b)
      PROVE  Inv'
  <2> DEFINE T == (members[q] \ {x}) \cup {[x EXCEPT !.paused = b]}
  <2>1. MemberSet(T)
    <3>1. IsFiniteSet(members[q] \ {x}) /\ IsFiniteSet({[x EXCEPT !.paused = b]})
      BY <1>1, FS_Subset, FS_Singleton DEF MemberSet
    <3>2. T \subseteq AnyMember
      BY <1>1 DEF MemberSet, AnyMember
    <3> QED
      BY <3>1, <3>2, FS_Union DEF MemberSet
  <2>2. members' = [members EXCEPT ![q] = T] /\ UNCHANGED <<file, dbup, queues, load>>
    BY <1>4 DEF Pause
  <2> HIDE DEF T
  <2>3. members'[q] = T
    BY <1>1, <2>2 DEF MembersOK
  <2>4. astdb' = IF Persistent THEN Dumped(q, T) ELSE astdb
    BY <1>4, <2>3 DEF Pause
  <2>5. MembersOK' /\ AstdbOK' /\ StoredInv'
    BY <1>1, <2>1, <2>2, <2>4, QueueChanged
  <2>6. RowsOK'
    <3>1. CASE UNCHANGED rows
      BY <1>1, <3>1 DEF RowsOK
    <3>2. CASE Changeable(q, x) /\ rows' = RowSet(q, x.iface, [RowOf(q, x.iface) EXCEPT !.paused = b])
      <4>1. RowOf(q, x.iface) \in rows[q]
        BY <3>2 DEF Changeable, RowOf
      <4>2. [RowOf(q, x.iface) EXCEPT !.paused = b] \in Row
        BY <1>1, <4>1 DEF RowsOK, Rows, Row
      <4> QED
        BY <1>1, <3>2, <4>2, RowsChanged
    <3> QED
      BY <1>4, <3>1, <3>2 DEF Pause
  <2> QED
    BY <2>2, <2>5, <2>6 DEF Inv, TypeInv, LoadOK
<1>5. ASSUME NEW x \in members[q], NEW p \in Penalties, SetPenalty(q, x, p)
      PROVE  Inv'
  <2>1. UNCHANGED <<file, dbup, queues, astdb, load>>
    BY <1>5 DEF SetPenalty
  <2>2. CASE /\ members' = [members EXCEPT ![q] = (@ \ {x}) \cup {[x EXCEPT !.penalty = p]}]
             /\ UNCHANGED rows
    <3> DEFINE T == (members[q] \ {x}) \cup {[x EXCEPT !.penalty = p]}
    <3>1. IsFiniteSet(members[q] \ {x}) /\ IsFiniteSet({[x EXCEPT !.penalty = p]})
      BY <1>1, FS_Subset, FS_Singleton DEF MemberSet
    <3>2. T \subseteq AnyMember
      BY <1>1, PenaltiesAreNumbers DEF MemberSet, AnyMember
    <3>3. From(T, members[q])
      BY <1>1 DEF MemberSet, AnyMember, From
    <3>4. MemberSet(T)
      BY <3>1, <3>2, FS_Union DEF MemberSet
    <3>5. members' = [members EXCEPT ![q] = T]
      BY <2>2
    <3> HIDE DEF T
    <3>6. MembersOK' /\ AstdbOK' /\ StoredInv'
      BY <1>1, <2>1, <3>3, <3>4, <3>5, QueueChanged
    <3> QED
      BY <2>1, <2>2, <3>6 DEF Inv, TypeInv, RowsOK, LoadOK
  <2>3. CASE /\ Changeable(q, x) /\ UNCHANGED members
             /\ rows' = RowSet(q, x.iface, [RowOf(q, x.iface) EXCEPT !.penalty = p])
    <3>1. RowOf(q, x.iface) \in rows[q]
      BY <2>3 DEF Changeable, RowOf
    <3>2. [RowOf(q, x.iface) EXCEPT !.penalty = p] \in Row
      BY <1>1, <3>1 DEF RowsOK, Rows, Row
    <3>3. RowsOK'
      BY <1>1, <2>3, <3>2, RowsChanged
    <3> QED
      BY <2>1, <2>3, <3>3 DEF Inv, TypeInv, MembersOK, AstdbOK, LoadOK, StoredInv
  <2> QED
    BY <1>5, <2>2, <2>3 DEF SetPenalty
<1> QED
  BY <1>2, <1>3, <1>4, <1>5

LEMMA ReloadKeeps ==
  ASSUME Inv, NEW f \in Files, Reload(f)
  PROVE  Inv'
<1>1. /\ file' \in Files /\ queues' \subseteq Queues
      /\ UNCHANGED <<dbup, rows, astdb, load>>
  BY MembersAssumption DEF Reload, Inv, TypeInv, Queues, db
<1> DEFINE T(q) == IF q \in DOMAIN f THEN ReloadedMembers(members[q], f[q])
                   ELSE IF q \in Realtime THEN members[q] ELSE {}
<1>2. ASSUME NEW q \in Queues
      PROVE  MemberSet(T(q)) /\ From(T(q), members[q])
  <2>1. MemberSet(members[q])
    BY DEF Inv, TypeInv, MembersOK
  <2>2. CASE q \in DOMAIN f
    <3>1. DOMAIN f[q] \subseteq Ifaces /\ \A i \in DOMAIN f[q] : f[q][i] \in Nat
      BY <2>2, PenaltiesAreNumbers
    <3> QED
      BY <2>1, <2>2, <3>1, ReloadedProperties
  <2>3. CASE q \notin DOMAIN f
    BY <2>1, <2>3, FS_EmptySet DEF MemberSet, From
  <2> QED
    BY <2>2, <2>3
<1>3. members' = [q \in Queues |-> T(q)]
  BY DEF Reload
<1> HIDE DEF T
<1>4. MembersOK'
  BY <1>2, <1>3 DEF MembersOK
<1>5. StoredInv'
  BY <1>1, <1>2, <1>3, FromIsKept DEF StoredInv, Inv
<1> QED
  BY <1>1, <1>4, <1>5 DEF Inv, TypeInv, RowsOK, AstdbOK, LoadOK

\* After a restart a queue has what its file, the database and the astdb give.
LEMMA RestartKeeps ==
  ASSUME Inv, Restart
  PROVE  Inv'
<1> DEFINE stored == {q \in Queues : Persistent /\ astdb[q] # {}}
           there  == DOMAIN file \cup {q \in stored : dbup /\ q \in dbqueues}
           lines(q) == IF q \in DOMAIN file THEN ReloadedMembers({}, file[q]) ELSE {}
           known(q) == Refreshed(lines(q), IF dbup THEN rows[q] ELSE {})
           fresh(q) == IF q \in stored THEN Restored(known(q), astdb[q]) ELSE lines(q)
<1>1. /\ queues' = there
      /\ members' = [q \in Queues |-> IF q \in there THEN fresh(q) ELSE {}]
      /\ astdb' = [q \in Queues |-> IF q \in stored \ there THEN {} ELSE astdb[q]]
      /\ load' = NoLoad /\ UNCHANGED <<file, dbup, rows>>
  BY DEF Restart, db
<1>2. there \subseteq Queues
  BY MembersAssumption DEF Inv, TypeInv, Queues
<1>3. ASSUME NEW q \in Queues
      PROVE  MemberSet(lines(q)) /\ From(lines(q), {})
  <2>1. MemberSet({}) /\ From({}, {})
    BY FS_EmptySet DEF MemberSet, From
  <2>2. CASE q \in DOMAIN file
    <3>1. DOMAIN file[q] \subseteq Ifaces /\ \A i \in DOMAIN file[q] : file[q][i] \in Nat
      BY <2>2, PenaltiesAreNumbers DEF Inv, TypeInv
    <3> QED
      BY <2>1, <2>2, <3>1, ReloadedProperties
  <2> QED
    BY <2>1, <2>2
<1> HIDE DEF lines
<1>4. ASSUME NEW q \in Queues
      PROVE  MemberSet(known(q)) /\ From(known(q), {})
  <2>1. Rows(IF dbup THEN rows[q] ELSE {})
    BY FS_EmptySet DEF Inv, TypeInv, RowsOK, Rows
  <2> QED
    BY <1>3, <2>1, RefreshedProperties, FromTransitive
<1> HIDE DEF known
<1>5. ASSUME NEW q \in Queues
      PROVE  MemberSet(fresh(q)) /\ Kept(fresh(q), astdb[q])
  <2>1. Kept(known(q), astdb[q]) /\ Kept(lines(q), astdb[q])
    BY <1>3, <1>4 DEF From, Kept
  <2>2. astdb[q] \subseteq Listing /\ IsFiniteSet(astdb[q])
    BY DEF Inv, TypeInv, AstdbOK
  <2> QED
    BY <1>3, <1>4, <2>1, <2>2, RestoredProperties
<1> HIDE DEF fresh, there, stored
<1>6. MembersOK'
  <2>1. MemberSet({})
    BY FS_EmptySet DEF MemberSet
  <2> QED
    BY <1>1, <1>5, <2>1 DEF MembersOK
<1>7. AstdbOK'
  BY <1>1, FS_EmptySet DEF AstdbOK, Inv, TypeInv
<1>8. StoredInv'
  <2>1. ASSUME NEW q \in Queues PROVE Kept(members'[q], astdb'[q])
    <3>1. CASE q \in there
      BY <1>1, <1>5, <3>1
    <3>2. CASE q \notin there
      BY <1>1, <3>2 DEF Kept
    <3> QED
      BY <3>1, <3>2
  <2> QED
    BY <2>1 DEF StoredInv
<1> QED
  BY <1>1, <1>2, <1>6, <1>7, <1>8 DEF Inv, TypeInv, RowsOK, LoadOK

LEMMA DbChangeKeeps ==
  ASSUME Inv, DbChange
  PROVE  Inv'
<1>1. UNCHANGED <<file, queues, members, astdb, load>> /\ dbup' \in BOOLEAN
  BY DEF DbChange, core, Inv, TypeInv
<1>2. RowsOK'
  <2>1. CASE UNCHANGED rows
    BY <2>1 DEF Inv, TypeInv, RowsOK
  <2>2. ASSUME NEW q \in Queues, NEW i \in Ifaces, NEW r \in Row, rows' = RowSet(q, i, r)
        PROVE  RowsOK'
    BY <2>2, RowsChanged DEF Inv, TypeInv
  <2>3. ASSUME NEW q \in Queues, NEW i \in Ifaces, rows' = [rows EXCEPT ![q] = {x \in @ : x.iface # i}]
        PROVE  RowsOK'
    <3>1. Rows({x \in rows[q] : x.iface # i})
      BY FS_Subset DEF Inv, TypeInv, RowsOK, Rows
    <3> QED
      BY <2>3, <3>1 DEF Inv, TypeInv, RowsOK
  <2> QED
    BY <2>1, <2>2, <2>3 DEF DbChange
<1> QED
  BY <1>1, <1>2 DEF Inv, TypeInv, MembersOK, AstdbOK, LoadOK, StoredInv

\* A thread reads the database, and a queue is dropped with its members.
LEMMA ReadingKeeps ==
  ASSUME Inv, NEW q \in Queues, Load(q) \/ LoadMembers \/ LeaveDead(q)
  PROVE  Inv'
<1>1. CASE Load(q)
  <2>1. UNCHANGED <<file, dbup, queues, members, rows, astdb>>
    BY <1>1 DEF Load, db, core
  <2>2. LoadOK'
    <3>1. load' = [step |-> "queue", queue |-> q, found |-> dbup /\ q \in dbqueues, rows |-> {}]
      BY <1>1 DEF Load
    <3>2. load' \in Reading /\ load'.rows = {}
      BY <3>1 DEF Reading
    <3> QED
      BY <3>2, FS_EmptySet DEF LoadOK
  <2> QED
    BY <2>1, <2>2 DEF Inv, TypeInv, MembersOK, AstdbOK, RowsOK, StoredInv
<1>2. CASE LoadMembers
  <2>1. UNCHANGED <<file, dbup, queues, members, rows, astdb>>
    BY <1>2 DEF LoadMembers, db, core
  <2>2. LoadOK'
    <3> DEFINE R == IF dbup /\ (load.found \/ load.queue \in Static) THEN rows[load.queue] ELSE {}
    <3>1. load.step = "queue" /\ load' = [load EXCEPT !.step = "apply", !.rows = R]
      BY <1>2 DEF LoadMembers
    <3>2. load \in Reading
      BY <3>1 DEF Inv, TypeInv, LoadOK, NoLoad
    <3>3. load.queue \in Queues
      BY <3>2 DEF Reading
    <3>4. Rows(R)
      BY <3>3, FS_EmptySet DEF Inv, TypeInv, RowsOK, Rows
    <3> HIDE DEF R
    <3>5. load' \in Reading /\ load'.rows = R
      BY <3>1, <3>2, <3>4 DEF Reading, Rows
    <3> QED
      BY <3>4, <3>5 DEF LoadOK, Rows
  <2> QED
    BY <2>1, <2>2 DEF Inv, TypeInv, MembersOK, AstdbOK, RowsOK, StoredInv
<1>3. CASE LeaveDead(q)
  <2>1. UNCHANGED <<file, dbup, rows, astdb, load>> /\ queues' \subseteq Queues
    BY <1>3 DEF LeaveDead, Unlink, db, Inv, TypeInv
  <2>2. members' = [members EXCEPT ![q] = {}]
    BY <1>3 DEF LeaveDead, Unlink
  <2>3. MemberSet({}) /\ From({}, members[q])
    BY FS_EmptySet DEF MemberSet, From
  <2>4. MembersOK' /\ AstdbOK' /\ StoredInv'
    BY <2>1, <2>2, <2>3, QueueChanged DEF Inv, TypeInv
  <2> QED
    BY <2>1, <2>4 DEF Inv, TypeInv, RowsOK, LoadOK
<1> QED
  BY <1>1, <1>2, <1>3

LEMMA UnchangedKeeps ==
  ASSUME Inv, UNCHANGED <<file, dbup, rows, queues, members, astdb, load>>
  PROVE  Inv'
BY DEF Inv, TypeInv, MembersOK, RowsOK, AstdbOK, LoadOK, StoredInv

LEMMA InvInit == MembersInit => Inv
<1> SUFFICES ASSUME MembersInit PROVE Inv
  OBVIOUS
<1>1. /\ file \in Files /\ dbup = TRUE /\ queues = DOMAIN file /\ load = NoLoad
      /\ rows = [q \in Queues |-> {}] /\ astdb = [q \in Queues |-> {}]
      /\ members = [q \in Queues |-> IF q \in DOMAIN file THEN ReloadedMembers({}, file[q]) ELSE {}]
  BY DEF MembersInit
<1>2. DOMAIN file \subseteq Queues
  BY <1>1, MembersAssumption DEF Queues
<1>3. MemberSet({}) /\ From({}, {})
  BY FS_EmptySet DEF MemberSet, From
<1>4. ASSUME NEW q \in Queues
      PROVE  MemberSet(members[q]) /\ From(members[q], {})
  <2>1. CASE q \in DOMAIN file
    <3>1. DOMAIN file[q] \subseteq Ifaces /\ \A i \in DOMAIN file[q] : file[q][i] \in Nat
      BY <1>1, <2>1, PenaltiesAreNumbers
    <3> QED
      BY <1>1, <1>3, <2>1, <3>1, ReloadedProperties
  <2>2. CASE q \notin DOMAIN file
    BY <1>1, <1>3, <2>2
  <2> QED
    BY <2>1, <2>2
<1>5. MembersOK
  BY <1>1, <1>4 DEF MembersOK
<1>6. RowsOK /\ AstdbOK
  BY <1>1, FS_EmptySet DEF RowsOK, Rows, AstdbOK
<1>7. StoredInv
  BY <1>4 DEF StoredInv, From, Kept
<1> QED
  BY <1>1, <1>2, <1>5, <1>6, <1>7 DEF Inv, TypeInv, LoadOK

\* The members of every queue are members, and the dynamic ones are stored.
THEOREM InvCorrect == MembersSpec => []Inv
<1>1. Inv /\ [MembersNext]_memberVars => Inv'
  <2> SUFFICES ASSUME Inv, [MembersNext]_memberVars PROVE Inv'
    OBVIOUS
  <2>1. CASE UNCHANGED memberVars
    BY <2>1, UnchangedKeeps DEF memberVars, db, core
  <2>2. CASE RequestFails \/ Tried \/ RingEnd \/ \E q \in Queues : RingStart(q)
    BY <2>2, UnchangedKeeps DEF RequestFails, Tried, RingEnd, RingStart, db, core
  <2>3. ASSUME NEW f \in Files, Reload(f) PROVE Inv'
    BY <2>3, ReloadKeeps
  <2>4. ASSUME NEW q \in Queues, Load(q) \/ LeaveDead(q) PROVE Inv'
    BY <2>4, ReadingKeeps
  <2>5. CASE LoadMembers
    <3>1. load.queue \in Queues
      BY <2>5 DEF LoadMembers, Inv, TypeInv, LoadOK, NoLoad, Reading
    <3> QED
      BY <2>5, <3>1, ReadingKeeps
  <2> QED
    BY <2>1, <2>2, <2>3, <2>4, <2>5, ApplyKeeps, ChangesKeep, DbChangeKeeps, RestartKeeps DEF MembersNext
<1> QED
  BY <1>1, InvInit, PTL DEF MembersSpec

\* What a restart would restore: every dynamic member is stored, paused as it is.
THEOREM DynamicStoredCorrect == MembersSpec => []DynamicStored
<1>1. Inv => DynamicStored
  BY DEF Inv, TypeInv, StoredInv, Kept, DynamicStored
<1> QED
  BY <1>1, InvCorrect, PTL

-----------------------------------------------------------------------------
(* Positions.                                                              *)

\* The members have the positions 0, 1, ... of their number, each its own.
Slots(S) ==
  /\ \A x \in S : x.pos \in 0 .. Cardinality(S) - 1
  /\ \A x, y \in S : x.pos = y.pos => x = y

\* How many of gone stand before a position.
Ahead(gone, n) == Cardinality({g \in gone : g.pos < n})

LEMMA AheadType ==
  ASSUME NEW gone, IsFiniteSet(gone), NEW n
  PROVE  Ahead(gone, n) \in Nat /\ Ahead(gone, n) <= Cardinality(gone)
BY FS_Subset, FS_CardinalityType DEF Ahead

\* A finite set whose elements stand at different positions from a to b - 1.
LEMMA SlotsBetween ==
  ASSUME NEW G, IsFiniteSet(G), NEW a \in Int, NEW b \in Int, a <= b,
         \A g \in G : g.pos \in a .. b - 1, \A g, h \in G : g.pos = h.pos => g = h
  PROVE  Cardinality(G) \in Nat /\ Cardinality(G) <= b - a
<1> DEFINE f == [g \in G |-> g.pos]
<1>1. f \in Injection(G, a .. b - 1)
  BY DEF Injection, IsInjective
<1>2. IsFiniteSet(a .. b - 1) /\ Cardinality(a .. b - 1) = b - a
  <2>1. b - 1 \in Int
    OBVIOUS
  <2> QED
    BY <2>1, FS_Interval
<1> HIDE DEF f
<1>3. Cardinality(G) <= Cardinality(a .. b - 1)
  BY <1>1, <1>2, FS_Injection
<1> QED
  BY <1>2, <1>3, FS_CardinalityType

\* Between two positions there stand as many as there is room for, and one less if the first is free.
LEMMA AheadGrows ==
  ASSUME NEW gone, IsFiniteSet(gone), \A g \in gone : g.pos \in Int,
         \A g, h \in gone : g.pos = h.pos => g = h,
         NEW a \in Int, NEW b \in Int, a <= b
  PROVE  /\ Ahead(gone, a) <= Ahead(gone, b) /\ Ahead(gone, b) - Ahead(gone, a) <= b - a
         /\ a < b /\ (\A g \in gone : g.pos # a) => Ahead(gone, b) - Ahead(gone, a) <= b - a - 1
<1> DEFINE A == {g \in gone : g.pos < a}
           M == {g \in gone : g.pos \in a .. b - 1}
           B == {g \in gone : g.pos < b}
<1>1. B = A \cup M /\ A \cap M = {}
  OBVIOUS
<1>2. IsFiniteSet(A) /\ IsFiniteSet(M)
  BY FS_Subset
<1>3. Cardinality(B) = Cardinality(A) + Cardinality(M)
  <2>1. Cardinality(A \cap M) = 0
    BY <1>1, FS_EmptySet
  <2>2. Cardinality(A) \in Nat /\ Cardinality(M) \in Nat
    BY <1>2, FS_CardinalityType
  <2>3. Cardinality(A \cup M) = Cardinality(A) + Cardinality(M) - Cardinality(A \cap M)
    BY <1>2, FS_Union
  <2> HIDE DEF A, M, B
  <2> QED
    BY <1>1, <2>1, <2>2, <2>3
<1>4. Cardinality(M) \in Nat /\ Cardinality(M) <= b - a
  <2> HIDE DEF A, B
  <2>1. (\A g \in M : g.pos \in a .. b - 1) /\ (\A g, h \in M : g.pos = h.pos => g = h)
    OBVIOUS
  <2> HIDE DEF M
  <2> QED
    BY <1>2, <2>1, SlotsBetween
<1>5. ASSUME a < b, \A g \in gone : g.pos # a PROVE Cardinality(M) <= b - a - 1
  <2>1. (\A g \in M : g.pos \in a + 1 .. b - 1) /\ (\A g, h \in M : g.pos = h.pos => g = h)
    BY <1>5
  <2>2. a + 1 \in Int /\ a + 1 <= b
    BY <1>5
  <2> HIDE DEF M
  <2>3. Cardinality(M) <= b - (a + 1)
    BY <1>2, <2>1, <2>2, SlotsBetween
  <2> QED
    BY <1>4, <2>3
<1>6. Ahead(gone, a) = Cardinality(A) /\ Ahead(gone, b) = Cardinality(B)
  BY DEF Ahead
<1>7. Cardinality(A) \in Nat
  BY <1>2, FS_CardinalityType
<1> HIDE DEF A, M, B
<1> QED
  BY <1>3, <1>4, <1>5, <1>6, <1>7

\* Members that change, but for their position, keep their places.
LEMMA SamePlaces ==
  ASSUME NEW S, IsFiniteSet(S), Slots(S), NEW f, DOMAIN f = S, \A x \in S : f[x].pos = x.pos
  PROVE  /\ IsFiniteSet({f[x] : x \in S}) /\ Cardinality({f[x] : x \in S}) = Cardinality(S)
         /\ Slots({f[x] : x \in S})
<1> DEFINE T == {f[x] : x \in S}
           g == [x \in S |-> f[x]]
<1>1. \A x, y \in S : f[x] = f[y] => x = y
  BY DEF Slots
<1>2. g \in Bijection(S, T)
  BY <1>1 DEF Bijection, Injection, Surjection, IsInjective
<1>3. IsFiniteSet(T) /\ Cardinality(T) = Cardinality(S)
  <2> HIDE DEF g, T
  <2> QED
    BY <1>2, FS_Bijection DEF ExistsBijection
<1>4. Slots(T)
  <2>1. \A x \in T : x.pos \in 0 .. Cardinality(T) - 1
    BY <1>3 DEF Slots
  <2>2. ASSUME NEW x \in T, NEW y \in T, x.pos = y.pos PROVE x = y
    BY <2>2 DEF Slots
  <2> QED
    BY <2>1, <2>2 DEF Slots
<1> QED
  BY <1>3, <1>4

\* Before orders the interfaces.
LEMMA BeforeOrders ==
  ASSUME NEW i \in Ifaces, NEW j \in Ifaces, NEW k \in Ifaces
  PROVE  /\ ~Before(i, i)
         /\ i # j => Before(i, j) \/ Before(j, i)
         /\ Before(i, j) /\ Before(j, k) => Before(i, k)
<1>1. /\ \A n \in DOMAIN RowOrder : n \in Int
      /\ \A n, m \in DOMAIN RowOrder : RowOrder[n] = RowOrder[m] => n = m
  BY MembersAssumption DEF IsInjective
<1>2. \A x \in Ifaces : \E n \in DOMAIN RowOrder : RowOrder[n] = x
  BY MembersAssumption DEF ToSet
<1> QED
  BY <1>1, <1>2 DEF Before

\* Who is added takes the places behind.
LEMMA AddedSlots ==
  ASSUME NEW S, MemberSet(S), Slots(S), NEW new, IsFiniteSet(new), NEW n, n = Cardinality(S), NEW k, k = Cardinality(new),
         NEW rank, \A e \in new : rank[e] \in 0 .. k - 1, \A e, f \in new : rank[e] = rank[f] => e = f,
         NEW rec, DOMAIN rec = new, \A e \in new : rec[e].pos = n + rank[e]
  PROVE  Slots(S \cup {rec[e] : e \in new})
<1> DEFINE added == {rec[e] : e \in new}
<1>1. n \in Nat /\ k \in Nat
  BY FS_CardinalityType DEF MemberSet
<1>2. \A x \in S : x.pos \in 0 .. n - 1
  BY DEF Slots
<1>3. \A x \in added : x.pos \in n .. n + k - 1
  BY <1>1
<1>4. \A e, f \in new : rec[e].pos = rec[f].pos => e = f
  BY <1>1
<1>5. \A x, y \in added : x.pos = y.pos => x = y
  BY <1>4
<1>6. IsFiniteSet(added) /\ Cardinality(added) = k
  <2> DEFINE f == [e \in new |-> rec[e]]
  <2>1. f \in Bijection(new, added)
    BY <1>4 DEF Bijection, Injection, Surjection, IsInjective
  <2> HIDE DEF f, added
  <2> QED
    BY <2>1, FS_Bijection DEF ExistsBijection
<1> HIDE DEF added
<1>7. S \cap added = {}
  BY <1>1, <1>2, <1>3
<1>8. Cardinality(S \cup added) = n + k
  <2>1. Cardinality(S \cap added) = 0
    BY <1>7, FS_EmptySet
  <2>2. Cardinality(S \cup added) = Cardinality(S) + Cardinality(added) - Cardinality(S \cap added)
    BY <1>6, FS_Union DEF MemberSet
  <2> QED
    BY <1>1, <1>6, <2>1, <2>2
<1>9. ASSUME NEW x \in S \cup added PROVE x.pos \in 0 .. n + k - 1
  BY <1>1, <1>2, <1>3
<1>10. ASSUME NEW x \in S \cup added, NEW y \in S \cup added, x.pos = y.pos PROVE x = y
  <2>1. CASE x \in S /\ y \in S
    BY <1>10, <2>1 DEF Slots
  <2>2. CASE x \in added /\ y \in added
    BY <1>5, <1>10, <2>2
  <2>3. CASE x \in S /\ y \in added
    BY <1>1, <1>2, <1>3, <1>10, <2>3
  <2>4. CASE x \in added /\ y \in S
    BY <1>1, <1>2, <1>3, <1>10, <2>4
  <2> QED
    BY <2>1, <2>2, <2>3, <2>4
<1>11. Slots(S \cup added)
  <2> DEFINE U == S \cup added
  <2>1. Cardinality(U) = n + k
    BY <1>8
  <2>2. \A x \in U : x.pos \in 0 .. n + k - 1
    BY <1>9
  <2>4. \A x, y \in U : x.pos = y.pos => x = y
    BY <1>10
  <2> HIDE DEF U
  <2>5. ASSUME NEW x \in U PROVE x.pos \in 0 .. Cardinality(U) - 1
    <3>1. x.pos \in 0 .. n + k - 1
      BY <2>2
    <3>2. x.pos \in Int /\ 0 <= x.pos /\ x.pos <= n + k - 1
      BY <1>1, <3>1
    <3>3. x.pos <= Cardinality(U) - 1 /\ Cardinality(U) - 1 \in Int
      BY <1>1, <2>1, <3>2
    <3> QED
      BY <3>2, <3>3
  <2>6. Slots(U)
    BY <2>4, <2>5, Zenon DEF Slots
  <2> QED
    BY <2>6 DEF U
<1> QED
  BY <1>11 DEF added

\* Who is new comes after those that are there, one after the other.
LEMMA WithSlots ==
  ASSUME NEW S, MemberSet(S), Slots(S), NEW new, new \subseteq Entry, IsFiniteSet(new),
         \A e, f \in new : e.iface = f.iface => e = f
  PROVE  Slots(With(S, new))
<1> DEFINE ahead(e) == {f \in new : Before(f.iface, e.iface)}
           rank(e) == Cardinality(ahead(e))
           rec(e) == [iface |-> e.iface, kind |-> e.kind, penalty |-> e.penalty, paused |-> e.paused,
                      pos |-> Cardinality(S) + rank(e)]
<1>1. With(S, new) = S \cup {rec(e) : e \in new}
  BY DEF With
<1>2. Cardinality(new) \in Nat
  BY FS_CardinalityType
<1>3. \A e \in new : IsFiniteSet(ahead(e)) /\ rank(e) \in Nat
  BY FS_Subset, FS_CardinalityType
<1>4. ASSUME NEW e \in new PROVE rank(e) < Cardinality(new)
  <2>1. e \notin ahead(e) /\ ahead(e) \subseteq new
    BY BeforeOrders DEF Entry
  <2>2. rank(e) <= Cardinality(new) /\ rank(e) # Cardinality(new)
    BY <2>1, FS_Subset
  <2>3. rank(e) \in Nat
    BY <1>3
  <2> HIDE DEF rank
  <2> QED
    BY <1>2, <2>2, <2>3
<1>5. ASSUME NEW e \in new, NEW f \in new, Before(e.iface, f.iface) PROVE rank(e) < rank(f)
  <2>1. ahead(e) \subseteq ahead(f)
    BY <1>5, BeforeOrders DEF Entry
  <2>2. e \in ahead(f) /\ e \notin ahead(e)
    BY <1>5, BeforeOrders DEF Entry
  <2>3. rank(e) <= rank(f) /\ rank(e) # rank(f)
    <3>1. ahead(e) # ahead(f) /\ ahead(e) \in SUBSET ahead(f) /\ IsFiniteSet(ahead(f))
      BY <1>3, <2>1, <2>2
    <3> HIDE DEF ahead
    <3> QED
      BY <3>1, FS_Subset
  <2> QED
    BY <1>3, <2>3
<1>6. \A e \in new : rank(e) \in Nat
  BY <1>3
<1> HIDE DEF rank
<1>7. \A e, f \in new : rank(e) = rank(f) => e = f
  <2> SUFFICES ASSUME NEW e \in new, NEW f \in new, rank(e) = rank(f) PROVE e = f
    OBVIOUS
  <2>1. ~Before(e.iface, f.iface) /\ ~Before(f.iface, e.iface)
    BY <1>5, <1>6
  <2>2. e.iface \in Ifaces /\ f.iface \in Ifaces
    BY DEF Entry
  <2>3. e.iface = f.iface
    BY <2>1, <2>2, BeforeOrders
  <2> QED
    BY <2>3
<1> DEFINE place == [e \in new |-> rank(e)]
           made == [e \in new |-> rec(e)]
<1>8. \A e \in new : place[e] \in 0 .. Cardinality(new) - 1
  BY <1>2, <1>4, <1>6
<1>9. \A e, f \in new : place[e] = place[f] => e = f
  BY <1>7
<1>10. \A e \in new : made[e].pos = Cardinality(S) + place[e]
  OBVIOUS
<1>11. {rec(e) : e \in new} = {made[e] : e \in new} /\ DOMAIN made = new
  OBVIOUS
<1> HIDE DEF made, place, rec
<1>12. Slots(S \cup {made[e] : e \in new})
  BY <1>8, <1>9, <1>10, <1>11, AddedSlots
<1> QED
  BY <1>1, <1>11, <1>12

\* Who goes: those behind move up, nobody passes anybody, and no gap is left.
LEMMA WithoutSlots ==
  ASSUME NEW S, MemberSet(S), Slots(S), NEW gone, gone \subseteq S
  PROVE  /\ Slots(Without(S, gone))
         /\ \A t \in Without(S, gone) : \E x \in S \ gone :
              t = [x EXCEPT !.pos = x.pos - Ahead(gone, x.pos)] /\ t.pos = x.pos - Ahead(gone, x.pos)
                /\ t.iface = x.iface /\ t.kind = x.kind
         /\ \A x \in S \ gone : [x EXCEPT !.pos = x.pos - Ahead(gone, x.pos)] \in Without(S, gone)
<1> DEFINE moved == [x \in S \ gone |-> [x EXCEPT !.pos = x.pos - Ahead(gone, x.pos)]]
           n == Cardinality(S)
<1>1. Without(S, gone) = {moved[x] : x \in S \ gone}
  BY DEF Without, Ahead
<1>2. IsFiniteSet(gone) /\ IsFiniteSet(S \ gone) /\ n \in Nat
  BY FS_Subset, FS_CardinalityType DEF MemberSet
<1>3. \A x \in S : x.pos \in 0 .. n - 1 /\ x.pos \in Int
  BY <1>2 DEF Slots
<1>4. \A x \in S \ gone : /\ moved[x].pos = x.pos - Ahead(gone, x.pos)
                          /\ moved[x].iface = x.iface /\ moved[x].kind = x.kind
  BY DEF MemberSet, AnyMember
<1>5. (\A g \in gone : g.pos \in Int) /\ \A g, h \in gone : g.pos = h.pos => g = h
  BY <1>3 DEF Slots
<1>6. \A x \in S \ gone : Ahead(gone, x.pos) \in Nat
  BY <1>2, AheadType
<1>7. Cardinality(gone) \in Nat /\ Cardinality(S \ gone) = n - Cardinality(gone)
  <2>1. Cardinality(S \ gone) = Cardinality(S) - Cardinality(S \cap gone)
    BY FS_Difference DEF MemberSet
  <2>2. S \cap gone = gone
    OBVIOUS
  <2> QED
    BY <1>2, <2>1, <2>2, FS_CardinalityType
<1> HIDE DEF n
<1>8. ASSUME NEW x \in S \ gone, NEW y \in S \ gone, x.pos < y.pos
      PROVE  x.pos - Ahead(gone, x.pos) < y.pos - Ahead(gone, y.pos)
  <2>1. \A g \in gone : g.pos # x.pos
    BY DEF Slots
  <2>2. x.pos \in Int /\ y.pos \in Int /\ x.pos <= y.pos
    BY <1>3, <1>8
  <2>3. Ahead(gone, y.pos) - Ahead(gone, x.pos) <= y.pos - x.pos - 1
    BY <1>2, <1>5, <1>8, <2>1, <2>2, AheadGrows
  <2> QED
    BY <1>6, <2>2, <2>3
<1>9. ASSUME NEW x \in S \ gone PROVE x.pos - Ahead(gone, x.pos) \in 0 .. Cardinality(S \ gone) - 1
  <2>1. x.pos \in Int /\ 0 <= x.pos /\ x.pos < n
    BY <1>2, <1>3
  <2>2. \A g \in gone : g.pos # x.pos
    BY DEF Slots
  <2>3. Ahead(gone, n) - Ahead(gone, x.pos) <= n - x.pos - 1
    BY <1>2, <1>5, <2>1, <2>2, AheadGrows
  <2>4. Ahead(gone, n) = Cardinality(gone)
    <3>1. {g \in gone : g.pos < n} = gone
      BY <1>2, <1>3
    <3> QED
      BY <3>1 DEF Ahead
  <2>5. Ahead(gone, 0) = 0 /\ Ahead(gone, x.pos) - Ahead(gone, 0) <= x.pos - 0
    <3>1. {g \in gone : g.pos < 0} = {}
      BY <1>2, <1>3
    <3>2. Ahead(gone, 0) = 0
      BY <3>1, FS_EmptySet DEF Ahead
    <3> QED
      BY <1>2, <1>5, <2>1, <3>2, AheadGrows
  <2> QED
    BY <1>2, <1>6, <1>7, <2>1, <2>3, <2>4, <2>5
<1>10. \A x, y \in S \ gone : moved[x].pos = moved[y].pos => x = y
  <2> SUFFICES ASSUME NEW x \in S \ gone, NEW y \in S \ gone, moved[x].pos = moved[y].pos PROVE x = y
    OBVIOUS
  <2>1. ~(x.pos < y.pos) /\ ~(y.pos < x.pos)
    BY <1>3, <1>4, <1>6, <1>8
  <2>2. x.pos = y.pos
    BY <1>3, <2>1
  <2> QED
    BY <2>2 DEF Slots
<1>11. Cardinality({moved[x] : x \in S \ gone}) = Cardinality(S \ gone)
  <2> DEFINE T == {moved[x] : x \in S \ gone}
  <2>1. moved \in Bijection(S \ gone, T)
    BY <1>10 DEF Bijection, Injection, Surjection, IsInjective
  <2> HIDE DEF moved, T
  <2>2. Cardinality(T) = Cardinality(S \ gone)
    BY <1>2, <2>1, FS_Bijection DEF ExistsBijection
  <2> QED
    BY <2>2 DEF T
<1>12. DOMAIN moved = S \ gone
  OBVIOUS
<1>13. \A x \in S \ gone : moved[x] = [x EXCEPT !.pos = x.pos - Ahead(gone, x.pos)]
  OBVIOUS
<1> HIDE DEF moved
<1>14. Slots({moved[x] : x \in S \ gone})
  <2> DEFINE T == {moved[x] : x \in S \ gone}
  <2>1. \A t \in T : t.pos \in 0 .. Cardinality(T) - 1
    BY <1>4, <1>9, <1>11
  <2>2. \A t, u \in T : t.pos = u.pos => t = u
    BY <1>10
  <2> HIDE DEF T
  <2>3. Slots(T)
    BY <2>1, <2>2, Zenon DEF Slots
  <2> QED
    BY <2>3 DEF T
<1>15. Slots(Without(S, gone))
  BY <1>1, <1>14, Zenon
<1>16. \A x \in S \ gone : [x EXCEPT !.pos = x.pos - Ahead(gone, x.pos)] \in Without(S, gone)
  BY <1>1, <1>13
<1>17. ASSUME NEW t \in Without(S, gone)
       PROVE  \E x \in S \ gone :
                t = [x EXCEPT !.pos = x.pos - Ahead(gone, x.pos)] /\ t.pos = x.pos - Ahead(gone, x.pos)
                  /\ t.iface = x.iface /\ t.kind = x.kind
  <2>1. PICK x \in S \ gone : t = moved[x]
    BY <1>1
  <2>2. t = [x EXCEPT !.pos = x.pos - Ahead(gone, x.pos)]
    BY <1>13, <2>1, Zenon
  <2>3. t.pos = x.pos - Ahead(gone, x.pos) /\ t.iface = x.iface /\ t.kind = x.kind
    BY <1>4, <2>1, Zenon
  <2> QED
    BY <2>2, <2>3
<1> QED
  BY <1>15, <1>16, <1>17

-----------------------------------------------------------------------------
(* Who is next in the round.                                               *)

\* calc_metric, of a position
Met(p, r) == IF p < r THEN 1000 + p ELSE p

First(S, r) == {x \in S : \A y \in S : Met(x.pos, r) <= Met(y.pos, r)}

\* If others go, and the place in the round moves with them, the first stays the first.
LEMMA WithoutKeepsFirst ==
  ASSUME NEW S, MemberSet(S), Slots(S), Cardinality(S) <= 1000, NEW gone, gone \subseteq S,
         NEW r \in Int, NEW x \in First(S, r), x \notin gone
  PROVE  \E t \in First(Without(S, gone), r - Ahead(gone, r)) : t.iface = x.iface /\ t.kind = x.kind
<1> DEFINE at(y) == y.pos - Ahead(gone, y.pos)
           T == Without(S, gone)
           s == r - Ahead(gone, r)
           n == Cardinality(S)
           z == [x EXCEPT !.pos = at(x)]
<1>1. x \in S \ gone /\ \A y \in S : Met(x.pos, r) <= Met(y.pos, r)
  BY DEF First
<1>2. z \in T /\ z.iface = x.iface /\ z.kind = x.kind /\ z.pos = at(x)
  <2>1. z \in T
    BY <1>1, WithoutSlots
  <2>2. z.iface = x.iface /\ z.kind = x.kind /\ z.pos = at(x)
    BY <1>1 DEF MemberSet, AnyMember
  <2> QED
    BY <2>1, <2>2
<1>3. IsFiniteSet(gone) /\ n \in Nat
  BY FS_Subset, FS_CardinalityType DEF MemberSet
<1>4. \A y \in S : y.pos \in 0 .. n - 1 /\ y.pos \in Int
  BY <1>3 DEF Slots
<1> HIDE DEF n
<1>5. \A y \in S : y.pos \in Int /\ 0 <= y.pos /\ y.pos < 1000
  BY <1>3, <1>4 DEF n
<1>6. (\A g \in gone : g.pos \in Int) /\ \A g, h \in gone : g.pos = h.pos => g = h
  BY <1>4 DEF Slots
<1>7. \A y \in S \ gone : Ahead(gone, y.pos) \in Nat /\ \A g \in gone : g.pos # y.pos
  <2>1. \A y \in S \ gone : Ahead(gone, y.pos) \in Nat
    BY <1>3, AheadType
  <2>2. \A y \in S \ gone : \A g \in gone : g.pos # y.pos
    BY DEF Slots
  <2> QED
    BY <2>1, <2>2
<1>8. Ahead(gone, r) \in Nat /\ s \in Int
  BY <1>3, AheadType
\* On which side of the place a member stands does not change.
<1>9. ASSUME NEW y \in S \ gone PROVE (y.pos < r) = (at(y) < s)
  <2>1. CASE y.pos < r
    <3>1. Ahead(gone, r) - Ahead(gone, y.pos) <= r - y.pos - 1
      <4>1. y.pos \in Int /\ y.pos <= r
        BY <1>5, <2>1
      <4> QED
        BY <1>3, <1>6, <1>7, <2>1, <4>1, AheadGrows
    <3> QED
      BY <1>5, <1>7, <1>8, <2>1, <3>1
  <2>2. CASE ~(y.pos < r)
    <3>1. Ahead(gone, y.pos) - Ahead(gone, r) <= y.pos - r
      <4>1. y.pos \in Int /\ r <= y.pos
        BY <1>5, <2>2
      <4> QED
        BY <1>3, <1>6, <4>1, AheadGrows
    <3> QED
      BY <1>5, <1>7, <1>8, <2>2, <3>1
  <2> QED
    BY <2>1, <2>2
\* Nor does who stands before whom.
<1>10. ASSUME NEW y \in S \ gone, x.pos <= y.pos PROVE at(x) <= at(y)
  <2>1. x.pos \in Int /\ y.pos \in Int
    BY <1>1, <1>5
  <2>2. Ahead(gone, y.pos) - Ahead(gone, x.pos) <= y.pos - x.pos
    BY <1>3, <1>6, <1>10, <2>1, AheadGrows
  <2> QED
    BY <1>1, <1>7, <2>1, <2>2
<1>11. \A y \in S \ gone : at(y) \in Int /\ 0 <= at(y) /\ at(y) < 1000
  <2> SUFFICES ASSUME NEW y \in S \ gone PROVE at(y) \in Int /\ 0 <= at(y) /\ at(y) < 1000
    OBVIOUS
  <2>1. y.pos \in Int /\ 0 <= y.pos /\ y.pos < 1000 /\ Ahead(gone, y.pos) \in Nat
    BY <1>5, <1>7
  <2>2. Ahead(gone, y.pos) - Ahead(gone, 0) <= y.pos - 0
    BY <1>3, <1>6, <2>1, AheadGrows
  <2>3. Ahead(gone, 0) = 0
    <3>1. {g \in gone : g.pos < 0} = {}
      BY <1>5
    <3> QED
      BY <3>1, FS_EmptySet DEF Ahead
  <2> QED
    BY <2>1, <2>2, <2>3
<1>12. ASSUME NEW y \in S \ gone PROVE Met(at(x), s) <= Met(at(y), s)
  <2>1. Met(x.pos, r) <= Met(y.pos, r)
    BY <1>1
  <2>2. x.pos \in Int /\ y.pos \in Int /\ 0 <= x.pos /\ y.pos < 1000
    BY <1>1, <1>5
  <2>3. at(x) \in Int /\ at(y) \in Int /\ 0 <= at(y) /\ at(x) < 1000
    BY <1>1, <1>11
  <2>4. (x.pos < r) = (at(x) < s) /\ (y.pos < r) = (at(y) < s)
    BY <1>1, <1>9
  <2> HIDE DEF at, s
  <2>5. CASE x.pos < r /\ ~(y.pos < r)
    BY <2>1, <2>2, <2>5 DEF Met
  <2>6. CASE ~(x.pos < r) /\ y.pos < r
    BY <2>3, <2>4, <2>6 DEF Met
  <2>7. CASE (x.pos < r) = (y.pos < r)
    <3>1. x.pos <= y.pos
      BY <2>1, <2>2, <2>7 DEF Met
    <3>2. at(x) <= at(y)
      BY <1>10, <3>1
    <3>3. (at(x) < s) = (at(y) < s)
      BY <2>4, <2>7
    <3> QED
      BY <2>3, <3>2, <3>3 DEF Met
  <2> QED
    BY <2>5, <2>6, <2>7
<1>13. ASSUME NEW u \in T PROVE Met(z.pos, s) <= Met(u.pos, s)
  <2>1. PICK y \in S \ gone : u.pos = at(y)
    BY WithoutSlots
  <2> HIDE DEF at, s, z, T
  <2> QED
    BY <1>2, <1>12, <2>1
<1> HIDE DEF s, T, z
<1>14. z \in First(T, s)
  BY <1>2, <1>13 DEF First
<1> QED
  BY <1>2, <1>14 DEF T, s

-----------------------------------------------------------------------------
(* What is in a queue only once.                                           *)

Distinct(S) == \A x, y \in S : x.iface = y.iface => x = y

\* A realtime or dynamic member has its interface for itself, among those of its kind.
Once(S) == \A x, y \in S : x.kind # "static" /\ x.kind = y.kind /\ x.iface = y.iface => x = y

Placed(S) == MemberSet(S) /\ Slots(S) /\ Once(S)

\* None of new is of a kind and an interface that S has.
Unknown(new, S) == \A e \in new : e.kind # "static" => \A x \in S : ~(x.kind = e.kind /\ x.iface = e.iface)

LEMMA WithPlaced ==
  ASSUME NEW S, Placed(S), NEW new, new \subseteq Entry, IsFiniteSet(new), Distinct(new), Unknown(new, S)
  PROVE  Placed(With(S, new))
<1>1. MemberSet(With(S, new))
  BY WithProperties DEF Placed
<1>2. Slots(With(S, new))
  BY WithSlots DEF Placed, Distinct
<1>3. Once(With(S, new))
  <2> DEFINE place(e) == Cardinality(S) + Cardinality({f \in new : Before(f.iface, e.iface)})
             rec(e) == [iface |-> e.iface, kind |-> e.kind, penalty |-> e.penalty, paused |-> e.paused,
                        pos |-> place(e)]
             added == {rec(e) : e \in new}
  <2>1. With(S, new) = S \cup added
    BY DEF With
  <2>2. \A x \in added : \E e \in new : x = rec(e) /\ x.kind = e.kind /\ x.iface = e.iface
    OBVIOUS
  <2> HIDE DEF rec, added
  <2>3. \A x, y \in added : x.iface = y.iface => x = y
    BY <2>2 DEF Distinct
  <2>4. \A x \in added : x.kind # "static" => \A y \in S : ~(y.kind = x.kind /\ y.iface = x.iface)
    BY <2>2 DEF Unknown
  <2> SUFFICES ASSUME NEW x \in S \cup added, NEW y \in S \cup added,
                      x.kind # "static", x.kind = y.kind, x.iface = y.iface
               PROVE  x = y
    BY <2>1 DEF Once
  <2>5. CASE x \in S /\ y \in S
    BY <2>5 DEF Placed, Once
  <2>6. CASE x \in added /\ y \in added
    BY <2>3, <2>6
  <2>7. CASE (x \in S /\ y \in added) \/ (x \in added /\ y \in S)
    BY <2>4, <2>7
  <2> QED
    BY <2>5, <2>6, <2>7
<1> QED
  BY <1>1, <1>2, <1>3 DEF Placed

LEMMA WithoutPlaced ==
  ASSUME NEW S, Placed(S), NEW gone, gone \subseteq S
  PROVE  Placed(Without(S, gone))
<1>1. MemberSet(Without(S, gone)) /\ Slots(Without(S, gone))
  BY WithoutProperties, WithoutSlots DEF Placed
<1>2. ASSUME NEW t \in Without(S, gone), NEW u \in Without(S, gone),
             t.kind # "static", t.kind = u.kind, t.iface = u.iface
      PROVE  t = u
  <2>1. PICK x \in S \ gone : /\ t = [x EXCEPT !.pos = x.pos - Ahead(gone, x.pos)]
                              /\ t.iface = x.iface /\ t.kind = x.kind
    BY WithoutSlots DEF Placed
  <2>2. PICK y \in S \ gone : /\ u = [y EXCEPT !.pos = y.pos - Ahead(gone, y.pos)]
                              /\ u.iface = y.iface /\ u.kind = y.kind
    BY WithoutSlots DEF Placed
  <2>3. x = y
    BY <1>2, <2>1, <2>2 DEF Placed, Once
  <2> QED
    BY <2>1, <2>2, <2>3
<1> QED
  BY <1>1, <1>2 DEF Placed, Once

\* f gives every member of S as it is after a change: in its place, of its interface.
Changes(f, S) ==
  /\ DOMAIN f = S
  /\ \A x \in S : /\ f[x] \in AnyMember
                  /\ f[x].pos = x.pos /\ f[x].iface = x.iface
                  /\ f[x].kind # "static" => f[x].kind = x.kind

LEMMA ChangedPlaced ==
  ASSUME NEW S, Placed(S), NEW f, Changes(f, S)
  PROVE  Placed({f[x] : x \in S}) /\ Cardinality({f[x] : x \in S}) = Cardinality(S)
<1> DEFINE T == {f[x] : x \in S}
<1>1. IsFiniteSet(T) /\ Cardinality(T) = Cardinality(S) /\ Slots(T)
  BY SamePlaces DEF Placed, MemberSet, Changes
<1>2. T \subseteq AnyMember
  BY DEF Changes
<1>3. ASSUME NEW t \in T, NEW u \in T, t.kind # "static", t.kind = u.kind, t.iface = u.iface
      PROVE  t = u
  <2>1. PICK x \in S : t = f[x]
    OBVIOUS
  <2>2. PICK y \in S : u = f[y]
    OBVIOUS
  <2> HIDE DEF T
  <2>3. x.kind = t.kind /\ y.kind = u.kind /\ x.iface = t.iface /\ y.iface = u.iface
    BY <1>3, <2>1, <2>2 DEF Changes
  <2>4. x = y
    BY <1>3, <2>3 DEF Placed, Once
  <2> QED
    BY <2>1, <2>2, <2>4
<1> HIDE DEF T
<1>4. Placed(T)
  BY <1>1, <1>2, <1>3 DEF Placed, MemberSet, Once
<1> QED
  BY <1>1, <1>4 DEF T

-----------------------------------------------------------------------------
(* The operations on a whole queue.                                        *)

\* rt_handle_member_record leaves every member its place, its interface and its kind, and adds
\* realtime members of other interfaces, whose rows are valid.
HandledAs(S, R, f, new) ==
  /\ Changes(f, S) /\ \A x \in S : f[x].kind = x.kind
  /\ new \subseteq Entry /\ IsFiniteSet(new) /\ Distinct(new) /\ Unknown(new, S)
  /\ \A e \in new : e.kind = "realtime" /\ \E r \in R : r.iface = e.iface /\ Valid(r)
  /\ HandledAll(S, R) = With({f[x] : x \in S}, new)

LEMMA HandledForm ==
  ASSUME NEW S, Placed(S), NEW R, Rows(R), Distinct(R)
  PROVE  \E f, new : HandledAs(S, R, f, new)
<1> DEFINE valid == {r \in R : Valid(r)}
           of(x) == {r \in valid : x.kind = "realtime" /\ r.iface = x.iface}
           after(x) == LET r == CHOOSE r \in of(x) : TRUE
                       IN  [x EXCEPT !.penalty = Penalty(r), !.paused = r.paused]
           known == {x \in S : of(x) # {}}
           kept == (S \ known) \cup {after(x) : x \in known}
           fresh == {r \in valid : \A x \in S : r \notin of(x)}
           entry(r) == New(r.iface, "realtime", Penalty(r), r.paused)
           new == {entry(r) : r \in fresh}
           f == [x \in S |-> IF x \in known THEN after(x) ELSE x]
<1>1. HandledAll(S, R) = With(kept, new)
  BY DEF HandledAll
<1>2. \A r \in R : r.iface \in Ifaces /\ Penalty(r) \in Nat /\ r.paused \in BOOLEAN
  <2> SUFFICES ASSUME NEW r \in R
               PROVE  r.iface \in Ifaces /\ Penalty(r) \in Nat /\ r.paused \in BOOLEAN
    OBVIOUS
  <2>1. r.iface \in Ifaces /\ r.penalty \in Penalties \cup {-1} /\ r.paused \in BOOLEAN
    BY DEF Rows, Row
  <2>2. r.penalty \in Nat \/ r.penalty = -1
    BY <2>1, PenaltiesAreNumbers
  <2>3. Penalty(r) \in Nat
    BY <2>2 DEF Penalty
  <2> QED
    BY <2>1, <2>3
<1>3. \A e \in new : \E r \in fresh : e = entry(r) /\ e \in Entry /\ e.kind = "realtime" /\ e.iface = r.iface
  BY <1>2 DEF Entry, New, Kinds
<1>4. IsFiniteSet(new)
  <2>1. IsFiniteSet(fresh)
    BY FS_Subset DEF Rows
  <2> DEFINE g == [r \in fresh |-> entry(r)]
  <2>2. new = {g[r] : r \in fresh}
    OBVIOUS
  <2> HIDE DEF g, new, fresh
  <2> QED
    BY <2>1, <2>2, ImageFinite
<1>5. ASSUME NEW x \in known
      PROVE  after(x) \in AnyMember /\ after(x).pos = x.pos /\ after(x).iface = x.iface /\ after(x).kind = x.kind
  <2> DEFINE r == CHOOSE r \in of(x) : TRUE
  <2>1. r \in of(x)
    OBVIOUS
  <2>2. r \in R
    BY <2>1
  <2> HIDE DEF r
  <2>3. x \in AnyMember /\ Penalty(r) \in Nat /\ r.paused \in BOOLEAN
    BY <1>2, <2>2 DEF Placed, MemberSet
  <2> DEFINE y == [x EXCEPT !.penalty = Penalty(r), !.paused = r.paused]
  <2>4. y \in AnyMember
    BY <2>3 DEF AnyMember
  <2>5. y.kind = x.kind /\ y.iface = x.iface /\ y.pos = x.pos
    BY <2>3 DEF AnyMember
  <2> QED
    BY <2>4, <2>5 DEF r
<1>6. Distinct(new)
  BY <1>3 DEF Distinct, Rows
<1>7. Unknown(new, S)
  <2> SUFFICES ASSUME NEW e \in new, NEW x \in S, x.kind = e.kind, x.iface = e.iface PROVE FALSE
    BY DEF Unknown
  <2>1. PICK r \in fresh : e.kind = "realtime" /\ e.iface = r.iface
    BY <1>3
  <2>2. r \in of(x)
    BY <2>1
  <2> QED
    BY <2>1, <2>2
<1>8. \A e \in new : e.kind = "realtime" /\ \E r \in R : r.iface = e.iface /\ Valid(r)
  BY <1>3
<1> HIDE DEF after, new
<1>9. kept = {f[x] : x \in S}
  <2>1. kept \subseteq {f[x] : x \in S}
    <3>1. \A x \in S \ known : f[x] = x
      OBVIOUS
    <3>2. \A x \in known : x \in S /\ f[x] = after(x)
      OBVIOUS
    <3> HIDE DEF f, known
    <3> QED
      BY <3>1, <3>2
  <2>2. {f[x] : x \in S} \subseteq kept
    <3>1. \A x \in S : (x \in known /\ f[x] = after(x)) \/ (x \notin known /\ f[x] = x)
      OBVIOUS
    <3> HIDE DEF f, known
    <3> QED
      BY <3>1
  <2> QED
    BY <2>1, <2>2
<1> HIDE DEF known
<1>10. \A x \in S : f[x] \in AnyMember /\ f[x].pos = x.pos /\ f[x].iface = x.iface /\ f[x].kind = x.kind
  BY <1>5 DEF Placed, MemberSet
<1>11. Changes(f, S)
  BY <1>10 DEF Changes
<1>12. new \subseteq Entry
  BY <1>3
<1>13. HandledAll(S, R) = With({f[x] : x \in S}, new)
  BY <1>1, <1>9
<1> HIDE DEF f
<1>14. HandledAs(S, R, f, new)
  BY <1>4, <1>6, <1>7, <1>8, <1>10, <1>11, <1>12, <1>13, Zenon DEF HandledAs
<1> QED
  BY <1>14

LEMMA HandledPlaced ==
  ASSUME NEW S, Placed(S), NEW R, Rows(R), Distinct(R)
  PROVE  Placed(HandledAll(S, R))
<1>0. PICK f, new : HandledAs(S, R, f, new)
  BY HandledForm
<1>1. /\ Changes(f, S) /\ \A x \in S : f[x].kind = x.kind
      /\ new \subseteq Entry /\ IsFiniteSet(new) /\ Distinct(new) /\ Unknown(new, S)
      /\ HandledAll(S, R) = With({f[x] : x \in S}, new)
  BY <1>0 DEF HandledAs
<1> DEFINE T == {f[x] : x \in S}
<1>2. Placed(T)
  BY <1>1, ChangedPlaced
<1>3. Unknown(new, T)
  BY <1>1 DEF Unknown, Changes
<1> HIDE DEF T
<1>4. Placed(With(T, new))
  BY <1>1, <1>2, <1>3, WithPlaced
<1> QED
  BY <1>1, <1>4 DEF T

LEMMA RefreshedPlaced ==
  ASSUME NEW S, Placed(S), NEW R, Rows(R), Distinct(R)
  PROVE  Placed(Refreshed(S, R))
<1> DEFINE all == HandledAll(S, R)
<1>1. Placed(all) /\ Dead(all, R) \subseteq all
  BY HandledPlaced DEF Dead
<1>2. Refreshed(S, R) = Without(all, Dead(all, R))
  BY DEF Refreshed
<1> HIDE DEF all
<1> QED
  BY <1>1, <1>2, WithoutPlaced

\* reload_single_queue makes members static, adds static ones and removes some.
LEMMA ReloadedPlaced ==
  ASSUME NEW S, Placed(S), NEW lines, DOMAIN lines \subseteq Ifaces,
         \A i \in DOMAIN lines : lines[i] \in Nat
  PROVE  Placed(ReloadedMembers(S, lines))
<1> DEFINE found == {x \in S : x.iface \in DOMAIN lines /\ x = CHOOSE y \in Named(S, x.iface) : TRUE}
           after(x) == [x EXCEPT !.kind = "static", !.penalty = lines[x.iface]]
           kept == (S \ found) \cup {after(x) : x \in found}
           fresh == {j \in DOMAIN lines : Named(S, j) = {}}
           entry(i) == New(i, "static", lines[i], FALSE)
           new == {entry(i) : i \in fresh}
           all == With(kept, new)
           f == [x \in S |-> IF x \in found THEN after(x) ELSE x]
<1>1. Listed(S, lines) = all
  BY DEF Listed
<1>2. \A i \in fresh : entry(i) \in Entry /\ entry(i).kind = "static" /\ entry(i).iface = i
  <2>1. \A i \in fresh : i \in Ifaces /\ lines[i] \in Nat
    OBVIOUS
  <2> HIDE DEF fresh
  <2> QED
    BY <2>1 DEF Entry, New, Kinds
<1>3. IsFiniteSet(new)
  <2>1. IsFiniteSet(fresh)
    BY IfacesFinite, FS_Subset
  <2> DEFINE g == [i \in fresh |-> entry(i)]
  <2>2. new = {g[i] : i \in fresh}
    OBVIOUS
  <2> HIDE DEF g, new, fresh
  <2> QED
    BY <2>1, <2>2, ImageFinite
<1>4. \A x \in found : /\ x \in S /\ after(x) \in AnyMember /\ after(x).kind = "static"
                       /\ after(x).pos = x.pos /\ after(x).iface = x.iface
  BY DEF Placed, MemberSet, AnyMember, Kinds
<1>5. \A e \in new : \E i \in fresh : e = entry(i)
  OBVIOUS
<1> HIDE DEF after, fresh, entry, new
<1>6. new \subseteq Entry /\ Distinct(new) /\ \A T : Unknown(new, T)
  BY <1>2, <1>5 DEF Distinct, Unknown
<1>7. kept = {f[x] : x \in S}
  <2>1. kept \subseteq {f[x] : x \in S}
    <3>1. \A x \in S \ found : f[x] = x
      OBVIOUS
    <3>2. \A x \in found : x \in S /\ f[x] = after(x)
      OBVIOUS
    <3> HIDE DEF f, found
    <3> QED
      BY <3>1, <3>2
  <2>2. {f[x] : x \in S} \subseteq kept
    <3>1. \A x \in S : (x \in found /\ f[x] = after(x)) \/ (x \notin found /\ f[x] = x)
      OBVIOUS
    <3> HIDE DEF f, found
    <3> QED
      BY <3>1
  <2> QED
    BY <2>1, <2>2
<1> HIDE DEF found
<1>8. Changes(f, S)
  <2>1. \A x \in S : /\ f[x] \in AnyMember /\ f[x].pos = x.pos /\ f[x].iface = x.iface
                     /\ f[x].kind # "static" => f[x].kind = x.kind
    BY <1>4 DEF Placed, MemberSet
  <2> QED
    BY <2>1 DEF Changes
<1> HIDE DEF f
<1>9. Placed(kept)
  BY <1>7, <1>8, ChangedPlaced
<1> HIDE DEF kept
<1>10. Placed(all)
  BY <1>3, <1>6, <1>9, WithPlaced
<1> DEFINE gone == {x \in all : x.kind = "static" /\ x.iface \notin DOMAIN lines}
<1>11. ReloadedMembers(S, lines) = Without(all, gone)
  BY <1>1 DEF ReloadedMembers
<1>12. gone \subseteq all
  OBVIOUS
<1> HIDE DEF all, gone
<1> QED
  BY <1>10, <1>11, <1>12, WithoutPlaced

LEMMA RestoredPlaced ==
  ASSUME NEW S, Placed(S), NEW stored, stored \subseteq Listing, IsFiniteSet(stored), Distinct(stored)
  PROVE  Placed(Restored(S, stored))
<1> DEFINE fresh == {f \in stored : Named(S, f.iface) = {}}
           entry(e) == New(e.iface, "dynamic", e.penalty, e.paused)
           new == {entry(e) : e \in fresh}
<1>1. Restored(S, stored) = With(S, new)
  BY DEF Restored
<1>2. \A e \in new : \E r \in fresh : e = entry(r) /\ e \in Entry /\ e.iface = r.iface
  BY DEF Entry, New, Kinds, Listing
<1>3. IsFiniteSet(new)
  <2>1. IsFiniteSet(fresh)
    BY FS_Subset
  <2> DEFINE g == [e \in fresh |-> entry(e)]
  <2>2. new = {g[e] : e \in fresh}
    OBVIOUS
  <2> HIDE DEF g, new, fresh
  <2> QED
    BY <2>1, <2>2, ImageFinite
<1> HIDE DEF new
<1>4. Distinct(new)
  BY <1>2 DEF Distinct
<1>5. Unknown(new, S)
  BY <1>2 DEF Unknown, Named
<1>6. new \subseteq Entry
  BY <1>2
<1> QED
  BY <1>1, <1>3, <1>4, <1>5, <1>6, WithPlaced

\* What is stored of a queue has every interface once.
LEMMA DumpDistinct ==
  ASSUME NEW S, Placed(S)
  PROVE  Distinct(Dump(S))
<1>1. \A e \in Dump(S) : \E x \in S : /\ x.kind = "dynamic" /\ e.iface = x.iface
                                      /\ e = [iface |-> x.iface, penalty |-> x.penalty, paused |-> x.paused]
  BY DEF Dump, Stored
<1> SUFFICES ASSUME NEW e \in Dump(S), NEW d \in Dump(S), e.iface = d.iface PROVE e = d
  BY DEF Distinct
<1>2. PICK x \in S : /\ x.kind = "dynamic" /\ e.iface = x.iface
                     /\ e = [iface |-> x.iface, penalty |-> x.penalty, paused |-> x.paused]
  BY <1>1
<1>3. PICK y \in S : /\ y.kind = "dynamic" /\ d.iface = y.iface
                     /\ d = [iface |-> y.iface, penalty |-> y.penalty, paused |-> y.paused]
  BY <1>1
<1>4. x = y
  BY <1>2, <1>3 DEF Placed, Once
<1> QED
  BY <1>2, <1>3, <1>4

-----------------------------------------------------------------------------
(* The places, at every step.                                              *)

MembersPlaced == \A q \in Queues : Placed(members[q])
RowsDistinct  == \A q \in Queues : Distinct(rows[q])
AstdbDistinct == \A q \in Queues : Distinct(astdb[q])
LoadDistinct  == load = NoLoad \/ Distinct(load.rows)
RrposOK       == rrpos \in [Queues -> Int]
RingOK        == ring = NoRing \/ ring \in [queue : Queues, metrics : SUBSET Nat]

PlacesInv == MembersPlaced /\ RowsDistinct /\ AstdbDistinct /\ LoadDistinct /\ RrposOK /\ RingOK

LEMMA NonePlaced == Placed({}) /\ Distinct({}) /\ Rows({})
BY FS_EmptySet DEF Placed, MemberSet, Slots, Once, Distinct, Rows

LEMMA QueuePlaced ==
  ASSUME MembersOK, AstdbOK, MembersPlaced, AstdbDistinct, NEW q \in Queues, NEW T, Placed(T),
         members' = [members EXCEPT ![q] = T],
         \/ UNCHANGED astdb
         \/ astdb' = IF Persistent THEN Dumped(q, T) ELSE astdb
  PROVE  MembersPlaced' /\ AstdbDistinct'
<1>1. MembersPlaced'
  BY DEF MembersPlaced, MembersOK
<1>2. astdb' = astdb \/ astdb' = [astdb EXCEPT ![q] = Dump(T)]
  BY DEF Dumped, Dump
<1>3. Distinct(Dump(T))
  BY DumpDistinct
<1>4. AstdbDistinct'
  BY <1>2, <1>3 DEF AstdbDistinct, AstdbOK
<1> QED
  BY <1>1, <1>4

LEMMA RowSetDistinct ==
  ASSUME RowsOK, RowsDistinct, NEW q \in Queues, NEW i, NEW r, r.iface = i, rows' = RowSet(q, i, r)
  PROVE  RowsDistinct'
<1> DEFINE others == {x \in rows[q] : x.iface # i}
<1>1. Distinct(others \cup {r})
  BY DEF Distinct, RowsDistinct
<1>2. rows' = [rows EXCEPT ![q] = others \cup {r}]
  BY DEF RowSet
<1> HIDE DEF others
<1> QED
  BY <1>1, <1>2 DEF RowsOK, RowsDistinct

LEMMA RrposMoves ==
  ASSUME RrposOK, NEW q \in Queues, NEW gone, IsFiniteSet(gone), rrpos' = RrposWithout(q, gone)
  PROVE  RrposOK'
<1>1. Ahead(gone, rrpos[q]) \in Nat
  BY AheadType
<1>2. rrpos' = [rrpos EXCEPT ![q] = rrpos[q] - Ahead(gone, rrpos[q])]
  BY DEF RrposWithout, Ahead
<1>3. rrpos[q] - Ahead(gone, rrpos[q]) \in Int
  BY <1>1 DEF RrposOK
<1> QED
  BY <1>2, <1>3 DEF RrposOK

LEMMA SmallestIn ==
  ASSUME NEW N, N \subseteq Nat, N # {}
  PROVE  Smallest(N) \in N
BY LeastNat DEF Smallest

LEMMA ApplyPlaces ==
  ASSUME Inv, PlacesInv, Apply
  PROVE  PlacesInv'
<1> DEFINE q == load.queue
<1>1. load.step = "apply"
  BY DEF Apply
<1>2. load \in Reading /\ Rows(load.rows) /\ Distinct(load.rows)
  BY <1>1 DEF Inv, TypeInv, LoadOK, NoLoad, Reading, Rows, PlacesInv, LoadDistinct
<1>3. q \in Queues
  BY <1>2 DEF Reading
<1>4. UNCHANGED <<rows, astdb, ring>> /\ load' = NoLoad
  BY DEF Apply, db
<1>5. MembersOK /\ AstdbOK /\ Placed(members[q])
  BY <1>3 DEF Inv, TypeInv, PlacesInv, MembersPlaced
<1>6. MembersPlaced' /\ AstdbDistinct' /\ RrposOK'
  <2>1. CASE UNCHANGED core
    BY <1>4, <2>1 DEF core, PlacesInv, MembersPlaced, AstdbDistinct, RrposOK
  <2>2. CASE Unlink(q)
    <3>1. members' = [members EXCEPT ![q] = {}] /\ rrpos' = [rrpos EXCEPT ![q] = 0]
      BY <2>2 DEF Unlink
    <3>2. RrposOK'
      <4>1. rrpos \in [Queues -> Int] /\ 0 \in Int
        BY DEF PlacesInv, RrposOK
      <4>2. rrpos' \in [Queues -> Int]
        BY <3>1, <4>1
      <4> QED
        BY <4>2 DEF RrposOK
    <3> QED
      BY <1>3, <1>4, <1>5, <3>1, <3>2, NonePlaced, QueuePlaced DEF PlacesInv
  <2>3. CASE Refresh(q, load.rows)
    <3> DEFINE all == HandledAll(members[q], load.rows)
               gone == Dead(all, load.rows)
    <3>1. Placed(Refreshed(members[q], load.rows)) /\ Placed(all)
      BY <1>2, <1>5, RefreshedPlaced, HandledPlaced
    <3>2. members' = [members EXCEPT ![q] = Refreshed(members[q], load.rows)] /\ rrpos' = RrposWithout(q, gone)
      BY <2>3 DEF Refresh
    <3>3. IsFiniteSet(gone)
      BY <3>1, FS_Subset DEF Dead, Placed, MemberSet
    <3> HIDE DEF gone
    <3>4. RrposOK'
      BY <1>3, <3>2, <3>3, RrposMoves DEF PlacesInv
    <3> QED
      BY <1>3, <1>4, <1>5, <3>1, <3>2, <3>4, QueuePlaced DEF PlacesInv
  <2> QED
    BY <2>1, <2>2, <2>3 DEF Apply
<1> QED
  BY <1>4, <1>6 DEF PlacesInv, RowsDistinct, LoadDistinct, RingOK

LEMMA ChangesPlaces ==
  ASSUME Inv, PlacesInv, NEW q \in Queues,
         \/ \E i \in Ifaces, p \in Penalties, b \in BOOLEAN : AddQueueMember(q, i, p, b)
         \/ \E x \in members[q] : \/ RemoveQueueMember(q, x)
                                  \/ \E b \in BOOLEAN : Pause(q, x, b)
                                  \/ \E p \in Penalties : SetPenalty(q, x, p)
  PROVE  PlacesInv'
<1>1. MembersOK /\ AstdbOK /\ RowsOK /\ Placed(members[q]) /\ PlacesInv
  BY DEF Inv, TypeInv, PlacesInv, MembersPlaced
<1>2. ASSUME NEW i \in Ifaces, NEW p \in Penalties, NEW b \in BOOLEAN, AddQueueMember(q, i, p, b)
      PROVE  PlacesInv'
  <2> DEFINE new == {New(i, "dynamic", p, b)}
             T == With(members[q], new)
  <2>1. new \subseteq Entry /\ IsFiniteSet(new)
    <3>1. p \in Nat
      BY PenaltiesAreNumbers
    <3>2. New(i, "dynamic", p, b) \in Entry
      BY <3>1 DEF New, Entry, Kinds
    <3> QED
      BY <3>2, FS_Singleton
  <2>2. Distinct(new) /\ Unknown(new, members[q])
    BY <1>2 DEF Distinct, Unknown, AddQueueMember, Named, New
  <2>3. members' = [members EXCEPT ![q] = T] /\ UNCHANGED <<rows, rrpos, load, ring>>
    BY <1>2 DEF AddQueueMember, db
  <2> HIDE DEF new
  <2>4. Placed(T)
    BY <1>1, <2>1, <2>2, WithPlaced
  <2> HIDE DEF T
  <2>5. members'[q] = T
    BY <1>1, <2>3 DEF MembersOK
  <2>6. astdb' = IF Persistent THEN Dumped(q, T) ELSE astdb
    BY <1>2, <2>5 DEF AddQueueMember
  <2>7. MembersPlaced' /\ AstdbDistinct'
    BY <1>1, <2>3, <2>4, <2>6, QueuePlaced DEF PlacesInv
  <2> QED
    BY <2>3, <2>7 DEF PlacesInv, RowsDistinct, LoadDistinct, RrposOK, RingOK
<1>3. ASSUME NEW x \in members[q], RemoveQueueMember(q, x)
      PROVE  PlacesInv'
  <2> DEFINE T == Without(members[q], {x})
  <2>1. Placed(T)
    BY <1>1, WithoutPlaced
  <2>2. members' = [members EXCEPT ![q] = T] /\ UNCHANGED <<load, ring>> /\ rrpos' = RrposWithout(q, {x})
    BY <1>3 DEF RemoveQueueMember
  <2> HIDE DEF T
  <2>3. members'[q] = T
    BY <1>1, <2>2 DEF MembersOK
  <2>4. astdb' = IF Persistent THEN Dumped(q, T) ELSE astdb
    BY <1>3, <2>3 DEF RemoveQueueMember
  <2>5. MembersPlaced' /\ AstdbDistinct'
    BY <1>1, <2>1, <2>2, <2>4, QueuePlaced DEF PlacesInv
  <2>6. RrposOK'
    BY <2>2, FS_Singleton, RrposMoves DEF PlacesInv
  <2>7. RowsDistinct'
    <3>1. CASE UNCHANGED rows
      BY <3>1 DEF PlacesInv, RowsDistinct
    <3>2. CASE Changeable(q, x) /\ rows' = RowSet(q, x.iface, [RowOf(q, x.iface) EXCEPT !.penalty = -1])
      <4>1. RowOf(q, x.iface) \in rows[q] /\ RowOf(q, x.iface).iface = x.iface
        BY <3>2 DEF Changeable, RowOf
      <4>2. [RowOf(q, x.iface) EXCEPT !.penalty = -1].iface = x.iface
        BY <1>1, <4>1 DEF RowsOK, Rows, Row
      <4> QED
        BY <1>1, <3>2, <4>2, RowSetDistinct DEF PlacesInv
    <3> QED
      BY <1>3, <3>1, <3>2 DEF RemoveQueueMember
  <2> QED
    BY <2>2, <2>5, <2>6, <2>7 DEF PlacesInv, LoadDistinct, RingOK
<1>4. ASSUME NEW x \in members[q], NEW y \in AnyMember, y.kind = x.kind, y.iface = x.iface, y.pos = x.pos
      PROVE  Placed((members[q] \ {x}) \cup {y})
  <2> DEFINE S == members[q]
             f == [z \in S |-> IF z = x THEN y ELSE z]
  <2>1. Changes(f, S)
    BY <1>1, <1>4 DEF Changes, Placed, MemberSet
  <2>2. {f[z] : z \in S} = (S \ {x}) \cup {y}
    OBVIOUS
  <2> HIDE DEF f
  <2> QED
    BY <1>1, <2>1, <2>2, ChangedPlaced
<1>5. ASSUME NEW x \in members[q], NEW b \in BOOLEAN, Pause(q, x, b)
      PROVE  PlacesInv'
  <2> DEFINE y == [x EXCEPT !.paused = b]
             T == (members[q] \ {x}) \cup {y}
  <2>1. y \in AnyMember /\ y.kind = x.kind /\ y.iface = x.iface /\ y.pos = x.pos
    BY <1>1 DEF Placed, MemberSet, AnyMember
  <2>2. members' = [members EXCEPT ![q] = T] /\ UNCHANGED <<load, ring, rrpos>>
    BY <1>5 DEF Pause
  <2> HIDE DEF y
  <2>3. Placed(T)
    BY <1>4, <2>1
  <2> HIDE DEF T
  <2>4. members'[q] = T
    BY <1>1, <2>2 DEF MembersOK
  <2>5. astdb' = IF Persistent THEN Dumped(q, T) ELSE astdb
    BY <1>5, <2>4 DEF Pause
  <2>6. MembersPlaced' /\ AstdbDistinct'
    BY <1>1, <2>2, <2>3, <2>5, QueuePlaced DEF PlacesInv
  <2>7. RowsDistinct'
    <3>1. CASE UNCHANGED rows
      BY <3>1 DEF PlacesInv, RowsDistinct
    <3>2. CASE Changeable(q, x) /\ rows' = RowSet(q, x.iface, [RowOf(q, x.iface) EXCEPT !.paused = b])
      <4>1. RowOf(q, x.iface) \in rows[q] /\ RowOf(q, x.iface).iface = x.iface
        BY <3>2 DEF Changeable, RowOf
      <4>2. [RowOf(q, x.iface) EXCEPT !.paused = b].iface = x.iface
        BY <1>1, <4>1 DEF RowsOK, Rows, Row
      <4> QED
        BY <1>1, <3>2, <4>2, RowSetDistinct DEF PlacesInv
    <3> QED
      BY <1>5, <3>1, <3>2 DEF Pause
  <2> QED
    BY <2>2, <2>6, <2>7 DEF PlacesInv, LoadDistinct, RingOK, RrposOK
<1>6. ASSUME NEW x \in members[q], NEW p \in Penalties, SetPenalty(q, x, p)
      PROVE  PlacesInv'
  <2>1. UNCHANGED <<astdb, load, ring, rrpos>>
    BY <1>6 DEF SetPenalty
  <2>2. CASE /\ members' = [members EXCEPT ![q] = (@ \ {x}) \cup {[x EXCEPT !.penalty = p]}]
             /\ UNCHANGED rows
    <3> DEFINE y == [x EXCEPT !.penalty = p]
               T == (members[q] \ {x}) \cup {y}
    <3>1. p \in Nat
      BY PenaltiesAreNumbers
    <3>2. y \in AnyMember /\ y.kind = x.kind /\ y.iface = x.iface /\ y.pos = x.pos
      BY <1>1, <3>1 DEF Placed, MemberSet, AnyMember
    <3>3. members' = [members EXCEPT ![q] = T]
      BY <2>2
    <3> HIDE DEF y
    <3>4. Placed(T)
      BY <1>4, <3>2
    <3> HIDE DEF T
    <3>5. MembersPlaced' /\ AstdbDistinct'
      BY <1>1, <2>1, <3>3, <3>4, QueuePlaced DEF PlacesInv
    <3> QED
      BY <2>1, <2>2, <3>5 DEF PlacesInv, RowsDistinct, LoadDistinct, RingOK, RrposOK
  <2>3. CASE /\ Changeable(q, x) /\ UNCHANGED members
             /\ rows' = RowSet(q, x.iface, [RowOf(q, x.iface) EXCEPT !.penalty = p])
    <3>1. RowOf(q, x.iface) \in rows[q] /\ RowOf(q, x.iface).iface = x.iface
      BY <2>3 DEF Changeable, RowOf
    <3>2. [RowOf(q, x.iface) EXCEPT !.penalty = p].iface = x.iface
      BY <1>1, <3>1 DEF RowsOK, Rows, Row
    <3>3. RowsDistinct'
      BY <1>1, <2>3, <3>2, RowSetDistinct DEF PlacesInv
    <3> QED
      BY <2>1, <2>3, <3>3 DEF PlacesInv, MembersPlaced, AstdbDistinct, LoadDistinct, RingOK, RrposOK
  <2> QED
    BY <1>6, <2>2, <2>3 DEF SetPenalty
<1> QED
  BY <1>2, <1>3, <1>5, <1>6

LEMMA ReloadPlaces ==
  ASSUME Inv, PlacesInv, NEW f \in Files, Reload(f)
  PROVE  PlacesInv'
<1>1. UNCHANGED <<rows, astdb, load, ring>>
  BY DEF Reload, db
<1> DEFINE T(q) == IF q \in DOMAIN f THEN ReloadedMembers(members[q], f[q])
                   ELSE IF q \in Realtime THEN members[q] ELSE {}
<1>2. ASSUME NEW q \in Queues PROVE Placed(T(q))
  <2>1. Placed(members[q])
    BY DEF PlacesInv, MembersPlaced
  <2>2. CASE q \in DOMAIN f
    <3>1. DOMAIN f[q] \subseteq Ifaces /\ \A i \in DOMAIN f[q] : f[q][i] \in Nat
      BY <2>2, PenaltiesAreNumbers
    <3> QED
      BY <2>1, <2>2, <3>1, ReloadedPlaced
  <2>3. CASE q \notin DOMAIN f
    BY <2>1, <2>3, NonePlaced
  <2> QED
    BY <2>2, <2>3
<1>3. members' = [q \in Queues |-> T(q)]
  BY DEF Reload
<1> HIDE DEF T
<1>4. MembersPlaced'
  BY <1>2, <1>3 DEF MembersPlaced
<1>5. RrposOK'
  BY DEF Reload, RrposOK, PlacesInv
<1> QED
  BY <1>1, <1>4, <1>5 DEF PlacesInv, RowsDistinct, AstdbDistinct, LoadDistinct, RingOK

LEMMA RestartPlaces ==
  ASSUME Inv, PlacesInv, Restart
  PROVE  PlacesInv'
<1> DEFINE stored == {q \in Queues : Persistent /\ astdb[q] # {}}
           there  == DOMAIN file \cup {q \in stored : dbup /\ q \in dbqueues}
           lines(q) == IF q \in DOMAIN file THEN ReloadedMembers({}, file[q]) ELSE {}
           read(q) == IF dbup THEN rows[q] ELSE {}
           known(q) == Refreshed(lines(q), read(q))
           fresh(q) == IF q \in stored THEN Restored(known(q), astdb[q]) ELSE lines(q)
<1>1. /\ members' = [q \in Queues |-> IF q \in there THEN fresh(q) ELSE {}]
      /\ astdb' = [q \in Queues |-> IF q \in stored \ there THEN {} ELSE astdb[q]]
      /\ rrpos' = [q \in Queues |-> 0]
      /\ load' = NoLoad /\ ring' = NoRing /\ UNCHANGED rows
  BY DEF Restart, db
<1>2. ASSUME NEW q \in Queues PROVE Placed(lines(q))
  <2>1. CASE q \in DOMAIN file
    <3>1. DOMAIN file[q] \subseteq Ifaces /\ \A i \in DOMAIN file[q] : file[q][i] \in Nat
      BY <2>1, PenaltiesAreNumbers DEF Inv, TypeInv
    <3> QED
      BY <2>1, <3>1, NonePlaced, ReloadedPlaced
  <2> QED
    BY <2>1, NonePlaced
<1> HIDE DEF lines
<1>3. ASSUME NEW q \in Queues PROVE Rows(read(q)) /\ Distinct(read(q))
  BY NonePlaced DEF Inv, TypeInv, RowsOK, PlacesInv, RowsDistinct
<1> HIDE DEF read
<1>4. ASSUME NEW q \in Queues PROVE Placed(known(q))
  BY <1>2, <1>3, RefreshedPlaced
<1> HIDE DEF known
<1>5. ASSUME NEW q \in Queues PROVE Placed(fresh(q))
  <2>1. astdb[q] \subseteq Listing /\ IsFiniteSet(astdb[q]) /\ Distinct(astdb[q])
    BY DEF Inv, TypeInv, AstdbOK, PlacesInv, AstdbDistinct
  <2> QED
    BY <1>2, <1>4, <2>1, RestoredPlaced
<1> HIDE DEF fresh, there, stored
<1>6. MembersPlaced'
  BY <1>1, <1>5, NonePlaced DEF MembersPlaced
<1>7. AstdbDistinct'
  BY <1>1, NonePlaced DEF AstdbDistinct, PlacesInv
<1>8. RrposOK'
  BY <1>1 DEF RrposOK
<1> QED
  BY <1>1, <1>6, <1>7, <1>8 DEF PlacesInv, RowsDistinct, LoadDistinct, RingOK

LEMMA DbChangePlaces ==
  ASSUME Inv, PlacesInv, DbChange
  PROVE  PlacesInv'
<1>1. UNCHANGED <<members, rrpos, astdb, load, ring>>
  BY DEF DbChange, core
<1>2. RowsDistinct'
  <2>1. CASE UNCHANGED rows
    BY <2>1 DEF PlacesInv, RowsDistinct
  <2>2. ASSUME NEW q \in Queues, NEW i \in Ifaces, NEW r \in Row, r.iface = i, rows' = RowSet(q, i, r)
        PROVE  RowsDistinct'
    BY <2>2, RowSetDistinct DEF Inv, TypeInv, PlacesInv
  <2>3. ASSUME NEW q \in Queues, NEW i \in Ifaces, rows' = [rows EXCEPT ![q] = {x \in @ : x.iface # i}]
        PROVE  RowsDistinct'
    <3>1. Distinct({x \in rows[q] : x.iface # i})
      BY DEF PlacesInv, RowsDistinct, Distinct
    <3> QED
      BY <2>3, <3>1 DEF Inv, TypeInv, RowsOK, PlacesInv, RowsDistinct
  <2> QED
    BY <2>1, <2>2, <2>3 DEF DbChange
<1> QED
  BY <1>1, <1>2 DEF PlacesInv, MembersPlaced, AstdbDistinct, LoadDistinct, RrposOK, RingOK

LEMMA ReadingPlaces ==
  ASSUME Inv, PlacesInv, NEW q \in Queues, Load(q) \/ LoadMembers \/ LeaveDead(q)
  PROVE  PlacesInv'
<1>1. CASE Load(q)
  <2>1. UNCHANGED <<members, rows, rrpos, astdb, ring>> /\ load'.rows = {}
    BY <1>1 DEF Load, db, core
  <2> QED
    BY <2>1, NonePlaced DEF PlacesInv, MembersPlaced, RowsDistinct, AstdbDistinct, LoadDistinct, RrposOK, RingOK
<1>2. CASE LoadMembers
  <2> DEFINE R == IF dbup /\ (load.found \/ load.queue \in Static) THEN rows[load.queue] ELSE {}
  <2>1. UNCHANGED <<members, rows, rrpos, astdb, ring>>
    BY <1>2 DEF LoadMembers, db, core
  <2>2. load.step = "queue" /\ load' = [load EXCEPT !.step = "apply", !.rows = R]
    BY <1>2 DEF LoadMembers
  <2>3. load \in Reading
    BY <2>2 DEF Inv, TypeInv, LoadOK, NoLoad
  <2>4. Distinct(R)
    BY <2>3, NonePlaced DEF Reading, PlacesInv, RowsDistinct
  <2> HIDE DEF R
  <2>5. load'.rows = R
    BY <2>2, <2>3 DEF Reading
  <2> QED
    BY <2>1, <2>4, <2>5 DEF PlacesInv, MembersPlaced, RowsDistinct, AstdbDistinct, LoadDistinct, RrposOK, RingOK
<1>3. CASE LeaveDead(q)
  <2>1. UNCHANGED <<rows, astdb, load, ring>>
    BY <1>3 DEF LeaveDead, db
  <2>2. members' = [members EXCEPT ![q] = {}] /\ rrpos' = [rrpos EXCEPT ![q] = 0]
    BY <1>3 DEF LeaveDead, Unlink
  <2>3. MembersPlaced' /\ AstdbDistinct'
    BY <2>1, <2>2, NonePlaced, QueuePlaced DEF Inv, TypeInv, PlacesInv
  <2>4. RrposOK'
    <3>1. rrpos \in [Queues -> Int] /\ 0 \in Int
      BY DEF PlacesInv, RrposOK
    <3>2. rrpos' \in [Queues -> Int]
      BY <2>2, <3>1
    <3> QED
      BY <3>2 DEF RrposOK
  <2> QED
    BY <2>1, <2>3, <2>4 DEF PlacesInv, RowsDistinct, LoadDistinct, RingOK
<1> QED
  BY <1>1, <1>2, <1>3

\* A round of calls.
LEMMA RoundPlaces ==
  ASSUME Inv, PlacesInv, RequestFails \/ Tried \/ RingEnd \/ \E q \in Queues : RingStart(q)
  PROVE  PlacesInv'
<1>1. UNCHANGED <<members, rows, astdb, load>>
  BY DEF RequestFails, Tried, RingEnd, RingStart, db, core
<1>2. rrpos \in [Queues -> Int]
  BY DEF PlacesInv, RrposOK
<1>3. RrposOK'
  <2>1. CASE UNCHANGED rrpos
    BY <1>2, <2>1 DEF RrposOK
  <2>2. ASSUME NEW q, NEW n \in Int, rrpos' = [rrpos EXCEPT ![q] = n] PROVE RrposOK'
    BY <1>2, <2>2 DEF RrposOK
  <2>3. CASE RequestFails
    <3> DEFINE q == ring.queue
    <3>1. q \in Queues /\ rrpos' = [rrpos EXCEPT ![q] = rrpos[q] + 1]
      BY <2>3 DEF RequestFails, Inv, TypeInv
    <3>2. rrpos[q] + 1 \in Int
      BY <1>2, <3>1
    <3> HIDE DEF q
    <3> QED
      BY <2>2, <3>1, <3>2
  <2>4. CASE RingEnd
    <3> DEFINE q == ring.queue
               n == IF ring.metrics # {} THEN Smallest(ring.metrics) % 1000
                    ELSE IF wrapped[q] THEN 0 ELSE rrpos[q] + 1
    <3>1. CASE UNCHANGED rrpos
      BY <2>1, <3>1
    <3>2. CASE q \in queues /\ rrpos' = [rrpos EXCEPT ![q] = n]
      <4>1. rrpos[q] + 1 \in Int
        BY <1>2, <3>2 DEF Inv, TypeInv
      <4>2. ring.metrics # {} => Smallest(ring.metrics) % 1000 \in Int
        <5>1. ring.metrics \subseteq Nat
          BY <2>4 DEF RingEnd, PlacesInv, RingOK
        <5>2. ring.metrics # {} => Smallest(ring.metrics) \in Nat
          BY <5>1, SmallestIn
        <5> QED
          BY <5>2
      <4>3. n \in Int
        BY <4>1, <4>2
      <4> HIDE DEF n, q
      <4> QED
        BY <2>2, <3>2, <4>3
    <3> QED
      BY <2>4, <3>1, <3>2 DEF RingEnd
  <2> QED
    BY <2>1, <2>3, <2>4 DEF Tried, RingStart, core
<1>4. RingOK'
  <2>1. CASE RequestFails \/ Tried
    <3> DEFINE M == ring.metrics \ {Smallest(ring.metrics)}
    <3>1. ring # NoRing /\ ring' = [ring EXCEPT !.metrics = M]
      BY <2>1 DEF RequestFails, Tried
    <3>2. ring \in [queue : Queues, metrics : SUBSET Nat]
      BY <3>1 DEF PlacesInv, RingOK
    <3>3. M \subseteq Nat
      BY <3>2
    <3> HIDE DEF M
    <3> QED
      BY <3>1, <3>2, <3>3 DEF RingOK
  <2>2. CASE RingEnd
    BY <2>2 DEF RingEnd, RingOK
  <2>3. ASSUME NEW q \in Queues, RingStart(q) PROVE RingOK'
    <3>1. ring' = [queue |-> q, metrics |-> {Metric(q, x) : x \in members[q]}]
      BY <2>3 DEF RingStart
    <3>2. \A x \in members[q] : Metric(q, x) \in Nat
      <4>1. Cardinality(members[q]) \in Nat
        BY FS_CardinalityType DEF PlacesInv, MembersPlaced, Placed, MemberSet
      <4>2. \A x \in members[q] : x.pos \in Nat
        BY <4>1 DEF PlacesInv, MembersPlaced, Placed, Slots
      <4> QED
        BY <4>2 DEF Metric
    <3> QED
      BY <2>3, <3>1, <3>2 DEF RingOK
  <2> QED
    BY <2>1, <2>2, <2>3
<1> QED
  BY <1>1, <1>3, <1>4 DEF PlacesInv, MembersPlaced, RowsDistinct, AstdbDistinct, LoadDistinct

LEMMA PlacesInit == MembersInit => PlacesInv
<1> SUFFICES ASSUME MembersInit PROVE PlacesInv
  OBVIOUS
<1>1. /\ file \in Files /\ load = NoLoad /\ ring = NoRing
      /\ rows = [q \in Queues |-> {}] /\ astdb = [q \in Queues |-> {}] /\ rrpos = [q \in Queues |-> 0]
      /\ members = [q \in Queues |-> IF q \in DOMAIN file THEN ReloadedMembers({}, file[q]) ELSE {}]
  BY DEF MembersInit
<1>2. ASSUME NEW q \in Queues PROVE Placed(members[q])
  <2>1. CASE q \in DOMAIN file
    <3>1. DOMAIN file[q] \subseteq Ifaces /\ \A i \in DOMAIN file[q] : file[q][i] \in Nat
      BY <1>1, <2>1, PenaltiesAreNumbers
    <3> QED
      BY <1>1, <2>1, <3>1, NonePlaced, ReloadedPlaced
  <2>2. CASE q \notin DOMAIN file
    BY <1>1, <2>2, NonePlaced
  <2> QED
    BY <2>1, <2>2
<1>3. RrposOK
  BY <1>1 DEF RrposOK
<1> QED
  BY <1>1, <1>2, <1>3, NonePlaced
     DEF PlacesInv, MembersPlaced, RowsDistinct, AstdbDistinct, LoadDistinct, RingOK

\* Every member of every queue has a place of its own, from 0 on without a gap.
THEOREM PlacesCorrect == MembersSpec => [](Inv /\ PlacesInv)
<1>1. Inv /\ PlacesInv /\ [MembersNext]_memberVars => PlacesInv'
  <2> SUFFICES ASSUME Inv, PlacesInv, [MembersNext]_memberVars PROVE PlacesInv'
    OBVIOUS
  <2>1. CASE UNCHANGED memberVars
    BY <2>1 DEF memberVars, db, core, PlacesInv, MembersPlaced, RowsDistinct, AstdbDistinct, LoadDistinct, RrposOK, RingOK
  <2>2. CASE RequestFails \/ Tried \/ RingEnd \/ \E q \in Queues : RingStart(q)
    BY <2>2, RoundPlaces
  <2>3. ASSUME NEW f \in Files, Reload(f) PROVE PlacesInv'
    BY <2>3, ReloadPlaces
  <2>4. ASSUME NEW q \in Queues, Load(q) \/ LeaveDead(q) PROVE PlacesInv'
    BY <2>4, ReadingPlaces
  <2>5. CASE LoadMembers
    <3>1. load.queue \in Queues
      BY <2>5 DEF LoadMembers, Inv, TypeInv, LoadOK, NoLoad, Reading
    <3> QED
      BY <2>5, <3>1, ReadingPlaces
  <2> QED
    BY <2>1, <2>2, <2>3, <2>4, <2>5, ApplyPlaces, ChangesPlaces, DbChangePlaces, RestartPlaces DEF MembersNext
<1> QED
  BY <1>1, InvCorrect, PlacesInit, PTL DEF MembersSpec

\* The metrics of calc_metric tell the two halves of a round apart.
SmallQueues == \A q \in Queues : Cardinality(members[q]) <= 1000

\* Who is removed, or dead, leaves with everybody of its interface and its kind.
LEMMA NextStays ==
  ASSUME NEW S, Placed(S), Cardinality(S) <= 1000, NEW gone, gone \subseteq S, NEW r \in Int,
         NEW x \in First(S, r), <<x.iface, x.kind>> \in Id(Without(S, gone)),
         \A y \in gone : \A z \in S : z.iface = y.iface /\ z.kind = y.kind => z \in gone
  PROVE  <<x.iface, x.kind>> \in Id(First(Without(S, gone), r - Ahead(gone, r)))
<1>1. x \notin gone
  <2>1. PICK t \in Without(S, gone) : t.iface = x.iface /\ t.kind = x.kind
    BY DEF Id
  <2>2. PICK z \in S \ gone : t.iface = z.iface /\ t.kind = z.kind
    BY WithoutSlots DEF Placed
  <2> QED
    BY <2>1, <2>2 DEF First
<1>2. PICK t \in First(Without(S, gone), r - Ahead(gone, r)) : t.iface = x.iface /\ t.kind = x.kind
  BY <1>1, WithoutKeepsFirst DEF Placed
<1> QED
  BY <1>2 DEF Id

LEMMA RefreshKeepsNext ==
  ASSUME NEW S, Placed(S), Cardinality(S) <= 1000, NEW R, Rows(R), Distinct(R), NEW r \in Int,
         NEW gone, gone = Dead(HandledAll(S, R), R),
         Id(Refreshed(S, R)) \subseteq Id(S), NEW x \in First(S, r), <<x.iface, x.kind>> \in Id(Refreshed(S, R))
  PROVE  <<x.iface, x.kind>> \in Id(First(Refreshed(S, R), r - Ahead(gone, r)))
<1> DEFINE all == HandledAll(S, R)
<1>1. PICK f, new : HandledAs(S, R, f, new)
  BY HandledForm
<1>2. /\ Changes(f, S) /\ \A y \in S : f[y].kind = y.kind
      /\ new \subseteq Entry /\ Unknown(new, S)
      /\ \A e \in new : e.kind = "realtime" /\ \E row \in R : row.iface = e.iface /\ Valid(row)
      /\ all = With({f[y] : y \in S}, new)
  BY <1>1 DEF HandledAs
<1>3. Placed(all) /\ gone \subseteq all /\ Refreshed(S, R) = Without(all, gone)
  BY HandledPlaced DEF Dead, Refreshed
<1>4. \A y \in gone : \A z \in all : z.iface = y.iface /\ z.kind = y.kind => z \in gone
  BY DEF Dead
<1> DEFINE T == {f[y] : y \in S}
\* Who is new would stay, and is not of an interface and kind that was there.
<1>5. new = {}
  <2> SUFFICES ASSUME NEW e \in new PROVE FALSE
    OBVIOUS
  <2> DEFINE made == [iface |-> e.iface, kind |-> e.kind, penalty |-> e.penalty, paused |-> e.paused,
                      pos |-> Cardinality(T) + Cardinality({d \in new : Before(d.iface, e.iface)})]
  <2>1. made \in all /\ made.iface = e.iface /\ made.kind = "realtime" /\ e.kind = "realtime"
    BY <1>2 DEF With
  <2> HIDE DEF made, T
  <2>2. made \notin gone
    BY <1>2, <2>1 DEF Dead
  <2> HIDE DEF all
  <2>3. \E t \in Refreshed(S, R) : t.iface = made.iface /\ t.kind = made.kind
    <3>1. [made EXCEPT !.pos = made.pos - Ahead(gone, made.pos)] \in Without(all, gone)
      BY <1>3, <2>1, <2>2, WithoutSlots DEF Placed
    <3>2. made \in AnyMember
      BY <1>3, <2>1 DEF Placed, MemberSet
    <3>3. [made EXCEPT !.pos = made.pos - Ahead(gone, made.pos)].iface = made.iface
      BY <3>2 DEF AnyMember
    <3>4. [made EXCEPT !.pos = made.pos - Ahead(gone, made.pos)].kind = made.kind
      BY <3>2 DEF AnyMember
    <3> QED
      BY <1>3, <3>1, <3>3, <3>4
  <2>4. <<e.iface, e.kind>> \in Id(S)
    BY <2>1, <2>3 DEF Id
  <2>5. PICK y \in S : y.iface = e.iface /\ y.kind = e.kind
    BY <2>4 DEF Id
  <2> QED
    BY <1>2, <2>1, <2>5 DEF Unknown
<1>6. all = T
  BY <1>2, <1>5 DEF With
<1>7. Cardinality(all) <= 1000
  BY <1>2, <1>6, ChangedPlaced
<1>8. \A y \in S : f[y] \in T /\ f[y].pos = y.pos /\ f[y].iface = y.iface /\ f[y].kind = y.kind
  BY <1>2 DEF Changes
<1>9. f[x] \in First(T, r) /\ x \in S
  <2>1. x \in S /\ \A y \in S : Met(x.pos, r) <= Met(y.pos, r)
    BY DEF First
  <2>2. ASSUME NEW t \in T PROVE Met(f[x].pos, r) <= Met(t.pos, r)
    <3>1. PICK y \in S : t = f[y]
      OBVIOUS
    <3> QED
      BY <1>8, <2>1, <3>1
  <2> HIDE DEF T
  <2> QED
    BY <1>8, <2>1, <2>2 DEF First
<1> DEFINE y == f[x]
<1>10. y \in First(all, r) /\ y.iface = x.iface /\ y.kind = x.kind
  BY <1>6, <1>8, <1>9
<1> HIDE DEF all, T, y
<1>11. <<y.iface, y.kind>> \in Id(Without(all, gone))
  BY <1>3, <1>10
<1>12. <<y.iface, y.kind>> \in Id(First(Without(all, gone), r - Ahead(gone, r)))
  BY <1>3, <1>4, <1>7, <1>10, <1>11, NextStays
<1> QED
  BY <1>3, <1>10, <1>12

LEMMA NextUpIsFirst ==
  ASSUME NEW q
  PROVE  NextUp(q) = First(members[q], rrpos[q])
BY DEF NextUp, First, Metric, Met

\* The step of NextKept.
LEMMA NextStep ==
  ASSUME Inv, PlacesInv, SmallQueues,
         Apply \/ (\E q \in Queues : \E x \in members[q] : RemoveQueueMember(q, x)),
         NEW q \in queues \cap queues', Id(members'[q]) \subseteq Id(members[q]),
         NEW x \in NextUp(q), <<x.iface, x.kind>> \in Id(members'[q])
  PROVE  <<x.iface, x.kind>> \in Id(NextUp(q)')
<1>1. q \in Queues
  BY DEF Inv, TypeInv
<1>2. Placed(members[q]) /\ rrpos[q] \in Int /\ Cardinality(members[q]) <= 1000 /\ rrpos \in [Queues -> Int]
  BY <1>1 DEF PlacesInv, MembersPlaced, RrposOK, SmallQueues
<1>3. x \in First(members[q], rrpos[q])
  BY NextUpIsFirst
<1>4. NextUp(q)' = First(members'[q], rrpos'[q])
  BY DEF NextUp, First, Metric, Met
<1>5. CASE members'[q] = members[q] /\ rrpos'[q] = rrpos[q]
  BY <1>3, <1>4, <1>5 DEF Id
<1>6. ASSUME NEW gone, rrpos' = RrposWithout(q, gone)
      PROVE  rrpos'[q] = rrpos[q] - Ahead(gone, rrpos[q])
  BY <1>1, <1>2, <1>6 DEF RrposWithout, Ahead
<1>7. CASE Apply
  <2> DEFINE p == load.queue
  <2>1. load.step = "apply"
    BY <1>7 DEF Apply
  <2>2. load \in Reading /\ Rows(load.rows) /\ Distinct(load.rows) /\ p \in Queues
    BY <2>1 DEF Inv, TypeInv, LoadOK, NoLoad, Reading, Rows, PlacesInv, LoadDistinct
  <2>3. CASE UNCHANGED core
    BY <1>5, <2>3 DEF core
  <2>4. CASE Unlink(p)
    <3>1. p # q
      BY <2>4 DEF Unlink
    <3>2. members'[q] = members[q] /\ rrpos'[q] = rrpos[q]
      BY <1>1, <2>4, <3>1 DEF Unlink, Inv, TypeInv, MembersOK, PlacesInv, RrposOK
    <3> QED
      BY <1>5, <3>2
  <2>5. CASE Refresh(p, load.rows) /\ p # q
    <3>1. members'[q] = members[q] /\ rrpos'[q] = rrpos[q]
      BY <1>1, <2>5 DEF Refresh, RrposWithout, Inv, TypeInv, MembersOK, PlacesInv, RrposOK
    <3> QED
      BY <1>5, <3>1
  <2>6. CASE Refresh(p, load.rows) /\ p = q
    <3> DEFINE gone == Dead(HandledAll(members[q], load.rows), load.rows)
    <3>1. members'[q] = Refreshed(members[q], load.rows)
      BY <1>1, <2>6 DEF Refresh, Inv, TypeInv, MembersOK
    <3>2. rrpos' = RrposWithout(q, gone)
      BY <2>6 DEF Refresh
    <3>3. rrpos'[q] = rrpos[q] - Ahead(gone, rrpos[q])
      BY <1>6, <3>2
    <3> HIDE DEF gone
    <3>4. <<x.iface, x.kind>> \in Id(First(Refreshed(members[q], load.rows), rrpos[q] - Ahead(gone, rrpos[q])))
      BY <1>2, <1>3, <2>2, <3>1, RefreshKeepsNext DEF gone
    <3> QED
      BY <1>4, <3>1, <3>3, <3>4
  <2> QED
    BY <1>7, <2>3, <2>4, <2>5, <2>6 DEF Apply
<1>8. ASSUME NEW p \in Queues, NEW m \in members[p], RemoveQueueMember(p, m)
      PROVE  <<x.iface, x.kind>> \in Id(NextUp(q)')
  <2>1. members' = [members EXCEPT ![p] = Without(@, {m})] /\ rrpos' = RrposWithout(p, {m})
    BY <1>8 DEF RemoveQueueMember
  <2>2. m.kind # "static"
    BY <1>8 DEF RemoveQueueMember
  <2>3. CASE p # q
    <3>1. members'[q] = members[q] /\ rrpos'[q] = rrpos[q]
      BY <1>1, <2>1, <2>3 DEF RrposWithout, Inv, TypeInv, MembersOK, PlacesInv, RrposOK
    <3> QED
      BY <1>5, <3>1
  <2>4. CASE p = q
    <3> DEFINE gone == {m}
    <3>1. members'[q] = Without(members[q], gone)
      BY <1>1, <2>1, <2>4 DEF Inv, TypeInv, MembersOK
    <3>2. rrpos'[q] = rrpos[q] - Ahead(gone, rrpos[q])
      BY <1>6, <2>1, <2>4
    <3>3. gone \subseteq members[q]
      BY <1>8, <2>4
    <3>4. \A y \in gone : \A z \in members[q] : z.iface = y.iface /\ z.kind = y.kind => z \in gone
      BY <1>2, <2>2, <3>3 DEF Placed, Once
    <3> HIDE DEF gone
    <3>5. <<x.iface, x.kind>> \in Id(First(Without(members[q], gone), rrpos[q] - Ahead(gone, rrpos[q])))
      BY <1>2, <1>3, <3>1, <3>3, <3>4, NextStays
    <3> QED
      BY <1>4, <3>1, <3>2, <3>5
  <2> QED
    BY <2>3, <2>4
<1> QED
  BY <1>7, <1>8

\* A member that is removed, or that the database does not have any more, does not make the
\* round pass over the one who would have been next, as long as no queue has more than 1000
\* members: of more, the metrics overlap.
THEOREM NextKeptCorrect == MembersSpec /\ []SmallQueues => NextKept
<1>1. Inv /\ PlacesInv /\ SmallQueues =>
        [Apply \/ (\E q \in Queues : \E x \in members[q] : RemoveQueueMember(q, x)) =>
           \A q \in queues \cap queues' : Id(members'[q]) \subseteq Id(members[q]) =>
             \A x \in NextUp(q) : <<x.iface, x.kind>> \in Id(members'[q]) =>
               <<x.iface, x.kind>> \in Id(NextUp(q)')]_memberVars
  BY NextStep
<1> QED
  BY <1>1, PlacesCorrect, PTL DEF NextKept

=============================================================================
