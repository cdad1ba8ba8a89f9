-------------------------- MODULE SipUsages_proofs --------------------------
(***************************************************************************)
(* Proofs about what chan_sip.c does besides plain calls.  A step of       *)
(* SipUsages is a step of one usage and leaves the others alone, so each   *)
(* usage has an inductive invariant of its own.  Call completion, where    *)
(* what is checked is liveness, has none.                                  *)
(***************************************************************************)
EXTENDS SipUsages, SequenceTheorems, WellFoundedInduction, TLAPS

-----------------------------------------------------------------------------
(* Transfers: the dialogs.                                                 *)

LegRecord ==
  [there : BOOLEAN, chan : BOOLEAN, refer : BOOLEAN, pending : BOOLEAN, defer : BOOLEAN, gone : BOOLEAN,
   timer : BOOLEAN, need : BOOLEAN, bye : BOOLEAN, byed : BOOLEAN, refused : BOOLEAN]

\* Both ends know, or the dialog belonged to a REFER that came too late.
BothKnow(l) == l.byed \/ l.refused

\* What makes a dialog go, or lets a hang-up wait, is never there before both ends know, but for
\* the timer of a transfer: that one sends the BYE.
LegInOrder(l) ==
  /\ l \in LegRecord
  /\ l.bye => l.byed
  /\ l.gone \/ l.need => BothKnow(l)
  /\ l.defer => l.refer
  /\ l.timer => l.byed \/ l.refer

LegsInOrder(ls, listed) ==
  /\ DOMAIN ls = Legs /\ ls = [d \in Legs |-> ls[d]]
  /\ \A d \in Legs : LegInOrder(ls[d]) /\ (d \in listed /\ ~ls[d].there => BothKnow(ls[d]))

WorkRecord == [n : Nat, kind : {"none"} \cup plan.kinds, step : {"none", "open", "goto", "done"}, ok : BOOLEAN]

LegsInv ==
  /\ LegsInOrder(leg, plan.legs)
  /\ work \in WorkRecord
  /\ work.step # "none" \/ park # 0 => leg["A"].refer

LEMMA OneLeg ==
  ASSUME NEW ls, NEW listed, LegsInOrder(ls, listed), NEW d \in Legs, NEW l, LegInOrder(l),
         d \in listed /\ ~l.there => BothKnow(l)
  PROVE  LegsInOrder([ls EXCEPT ![d] = l], listed)
BY DEF LegsInOrder

LEMMA HangUpInOrder ==
  ASSUME NEW ls, NEW listed, LegsInOrder(ls, listed), NEW d \in Legs
  PROVE  LegsInOrder(HangUp(ls, d), listed) /\ HangUp(ls, d)["A"].refer = ls["A"].refer
<1> DEFINE a == [ls[d] EXCEPT !.defer = FALSE, !.chan = FALSE, !.timer = TRUE]
           b == [ls[d] EXCEPT !.chan = FALSE, !.bye = @ \/ ~ls[d].gone, !.byed = TRUE,
                              !.need = @ \/ ls[d].gone]
<1>1. LegInOrder(ls[d]) /\ (d \in listed /\ ~ls[d].there => BothKnow(ls[d])) /\ "A" \in Legs
  BY DEF LegsInOrder, Legs
<1>2. ls[d].defer => LegInOrder(a) /\ (d \in listed /\ ~a.there => BothKnow(a)) /\ a.refer = ls[d].refer
  BY <1>1 DEF LegInOrder, LegRecord, BothKnow
<1>3. LegInOrder(b) /\ (d \in listed /\ ~b.there => BothKnow(b)) /\ b.refer = ls[d].refer
  BY <1>1 DEF LegInOrder, LegRecord, BothKnow
<1>4. HangUp(ls, d) = [ls EXCEPT ![d] = IF ls[d].defer THEN a ELSE b]
  BY DEF HangUp, LegsInOrder
<1> DEFINE c == IF ls[d].defer THEN a ELSE b
<1>5. LegInOrder(c) /\ (d \in listed /\ ~c.there => BothKnow(c)) /\ c.refer = ls[d].refer
  BY <1>2, <1>3, Zenon
<1> HIDE DEF a, b, c
<1>6. LegsInOrder([ls EXCEPT ![d] = c], listed)
  BY <1>5, OneLeg
<1>7. [ls EXCEPT ![d] = c]["A"].refer = ls["A"].refer
  BY <1>1, <1>5 DEF LegsInOrder
<1> QED
  BY <1>4, <1>6, <1>7 DEF c

LEMMA LegChanges ==
  ASSUME LegsInv, NEW d \in Legs, NEW l, LegInOrder(l), d \in plan.legs /\ ~l.there => BothKnow(l),
         leg[d].refer => l.refer, leg' = [leg EXCEPT ![d] = l]
  PROVE  LegsInOrder(leg', plan.legs) /\ (leg["A"].refer => leg'["A"].refer)
<1>1. LegsInOrder(leg', plan.legs)
  BY OneLeg DEF LegsInv
<1>2. leg["A"].refer => leg'["A"].refer
  BY DEF LegsInv, LegsInOrder, Legs
<1> QED
  BY <1>1, <1>2

\* What a step has to show: the legs, and that A keeps its mark as long as it is needed.
LEMMA LegsStep ==
  ASSUME LegsInv, plan' = plan, work' \in WorkRecord, LegsInOrder(leg', plan.legs),
         leg["A"].refer => leg'["A"].refer,
         work'.step # "none" \/ park' # 0 => work.step # "none" \/ park # 0 \/ leg'["A"].refer
  PROVE  LegsInv'
BY DEF LegsInv, WorkRecord

LEMMA LegOf ==
  ASSUME LegsInv, NEW d \in Legs
  PROVE  LegInOrder(leg[d]) /\ (d \in plan.legs /\ ~leg[d].there => BothKnow(leg[d]))
BY DEF LegsInv, LegsInOrder

LEMMA LegsTimers ==
  ASSUME LegsInv, NEW d \in Legs, EndCall(d) \/ ReceiveBye(d) \/ Autodestruct(d) \/ ByeAnswered(d) \/ DestroyLeg(d)
  PROVE  LegsInv'
<1>0. work' \in WorkRecord /\ plan' = plan /\ work' = work /\ park' = park
  BY DEF LegsInv, EndCall, ReceiveBye, Autodestruct, ByeAnswered, DestroyLeg
<1>1. CASE EndCall(d)
  BY <1>0, <1>1, HangUpInOrder, LegsStep DEF EndCall, LegsInv
<1>2. CASE ReceiveBye(d)
  <2> DEFINE l == [leg[d] EXCEPT !.gone = TRUE, !.byed = TRUE, !.timer = TRUE]
  <2>1. leg' = [leg EXCEPT ![d] = l]
    BY <1>2 DEF ReceiveBye
  <2>2. LegInOrder(l) /\ (d \in plan.legs /\ ~l.there => BothKnow(l)) /\ (leg[d].refer => l.refer)
    BY LegOf DEF LegInOrder, LegRecord, BothKnow
  <2> QED
    BY <1>0, <2>1, <2>2, LegChanges, LegsStep
<1>3. CASE Autodestruct(d)
  <2> DEFINE a == [leg[d] EXCEPT !.bye = TRUE, !.byed = TRUE]
             b == [leg[d] EXCEPT !.there = FALSE]
             l == IF leg[d].refer /\ ~leg[d].gone THEN a ELSE b
  <2>1. leg' = [leg EXCEPT ![d] = l]
    BY <1>3 DEF Autodestruct
  <2>2. leg[d].timer
    BY <1>3 DEF Autodestruct
  <2>3. LegInOrder(a) /\ BothKnow(a) /\ (leg[d].refer => a.refer)
    BY LegOf DEF LegInOrder, LegRecord, BothKnow
  <2>4. ~(leg[d].refer /\ ~leg[d].gone) => LegInOrder(b) /\ BothKnow(b) /\ (leg[d].refer => b.refer)
    BY <2>2, LegOf DEF LegInOrder, LegRecord, BothKnow
  <2>5. LegInOrder(l) /\ BothKnow(l) /\ (leg[d].refer => l.refer)
    BY <2>3, <2>4, Zenon
  <2> HIDE DEF l
  <2> QED
    BY <1>0, <2>1, <2>5, LegChanges, LegsStep
<1>4. CASE ByeAnswered(d)
  <2> DEFINE l == [leg[d] EXCEPT !.bye = FALSE, !.need = TRUE, !.gone = TRUE]
  <2>1. leg' = [leg EXCEPT ![d] = l] /\ leg[d].bye
    BY <1>4 DEF ByeAnswered
  <2>2. LegInOrder(l) /\ (d \in plan.legs /\ ~l.there => BothKnow(l)) /\ (leg[d].refer => l.refer)
    BY <2>1, LegOf DEF LegInOrder, LegRecord, BothKnow
  <2> QED
    BY <1>0, <2>1, <2>2, LegChanges, LegsStep
<1>5. CASE DestroyLeg(d)
  <2> DEFINE l == [leg[d] EXCEPT !.there = FALSE]
  <2>1. leg' = [leg EXCEPT ![d] = l] /\ leg[d].need
    BY <1>5 DEF DestroyLeg
  <2>2. LegInOrder(l) /\ (d \in plan.legs /\ ~l.there => BothKnow(l)) /\ (leg[d].refer => l.refer)
    BY <2>1, LegOf DEF LegInOrder, LegRecord, BothKnow
  <2> QED
    BY <1>0, <2>1, <2>2, LegChanges, LegsStep
<1> QED
  BY <1>1, <1>2, <1>3, <1>4, <1>5

\* What a REFER and its end set of A.
LEMMA Marked ==
  ASSUME LegsInv, NEW refer1 \in BOOLEAN, NEW pending1 \in BOOLEAN, NEW defer1 \in BOOLEAN,
         leg["A"].refer => refer1, defer1 => refer1
  PROVE  LET ls == [leg EXCEPT !["A"] = [@ EXCEPT !.refer = refer1, !.pending = pending1, !.defer = defer1]]
         IN  LegsInOrder(ls, plan.legs) /\ ls["A"].refer = refer1
<1> DEFINE l == [leg["A"] EXCEPT !.refer = refer1, !.pending = pending1, !.defer = defer1]
<1>1. "A" \in Legs
  BY DEF Legs
<1>2. LegInOrder(l) /\ ("A" \in plan.legs /\ ~l.there => BothKnow(l)) /\ l.refer = refer1
  BY <1>1, LegOf DEF LegInOrder, LegRecord, BothKnow
<1> HIDE DEF l
<1>3. LegsInOrder([leg EXCEPT !["A"] = l], plan.legs)
  BY <1>1, <1>2, OneLeg DEF LegsInv
<1>4. [leg EXCEPT !["A"] = l]["A"].refer = refer1
  BY <1>1, <1>2 DEF LegsInv, LegsInOrder
<1> QED
  BY <1>3, <1>4 DEF l

\* A record is what its fields are.
LEMMA AsMarked ==
  ASSUME LegsInv
  PROVE  LET A1(r, n, d) == [leg EXCEPT !["A"] = [@ EXCEPT !.refer = r, !.pending = n, !.defer = d]]
             a == leg["A"]
         IN  /\ a.refer \in BOOLEAN /\ a.pending \in BOOLEAN /\ a.defer \in BOOLEAN /\ (a.defer => a.refer)
             /\ [leg EXCEPT !["A"].refer = TRUE] = A1(TRUE, a.pending, a.defer)
             /\ [leg EXCEPT !["A"].refer = TRUE, !["A"].pending = FALSE] = A1(TRUE, FALSE, a.defer)
             /\ [leg EXCEPT !["A"].refer = TRUE, !["A"].pending = TRUE] = A1(TRUE, TRUE, a.defer)
             /\ [leg EXCEPT !["A"].pending = FALSE] = A1(a.refer, FALSE, a.defer)
             /\ [leg EXCEPT !["A"].defer = TRUE] = A1(a.refer, a.pending, TRUE)
             /\ \A b : [leg EXCEPT !["A"].pending = FALSE, !["A"].defer = b] = A1(a.refer, FALSE, b)
<1> DEFINE a == leg["A"]
<1>1. a \in LegRecord /\ (a.defer => a.refer) /\ "A" \in Legs
  BY LegOf DEF LegInOrder, Legs
<1>2. a.refer \in BOOLEAN /\ a.pending \in BOOLEAN /\ a.defer \in BOOLEAN
  BY <1>1 DEF LegRecord
<1>3. leg = [d \in Legs |-> leg[d]]
  BY DEF LegsInv, LegsInOrder
<1>4. /\ [a EXCEPT !.refer = TRUE] = [a EXCEPT !.refer = TRUE, !.pending = a.pending, !.defer = a.defer]
      /\ [a EXCEPT !.refer = TRUE, !.pending = FALSE] = [a EXCEPT !.refer = TRUE, !.pending = FALSE, !.defer = a.defer]
      /\ [a EXCEPT !.refer = TRUE, !.pending = TRUE] = [a EXCEPT !.refer = TRUE, !.pending = TRUE, !.defer = a.defer]
      /\ [a EXCEPT !.pending = FALSE] = [a EXCEPT !.refer = a.refer, !.pending = FALSE, !.defer = a.defer]
      /\ [a EXCEPT !.defer = TRUE] = [a EXCEPT !.refer = a.refer, !.pending = a.pending, !.defer = TRUE]
      /\ \A b : [a EXCEPT !.pending = FALSE, !.defer = b] = [a EXCEPT !.refer = a.refer, !.pending = FALSE, !.defer = b]
  BY <1>1 DEF LegRecord
<1>5. /\ [leg EXCEPT !["A"].refer = TRUE] = [leg EXCEPT !["A"] = [a EXCEPT !.refer = TRUE]]
      /\ [leg EXCEPT !["A"].pending = FALSE] = [leg EXCEPT !["A"] = [a EXCEPT !.pending = FALSE]]
      /\ [leg EXCEPT !["A"].defer = TRUE] = [leg EXCEPT !["A"] = [a EXCEPT !.defer = TRUE]]
  OBVIOUS
<1>6. /\ [leg EXCEPT !["A"].refer = TRUE, !["A"].pending = FALSE]
             = [leg EXCEPT !["A"] = [a EXCEPT !.refer = TRUE, !.pending = FALSE]]
      /\ [leg EXCEPT !["A"].refer = TRUE, !["A"].pending = TRUE]
             = [leg EXCEPT !["A"] = [a EXCEPT !.refer = TRUE, !.pending = TRUE]]
      /\ \A b : [leg EXCEPT !["A"].pending = FALSE, !["A"].defer = b]
             = [leg EXCEPT !["A"] = [a EXCEPT !.pending = FALSE, !.defer = b]]
  BY <1>1, <1>3
<1> QED
  BY <1>1, <1>2, <1>4, <1>5, <1>6

\* A leaves the marks it has, or gets those of a REFER.
LEMMA MarksKeep ==
  ASSUME LegsInv
  PROVE  /\ LegsInOrder([leg EXCEPT !["A"].refer = TRUE], plan.legs)
         /\ LegsInOrder([leg EXCEPT !["A"].refer = TRUE, !["A"].pending = FALSE], plan.legs)
         /\ LegsInOrder([leg EXCEPT !["A"].refer = TRUE, !["A"].pending = TRUE], plan.legs)
         /\ LegsInOrder([leg EXCEPT !["A"].pending = FALSE], plan.legs)
         /\ leg["A"].refer => LegsInOrder([leg EXCEPT !["A"].defer = TRUE], plan.legs)
         /\ \A b \in BOOLEAN : LegsInOrder([leg EXCEPT !["A"].pending = FALSE, !["A"].defer = leg["A"].defer /\ b],
                                          plan.legs)
         /\ [leg EXCEPT !["A"].refer = TRUE]["A"].refer
         /\ [leg EXCEPT !["A"].refer = TRUE, !["A"].pending = FALSE]["A"].refer
         /\ [leg EXCEPT !["A"].refer = TRUE, !["A"].pending = TRUE]["A"].refer
         /\ [leg EXCEPT !["A"].pending = FALSE]["A"].refer = leg["A"].refer
         /\ leg["A"].refer => [leg EXCEPT !["A"].defer = TRUE]["A"].refer
         /\ \A b \in BOOLEAN : [leg EXCEPT !["A"].pending = FALSE, !["A"].defer = leg["A"].defer /\ b]["A"].refer
                              = leg["A"].refer
<1> DEFINE a == leg["A"]
<1>1. a.refer \in BOOLEAN /\ a.pending \in BOOLEAN /\ a.defer \in BOOLEAN /\ (a.defer => a.refer)
  BY AsMarked
<1> DEFINE A1(r, n, d) == [leg EXCEPT !["A"] = [@ EXCEPT !.refer = r, !.pending = n, !.defer = d]]
           Good(r, n, d) == LegsInOrder(A1(r, n, d), plan.legs) /\ A1(r, n, d)["A"].refer = r
<1>2. TRUE \in BOOLEAN /\ FALSE \in BOOLEAN
  OBVIOUS
<1>3. \A r, n, d \in BOOLEAN : (a.refer => r) /\ (d => r) => Good(r, n, d)
  BY Marked
<1> HIDE DEF Good
<1>4. Good(TRUE, a.pending, a.defer) /\ Good(TRUE, FALSE, a.defer) /\ Good(TRUE, TRUE, a.defer)
      /\ Good(a.refer, FALSE, a.defer) /\ (a.refer => Good(a.refer, a.pending, TRUE))
  BY <1>1, <1>2, <1>3
<1>5. ASSUME NEW b \in BOOLEAN PROVE Good(a.refer, FALSE, a.defer /\ b)
  <2>1. (a.defer /\ b) \in BOOLEAN /\ (a.defer /\ b => a.refer)
    BY <1>1
  <2> QED
    BY <1>1, <1>2, <1>3, <2>1
<1>6. \A b \in BOOLEAN : [leg EXCEPT !["A"].pending = FALSE, !["A"].defer = leg["A"].defer /\ b]
                          = A1(a.refer, FALSE, a.defer /\ b)
  BY AsMarked
<1>7. /\ [leg EXCEPT !["A"].refer = TRUE] = A1(TRUE, a.pending, a.defer)
      /\ [leg EXCEPT !["A"].refer = TRUE, !["A"].pending = FALSE] = A1(TRUE, FALSE, a.defer)
      /\ [leg EXCEPT !["A"].refer = TRUE, !["A"].pending = TRUE] = A1(TRUE, TRUE, a.defer)
      /\ [leg EXCEPT !["A"].pending = FALSE] = A1(a.refer, FALSE, a.defer)
      /\ [leg EXCEPT !["A"].defer = TRUE] = A1(a.refer, a.pending, TRUE)
  BY AsMarked
<1> HIDE DEF A1
<1>8. /\ LegsInOrder(A1(TRUE, a.pending, a.defer), plan.legs) /\ A1(TRUE, a.pending, a.defer)["A"].refer
      /\ LegsInOrder(A1(TRUE, FALSE, a.defer), plan.legs) /\ A1(TRUE, FALSE, a.defer)["A"].refer
      /\ LegsInOrder(A1(TRUE, TRUE, a.defer), plan.legs) /\ A1(TRUE, TRUE, a.defer)["A"].refer
      /\ LegsInOrder(A1(a.refer, FALSE, a.defer), plan.legs) /\ A1(a.refer, FALSE, a.defer)["A"].refer = a.refer
  BY <1>4 DEF Good
<1>9. a.refer => LegsInOrder(A1(a.refer, a.pending, TRUE), plan.legs) /\ A1(a.refer, a.pending, TRUE)["A"].refer
  BY <1>4 DEF Good
<1>10. \A b \in BOOLEAN : /\ LegsInOrder(A1(a.refer, FALSE, a.defer /\ b), plan.legs)
                          /\ A1(a.refer, FALSE, a.defer /\ b)["A"].refer = a.refer
  BY <1>5 DEF Good
<1>11. \A b \in BOOLEAN :
         LET ls == [leg EXCEPT !["A"].pending = FALSE, !["A"].defer = leg["A"].defer /\ b]
         IN  LegsInOrder(ls, plan.legs) /\ ls["A"].refer = a.refer
  BY <1>6, <1>10, Zenon
<1> QED
  BY <1>7, <1>8, <1>9, <1>11, Zenon

LEMMA JoinedLegs ==
  ASSUME LegsInv, NEW b \in BOOLEAN, NEW d \in Legs
  PROVE  LET ls == [leg EXCEPT !["A"] = [@ EXCEPT !.refer = TRUE, !.pending = TRUE, !.defer = b]]
         IN  /\ LegsInOrder(ls, plan.legs) /\ ls["A"].refer
             /\ LegsInOrder(HangUp(ls, d), plan.legs) /\ HangUp(ls, d)["A"].refer
<1> DEFINE ls == [leg EXCEPT !["A"] = [@ EXCEPT !.refer = TRUE, !.pending = TRUE, !.defer = b]]
<1>1. LegsInOrder(ls, plan.legs) /\ ls["A"].refer
  BY TRUE \in BOOLEAN, Marked
<1> HIDE DEF ls
<1>2. LegsInOrder(HangUp(ls, d), plan.legs) /\ HangUp(ls, d)["A"].refer
  BY <1>1, HangUpInOrder
<1> QED
  BY <1>1, <1>2 DEF ls

LEMMA ReferLegs ==
  ASSUME LegsInv, NEW n \in Nat, NEW kind \in plan.kinds, NEW again, ReceiveRefer(n, kind, again)
  PROVE  LegsInv'
<1> DEFINE Good == LegsInOrder(leg', plan.legs) /\ (leg["A"].refer => leg'["A"].refer)
<1>0. "A" \in Legs /\ "B" \in Legs /\ LegsInOrder(leg, plan.legs) /\ TRUE \in BOOLEAN /\ FALSE \in BOOLEAN
  BY DEF Legs, LegsInv
<1>1. ASSUME Refused(n, kind, again) PROVE Good
  <2> DEFINE l == [leg["A"] EXCEPT !.gone = TRUE, !.need = TRUE, !.refused = TRUE]
  <2>1. LegInOrder(l) /\ BothKnow(l) /\ (leg["A"].refer => l.refer)
    BY <1>0, LegOf DEF LegInOrder, LegRecord, BothKnow
  <2>2. leg = [d \in Legs |-> leg[d]]
    BY DEF LegsInv, LegsInOrder
  <2>3. [leg EXCEPT !["A"].gone = TRUE, !["A"].need = TRUE, !["A"].refused = TRUE] = [leg EXCEPT !["A"] = l]
    BY <1>0, <2>2
  <2>4. leg' = leg \/ leg' = [leg EXCEPT !["A"] = l]
    BY <1>1, <2>3, Zenon DEF Refused
  <2> HIDE DEF l
  <2> QED
    BY <1>0, <2>1, <2>4, LegChanges
<1>2. ASSUME Unusable(n, kind) \/ Dropped(n, kind, again) \/ NotFound(n, kind) PROVE Good
  BY <1>2, MarksKeep DEF Unusable, Dropped, NotFound
<1>3. ASSUME AttendedTransfer(n) PROVE Good
  BY <1>0, <1>3, JoinedLegs DEF AttendedTransfer, Joined, NotJoined
<1>4. ASSUME Started(n, kind) PROVE Good /\ leg'["A"].refer /\ work' \in WorkRecord
  <2>1. With("X", "A") \in BOOLEAN
    BY DEF With
  <2>2. work' = [n |-> n, kind |-> kind, step |-> "open", ok |-> With("X", "A")]
    BY <1>4 DEF Started
  <2>3. work' \in WorkRecord
    BY <2>1, <2>2 DEF WorkRecord
  <2> QED
    BY <1>4, <2>3, MarksKeep DEF Started
<1>5. Good /\ (UNCHANGED work \/ (leg'["A"].refer /\ work' \in WorkRecord)) /\ plan' = plan /\ park' = park
  BY <1>1, <1>2, <1>3, <1>4 DEF ReceiveRefer
<1> QED
  BY <1>5, LegsStep DEF LegsInv

LEMMA WorkLegs ==
  ASSUME LegsInv, Parked \/ ParkThread \/ Prepared \/ Goto \/ Transferred
  PROVE  LegsInv'
<1>0. "A" \in Legs /\ LegsInOrder(leg, plan.legs) /\ work \in WorkRecord /\ Idle \in WorkRecord
  BY DEF Legs, LegsInv, Idle, WorkRecord
<1>1. CASE Parked
  <2>1. leg["A"].refer
    BY <1>1 DEF Parked, LegsInv
  <2> DEFINE ls == [leg EXCEPT !["A"].pending = FALSE]
  <2>2. LegsInOrder(ls, plan.legs) /\ ls["A"].refer
    BY <2>1, MarksKeep
  <2>3. leg' = ls \/ leg' = HangUp(ls, "A")
    BY <1>1 DEF Parked, A
  <2>4. work' = Idle /\ plan' = plan
    BY <1>1 DEF Parked, Finish
  <2> HIDE DEF ls
  <2>5. LegsInOrder(leg', plan.legs) /\ leg'["A"].refer
    BY <1>0, <2>2, <2>3, HangUpInOrder
  <2> QED
    BY <1>0, <2>4, <2>5, LegsStep
<1>2. CASE ParkThread
  <2>1. leg["A"].refer
    BY <1>2 DEF ParkThread, LegsInv
  <2> DEFINE ls == [leg EXCEPT !["A"].defer = TRUE]
  <2>2. LegsInOrder(ls, plan.legs) /\ ls["A"].refer
    BY <2>1, MarksKeep
  <2>3. leg' = ls \/ leg' = HangUp(ls, "A")
    BY <1>2 DEF ParkThread
  <2>4. work' = work /\ plan' = plan
    BY <1>2 DEF ParkThread
  <2> HIDE DEF ls
  <2>5. LegsInOrder(leg', plan.legs) /\ leg'["A"].refer
    BY <1>0, <2>2, <2>3, HangUpInOrder
  <2> QED
    BY <1>0, <2>4, <2>5, LegsStep
<1>3. CASE Prepared
  <2>1. leg["A"].refer /\ work.step = "open"
    BY <1>3 DEF Prepared, LegsInv
  <2>2. leg' = [leg EXCEPT !["A"].pending = FALSE] \/ leg' = [leg EXCEPT !["A"].defer = TRUE]
    BY <1>3 DEF Prepared, A
  <2>3. LegsInOrder(leg', plan.legs) /\ leg'["A"].refer
    BY <2>1, <2>2, MarksKeep
  <2>4. [work EXCEPT !.step = "goto"] \in WorkRecord
    BY <1>0 DEF WorkRecord
  <2>5. work' \in WorkRecord /\ plan' = plan
    BY <1>0, <1>3, <2>4 DEF Prepared, Finish
  <2> QED
    BY <2>3, <2>5, LegsStep
<1>4. CASE Goto
  <2>1. [work EXCEPT !.step = "done", !.ok = TRUE] \in WorkRecord
        /\ [work EXCEPT !.step = "done", !.ok = FALSE] \in WorkRecord
    BY <1>0 DEF WorkRecord
  <2>2. work' \in WorkRecord /\ plan' = plan /\ leg' = leg
    BY <1>4, <2>1 DEF Goto
  <2> QED
    BY <1>0, <1>4, <2>2, LegsStep DEF Goto, LegsInv
<1>5. CASE Transferred
  <2>1. leg["A"].refer /\ work.ok \in BOOLEAN
    BY <1>0, <1>5 DEF Transferred, LegsInv, WorkRecord
  <2>2. leg' = [leg EXCEPT !["A"].pending = FALSE, !["A"].defer = leg["A"].defer /\ work.ok]
    BY <1>0, <1>5 DEF Transferred, LegsInOrder
  <2>3. LegsInOrder(leg', plan.legs) /\ leg'["A"].refer
    BY <2>1, <2>2, MarksKeep
  <2>4. work' = Idle /\ plan' = plan
    BY <1>5 DEF Transferred, Finish
  <2> QED
    BY <1>0, <2>3, <2>4, LegsStep
<1> QED
  BY <1>1, <1>2, <1>3, <1>4, <1>5

LEMMA TakeOverLegs ==
  ASSUME LegsInv, TakeOver
  PROVE  LegsInv'
<1> DEFINE ls == [leg EXCEPT !["C"] = Leg(TRUE), !["B"].defer = FALSE]
           b == [leg["B"] EXCEPT !.defer = FALSE]
           c == [leg EXCEPT !["C"] = Leg(TRUE)]
<1>0. "A" \in Legs /\ "B" \in Legs /\ "C" \in Legs
  BY DEF Legs
<1>1. LegInOrder(Leg(TRUE)) /\ Leg(TRUE).there
  BY DEF Leg, LegInOrder, LegRecord
<1>2. LegsInOrder(c, plan.legs)
  BY <1>0, <1>1, OneLeg DEF LegsInv
<1>3. leg = [d \in Legs |-> leg[d]]
  BY DEF LegsInv, LegsInOrder
<1>4. c["B"] = leg["B"] /\ c["A"] = leg["A"]
  BY <1>0, <1>3
<1>5. ls = [c EXCEPT !["B"] = b]
  BY <1>0, <1>3
<1>6. LegInOrder(b) /\ ("B" \in plan.legs /\ ~b.there => BothKnow(b)) 
  BY <1>0, LegOf DEF LegInOrder, LegRecord, BothKnow
<1> HIDE DEF b, c
<1>7. LegsInOrder([c EXCEPT !["B"] = b], plan.legs)
  BY <1>0, <1>2, <1>6, OneLeg
<1>8. [c EXCEPT !["B"] = b]["A"] = leg["A"]
  BY <1>0, <1>2, <1>4 DEF LegsInOrder
<1>9. leg' \in {leg, HangUp(ls, "B"), HangUp(ls, "C")} /\ plan' = plan /\ work' = work /\ park' = park
  BY DEF TakeOver, NothingToReplace, Replaced
<1>10. LegsInOrder(ls, plan.legs) /\ ls["A"].refer = leg["A"].refer
  BY <1>5, <1>7, <1>8, Zenon
<1> HIDE DEF ls
<1>11. /\ LegsInOrder(HangUp(ls, "B"), plan.legs) /\ HangUp(ls, "B")["A"].refer = leg["A"].refer
       /\ LegsInOrder(HangUp(ls, "C"), plan.legs) /\ HangUp(ls, "C")["A"].refer = leg["A"].refer
  BY <1>0, <1>10, HangUpInOrder
<1>12. LegsInOrder(leg', plan.legs) /\ leg'["A"].refer = leg["A"].refer
  BY <1>9, <1>11 DEF LegsInv
<1> QED
  BY <1>9, <1>12, LegsStep DEF LegsInv
-----------------------------------------------------------------------------
(* Transfers: what the phone is told, in r, of where X is, x, while the    *)
(* monitor does w and a thread parks k.                                    *)

ReferRecord == [kind : plan.kinds, code : Nat, final : Nat, again : {plan.repeats}, had : BOOLEAN]

\* Of one REFER: nothing before its answer, and a success when X has left.
ToldInOrder(e, x) ==
  /\ e.code = 0 => e.final = 0 /\ ~e.had
  /\ e.final = 200 => x # "A"

\* A REFER that failed, or has nowhere to go, has not moved X.
StillThere(e, x) == e.had /\ (e.final > 200 \/ e.kind = "nowhere") => x \in {"A", "gone"}

\* The REFER in hand is the last one that was answered, and not decided.
InHand(r, w, x) ==
  /\ w.n \in DOMAIN r /\ r[w.n].code # 0 /\ r[w.n].final = 0 /\ r[w.n].kind # "nowhere"
  /\ \A n \in DOMAIN r : n > w.n => r[n].code = 0
  /\ r[w.n].had => x \in {"A", "gone"} \/ (w.step = "done" /\ w.ok)
  /\ w.step = "done" /\ w.ok => x # "A"

Parking(r, w, k, x) ==
  /\ k \in DOMAIN r /\ r[k].code # 0 /\ x # "A"
  /\ w.step # "none" => k # w.n

TellsTrue(r, w, k, x) ==
  /\ r \in Seq(ReferRecord) /\ w \in WorkRecord /\ k \in Nat
  /\ \A n \in DOMAIN r : ToldInOrder(r[n], x)
  /\ r # <<>> => StillThere(r[Len(r)], x)
  /\ w.step # "none" => InHand(r, w, x)
  /\ k # 0 => Parking(r, w, k, x)

TellInv == DOMAIN party = {"X", "Y"} /\ TellsTrue(refer, work, park, party["X"])

LEMMA SeqFacts ==
  ASSUME NEW S, NEW r \in Seq(S)
  PROVE  /\ Len(r) \in Nat /\ DOMAIN r = 1 .. Len(r) /\ \A n \in DOMAIN r : r[n] \in S
         /\ r # <<>> => Len(r) \in DOMAIN r
BY EmptySeq, LenProperties, ElementOfSeq

\* X hangs up.
LEMMA TellGone ==
  ASSUME NEW r, NEW w, NEW k, NEW x, TellsTrue(r, w, k, x), NEW y \in {x, "gone"}
  PROVE  TellsTrue(r, w, k, y)
BY DEF TellsTrue, ToldInOrder, StillThere, InHand, Parking

\* One record of r changes.
LEMMA TellOne ==
  ASSUME NEW r, NEW w, NEW k, NEW x, TellsTrue(r, w, k, x), NEW n \in DOMAIN r, NEW e \in ReferRecord,
         ToldInOrder(e, x), e.code # 0, n = Len(r) => StillThere(e, x),
         w.step # "none" => n # w.n /\ r[n].code # 0
  PROVE  TellsTrue([r EXCEPT ![n] = e], w, k, x)
<1> DEFINE t == [r EXCEPT ![n] = e]
<1>1. r \in Seq(ReferRecord) /\ DOMAIN r = 1 .. Len(r) /\ Len(r) \in Nat /\ w \in WorkRecord
  BY SeqFacts DEF TellsTrue
<1>2. t \in Seq(ReferRecord) /\ Len(t) = Len(r) /\ DOMAIN t = DOMAIN r
  BY <1>1, ExceptSeq
<1>3. \A i \in DOMAIN r : t[i] = IF i = n THEN e ELSE r[i]
  BY <1>1
<1> HIDE DEF t
<1>4. \A i \in DOMAIN t : ToldInOrder(t[i], x)
  BY <1>2, <1>3 DEF TellsTrue
<1>5. t # <<>> => StillThere(t[Len(t)], x)
  BY <1>1, <1>2, <1>3, SeqFacts DEF TellsTrue
<1>6. w.step # "none" => InHand(t, w, x)
  BY <1>1, <1>2, <1>3 DEF TellsTrue, InHand, WorkRecord
<1>7. k # 0 => Parking(t, w, k, x)
  BY <1>1, <1>2, <1>3 DEF TellsTrue, Parking
<1> QED
  BY <1>1, <1>2, <1>4, <1>5, <1>6, <1>7 DEF TellsTrue, t

LEMMA TellIdle ==
  ASSUME NEW r, NEW w, NEW k, NEW x, TellsTrue(r, w, k, x)
  PROVE  TellsTrue(r, Idle, k, x)
BY DEF TellsTrue, Parking, Idle, WorkRecord

\* The actions that leave the REFERs alone, and X where it is unless it hangs up.
LEMMA TellParties ==
  ASSUME TellInv, (\E d \in Legs : \/ EndCall(d) \/ ReceiveBye(d) \/ Autodestruct(d) \/ ByeAnswered(d)
                                  \/ DestroyLeg(d))
                  \/ (\E x \in {"X", "Y"} : PartyEnds(x)) \/ TakeOver
  PROVE  TellInv'
<1>1. plan' = plan /\ refer' = refer /\ work' = work /\ park' = park
  BY DEF EndCall, ReceiveBye, Autodestruct, ByeAnswered, DestroyLeg, PartyEnds, TakeOver
<1>2. DOMAIN party' = {"X", "Y"} /\ party'["X"] \in {party["X"], "gone"}
  BY DEF TellInv, EndCall, ReceiveBye, Autodestruct, ByeAnswered, DestroyLeg, PartyEnds, TakeOver,
         NothingToReplace, Replaced
<1>3. TellsTrue(refer, work, park, party'["X"])
  BY <1>2, TellGone DEF TellInv
<1> QED
  BY <1>1, <1>2, <1>3 DEF TellInv, TellsTrue, WorkRecord, ReferRecord

\* X leaves for another place than A.
LEMMA TellMoves ==
  ASSUME NEW r, NEW w, NEW k, NEW x, TellsTrue(r, w, k, x), NEW y, y # "A",
         r # <<>> => StillThere(r[Len(r)], y),
         w.step # "none" => ~r[w.n].had \/ (w.step = "done" /\ w.ok)
  PROVE  TellsTrue(r, w, k, y)
BY DEF TellsTrue, ToldInOrder, InHand, Parking

\* The REFER that has arrived, answered and decided.
FirstAnswer(n, code) ==
  IF refer[n].code # 0 THEN refer[n] ELSE [refer[n] EXCEPT !.code = code, !.had = With("X", "A")]
Decided(n, code) == [FirstAnswer(n, 202) EXCEPT !.final = code]

LEMMA ToldRecord ==
  ASSUME TellInv, NEW n \in DOMAIN refer, NEW code \in Nat, code # 0
  PROVE  /\ FirstAnswer(n, code) \in ReferRecord /\ FirstAnswer(n, code).code # 0
         /\ Told(n, code) = [refer EXCEPT ![n] = FirstAnswer(n, code)]
<1>1. refer \in Seq(ReferRecord) /\ refer[n] \in ReferRecord /\ With("X", "A") \in BOOLEAN
  BY SeqFacts DEF TellInv, TellsTrue, With
<1>2. FirstAnswer(n, code) \in ReferRecord /\ FirstAnswer(n, code).code # 0
  BY <1>1 DEF FirstAnswer, ReferRecord
<1>3. CASE refer[n].code # 0
  BY <1>1, <1>2, <1>3 DEF FirstAnswer, Told
<1>4. CASE refer[n].code = 0
  <2>1. Told(n, code) = [[refer EXCEPT ![n].code = code] EXCEPT ![n].had = With("X", "A")]
    BY <1>4 DEF Told
  <2>2. [[refer EXCEPT ![n].code = code] EXCEPT ![n].had = With("X", "A")]
          = [refer EXCEPT ![n] = [refer[n] EXCEPT !.code = code, !.had = With("X", "A")]]
    BY <1>1
  <2>3. FirstAnswer(n, code) = [refer[n] EXCEPT !.code = code, !.had = With("X", "A")]
    BY <1>4 DEF FirstAnswer
  <2> QED
    BY <1>2, <2>1, <2>2, <2>3, Zenon
<1> QED
  BY <1>3, <1>4

LEMMA DecidedRecord ==
  ASSUME TellInv, NEW n \in DOMAIN refer, NEW last \in Nat
  PROVE  /\ Decided(n, last) \in ReferRecord /\ Decided(n, last).code # 0
         /\ FirstAnswer(n, 202) \in ReferRecord
         /\ Final(Agreed(n), n, last) = [refer EXCEPT ![n] = Decided(n, last)]
         /\ Final(refer, n, last) = [refer EXCEPT ![n] = [refer[n] EXCEPT !.final = last]]
         /\ [refer[n] EXCEPT !.final = last] \in ReferRecord
<1>1. refer \in Seq(ReferRecord) /\ refer[n] \in ReferRecord
  BY SeqFacts DEF TellInv, TellsTrue
<1>3. ASSUME NEW e \in ReferRecord
      PROVE  Final([refer EXCEPT ![n] = e], n, last) = [refer EXCEPT ![n] = [e EXCEPT !.final = last]]
             /\ [e EXCEPT !.final = last] \in ReferRecord
  <2>1. [e EXCEPT !.final = last] \in ReferRecord
    BY <1>3 DEF ReferRecord
  <2>2. Final([refer EXCEPT ![n] = e], n, last) = [refer EXCEPT ![n] = [e EXCEPT !.final = last]]
    BY <1>1 DEF Final
  <2> QED
    BY <2>1, <2>2
<1>4. Final(refer, n, last) = [refer EXCEPT ![n] = [refer[n] EXCEPT !.final = last]]
  BY <1>1 DEF Final
<1>5. 202 \in Nat /\ 202 # 0
  OBVIOUS
<1>6. FirstAnswer(n, 202) \in ReferRecord /\ FirstAnswer(n, 202).code # 0
      /\ Agreed(n) = [refer EXCEPT ![n] = FirstAnswer(n, 202)]
  BY <1>5, ToldRecord DEF Agreed
<1>7. Final(Agreed(n), n, last) = [refer EXCEPT ![n] = Decided(n, last)] /\ Decided(n, last) \in ReferRecord
  BY <1>3, <1>6 DEF Decided
<1>8. [refer[n] EXCEPT !.final = last] \in ReferRecord
  BY <1>1, <1>3
<1>9. Decided(n, last).code # 0
  BY <1>6 DEF Decided, ReferRecord
<1> QED
  BY <1>4, <1>6, <1>7, <1>8, <1>9

LEMMA ReferTells ==
  ASSUME TellInv, NEW again \in BOOLEAN, refer # <<>>,
         again <=> refer[Len(refer)].code # 0,
         ReceiveRefer(Len(refer), refer[Len(refer)].kind, again)
  PROVE  TellInv'
<1> DEFINE n == Len(refer)
           kind == refer[n].kind
           x == party["X"]
<1>1. /\ work = Idle /\ plan' = plan /\ park' = park /\ n \in DOMAIN refer /\ n \in Nat
      /\ refer[n] \in ReferRecord /\ TellsTrue(refer, Idle, park, x)
      /\ ToldInOrder(refer[n], x) /\ StillThere(refer[n], x) /\ DOMAIN party = {"X", "Y"}
  BY SeqFacts DEF TellInv, TellsTrue, ReceiveRefer
<1> HIDE DEF n
<1>0. Idle.step = "none" /\ 0 \in Nat
  BY DEF Idle
<1>11. ASSUME NEW code \in Nat, code # 0
      PROVE  FirstAnswer(n, code) \in ReferRecord /\ FirstAnswer(n, code).code # 0
             /\ Told(n, code) = [refer EXCEPT ![n] = FirstAnswer(n, code)]
  BY <1>0, <1>1, <1>11, ToldRecord
<1>12. ASSUME NEW last \in Nat
      PROVE  Decided(n, last) \in ReferRecord /\ Decided(n, last).code # 0
             /\ Final(Agreed(n), n, last) = [refer EXCEPT ![n] = Decided(n, last)]
  BY <1>1, <1>12, DecidedRecord
<1>13. ASSUME NEW e \in ReferRecord, NEW y, TellsTrue(refer, Idle, park, y),
              ToldInOrder(e, y), StillThere(e, y), e.code # 0
      PROVE  TellsTrue([refer EXCEPT ![n] = e], Idle, park, y)
  BY <1>0, <1>1, <1>13, TellOne
<1>2. ASSUME NEW code \in Nat, code # 0
      PROVE  TellsTrue(Told(n, code), Idle, park, x)
  <2> DEFINE e == FirstAnswer(n, code)
  <2>1. ToldInOrder(e, x) /\ StillThere(e, x)
    BY <1>1, <1>2 DEF FirstAnswer, ToldInOrder, StillThere, ReferRecord, With
  <2>2. e \in ReferRecord /\ e.code # 0 /\ Told(n, code) = [refer EXCEPT ![n] = e]
    BY <1>2, <1>11
  <2> HIDE DEF e
  <2> QED
    BY <1>1, <1>13, <2>1, <2>2
<1>3. ASSUME NEW code \in Nat, code > 200, kind = "nowhere" \/ ~again
      PROVE  TellsTrue(Final(Agreed(n), n, code), Idle, park, x)
  <2> DEFINE e == Decided(n, code)
  <2>1. ToldInOrder(e, x) /\ StillThere(e, x)
    BY <1>1, <1>3 DEF Decided, FirstAnswer, ToldInOrder, StillThere, ReferRecord, With, n
  <2>2. e \in ReferRecord /\ e.code # 0 /\ Final(Agreed(n), n, code) = [refer EXCEPT ![n] = e]
    BY <1>3, <1>12
  <2> HIDE DEF e
  <2> QED
    BY <1>1, <1>13, <2>1, <2>2
<1>4. ASSUME TellsTrue(refer', work', park, party'["X"]), DOMAIN party' = {"X", "Y"} PROVE TellInv'
  BY <1>1, <1>4 DEF TellInv, TellsTrue, WorkRecord, ReferRecord
<1>5. CASE Refused(n, kind, again) /\ UNCHANGED <<party, work>>
  <2>1. 603 \in Nat /\ 491 \in Nat
    OBVIOUS
  <2> QED
    BY <1>1, <1>2, <1>4, <1>5, <2>1 DEF Refused, Answer
<1>6. CASE Unusable(n, kind) /\ UNCHANGED <<party, work>>
  <2>1. 400 \in Nat /\ 404 \in Nat
    OBVIOUS
  <2> QED
    BY <1>1, <1>2, <1>3, <1>4, <1>6, <2>1 DEF Unusable, Answer
<1>7. CASE Dropped(n, kind, again) /\ UNCHANGED <<party, work>>
  <2>1. 603 \in Nat
    OBVIOUS
  <2> QED
    BY <1>1, <1>2, <1>4, <1>7, <2>1 DEF Dropped, Answer
<1>8. CASE NotFound(n, kind) /\ ~again /\ UNCHANGED work
  <2>1. 481 \in Nat /\ 503 \in Nat
    OBVIOUS
  <2> QED
    BY <1>1, <1>3, <1>4, <1>8, <2>1 DEF NotFound
<1>9. CASE kind = "attended" /\ AttendedTransfer(n) /\ ~again /\ UNCHANGED work
  <2>1. CASE NotJoined /\ refer' = Final(Agreed(n), n, 486)
    <3>1. 486 \in Nat
      OBVIOUS
    <3> QED
      BY <1>1, <1>3, <1>4, <1>9, <2>1, <3>1 DEF NotJoined
  <2>2. CASE Joined /\ refer' = Final(Agreed(n), n, 200)
    <3> DEFINE y == party'["X"]
               e == Decided(n, 200)
    <3>1. DOMAIN party' = {"X", "Y"} /\ y # "A"
      BY <1>1, <2>2 DEF Joined, With
    <3>2. StillThere(refer[n], y) /\ TellsTrue(refer, Idle, park, y)
      <4>1. refer[n].code = 0 /\ ~refer[n].had
        BY <1>1, <1>9 DEF ToldInOrder, n
      <4> QED
        BY <1>1, <3>1, <4>1, TellMoves DEF StillThere, Idle, n
    <3>3. 200 \in Nat /\ 202 \in Nat /\ 202 # 0
      OBVIOUS
    <3>4. e \in ReferRecord /\ e.code # 0 /\ refer' = [refer EXCEPT ![n] = e]
          /\ FirstAnswer(n, 202) \in ReferRecord
      BY <1>11, <1>12, <2>2, <3>3, DecidedRecord
    <3>5. e.final = 200 /\ e.kind = "attended"
      BY <1>1, <1>9, <3>4 DEF Decided, FirstAnswer, ReferRecord, n
    <3> HIDE DEF e, y
    <3>6. ToldInOrder(e, y) /\ StillThere(e, y)
      BY <3>1, <3>4, <3>5 DEF ToldInOrder, StillThere
    <3>7. TellsTrue(refer', Idle, park, y)
      BY <1>13, <3>2, <3>4, <3>6
    <3> QED
      BY <1>1, <1>4, <1>9, <3>1, <3>7 DEF y
  <2> QED
    BY <1>9, <2>1, <2>2 DEF AttendedTransfer
<1>10. CASE GoesElsewhere(kind) /\ Started(n, kind) /\ ~again /\ UNCHANGED party
  <2> DEFINE w == [n |-> n, kind |-> kind, step |-> "open", ok |-> With("X", "A")]
             r == Agreed(n)
             e == FirstAnswer(n, 202)
  <2>1. 202 \in Nat /\ 202 # 0 /\ With("X", "A") \in BOOLEAN
    BY DEF With
  <2>2. TellsTrue(r, Idle, park, x) /\ r = [refer EXCEPT ![n] = e] /\ e \in ReferRecord /\ e.code # 0
    BY <1>1, <1>2, <1>11, <2>1 DEF Agreed
  <2>3. w \in WorkRecord
    BY <1>1, <2>1 DEF WorkRecord, ReferRecord
  <2>4. e.final = 0 /\ e.kind = kind /\ kind # "nowhere" /\ (e.had => x = "A")
    BY <1>1, <1>10 DEF FirstAnswer, ToldInOrder, ReferRecord, With, GoesElsewhere, n
  <2>5. /\ w.n = n /\ w.step = "open" /\ DOMAIN r = DOMAIN refer /\ r[n] = e /\ \A i \in DOMAIN refer : i <= n
    BY <1>1, <2>2, SeqFacts DEF TellInv, TellsTrue, n
  <2>6. park # 0 => park # n
    BY <1>1, <1>10 DEF TellsTrue, Parking, n
  <2> HIDE DEF w, r, e
  <2>7. InHand(r, w, x)
    BY <1>1, <2>2, <2>4, <2>5, SeqFacts DEF InHand, TellInv, TellsTrue
  <2>8. TellsTrue(r, w, park, x)
    BY <2>2, <2>3, <2>5, <2>6, <2>7 DEF TellsTrue, Parking
  <2> QED
    BY <1>1, <1>4, <1>10, <2>8 DEF Started, w, r
<1> QED
  BY <1>5, <1>6, <1>7, <1>8, <1>9, <1>10 DEF ReceiveRefer, n

\* While a REFER is in hand, the last one says nothing of where X is.
LEMMA HandFree ==
  ASSUME TellInv, work.step # "none", NEW y
  PROVE  /\ refer # <<>> => StillThere(refer[Len(refer)], y)
         /\ work.n \in DOMAIN refer /\ refer[work.n] \in ReferRecord /\ refer[work.n].code # 0
         /\ InHand(refer, work, party["X"]) /\ TellsTrue(refer, Idle, park, party["X"])
<1>1. /\ InHand(refer, work, party["X"]) /\ refer \in Seq(ReferRecord) /\ work.n \in Nat
      /\ \A n \in DOMAIN refer : ToldInOrder(refer[n], party["X"])
  BY DEF TellInv, TellsTrue, WorkRecord
<1>2. /\ DOMAIN refer = 1 .. Len(refer) /\ Len(refer) \in Nat /\ refer[work.n] \in ReferRecord
      /\ work.n \in DOMAIN refer
  BY <1>1, SeqFacts DEF InHand
<1>3. Len(refer) \in DOMAIN refer /\ (Len(refer) = work.n \/ Len(refer) > work.n)
  BY <1>1, <1>2
<1>4. StillThere(refer[Len(refer)], y)
  BY <1>1, <1>3 DEF InHand, ToldInOrder, StillThere
<1>5. TellsTrue(refer, Idle, park, party["X"])
  BY TellIdle DEF TellInv
<1> QED
  BY <1>1, <1>2, <1>4, <1>5 DEF InHand

\* It is decided, with X at y.
LEMMA TellFinish ==
  ASSUME TellInv, work.step # "none", NEW k, NEW y, TellsTrue(refer, Idle, k, y), NEW last \in Nat, last # 0,
         last = 200 => y # "A", last > 200 => y = "gone" \/ (y = party["X"] /\ ~(work.step = "done" /\ work.ok))
  PROVE  TellsTrue(Final(refer, work.n, last), Idle, k, y)
<1> DEFINE n == work.n
           e == [refer[n] EXCEPT !.final = last]
<1>1. /\ n \in DOMAIN refer /\ refer[n] \in ReferRecord /\ refer[n].code # 0
      /\ InHand(refer, work, party["X"])
  BY HandFree
<1>2. Final(refer, n, last) = [refer EXCEPT ![n] = e] /\ e \in ReferRecord
  BY <1>1, DecidedRecord
<1>3. e.code # 0 /\ e.final = last /\ e.kind # "nowhere" /\ e.had = refer[n].had
  BY <1>1 DEF ReferRecord, InHand
<1>4. ToldInOrder(e, y) /\ StillThere(e, y)
  <2>1. last > 200 /\ e.had => y \in {"A", "gone"}
    BY <1>1, <1>3 DEF InHand
  <2> HIDE DEF e, n
  <2> QED
    BY <1>3, <2>1 DEF ToldInOrder, StillThere
<1>5. Idle.step = "none"
  BY DEF Idle
<1> HIDE DEF e, n
<1>6. TellsTrue([refer EXCEPT ![n] = e], Idle, k, y)
  BY <1>1, <1>2, <1>3, <1>4, <1>5, TellOne
<1> QED
  BY <1>2, <1>6 DEF n

LEMMA TellNext ==
  ASSUME TellInv, plan' = plan, TellsTrue(refer', work', park', party'["X"]), DOMAIN party' = {"X", "Y"}
  PROVE  TellInv'
BY DEF TellInv, TellsTrue, WorkRecord, ReferRecord

LEMMA ParkedTells ==
  ASSUME TellInv, Parked
  PROVE  TellInv'
<1> DEFINE x == party["X"]
           n == work.n
           y == party'["X"]
<1>1. work.step = "open" /\ plan' = plan /\ work' = Idle /\ DOMAIN party' = {"X", "Y"}
  BY DEF Parked, Finish, TellInv
<1>2. /\ n \in DOMAIN refer /\ refer[n].code # 0 /\ InHand(refer, work, x) /\ TellsTrue(refer, Idle, park, x)
      /\ \A z : refer # <<>> => StillThere(refer[Len(refer)], z)
  BY <1>1, HandFree
<1>3. Idle.step = "none" /\ 500 \in Nat /\ n \in Nat
  BY DEF Idle, TellInv, TellsTrue, WorkRecord
<1>4. CASE y = (IF With("X", "A") THEN "parked" ELSE x) /\ park' = n /\ UNCHANGED refer
  <2>1. y # "A"
    BY <1>4 DEF With
  <2>2. TellsTrue(refer, Idle, park, y)
    <3>1. CASE y = x
      BY <1>2, <3>1
    <3>2. CASE y # x
      BY <1>2, <1>3, <2>1, TellMoves
    <3> QED
      BY <3>1, <3>2
  <2> HIDE DEF y, n
  <2>3. TellsTrue(refer, Idle, n, y)
    BY <1>2, <1>3, <2>1, <2>2 DEF TellsTrue, Parking
  <2> QED
    BY <1>1, <1>4, <2>3, TellNext DEF y
<1>5. CASE y = x /\ park' = park /\ refer' = Final(refer, n, 500)
  <2>1. TellsTrue(Final(refer, n, 500), Idle, park, x)
    BY <1>1, <1>2, <1>3, TellFinish
  <2> QED
    BY <1>1, <1>5, <2>1, TellNext
<1>6. CASE y = "gone" /\ park' = park /\ refer' = Final(refer, n, 500)
  <2>1. TellsTrue(refer, Idle, park, "gone")
    BY <1>2, TellGone
  <2>2. TellsTrue(Final(refer, n, 500), Idle, park, "gone")
    BY <1>1, <1>3, <2>1, TellFinish
  <2> QED
    BY <1>1, <1>6, <2>2, TellNext
<1> QED
  BY <1>4, <1>5, <1>6 DEF Parked, Finish, TellInv

LEMMA ParkThreadTells ==
  ASSUME TellInv, ParkThread
  PROVE  TellInv'
<1> DEFINE x == party["X"]
           y == party'["X"]
<1>1. park # 0 /\ park' = 0 /\ plan' = plan /\ work' = work /\ DOMAIN party' = {"X", "Y"}
  BY DEF ParkThread, TellInv
<1>2. PICK last \in {200, 503} : refer' = Final(refer, park, last) /\ y = (IF last = 200 THEN x ELSE "gone")
  BY DEF ParkThread, TellInv
<1>3. Parking(refer, work, park, x) /\ TellsTrue(refer, work, park, x)
  BY <1>1 DEF TellInv, TellsTrue
<1>4. TellsTrue(refer, work, park, y)
  BY <1>2, <1>3, TellGone
<1> DEFINE e == [refer[park] EXCEPT !.final = last]
<1>5. refer' = [refer EXCEPT ![park] = e] /\ e \in ReferRecord
  <2>1. last \in Nat /\ park \in DOMAIN refer
    BY <1>2, <1>3 DEF Parking
  <2> QED
    BY <1>2, <2>1, DecidedRecord
<1>6. e.code # 0 /\ e.final = last /\ e.kind = refer[park].kind /\ e.had = refer[park].had
  <2>1. refer[park] \in ReferRecord /\ refer[park].code # 0
    BY <1>3, SeqFacts DEF TellsTrue, Parking
  <2> QED
    BY <2>1 DEF ReferRecord
<1>7. ToldInOrder(e, y)
  BY <1>2, <1>3, <1>6 DEF ToldInOrder, Parking
<1>8. park = Len(refer) => StillThere(e, y)
  <2>1. park = Len(refer) => StillThere(refer[park], y)
    <3>1. park = Len(refer) => refer # <<>>
      BY <1>3, SeqFacts DEF Parking, TellsTrue
    <3> QED
      BY <1>4, <3>1 DEF TellsTrue
  <2>2. CASE last = 200
    BY <1>6, <2>1, <2>2 DEF StillThere
  <2>3. CASE last = 503
    BY <1>2, <2>3 DEF StillThere
  <2> QED
    BY <2>2, <2>3
<1> HIDE DEF e, y
<1>9. TellsTrue([refer EXCEPT ![park] = e], work, park, y)
  <2>1. park \in DOMAIN refer /\ (work.step # "none" => park # work.n /\ refer[park].code # 0)
    BY <1>3 DEF Parking
  <2>2. /\ e \in ReferRecord /\ ToldInOrder(e, y) /\ e.code # 0
        /\ park = Len(refer) => StillThere(e, y)
    BY <1>5, <1>6, <1>7, <1>8
  <2> QED
    BY <1>4, <2>1, <2>2, TellOne
<1>10. TellsTrue(refer', work', park', y)
  BY <1>1, <1>5, <1>9 DEF TellsTrue
<1> QED
  BY <1>1, <1>10, TellNext DEF y

LEMMA PreparedTells ==
  ASSUME TellInv, Prepared
  PROVE  TellInv'
<1> DEFINE x == party["X"]
           n == work.n
<1>1. work.step = "open" /\ plan' = plan /\ party' = party /\ park' = park /\ DOMAIN party = {"X", "Y"}
      /\ 503 \in Nat /\ work \in WorkRecord
  BY DEF Prepared, TellInv, TellsTrue
<1>2. InHand(refer, work, x) /\ TellsTrue(refer, Idle, park, x) /\ TellsTrue(refer, work, park, x)
  BY <1>1, HandFree DEF TellInv
<1>3. CASE work' = Idle /\ refer' = Final(refer, n, 503)
  <2>1. TellsTrue(Final(refer, n, 503), Idle, park, x)
    BY <1>1, <1>2, TellFinish
  <2> QED
    BY <1>1, <1>3, <2>1, TellNext
<1>4. CASE work' = [work EXCEPT !.step = "goto"] /\ UNCHANGED refer
  <2> DEFINE w == [work EXCEPT !.step = "goto"]
  <2>1. w \in WorkRecord /\ w.step = "goto" /\ w.n = n
    BY <1>1 DEF WorkRecord
  <2> HIDE DEF w
  <2>2. TellsTrue(refer, w, park, x)
    BY <1>1, <1>2, <2>1 DEF TellsTrue, InHand, Parking
  <2> QED
    BY <1>1, <1>4, <2>2, TellNext DEF w
<1> QED
  BY <1>3, <1>4 DEF Prepared, Finish

LEMMA GotoTells ==
  ASSUME TellInv, Goto
  PROVE  TellInv'
<1> DEFINE x == party["X"]
           n == work.n
           y == party'["X"]
           w == work'
<1>1. work.step = "goto" /\ plan' = plan /\ park' = park /\ refer' = refer /\ DOMAIN party' = {"X", "Y"}
      /\ work \in WorkRecord
  BY DEF Goto, TellInv, TellsTrue
<1>2. /\ InHand(refer, work, x) /\ TellsTrue(refer, Idle, park, x) /\ TellsTrue(refer, work, park, x)
      /\ \A z : refer # <<>> => StillThere(refer[Len(refer)], z)
  BY <1>1, HandFree DEF TellInv
<1>3. PICK ok \in BOOLEAN : /\ w = [work EXCEPT !.step = "done", !.ok = ok]
                           /\ y = IF ok /\ x = "A" THEN "dialplan" ELSE x
  BY DEF Goto, With, TellInv
<1>4. w \in WorkRecord /\ w.step = "done" /\ w.n = n /\ w.ok = ok
  BY <1>1, <1>3 DEF WorkRecord
<1>5. TellsTrue(refer, Idle, park, y)
  <2>1. CASE y = x
    BY <1>2, <2>1
  <2>2. CASE y # x
    <3>1. Idle.step = "none" /\ y # "A"
      BY <1>3, <2>2 DEF Idle
    <3> HIDE DEF y
    <3> QED
      BY <1>2, <3>1, TellMoves
  <2> QED
    BY <2>1, <2>2
<1>6. InHand(refer, w, y)
  BY <1>1, <1>2, <1>3, <1>4 DEF InHand
<1>7. park # 0 => park # n
  BY <1>1, <1>2 DEF TellsTrue, Parking
<1> HIDE DEF w, y
<1>8. TellsTrue(refer, w, park, y)
  BY <1>4, <1>5, <1>6, <1>7 DEF TellsTrue, Parking
<1> QED
  BY <1>1, <1>8, TellNext DEF w, y

LEMMA TransferredTells ==
  ASSUME TellInv, Transferred
  PROVE  TellInv'
<1> DEFINE x == party["X"]
<1>1. work.step = "done" /\ plan' = plan /\ party' = party /\ park' = park /\ DOMAIN party = {"X", "Y"}
      /\ 503 \in Nat /\ 200 \in Nat /\ work' = Idle
  BY DEF Transferred, TellInv, Finish
<1>2. InHand(refer, work, x) /\ TellsTrue(refer, Idle, park, x)
  BY <1>1, HandFree
<1>3. PICK last \in {200, 503} : /\ refer' = Final(refer, work.n, last)
                                /\ last = IF work.ok THEN 200 ELSE 503
  BY DEF Transferred, Finish
<1>4. last \in Nat /\ last # 0 /\ (last = 200 => x # "A") /\ (last > 200 => ~work.ok)
  BY <1>1, <1>2, <1>3 DEF InHand
<1>5. TellsTrue(Final(refer, work.n, last), Idle, park, x)
  BY <1>1, <1>2, <1>4, TellFinish
<1> QED
  BY <1>1, <1>3, <1>5, TellNext

LEMMA SendTells ==
  ASSUME TellInv, NEW kind \in plan.kinds, SendRefer(kind)
  PROVE  TellInv'
<1> DEFINE e == [kind |-> kind, code |-> 0, final |-> 0, again |-> plan.repeats, had |-> FALSE]
           x == party["X"]
           r == Append(refer, e)
<1>1. /\ refer' = r /\ plan' = plan /\ work' = work /\ park' = park /\ party' = party
      /\ DOMAIN party = {"X", "Y"} /\ TellsTrue(refer, work, park, x)
  BY DEF SendRefer, TellInv
<1>2. e \in ReferRecord /\ ToldInOrder(e, x) /\ StillThere(e, x) /\ e.code = 0
  BY DEF ReferRecord, ToldInOrder, StillThere
<1>3. refer \in Seq(ReferRecord) /\ Len(refer) \in Nat /\ DOMAIN refer = 1 .. Len(refer) /\ work \in WorkRecord
  BY <1>1, SeqFacts DEF TellsTrue
<1> HIDE DEF e
<1>4. /\ r \in Seq(ReferRecord) /\ Len(r) = Len(refer) + 1 /\ DOMAIN r = 1 .. Len(refer) + 1
      /\ r[Len(refer) + 1] = e /\ \A n \in DOMAIN refer : r[n] = refer[n]
  BY <1>2, <1>3, AppendProperties
<1> HIDE DEF r
<1>5. DOMAIN refer \subseteq DOMAIN r /\ \A n \in DOMAIN r : n \in DOMAIN refer \/ n = Len(refer) + 1
  BY <1>3, <1>4
<1>6. \A n \in DOMAIN r : ToldInOrder(r[n], x)
  BY <1>1, <1>2, <1>4, <1>5 DEF TellsTrue
<1>7. work.step # "none" => InHand(r, work, x)
  BY <1>1, <1>2, <1>4, <1>5 DEF TellsTrue, InHand
<1>8. park # 0 => Parking(r, work, park, x)
  BY <1>1, <1>4, <1>5 DEF TellsTrue, Parking
<1>9. TellsTrue(r, work, park, x)
  BY <1>1, <1>2, <1>3, <1>4, <1>6, <1>7, <1>8 DEF TellsTrue
<1> QED
  BY <1>1, <1>9, TellNext
-----------------------------------------------------------------------------
TransferInv == LegsInv /\ TellInv

LEMMA InitTransfer ==
  ASSUME NEW t, TransferInit(t)
  PROVE  TransferInv
<1>1. /\ plan = t /\ leg = [d \in Legs |-> Leg(d \in t.legs)] /\ work = Idle /\ park = 0 /\ refer = <<>>
      /\ DOMAIN party = {"X", "Y"}
  BY DEF TransferInit
<1>2. \A d \in Legs : LegInOrder(Leg(d \in t.legs)) /\ (Leg(d \in t.legs).there = (d \in t.legs))
  <2>1. ASSUME NEW b \in BOOLEAN PROVE LegInOrder(Leg(b)) /\ (Leg(b).there = b)
    BY DEF Leg, LegInOrder, LegRecord
  <2>2. \A d \in Legs : (d \in t.legs) \in BOOLEAN
    OBVIOUS
  <2> QED
    BY <2>1, <2>2
<1>3. LegsInOrder(leg, plan.legs)
  BY <1>1, <1>2 DEF LegsInOrder
<1>4. Idle \in WorkRecord /\ Idle.step = "none"
  BY DEF Idle, WorkRecord
<1>5. LegsInv
  BY <1>1, <1>3, <1>4 DEF LegsInv
<1>6. refer \in Seq(ReferRecord) /\ DOMAIN refer = {}
  BY <1>1
<1>7. TellInv
  BY <1>1, <1>4, <1>6 DEF TellInv, TellsTrue
<1> QED
  BY <1>5, <1>7 DEF TransferInv

LEMMA TransferKeeps ==
  ASSUME TransferInv, TransferNext \/ UNCHANGED transferVars
  PROVE  TransferInv'
<1>1. LegsInv /\ TellInv /\ refer \in Seq(ReferRecord)
  BY DEF TransferInv, TellInv, TellsTrue
<1>2. ASSUME NEW kind \in plan.kinds, SendRefer(kind) PROVE TransferInv'
  <2>1. LegsInv'
    BY <1>1, <1>2 DEF SendRefer, LegsInv, WorkRecord
  <2> QED
    BY <1>1, <1>2, <2>1, SendTells DEF TransferInv
<1>3. CASE Arrive \/ ArriveAgain
  <2> DEFINE n == Len(refer)
             kind == refer[n].kind
  <2>1. refer # <<>>
    BY <1>3 DEF Arrive, ArriveAgain
  <2>2. PICK again \in BOOLEAN : ReceiveRefer(n, kind, again) /\ (again <=> refer[n].code # 0)
    BY <1>3 DEF Arrive, ArriveAgain, Last
  <2>3. n \in Nat /\ refer[n] \in ReferRecord
    BY <1>1, <2>1, SeqFacts
  <2>4. kind \in plan.kinds
    BY <2>3 DEF ReferRecord
  <2>5. TellInv'
    BY <1>1, <2>1, <2>2, ReferTells
  <2> HIDE DEF n, kind
  <2>6. LegsInv'
    BY <1>1, <2>2, <2>3, <2>4, ReferLegs
  <2> QED
    BY <2>5, <2>6 DEF TransferInv
<1>4. CASE Parked \/ ParkThread \/ Prepared \/ Goto \/ Transferred
  BY <1>1, <1>4, WorkLegs, ParkedTells, ParkThreadTells, PreparedTells, GotoTells, TransferredTells DEF TransferInv
<1>5. CASE TakeOver
  BY <1>1, <1>5, TakeOverLegs, TellParties DEF TransferInv
<1>6. CASE \E x \in {"X", "Y"} : PartyEnds(x)
  <2>1. LegsInv'
    BY <1>1, <1>6 DEF PartyEnds, LegsInv, WorkRecord
  <2> QED
    BY <1>1, <1>6, <2>1, TellParties DEF TransferInv
<1>7. CASE \E d \in Legs : EndCall(d) \/ ReceiveBye(d) \/ Autodestruct(d) \/ ByeAnswered(d) \/ DestroyLeg(d)
  BY <1>1, <1>7, LegsTimers, TellParties DEF TransferInv
<1>8. CASE UNCHANGED transferVars
  BY <1>1, <1>8 DEF transferVars, TransferInv, LegsInv, TellInv, TellsTrue, WorkRecord, ReferRecord
<1> QED
  BY <1>2, <1>3, <1>4, <1>5, <1>6, <1>7, <1>8 DEF TransferNext
-----------------------------------------------------------------------------
(* Matching: our INVITE is forked to phones.  No call rings here.          *)

OutRecord ==
  [tag : {"us"}, their : cast.phones \cup {NoTag}, est : BOOLEAN, method : {"INVITE", "INFO", "BYE"}, seq : {0},
   branch : {NoTag}, uri : {NoTag}, invited : BOOLEAN, done : BOOLEAN, talk : BOOLEAN, bye : BOOLEAN,
   need : BOOLEAN, rings : {FALSE}, icseq : {0}, there : BOOLEAN]

OutMessage(m) ==
  \/ m.type \in {"response", "ours"} /\ m.to \in cast.phones \cup {NoTag}
  \/ m.type = "request" /\ m.method \in {"BYE", "INFO"}

OutInv == pvts \in Seq(OutRecord) /\ DOMAIN phone = cast.phones /\ \A m \in air : OutMessage(m)

\* A set of numbers has a least one.
LEMMA LeastNat ==
  ASSUME NEW S, S \subseteq Nat, S # {}
  PROVE  \E i \in S : \A j \in S : i <= j
<1> DEFINE R == OpToRel(<, Nat)
<1>1. IsWellFoundedOn(R, Nat)
  BY NatLessThanWellFounded
<1>2. \A x, y \in Nat : y < x => <<y, x>> \in R
  BY DEF OpToRel
<1> HIDE DEF R
<1>3. PICK x \in S : \A y \in S : ~(<<y, x>> \in R)
  BY <1>1, WFMin
<1>4. ASSUME NEW j \in S PROVE x <= j
  <2>1. x \in Nat /\ j \in Nat
    OBVIOUS
  <2>2. ~(<<j, x>> \in R)
    BY <1>3
  <2>3. ~(j < x)
    BY <2>1, <2>2, <1>2
  <2> QED
    BY <2>1, <2>3
<1> QED
  BY <1>4

\* find_call: the first dialog that ends the search.
LEMMA FoundFacts ==
  ASSUME DOMAIN pvts \subseteq Nat \ {0}, NEW m
  PROVE  /\ Found(m) = 0 <=> Ends(m) = {}
         /\ Found(m) # 0 => Found(m) \in Ends(m) /\ Found(m) \in DOMAIN pvts /\ pvts[Found(m)].there
                              /\ Match(pvts[Found(m)], m) \in {"match", "loop"}
<1>1. Ends(m) \subseteq Nat \ {0}
  BY DEF Ends, Live
<1>2. ASSUME Ends(m) # {} PROVE Min(Ends(m)) \in Ends(m)
  <2>1. \E i \in Ends(m) : \A j \in Ends(m) : i <= j
    BY <1>1, <1>2, LeastNat
  <2> QED
    BY <2>1 DEF Min
<1> QED
  BY <1>1, <1>2 DEF Found, Ends, Live

LEMMA OutMessages ==
  ASSUME NEW ph \in cast.phones \cup {NoTag}, NEW method, NEW code
  PROVE  /\ OutMessage(Response(method, code, ph)) /\ OutMessage(ToPhone(method, ph))
         /\ OutMessage(Request("INFO", ph, "us")) /\ OutMessage(Request("BYE", ph, "us"))
BY DEF OutMessage, Response, ToPhone, Request

LEMMA OneOut ==
  ASSUME NEW s \in Seq(OutRecord), NEW i, NEW d, i \in DOMAIN s => d \in OutRecord
  PROVE  [s EXCEPT ![i] = d] \in Seq(OutRecord)
<1>1. CASE i \in DOMAIN s
  BY <1>1, ExceptSeq, SeqFacts
<1>2. CASE i \notin DOMAIN s
  <2>1. [s EXCEPT ![i] = d] = s
    BY <1>2, SeqFacts
  <2> QED
    BY <2>1
<1> QED
  BY <1>1, <1>2

LEMMA OutReceives ==
  ASSUME OutInv, NEW m \in air, ReceiveResponse(m) \/ ReceiveInDialog(m)
  PROVE  pvts' \in Seq(OutRecord) /\ \A n \in air' : OutMessage(n)
<1>1. pvts \in Seq(OutRecord) /\ OutMessage(m) /\ (\A n \in air : OutMessage(n))
      /\ \A i \in DOMAIN pvts : pvts[i] \in OutRecord
  BY SeqFacts DEF OutInv
<1>2. CASE ReceiveInDialog(m)
  <2>1. m.method \in {"BYE", "INFO"} /\ air' \subseteq air
    BY <1>2 DEF ReceiveInDialog, Is
  <2> DEFINE k == Found(m)
             d == Asked(pvts[k], m)
  <2>2. k \in DOMAIN pvts => d \in OutRecord
    <3>1. ASSUME NEW c \in OutRecord PROVE Asked(c, m) \in OutRecord
      BY <2>1 DEF Asked, OutRecord
    <3> QED
      BY <1>1, <3>1
  <2>3. pvts' = pvts \/ pvts' = [pvts EXCEPT ![k] = d]
    BY <1>2 DEF ReceiveInDialog, Is
  <2> HIDE DEF k, d
  <2> QED
    BY <1>1, <2>1, <2>2, <2>3, OneOut
<1>3. CASE ReceiveResponse(m)
  <2> DEFINE k == Found(m)
             d == Responded(pvts[k], m)
  <2>1. m.to \in cast.phones \cup {NoTag}
    BY <1>1, <1>3 DEF ReceiveResponse, OutMessage
  <2>2. ASSUME NEW c \in OutRecord PROVE Responded(c, m) \in OutRecord
    <3>1. Late(c) \in BOOLEAN /\ (c.talk \/ ~c.done) \in BOOLEAN /\ (c.bye \/ Late(c)) \in BOOLEAN
      BY DEF Late
    <3>2. /\ [c EXCEPT !.bye = FALSE, !.need = TRUE, !.est = FALSE] \in OutRecord
          /\ [c EXCEPT !.their = IF @ = NoTag THEN m.to ELSE @] \in OutRecord
          /\ [c EXCEPT !.their = m.to, !.done = TRUE, !.est = TRUE, !.talk = @ \/ ~c.done, !.bye = @ \/ Late(c)]
               \in OutRecord
      BY <2>1, <3>1, ZenonT(40) DEF OutRecord
    <3> QED
      BY <3>2 DEF Responded
  <2>3. CASE k # 0 /\ Is(m, d, IF m.method = "BYE" \/ m.code # 200 THEN {}
                                 ELSE {ToPhone("ACK", d.their)} \cup
                                      {ToPhone("BYE", ph) : ph \in IF Late(pvts[k]) THEN {d.their} ELSE {}})
    <3>1. k \in DOMAIN pvts => d \in OutRecord
      BY <1>1, <2>2
    <3>2. pvts' \in Seq(OutRecord)
      <4>1. pvts' = [pvts EXCEPT ![k] = d]
        BY <2>3 DEF Is
      <4> HIDE DEF k, d
      <4> QED
        BY <1>1, <3>1, <4>1, OneOut
    <3>3. air' \subseteq air \cup {ToPhone("ACK", d.their), ToPhone("BYE", d.their)}
      BY <2>3 DEF Is
    <3>4. k \in DOMAIN pvts => d.their \in cast.phones \cup {NoTag}
      <4> HIDE DEF d
      <4> QED
        BY <3>1 DEF OutRecord
    <3>5. k \in DOMAIN pvts
      BY <1>1, <2>3, FoundFacts, SeqFacts
    <3> HIDE DEF k, d
    <3> QED
      BY <1>1, <3>2, <3>3, <3>4, <3>5, OutMessages
  <2>4. CASE k = 0 /\ \E i \in Forks(m) : Forked(i, m)
    <3>1. PICK i \in Forks(m) : Forked(i, m)
      BY <2>4
    <3>2. pvts[i].est \in BOOLEAN
      BY <1>1, <3>1 DEF Forks, Live, OutRecord
    <3>3. [Pvt EXCEPT !.their = m.to, !.est = pvts[i].est, !.done = TRUE, !.bye = TRUE, !.need = TRUE] \in OutRecord
      BY <2>1, <3>2 DEF Pvt, OutRecord
    <3>4. pvts' \in Seq(OutRecord)
      BY <1>1, <3>1, <3>3, AppendProperties DEF Forked
    <3> QED
      BY <1>1, <2>1, <3>1, <3>4, OutMessages DEF Forked
  <2>5. CASE pvts' = pvts /\ air' = air \ {m}
    BY <1>1, <2>5
  <2> QED
    BY <1>3, <2>3, <2>4, <2>5 DEF ReceiveResponse
<1> QED
  BY <1>2, <1>3

LEMMA OutKeeps ==
  ASSUME OutInv, cast.copies = {}, MatchNext
  PROVE  cast' = cast /\ OutInv'
<1>1. /\ pvts \in Seq(OutRecord) /\ DOMAIN phone = cast.phones /\ \A m \in air : OutMessage(m)
      /\ \A i \in DOMAIN pvts : pvts[i] \in OutRecord /\ pvts[i].their \in cast.phones \cup {NoTag}
  <2>1. pvts \in Seq(OutRecord) /\ \A i \in DOMAIN pvts : pvts[i] \in OutRecord
    BY SeqFacts DEF OutInv
  <2>2. \A r \in OutRecord : r.their \in cast.phones \cup {NoTag}
    BY DEF OutRecord
  <2> QED
    BY <2>1, <2>2 DEF OutInv
<1>2. SUFFICES cast' = cast /\ DOMAIN phone' = DOMAIN phone /\ pvts' \in Seq(OutRecord)
               /\ \A m \in air' : OutMessage(m)
  BY <1>1 DEF OutInv, OutMessage, OutRecord
<1>3. CASE Receive
  <2>1. PICK m \in air : ReceiveResponse(m) \/ ReceiveInDialog(m) \/ ReceiveInvite(m)
    BY <1>3 DEF Receive
  <2>2. ~ReceiveInvite(m)
    BY <1>1 DEF ReceiveInvite, OutMessage
  <2>3. cast' = cast /\ DOMAIN phone' = DOMAIN phone
    BY <2>1, <2>2 DEF ReceiveResponse, ReceiveInDialog
  <2> QED
    BY <2>1, <2>2, <2>3, OutReceives
<1>4. CASE Calls \/ Fault
  BY <1>1, <1>4 DEF Calls, Fault
<1>5. CASE \E m \in air : GetOurs(m)
  <2>1. PICK m \in air : GetOurs(m)
    BY <1>5
  <2>2. m.to \in cast.phones \cup {NoTag}
    BY <1>1, <2>1 DEF GetOurs, OutMessage
  <2>3. \A n \in air' : OutMessage(n)
    BY <1>1, <2>1, <2>2, OutMessages DEF GetOurs
  <2> QED
    BY <1>1, <2>1, <2>3 DEF GetOurs
<1>6. CASE \E i \in DOMAIN pvts : Acknowledged(i) \/ HangUpCall(i) \/ ByeAgain(i) \/ DestroyPvt(i)
  <2>1. PICK i \in DOMAIN pvts : HangUpCall(i) \/ ByeAgain(i) \/ DestroyPvt(i)
    BY <1>6 DEF Acknowledged
  <2>2. /\ [pvts[i] EXCEPT !.talk = FALSE, !.bye = TRUE] \in OutRecord
        /\ [pvts[i] EXCEPT !.there = FALSE] \in OutRecord
    BY <1>1, <2>1, ZenonT(40) DEF OutRecord
  <2>3. cast' = cast /\ phone' = phone /\ \A m \in air' : OutMessage(m)
    BY <1>1, <2>1, OutMessages DEF HangUpCall, ByeAgain, DestroyPvt
  <2>4. \/ pvts' = pvts \/ pvts' = [pvts EXCEPT ![i] = [pvts[i] EXCEPT !.there = FALSE]]
        \/ pvts' = [pvts EXCEPT ![i] = [pvts[i] EXCEPT !.talk = FALSE, !.bye = TRUE]]
    BY <2>1 DEF HangUpCall, ByeAgain, DestroyPvt
  <2>5. pvts' \in Seq(OutRecord)
    <3>1. [pvts EXCEPT ![i] = [pvts[i] EXCEPT !.there = FALSE]] \in Seq(OutRecord)
      BY <1>1, <2>2, OneOut
    <3>2. [pvts EXCEPT ![i] = [pvts[i] EXCEPT !.talk = FALSE, !.bye = TRUE]] \in Seq(OutRecord)
      BY <1>1, <2>2, OneOut
    <3> QED
      BY <1>1, <2>4, <3>1, <3>2
  <2> QED
    BY <2>3, <2>5
<1>7. CASE \E ph \in DOMAIN phone :
             Rings(ph) \/ Answers(ph) \/ AnswersAgain(ph) \/ Informs(ph) \/ Leaves(ph) \/ LeavesAgain(ph)
  <2>1. PICK ph \in DOMAIN phone :
               Rings(ph) \/ Answers(ph) \/ AnswersAgain(ph) \/ Informs(ph) \/ Leaves(ph) \/ LeavesAgain(ph)
    BY <1>7
  <2>2. ph \in cast.phones \cup {NoTag}
    BY <1>1
  <2>3. \A m \in air' : OutMessage(m)
    BY <1>1, <2>1, <2>2, OutMessages DEF Phone, Rings, Answers, AnswersAgain, Informs, Leaves, LeavesAgain
  <2> QED
    BY <1>1, <2>1, <2>3 DEF Phone, Rings, Answers, AnswersAgain, Informs, Leaves, LeavesAgain
<1> QED
  BY <1>3, <1>4, <1>5, <1>6, <1>7 DEF MatchNext

-----------------------------------------------------------------------------
(* Matching: copies of the INVITE of a caller reach us.                    *)

Uris     == {c.uri : c \in cast.copies}
OurTags  == {<<"us", n>> : n \in Nat}
Branches == {<<c.branch, auth>> : c \in cast.copies, auth \in BOOLEAN}

InRecord ==
  [tag : OurTags, their : {"caller", "caller2"}, est : {FALSE}, method : {"INVITE", "ACK"},
   seq : {1, 2}, branch : Branches, uri : Uris, invited : {FALSE}, done : {FALSE}, talk : BOOLEAN,
   bye : {FALSE}, need : {FALSE}, rings : BOOLEAN, icseq : {1, 2}, there : {TRUE}]

\* A dialog hears the INVITE with the name only when the caller was asked for it.
InDialog(d) ==
  /\ d \in InRecord
  /\ d.seq <= d.icseq
  /\ d.icseq = 2 => cast.auth
  /\ ~cast.auth => d.their = "caller"

InMessage(m) ==
  /\ m.type = "request" /\ m.method = "INVITE" /\ m.to = NoTag
  /\ m.auth \in BOOLEAN /\ (m.auth => cast.auth)
  /\ m.seq = IF m.auth THEN 2 ELSE 1
  /\ m.from \in {"caller", "caller2"} /\ (~m.auth => m.from = "caller")
  /\ m.uri \in Uris /\ m.branch \in Branches

\* Before a second dialog rings for a URI, the first one has been answered and acknowledged, and
\* it began with the INVITE that has the name.
OneRings(s) ==
  \A i, j \in DOMAIN s :
    i < j /\ s[j].rings /\ s[i].uri = s[j].uri => s[i].method = "ACK" /\ (cast.auth => s[i].seq = 2)

InInv ==
  /\ pvts \in Seq(InRecord) /\ (\A i \in DOMAIN pvts : InDialog(pvts[i])) /\ OneRings(pvts)
  /\ \A m \in air : InMessage(m)
  /\ DOMAIN phone = {}
  /\ round \in Nat /\ (round > 1 => cast.auth)

\* What match_req_to_dialog says of a dialog and a copy of the INVITE.
LEMMA CopyMatch ==
  ASSUME NEW d, InDialog(d), NEW m, InMessage(m)
  PROVE  /\ Match(d, m) \in {"not", "match", "loop"}
         /\ Match(d, m) = "not" /\ d.uri = m.uri /\ (m.auth \/ ~cast.auth) =>
              d.method = "ACK" /\ d.seq = m.seq
         /\ Match(d, m) = "match" /\ m.auth => d.uri = m.uri
<1>1. /\ Match(d, m) = MatchRequest(d, m) /\ m.to = NoTag /\ m.method = "INVITE"
      /\ d.method \in {"INVITE", "ACK"} /\ (~cast.auth => d.their = "caller" /\ m.from = "caller")
  BY DEF Match, InMessage, InDialog, InRecord
<1> QED
  BY <1>1, Zenon DEF MatchRequest, OtherWay

LEMMA CopySent ==
  ASSUME NEW c \in cast.copies, NEW f \in {"caller", "caller2"}, NEW auth \in BOOLEAN,
         auth => cast.auth, ~auth => f = "caller"
  PROVE  InMessage(Invite(c, f, auth))
BY DEF InMessage, Invite, Request, Uris, Branches

LEMMA CopyReceived ==
  ASSUME InInv, NEW m \in air, ReceiveInvite(m)
  PROVE  pvts' \in Seq(InRecord) /\ (\A i \in DOMAIN pvts' : InDialog(pvts'[i])) /\ OneRings(pvts')
<1> DEFINE k == Found(m)
<1>1. /\ pvts \in Seq(InRecord) /\ (\A i \in DOMAIN pvts : InDialog(pvts[i]) /\ pvts[i] \in InRecord)
      /\ OneRings(pvts) /\ InMessage(m) /\ Len(pvts) \in Nat /\ DOMAIN pvts = 1 .. Len(pvts)
  BY SeqFacts DEF InInv
<1>2. \A i \in DOMAIN pvts : pvts[i].there
  BY <1>1 DEF InRecord
<1>3. /\ k = 0 <=> Ends(m) = {}
      /\ k # 0 => k \in Ends(m) /\ k \in DOMAIN pvts
  BY <1>1, FoundFacts
<1>4. k # 0 => \A i \in DOMAIN pvts : i < k => Match(pvts[i], m) = "not"
  <2>1. Ends(m) \subseteq Nat /\ (k # 0 => k = Min(Ends(m)) /\ Ends(m) # {})
    BY <1>1, <1>3 DEF Found, Ends, Live
  <2>2. k # 0 => \A i \in Ends(m) : k <= i
    <3>1. ASSUME k # 0 PROVE \E i \in Ends(m) : \A j \in Ends(m) : i <= j
      BY <2>1, <3>1, LeastNat
    <3> QED
      BY <2>1, <3>1 DEF Min
  <2>3. k # 0 => \A i \in DOMAIN pvts : i < k => i \notin Ends(m)
    <3> HIDE DEF k
    <3> QED
      BY <1>1, <1>3, <2>2
  <2> HIDE DEF k
  <2> QED
    BY <1>1, <1>2, <2>3, CopyMatch DEF Ends, Live
<1>5. k = 0 => \A i \in DOMAIN pvts : Match(pvts[i], m) = "not"
  BY <1>1, <1>2, <1>3, CopyMatch DEF Ends, Live
<1> HIDE DEF k
<1>6. CASE k # 0 /\ Match(pvts[k], m) = "match" /\ pvts' = [pvts EXCEPT ![k] = Invited(@, m)]
  <2>1. CASE m.seq <= pvts[k].icseq
    <3>1. pvts' = pvts
      BY <1>1, <1>3, <1>6, <2>1 DEF Invited
    <3> QED
      BY <1>1, <3>1
  <2>2. CASE ~(m.seq <= pvts[k].icseq)
    <3> DEFINE e(c, f, n) == [c EXCEPT !.their = f, !.icseq = n, !.method = "INVITE", !.rings = TRUE]
               d == e(pvts[k], m.from, m.seq)
    <3>1. /\ k \in DOMAIN pvts /\ m.auth /\ cast.auth /\ m.seq = 2 /\ pvts[k].seq = 1
          /\ m.from \in {"caller", "caller2"} /\ pvts[k].uri = m.uri
      <4>1. k \in DOMAIN pvts /\ InDialog(pvts[k]) /\ pvts[k] \in InRecord
        BY <1>1, <1>3, <1>6
      <4>2. pvts[k].seq \in {1, 2} /\ pvts[k].icseq \in {1, 2} /\ pvts[k].seq <= pvts[k].icseq
        BY <4>1 DEF InDialog, InRecord
      <4>3. m.auth /\ cast.auth /\ m.seq = 2 /\ m.from \in {"caller", "caller2"}
        BY <1>1, <2>2, <4>2 DEF InMessage
      <4>4. pvts[k].uri = m.uri
        BY <1>1, <1>6, <4>1, <4>3, CopyMatch
      <4> QED
        BY <2>2, <4>1, <4>2, <4>3, <4>4
    <3>2. d \in InRecord /\ d.uri = m.uri /\ d.seq = 1 /\ d.icseq = 2
      <4>1. ASSUME NEW c \in InRecord, NEW f \in {"caller", "caller2"}, NEW n, n = 2
            PROVE  e(c, f, n) \in InRecord /\ e(c, f, n).uri = c.uri /\ e(c, f, n).seq = c.seq
                   /\ e(c, f, n).icseq = 2
        BY <4>1 DEF InRecord
      <4>2. pvts[k] \in InRecord /\ m.from \in {"caller", "caller2"} /\ m.seq = 2
        BY <1>1, <3>1
      <4> HIDE DEF e
      <4> QED
        BY <3>1, <4>1, <4>2
    <3>3. InDialog(d)
      BY <3>1, <3>2 DEF InDialog
    <3>4. pvts' = [pvts EXCEPT ![k] = d]
      BY <1>6, <2>2 DEF Invited
    <3> HIDE DEF d
    <3>5. pvts' \in Seq(InRecord)
      BY <1>1, <3>1, <3>2, <3>4, ExceptSeq
    <3>6. DOMAIN pvts' = DOMAIN pvts /\ pvts'[k] = d /\ \A i \in DOMAIN pvts : i # k => pvts'[i] = pvts[i]
      BY <1>1, <3>1, <3>4
    <3>7. ASSUME NEW i \in DOMAIN pvts, NEW j \in DOMAIN pvts, i < j, pvts'[j].rings, pvts'[i].uri = pvts'[j].uri
          PROVE  pvts'[i].method = "ACK" /\ (cast.auth => pvts'[i].seq = 2)
      <4>1. CASE i = k
        <5>1. j # k /\ pvts[j].rings /\ pvts[j].uri = pvts[k].uri
          BY <1>1, <3>1, <3>2, <3>6, <3>7, <4>1
        <5>2. pvts[k].seq = 2
          BY <3>1, <3>7, <4>1, <5>1, <1>1 DEF OneRings
        <5> QED
          BY <3>1, <5>2
      <4>2. CASE i # k /\ j = k
        <5>1. Match(pvts[i], m) = "not" /\ pvts[i].uri = m.uri /\ InDialog(pvts[i])
          BY <1>1, <1>4, <1>6, <3>2, <3>6, <3>7, <4>2
        <5>2. pvts[i].method = "ACK" /\ pvts[i].seq = 2
          BY <1>1, <3>1, <5>1, CopyMatch
        <5> QED
          BY <3>6, <4>2, <5>2
      <4>3. CASE i # k /\ j # k
        <5>1. pvts'[i] = pvts[i] /\ pvts'[j] = pvts[j]
          BY <3>6, <4>3
        <5> QED
          BY <1>1, <3>7, <5>1 DEF OneRings
      <4> QED
        BY <4>1, <4>2, <4>3
    <3> QED
      BY <1>1, <3>3, <3>5, <3>6, <3>7 DEF OneRings
  <2> QED
    BY <2>1, <2>2
<1>7. CASE UNCHANGED pvts
  BY <1>1, <1>7
<1>8. CASE k = 0 /\ pvts' = Append(pvts, [Pvt EXCEPT !.tag = <<"us", Len(pvts)>>, !.their = m.from,
                                                        !.seq = m.seq, !.branch = m.branch, !.uri = m.uri,
                                                        !.icseq = m.seq, !.rings = m.auth \/ ~cast.auth])
  <2> DEFINE r == m.auth \/ ~cast.auth
             d == [Pvt EXCEPT !.tag = <<"us", Len(pvts)>>, !.their = m.from, !.seq = m.seq,
                              !.branch = m.branch, !.uri = m.uri, !.icseq = m.seq, !.rings = r]
             l == Len(pvts) + 1
  <2>1. /\ <<"us", Len(pvts)>> \in OurTags /\ m.seq \in {1, 2} /\ r \in BOOLEAN
        /\ m.from \in {"caller", "caller2"} /\ m.branch \in Branches /\ m.uri \in Uris
        /\ (m.seq = 2 => cast.auth) /\ (~cast.auth => m.from = "caller")
    <3>1. <<"us", Len(pvts)>> \in OurTags
      BY <1>1 DEF OurTags
    <3>2. r \in BOOLEAN
      BY <1>1 DEF InMessage
    <3> HIDE DEF r
    <3> QED
      BY <1>1, <3>1, <3>2 DEF InMessage
  <2>2. d \in InRecord /\ d.seq = m.seq /\ d.icseq = m.seq /\ d.uri = m.uri /\ d.rings = r /\ d.their = m.from
    BY <2>1 DEF Pvt, InRecord
  <2>3. InDialog(d)
    BY <2>1, <2>2 DEF InDialog
  <2>4. r => \A i \in DOMAIN pvts : pvts[i].uri = m.uri =>
                 pvts[i].method = "ACK" /\ (cast.auth => pvts[i].seq = 2)
    BY <1>1, <1>5, <1>8, CopyMatch DEF InMessage
  <2>5. pvts' = Append(pvts, d)
    BY <1>8
  <2> HIDE DEF d, r
  <2>6. /\ pvts' \in Seq(InRecord) /\ DOMAIN pvts' = 1 .. l /\ pvts'[l] = d
        /\ \A i \in DOMAIN pvts : pvts'[i] = pvts[i]
    BY <1>1, <2>2, <2>5, AppendProperties
  <2>7. \A i \in DOMAIN pvts' : i = l \/ (i \in DOMAIN pvts /\ i # l)
    BY <1>1, <2>6
  <2>8. ASSUME NEW i \in DOMAIN pvts', NEW j \in DOMAIN pvts', i < j, pvts'[j].rings, pvts'[i].uri = pvts'[j].uri
        PROVE  pvts'[i].method = "ACK" /\ (cast.auth => pvts'[i].seq = 2)
    <3>1. i \in DOMAIN pvts /\ pvts'[i] = pvts[i]
      BY <1>1, <2>6, <2>8
    <3>2. CASE j = l
      BY <2>2, <2>4, <2>6, <2>8, <3>1, <3>2
    <3>3. CASE j # l
      <4>1. j \in DOMAIN pvts /\ pvts'[j] = pvts[j]
        BY <2>6, <2>7, <3>3
      <4> QED
        BY <1>1, <2>8, <3>1, <4>1 DEF OneRings
    <3> QED
      BY <3>2, <3>3
  <2>9. \A i \in DOMAIN pvts' : InDialog(pvts'[i])
    BY <1>1, <2>3, <2>6, <2>7
  <2> QED
    BY <2>6, <2>8, <2>9 DEF OneRings
<1> QED
  BY <1>6, <1>7, <1>8 DEF ReceiveInvite, k


LEMMA InKeeps ==
  ASSUME InInv, cast.copies # {}, MatchNext
  PROVE  cast' = cast /\ InInv'
<1>1. /\ pvts \in Seq(InRecord) /\ DOMAIN phone = {} /\ (\A m \in air : InMessage(m)) /\ OneRings(pvts)
      /\ \A i \in DOMAIN pvts : pvts[i] \in InRecord /\ InDialog(pvts[i])
  BY SeqFacts DEF InInv
<1>2. SUFFICES /\ cast' = cast /\ phone' = phone /\ round' \in Nat /\ (round' > 1 => cast.auth)
               /\ \A m \in air' : InMessage(m)
               /\ pvts' \in Seq(InRecord) /\ (\A i \in DOMAIN pvts' : InDialog(pvts'[i])) /\ OneRings(pvts')
  <2>1. ASSUME cast' = cast PROVE InRecord' = InRecord /\ Uris' = Uris /\ Branches' = Branches
    BY <2>1 DEF InRecord, Uris, Branches
  <2> QED
    BY <1>1, <2>1 DEF InInv, InMessage, InDialog, OneRings
<1>3. CASE Receive
  <2>1. PICK m \in air : ReceiveResponse(m) \/ ReceiveInDialog(m) \/ ReceiveInvite(m)
    BY <1>3 DEF Receive
  <2>2. ReceiveInvite(m)
    BY <1>1, <2>1 DEF ReceiveResponse, ReceiveInDialog, InMessage
  <2>3. cast' = cast /\ phone' = phone /\ round' = round /\ air' \subseteq air
    BY <2>2 DEF ReceiveInvite
  <2> QED
    BY <1>1, <2>2, <2>3, CopyReceived DEF InInv
<1>4. CASE Calls
  <2> DEFINE f == IF round = 1 /\ cast.retags THEN "caller2" ELSE "caller"
  <2>1. /\ cast' = cast /\ phone' = phone /\ pvts' = pvts /\ round' = round + 1 /\ round \in Nat
        /\ air' = air \cup {Invite(c, f, round = 1) : c \in cast.copies}
        /\ round < (IF cast.auth THEN 2 ELSE 1)
    BY <1>4 DEF Calls, InInv
  <2>2. /\ f \in {"caller", "caller2"} /\ (round = 1) \in BOOLEAN
        /\ (round = 1 => cast.auth) /\ (round # 1 => f = "caller")
    BY <2>1
  <2> HIDE DEF f
  <2>3. ASSUME NEW c \in cast.copies PROVE InMessage(Invite(c, f, round = 1))
    BY <2>2, CopySent
  <2> QED
    BY <1>1, <2>1, <2>2, <2>3
<1>5. CASE Fault
  <2>1. /\ cast' = cast /\ phone' = phone /\ pvts' = pvts /\ round' = round
        /\ round \in Nat /\ (round > 1 => cast.auth)
    BY <1>5 DEF Fault, InInv
  <2>2. PICK c \in cast.copies, auth \in BOOLEAN :
           /\ round > (IF auth THEN 1 ELSE 0)
           /\ air' = air \cup {Invite(c, IF auth /\ cast.retags THEN "caller2" ELSE "caller", auth)}
    BY <1>5 DEF Fault
  <2> DEFINE f == IF auth /\ cast.retags THEN "caller2" ELSE "caller"
  <2>3. f \in {"caller", "caller2"} /\ (auth => cast.auth) /\ (~auth => f = "caller")
    BY <2>1, <2>2
  <2>4. air' = air \cup {Invite(c, f, auth)}
    BY <2>2
  <2> HIDE DEF f
  <2>5. InMessage(Invite(c, f, auth))
    BY <2>3, CopySent
  <2> QED
    BY <1>1, <2>1, <2>4, <2>5
<1>6. CASE \E i \in DOMAIN pvts : Acknowledged(i) \/ HangUpCall(i) \/ ByeAgain(i) \/ DestroyPvt(i)
  <2>1. PICK i \in DOMAIN pvts : Acknowledged(i) \/ HangUpCall(i) \/ ByeAgain(i) \/ DestroyPvt(i)
    BY <1>6
  <2>2. ~pvts[i].bye /\ ~pvts[i].need
    BY <1>1 DEF InRecord
  <2>3. Acknowledged(i)
    BY <2>1, <2>2 DEF HangUpCall, ByeAgain, DestroyPvt
  <2> DEFINE d == [pvts[i] EXCEPT !.method = "ACK", !.talk = pvts[i].rings]
  <2>4. /\ d \in InRecord /\ InDialog(d) /\ d.rings = pvts[i].rings /\ d.uri = pvts[i].uri
        /\ d.seq = pvts[i].seq /\ d.method = "ACK"
    <3>1. ASSUME NEW c, InDialog(c)
          PROVE  LET e == [c EXCEPT !.method = "ACK", !.talk = c.rings]
                 IN  /\ e \in InRecord /\ InDialog(e) /\ e.rings = c.rings /\ e.uri = c.uri
                     /\ e.seq = c.seq /\ e.method = "ACK"
      BY <3>1 DEF InRecord, InDialog
    <3> QED
      BY <1>1, <3>1
  <2>5. pvts' = [pvts EXCEPT ![i] = d]
    BY <1>1, <2>3 DEF Acknowledged, InRecord
  <2>6. cast' = cast /\ phone' = phone /\ round' = round /\ air' = air
    BY <2>3 DEF Acknowledged
  <2> HIDE DEF d
  <2>7. /\ pvts' \in Seq(InRecord) /\ DOMAIN pvts' = DOMAIN pvts
        /\ \A j \in DOMAIN pvts : pvts'[j] = IF j = i THEN d ELSE pvts[j]
    BY <1>1, <2>4, <2>5, ExceptSeq
  <2>8. \A j \in DOMAIN pvts' : InDialog(pvts'[j])
    BY <1>1, <2>4, <2>7
  <2>9. \A j \in DOMAIN pvts : /\ pvts'[j].rings = pvts[j].rings /\ pvts'[j].uri = pvts[j].uri
                               /\ pvts'[j].seq = pvts[j].seq
                               /\ (pvts[j].method = "ACK" => pvts'[j].method = "ACK")
    BY <2>4, <2>7
  <2>10. OneRings(pvts')
    BY <1>1, <2>7, <2>9 DEF OneRings
  <2> QED
    BY <1>1, <2>6, <2>7, <2>8, <2>10 DEF InInv
<1>7. ~\E m \in air : GetOurs(m)
  BY <1>1 DEF GetOurs, InMessage
<1> QED
  BY <1>1, <1>3, <1>4, <1>5, <1>6, <1>7 DEF MatchNext

-----------------------------------------------------------------------------
(* Matching: either.                                                       *)

\* Either our INVITE goes to phones, or copies of an INVITE come to us; and nothing rings in the
\* first case.
MatchInv ==
  /\ cast \in Castings \cup {NoCasting}
  /\ cast.copies = {} => OutInv
  /\ cast.copies # {} => InInv

LEMMA InitMatch ==
  ASSUME NEW k \in Castings \cup {NoCasting}, MatchInit(k)
  PROVE  MatchInv
<1>1. (k.phones = {} \/ k.copies = {}) /\ cast = k /\ air = {} /\ round = 0 /\ DOMAIN phone = k.phones
  BY MatchAssumption DEF NoCasting, MatchInit
<1>2. <<>> \in Seq(OutRecord) /\ <<>> \in Seq(InRecord) /\ DOMAIN <<>> = {}
  BY EmptySeq
<1>3. [Pvt EXCEPT !.invited = TRUE] \in OutRecord
  BY DEF Pvt, OutRecord
<1>4. pvts \in Seq(OutRecord)
  <2>1. <<[Pvt EXCEPT !.invited = TRUE]>> \in Seq(OutRecord)
    BY <1>3
  <2> QED
    BY <1>2, <2>1 DEF MatchInit
<1>5. k.copies # {} => pvts = <<>>
  BY <1>1 DEF MatchInit
<1> QED
  BY <1>1, <1>2, <1>4, <1>5 DEF MatchInv, OutInv, InInv, OneRings

LEMMA MatchKeeps ==
  ASSUME MatchInv, MatchNext \/ UNCHANGED matchVars
  PROVE  MatchInv'
<1>1. CASE UNCHANGED matchVars
  <2>1. cast' = cast /\ pvts' = pvts /\ phone' = phone /\ round' = round /\ air' = air
    BY <1>1 DEF matchVars
  <2>2. OutRecord' = OutRecord /\ InRecord' = InRecord /\ Uris' = Uris /\ Branches' = Branches
    BY <2>1 DEF OutRecord, InRecord, Uris, Branches
  <2>3. OutInv => OutInv'
    BY <2>1, <2>2 DEF OutInv, OutMessage
  <2>4. InInv => InInv'
    BY <2>1, <2>2 DEF InInv, InDialog, InMessage, OneRings
  <2> QED
    BY <2>1, <2>3, <2>4 DEF MatchInv
<1>2. CASE MatchNext /\ cast.copies = {}
  BY <1>2, OutKeeps DEF MatchInv
<1>3. CASE MatchNext /\ cast.copies # {}
  BY <1>3, InKeeps DEF MatchInv
<1> QED
  BY <1>1, <1>2, <1>3

LEMMA MatchRings ==
  ASSUME MatchInv
  PROVE  MergedOnce
<1>1. CASE cast.copies = {}
  <2>1. \A i \in DOMAIN pvts : ~pvts[i].rings
    <3>1. \A d \in OutRecord : d.rings = FALSE
      BY DEF OutRecord
    <3>2. \A i \in DOMAIN pvts : pvts[i] \in OutRecord
      BY <1>1, SeqFacts DEF MatchInv, OutInv
    <3> QED
      BY <3>1, <3>2
  <2> QED
    BY <2>1 DEF MergedOnce
<1>2. CASE cast.copies # {}
  BY <1>2 DEF MatchInv, InInv, OneRings, MergedOnce
<1> QED
  BY <1>1, <1>2

-----------------------------------------------------------------------------
(* Subscriptions: messages, dialogs, the phone and the core.               *)

Positive == Nat \ {0}
Codes == {200, 404, 423, 481, 500}

NotifyRecord ==
  [type : {"NOTIFY"}, call : Positive, tag : Positive, seq : Positive, state : Int, over : BOOLEAN]
AnswerRecord == [type : {"answer"}, call : Positive, tag : Nat, seq : Nat, code : Codes]
SubscribeRecord == [type : {"SUBSCRIBE"}, call : Positive, seq : Nat, time : bound.times, tag : Nat]

DialogRecord ==
  [tag : Positive, on : BOOLEAN, est : BOOLEAN, reg : BOOLEAN, icseq : Nat, expiry : BOOLEAN, last : Int,
   ring : Int, queued : BOOLEAN, pend : Nat, seq : Nat, packets : SUBSET NotifyRecord, timer : BOOLEAN,
   need : BOOLEAN, raced : BOOLEAN, missed : BOOLEAN, out : SUBSET (NotifyRecord \cup AnswerRecord)]

PhoneShape ==
  /\ DOMAIN ua = {"st", "call", "tag", "seq", "sent", "got", "shows"}
  /\ ua.st \in {"idle", "on", "asking", "renewing", "leaving"}
  /\ {ua.call, ua.tag, ua.seq, ua.got} \subseteq Nat /\ ua.shows \in Int /\ ua.tag <= tags
  /\ ua.st # "idle" => ua.call > 0

MonitorRecord == [call : Nat, seq : Nat, again : BOOLEAN, read : Int, late : BOOLEAN]

CoreInv ==
  /\ bound.what \in {"extension", "mailbox"}
  /\ now \in Int /\ told \in Int /\ changes \in Nat /\ tags \in Nat
  /\ Gone <= now /\ now <= changes /\ Gone <= told /\ told <= changes
  /\ call \in {None, told}

\* The phone is in the subscription of Call-ID c.
Alive(c) == ua.call = c /\ ua.st # "idle"

\* No message is of a call or of a dialog that is still to come.
Within(m) == m.call <= ua.call /\ m.tag <= tags

\* What the phone has confirmed it has got.
PhoneInv ==
  /\ PhoneShape
  /\ ua.tag = 0 => ua.got = 0
  /\ Waits => ua.sent \in SubscribeRecord /\ Within(ua.sent)
  /\ toUs \subseteq SubscribeRecord \cup AnswerRecord
  /\ toUa \subseteq NotifyRecord \cup AnswerRecord
  /\ \A m \in toUs \cup toUa : Within(m)
  /\ \A a \in toUs : a.type = "answer" =>
       /\ a.code \in {200, 481} /\ a.seq > 0
       /\ a.code = 200 /\ Alive(a.call) => ua.tag = a.tag /\ a.seq <= ua.got

DialogsInv ==
  /\ DOMAIN dlg \subseteq 1 .. ua.call /\ dlg = [c \in DOMAIN dlg |-> dlg[c]]
  /\ mon \in MonitorRecord /\ (mon = Free \/ mon.call \in DOMAIN dlg) /\ mon.read <= changes

\* The NOTIFYs of a dialog that are under way or may be sent again, and the last the phone got.
Copies(c) == {m \in dlg[c].packets \cup toUa : m.type = "NOTIFY" /\ m.call = c /\ m.tag = dlg[c].tag}
Seen(c)   == Alive(c) /\ ua.tag = dlg[c].tag /\ ua.got > 0

Numbered(c) ==
  /\ \A m \in dlg[c].packets : m.call = c /\ m.tag = dlg[c].tag
  /\ \A m \in Copies(c) : m.seq <= dlg[c].seq
  /\ Seen(c) => ua.got <= dlg[c].seq

\* The last NOTIFY of the dialog has the state v, wherever it is.
Shows(c, v) ==
  /\ \A m \in Copies(c) : m.seq = dlg[c].seq => m.state = v
  /\ Seen(c) /\ ua.got = dlg[c].seq => ua.shows = v

\* It is sent until the phone has it, or given up.
Delivered(c) ==
  dlg[c].seq > 0 /\ ~dlg[c].need /\ ~dlg[c].missed /\ Alive(c) =>
    \/ \E m \in dlg[c].packets : m.seq = dlg[c].seq
    \/ ua.tag = dlg[c].tag /\ ua.got = dlg[c].seq

\* A dialog that is subscribed and not in the monitor's hands.
Works(c) == dlg[c].on /\ ~dlg[c].need /\ mon.call # c

\* A state waits for the answer to a NOTIFY that is out.
QueueInv(c) == ~dlg[c].need =>
  /\ dlg[c].queued => dlg[c].pend # 0
  /\ dlg[c].pend # 0 => \E m \in dlg[c].packets : m.seq = dlg[c].pend

\* The last NOTIFY has the state noted last, unless that one is queued.
LastInv(c) == Works(c) =>
  /\ dlg[c].est /\ dlg[c].reg /\ dlg[c].seq > 0
  /\ ~dlg[c].queued => Shows(c, dlg[c].last)

\* The state noted last is the one announced last, even where a channel rings already.
NotedInv(c) == Works(c) /\ ~dlg[c].raced =>
  /\ call = None => dlg[c].last = told
  /\ dlg[c].ring = now /\ now > 0 => told = now /\ dlg[c].last = now
  /\ dlg[c].ring = told /\ told > 0 => dlg[c].last = told

ExtensionInv(c) == dlg[c].ring <= changes /\ QueueInv(c) /\ LastInv(c) /\ NotedInv(c)

MailboxInv(c) ==
  /\ ~dlg[c].queued
  /\ Works(c) => dlg[c].seq > 0
  /\ Works(c) /\ ~dlg[c].raced /\ call = None /\ told = now => Shows(c, now)

DialogInv(c) ==
  /\ dlg[c] \in DialogRecord /\ dlg[c].out = {} /\ dlg[c].tag <= tags
  /\ Numbered(c) /\ Delivered(c)
  /\ bound.what = "extension" => ExtensionInv(c)
  /\ bound.what = "mailbox" => MailboxInv(c)

\* What was read is what is announced, as long as no announcement came after.
MonitorInv ==
  mon # Free /\ mon.read # None /\ ~mon.late =>
    /\ bound.what = "extension" =>
         /\ call = None => mon.read = told
         /\ mon.read = now /\ now > 0 => told = now
         /\ \A v \in {now, told} : v > 0 /\ v # mon.read => dlg[mon.call].ring # v
    /\ bound.what = "mailbox" /\ call = None /\ told = now => mon.read = now

\* A dialog that will be subscribed is known to the core.
HandInv ==
  mon # Free /\ mon.again /\ bound.what = "extension" /\ ~dlg[mon.call].need => dlg[mon.call].reg

SubscriptionInv ==
  CoreInv /\ PhoneInv /\ DialogsInv /\ HandInv /\ MonitorInv /\ \A c \in DOMAIN dlg : DialogInv(c)

-----------------------------------------------------------------------------
(* What the steps of the code make of a dialog.                            *)

\* One NOTIFY with the state v goes out, or none.
Utters(d, e, c, v) ==
  \E m \in NotifyRecord :
    /\ m.call = c /\ m.tag = d.tag /\ m.seq = d.seq + 1 /\ m.state = v
    /\ e.seq = d.seq + 1 /\ e.packets = d.packets \cup {m} /\ e.out = d.out \cup {m}

Mute(d, e) == e.seq = d.seq /\ e.packets = d.packets /\ e.out = d.out

Stays(d, e) ==
  /\ e.tag = d.tag /\ e.need = d.need /\ e.raced = d.raced /\ e.missed = d.missed
  /\ e.reg = d.reg /\ e.est = d.est

\* The state v is noted, and told, or kept for later.
TakesIn(d, e, c, v) ==
  /\ e.last = v /\ e.on = d.on
  /\ \/ d.pend = 0 /\ d.on /\ d.est /\ Utters(d, e, c, v) /\ e.pend = e.seq /\ e.queued = d.queued
     \/ d.pend = 0 /\ ~(d.on /\ d.est) /\ Mute(d, e) /\ e.pend = d.pend /\ e.queued = d.queued
     \/ d.pend # 0 /\ Mute(d, e) /\ e.pend = d.pend /\ (d.on => e.queued) /\ (~d.on => e.queued = d.queued)

Truth == BOOLEAN

LEMMA NewNotify ==
  ASSUME NEW d \in DialogRecord, NEW c \in Positive, NEW v \in Int, NEW o \in Truth
  PROVE  /\ Notify(c, d, v, o) \in NotifyRecord
         /\ Notify(c, d, v, o).call = c /\ Notify(c, d, v, o).tag = d.tag
         /\ Notify(c, d, v, o).seq = d.seq + 1 /\ Notify(c, d, v, o).state = v
<1>1. d.tag \in Positive /\ d.seq + 1 \in Positive
  BY DEF DialogRecord, Positive
<1> QED
  BY <1>1 DEF Notify, NotifyRecord, Truth

LEMMA Sending ==
  ASSUME NEW d \in DialogRecord, NEW c \in Positive, NEW v \in Int, NEW o \in Truth,
         NEW e, e = SendNotify(d, c, v, o)
  PROVE  /\ e \in DialogRecord /\ Utters(d, e, c, v) /\ Stays(d, e)
         /\ e.on = d.on /\ e.last = d.last /\ e.ring = d.ring /\ e.queued = d.queued /\ e.pend = d.pend
<1>1. PICK m \in NotifyRecord : m = Notify(c, d, v, o) /\ m.call = c /\ m.tag = d.tag /\ m.seq = d.seq + 1 /\ m.state = v
  BY NewNotify
<1>2. e = [d EXCEPT !.seq = @ + 1, !.packets = @ \cup {m}, !.out = @ \cup {m}]
  BY <1>1 DEF SendNotify
<1>3. /\ d.seq + 1 \in Nat
      /\ d.packets \cup {m} \in SUBSET NotifyRecord /\ d.out \cup {m} \in SUBSET (NotifyRecord \cup AnswerRecord)
  BY DEF DialogRecord
<1>4. e \in DialogRecord
  BY <1>2, <1>3 DEF DialogRecord
<1>5. /\ e.seq = d.seq + 1 /\ e.packets = d.packets \cup {m} /\ e.out = d.out \cup {m}
      /\ Stays(d, e)
      /\ e.on = d.on /\ e.last = d.last /\ e.ring = d.ring /\ e.queued = d.queued /\ e.pend = d.pend
  BY <1>2 DEF DialogRecord, Stays
<1> QED
  BY <1>1, <1>4, <1>5 DEF Utters

LEMMA Telling ==
  ASSUME NEW d \in DialogRecord, NEW c \in Positive, NEW v \in Int, NEW e, e = StateNotify(d, c, v)
  PROVE  /\ e \in DialogRecord /\ Stays(d, e)
         /\ e.on = d.on /\ e.last = d.last /\ e.ring = d.ring /\ e.queued = d.queued
         /\ ~d.est => e = d
         /\ d.est => Utters(d, e, c, v) /\ e.pend = e.seq
<1>1. CASE ~d.est
  BY <1>1 DEF StateNotify, Stays
<1>2. CASE d.est
  <2> PICK o \in Truth : o = (v = Gone \/ ~d.expiry)
    BY DEF Truth
  <2> PICK s : s = SendNotify(d, c, v, o)
    OBVIOUS
  <2>1. /\ s \in DialogRecord /\ Utters(d, s, c, v) /\ Stays(d, s)
        /\ s.on = d.on /\ s.last = d.last /\ s.ring = d.ring /\ s.queued = d.queued /\ s.pend = d.pend
    BY Sending
  <2>2. e = [s EXCEPT !.pend = d.seq + 1]
    BY <1>2 DEF StateNotify
  <2>3. d.seq + 1 \in Nat
    BY DEF DialogRecord
  <2>4. e \in DialogRecord
    BY <2>1, <2>2, <2>3 DEF DialogRecord
  <2>5. /\ e.tag = s.tag /\ e.need = s.need /\ e.raced = s.raced /\ e.missed = s.missed /\ e.reg = s.reg /\ e.est = s.est
        /\ e.on = s.on /\ e.last = s.last /\ e.ring = s.ring /\ e.queued = s.queued /\ e.pend = d.seq + 1
        /\ e.seq = s.seq /\ e.packets = s.packets /\ e.out = s.out
    BY <2>1, <2>2 DEF DialogRecord
  <2>6. Utters(d, e, c, v) /\ e.pend = e.seq
    BY <2>1, <2>5 DEF Utters
  <2> QED
    BY <1>2, <2>1, <2>4, <2>5, <2>6 DEF Stays
<1> QED
  BY <1>1, <1>2

LEMMA Updating ==
  ASSUME NEW d \in DialogRecord, NEW c \in Positive, NEW v \in Int, v # Gone, NEW force \in Truth,
         NEW e, e = Update(d, c, v, force)
  PROVE  \/ ~force /\ Unchanged(d, v) /\ e = d
         \/ /\ e \in DialogRecord /\ Stays(d, e) /\ TakesIn(d, e, c, v)
            /\ e.ring = IF v > 0 /\ ~force THEN v ELSE d.ring
<1> PICK r \in Int : r = IF v > 0 /\ ~force THEN v ELSE d.ring
  BY DEF DialogRecord
<1> PICK n : n = [d EXCEPT !.last = v, !.ring = r]
  OBVIOUS
<1>1. n \in DialogRecord
  BY DEF DialogRecord
<1>2. /\ Stays(d, n) /\ Mute(d, n) /\ n.on = d.on /\ n.last = v /\ n.ring = r /\ n.queued = d.queued /\ n.pend = d.pend
  BY DEF DialogRecord, Stays, Mute
<1>3. CASE ~force /\ Unchanged(d, v)
  BY <1>3 DEF Update
<1>4. CASE ~(~force /\ Unchanged(d, v))
  <2>1. e = IF ~n.on THEN n ELSE IF n.pend = 0 THEN StateNotify(n, c, v) ELSE [n EXCEPT !.queued = TRUE]
    <3> DEFINE N == [d EXCEPT !.last = v, !.ring = IF v > 0 /\ ~force THEN v ELSE d.ring]
    <3>1. e = IF ~N.on THEN N ELSE IF d.pend = 0 THEN StateNotify(N, c, v) ELSE [N EXCEPT !.queued = TRUE]
      <4>1. e = IF v = Gone THEN [d EXCEPT !.timer = TRUE, !.on = FALSE]
                ELSE IF ~force /\ Unchanged(d, v) THEN d
                ELSE IF ~N.on THEN N ELSE IF d.pend = 0 THEN StateNotify(N, c, v) ELSE [N EXCEPT !.queued = TRUE]
        BY DEF Update
      <4> HIDE DEF N
      <4> QED
        BY <1>4, <4>1
    <3>2. N = n
      OBVIOUS
    <3> HIDE DEF N
    <3> QED
      BY <3>1, <3>2, <1>2
  <2>2. CASE ~n.on
    BY <1>1, <1>2, <2>1, <2>2 DEF TakesIn, Mute
  <2>3. CASE n.on /\ n.pend = 0
    <3>1. e = StateNotify(n, c, v)
      BY <2>1, <2>3
    <3>2. /\ e \in DialogRecord /\ Stays(n, e)
          /\ e.on = n.on /\ e.last = n.last /\ e.ring = n.ring /\ e.queued = n.queued
          /\ ~n.est => e = n
          /\ n.est => Utters(n, e, c, v) /\ e.pend = e.seq
      BY ONLY n \in DialogRecord, c \in Positive, v \in Int, e = StateNotify(n, c, v), <1>1, <3>1, Telling, Zenon
    <3>3. n.est => Utters(d, e, c, v)
      BY <1>2, <3>2 DEF Utters, Mute, Stays
    <3> QED
      BY <1>2, <2>3, <3>2, <3>3 DEF TakesIn, Stays, Mute
  <2>4. CASE n.on /\ n.pend # 0
    <3>1. e = [n EXCEPT !.queued = TRUE]
      BY <2>1, <2>4
    <3>2. e \in DialogRecord
      BY <1>1, <3>1 DEF DialogRecord
    <3>3. /\ Stays(n, e) /\ Mute(n, e) /\ e.on = n.on /\ e.last = n.last /\ e.ring = n.ring /\ e.queued /\ e.pend = n.pend
      BY <1>1, <3>1 DEF DialogRecord, Stays, Mute
    <3>4. Stays(d, e) /\ Mute(d, e)
      BY <1>2, <3>3 DEF Stays, Mute
    <3> QED
      BY <1>2, <2>4, <3>2, <3>3, <3>4 DEF TakesIn
  <2> QED
    BY <2>2, <2>3, <2>4
<1> QED
  BY <1>3, <1>4

\* A state that is told whatever was told before, and one that is not.
LEMMA Forced ==
  ASSUME NEW d \in DialogRecord, NEW c \in Positive, NEW v \in Int, v # Gone, NEW e, e = Update(d, c, v, TRUE)
  PROVE  e \in DialogRecord /\ Stays(d, e) /\ TakesIn(d, e, c, v) /\ e.ring = d.ring
<1>1. PICK f \in Truth : f
  BY DEF Truth
<1>2. e = Update(d, c, v, f)
  BY <1>1 DEF Truth
<1>3. \/ ~f /\ Unchanged(d, v) /\ e = d
      \/ /\ e \in DialogRecord /\ Stays(d, e) /\ TakesIn(d, e, c, v)
         /\ e.ring = IF v > 0 /\ ~f THEN v ELSE d.ring
  BY ONLY <1>2, d \in DialogRecord, c \in Positive, v \in Int, v # Gone, Updating
<1> QED
  BY <1>1, <1>3

LEMMA OfferedState ==
  ASSUME NEW d \in DialogRecord, NEW c \in Positive, NEW v \in Int, v # Gone, NEW e, e = Update(d, c, v, FALSE)
  PROVE  \/ Unchanged(d, v) /\ e = d
         \/ e \in DialogRecord /\ Stays(d, e) /\ TakesIn(d, e, c, v) /\ e.ring = IF v > 0 THEN v ELSE d.ring
<1>1. PICK f \in Truth : ~f
  BY DEF Truth
<1>2. e = Update(d, c, v, f)
  BY <1>1 DEF Truth
<1>3. \/ ~f /\ Unchanged(d, v) /\ e = d
      \/ /\ e \in DialogRecord /\ Stays(d, e) /\ TakesIn(d, e, c, v)
         /\ e.ring = IF v > 0 /\ ~f THEN v ELSE d.ring
  BY ONLY <1>2, d \in DialogRecord, c \in Positive, v \in Int, v # Gone, Updating
<1> QED
  BY <1>1, <1>3

LEMMA Counting ==
  ASSUME NEW d \in DialogRecord, NEW c \in Positive, NEW v \in Int, NEW e, e = MwiNotify(d, c, v)
  PROVE  /\ e \in DialogRecord /\ Utters(d, e, c, v) /\ Stays(d, e)
         /\ e.on = d.on /\ e.last = d.last /\ e.ring = d.ring /\ e.queued = d.queued /\ e.pend = d.pend
<1>1. PICK o \in Truth : o = ~d.expiry
  BY DEF Truth
<1>2. e = SendNotify(d, c, v, o)
  BY <1>1 DEF MwiNotify
<1> QED
  BY <1>2, Sending
-----------------------------------------------------------------------------
(* The NOTIFYs of a dialog, from one state to the next.                    *)

\* Nothing new is said in the dialog c: copies of its NOTIFYs go, or come to the phone.
Faded(c) ==
  /\ dlg'[c].tag = dlg[c].tag /\ dlg'[c].seq = dlg[c].seq
  /\ dlg'[c].packets \subseteq dlg[c].packets /\ Copies(c)' \subseteq Copies(c)
  /\ Seen(c)' => \/ Seen(c) /\ ua'.got = ua.got /\ ua'.shows = ua.shows
                 \/ \E m \in Copies(c) : ua'.got = m.seq /\ ua'.shows = m.state

\* One NOTIFY more, with the state v.
Said(c, v) ==
  /\ dlg'[c].tag = dlg[c].tag /\ dlg'[c].seq = dlg[c].seq + 1 /\ ua' = ua
  /\ \E m \in dlg'[c].packets :
       /\ m.call = c /\ m.tag = dlg[c].tag /\ m.seq = dlg[c].seq + 1 /\ m.state = v
       /\ dlg'[c].packets \subseteq dlg[c].packets \cup {m} /\ Copies(c)' \subseteq Copies(c) \cup {m}

LEMMA CopiesAreNotifies ==
  ASSUME PhoneInv, NEW c \in DOMAIN dlg, dlg[c] \in DialogRecord
  PROVE  Copies(c) \subseteq NotifyRecord
<1> SUFFICES ASSUME NEW m \in Copies(c)
             PROVE  m \in NotifyRecord
  OBVIOUS
<1>1. CASE m \in dlg[c].packets
  BY <1>1 DEF DialogRecord
<1>2. CASE m \in toUa
  <2>1. m \in NotifyRecord \cup AnswerRecord /\ m.type = "NOTIFY"
    BY <1>2 DEF PhoneInv, Copies
  <2>2. m \notin AnswerRecord
    BY <2>1 DEF AnswerRecord
  <2> QED
    BY <2>1, <2>2
<1> QED
  BY <1>1, <1>2 DEF Copies

LEMMA FadedNumbers ==
  ASSUME NEW c, Faded(c), Numbered(c)
  PROVE  Numbered(c)' /\ \A v : Shows(c, v) => Shows(c, v)'
<1>1. Numbered(c)'
  <2>1. \A m \in dlg'[c].packets : m.call = c /\ m.tag = dlg'[c].tag
    BY DEF Faded, Numbered
  <2>2. \A m \in Copies(c)' : m.seq <= dlg'[c].seq
    BY DEF Faded, Numbered
  <2>3. Seen(c)' => ua'.got <= dlg'[c].seq
    BY DEF Faded, Numbered
  <2> QED
    BY <2>1, <2>2, <2>3 DEF Numbered
<1>2. ASSUME NEW v, Shows(c, v)
      PROVE  Shows(c, v)'
  <2>1. \A m \in Copies(c)' : m.seq = dlg'[c].seq => m.state = v
    BY <1>2 DEF Faded, Shows
  <2>2. Seen(c)' /\ ua'.got = dlg'[c].seq => ua'.shows = v
    BY <1>2 DEF Faded, Shows
  <2> QED
    BY <2>1, <2>2 DEF Shows
<1> QED
  BY <1>1, <1>2

LEMMA SaidNumbers ==
  ASSUME NEW c \in DOMAIN dlg, NEW v, PhoneInv, dlg[c] \in DialogRecord, Numbered(c), Said(c, v)
  PROVE  Numbered(c)' /\ Shows(c, v)' /\ Delivered(c)'
<1>1. PICK m \in dlg'[c].packets :
        /\ m.call = c /\ m.tag = dlg[c].tag /\ m.seq = dlg[c].seq + 1 /\ m.state = v
        /\ dlg'[c].packets \subseteq dlg[c].packets \cup {m} /\ Copies(c)' \subseteq Copies(c) \cup {m}
  BY DEF Said
<1>2. PICK n \in Nat : n = dlg[c].seq
  BY DEF DialogRecord
<1>3. dlg'[c].tag = dlg[c].tag /\ dlg'[c].seq = n + 1 /\ ua' = ua /\ m.seq = n + 1
  BY <1>1, <1>2 DEF Said
<1>4. \A k \in Copies(c) : k.seq \in Nat /\ k.seq <= n
  BY <1>2, CopiesAreNotifies DEF Numbered, NotifyRecord, Positive
<1>5. Seen(c)' => Seen(c) /\ ua'.got = ua.got /\ ua'.got \in Nat /\ ua'.got <= n
  BY <1>2, <1>3 DEF Seen, Alive, Numbered, PhoneInv, PhoneShape
<1>6. Numbered(c)'
  <2>1. \A k \in dlg'[c].packets : k.call = c /\ k.tag = dlg'[c].tag
    BY <1>1, <1>3 DEF Numbered
  <2>2. \A k \in Copies(c)' : k.seq <= dlg'[c].seq
    BY <1>1, <1>3, <1>4
  <2>3. Seen(c)' => ua'.got <= dlg'[c].seq
    BY <1>3, <1>5
  <2> QED
    BY <2>1, <2>2, <2>3 DEF Numbered
<1>7. Shows(c, v)'
  <2>1. \A k \in Copies(c)' : k.seq = dlg'[c].seq => k.state = v
    BY <1>1, <1>3, <1>4
  <2>2. ~(Seen(c)' /\ ua'.got = dlg'[c].seq)
    BY <1>3, <1>5
  <2> QED
    BY <2>1, <2>2 DEF Shows
<1>8. Delivered(c)'
  BY <1>1, <1>3 DEF Delivered
<1> QED
  BY <1>6, <1>7, <1>8

\* A dialog that does not change, while the core does not either.
Calm == UNCHANGED <<bound, now, changes, told, call>> /\ tags' \in Nat /\ tags <= tags'

LEMMA SameDialogKeeps ==
  ASSUME CoreInv, NEW i \in DOMAIN dlg, DialogInv(i), i \in DOMAIN dlg', dlg'[i] = dlg[i], Faded(i), Delivered(i)',
         Calm, mon'.call # i => mon.call # i
  PROVE  DialogInv(i)'
<1>1. Numbered(i)' /\ \A v : Shows(i, v) => Shows(i, v)'
  BY FadedNumbers DEF DialogInv
<1>2. Works(i)' => Works(i)
  BY DEF Works
<1>3. bound' = bound /\ now' = now /\ changes' = changes /\ told' = told /\ call' = call
  BY DEF Calm
<1>4. /\ dlg'[i] \in DialogRecord /\ dlg'[i].out = {}
      /\ dlg'[i].tag <= tags'
  <2>1. dlg[i] \in DialogRecord /\ dlg[i].out = {} /\ dlg[i].tag \in Nat /\ dlg[i].tag <= tags /\ tags \in Nat
    BY DEF DialogInv, DialogRecord, Positive, CoreInv
  <2> QED
    BY <2>1 DEF Calm
<1>5. bound.what = "extension" => ExtensionInv(i)'
  <2> HAVE bound.what = "extension"
  <2>1. ExtensionInv(i)
    BY DEF DialogInv
  <2>2. QueueInv(i)' /\ dlg'[i].ring <= changes'
    BY <1>3, <2>1 DEF ExtensionInv, QueueInv
  <2>3. LastInv(i)'
    <3>1. PICK v : v = dlg[i].last
      OBVIOUS
    <3>2. Works(i)' /\ ~dlg'[i].queued => Shows(i, v)'
      BY <1>1, <1>2, <2>1, <3>1 DEF ExtensionInv, LastInv
    <3> QED
      BY <1>2, <2>1, <3>1, <3>2 DEF ExtensionInv, LastInv
  <2>4. NotedInv(i)'
    BY <1>2, <1>3, <2>1 DEF ExtensionInv, NotedInv
  <2> QED
    BY <2>2, <2>3, <2>4 DEF ExtensionInv
<1>6. bound.what = "mailbox" => MailboxInv(i)'
  BY <1>1, <1>2, <1>3 DEF DialogInv, MailboxInv
<1> QED
  BY <1>1, <1>3, <1>4, <1>5, <1>6 DEF DialogInv
-----------------------------------------------------------------------------
(* The phone and the network.                                              *)

LEMMA PhoneKeeps ==
  ASSUME PhoneInv, ua' = ua, bound' = bound, tags \in Nat, tags' \in Nat, tags <= tags',
         NEW S, S \subseteq SubscribeRecord, NEW Ms, Ms \subseteq NotifyRecord \cup AnswerRecord,
         toUs' \subseteq toUs \cup S, toUa' \subseteq toUa \cup Ms,
         \A m \in S \cup Ms : m.call <= ua.call /\ m.tag <= tags'
  PROVE  PhoneInv'
<1>1. PhoneShape'
  BY DEF PhoneInv, PhoneShape
<1>2. SubscribeRecord' = SubscribeRecord
  BY DEF SubscribeRecord
<1>3. \A m \in toUs \cup toUa : m.tag \in Nat
  BY DEF PhoneInv, SubscribeRecord, AnswerRecord, NotifyRecord, Positive
<1>4. \A m \in (toUs \cup toUa)' : Within(m)'
  BY <1>3 DEF PhoneInv, Within
<1>5. Waits' => ua'.sent \in SubscribeRecord' /\ Within(ua.sent)'
  <2>1. ua.sent \in SubscribeRecord => ua.sent.tag \in Nat
    BY DEF SubscribeRecord
  <2> QED
    BY <1>2, <2>1 DEF PhoneInv, Within, Waits
<1>6. \A a \in toUs' : a.type = "answer" => a \in toUs
  BY DEF SubscribeRecord
<1>7. (ua.tag = 0 => ua.got = 0)'
  BY DEF PhoneInv
<1>8. toUs' \subseteq SubscribeRecord' \cup AnswerRecord /\ toUa' \subseteq NotifyRecord \cup AnswerRecord
  BY <1>2 DEF PhoneInv
<1>9. \A a \in toUs' : a.type = "answer" =>
        /\ a.code \in {200, 481} /\ a.seq > 0
        /\ a.code = 200 /\ Alive(a.call)' => ua'.tag = a.tag /\ a.seq <= ua'.got
  BY <1>6 DEF PhoneInv, Alive
<1> QED
  BY <1>1, <1>4, <1>5, <1>7, <1>8, <1>9 DEF PhoneInv

\* The dialogs and the core stay as they are.
LEMMA NetworkKeeps ==
  ASSUME SubscriptionInv, UNCHANGED <<bound, now, changes, told, call, dlg, tags, mon>>,
         PhoneInv', ua.call <= ua'.call, \A i \in DOMAIN dlg : Faded(i) /\ Delivered(i)'
  PROVE  SubscriptionInv'
<1>1. CoreInv' /\ HandInv' /\ MonitorInv'
  BY DEF SubscriptionInv, CoreInv, HandInv, MonitorInv, Free
<1>2. DialogsInv'
  <2>1. ua.call \in Nat /\ ua'.call \in Nat
    BY DEF SubscriptionInv, PhoneInv, PhoneShape
  <2>2. 1 .. ua.call \subseteq 1 .. ua'.call
    BY <2>1
  <2> QED
    BY <2>2 DEF SubscriptionInv, DialogsInv, Free
<1>3. Calm
  BY DEF Calm, SubscriptionInv, CoreInv
<1>4. ASSUME NEW i \in DOMAIN dlg'
      PROVE  DialogInv(i)'
  BY <1>3, SameDialogKeeps DEF SubscriptionInv
<1> QED
  BY <1>1, <1>2, <1>4 DEF SubscriptionInv

\* The phone does nothing either.
LEMMA TransitKeeps ==
  ASSUME SubscriptionInv, UNCHANGED <<bound, now, changes, told, call, dlg, tags, mon, ua>>,
         NEW Ms, Ms \subseteq AnswerRecord, \A m \in Ms : m.call <= ua.call /\ m.tag <= tags,
         toUs' \subseteq toUs \/ (Waits /\ toUs' = toUs \cup {ua.sent}),
         \/ toUa' \subseteq toUa \cup Ms
         \/ \E c \in DOMAIN dlg : \E m \in dlg[c].packets : toUa' = toUa \cup {m}
  PROVE  SubscriptionInv'
<1>1. PICK P : /\ P \subseteq NotifyRecord \cup AnswerRecord /\ toUa' \subseteq toUa \cup P
               /\ \A m \in P : m.call <= ua.call /\ m.tag <= tags
               /\ \A m \in P : m.type = "NOTIFY" => \E c \in DOMAIN dlg : m \in dlg[c].packets
  <2>1. CASE toUa' \subseteq toUa \cup Ms
    <3>1. \A m \in Ms : m.type # "NOTIFY"
      BY DEF AnswerRecord
    <3> QED
      BY <2>1, <3>1
  <2>2. CASE \E c \in DOMAIN dlg : \E m \in dlg[c].packets : toUa' = toUa \cup {m}
    <3>0. PICK c \in DOMAIN dlg : \E m \in dlg[c].packets : toUa' = toUa \cup {m}
      BY <2>2
    <3>1. PICK m \in dlg[c].packets : toUa' = toUa \cup {m}
      BY <3>0
    <3>2. m \in NotifyRecord /\ m.call = c /\ m.tag = dlg[c].tag /\ dlg[c].tag <= tags
      BY DEF SubscriptionInv, DialogInv, DialogRecord, Numbered
    <3>3. c <= ua.call
      BY DEF SubscriptionInv, DialogsInv
    <3> WITNESS {m}
    <3> QED
      BY <3>1, <3>2, <3>3
  <2> QED
    BY <2>1, <2>2
<1>2. PhoneInv'
  <2>1. PICK S : /\ S \subseteq SubscribeRecord /\ toUs' \subseteq toUs \cup S
                 /\ \A m \in S : m.call <= ua.call /\ m.tag <= tags
    <3>1. CASE toUs' \subseteq toUs
      <4>1. PICK S : S = {}
        OBVIOUS
      <4>2. S \subseteq SubscribeRecord /\ toUs' \subseteq toUs \cup S /\ \A m \in S : m.call <= ua.call /\ m.tag <= tags
        BY <3>1, <4>1
      <4> QED
        BY <4>2
    <3>2. CASE Waits /\ toUs' = toUs \cup {ua.sent}
      <4>1. {ua.sent} \subseteq SubscribeRecord /\ \A m \in {ua.sent} : m.call <= ua.call /\ m.tag <= tags
        BY <3>2 DEF SubscriptionInv, PhoneInv, Within
      <4> QED
        BY <3>2, <4>1
    <3> QED
      BY <3>1, <3>2
  <2>2. PhoneInv /\ tags \in Nat /\ tags' = tags /\ ua' = ua /\ bound' = bound
    BY DEF SubscriptionInv, CoreInv
  <2> QED
    BY <1>1, <2>1, <2>2, PhoneKeeps
<1>3. ASSUME NEW i \in DOMAIN dlg
      PROVE  Faded(i) /\ Delivered(i)'
  <2>1. Copies(i)' \subseteq Copies(i)
    <3> SUFFICES ASSUME NEW m \in Copies(i)'
                 PROVE  m \in Copies(i)
      OBVIOUS
    <3>1. m \in dlg[i].packets \cup toUa' /\ m.type = "NOTIFY" /\ m.call = i /\ m.tag = dlg[i].tag
      BY DEF Copies
    <3>2. CASE m \in P
      <4>1. PICK c \in DOMAIN dlg : m \in dlg[c].packets
        BY <1>1, <3>1, <3>2
      <4>2. c = i
        BY <3>1, <4>1 DEF SubscriptionInv, DialogInv, Numbered
      <4> QED
        BY <3>1, <4>1, <4>2 DEF Copies
    <3>3. CASE m \notin P
      BY <1>1, <3>1, <3>3 DEF Copies
    <3> QED
      BY <3>2, <3>3
  <2>2. Delivered(i)'
    BY DEF SubscriptionInv, DialogInv, Delivered, Alive
  <2> QED
    BY <2>1, <2>2 DEF Faded, Seen, Alive
<1>4. ua.call <= ua'.call
  BY DEF SubscriptionInv, PhoneInv, PhoneShape
<1> QED
  BY <1>2, <1>3, <1>4, NetworkKeeps

LEMMA TransitSteps ==
  ASSUME SubscriptionInv, AskAgain \/ Lose \/ Repeat \/ \E c \in DOMAIN dlg : Resend(c)
  PROVE  SubscriptionInv'
<1>1. UNCHANGED <<bound, now, changes, told, call, dlg, tags, mon, ua>>
  BY DEF AskAgain, Lose, Repeat, Resend
<1>2. toUs' \subseteq toUs \/ (Waits /\ toUs' = toUs \cup {ua.sent})
  BY DEF AskAgain, Lose, Repeat, Resend
<1>3. PICK Ms : Ms = {}
  OBVIOUS
<1>4. toUa' \subseteq toUa \cup Ms \/ \E c \in DOMAIN dlg : \E m \in dlg[c].packets : toUa' = toUa \cup {m}
  BY DEF AskAgain, Lose, Repeat, Resend, Unanswered
<1>5. Ms \subseteq AnswerRecord /\ \A m \in Ms : m.call <= ua.call /\ m.tag <= tags
  BY <1>3
<1> QED
  BY <1>1, <1>2, <1>4, <1>5, TransitKeeps

\* What the phone has confirmed stays confirmed.
Confirmed(a) == a.code = 200 /\ Alive(a.call) => ua.tag = a.tag /\ a.seq <= ua.got

ComesRightly(m) ==
  Within(m)' /\ (m.type = "answer" => m.code \in {200, 481} /\ m.seq > 0 /\ Confirmed(m)')

StaysConfirmed == \A a \in toUs : a.type = "answer" /\ Confirmed(a) /\ a.seq > 0 => Confirmed(a)'

\* What the phone has of the dialog i is what it had, or comes from a NOTIFY of it.
PhoneFollows(i) ==
  Alive(i)' =>
    /\ Alive(i)
    /\ Seen(i)' => \/ Seen(i) /\ ua'.got = ua.got /\ ua'.shows = ua.shows
                   \/ \E m \in Copies(i) : ua'.got = m.seq /\ ua'.shows = m.state
    /\ dlg[i].seq > 0 /\ ua.tag = dlg[i].tag /\ ua.got = dlg[i].seq =>
         ua'.tag = dlg[i].tag /\ ua'.got = dlg[i].seq

PhoneSound ==
  /\ PhoneShape' /\ (ua'.tag = 0 => ua'.got = 0) /\ ua.call <= ua'.call
  /\ Waits' => ua'.sent \in SubscribeRecord /\ Within(ua.sent)'

LEMMA PhoneStep ==
  ASSUME SubscriptionInv, UNCHANGED <<bound, now, changes, told, call, dlg, tags, mon>>, PhoneSound,
         NEW S, S \subseteq SubscribeRecord \cup AnswerRecord, toUs' \subseteq toUs \cup S, toUa' \subseteq toUa,
         \A m \in S : ComesRightly(m), StaysConfirmed, \A i \in DOMAIN dlg : PhoneFollows(i)
  PROVE  SubscriptionInv'
<1>1. SubscribeRecord' = SubscribeRecord /\ PhoneInv
  BY DEF SubscribeRecord, SubscriptionInv
<1>2. \A m \in toUs \cup toUa : m.call \in Nat /\ m.tag \in Nat
  BY <1>1 DEF PhoneInv, SubscribeRecord, AnswerRecord, NotifyRecord, Positive
<1>3. ua.call \in Nat /\ ua'.call \in Nat /\ tags' = tags
  BY <1>1 DEF PhoneInv, PhoneShape, PhoneSound
<1>4. \A m \in toUs' \cup toUa' : Within(m)'
  BY <1>1, <1>2, <1>3 DEF PhoneInv, Within, ComesRightly, PhoneSound
<1>5. \A a \in toUs' : a.type = "answer" =>
        /\ a.code \in {200, 481} /\ a.seq > 0
        /\ Confirmed(a)'
  <2>1. \A a \in toUs : a.type = "answer" => a.code \in {200, 481} /\ a.seq > 0 /\ Confirmed(a)
    BY <1>1 DEF PhoneInv, Confirmed
  <2> QED
    BY <2>1 DEF StaysConfirmed, ComesRightly
<1>6. PhoneInv'
  BY <1>1, <1>4, <1>5 DEF PhoneInv, Confirmed, PhoneSound
<1>7. ASSUME NEW i \in DOMAIN dlg
      PROVE  Faded(i) /\ Delivered(i)'
  <2>1. Copies(i)' \subseteq Copies(i)
    BY DEF Copies
  <2>2. Faded(i)
    BY <2>1 DEF Faded, PhoneFollows, Seen
  <2>3. Delivered(i)'
    BY DEF SubscriptionInv, DialogInv, Delivered, PhoneFollows
  <2> QED
    BY <2>2, <2>3
<1> QED
  BY <1>6, <1>7, NetworkKeeps DEF PhoneSound

LEMMA AskKeeps ==
  ASSUME SubscriptionInv, NEW st \in {"asking", "renewing", "leaving"}, NEW t \in bound.times, Ask(st, t)
  PROVE  SubscriptionInv'
<1>1. UNCHANGED <<bound, now, changes, told, call, dlg, tags, mon, toUa>>
  BY DEF Ask
<1>2. PhoneShape /\ tags \in Nat
  BY DEF SubscriptionInv, PhoneInv, CoreInv
<1>3. PICK c, n, tag, g, w :
        /\ \/ st = "asking" /\ ua.st = "idle" /\ c = ua.call + 1 /\ n = 1 /\ tag = 0 /\ g = 0 /\ w = None
           \/ st # "asking" /\ ua.st = "on" /\ c = ua.call /\ n = ua.seq + 1 /\ tag = ua.tag /\ g = ua.got /\ w = ua.shows
        /\ toUs' = toUs \cup {Subscribe(c, n, t, tag)}
        /\ ua' = [ua EXCEPT !.st = st, !.call = c, !.seq = n, !.sent = Subscribe(c, n, t, tag), !.tag = tag,
                            !.got = g, !.shows = w]
  <2>1. CASE st = "asking"
    <3>1. /\ ua.st = "idle" /\ toUs' = toUs \cup {Subscribe(ua.call + 1, 1, t, 0)}
          /\ ua' = [ua EXCEPT !.st = st, !.call = ua.call + 1, !.seq = 1, !.sent = Subscribe(ua.call + 1, 1, t, 0),
                              !.tag = Subscribe(ua.call + 1, 1, t, 0).tag, !.got = 0, !.shows = None]
      BY <2>1 DEF Ask
    <3>2. Subscribe(ua.call + 1, 1, t, 0).tag = 0
      BY DEF Subscribe
    <3> QED
      BY <2>1, <3>1, <3>2
  <2>2. CASE st # "asking"
    <3>1. /\ ua.st = "on" /\ toUs' = toUs \cup {Subscribe(ua.call, ua.seq + 1, t, ua.tag)}
          /\ ua' = [ua EXCEPT !.st = st, !.call = ua.call, !.seq = ua.seq + 1,
                              !.sent = Subscribe(ua.call, ua.seq + 1, t, ua.tag),
                              !.tag = Subscribe(ua.call, ua.seq + 1, t, ua.tag).tag, !.got = ua.got, !.shows = ua.shows]
      BY <2>2 DEF Ask
    <3>2. Subscribe(ua.call, ua.seq + 1, t, ua.tag).tag = ua.tag
      BY DEF Subscribe
    <3> QED
      BY <2>2, <3>1, <3>2
  <2> QED
    BY <2>1, <2>2
<1>4. PICK m : m = Subscribe(c, n, t, tag)
  OBVIOUS
<1>5. /\ ua'.st = st /\ ua'.call = c /\ ua'.seq = n /\ ua'.sent = m /\ ua'.tag = tag /\ ua'.got = g /\ ua'.shows = w
      /\ DOMAIN ua' = DOMAIN ua
  BY <1>2, <1>3, <1>4 DEF PhoneShape
<1>6. c \in Positive /\ n \in Nat /\ tag \in Nat /\ tag <= tags /\ g \in Nat /\ w \in Int /\ ua.call <= c
  <2>1. ua.call \in Nat /\ ua.seq \in Nat /\ ua.tag \in Nat /\ ua.got \in Nat /\ ua.shows \in Int
    BY <1>2 DEF PhoneShape
  <2>2. CASE st = "asking"
    BY <1>2, <1>3, <2>1, <2>2 DEF Positive, None
  <2>3. CASE st # "asking"
    <3>1. ua.call > 0
      BY <1>2, <1>3, <2>3 DEF PhoneShape
    <3> QED
      BY <1>2, <1>3, <2>1, <2>3, <3>1 DEF Positive, PhoneShape
  <2> QED
    BY <2>2, <2>3
<1>7. m \in SubscribeRecord /\ Within(m)' /\ m.type # "answer"
  BY <1>1, <1>4, <1>5, <1>6 DEF Subscribe, SubscribeRecord, Within, Positive
<1>8. PhoneShape'
  BY <1>1, <1>2, <1>5, <1>6 DEF PhoneShape, Positive
<1>9. /\ \A i : i <= ua.call /\ Alive(i)' => Alive(i) /\ ua'.tag = ua.tag /\ ua'.got = ua.got /\ ua'.shows = ua.shows
      /\ ua'.tag = 0 => ua'.got = 0
  <2>1. ua.call \in Nat /\ (ua.tag = 0 => ua.got = 0)
    BY <1>2 DEF PhoneShape, SubscriptionInv, PhoneInv
  <2> QED
    BY <1>3, <1>5, <2>1 DEF Alive
<1>10. StaysConfirmed
  <2>1. \A a \in toUs : a.call <= ua.call
    BY DEF SubscriptionInv, PhoneInv, Within
  <2> QED
    BY <1>9, <2>1 DEF Confirmed, StaysConfirmed
<1>11. \A i \in DOMAIN dlg : PhoneFollows(i)
  <2>1. \A i \in DOMAIN dlg : i <= ua.call
    BY DEF SubscriptionInv, DialogsInv
  <2> QED
    BY <1>1, <1>9, <2>1 DEF PhoneFollows, Seen
<1>12. PICK S : /\ S \subseteq SubscribeRecord \cup AnswerRecord /\ toUs' \subseteq toUs \cup S /\ toUa' \subseteq toUa
                /\ \A k \in S : ComesRightly(k)
  <2>1. PICK S : S = {m}
    OBVIOUS
  <2>2. /\ S \subseteq SubscribeRecord \cup AnswerRecord /\ toUs' \subseteq toUs \cup S /\ toUa' \subseteq toUa
        /\ \A k \in S : ComesRightly(k)
    BY <1>1, <1>3, <1>4, <1>7, <2>1 DEF ComesRightly
  <2> QED
    BY <2>2
<1>13. PhoneSound
  BY <1>5, <1>6, <1>7, <1>8, <1>9 DEF PhoneSound
<1> QED
  BY <1>1, <1>10, <1>11, <1>12, <1>13, PhoneStep

LEMMA ForgetKeeps ==
  ASSUME SubscriptionInv, Forget
  PROVE  SubscriptionInv'
<1>1. /\ UNCHANGED <<bound, now, changes, told, call, dlg, tags, mon, toUs, toUa>>
      /\ ua' = [ua EXCEPT !.st = "idle"]
  BY DEF Forget, network
<1>2. PhoneShape /\ (ua.tag = 0 => ua.got = 0)
  BY DEF SubscriptionInv, PhoneInv
<1>3. /\ ua'.st = "idle" /\ DOMAIN ua' = DOMAIN ua /\ ua'.call = ua.call /\ ua'.tag = ua.tag /\ ua'.got = ua.got
      /\ ua'.shows = ua.shows /\ ua'.seq = ua.seq /\ ua'.sent = ua.sent
  BY <1>1, <1>2 DEF PhoneShape
<1>4. PhoneShape' /\ (ua'.tag = 0 => ua'.got = 0)
  BY <1>1, <1>2, <1>3 DEF PhoneShape
<1>5. \A i : ~Alive(i)'
  BY <1>3 DEF Alive
<1>6. StaysConfirmed /\ \A i \in DOMAIN dlg : PhoneFollows(i)
  BY <1>5 DEF Confirmed, StaysConfirmed, PhoneFollows
<1>7. PICK S : S = {}
  OBVIOUS
<1>8. /\ S \subseteq SubscribeRecord \cup AnswerRecord /\ toUs' \subseteq toUs \cup S /\ toUa' \subseteq toUa
      /\ \A m \in S : ComesRightly(m)
  BY <1>1, <1>7
<1>9. PhoneSound
  BY <1>2, <1>3, <1>4 DEF Waits, PhoneShape, PhoneSound
<1> QED
  BY <1>1, <1>6, <1>8, <1>9, PhoneStep

LEMMA GetAnswerKeeps ==
  ASSUME SubscriptionInv, NEW m \in toUa, GetAnswer(m)
  PROVE  SubscriptionInv'
<1>1. /\ UNCHANGED <<bound, now, changes, told, call, dlg, tags, mon, toUs>> /\ toUa' \subseteq toUa
      /\ m.type = "answer"
  BY DEF GetAnswer
<1>2. PhoneShape /\ (ua.tag = 0 => ua.got = 0) /\ (Waits => ua.sent \in SubscribeRecord /\ Within(ua.sent))
  BY DEF SubscriptionInv, PhoneInv
<1>3. m.tag \in Nat /\ m.tag <= tags
  BY DEF SubscriptionInv, PhoneInv, AnswerRecord, NotifyRecord, Positive, Within
<1>4. /\ DOMAIN ua' = DOMAIN ua /\ ua'.call = ua.call /\ ua'.got = ua.got /\ ua'.shows = ua.shows /\ ua'.seq = ua.seq
      /\ ua'.sent = ua.sent /\ (ua'.tag = ua.tag \/ (ua.tag = 0 /\ ua'.tag = m.tag))
      /\ ua'.st = ua.st \/ (Waits /\ ua'.st \in {"on", "idle"})
  <2>1. CASE m.call = ua.call /\ m.seq = ua.seq /\ Waits
    <3>1. ua' = [ua EXCEPT !.st = IF m.code = 200 /\ @ # "leaving" THEN "on" ELSE "idle",
                           !.tag = IF @ = 0 THEN m.tag ELSE @]
      BY <2>1 DEF GetAnswer
    <3> QED
      BY <1>2, <2>1, <3>1 DEF PhoneShape
  <2>2. CASE ~(m.call = ua.call /\ m.seq = ua.seq /\ Waits)
    BY <2>2 DEF GetAnswer
  <2> QED
    BY <2>1, <2>2
<1>5. PhoneSound
  <2>1. PhoneShape'
    BY <1>1, <1>2, <1>3, <1>4 DEF PhoneShape, Waits
  <2>2. Waits' => Waits
    BY <1>4 DEF Waits
  <2> QED
    BY <1>1, <1>2, <1>4, <2>1, <2>2 DEF PhoneSound, Within, PhoneShape
<1>6. \A i : Alive(i)' => Alive(i)
  BY <1>4 DEF Alive, Waits
<1>7. ua.got > 0 => ua'.tag = ua.tag
  BY <1>2, <1>4 DEF PhoneShape
<1>8. StaysConfirmed
  <2>1. \A a \in toUs : a.type = "answer" => a.seq \in Nat
    BY DEF SubscriptionInv, PhoneInv, AnswerRecord, SubscribeRecord
  <2>2. ua.got \in Nat
    BY <1>2 DEF PhoneShape
  <2> QED
    BY <1>4, <1>6, <1>7, <2>1, <2>2 DEF Confirmed, StaysConfirmed
<1>9. ASSUME NEW i \in DOMAIN dlg
      PROVE  PhoneFollows(i)
  <2>1. ua.got \in Nat
    BY <1>2 DEF PhoneShape
  <2> QED
    BY <1>1, <1>4, <1>6, <1>7, <2>1 DEF PhoneFollows, Seen
<1>10. PICK S : S = {}
  OBVIOUS
<1>11. /\ S \subseteq SubscribeRecord \cup AnswerRecord /\ toUs' \subseteq toUs \cup S /\ toUa' \subseteq toUa
       /\ \A k \in S : ComesRightly(k)
  BY <1>1, <1>10
<1> QED
  BY <1>1, <1>5, <1>8, <1>9, <1>11, PhoneStep

LEMMA GetNotifyKeeps ==
  ASSUME SubscriptionInv, NEW m \in toUa, GetNotify(m)
  PROVE  SubscriptionInv'
<1>1. /\ UNCHANGED <<bound, now, changes, told, call, dlg, tags, mon>> /\ toUa' \subseteq toUa
      /\ m.type = "NOTIFY" /\ toUs' = toUs \cup {AnswerTo(m, m.tag, IF Mine(m) THEN 200 ELSE 481)}
  BY DEF GetNotify
<1>2. PhoneShape /\ (ua.tag = 0 => ua.got = 0) /\ (Waits => ua.sent \in SubscribeRecord /\ Within(ua.sent))
  BY DEF SubscriptionInv, PhoneInv
<1>3. m \in NotifyRecord /\ m.tag <= tags /\ m.call <= ua.call
  BY <1>1 DEF SubscriptionInv, PhoneInv, AnswerRecord, Within
<1>4. /\ m.tag \in Nat /\ m.tag # 0 /\ m.seq \in Nat /\ m.seq > 0 /\ m.state \in Int /\ m.call \in Positive
  BY <1>3 DEF NotifyRecord, Positive
<1>5. \/ ua' = ua /\ (Mine(m) => m.seq <= ua.got)
      \/ /\ Mine(m) /\ m.seq > ua.got /\ DOMAIN ua' = DOMAIN ua /\ ua'.call = ua.call /\ ua'.seq = ua.seq
         /\ ua'.sent = ua.sent /\ ua'.tag = m.tag /\ ua'.got = m.seq /\ ua'.shows = m.state
         /\ ua'.st = ua.st \/ ua'.st = "idle"
  <2>1. CASE Mine(m) /\ m.seq > ua.got
    <3>1. ua' = [ua EXCEPT !.tag = m.tag, !.got = m.seq, !.shows = m.state, !.st = IF m.over THEN "idle" ELSE @]
      BY <2>1 DEF GetNotify
    <3> QED
      BY <1>2, <2>1, <3>1 DEF PhoneShape
  <2>2. CASE ~(Mine(m) /\ m.seq > ua.got)
    <3>1. ua' = ua
      BY <2>2 DEF GetNotify
    <3> QED
      BY <1>2, <1>4, <2>2, <3>1 DEF PhoneShape
  <2> QED
    BY <2>1, <2>2
<1>6. PhoneSound
  <2>1. PhoneShape'
    BY <1>1, <1>2, <1>3, <1>4, <1>5 DEF PhoneShape
  <2>2. Waits' => Waits /\ ua'.sent = ua.sent
    BY <1>5 DEF Waits
  <2>3. ua'.tag = 0 => ua'.got = 0
    BY <1>2, <1>4, <1>5
  <2>4. ua'.call = ua.call /\ ua.call \in Nat
    BY <1>2, <1>5 DEF PhoneShape
  <2> QED
    BY <1>1, <1>2, <2>1, <2>2, <2>3, <2>4 DEF PhoneSound, Within
<1>7. \A i : Alive(i)' => Alive(i)
  BY <1>5 DEF Alive
<1>8. StaysConfirmed
  <2> SUFFICES ASSUME NEW a \in toUs, a.type = "answer", Confirmed(a), a.seq > 0, a.code = 200, Alive(a.call)'
               PROVE  ua'.tag = a.tag /\ a.seq <= ua'.got
    BY DEF Confirmed, StaysConfirmed
  <2>1. ua.tag = a.tag /\ a.seq <= ua.got
    BY <1>7 DEF Confirmed
  <2>2. a.seq \in Nat /\ ua.got \in Nat
    BY <1>2 DEF SubscriptionInv, PhoneInv, AnswerRecord, SubscribeRecord, PhoneShape
  <2>3. Mine(m) => ua.tag = m.tag
    BY <1>2, <2>1, <2>2 DEF Mine
  <2> QED
    BY <1>4, <1>5, <2>1, <2>2, <2>3
<1>9. ASSUME NEW i \in DOMAIN dlg
      PROVE  PhoneFollows(i)
  <2> SUFFICES ASSUME Alive(i)', ua' # ua
               PROVE  PhoneFollows(i)
    BY <1>1, <1>7 DEF PhoneFollows, Seen
  <2>1. Mine(m) /\ Alive(i) /\ m.call = i /\ ua'.tag = m.tag /\ ua'.got = m.seq /\ ua'.shows = m.state /\ m.seq > ua.got
    BY <1>5, <1>7 DEF Mine, Alive
  <2>2. ua'.tag = dlg[i].tag => m \in Copies(i)
    BY <1>1, <2>1 DEF Copies
  <2>3. Seen(i)' => \E k \in Copies(i) : ua'.got = k.seq /\ ua'.shows = k.state
    BY <1>1, <2>1, <2>2 DEF Seen
  <2>4. ASSUME dlg[i].seq > 0, ua.tag = dlg[i].tag, ua.got = dlg[i].seq
        PROVE  FALSE
    <3>1. ua.tag # 0 /\ dlg[i].seq \in Nat /\ Numbered(i)
      BY <2>4 DEF SubscriptionInv, DialogInv, DialogRecord, Positive
    <3>2. m.tag = dlg[i].tag
      BY <2>1, <2>4, <3>1 DEF Mine
    <3>3. m.seq <= dlg[i].seq
      BY <2>1, <2>2, <3>1, <3>2 DEF Numbered
    <3> QED
      BY <1>4, <2>1, <2>4, <3>1, <3>3
  <2> QED
    BY <2>1, <2>3, <2>4 DEF PhoneFollows
<1>10. PICK a : a = AnswerTo(m, m.tag, IF Mine(m) THEN 200 ELSE 481)
  OBVIOUS
<1>11. /\ a \in AnswerRecord /\ a.type = "answer" /\ a.call = m.call /\ a.tag = m.tag /\ a.seq = m.seq
       /\ a.code \in {200, 481} /\ (a.code = 200 => Mine(m))
  <2>1. (IF Mine(m) THEN 200 ELSE 481) \in Codes
    BY DEF Codes
  <2> QED
    BY <1>4, <1>10, <2>1 DEF AnswerTo, AnswerRecord
<1>12. ComesRightly(a)
  <2>1. Within(a)'
    BY <1>1, <1>3, <1>5, <1>11 DEF Within
  <2>2. Confirmed(a)'
    <3> SUFFICES ASSUME Mine(m), Alive(m.call)'
                 PROVE  ua'.tag = m.tag /\ m.seq <= ua'.got
      BY <1>11 DEF Confirmed
    <3>1. CASE ua' = ua
      <4>1. m.seq <= ua.got
        BY <1>2, <1>4, <1>5, <3>1 DEF PhoneShape
      <4>2. ua.got \in Nat
        BY <1>2 DEF PhoneShape
      <4> QED
        BY <1>2, <1>4, <3>1, <4>1, <4>2 DEF Mine
    <3>2. CASE ua' # ua
      BY <1>4, <1>5, <3>2
    <3> QED
      BY <3>1, <3>2
  <2> QED
    BY <1>4, <1>11, <2>1, <2>2 DEF ComesRightly
<1>13. PICK S : S = {a}
  OBVIOUS
<1>14. /\ S \subseteq SubscribeRecord \cup AnswerRecord /\ toUs' \subseteq toUs \cup S /\ toUa' \subseteq toUa
       /\ \A k \in S : ComesRightly(k)
  BY <1>1, <1>10, <1>11, <1>12, <1>13
<1> QED
  BY <1>1, <1>6, <1>8, <1>9, <1>14, PhoneStep
-----------------------------------------------------------------------------
(* The core, and what is read of it.                                       *)

LEMMA NothingSent ==
  ASSUME SubscriptionInv, UNCHANGED <<bound, dlg, tags, ua, network>>, mon'.call = mon.call
  PROVE  /\ PhoneInv'
         /\ \A i \in DOMAIN dlg :
              /\ dlg[i] \in DialogRecord /\ dlg[i].out = {} /\ dlg[i].tag <= tags /\ Numbered(i)' /\ Delivered(i)'
              /\ Works(i)' = Works(i) /\ (\A v : Shows(i, v) => Shows(i, v)')
              /\ bound.what = "extension" => QueueInv(i)' /\ LastInv(i)'
<1>1. PhoneInv'
  BY DEF network, SubscriptionInv, PhoneInv, PhoneShape, SubscribeRecord, Within, Alive, Waits
<1>2. ASSUME NEW i \in DOMAIN dlg
      PROVE  /\ Copies(i)' = Copies(i) /\ Seen(i)' = Seen(i) /\ Works(i)' = Works(i) /\ Alive(i)' = Alive(i)
  BY DEF network, Copies, Seen, Works, Alive
<1>3. ASSUME NEW i \in DOMAIN dlg
      PROVE  /\ Numbered(i)' /\ Delivered(i)' /\ (\A v : Shows(i, v) => Shows(i, v)')
             /\ bound.what = "extension" => QueueInv(i)'
  BY <1>2 DEF SubscriptionInv, DialogInv, Numbered, Delivered, Shows, ExtensionInv, QueueInv
<1>4. ASSUME NEW i \in DOMAIN dlg, bound.what = "extension"
      PROVE  LastInv(i)'
  <2>1. LastInv(i)
    BY <1>4 DEF SubscriptionInv, DialogInv, ExtensionInv
  <2>2. PICK v : v = dlg[i].last
    OBVIOUS
  <2>3. Works(i) /\ ~dlg[i].queued => Shows(i, v)'
    BY <1>3, <2>1, <2>2 DEF LastInv
  <2> QED
    BY <1>2, <2>1, <2>2, <2>3 DEF LastInv
<1> QED
  BY <1>1, <1>2, <1>3, <1>4 DEF SubscriptionInv, DialogInv

LEMMA ChangeKeeps ==
  ASSUME SubscriptionInv, NEW v \in {Gone, 0, changes + 1}, Change(v)
  PROVE  SubscriptionInv'
<1>1. /\ UNCHANGED <<bound, told, call, dlg, tags, mon, ua, network>>
      /\ now' = v /\ changes' = changes + 1 /\ (bound.what = "mailbox" => v > 0)
  BY DEF Change
<1>2. /\ changes \in Nat /\ now \in Int /\ told \in Int /\ told <= changes /\ tags \in Nat
      /\ Gone <= told /\ bound.what \in {"extension", "mailbox"} /\ call \in {None, told}
  BY DEF SubscriptionInv, CoreInv
<1>3. v \in Int /\ Gone <= v /\ v <= changes + 1 /\ (v > 0 => v > changes)
  BY <1>2 DEF Gone
<1>4. CoreInv'
  BY <1>1, <1>2, <1>3 DEF CoreInv
<1>5. DialogsInv' /\ HandInv'
  <2>1. mon.read \in Int /\ mon.read <= changes + 1
    BY <1>2 DEF SubscriptionInv, DialogsInv, MonitorRecord
  <2> QED
    BY <1>1, <2>1 DEF SubscriptionInv, DialogsInv, HandInv, Free
<1>6. MonitorInv'
  <2> SUFFICES ASSUME mon # Free, mon.read # None, ~mon.late
               PROVE  MonitorInv'
    BY <1>1 DEF MonitorInv, Free
  <2>1. mon.call \in DOMAIN dlg /\ mon.read \in Int /\ mon.read <= changes
    BY DEF SubscriptionInv, DialogsInv, MonitorRecord
  <2>2. ASSUME bound.what = "extension"
        PROVE  /\ call = None => mon.read = told
               /\ mon.read = v /\ v > 0 => told = v
               /\ \A w \in {v, told} : w > 0 /\ w # mon.read => dlg[mon.call].ring # w
    <3>1. /\ call = None => mon.read = told
          /\ told > 0 /\ told # mon.read => dlg[mon.call].ring # told
      BY <2>2 DEF SubscriptionInv, MonitorInv
    <3>2. ~(mon.read = v /\ v > 0)
      BY <1>2, <1>3, <2>1
    <3>3. dlg[mon.call].ring \in Int /\ dlg[mon.call].ring <= changes
      BY <2>1, <2>2 DEF SubscriptionInv, DialogInv, DialogRecord, ExtensionInv
    <3>4. v > 0 => dlg[mon.call].ring # v
      BY <1>2, <1>3, <3>3
    <3> QED
      BY <3>1, <3>2, <3>4
  <2>3. bound.what = "mailbox" => told # v
    BY <1>1, <1>2, <1>3
  <2> QED
    BY <1>1, <2>2, <2>3 DEF MonitorInv
<1>7. ASSUME NEW i \in DOMAIN dlg
      PROVE  DialogInv(i)'
  <2>1. /\ dlg[i] \in DialogRecord /\ dlg[i].out = {} /\ dlg[i].tag <= tags /\ Numbered(i)' /\ Delivered(i)'
        /\ Works(i)' = Works(i)
        /\ bound.what = "extension" => QueueInv(i)' /\ LastInv(i)'
    BY <1>1, NothingSent
  <2>2. ASSUME bound.what = "extension"
        PROVE  ExtensionInv(i)'
    <3>1. dlg[i].ring \in Int /\ dlg[i].ring <= changes /\ NotedInv(i)
      BY <2>2 DEF SubscriptionInv, DialogInv, DialogRecord, ExtensionInv
    <3>2. v > 0 => dlg[i].ring # v
      BY <1>2, <1>3, <3>1
    <3>3. NotedInv(i)'
      BY <1>1, <2>1, <3>1, <3>2 DEF NotedInv
    <3>4. dlg[i].ring <= changes + 1
      BY <1>2, <3>1
    <3> QED
      BY <1>1, <2>1, <2>2, <3>3, <3>4 DEF ExtensionInv
  <2>3. ASSUME bound.what = "mailbox"
        PROVE  MailboxInv(i)'
    <3>1. MailboxInv(i)
      BY <2>3 DEF SubscriptionInv, DialogInv
    <3>2. told # v
      BY <1>1, <1>2, <1>3, <2>3
    <3> QED
      BY <1>1, <2>1, <3>1, <3>2 DEF MailboxInv
  <2> QED
    BY <1>1, <2>1, <2>2, <2>3 DEF DialogInv
<1>8. PhoneInv'
  BY <1>1, NothingSent
<1> QED
  BY <1>1, <1>4, <1>5, <1>6, <1>7, <1>8 DEF SubscriptionInv

LEMMA NoticeGoesOn ==
  ASSUME SubscriptionInv, Notice
  PROVE  SubscriptionInv'
<1>1. /\ UNCHANGED <<bound, now, changes, dlg, tags, mon, ua, network>>
      /\ call = None /\ told # now /\ call' = now /\ told' = now
  BY DEF Notice
<1>2. /\ changes \in Nat /\ now \in Int /\ tags \in Nat /\ Gone <= now /\ now <= changes
      /\ bound.what \in {"extension", "mailbox"} /\ now # None
  BY DEF SubscriptionInv, CoreInv, Gone, None
<1>3. CoreInv' /\ DialogsInv' /\ HandInv'
  BY <1>1, <1>2 DEF CoreInv, SubscriptionInv, DialogsInv, HandInv, Free
<1>4. MonitorInv'
  BY <1>1, <1>2 DEF SubscriptionInv, MonitorInv, Free
<1>5. ASSUME NEW i \in DOMAIN dlg
      PROVE  DialogInv(i)'
  <2>1. /\ dlg[i] \in DialogRecord /\ dlg[i].out = {} /\ dlg[i].tag <= tags /\ Numbered(i)' /\ Delivered(i)'
        /\ Works(i)' = Works(i)
        /\ bound.what = "extension" => QueueInv(i)' /\ LastInv(i)'
    BY <1>1, NothingSent
  <2>2. bound.what = "extension" => ExtensionInv(i)'
    BY <1>1, <1>2, <2>1 DEF SubscriptionInv, DialogInv, ExtensionInv, NotedInv
  <2>3. bound.what = "mailbox" => MailboxInv(i)'
    BY <1>1, <1>2, <2>1 DEF SubscriptionInv, DialogInv, MailboxInv
  <2> QED
    BY <1>1, <2>1, <2>2, <2>3 DEF DialogInv
<1>6. PhoneInv'
  BY <1>1, NothingSent
<1> QED
  BY <1>1, <1>3, <1>4, <1>5, <1>6 DEF SubscriptionInv

LEMMA ReadStateKeeps ==
  ASSUME SubscriptionInv, ReadState
  PROVE  SubscriptionInv'
<1>1. /\ UNCHANGED <<bound, now, changes, told, call, dlg, tags, ua, network>>
      /\ mon # Free /\ mon' = [mon EXCEPT !.read = now, !.late = bound.what = "extension" /\ now # told]
  BY DEF ReadState
<1>2. /\ changes \in Nat /\ now \in Int /\ Gone <= now /\ now <= changes /\ now # None
      /\ bound.what \in {"extension", "mailbox"} /\ mon \in MonitorRecord /\ mon.call \in DOMAIN dlg
  BY <1>1 DEF SubscriptionInv, CoreInv, DialogsInv, Gone, None
<1>3. PICK l \in BOOLEAN : l = (bound.what = "extension" /\ now # told)
  OBVIOUS
<1>4. /\ mon'.call = mon.call /\ mon'.again = mon.again /\ mon'.read = now
      /\ mon'.late = l /\ mon'.seq = mon.seq /\ mon' \in MonitorRecord
  BY <1>1, <1>2, <1>3 DEF MonitorRecord
<1>5. CoreInv' /\ DialogsInv' /\ HandInv'
  BY <1>1, <1>2, <1>4 DEF CoreInv, SubscriptionInv, DialogsInv, HandInv
<1>6. MonitorInv'
  BY <1>1, <1>2, <1>3, <1>4 DEF MonitorInv
<1>7. ASSUME NEW i \in DOMAIN dlg
      PROVE  DialogInv(i)'
  <2>1. /\ dlg[i] \in DialogRecord /\ dlg[i].out = {} /\ dlg[i].tag <= tags /\ Numbered(i)' /\ Delivered(i)'
        /\ Works(i)' = Works(i) /\ (\A v : Shows(i, v) => Shows(i, v)')
        /\ bound.what = "extension" => QueueInv(i)' /\ LastInv(i)'
    BY <1>1, <1>4, NothingSent
  <2>2. bound.what = "extension" => ExtensionInv(i)'
    BY <1>1, <2>1 DEF SubscriptionInv, DialogInv, ExtensionInv, NotedInv
  <2>3. bound.what = "mailbox" => MailboxInv(i)'
    BY <1>1, <2>1 DEF SubscriptionInv, DialogInv, MailboxInv
  <2> QED
    BY <1>1, <2>1, <2>2, <2>3 DEF DialogInv
<1>8. PhoneInv'
  BY <1>1, <1>4, NothingSent
<1> QED
  BY <1>1, <1>5, <1>6, <1>7, <1>8 DEF SubscriptionInv
-----------------------------------------------------------------------------
(* A dialog that changes.                                                  *)

\* The dialog c becomes d, and what it sends goes out.
Becomes(c, d) ==
  /\ dlg'[c] = Sent(d) /\ d \in DialogRecord /\ ua' = ua
  /\ \A m \in toUa' : m.call = c => m \in toUa \cup d.out

\* d is the dialog c before it says anything more.
Base(d, c) ==
  /\ d \in DialogRecord /\ d.tag = dlg[c].tag /\ d.seq = dlg[c].seq /\ d.packets \subseteq dlg[c].packets
  /\ d.out \subseteq AnswerRecord

Reaches(d, c) ==
  d.seq > 0 /\ ~d.need /\ ~d.missed /\ Alive(c) =>
    \/ \E m \in d.packets : m.seq = d.seq
    \/ ua.tag = d.tag /\ ua.got = d.seq

Queues(d) == ~d.need =>
  /\ d.queued => d.pend # 0
  /\ d.pend # 0 => \E m \in d.packets : m.seq = d.pend

LEMMA SentFields ==
  ASSUME NEW d \in DialogRecord
  PROVE  /\ Sent(d) \in DialogRecord /\ Sent(d).out = {}
         /\ Sent(d).tag = d.tag /\ Sent(d).on = d.on /\ Sent(d).est = d.est /\ Sent(d).reg = d.reg
         /\ Sent(d).last = d.last /\ Sent(d).ring = d.ring /\ Sent(d).queued = d.queued /\ Sent(d).pend = d.pend
         /\ Sent(d).seq = d.seq /\ Sent(d).packets = d.packets /\ Sent(d).need = d.need
         /\ Sent(d).raced = d.raced /\ Sent(d).missed = d.missed
<1>1. Sent(d) = [d EXCEPT !.out = {}]
  BY DEF Sent
<1>2. {} \in SUBSET (NotifyRecord \cup AnswerRecord)
  OBVIOUS
<1>3. Sent(d) \in DialogRecord
  BY <1>1, <1>2 DEF DialogRecord
<1> QED
  BY <1>1, <1>3 DEF DialogRecord

LEMMA BecomesMute ==
  ASSUME SubscriptionInv, NEW c \in DOMAIN dlg, NEW b, NEW d, Base(b, c), Becomes(c, d), d.tag = b.tag, Mute(b, d)
  PROVE  /\ Numbered(c)' /\ (Reaches(d, c) => Delivered(c)')
         /\ \A v : Shows(c, v) => Shows(c, v)'
<1>1. d \in DialogRecord /\ dlg'[c] = Sent(d) /\ ua' = ua
  BY DEF Becomes
<1>2. /\ dlg'[c].tag = dlg[c].tag /\ dlg'[c].seq = dlg[c].seq /\ dlg'[c].packets \subseteq dlg[c].packets
      /\ dlg'[c].packets = d.packets /\ dlg'[c].need = d.need /\ dlg'[c].missed = d.missed /\ d.out \subseteq AnswerRecord
  BY <1>1, SentFields DEF Base, Mute
<1>3. Copies(c)' \subseteq Copies(c)
  <2>1. \A m \in d.out : m.type # "NOTIFY"
    BY <1>2 DEF AnswerRecord
  <2> QED
    BY <1>2, <2>1 DEF Copies, Becomes
<1>4. Faded(c)
  BY <1>1, <1>2, <1>3 DEF Faded, Seen, Alive
<1>5. Numbered(c)
  BY DEF SubscriptionInv, DialogInv
<1>6. Reaches(d, c) => Delivered(c)'
  BY <1>1, <1>2 DEF Reaches, Delivered, Alive, Base, Mute
<1> QED
  BY <1>4, <1>5, <1>6, FadedNumbers

LEMMA BecomesTold ==
  ASSUME SubscriptionInv, NEW c \in DOMAIN dlg, NEW b, NEW d, NEW v, Base(b, c), Becomes(c, d), d.tag = b.tag,
         Utters(b, d, c, v)
  PROVE  Numbered(c)' /\ Delivered(c)' /\ Shows(c, v)'
<1>1. d \in DialogRecord /\ dlg'[c] = Sent(d) /\ ua' = ua
  BY DEF Becomes
<1>2. /\ dlg'[c].tag = d.tag /\ dlg'[c].seq = d.seq /\ dlg'[c].packets = d.packets
      /\ dlg[c].tag = d.tag /\ dlg[c].seq = b.seq /\ b.packets \subseteq dlg[c].packets /\ b.out \subseteq AnswerRecord
  BY <1>1, SentFields DEF Base
<1>3. PICK m \in NotifyRecord :
        /\ m.call = c /\ m.tag = b.tag /\ m.seq = b.seq + 1 /\ m.state = v
        /\ d.seq = b.seq + 1 /\ d.packets = b.packets \cup {m} /\ d.out = b.out \cup {m}
  BY DEF Utters
<1>4. Copies(c)' \subseteq Copies(c) \cup {m}
  <2>1. \A k \in b.out : k.type # "NOTIFY"
    BY <1>2 DEF AnswerRecord
  <2> QED
    BY <1>2, <1>3, <2>1 DEF Copies, Becomes
<1>5. Said(c, v)
  <2>1. m \in dlg'[c].packets /\ dlg'[c].packets \subseteq dlg[c].packets \cup {m} /\ m.tag = dlg[c].tag
        /\ m.seq = dlg[c].seq + 1 /\ dlg'[c].seq = dlg[c].seq + 1
    BY <1>2, <1>3
  <2> QED
    BY <1>1, <1>2, <1>3, <1>4, <2>1 DEF Said
<1>6. PhoneInv /\ dlg[c] \in DialogRecord /\ Numbered(c)
  BY DEF SubscriptionInv, DialogInv
<1> QED
  BY <1>5, <1>6, SaidNumbers

\* d is e, but for what has nothing to do with its NOTIFYs.
Alike(e, d) ==
  /\ d.tag = e.tag /\ d.seq = e.seq /\ d.packets = e.packets /\ d.out = e.out /\ d.last = e.last /\ d.on = e.on
  /\ d.est = e.est /\ d.queued = e.queued /\ d.pend = e.pend /\ d.missed = e.missed /\ (e.need => d.need)

LEMMA BecomesNoted ==
  ASSUME SubscriptionInv, NEW c \in DOMAIN dlg, NEW b, NEW e, NEW d, NEW v, Base(b, c), Becomes(c, d),
         TakesIn(b, e, c, v), Stays(b, e), Alike(e, d), Reaches(b, c), Queues(b)
  PROVE  /\ Numbered(c)' /\ Delivered(c)' /\ Queues(d)
         /\ d.on /\ d.est /\ ~d.need => d.seq > 0 /\ (~d.queued => Shows(c, v)')
<1>1. /\ d.tag = b.tag /\ d.last = v /\ d.on = b.on /\ d.est = b.est /\ d.missed = b.missed /\ (b.need => d.need)
  BY DEF TakesIn, Stays, Alike
<1>2. CASE b.pend = 0 /\ b.on /\ b.est /\ Utters(b, e, c, v) /\ e.pend = e.seq /\ e.queued = b.queued
  <2>1. Utters(b, d, c, v)
    BY <1>2 DEF Utters, Alike
  <2>2. Numbered(c)' /\ Delivered(c)' /\ Shows(c, v)'
    BY <1>1, <2>1, BecomesTold
  <2>3. PICK m \in NotifyRecord : m.seq = b.seq + 1 /\ d.seq = b.seq + 1 /\ d.packets = b.packets \cup {m}
    BY <2>1 DEF Utters
  <2>4. b.seq \in Nat
    BY DEF Base, DialogRecord
  <2>5. d.pend = d.seq /\ d.queued = b.queued
    BY <1>2 DEF Alike
  <2>6. Queues(d)
    BY <1>1, <1>2, <2>3, <2>5 DEF Queues
  <2> QED
    BY <2>2, <2>3, <2>4, <2>6
<1>3. ASSUME Mute(b, e)
      PROVE  Numbered(c)' /\ Delivered(c)'
  <2>1. Mute(b, d)
    BY <1>3 DEF Mute, Alike
  <2>2. Reaches(d, c)
    BY <1>1, <2>1 DEF Reaches, Mute
  <2> QED
    BY <1>1, <2>1, <2>2, BecomesMute
<1>4. CASE b.pend = 0 /\ ~(b.on /\ b.est) /\ Mute(b, e) /\ e.pend = b.pend /\ e.queued = b.queued
  <2>1. Queues(d)
    BY <1>1, <1>4 DEF Queues, Alike, Mute
  <2> QED
    BY <1>1, <1>3, <1>4, <2>1
<1>5. CASE b.pend # 0 /\ Mute(b, e) /\ e.pend = b.pend /\ (b.on => e.queued) /\ (~b.on => e.queued = b.queued)
  <2>1. Queues(d)
    BY <1>1, <1>5 DEF Queues, Alike, Mute
  <2>2. ~d.need => d.seq > 0
    <3> HAVE ~d.need
    <3>1. PICK m \in b.packets : m.seq = b.pend
      BY <1>1, <1>5 DEF Queues
    <3>2. m \in NotifyRecord /\ m \in dlg[c].packets
      BY DEF Base, DialogRecord
    <3>3. m \in Copies(c)
      BY <3>2 DEF Copies, NotifyRecord, SubscriptionInv, DialogInv, Numbered
    <3>4. m.seq \in Nat /\ m.seq > 0 /\ m.seq <= dlg[c].seq /\ dlg[c].seq \in Nat
      BY <3>2, <3>3 DEF NotifyRecord, Positive, SubscriptionInv, DialogInv, Numbered, DialogRecord
    <3> QED
      BY <1>5, <3>4 DEF Alike, Mute, Base
  <2>3. d.on => d.queued
    BY <1>1, <1>5 DEF Alike
  <2> QED
    BY <1>3, <1>5, <2>1, <2>2, <2>3
<1> QED
  BY <1>2, <1>4, <1>5 DEF TakesIn

\* Only the dialog c changes, if another one does not go.
OnlyThis(c, d) ==
  /\ UNCHANGED <<bound, now, changes, told, call>> /\ tags' \in Nat /\ tags <= tags'
  /\ c \in DOMAIN dlg' /\ c \in 1 .. ua.call /\ DOMAIN dlg' \subseteq DOMAIN dlg \cup {c}
  /\ dlg' = [i \in DOMAIN dlg' |-> dlg'[i]] /\ \A i \in DOMAIN dlg' \ {c} : dlg'[i] = dlg[i]
  /\ toUs' \subseteq toUs /\ toUa' = toUa \cup d.out /\ \A m \in d.out : m.call = c /\ m.tag <= tags'

LEMMA DialogStep ==
  ASSUME SubscriptionInv, NEW c, NEW d, OnlyThis(c, d), Becomes(c, d), mon.call \in {0, c}, mon' \in MonitorRecord,
         mon' = Free \/ mon'.call = c, mon'.read <= changes, HandInv', MonitorInv', DialogInv(c)'
  PROVE  SubscriptionInv'
<1>1. /\ bound' = bound /\ now' = now /\ changes' = changes /\ told' = told /\ call' = call /\ ua' = ua
      /\ tags \in Nat /\ tags' \in Nat /\ tags <= tags'
  BY DEF OnlyThis, Becomes, SubscriptionInv, CoreInv
<1>2. CoreInv'
  BY <1>1 DEF SubscriptionInv, CoreInv
<1>3. PhoneInv'
  <2>1. PICK S : S = {}
    OBVIOUS
  <2>2. PICK Ms : Ms = d.out
    OBVIOUS
  <2>3. /\ S \subseteq SubscribeRecord /\ Ms \subseteq NotifyRecord \cup AnswerRecord
        /\ toUs' \subseteq toUs \cup S /\ toUa' \subseteq toUa \cup Ms
        /\ \A m \in S \cup Ms : m.call <= ua.call /\ m.tag <= tags'
    BY <2>1, <2>2 DEF OnlyThis, Becomes, DialogRecord
  <2>4. PhoneInv
    BY DEF SubscriptionInv
  <2> QED
    BY <1>1, <2>3, <2>4, PhoneKeeps
<1>4. DialogsInv'
  BY <1>1 DEF SubscriptionInv, DialogsInv, OnlyThis, Free
<1>5. ASSUME NEW i \in DOMAIN dlg', i # c
      PROVE  DialogInv(i)'
  <2>1. i \in DOMAIN dlg /\ dlg'[i] = dlg[i]
    BY <1>5 DEF OnlyThis
  <2>2. Copies(i)' \subseteq Copies(i)
    BY <1>5, <2>1 DEF OnlyThis, Copies
  <2>3. Faded(i)
    BY <1>1, <2>1, <2>2 DEF Faded, Seen, Alive
  <2>4. Delivered(i)'
    BY <1>1, <2>1 DEF SubscriptionInv, DialogInv, Delivered, Alive
  <2>5. mon.call # i
    BY <1>5, <2>1 DEF SubscriptionInv, DialogsInv
  <2>6. Calm /\ CoreInv /\ DialogInv(i)
    BY <1>1, <2>1 DEF Calm, SubscriptionInv
  <2> QED
    BY <2>1, <2>3, <2>4, <2>5, <2>6, SameDialogKeeps
<1> QED
  BY <1>2, <1>3, <1>4, <1>5 DEF SubscriptionInv

LEMMA ExtensionKeeps ==
  ASSUME NEW c, NEW d, NEW v, Becomes(c, d), v = d.last, bound.what = "extension", bound' = bound, d.tag <= tags',
         Numbered(c)', Delivered(c)', Queues(d), d.ring <= changes',
         Works(c)' => d.est /\ d.reg /\ d.seq > 0 /\ (~d.queued => Shows(c, v)'),
         Works(c)' /\ ~d.raced =>
           /\ call' = None => v = told'
           /\ d.ring = now' /\ now' > 0 => told' = now' /\ v = now'
           /\ d.ring = told' /\ told' > 0 => v = told'
  PROVE  DialogInv(c)'
<1>1. d \in DialogRecord /\ dlg'[c] = Sent(d)
  BY DEF Becomes
<1>2. /\ dlg'[c] \in DialogRecord /\ dlg'[c].out = {}
      /\ dlg'[c].tag = d.tag /\ dlg'[c].est = d.est /\ dlg'[c].reg = d.reg
      /\ dlg'[c].last = d.last /\ dlg'[c].ring = d.ring /\ dlg'[c].queued = d.queued /\ dlg'[c].pend = d.pend
      /\ dlg'[c].seq = d.seq /\ dlg'[c].packets = d.packets /\ dlg'[c].need = d.need
      /\ dlg'[c].raced = d.raced
  BY <1>1, SentFields
<1>3. QueueInv(c)'
  BY <1>2 DEF QueueInv, Queues
<1>4. LastInv(c)'
  BY <1>2 DEF LastInv
<1>5. NotedInv(c)'
  BY <1>2 DEF NotedInv
<1> QED
  BY <1>2, <1>3, <1>4, <1>5 DEF DialogInv, ExtensionInv

LEMMA MailboxKeeps ==
  ASSUME NEW c, NEW d, Becomes(c, d), bound.what = "mailbox", bound' = bound, d.tag <= tags',
         Numbered(c)', Delivered(c)', ~d.queued, Works(c)' => d.seq > 0,
         Works(c)' /\ ~d.raced /\ call' = None /\ told' = now' => Shows(c, now)'
  PROVE  DialogInv(c)'
<1>1. d \in DialogRecord /\ dlg'[c] = Sent(d)
  BY DEF Becomes
<1>2. /\ dlg'[c] \in DialogRecord /\ dlg'[c].out = {} /\ dlg'[c].tag = d.tag /\ dlg'[c].queued = d.queued
      /\ dlg'[c].seq = d.seq /\ dlg'[c].raced = d.raced
  BY <1>1, SentFields
<1> QED
  BY <1>2 DEF DialogInv, MailboxInv

LEMMA PutFacts ==
  ASSUME SubscriptionInv, NEW c \in DOMAIN dlg, NEW d \in DialogRecord, Put(c, d),
         UNCHANGED <<bound, now, changes, told, call, ua, tags>>, toUs' \subseteq toUs,
         \A m \in d.out : m.call = c /\ m.tag <= tags
  PROVE  OnlyThis(c, d) /\ Becomes(c, d)
<1>1. dlg' = Entered(dlg, c, Sent(d)) /\ toUa' = toUa \cup d.out
  BY DEF Put
<1>2. /\ DOMAIN dlg' = DOMAIN dlg /\ dlg'[c] = Sent(d)
      /\ \A i \in DOMAIN dlg' \ {c} : dlg'[i] = dlg[i]
      /\ dlg' = [i \in DOMAIN dlg' |-> dlg'[i]]
  BY <1>1 DEF Entered
<1>3. tags \in Nat /\ c \in 1 .. ua.call
  BY DEF SubscriptionInv, CoreInv, DialogsInv
<1> QED
  BY <1>1, <1>2, <1>3 DEF OnlyThis, Becomes
-----------------------------------------------------------------------------
(* The rest of a SUBSCRIBE, and the announcements of the core.             *)

\* e is d, but for what is sent.
Like(d, e) ==
  /\ Stays(d, e) /\ e.on = d.on /\ e.last = d.last /\ e.ring = d.ring /\ e.queued = d.queued /\ e.pend = d.pend
  /\ e.seq = d.seq /\ e.packets = d.packets

\* What d sends is of the dialog c.
SpeaksFor(d, c) == \A m \in d.out : m.call = c /\ m.tag = d.tag

LEMMA Replying ==
  ASSUME NEW d \in DialogRecord, d.out = {}, NEW m, m.call \in Positive, m.seq \in Nat, NEW code \in Codes,
         NEW e, e = Reply(d, m, code)
  PROVE  e \in DialogRecord /\ Like(d, e) /\ e.out \subseteq AnswerRecord /\ SpeaksFor(e, m.call)
<1>1. PICK a : a = AnswerTo(m, d.tag, code)
  OBVIOUS
<1>2. a \in AnswerRecord /\ a.call = m.call /\ a.tag = d.tag
  <2>1. d.tag \in Nat
    BY DEF DialogRecord, Positive
  <2> QED
    BY <1>1, <2>1 DEF AnswerTo, AnswerRecord
<1>3. e = [d EXCEPT !.out = @ \cup {a}]
  BY <1>1 DEF Reply, Send
<1>4. d.out \cup {a} \in SUBSET (NotifyRecord \cup AnswerRecord)
  BY <1>2
<1>5. e \in DialogRecord
  BY <1>3, <1>4 DEF DialogRecord
<1>6. Like(d, e) /\ e.out = {a}
  BY <1>3 DEF DialogRecord, Like, Stays
<1> QED
  BY <1>2, <1>5, <1>6 DEF SpeaksFor, Like, Stays

LEMMA NotedSpeaks ==
  ASSUME NEW d, NEW e, NEW c, NEW v, Stays(d, e), SpeaksFor(d, c), TakesIn(d, e, c, v) \/ Utters(d, e, c, v)
  PROVE  SpeaksFor(e, c)
BY DEF TakesIn, Utters, Mute, SpeaksFor, Stays

LEMMA LikeBase ==
  ASSUME SubscriptionInv, NEW c \in DOMAIN dlg, NEW b \in DialogRecord, b.out \subseteq AnswerRecord,
         b.tag = dlg[c].tag, b.seq = dlg[c].seq, b.packets = dlg[c].packets, b.pend = dlg[c].pend,
         b.queued = dlg[c].queued, b.missed = dlg[c].missed, dlg[c].need => b.need
  PROVE  /\ Base(b, c) /\ Reaches(b, c)
         /\ bound.what = "extension" => Queues(b)
<1>1. Delivered(c) /\ (bound.what = "extension" => QueueInv(c))
  BY DEF SubscriptionInv, DialogInv, ExtensionInv
<1> QED
  BY <1>1 DEF Base, Reaches, Delivered, Queues, QueueInv

LEMMA FinishExtension ==
  ASSUME SubscriptionInv, FinishSubscribe, bound.what = "extension"
  PROVE  SubscriptionInv'
<1>1. /\ UNCHANGED <<bound, tags, now, changes, told, call, ua, toUs>>
      /\ mon # Free /\ mon.read # None /\ mon' = Free /\ Put(mon.call, Finished(dlg[mon.call], mon))
  BY DEF FinishSubscribe
<1>2. PICK c, d, D : c = mon.call /\ D = dlg[c] /\ d = Finished(D, mon)
  OBVIOUS
<1>3. /\ c \in DOMAIN dlg /\ mon \in MonitorRecord /\ D \in DialogRecord /\ D.out = {} /\ D.tag <= tags
      /\ DialogInv(c) /\ ExtensionInv(c) /\ tags \in Nat /\ changes \in Nat /\ told \in Int /\ now \in Int
      /\ mon.read <= changes /\ MonitorInv /\ HandInv
  BY <1>1, <1>2 DEF SubscriptionInv, DialogsInv, DialogInv, CoreInv
<1>4. c \in Positive /\ mon.seq \in Nat /\ mon.read \in Int /\ mon.late \in BOOLEAN /\ mon.again \in BOOLEAN
  BY <1>2, <1>3 DEF MonitorRecord, SubscriptionInv, DialogsInv, PhoneInv, PhoneShape, Positive
<1>5. HandInv' /\ MonitorInv' /\ mon' \in MonitorRecord /\ mon'.read <= changes /\ mon'.call = 0
  BY <1>1, <1>3 DEF HandInv, MonitorInv, MonitorRecord, Free, None
<1>6. ASSUME d \in DialogRecord, SpeaksFor(d, c), d.tag = D.tag
      PROVE  OnlyThis(c, d) /\ Becomes(c, d)
  BY <1>1, <1>2, <1>3, <1>6, PutFacts DEF SpeaksFor
<1>7. CASE mon.read = Gone
  <2>1. PICK n : n = [D EXCEPT !.need = TRUE]
    OBVIOUS
  <2>2. n \in DialogRecord /\ n.out = {} /\ n.need /\ n.tag = D.tag /\ n.seq = D.seq
        /\ n.packets = D.packets /\ n.pend = D.pend /\ n.queued = D.queued /\ n.missed = D.missed /\ n.ring = D.ring
    BY <1>3, <2>1 DEF DialogRecord, Like, Stays
  <2>3. PICK b : b = Reply(n, mon, 404)
    OBVIOUS
  <2>4. b \in DialogRecord /\ Like(n, b) /\ b.out \subseteq AnswerRecord /\ SpeaksFor(b, c)
    BY <1>2, <1>4, <2>2, <2>3, Replying DEF Codes
  <2>5. d = [b EXCEPT !.need = @ \/ ~mon.again, !.raced = mon.late]
    BY <1>2, <1>7, <2>1, <2>3 DEF Finished, Refuse
  <2>6. d \in DialogRecord /\ d.need /\ Mute(b, d) /\ d.tag = b.tag /\ d.queued = b.queued /\ d.pend = b.pend /\ d.ring = b.ring
    <3>1. b.need
      BY <2>2, <2>4 DEF Like, Stays
    <3>2. PICK w : w = [b EXCEPT !.raced = mon.late]
      OBVIOUS
    <3>3. w \in DialogRecord
      BY ONLY <1>4, <2>4, <3>2 DEF DialogRecord
    <3>4. w.need /\ Mute(b, w) /\ w.tag = b.tag /\ w.queued = b.queued /\ w.pend = b.pend /\ w.ring = b.ring
      BY ONLY <2>4, <3>1, <3>2 DEF DialogRecord, Mute
    <3>5. d = w
      <4>1. d = [b EXCEPT !.need = b.need, !.raced = mon.late]
        BY ONLY <2>4, <2>5, <3>1 DEF DialogRecord
      <4> QED
        BY ONLY <2>4, <3>2, <4>1 DEF DialogRecord
    <3> QED
      BY <3>3, <3>4, <3>5
  <2>7. SpeaksFor(d, c) /\ d.tag = D.tag
    BY <2>2, <2>4, <2>6 DEF SpeaksFor, Mute, Like, Stays
  <2>8. Base(b, c)
    BY <1>2, <2>2, <2>4 DEF Base, Like, Stays
  <2>9. OnlyThis(c, d) /\ Becomes(c, d)
    BY <1>6, <2>6, <2>7
  <2>10. Reaches(d, c) /\ Queues(d)
    BY <2>6 DEF Reaches, Queues
  <2>11. Numbered(c)' /\ Delivered(c)'
    BY <1>3, <2>6, <2>8, <2>9, <2>10, BecomesMute
  <2>12. d.ring <= changes' /\ d.tag <= tags' /\ ~Works(c)'
    <3>1. dlg'[c].need
      BY <2>6, <2>9, SentFields DEF Becomes
    <3>2. d.ring = dlg[c].ring
      BY <1>2, <2>2, <2>4, <2>6 DEF Like
    <3> QED
      BY <1>1, <1>3, <2>7, <3>1, <3>2 DEF Works, ExtensionInv
  <2>13. PICK v : v = d.last
    OBVIOUS
  <2>14. DialogInv(c)'
    BY <1>1, <2>9, <2>10, <2>11, <2>12, <2>13, ExtensionKeeps
  <2> QED
    BY <1>1, <1>2, <1>5, <2>9, <2>14, DialogStep
<1>8. CASE mon.read # Gone
  <2>1. PICK r \in Int : r = IF mon.read > 0 THEN mon.read ELSE D.ring
    BY <1>3, <1>4 DEF DialogRecord
  <2>2. PICK n : n = [D EXCEPT !.est = TRUE, !.ring = r]
    OBVIOUS
  <2>3. n \in DialogRecord
    BY <1>3, <2>2 DEF DialogRecord
  <2>4. /\ n.out = {} /\ n.est /\ n.ring = r /\ n.tag = D.tag /\ n.seq = D.seq /\ n.need = D.need /\ n.reg = D.reg
        /\ n.packets = D.packets /\ n.pend = D.pend /\ n.queued = D.queued /\ n.missed = D.missed /\ n.on = D.on
    BY <1>3, <2>2 DEF DialogRecord
  <2>5. PICK b : b = Reply(n, mon, 200)
    OBVIOUS
  <2>6. b \in DialogRecord /\ Like(n, b) /\ b.out \subseteq AnswerRecord /\ SpeaksFor(b, c)
    BY <1>2, <1>4, <2>3, <2>4, <2>5, Replying DEF Codes
  <2>7. PICK e : e = Update(b, c, mon.read, TRUE)
    OBVIOUS
  <2>8. e \in DialogRecord /\ Stays(b, e) /\ TakesIn(b, e, c, mon.read) /\ e.ring = b.ring
    BY <1>4, <1>8, <2>6, <2>7, Forced
  <2>9. d = [e EXCEPT !.need = @ \/ ~mon.again, !.raced = mon.late]
    <3>1. n = [D EXCEPT !.est = TRUE, !.ring = IF mon.read > 0 THEN mon.read ELSE @]
      BY <2>1, <2>2
    <3> QED
      BY <1>2, <1>8, <2>5, <2>7, <3>1 DEF Finished
  <2>10. /\ d \in DialogRecord /\ Alike(e, d) /\ d.reg = e.reg /\ d.raced = mon.late /\ d.ring = e.ring
         /\ (~d.need => ~e.need /\ mon.again)
    BY <1>4, <2>8, <2>9 DEF DialogRecord, Alike
  <2>11. /\ b.tag = D.tag /\ b.seq = D.seq /\ b.packets = D.packets /\ b.pend = D.pend /\ b.queued = D.queued
         /\ b.missed = D.missed /\ b.need = D.need /\ b.est /\ b.reg = D.reg /\ b.ring = r
    BY <2>4, <2>6 DEF Like, Stays
  <2>12. Base(b, c) /\ Reaches(b, c) /\ Queues(b)
    BY <1>2, <1>3, <2>6, <2>11, LikeBase
  <2>13. SpeaksFor(e, c)
    BY <2>6, <2>8, NotedSpeaks
  <2>14. SpeaksFor(d, c) /\ d.tag = D.tag
    BY <2>8, <2>10, <2>11, <2>13 DEF SpeaksFor, Alike, Stays
  <2>15. OnlyThis(c, d) /\ Becomes(c, d)
    BY <1>6, <2>10, <2>14
  <2>16. PICK v : v = mon.read
    OBVIOUS
  <2>17. /\ Numbered(c)' /\ Delivered(c)' /\ Queues(d)
         /\ d.on /\ d.est /\ ~d.need => d.seq > 0 /\ (~d.queued => Shows(c, v)')
    BY <1>3, <2>8, <2>10, <2>12, <2>15, <2>16, BecomesNoted
  <2>18. /\ dlg'[c].on = d.on /\ dlg'[c].need = d.need /\ d.est /\ d.last = v /\ d.ring = r /\ d.reg = D.reg
         /\ d.need = dlg'[c].need
    BY <2>8, <2>10, <2>11, <2>15, <2>16, SentFields DEF Becomes, TakesIn, Stays, Alike
  <2>19. Works(c)' => d.on /\ ~d.need /\ ~D.need /\ mon.again
    BY <2>8, <2>10, <2>11, <2>18 DEF Works, Stays
  <2>20. Works(c)' => d.est /\ d.reg /\ d.seq > 0 /\ (~d.queued => Shows(c, v)')
    BY <1>1, <1>2, <1>3, <2>17, <2>18, <2>19 DEF HandInv
  <2>21. D.ring \in Int /\ D.ring <= changes
    BY <1>2, <1>3 DEF ExtensionInv, DialogRecord
  <2>22. Works(c)' /\ ~d.raced =>
           /\ call' = None => v = told'
           /\ d.ring = now' /\ now' > 0 => told' = now' /\ v = now'
           /\ d.ring = told' /\ told' > 0 => v = told'
    <3>1. ~d.raced =>
            /\ call = None => mon.read = told
            /\ mon.read = now /\ now > 0 => told = now
            /\ now > 0 /\ now # mon.read => D.ring # now
            /\ told > 0 /\ told # mon.read => D.ring # told
      BY <1>1, <1>2, <1>3, <2>10 DEF MonitorInv
    <3>2. d.ring = IF mon.read > 0 THEN mon.read ELSE D.ring
      BY <2>1, <2>18
    <3> QED
      BY <1>1, <1>3, <1>4, <2>16, <3>1, <3>2
  <2>23. d.ring <= changes' /\ d.tag <= tags'
    BY <1>1, <1>3, <1>4, <2>1, <2>14, <2>18, <2>21
  <2>24. v = d.last /\ bound' = bound
    BY <1>1, <2>18
  <2>25. DialogInv(c)'
    BY <2>15, <2>17, <2>20, <2>22, <2>23, <2>24, ExtensionKeeps
  <2> QED
    BY <1>1, <1>2, <1>5, <2>15, <2>25, DialogStep
<1> QED
  BY <1>7, <1>8

LEMMA FinishMailbox ==
  ASSUME SubscriptionInv, FinishSubscribe, bound.what = "mailbox"
  PROVE  SubscriptionInv'
<1>1. /\ UNCHANGED <<bound, tags, now, changes, told, call, ua, toUs>>
      /\ mon # Free /\ mon.read # None /\ mon' = Free /\ Put(mon.call, Finished(dlg[mon.call], mon))
  BY DEF FinishSubscribe
<1>2. PICK c, d, D : c = mon.call /\ D = dlg[c] /\ d = Finished(D, mon)
  OBVIOUS
<1>3. /\ c \in DOMAIN dlg /\ mon \in MonitorRecord /\ D \in DialogRecord /\ D.out = {} /\ D.tag <= tags
      /\ MailboxInv(c) /\ tags \in Nat /\ mon.read <= changes /\ MonitorInv /\ changes \in Nat
  BY <1>1, <1>2 DEF SubscriptionInv, DialogsInv, DialogInv, CoreInv
<1>4. c \in Positive /\ mon.read \in Int /\ mon.late \in BOOLEAN /\ mon.again \in BOOLEAN
  BY <1>2, <1>3 DEF MonitorRecord, SubscriptionInv, DialogsInv, PhoneInv, PhoneShape, Positive
<1>5. HandInv' /\ MonitorInv' /\ mon' \in MonitorRecord /\ mon'.read <= changes
  BY <1>1, <1>3 DEF HandInv, MonitorInv, MonitorRecord, Free, None
<1>6. PICK e : e = MwiNotify(D, c, mon.read)
  OBVIOUS
<1>7. /\ e \in DialogRecord /\ Utters(D, e, c, mon.read) /\ Stays(D, e)
      /\ e.on = D.on /\ e.last = D.last /\ e.ring = D.ring /\ e.queued = D.queued /\ e.pend = D.pend
  BY <1>3, <1>4, <1>6, Counting
<1>8. d = [e EXCEPT !.need = @ \/ ~mon.again, !.raced = mon.late]
  BY <1>1, <1>2, <1>6 DEF Finished
<1>9. d \in DialogRecord /\ Alike(e, d) /\ d.raced = mon.late
  BY <1>4, <1>7, <1>8 DEF DialogRecord, Alike
<1>10. Utters(D, d, c, mon.read) /\ d.tag = D.tag /\ d.queued = D.queued
  BY <1>7, <1>9 DEF Utters, Alike, Stays
<1>11. SpeaksFor(d, c)
  BY <1>3, <1>10 DEF SpeaksFor, Utters
<1>12. OnlyThis(c, d) /\ Becomes(c, d)
  BY <1>1, <1>2, <1>3, <1>9, <1>10, <1>11, PutFacts DEF SpeaksFor
<1>13. Base(D, c)
  BY <1>2, <1>3 DEF Base
<1>14. PICK v : v = mon.read
  OBVIOUS
<1>15. Numbered(c)' /\ Delivered(c)' /\ Shows(c, v)'
  BY <1>3, <1>10, <1>12, <1>13, <1>14, BecomesTold
<1>16. ~d.queued /\ d.seq > 0 /\ d.tag <= tags'
  <2>1. D.seq \in Nat /\ d.seq = D.seq + 1
    BY <1>3, <1>10 DEF Utters, DialogRecord
  <2> QED
    BY <1>1, <1>2, <1>3, <1>10, <2>1 DEF MailboxInv
<1>17. ~d.raced /\ call' = None /\ told' = now' => v = now'
  BY <1>1, <1>3, <1>9, <1>14 DEF MonitorInv
<1>18. ~d.raced /\ call' = None /\ told' = now' => Shows(c, now)'
  BY <1>15, <1>17
<1>19. DialogInv(c)'
  BY <1>1, <1>12, <1>15, <1>16, <1>18, MailboxKeeps
<1> QED
  BY <1>1, <1>2, <1>5, <1>12, <1>19, DialogStep

LEMMA AnnounceExtension ==
  ASSUME SubscriptionInv, Announce, bound.what = "extension", NEW c \in DOMAIN dlg, NEW d, d = Announced(c)
  PROVE  /\ d \in DialogRecord /\ SpeaksFor(d, c) /\ d.tag = dlg[c].tag
         /\ d.need = dlg[c].need /\ d.reg = dlg[c].reg
         /\ Becomes(c, d) => DialogInv(c)'
<1>1. /\ UNCHANGED <<bound, tags, now, changes, told, ua>> /\ call # None /\ call' = None
      /\ mon' = [mon EXCEPT !.late = @ \/ mon.read # None]
  BY DEF Announce
<1>2. PICK D, v : D = dlg[c] /\ v = told
  OBVIOUS
<1>3. /\ D \in DialogRecord /\ D.out = {} /\ D.tag <= tags /\ ExtensionInv(c) /\ tags \in Nat /\ changes \in Nat
      /\ told \in Int /\ now \in Int /\ call = told /\ Gone <= told /\ told <= changes /\ c \in Positive
      /\ mon \in MonitorRecord
  BY <1>1, <1>2 DEF SubscriptionInv, DialogInv, CoreInv, DialogsInv, PhoneInv, PhoneShape, Positive
<1>4. D.ring \in Int /\ D.ring <= changes /\ NotedInv(c) /\ LastInv(c) /\ QueueInv(c) /\ SpeaksFor(D, c)
  BY <1>2, <1>3 DEF ExtensionInv, DialogRecord, SpeaksFor
<1>5. mon'.call = mon.call
  BY <1>1, <1>3 DEF MonitorRecord
<1>6. Base(D, c) /\ Reaches(D, c) /\ Queues(D)
  <2>1. D.out \subseteq AnswerRecord
    BY <1>3
  <2> QED
    BY <1>2, <1>3, <2>1, LikeBase
<1>7. d = IF D.reg THEN Update(D, c, v, FALSE) ELSE D
  BY <1>2, <1>3 DEF Announced
<1>8. bound' = bound /\ D.tag <= tags'
  BY <1>1, <1>3
<1>9. CASE d = D /\ (Unchanged(D, v) \/ ~D.reg)
  <2> SUFFICES ASSUME Becomes(c, d)
               PROVE  DialogInv(c)'
    BY <1>2, <1>3, <1>4, <1>9
  <2>1. Mute(D, d)
    BY <1>9 DEF Mute
  <2>2. Numbered(c)' /\ Delivered(c)' /\ \A w : Shows(c, w) => Shows(c, w)'
    BY <1>6, <1>9, <2>1, BecomesMute
  <2>3. Works(c)' => Works(c)
    BY <1>2, <1>5, <1>9, SentFields DEF Works, Becomes
  <2>4. PICK w : w = d.last
    OBVIOUS
  <2>5. Works(c)' => d.est /\ d.reg /\ d.seq > 0 /\ (~d.queued => Shows(c, w)')
    BY <1>2, <1>4, <1>9, <2>2, <2>3, <2>4 DEF LastInv
  <2>6. Works(c)' /\ ~d.raced =>
           /\ call' = None => w = told'
           /\ d.ring = now' /\ now' > 0 => told' = now' /\ w = now'
           /\ d.ring = told' /\ told' > 0 => w = told'
    <3> SUFFICES ASSUME Works(c)', ~d.raced
                 PROVE  /\ w = told
                        /\ d.ring = now /\ now > 0 => told = now /\ w = now
      BY <1>1
    <3>1. Works(c) /\ Unchanged(D, v)
      BY <1>9, <2>3, <2>5
    <3>2. /\ D.ring = now /\ now > 0 => told = now /\ D.last = now
          /\ D.ring = told /\ told > 0 => D.last = told
      BY <1>2, <1>4, <1>9, <3>1 DEF NotedInv
    <3>3. D.last = told
      BY <1>2, <3>1, <3>2 DEF Unchanged
    <3> QED
      BY <1>2, <1>9, <2>4, <3>2, <3>3
  <2>7. Queues(d) /\ d.ring <= changes'
    BY <1>1, <1>4, <1>6, <1>9
  <2> QED
    BY <1>8, <1>9, <2>2, <2>4, <2>5, <2>6, <2>7, ExtensionKeeps
<1>10. CASE D.reg /\ v = Gone
  <2>1. d = [D EXCEPT !.timer = TRUE, !.on = FALSE]
    BY <1>7, <1>10 DEF Update
  <2>2. d \in DialogRecord
    BY <1>3, <2>1 DEF DialogRecord
  <2>3. /\ Mute(D, d) /\ d.tag = D.tag /\ ~d.on /\ d.ring = D.ring /\ d.queued = D.queued /\ d.pend = D.pend
        /\ d.need = D.need /\ d.missed = D.missed /\ d.reg = D.reg
    BY <1>3, <2>1 DEF DialogRecord, Mute
  <2>4. SpeaksFor(d, c)
    BY <1>4, <2>3 DEF SpeaksFor, Mute
  <2>5. ASSUME Becomes(c, d)
        PROVE  DialogInv(c)'
    <3>1. Reaches(d, c) /\ Queues(d)
      BY <1>6, <2>3 DEF Reaches, Queues, Mute
    <3>2. Numbered(c)' /\ Delivered(c)'
      BY <1>6, <2>3, <2>5, <3>1, BecomesMute
    <3>3. ~Works(c)'
      BY <2>2, <2>3, <2>5, SentFields DEF Works, Becomes
    <3>4. PICK w : w = d.last
      OBVIOUS
    <3>5. d.ring <= changes' /\ d.tag <= tags'
      BY <1>1, <1>4, <1>8, <2>3
    <3> QED
      BY <1>8, <2>5, <3>1, <3>2, <3>3, <3>4, <3>5, ExtensionKeeps
  <2> QED
    BY <1>2, <2>2, <2>3, <2>4, <2>5
<1>11. CASE /\ d \in DialogRecord /\ Stays(D, d) /\ TakesIn(D, d, c, v) /\ d.ring = IF v > 0 THEN v ELSE D.ring
            /\ v # Gone
  <2>1. SpeaksFor(d, c) /\ d.tag = D.tag
    BY <1>4, <1>11, NotedSpeaks DEF Stays
  <2>2. ASSUME Becomes(c, d)
        PROVE  DialogInv(c)'
    <3>1. Alike(d, d)
      BY DEF Alike
    <3>2. /\ Numbered(c)' /\ Delivered(c)' /\ Queues(d)
          /\ d.on /\ d.est /\ ~d.need => d.seq > 0 /\ (~d.queued => Shows(c, v)')
      BY <1>6, <1>11, <2>2, <3>1, BecomesNoted
    <3>3. Works(c)' => Works(c) /\ d.on /\ ~d.need
      BY <1>2, <1>5, <1>11, <2>2, SentFields DEF Works, Becomes, TakesIn, Stays
    <3>4. Works(c)' => d.est /\ d.reg /\ d.seq > 0 /\ (~d.queued => Shows(c, v)')
      BY <1>2, <1>4, <1>11, <3>2, <3>3 DEF LastInv, Stays
    <3>5. Works(c)' /\ ~d.raced =>
           /\ call' = None => v = told'
           /\ d.ring = now' /\ now' > 0 => told' = now' /\ v = now'
           /\ d.ring = told' /\ told' > 0 => v = told'
      <4> SUFFICES ASSUME Works(c)', ~d.raced
                   PROVE  d.ring = now /\ now > 0 => told = now
        BY <1>1, <1>2
      <4>1. D.ring = now /\ now > 0 => told = now
        BY <1>2, <1>4, <1>11, <3>3 DEF NotedInv, Stays
      <4> QED
        BY <1>2, <1>11, <4>1
    <3>6. d.ring <= changes' /\ d.tag <= tags' /\ v = d.last
      BY <1>1, <1>2, <1>3, <1>4, <1>8, <1>11, <2>1 DEF TakesIn
    <3> QED
      BY <1>8, <2>2, <3>2, <3>4, <3>5, <3>6, ExtensionKeeps
  <2> QED
    BY <1>2, <1>11, <2>1, <2>2 DEF Stays
<1>12. CASE D.reg /\ v # Gone
  <2>1. \/ Unchanged(D, v) /\ d = D
        \/ d \in DialogRecord /\ Stays(D, d) /\ TakesIn(D, d, c, v) /\ d.ring = IF v > 0 THEN v ELSE D.ring
    <3>1. d = Update(D, c, v, FALSE) /\ v \in Int
      BY <1>2, <1>3, <1>7, <1>12
    <3> QED
      BY ONLY <1>3, <1>12, <3>1, OfferedState
  <2> QED
    BY <1>9, <1>11, <1>12, <2>1
<1> QED
  BY <1>7, <1>9, <1>10, <1>12

LEMMA AnnounceMailbox ==
  ASSUME SubscriptionInv, Announce, bound.what = "mailbox", NEW c \in DOMAIN dlg, NEW d, d = Announced(c)
  PROVE  /\ d \in DialogRecord /\ SpeaksFor(d, c) /\ d.tag = dlg[c].tag
         /\ Becomes(c, d) => DialogInv(c)'
<1>1. /\ UNCHANGED <<bound, tags, now, changes, told, ua>> /\ call # None /\ call' = None
      /\ mon' = [mon EXCEPT !.late = @ \/ mon.read # None]
  BY DEF Announce
<1>2. PICK D, v : D = dlg[c] /\ v = told
  OBVIOUS
<1>3. /\ D \in DialogRecord /\ D.out = {} /\ D.tag <= tags /\ MailboxInv(c) /\ tags \in Nat /\ v \in Int
      /\ call = told /\ c \in Positive /\ mon \in MonitorRecord
  BY <1>1, <1>2 DEF SubscriptionInv, DialogInv, CoreInv, DialogsInv, PhoneInv, PhoneShape, Positive
<1>4. Base(D, c) /\ Reaches(D, c) /\ SpeaksFor(D, c)
  <2>1. D.out \subseteq AnswerRecord
    BY <1>3
  <2> QED
    BY <1>2, <1>3, <2>1, LikeBase DEF SpeaksFor
<1>5. CASE D.on
  <2>1. d = MwiNotify(D, c, v)
    BY <1>2, <1>3, <1>5 DEF Announced
  <2>2. d \in DialogRecord /\ Utters(D, d, c, v) /\ Stays(D, d) /\ d.queued = D.queued
    BY <1>3, <2>1, Counting
  <2>3. SpeaksFor(d, c)
    BY <1>4, <2>2, NotedSpeaks
  <2>4. ASSUME Becomes(c, d)
        PROVE  DialogInv(c)'
    <3>1. Numbered(c)' /\ Delivered(c)' /\ Shows(c, v)'
      BY <1>4, <2>2, <2>4, BecomesTold DEF Stays
    <3>2. ~d.queued /\ d.seq > 0 /\ d.tag <= tags'
      <4>1. D.seq \in Nat /\ d.seq = D.seq + 1
        BY <1>3, <2>2 DEF Utters, DialogRecord
      <4> QED
        BY <1>1, <1>2, <1>3, <2>2, <4>1 DEF MailboxInv, Stays
    <3>3. told' = now' => Shows(c, now)'
      BY <1>1, <1>2, <3>1
    <3>4. bound' = bound
      BY <1>1
    <3> QED
      BY <2>4, <3>1, <3>2, <3>3, <3>4, MailboxKeeps
  <2> QED
    BY <1>2, <2>2, <2>3, <2>4 DEF Stays
<1>6. CASE ~D.on
  <2>1. d = D /\ Mute(D, d)
    BY <1>2, <1>3, <1>6 DEF Announced, Mute
  <2>2. ASSUME Becomes(c, d)
        PROVE  DialogInv(c)'
    <3>1. Numbered(c)' /\ Delivered(c)'
      BY <1>4, <2>1, <2>2, BecomesMute
    <3>2. ~Works(c)'
      BY <1>6, <2>1, <2>2, SentFields DEF Works, Becomes
    <3>3. ~d.queued /\ d.tag <= tags' /\ bound' = bound
      BY <1>1, <1>2, <1>3, <2>1 DEF MailboxInv
    <3> QED
      BY <2>2, <3>1, <3>2, <3>3, MailboxKeeps
  <2> QED
    BY <1>2, <1>3, <1>4, <2>1, <2>2
<1> QED
  BY <1>5, <1>6

LEMMA AnnounceKeeps ==
  ASSUME SubscriptionInv, Announce
  PROVE  SubscriptionInv'
<1>1. /\ UNCHANGED <<bound, tags, now, changes, told, ua, toUs>> /\ call # None /\ call' = None
      /\ mon' = [mon EXCEPT !.late = @ \/ mon.read # None]
      /\ dlg' = [c \in DOMAIN dlg |-> Sent(Announced(c))]
      /\ toUa' = toUa \cup UNION {Announced(c).out : c \in DOMAIN dlg}
  BY DEF Announce
<1>2. /\ CoreInv /\ PhoneInv /\ DialogsInv /\ HandInv /\ mon \in MonitorRecord /\ tags \in Nat
      /\ bound.what \in {"extension", "mailbox"}
  BY DEF SubscriptionInv, DialogsInv, CoreInv
<1>3. ASSUME NEW c \in DOMAIN dlg
      PROVE  /\ Announced(c) \in DialogRecord /\ SpeaksFor(Announced(c), c) /\ Announced(c).tag = dlg[c].tag
             /\ Becomes(c, Announced(c)) => DialogInv(c)'
  BY <1>2, AnnounceExtension, AnnounceMailbox
<1>4. \A c \in DOMAIN dlg : Becomes(c, Announced(c))
  <2>1. \A c \in DOMAIN dlg : dlg'[c] = Sent(Announced(c))
    BY <1>1
  <2>2. ASSUME NEW c \in DOMAIN dlg, NEW m \in toUa', m.call = c
        PROVE  m \in toUa \cup Announced(c).out
    <3>1. m \in toUa \/ \E i \in DOMAIN dlg : m \in Announced(i).out
      BY <1>1
    <3> QED
      BY <1>3, <2>2, <3>1 DEF SpeaksFor
  <2> QED
    BY <1>1, <1>3, <2>1, <2>2 DEF Becomes
<1>5. \A c \in DOMAIN dlg' : DialogInv(c)'
  BY <1>1, <1>3, <1>4
<1>6. PhoneInv'
  <2>1. PICK Ms : Ms = UNION {Announced(c).out : c \in DOMAIN dlg}
    OBVIOUS
  <2>2. ASSUME NEW m \in Ms
        PROVE  m \in NotifyRecord \cup AnswerRecord /\ m.call <= ua.call /\ m.tag <= tags'
    <3>1. PICK c \in DOMAIN dlg : m \in Announced(c).out
      BY <2>1, <2>2
    <3>2. m \in NotifyRecord \cup AnswerRecord
      BY <1>3, <3>1 DEF DialogRecord
    <3>3. m.call = c /\ m.tag = dlg[c].tag
      BY <1>3, <3>1 DEF SpeaksFor
    <3>4. c <= ua.call /\ dlg[c].tag <= tags
      BY <1>2 DEF DialogsInv, SubscriptionInv, DialogInv
    <3> QED
      BY <1>1, <3>2, <3>3, <3>4
  <2>3. PICK S : S = {}
    OBVIOUS
  <2>4. /\ S \subseteq SubscribeRecord /\ Ms \subseteq NotifyRecord \cup AnswerRecord
        /\ toUs' \subseteq toUs \cup S /\ toUa' \subseteq toUa \cup Ms
        /\ \A m \in S \cup Ms : m.call <= ua.call /\ m.tag <= tags'
    BY <1>1, <2>1, <2>2, <2>3
  <2>5. ua' = ua /\ bound' = bound /\ tags' \in Nat /\ tags <= tags'
    BY <1>1, <1>2
  <2> QED
    BY <1>2, <2>4, <2>5, PhoneKeeps
<1>7. /\ mon' \in MonitorRecord /\ mon'.call = mon.call /\ mon'.read = mon.read /\ mon'.again = mon.again
      /\ (mon = Free => mon' = Free) /\ (mon.read # None => mon'.late)
  <2>1. PICK l \in BOOLEAN : l = (mon.late \/ mon.read # None)
    BY <1>2 DEF MonitorRecord
  <2>2. mon' = [mon EXCEPT !.late = l]
    BY <1>1, <2>1
  <2>3. mon' \in MonitorRecord /\ mon'.call = mon.call /\ mon'.read = mon.read /\ mon'.again = mon.again /\ mon'.late = l
    BY <1>2, <2>2 DEF MonitorRecord
  <2>4. mon = Free => mon' = Free
    <3> HAVE mon = Free
    <3>1. mon.late = FALSE /\ mon.read = None
      BY DEF Free
    <3>2. l = mon.late
      BY <2>1, <3>1
    <3> QED
      BY <1>2, <2>2, <3>2 DEF MonitorRecord
  <2> QED
    BY <2>1, <2>3, <2>4
<1>8. DialogsInv' /\ CoreInv' /\ MonitorInv'
  <2>1. DialogsInv'
    BY <1>1, <1>2, <1>7 DEF DialogsInv
  <2>2. CoreInv'
    BY <1>1, <1>2 DEF CoreInv
  <2>3. MonitorInv'
    BY <1>7 DEF MonitorInv
  <2> QED
    BY <2>1, <2>2, <2>3
<1>9. HandInv'
  <2> SUFFICES ASSUME mon' # Free, mon.again, bound.what = "extension", ~(dlg[mon.call].need)'
               PROVE  (dlg[mon.call].reg)'
    BY <1>1, <1>7 DEF HandInv
  <2>1. mon # Free /\ mon.call \in DOMAIN dlg
    BY <1>2, <1>7 DEF DialogsInv
  <2>2. PICK c \in DOMAIN dlg : c = mon.call
    BY <2>1
  <2>3. dlg'[c] = Sent(Announced(c)) /\ Announced(c) \in DialogRecord
    BY <1>1, <1>3
  <2>4. Announced(c).need = dlg[c].need /\ Announced(c).reg = dlg[c].reg
    BY <1>1, AnnounceExtension
  <2>5. dlg'[c].need = dlg[c].need /\ dlg'[c].reg = dlg[c].reg
    BY <2>3, <2>4, SentFields
  <2> QED
    BY <1>2, <1>7, <2>1, <2>2, <2>5 DEF HandInv
<1> QED
  BY <1>5, <1>6, <1>8, <1>9 DEF SubscriptionInv
-----------------------------------------------------------------------------
(* Answers and timers.                                                     *)

\* Nobody relies on what a dialog shows that is over, or in the monitor's hands.
LEMMA IdleKeeps ==
  ASSUME NEW c, NEW d, Becomes(c, d), bound' = bound, bound.what \in {"extension", "mailbox"}, d.tag <= tags',
         Numbered(c)', Delivered(c)', ~d.on \/ d.need \/ mon'.call = c,
         bound.what = "extension" => Queues(d) /\ d.ring <= changes', bound.what = "mailbox" => ~d.queued
  PROVE  DialogInv(c)'
<1>1. ~Works(c)'
  BY SentFields DEF Works, Becomes
<1>2. CASE bound.what = "extension"
  <2>1. PICK v : v = d.last
    OBVIOUS
  <2> QED
    BY <1>1, <1>2, <2>1, ExtensionKeeps
<1>3. CASE bound.what = "mailbox"
  BY <1>1, <1>3, MailboxKeeps
<1> QED
  BY <1>2, <1>3

LEMMA FreeMonitor ==
  ASSUME SubscriptionInv, mon' = Free, changes' = changes
  PROVE  HandInv' /\ MonitorInv' /\ mon' \in MonitorRecord /\ mon'.read <= changes
<1>1. changes \in Nat
  BY DEF SubscriptionInv, CoreInv
<1> QED
  BY <1>1 DEF HandInv, MonitorInv, MonitorRecord, Free, None

\* The monitor, its hands free, changes a dialog.
LEMMA PutStep ==
  ASSUME SubscriptionInv, mon = Free, mon' = Free, UNCHANGED <<bound, now, changes, told, call, ua, tags>>,
         toUs' \subseteq toUs, NEW c \in DOMAIN dlg, NEW d \in DialogRecord, Put(c, d), SpeaksFor(d, c),
         d.tag = dlg[c].tag, Becomes(c, d) => DialogInv(c)'
  PROVE  SubscriptionInv'
<1>1. dlg[c].tag <= tags
  BY DEF SubscriptionInv, DialogInv
<1>2. OnlyThis(c, d) /\ Becomes(c, d)
  BY <1>1, PutFacts DEF SpeaksFor
<1>3. mon.call \in {0, c}
  BY DEF Free
<1> QED
  BY <1>2, <1>3, FreeMonitor, DialogStep

LEMMA DialogFacts ==
  ASSUME SubscriptionInv, NEW c \in DOMAIN dlg
  PROVE  /\ dlg[c] \in DialogRecord /\ dlg[c].out = {} /\ dlg[c].tag <= tags /\ dlg[c].tag \in Positive
         /\ tags \in Nat /\ changes \in Nat /\ c \in Positive /\ c <= ua.call /\ bound.what \in {"extension", "mailbox"}
         /\ SpeaksFor(dlg[c], c) /\ Base(dlg[c], c)
         /\ bound.what = "extension" => Queues(dlg[c]) /\ dlg[c].ring <= changes /\ LastInv(c) /\ NotedInv(c)
         /\ bound.what = "mailbox" => MailboxInv(c)
         /\ Numbered(c) /\ Delivered(c) /\ Reaches(dlg[c], c)
<1>1. /\ dlg[c] \in DialogRecord /\ dlg[c].out = {} /\ dlg[c].tag <= tags
      /\ tags \in Nat /\ changes \in Nat /\ bound.what \in {"extension", "mailbox"} /\ Numbered(c) /\ Delivered(c)
      /\ bound.what = "extension" => QueueInv(c) /\ dlg[c].ring <= changes /\ LastInv(c) /\ NotedInv(c)
      /\ bound.what = "mailbox" => MailboxInv(c)
  BY DEF SubscriptionInv, DialogInv, CoreInv, ExtensionInv
<1>2. c \in Positive /\ c <= ua.call
  BY DEF SubscriptionInv, DialogsInv, PhoneInv, PhoneShape, Positive
<1>3. dlg[c].tag \in Positive
  BY <1>1 DEF DialogRecord
<1>4. SpeaksFor(dlg[c], c) /\ Base(dlg[c], c) /\ Reaches(dlg[c], c) /\ (bound.what = "extension" => Queues(dlg[c]))
  BY <1>1 DEF SpeaksFor, Base, Reaches, Delivered, Queues, QueueInv
<1> QED
  BY <1>1, <1>2, <1>3, <1>4

\* What is left of a dialog when a NOTIFY is answered.
LEMMA AnswerReaches ==
  ASSUME SubscriptionInv, NEW m \in toUs, m.type = "answer", m.code # 481, NEW c \in DOMAIN dlg, c = m.call,
         m.tag \in {0, dlg[c].tag}, NEW d, d.tag = dlg[c].tag, d.seq = dlg[c].seq, d.missed = dlg[c].missed,
         dlg[c].need => d.need, d.packets = {n \in dlg[c].packets : n.seq # m.seq}
  PROVE  Reaches(d, c)
<1> SUFFICES ASSUME d.seq > 0, ~d.need, ~d.missed, Alive(c), ~\E n \in d.packets : n.seq = d.seq
             PROVE  ua.tag = d.tag /\ ua.got = d.seq
  BY DEF Reaches
<1>1. Numbered(c) /\ Reaches(dlg[c], c) /\ dlg[c] \in DialogRecord
  BY DialogFacts
<1>2. CASE ua.tag = dlg[c].tag /\ ua.got = dlg[c].seq
  BY <1>2
<1>3. CASE \E n \in dlg[c].packets : n.seq = dlg[c].seq
  <2>1. m.seq = d.seq
    BY <1>3
  <2>2. ua.tag = m.tag /\ m.seq <= ua.got /\ (ua.tag = 0 => ua.got = 0) /\ ua.got \in Nat
    BY DEF SubscriptionInv, PhoneInv, PhoneShape
  <2>3. d.seq \in Nat
    BY <1>1 DEF DialogRecord
  <2>4. ua.tag # 0 /\ ua.got > 0
    BY <2>1, <2>2, <2>3
  <2>5. Seen(c)
    BY <2>2, <2>4 DEF Seen
  <2>6. ua.got <= dlg[c].seq
    BY <1>1, <2>5 DEF Numbered
  <2> QED
    BY <2>1, <2>2, <2>3, <2>4, <2>6
<1> QED
  BY <1>1, <1>2, <1>3 DEF Reaches

LEMMA AnsweredKeeps ==
  ASSUME SubscriptionInv, NEW m \in toUs, m.type = "answer", NEW c \in DOMAIN dlg, c = m.call,
         m.tag \in {0, dlg[c].tag}, mon = Free, mon' = Free, UNCHANGED <<bound, now, changes, told, call, ua, tags>>,
         toUs' \subseteq toUs, Put(c, Answered(dlg[c], m))
  PROVE  SubscriptionInv'
<1> PICK D, d : D = dlg[c] /\ d = Answered(D, m)
  OBVIOUS
<1>1. /\ D \in DialogRecord /\ D.out = {} /\ D.tag <= tags /\ tags \in Nat /\ changes \in Nat /\ c \in Positive
      /\ bound.what \in {"extension", "mailbox"} /\ SpeaksFor(D, c)
      /\ bound.what = "extension" => D.ring <= changes /\ LastInv(c) /\ NotedInv(c)
      /\ bound.what = "mailbox" => MailboxInv(c)
  BY DialogFacts
<1> PICK P : P = {n \in D.packets : n.seq # m.seq}
  OBVIOUS
<1>2. P \in SUBSET NotifyRecord /\ P \subseteq D.packets
  BY <1>1 DEF DialogRecord
<1> PICK n \in BOOLEAN : n = (m.code = 481 \/ D.need \/ ~D.on)
  OBVIOUS
<1>3. PICK x : x = [D EXCEPT !.packets = P, !.pend = 0, !.need = n]
  OBVIOUS
<1>4. x \in DialogRecord
  <2>1. PICK w : w = [D EXCEPT !.packets = P, !.pend = 0]
    OBVIOUS
  <2>2. w \in DialogRecord
    BY ONLY <1>1, <1>2, <2>1 DEF DialogRecord
  <2>3. x = [w EXCEPT !.need = n]
    BY ONLY <1>1, <1>3, <2>1 DEF DialogRecord
  <2> QED
    BY ONLY <2>2, <2>3, n \in BOOLEAN DEF DialogRecord
<1>5. /\ x.packets = P /\ x.pend = 0 /\ x.need = n /\ x.tag = D.tag /\ x.seq = D.seq /\ x.out = {} /\ x.on = D.on
      /\ x.est = D.est /\ x.reg = D.reg /\ x.last = D.last /\ x.ring = D.ring /\ x.queued = D.queued
      /\ x.raced = D.raced /\ x.missed = D.missed
  BY <1>1, <1>3 DEF DialogRecord
<1>6. d = IF m.code = 481 THEN x ELSE Flush(x, c)
  <2>1. CASE m.code = 481
    <3>1. x = [[D EXCEPT !.packets = P, !.pend = 0] EXCEPT !.need = TRUE]
      BY <1>1, <1>3, <2>1 DEF DialogRecord
    <3> QED
      BY <2>1, <3>1 DEF Answered
  <2>2. CASE m.code # 481
    <3>1. n = (D.need \/ ~D.on)
      BY <2>2
    <3>2. x = [[D EXCEPT !.packets = P, !.pend = 0] EXCEPT !.need = @ \/ ~D.on]
      BY <1>1, <1>3, <3>1 DEF DialogRecord
    <3> QED
      BY <2>2, <3>2 DEF Answered
  <2> QED
    BY <2>1, <2>2
<1>7. m.code # 481 => Reaches(x, c)
  <2> HAVE m.code # 481
  <2>1. /\ x.tag = dlg[c].tag /\ x.seq = dlg[c].seq /\ x.missed = dlg[c].missed
        /\ x.packets = {k \in dlg[c].packets : k.seq # m.seq}
    BY ONLY <1>5, D = dlg[c], P = {k \in D.packets : k.seq # m.seq}
  <2>2. D.need => n
    OBVIOUS
  <2>3. dlg[c].need => x.need
    BY <1>5, <2>2
  <2> QED
    BY <2>1, <2>3, AnswerReaches
<1>8. Base(x, c) /\ SpeaksFor(x, c)
  BY <1>2, <1>4, <1>5 DEF Base, SpeaksFor
<1>9. Reaches(x, c)
  BY <1>5, <1>7 DEF Reaches
<1>10. mon'.call # c /\ mon.call # c
  BY <1>1 DEF Free, Positive
<1>11. ASSUME NEW e, Becomes(c, e), e.on = D.on, (e.need <=> n)
       PROVE  Works(c)' => Works(c) /\ ~n /\ D.on
  <2>1. e \in DialogRecord /\ dlg'[c] = Sent(e)
    BY <1>11 DEF Becomes
  <2>2. dlg'[c].on = e.on /\ dlg'[c].need = e.need
    BY <2>1, SentFields
  <2> QED
    BY <1>10, <1>11, <2>2 DEF Works
<1>12. CASE d = x /\ (m.code = 481 \/ ~x.queued)
  <2>1. ASSUME Becomes(c, x)
        PROVE  DialogInv(c)'
    <3>1. Numbered(c)' /\ Delivered(c)' /\ \A v : Shows(c, v) => Shows(c, v)'
      BY <1>8, <1>9, <2>1, BecomesMute DEF Mute
    <3>2. CASE m.code = 481
      <4>1. x.need /\ Queues(x)
        BY <1>5, <3>2 DEF Queues
      <4> QED
        BY <1>1, <1>5, <2>1, <3>1, <4>1, IdleKeeps DEF MailboxInv
    <3>3. CASE m.code # 481
      <4>1. Works(c)' => Works(c) /\ D.on
        BY <1>5, <1>11, <2>1
      <4>2. CASE bound.what = "extension"
        <5>1. PICK v : v = x.last
          OBVIOUS
        <5>2. Works(c)' => x.est /\ x.reg /\ x.seq > 0 /\ (~x.queued => Shows(c, v)')
          BY <1>1, <1>5, <3>1, <4>1, <4>2, <5>1 DEF LastInv
        <5>3. Works(c)' /\ ~x.raced =>
                 /\ call' = None => v = told'
                 /\ x.ring = now' /\ now' > 0 => told' = now' /\ v = now'
                 /\ x.ring = told' /\ told' > 0 => v = told'
          BY <1>1, <1>5, <4>1, <4>2, <5>1 DEF NotedInv
        <5>4. Queues(x) /\ x.ring <= changes' /\ x.tag <= tags' /\ bound' = bound
          BY <1>1, <1>5, <1>12, <3>3, <4>2 DEF Queues
        <5> QED
          BY <2>1, <3>1, <4>2, <5>1, <5>2, <5>3, <5>4, ExtensionKeeps
      <4>3. CASE bound.what = "mailbox"
        <5>1. ~x.queued /\ (Works(c)' => x.seq > 0) /\ x.tag <= tags' /\ bound' = bound
          BY <1>1, <1>5, <4>1, <4>3 DEF MailboxInv
        <5>2. Works(c)' /\ ~x.raced /\ call' = None /\ told' = now' => Shows(c, now)
          BY <1>1, <1>5, <4>1, <4>3 DEF MailboxInv
        <5>3. PICK w : w = now
          OBVIOUS
        <5>4. Works(c)' /\ ~x.raced /\ call' = None /\ told' = now' => Shows(c, w)'
          BY <3>1, <5>2, <5>3
        <5>5. Works(c)' /\ ~x.raced /\ call' = None /\ told' = now' => Shows(c, now)'
          BY <5>3, <5>4
        <5> QED
          BY <2>1, <3>1, <4>3, <5>1, <5>5, MailboxKeeps
      <4> QED
        BY <1>1, <4>2, <4>3
    <3> QED
      BY <3>2, <3>3
  <2> QED
    BY <1>4, <1>5, <1>8, <1>12, <2>1, PutStep
<1>13. CASE m.code # 481 /\ x.queued
  <2>1. bound.what = "extension"
    BY <1>1, <1>5, <1>13 DEF MailboxInv
  <2>2. PICK y : y = [x EXCEPT !.queued = FALSE]
    OBVIOUS
  <2>3. y \in DialogRecord
    BY ONLY <1>4, <2>2 DEF DialogRecord
  <2>4. /\ y.packets = P /\ y.pend = 0 /\ y.need = n /\ y.tag = D.tag /\ y.seq = D.seq /\ y.out = {} /\ y.on = D.on
        /\ y.est = D.est /\ y.reg = D.reg /\ y.last = D.last /\ y.ring = D.ring /\ ~y.queued
        /\ y.raced = D.raced /\ y.missed = D.missed
    BY <1>4, <1>5, <2>2 DEF DialogRecord
  <2>5. Base(y, c) /\ Reaches(y, c) /\ Queues(y) /\ SpeaksFor(y, c)
    BY <1>5, <1>8, <1>9, <2>3, <2>4 DEF Base, Reaches, Queues, SpeaksFor
  <2>6. PICK v \in Int : v = D.last
    BY <1>1 DEF DialogRecord
  <2>7. d = Update(y, c, v, TRUE)
    BY <1>5, <1>6, <1>13, <2>2, <2>6 DEF Flush
  <2>8. CASE v = Gone
    <3>1. d = [y EXCEPT !.timer = TRUE, !.on = FALSE]
      BY <2>7, <2>8 DEF Update
    <3>2. d \in DialogRecord
      BY ONLY <2>3, <3>1 DEF DialogRecord
    <3>3. /\ Mute(y, d) /\ d.tag = y.tag /\ ~d.on /\ d.ring = y.ring /\ d.queued = y.queued /\ d.pend = y.pend
          /\ d.need = y.need /\ d.missed = y.missed
      BY <2>3, <3>1 DEF DialogRecord, Mute
    <3>4. SpeaksFor(d, c) /\ Reaches(d, c) /\ Queues(d)
      BY <2>5, <3>3 DEF SpeaksFor, Reaches, Queues, Mute
    <3>5. ASSUME Becomes(c, d)
          PROVE  DialogInv(c)'
      <4>1. Numbered(c)' /\ Delivered(c)'
        BY <2>5, <3>3, <3>4, <3>5, BecomesMute
      <4> QED
        BY <1>1, <2>1, <2>4, <3>3, <3>4, <3>5, <4>1, IdleKeeps
    <3> QED
      BY <2>4, <3>2, <3>3, <3>4, <3>5, PutStep
  <2>9. CASE v # Gone
    <3>1. d \in DialogRecord /\ Stays(y, d) /\ TakesIn(y, d, c, v) /\ d.ring = y.ring
      BY ONLY <1>1, <2>3, <2>7, <2>9, v \in Int, Forced
    <3>2. SpeaksFor(d, c) /\ d.tag = D.tag /\ d.need = n /\ d.on = D.on /\ d.last = v
      BY <2>4, <2>5, <3>1, NotedSpeaks DEF Stays, TakesIn
    <3>3. ASSUME Becomes(c, d)
          PROVE  DialogInv(c)'
      <4>1. Alike(d, d)
        BY DEF Alike
      <4>2. /\ Numbered(c)' /\ Delivered(c)' /\ Queues(d)
            /\ d.on /\ d.est /\ ~d.need => d.seq > 0 /\ (~d.queued => Shows(c, v)')
        BY <2>5, <3>1, <3>3, <4>1, BecomesNoted
      <4>3. Works(c)' => Works(c) /\ ~d.need /\ d.on
        BY <1>11, <3>2, <3>3
      <4>4. Works(c)' => d.est /\ d.reg /\ d.seq > 0 /\ (~d.queued => Shows(c, v)')
        BY <1>1, <2>1, <2>4, <3>1, <4>2, <4>3 DEF LastInv, Stays
      <4>5. Works(c)' /\ ~d.raced =>
               /\ call' = None => v = told'
               /\ d.ring = now' /\ now' > 0 => told' = now' /\ v = now'
               /\ d.ring = told' /\ told' > 0 => v = told'
        BY <1>1, <2>1, <2>4, <2>6, <3>1, <4>3 DEF NotedInv, Stays
      <4>6. d.ring <= changes' /\ d.tag <= tags' /\ bound' = bound /\ v = d.last
        BY <1>1, <2>1, <2>4, <3>1, <3>2
      <4> QED
        BY <2>1, <3>3, <4>2, <4>4, <4>5, <4>6, ExtensionKeeps
    <3> QED
      BY <3>1, <3>2, <3>3, PutStep
  <2> QED
    BY <2>8, <2>9
<1> QED
  BY <1>6, <1>12, <1>13 DEF Flush

LEMMA ReceiveAnswerKeeps ==
  ASSUME SubscriptionInv, NEW m \in toUs, ReceiveAnswer(m)
  PROVE  SubscriptionInv'
<1>1. /\ UNCHANGED <<bound, tags, now, changes, told, call, mon, ua>> /\ m.type = "answer" /\ mon = Free
      /\ toUs' \subseteq toUs
  BY DEF ReceiveAnswer
<1>2. CASE Known(m) /\ ~Stranger(m) /\ \E n \in dlg[m.call].packets : n.seq = m.seq
  <2>1. PICK c \in DOMAIN dlg : c = m.call
    BY <1>2 DEF Known
  <2>2. m.tag \in {0, dlg[c].tag} /\ Put(c, Answered(dlg[c], m))
    BY <1>2, <2>1 DEF ReceiveAnswer, Stranger
  <2> QED
    BY <1>1, <2>1, <2>2, AnsweredKeeps
<1>3. CASE ~(Known(m) /\ ~Stranger(m) /\ \E n \in dlg[m.call].packets : n.seq = m.seq)
  <2>1. UNCHANGED <<dlg, toUa>>
    BY <1>3 DEF ReceiveAnswer
  <2>2. PICK Ms : Ms = {}
    OBVIOUS
  <2>3. Ms \subseteq AnswerRecord /\ (\A k \in Ms : k.call <= ua.call /\ k.tag <= tags) /\ toUa' \subseteq toUa \cup Ms
    BY <2>1, <2>2
  <2> QED
    BY <1>1, <2>1, <2>3, TransitKeeps
<1> QED
  BY <1>2, <1>3

LEMMA GiveUpKeeps ==
  ASSUME SubscriptionInv, NEW c \in DOMAIN dlg, GiveUp(c)
  PROVE  SubscriptionInv'
<1>1. UNCHANGED <<bound, tags, now, changes, told, call, mon, ua, toUs>> /\ mon = Free
  BY DEF GiveUp
<1> PICK D : D = dlg[c]
  OBVIOUS
<1>2. /\ D \in DialogRecord /\ D.out = {} /\ D.tag <= tags /\ tags \in Nat /\ changes \in Nat
      /\ bound.what \in {"extension", "mailbox"}
      /\ bound.what = "extension" => D.ring <= changes
      /\ bound.what = "mailbox" => MailboxInv(c)
  BY DialogFacts
<1> PICK n \in BOOLEAN : n = (D.need \/ bound.what = "extension")
  OBVIOUS
<1>3. PICK m \in D.packets : Put(c, [D EXCEPT !.packets = @ \ {m}, !.missed = TRUE, !.need = @ \/ bound.what = "extension"])
  BY DEF GiveUp, Unanswered
<1> PICK P : P = D.packets \ {m}
  OBVIOUS
<1>4. P \in SUBSET NotifyRecord /\ P \subseteq D.packets
  BY <1>2 DEF DialogRecord
<1>5. PICK d : d = [D EXCEPT !.packets = P, !.missed = TRUE, !.need = n]
  OBVIOUS
<1>6. Put(c, d)
  <2>1. d = [D EXCEPT !.packets = @ \ {m}, !.missed = TRUE, !.need = @ \/ bound.what = "extension"]
    BY <1>2, <1>5
  <2> QED
    BY <1>3, <2>1
<1>7. d \in DialogRecord
  <2>1. PICK w : w = [D EXCEPT !.packets = P, !.missed = TRUE]
    OBVIOUS
  <2>2. w \in DialogRecord
    BY ONLY <1>2, <1>4, <2>1 DEF DialogRecord
  <2>3. d = [w EXCEPT !.need = n]
    BY ONLY <1>2, <1>5, <2>1 DEF DialogRecord
  <2> QED
    BY ONLY <2>2, <2>3, n \in BOOLEAN DEF DialogRecord
<1>8. /\ d.packets = P /\ d.missed /\ d.need = n /\ d.tag = D.tag /\ d.seq = D.seq /\ d.out = {} /\ d.on = D.on
      /\ d.queued = D.queued /\ d.ring = D.ring /\ d.raced = D.raced
  BY <1>2, <1>5 DEF DialogRecord
<1>9. Base(d, c) /\ SpeaksFor(d, c) /\ Reaches(d, c)
  BY <1>4, <1>7, <1>8 DEF Base, SpeaksFor, Reaches
<1>10. ASSUME Becomes(c, d)
       PROVE  DialogInv(c)'
  <2>1. Numbered(c)' /\ Delivered(c)' /\ \A v : Shows(c, v) => Shows(c, v)'
    BY <1>9, <1>10, BecomesMute DEF Mute
  <2>2. CASE bound.what = "extension"
    <3>1. d.need /\ Queues(d) /\ d.ring <= changes' /\ d.tag <= tags' /\ bound' = bound
      BY <1>1, <1>2, <1>8, <2>2 DEF Queues
    <3> QED
      BY <1>10, <2>1, <2>2, <3>1, IdleKeeps
  <2>3. CASE bound.what = "mailbox"
    <3>1. Works(c)' => Works(c)
      <4>1. n = D.need
        BY <1>2, <2>3 DEF DialogRecord
      <4>2. dlg'[c].on = D.on /\ dlg'[c].need = D.need
        BY <1>7, <1>8, <1>10, <4>1, SentFields DEF Becomes
      <4> QED
        BY <1>1, <4>2 DEF Works
    <3>2. ~d.queued /\ (Works(c)' => d.seq > 0) /\ d.tag <= tags' /\ bound' = bound
      BY <1>1, <1>2, <1>8, <2>3, <3>1 DEF MailboxInv
    <3>3. PICK w : w = now
      OBVIOUS
    <3>4. Works(c)' /\ ~d.raced /\ call' = None /\ told' = now' => Shows(c, w)'
      BY <1>1, <1>2, <1>8, <2>1, <2>3, <3>1, <3>3 DEF MailboxInv
    <3>5. Works(c)' /\ ~d.raced /\ call' = None /\ told' = now' => Shows(c, now)'
      BY <1>1, <3>3, <3>4
    <3> QED
      BY <1>10, <2>1, <2>3, <3>2, <3>5, MailboxKeeps
  <2> QED
    BY <1>2, <2>2, <2>3
<1> QED
  BY <1>1, <1>6, <1>7, <1>8, <1>9, <1>10, PutStep

LEMMA UnlinkKeeps ==
  ASSUME SubscriptionInv, NEW c \in DOMAIN dlg, Unlink(c), mon = Free,
         UNCHANGED <<bound, tags, now, changes, told, call, mon, ua, toUs>>
  PROVE  SubscriptionInv'
<1>1. /\ DOMAIN dlg' = DOMAIN dlg \ {c} /\ (\A i \in DOMAIN dlg' : dlg'[i] = dlg[i]) /\ toUa' = toUa
      /\ dlg' = [i \in DOMAIN dlg' |-> dlg'[i]]
  BY DEF Unlink
<1>2. CoreInv' /\ PhoneInv' /\ tags \in Nat
  BY <1>1 DEF SubscriptionInv, CoreInv, PhoneInv, PhoneShape, SubscribeRecord, Within, Alive, Waits
<1>3. DialogsInv' /\ HandInv' /\ MonitorInv'
  BY <1>1, FreeMonitor DEF SubscriptionInv, DialogsInv
<1>4. ASSUME NEW i \in DOMAIN dlg'
      PROVE  DialogInv(i)'
  <2>1. i \in DOMAIN dlg /\ dlg'[i] = dlg[i]
    BY <1>1
  <2>2. Faded(i) /\ Delivered(i)'
    BY <1>1, <2>1, DialogFacts DEF Faded, Copies, Seen, Alive, Delivered
  <2>3. Calm /\ CoreInv /\ DialogInv(i)
    BY <1>2, <2>1 DEF Calm, SubscriptionInv
  <2> QED
    BY <2>1, <2>2, <2>3, SameDialogKeeps
<1> QED
  BY <1>2, <1>3, <1>4 DEF SubscriptionInv

LEMMA ExpireKeeps ==
  ASSUME SubscriptionInv, NEW c \in DOMAIN dlg, Expire(c) \/ Destroy(c)
  PROVE  SubscriptionInv'
<1>1. UNCHANGED <<bound, tags, now, changes, told, call, mon, ua, toUs>> /\ mon = Free
  BY DEF Expire, Destroy
<1> PICK D : D = dlg[c]
  OBVIOUS
<1>2. CASE Expire(c) /\ bound.what = "extension" /\ D.on
  <2>1. /\ D \in DialogRecord /\ D.out = {} /\ D.tag <= tags /\ tags \in Nat /\ changes \in Nat
        /\ bound.what \in {"extension", "mailbox"} /\ D.ring <= changes /\ Reaches(D, c) /\ Queues(D) /\ c \in Positive
        /\ SpeaksFor(D, c)
    BY <1>2, DialogFacts
  <2>2. PICK n : n = [D EXCEPT !.expiry = FALSE]
    OBVIOUS
  <2>3. PICK e : e = StateNotify(n, c, 0)
    OBVIOUS
  <2>4. PICK d : d = [e EXCEPT !.on = FALSE]
    OBVIOUS
  <2>5. Put(c, d)
    BY <1>2, <2>2, <2>3, <2>4 DEF Expire
  <2>6. n \in DialogRecord
    BY ONLY <2>1, <2>2 DEF DialogRecord
  <2>7. Like(D, n) /\ n.out = {}
    BY <2>1, <2>2 DEF DialogRecord, Like, Stays
  <2>8. /\ e \in DialogRecord /\ Stays(n, e) /\ e.ring = n.ring /\ e.queued = n.queued
        /\ ~n.est => e = n
        /\ n.est => Utters(n, e, c, 0) /\ e.pend = e.seq
    BY ONLY <2>1, <2>3, <2>6, Telling
  <2>9. d \in DialogRecord
    BY ONLY <2>4, <2>8 DEF DialogRecord
  <2>10. /\ ~d.on /\ Stays(e, d) /\ Mute(e, d) /\ d.ring = e.ring /\ d.queued = e.queued /\ d.pend = e.pend
    BY <2>4, <2>8 DEF DialogRecord, Stays, Mute
  <2>11. Base(n, c) /\ Reaches(n, c) /\ Queues(n) /\ SpeaksFor(n, c)
    <3>1. n.out \subseteq AnswerRecord /\ SpeaksFor(n, c)
      BY <2>7 DEF SpeaksFor
    <3> QED
      BY <2>1, <2>6, <2>7, <3>1, LikeBase, <1>2 DEF Like, Stays
  <2>12. d.tag = D.tag /\ d.ring = D.ring /\ d.tag = n.tag
    BY <2>7, <2>8, <2>10 DEF Like, Stays
  <2>13. CASE n.est
    <3>1. Utters(n, d, c, 0) /\ d.pend = d.seq /\ d.queued = n.queued
      BY <2>8, <2>10, <2>13 DEF Utters, Mute
    <3>2. SpeaksFor(d, c)
      BY <2>8, <2>10, <2>11, <3>1, NotedSpeaks DEF Stays
    <3>3. Queues(d)
      <4>1. PICK m \in NotifyRecord : m.seq = n.seq + 1 /\ d.seq = n.seq + 1 /\ d.packets = n.packets \cup {m}
        BY <3>1 DEF Utters
      <4>2. n.seq \in Nat
        BY <2>6 DEF DialogRecord
      <4> QED
        BY <3>1, <4>1, <4>2 DEF Queues
    <3>4. ASSUME Becomes(c, d)
          PROVE  DialogInv(c)'
      <4>1. Numbered(c)' /\ Delivered(c)'
        BY <2>11, <2>12, <3>1, <3>4, BecomesTold
      <4> QED
        BY <1>1, <1>2, <2>1, <2>10, <2>12, <3>3, <3>4, <4>1, IdleKeeps
    <3> QED
      BY <1>1, <2>5, <2>9, <2>12, <3>2, <3>4, PutStep
  <2>14. CASE ~n.est
    <3>1. Mute(n, d) /\ d.queued = n.queued /\ d.pend = n.pend /\ d.need = n.need /\ d.missed = n.missed
      BY <2>8, <2>10, <2>14 DEF Mute, Stays
    <3>2. SpeaksFor(d, c) /\ Queues(d) /\ Reaches(d, c)
      BY <2>11, <2>12, <3>1 DEF SpeaksFor, Queues, Reaches, Mute
    <3>3. ASSUME Becomes(c, d)
          PROVE  DialogInv(c)'
      <4>1. Numbered(c)' /\ Delivered(c)'
        BY <2>11, <2>12, <3>1, <3>2, <3>3, BecomesMute
      <4> QED
        BY <1>1, <1>2, <2>1, <2>10, <2>12, <3>2, <3>3, <4>1, IdleKeeps
    <3> QED
      BY <1>1, <2>5, <2>9, <2>12, <3>2, <3>3, PutStep
  <2> QED
    BY <2>13, <2>14
<1>3. CASE ~(Expire(c) /\ bound.what = "extension" /\ D.on)
  <2>1. Unlink(c)
    BY <1>3 DEF Expire, Destroy
  <2> QED
    BY <1>1, <2>1, UnlinkKeeps
<1> QED
  BY <1>2, <1>3
-----------------------------------------------------------------------------
(* A SUBSCRIBE that comes.                                                 *)

\* What may change of a dialog while a SUBSCRIBE is looked at.
Follows(D, d) ==
  /\ d.tag = D.tag /\ d.seq = D.seq /\ d.packets = D.packets /\ d.pend = D.pend /\ d.queued = D.queued
  /\ d.missed = D.missed /\ d.ring = D.ring /\ (D.need => d.need)

TagsAfter(m) == IF Known(m) THEN tags ELSE tags + 1

LEMMA NewDialogFacts ==
  ASSUME tags \in Nat, NEW D, D = NewDialog
  PROVE  /\ D \in DialogRecord /\ D.out = {} /\ D.tag = tags + 1 /\ D.seq = 0 /\ D.packets = {} /\ D.pend = 0
         /\ ~D.queued /\ D.ring = None /\ ~D.on /\ D.icseq = 0 /\ ~D.need
<1>1. tags + 1 \in Positive /\ {} \in SUBSET NotifyRecord /\ {} \in SUBSET (NotifyRecord \cup AnswerRecord)
  BY DEF Positive
<1>2. None \in Int
  BY DEF None
<1> QED
  BY <1>1, <1>2 DEF NewDialog, DialogRecord

LEMMA SubscribeFacts ==
  ASSUME SubscriptionInv, NEW m \in toUs, m.type = "SUBSCRIBE", NEW D, D = DialogOf(m)
  PROVE  /\ m \in SubscribeRecord /\ m.call \in Positive /\ m.call <= ua.call /\ m.seq \in Nat /\ m.tag \in Nat
         /\ m.tag <= tags
         /\ D \in DialogRecord /\ D.out = {} /\ D.tag <= TagsAfter(m) /\ TagsAfter(m) \in Nat /\ tags <= TagsAfter(m)
         /\ Known(m) => D = dlg[m.call]
         /\ ~Known(m) => D = NewDialog
<1>1. tags \in Nat
  BY DEF SubscriptionInv, CoreInv
<1>2. m \in SubscribeRecord /\ Within(m)
  BY DEF SubscriptionInv, PhoneInv, AnswerRecord
<1>3. CASE Known(m)
  <2>1. D = dlg[m.call] /\ m.call \in DOMAIN dlg
    BY <1>3 DEF DialogOf, Known
  <2> QED
    BY <1>1, <1>2, <1>3, <2>1, DialogFacts DEF TagsAfter, SubscribeRecord, Within
<1>4. CASE ~Known(m)
  <2>1. D = NewDialog
    BY <1>4 DEF DialogOf
  <2> QED
    BY <1>1, <1>2, <1>4, <2>1, NewDialogFacts DEF TagsAfter, SubscribeRecord, Within
<1> QED
  BY <1>3, <1>4

LEMMA Entering ==
  ASSUME SubscriptionInv, NEW K \in SUBSET DOMAIN dlg, NEW c \in Positive, c <= ua.call, NEW d \in DialogRecord,
         dlg' = Entered([i \in K |-> dlg[i]], c, Sent(d)), toUa' = toUa \cup d.out, toUs' \subseteq toUs,
         UNCHANGED <<bound, now, changes, told, call, ua>>, tags' \in Nat, tags <= tags', d.tag <= tags', SpeaksFor(d, c)
  PROVE  OnlyThis(c, d) /\ Becomes(c, d)
<1>1. /\ DOMAIN dlg' = K \cup {c} /\ dlg'[c] = Sent(d)
      /\ \A i \in DOMAIN dlg' \ {c} : dlg'[i] = dlg[i]
      /\ dlg' = [i \in DOMAIN dlg' |-> dlg'[i]]
  BY DEF Entered
<1>2. c \in 1 .. ua.call
  BY DEF SubscriptionInv, PhoneInv, PhoneShape, Positive
<1> QED
  BY <1>1, <1>2 DEF OnlyThis, Becomes, SpeaksFor

\* The dialog goes on as it was, or nobody relies on what it shows.
LEMMA FollowerKeeps ==
  ASSUME SubscriptionInv, NEW m \in toUs, m.type = "SUBSCRIBE", NEW D, D = DialogOf(m),
         NEW d \in DialogRecord, Follows(D, d), d.out \subseteq AnswerRecord, tags' = TagsAfter(m),
         UNCHANGED <<bound, changes>>, Becomes(m.call, d), d.need \/ ~d.on \/ mon'.call = m.call
  PROVE  DialogInv(m.call)'
<1>1. PICK c : c = m.call
  OBVIOUS
<1>2. /\ c \in Positive /\ c <= ua.call /\ D \in DialogRecord /\ D.out = {} /\ D.tag <= tags'
      /\ Known(m) => D = dlg[c] /\ c \in DOMAIN dlg
      /\ ~Known(m) => D = NewDialog
      /\ bound.what \in {"extension", "mailbox"} /\ tags \in Nat /\ changes \in Nat
  BY <1>1, SubscribeFacts DEF Known, SubscriptionInv, CoreInv
<1>3. CASE Known(m)
  <2>1. Base(d, c) /\ Reaches(d, c) /\ (bound.what = "extension" => Queues(d))
    BY <1>2, <1>3, LikeBase DEF Follows
  <2>2. Numbered(c)' /\ Delivered(c)'
    BY <1>1, <1>2, <1>3, <2>1, BecomesMute DEF Mute
  <2>3. /\ bound.what = "extension" => d.ring <= changes'
        /\ bound.what = "mailbox" => ~d.queued
    BY <1>2, <1>3, DialogFacts DEF Follows, MailboxInv
  <2> QED
    BY <1>1, <1>2, <2>1, <2>2, <2>3, IdleKeeps DEF Follows
<1>4. CASE ~Known(m)
  <2>1. /\ d.tag = tags + 1 /\ d.seq = 0 /\ d.packets = {} /\ d.pend = 0 /\ ~d.queued /\ d.ring = None
    BY <1>2, <1>4, NewDialogFacts DEF Follows
  <2>2. dlg'[c].tag = tags + 1 /\ dlg'[c].seq = 0 /\ dlg'[c].packets = {} /\ ua' = ua
    BY <1>1, <2>1, SentFields DEF Becomes
  <2>3. Copies(c)' = {}
    <3> SUFFICES ASSUME NEW k \in Copies(c)'
                 PROVE  FALSE
      OBVIOUS
    <3>1. k \in toUa' /\ k.type = "NOTIFY" /\ k.call = c /\ k.tag = tags + 1
      BY <2>2 DEF Copies
    <3>2. k \in toUa
      BY <1>1, <3>1 DEF Becomes, AnswerRecord
    <3>3. k.tag <= tags /\ k.tag \in Nat
      BY <3>1, <3>2 DEF SubscriptionInv, PhoneInv, Within, NotifyRecord, AnswerRecord, Positive
    <3> QED
      BY <1>2, <3>1, <3>3
  <2>4. ~Seen(c)'
    <3>1. ua.tag <= tags /\ ua.tag \in Nat
      BY DEF SubscriptionInv, PhoneInv, PhoneShape
    <3> QED
      BY <1>2, <2>2, <3>1 DEF Seen
  <2>5. Numbered(c)' /\ Delivered(c)'
    BY <2>2, <2>3, <2>4 DEF Numbered, Delivered
  <2>6. Queues(d) /\ d.ring <= changes' /\ ~d.queued
    BY <1>2, <2>1 DEF Queues, None
  <2> QED
    BY <1>1, <1>2, <2>5, <2>6, IdleKeeps DEF Follows
<1> QED
  BY <1>3, <1>4

\* An old SUBSCRIBE is answered, and nothing else.
LEMMA StaleKeeps ==
  ASSUME SubscriptionInv, NEW m \in toUs, ReceiveSubscribe(m), ~Stranger(m), Stale(m)
  PROVE  SubscriptionInv'
<1>1. /\ UNCHANGED <<bound, now, changes, told, call, ua>> /\ m.type = "SUBSCRIBE" /\ mon = Free /\ mon' = Free
      /\ toUs' \subseteq toUs /\ tags' = TagsAfter(m) /\ Put(m.call, Reply(DialogOf(m), m, 500))
  BY DEF ReceiveSubscribe, TagsAfter
<1>2. PICK D, c : D = DialogOf(m) /\ c = m.call
  OBVIOUS
<1>3. /\ c \in Positive /\ D \in DialogRecord /\ D.out = {} /\ m.seq \in Nat
      /\ ~Known(m) => D.icseq = 0
  BY <1>1, <1>2, SubscribeFacts, NewDialogFacts DEF SubscriptionInv, CoreInv
<1>4. Known(m) /\ c \in DOMAIN dlg /\ D = dlg[c]
  <2>1. D.icseq > m.seq
    BY <1>2 DEF Stale
  <2>2. Known(m)
    BY <1>3, <2>1
  <2> QED
    BY <1>2, <2>2 DEF Known, DialogOf
<1>5. PICK d : d = Reply(D, m, 500)
  OBVIOUS
<1>6. d \in DialogRecord /\ Like(D, d) /\ d.out \subseteq AnswerRecord /\ SpeaksFor(d, c)
  BY <1>2, <1>3, <1>5, Replying DEF Codes
<1>7. /\ tags' = tags /\ Put(c, d) /\ D.tag <= tags /\ bound.what \in {"extension", "mailbox"}
      /\ bound.what = "extension" => Queues(D) /\ D.ring <= changes /\ LastInv(c) /\ NotedInv(c)
      /\ bound.what = "mailbox" => MailboxInv(c)
  BY <1>1, <1>2, <1>4, <1>5, DialogFacts DEF TagsAfter
<1>8. Base(d, c) /\ Reaches(d, c) /\ (bound.what = "extension" => Queues(d))
  BY <1>4, <1>6, LikeBase DEF Like, Stays
<1>9. ASSUME Becomes(c, d)
      PROVE  DialogInv(c)'
  <2>1. Numbered(c)' /\ Delivered(c)' /\ \A v : Shows(c, v) => Shows(c, v)'
    BY <1>4, <1>8, <1>9, BecomesMute DEF Mute
  <2>2. Works(c)' => Works(c)
    <3>1. dlg'[c].on = D.on /\ dlg'[c].need = D.need
      BY <1>6, <1>9, SentFields DEF Becomes, Like, Stays
    <3> QED
      BY <1>1, <1>4, <3>1 DEF Works
  <2>3. d.tag <= tags' /\ bound' = bound
    BY <1>1, <1>6, <1>7 DEF Like, Stays
  <2>4. CASE bound.what = "extension"
    <3>1. PICK v : v = d.last
      OBVIOUS
    <3>2. Works(c)' => d.est /\ d.reg /\ d.seq > 0 /\ (~d.queued => Shows(c, v)')
      BY <1>4, <1>6, <1>7, <2>1, <2>2, <2>4, <3>1 DEF LastInv, Like, Stays
    <3>3. Works(c)' /\ ~d.raced =>
             /\ call' = None => v = told'
             /\ d.ring = now' /\ now' > 0 => told' = now' /\ v = now'
             /\ d.ring = told' /\ told' > 0 => v = told'
      BY <1>1, <1>4, <1>6, <1>7, <2>2, <2>4, <3>1 DEF NotedInv, Like, Stays
    <3>4. Queues(d) /\ d.ring <= changes'
      BY <1>1, <1>6, <1>7, <1>8, <2>4 DEF Like
    <3> QED
      BY <1>9, <2>1, <2>3, <2>4, <3>1, <3>2, <3>3, <3>4, ExtensionKeeps
  <2>5. CASE bound.what = "mailbox"
    <3>1. ~d.queued /\ (Works(c)' => d.seq > 0)
      BY <1>4, <1>6, <1>7, <2>2, <2>5 DEF MailboxInv, Like
    <3>2. PICK w : w = now
      OBVIOUS
    <3>3. Works(c)' /\ ~d.raced /\ call' = None /\ told' = now' => Shows(c, w)'
      BY <1>1, <1>4, <1>6, <1>7, <2>1, <2>2, <2>5, <3>2 DEF MailboxInv, Like, Stays
    <3>4. Works(c)' /\ ~d.raced /\ call' = None /\ told' = now' => Shows(c, now)'
      BY <1>1, <3>2, <3>3
    <3> QED
      BY <1>9, <2>1, <2>3, <2>5, <3>1, <3>4, MailboxKeeps
  <2> QED
    BY <1>7, <2>4, <2>5
<1> QED
  BY <1>1, <1>4, <1>6, <1>7, <1>9, PutStep DEF Like, Stays

\* A refusal: the dialog has heard the SUBSCRIBE, and goes.
LEMMA Refusing ==
  ASSUME NEW D \in DialogRecord, D.out = {}, NEW m, m.call \in Positive, m.seq \in Nat, NEW code \in Codes,
         NEW b \in DialogRecord, Follows(D, b), b.out = {}, NEW d, d = Refuse(b, m, code)
  PROVE  d \in DialogRecord /\ Follows(D, d) /\ d.need /\ d.out \subseteq AnswerRecord /\ SpeaksFor(d, m.call)
<1>1. PICK n : n = [b EXCEPT !.need = TRUE]
  OBVIOUS
<1>2. n \in DialogRecord
  BY ONLY b \in DialogRecord, <1>1 DEF DialogRecord
<1>3. /\ n.need /\ n.out = {} /\ n.tag = b.tag /\ n.seq = b.seq /\ n.packets = b.packets /\ n.pend = b.pend
      /\ n.queued = b.queued /\ n.missed = b.missed /\ n.ring = b.ring
  BY <1>1 DEF DialogRecord
<1>4. d = Reply(n, m, code)
  BY <1>1 DEF Refuse
<1>5. d \in DialogRecord /\ Like(n, d) /\ d.out \subseteq AnswerRecord /\ SpeaksFor(d, m.call)
  BY <1>2, <1>3, <1>4, Replying
<1> QED
  BY <1>3, <1>5 DEF Like, Stays, Follows

\* What is made of a SUBSCRIBE that is not refused at once.
LEMMA Accepting ==
  ASSUME NEW m, m.call \in Positive, m.seq \in Nat, NEW D \in DialogRecord, D = DialogOf(m), D.out = {},
         NEW d, d = Accepted(m)
  PROVE  /\ d \in DialogRecord /\ Follows(D, d) /\ d.out \subseteq AnswerRecord /\ SpeaksFor(d, m.call)
         /\ ~GoesOn(m) => d.need
         /\ GoesOn(m) /\ m.time = "long" /\ bound.what = "extension" => d.reg \/ (Again(m) /\ d.reg = D.reg)
<1>1. PICK a : a = [D EXCEPT !.icseq = m.seq, !.on = TRUE]
  OBVIOUS
<1>2. a \in DialogRecord
  BY ONLY D \in DialogRecord, m.seq \in Nat, <1>1 DEF DialogRecord
<1>3. a.out = {} /\ Follows(D, a) /\ a.need = D.need /\ a.reg = D.reg /\ a.est = D.est
  BY <1>1 DEF DialogRecord, Follows
<1>4. PICK g \in Truth : g = (m.time = "long")
  BY DEF Truth
<1>5. PICK n \in Truth : n = Again(m)
  BY DEF Truth, Again
<1>6. PICK e : e = Timed(a, m, Again(m))
  OBVIOUS
<1>7. e = [a EXCEPT !.expiry = g, !.timer = g]
  BY <1>4, <1>6 DEF Timed
<1>8. e \in DialogRecord
  BY ONLY <1>2, <1>7, g \in Truth DEF DialogRecord, Truth
<1>9. e.out = {} /\ Follows(D, e) /\ e.need = D.need /\ e.reg = D.reg /\ e.on = a.on
  BY <1>2, <1>3, <1>7 DEF DialogRecord, Follows
<1>10. d = IF a.need THEN a
           ELSE IF m.time = "brief" THEN Refuse(a, m, 423)
           ELSE IF bound.what = "mailbox" THEN Reply([e EXCEPT !.est = TRUE], m, 200)
           ELSE [e EXCEPT !.reg = @ \/ (m.time = "long" /\ ~Again(m))]
  <2>1. \A N, E : N = [DialogOf(m) EXCEPT !.icseq = m.seq, !.on = TRUE] /\ E = Timed(N, m, Again(m)) =>
          Accepted(m) = IF N.need THEN N
                        ELSE IF m.time = "brief" THEN Refuse(N, m, 423)
                        ELSE IF bound.what = "mailbox" THEN Reply([E EXCEPT !.est = TRUE], m, 200)
                        ELSE [E EXCEPT !.reg = @ \/ (m.time = "long" /\ ~Again(m))]
    BY ZenonT(40) DEF Accepted
  <2>2. d = Accepted(m) /\ D = DialogOf(m)
    OBVIOUS
  <2> QED
    BY ONLY <1>1, <1>6, <2>1, <2>2, ZenonT(40)
<1>11. GoesOn(m) <=> ~D.need /\ m.time # "brief"
  BY DEF GoesOn
<1>12. CASE a.need
  BY <1>2, <1>3, <1>10, <1>11, <1>12 DEF SpeaksFor
<1>13. CASE ~a.need /\ m.time = "brief"
  <2>1. d = Refuse(a, m, 423)
    BY <1>10, <1>13
  <2>2. d \in DialogRecord /\ Follows(D, d) /\ d.need /\ d.out \subseteq AnswerRecord /\ SpeaksFor(d, m.call)
    BY <1>2, <1>3, <2>1, Refusing DEF Codes
  <2> QED
    BY <1>11, <1>13, <2>2
<1>14. CASE ~a.need /\ m.time # "brief" /\ bound.what = "mailbox"
  <2>1. PICK f : f = [e EXCEPT !.est = TRUE]
    OBVIOUS
  <2>2. f \in DialogRecord
    BY ONLY <1>8, <2>1 DEF DialogRecord
  <2>3. f.out = {} /\ Follows(D, f) /\ f.need = D.need
    BY <1>8, <1>9, <2>1 DEF DialogRecord, Follows
  <2>4. d = Reply(f, m, 200)
    BY <1>10, <1>14, <2>1
  <2>5. d \in DialogRecord /\ Like(f, d) /\ d.out \subseteq AnswerRecord /\ SpeaksFor(d, m.call)
    BY <2>2, <2>3, <2>4, Replying DEF Codes
  <2>6. Follows(D, d)
    BY <2>3, <2>5 DEF Follows, Like, Stays
  <2> QED
    BY <1>3, <1>11, <1>14, <2>5, <2>6
<1>15. CASE ~a.need /\ m.time # "brief" /\ bound.what # "mailbox"
  <2>1. PICK r \in Truth : r = (e.reg \/ (m.time = "long" /\ ~Again(m)))
    BY DEF Truth
  <2>2. d = [e EXCEPT !.reg = r]
    <3>1. d = [e EXCEPT !.reg = @ \/ (m.time = "long" /\ ~Again(m))]
      BY <1>10, <1>15
    <3> QED
      BY <1>8, <2>1, <3>1 DEF DialogRecord
  <2>3. d \in DialogRecord
    BY ONLY <1>8, <2>2, r \in Truth DEF DialogRecord, Truth
  <2>4. d.out = {} /\ Follows(D, d) /\ d.reg = r
    BY <1>8, <1>9, <2>2 DEF DialogRecord, Follows
  <2>5. m.time = "long" => r \/ (Again(m) /\ r = D.reg)
    <3>1. CASE ~Again(m)
      BY <2>1, <3>1
    <3>2. CASE Again(m)
      <4>1. r = e.reg /\ e.reg \in BOOLEAN
        BY <1>8, <2>1, <3>2 DEF DialogRecord
      <4> QED
        BY <1>9, <3>2, <4>1
    <3> QED
      BY <3>1, <3>2
  <2> QED
    BY <1>3, <1>11, <1>15, <2>3, <2>4, <2>5 DEF SpeaksFor
<1> QED
  BY <1>12, <1>13, <1>14, <1>15

\* A dialog that is refused.
LEMMA RefusedKeeps ==
  ASSUME SubscriptionInv, NEW m \in toUs, m.type = "SUBSCRIBE", mon = Free, mon' = Free,
         UNCHANGED <<bound, now, changes, told, call, ua>>, toUs' \subseteq toUs, tags' = TagsAfter(m),
         NEW code \in Codes, Put(m.call, Refuse([DialogOf(m) EXCEPT !.icseq = m.seq], m, code))
  PROVE  SubscriptionInv'
<1>1. PICK D : D = DialogOf(m)
  OBVIOUS
<1>2. /\ m.call \in Positive /\ m.call <= ua.call /\ m.seq \in Nat /\ D \in DialogRecord /\ D.out = {}
      /\ D.tag <= tags' /\ tags' \in Nat /\ tags <= tags'
  BY <1>1, SubscribeFacts
<1>3. PICK b : b = [D EXCEPT !.icseq = m.seq]
  OBVIOUS
<1>4. b \in DialogRecord
  BY ONLY <1>2, <1>3 DEF DialogRecord
<1>5. b.out = {} /\ Follows(D, b)
  BY <1>2, <1>3 DEF DialogRecord, Follows
<1>6. PICK d : d = Refuse(b, m, code)
  OBVIOUS
<1>7. d \in DialogRecord /\ Follows(D, d) /\ d.need /\ d.out \subseteq AnswerRecord /\ SpeaksFor(d, m.call)
  BY <1>2, <1>4, <1>5, <1>6, Refusing
<1>8. OnlyThis(m.call, d) /\ Becomes(m.call, d)
  <2>1. PICK K : K = DOMAIN dlg
    OBVIOUS
  <2>2. dlg = [i \in K |-> dlg[i]]
    BY <2>1 DEF SubscriptionInv, DialogsInv
  <2>3. dlg' = Entered([i \in K |-> dlg[i]], m.call, Sent(d)) /\ toUa' = toUa \cup d.out
    BY <1>1, <1>3, <1>6, <2>2 DEF Put
  <2>4. d.tag <= tags'
    BY <1>2, <1>7 DEF Follows
  <2> QED
    BY <1>2, <1>7, <2>1, <2>3, <2>4, Entering
<1>9. DialogInv(m.call)'
  BY <1>1, <1>7, <1>8, FollowerKeeps
<1>10. mon.call \in {0, m.call}
  BY DEF Free
<1> QED
  BY <1>8, <1>9, <1>10, FreeMonitor, DialogStep

\* A dialog that is subscribed: the monitor lets go of it, and goes on later.
LEMMA AcceptedKeeps ==
  ASSUME SubscriptionInv, NEW m \in toUs, ReceiveSubscribe(m), ~Stranger(m), ~Stale(m), ~Unheard(m), ~NoTarget
  PROVE  SubscriptionInv'
<1>1. /\ UNCHANGED <<bound, now, changes, told, call, ua>> /\ m.type = "SUBSCRIBE" /\ mon = Free
      /\ toUs' \subseteq toUs /\ tags' = TagsAfter(m)
      /\ dlg' = Entered([i \in Kept |-> dlg[i]], m.call, Sent(Accepted(m)))
      /\ toUa' = toUa \cup Accepted(m).out
      /\ mon' = IF GoesOn(m) THEN [Free EXCEPT !.call = m.call, !.seq = m.seq, !.again = m.time = "long"] ELSE Free
  BY DEF ReceiveSubscribe, TagsAfter
<1>2. PICK D, d : D = DialogOf(m) /\ d = Accepted(m)
  OBVIOUS
<1>3. /\ m.call \in Positive /\ m.call <= ua.call /\ m.seq \in Nat /\ D \in DialogRecord /\ D.out = {}
      /\ D.tag <= tags' /\ tags' \in Nat /\ tags <= tags' /\ changes \in Nat
      /\ bound.what \in {"extension", "mailbox"}
      /\ Known(m) => D = dlg[m.call]
      /\ ~Known(m) => D = NewDialog
  BY <1>1, <1>2, SubscribeFacts DEF SubscriptionInv, CoreInv
<1>4. /\ d \in DialogRecord /\ Follows(D, d) /\ d.out \subseteq AnswerRecord /\ SpeaksFor(d, m.call)
      /\ ~GoesOn(m) => d.need
      /\ GoesOn(m) /\ m.time = "long" /\ bound.what = "extension" => d.reg \/ (Again(m) /\ d.reg = D.reg)
  BY <1>2, <1>3, Accepting
<1>5. OnlyThis(m.call, d) /\ Becomes(m.call, d)
  <2>1. PICK K : K = Kept
    OBVIOUS
  <2>2. K \in SUBSET DOMAIN dlg
    BY <2>1 DEF Kept
  <2>3. dlg' = Entered([i \in K |-> dlg[i]], m.call, Sent(d)) /\ toUa' = toUa \cup d.out
    BY <1>1, <1>2, <2>1
  <2>4. d.tag <= tags'
    BY <1>3, <1>4 DEF Follows
  <2> QED
    BY <1>1, <1>3, <1>4, <2>2, <2>3, <2>4, Entering
<1>6. PICK g \in BOOLEAN : g = (m.time = "long")
  OBVIOUS
<1>7. GoesOn(m) =>
        /\ mon' \in MonitorRecord /\ mon'.call = m.call /\ mon'.again = g /\ mon'.read = None
  <2> HAVE GoesOn(m)
  <2>1. mon' = [call |-> m.call, seq |-> m.seq, again |-> g, read |-> None, late |-> FALSE]
    BY <1>1, <1>6 DEF Free
  <2> QED
    BY <1>3, <2>1 DEF MonitorRecord, None, Positive
<1>8. mon' \in MonitorRecord /\ (mon' = Free \/ mon'.call = m.call) /\ mon'.read <= changes
  <2>1. CASE GoesOn(m)
    BY <1>3, <1>7, <2>1 DEF None
  <2>2. CASE ~GoesOn(m)
    BY <1>1, <2>2, FreeMonitor
  <2> QED
    BY <2>1, <2>2
<1>9. MonitorInv'
  <2>1. mon' = Free \/ mon'.read = None
    BY <1>1, <1>7
  <2> QED
    BY <2>1 DEF MonitorInv, Free, None
<1>10. HandInv'
  <2> SUFFICES ASSUME GoesOn(m), g, bound.what = "extension"
               PROVE  dlg'[m.call].reg
    BY <1>1, <1>7 DEF HandInv, Free
  <2>1. dlg'[m.call].reg = d.reg
    BY <1>4, <1>5, SentFields DEF Becomes
  <2>2. ASSUME Again(m)
        PROVE  D.reg
    <3>1. D.on /\ ~D.need
      BY <1>2, <2>2 DEF Again, GoesOn
    <3>2. Known(m)
      BY <1>3, <3>1, NewDialogFacts DEF SubscriptionInv, CoreInv
    <3>3. m.call \in DOMAIN dlg /\ D = dlg[m.call] /\ mon.call # m.call
      BY <1>1, <1>3, <3>2 DEF Known, Free, Positive
    <3>4. LastInv(m.call)
      BY <3>3, DialogFacts
    <3> QED
      BY <3>1, <3>3, <3>4 DEF LastInv, Works
  <2> QED
    BY <1>4, <1>6, <2>1, <2>2
<1>11. DialogInv(m.call)'
  <2>1. d.need \/ ~d.on \/ mon'.call = m.call
    BY <1>4, <1>7
  <2> QED
    BY <1>1, <1>2, <1>4, <1>5, <2>1, FollowerKeeps
<1>12. mon.call \in {0, m.call}
  BY <1>1 DEF Free
<1> QED
  BY <1>5, <1>8, <1>9, <1>10, <1>11, <1>12, DialogStep

LEMMA ReceiveSubscribeKeeps ==
  ASSUME SubscriptionInv, NEW m \in toUs, ReceiveSubscribe(m)
  PROVE  SubscriptionInv'
<1>1. UNCHANGED <<bound, now, changes, told, call, ua>> /\ m.type = "SUBSCRIBE" /\ mon = Free /\ toUs' \subseteq toUs
      /\ tags' = TagsAfter(m)
  BY DEF ReceiveSubscribe, TagsAfter
<1>2. CASE Stranger(m)
  <2>1. PICK Ms : Ms = {AnswerTo(m, m.tag, 481)}
    OBVIOUS
  <2>2. mon' = mon /\ dlg' = dlg /\ toUa' \subseteq toUa \cup Ms /\ tags' = tags
    BY <1>1, <1>2, <2>1 DEF ReceiveSubscribe, Stranger, TagsAfter
  <2>3. m.call \in Positive /\ m.call <= ua.call /\ m.seq \in Nat /\ m.tag \in Nat /\ m.tag <= tags
    BY <1>1, SubscribeFacts
  <2>4. Ms \subseteq AnswerRecord /\ \A k \in Ms : k.call <= ua.call /\ k.tag <= tags
    BY <2>1, <2>3 DEF AnswerTo, AnswerRecord, Codes
  <2> QED
    BY <1>1, <2>2, <2>4, TransitKeeps
<1>3. CASE ~Stranger(m) /\ Stale(m)
  BY <1>3, StaleKeeps
<1>4. CASE ~Stranger(m) /\ ~Stale(m) /\ Unheard(m)
  <2>1. mon' = Free /\ Put(m.call, Refuse([DialogOf(m) EXCEPT !.icseq = m.seq], m, 481))
    BY <1>1, <1>4 DEF ReceiveSubscribe
  <2> QED
    BY <1>1, <2>1, RefusedKeeps DEF Codes
<1>5. CASE ~Stranger(m) /\ ~Stale(m) /\ ~Unheard(m) /\ NoTarget
  <2>1. mon' = Free /\ Put(m.call, Refuse([DialogOf(m) EXCEPT !.icseq = m.seq], m, 404))
    BY <1>1, <1>5 DEF ReceiveSubscribe
  <2> QED
    BY <1>1, <2>1, RefusedKeeps DEF Codes
<1>6. CASE ~Stranger(m) /\ ~Stale(m) /\ ~Unheard(m) /\ ~NoTarget
  BY <1>6, AcceptedKeeps
<1> QED
  BY <1>2, <1>3, <1>4, <1>5, <1>6
-----------------------------------------------------------------------------
(* All together.                                                           *)

LEMMA InitSubscription ==
  ASSUME NEW b \in Subscriptions \cup {NoSubscription}, SubscriptionInit(b)
  PROVE  SubscriptionInv
<1>1. bound.what \in {"extension", "mailbox"}
  BY SubscriptionBounds DEF SubscriptionInit, NoSubscription
<1>2. CoreInv
  BY <1>1 DEF SubscriptionInit, CoreInv, Gone
<1>3. PhoneInv
  BY DEF SubscriptionInit, PhoneInv, PhoneShape, Waits, None
<1>4. DialogsInv /\ DOMAIN dlg = {}
  BY DEF SubscriptionInit, DialogsInv, MonitorRecord, Free, None
<1>5. HandInv /\ MonitorInv
  BY DEF SubscriptionInit, HandInv, MonitorInv
<1> QED
  BY <1>2, <1>3, <1>4, <1>5 DEF SubscriptionInv

LEMMA SubscriptionKeeps ==
  ASSUME SubscriptionInv, SubscriptionNext \/ UNCHANGED subscriptionVars
  PROVE  SubscriptionInv'
<1>1. ASSUME NEW v \in {Gone, 0, changes + 1}, Change(v)
      PROVE  SubscriptionInv'
  BY <1>1, ChangeKeeps
<1>2. CASE Notice
  BY <1>2, NoticeGoesOn
<1>3. CASE Announce
  BY <1>3, AnnounceKeeps
<1>4. CASE ReadState
  BY <1>4, ReadStateKeeps
<1>5. CASE FinishSubscribe
  BY <1>5, FinishExtension, FinishMailbox DEF SubscriptionInv, CoreInv
<1>6. ASSUME NEW m \in toUs, ReceiveSubscribe(m) \/ ReceiveAnswer(m)
      PROVE  SubscriptionInv'
  BY <1>6, ReceiveSubscribeKeeps, ReceiveAnswerKeeps
<1>7. ASSUME NEW c \in Dialogs, Timers(c)
      PROVE  SubscriptionInv'
  BY <1>7, TransitSteps, GiveUpKeeps, ExpireKeeps DEF Timers
<1>8. ASSUME NEW st \in {"asking", "renewing", "leaving"}, NEW t \in bound.times, Ask(st, t)
      PROVE  SubscriptionInv'
  BY <1>8, AskKeeps
<1>9. CASE AskAgain \/ Lose \/ Repeat
  BY <1>9, TransitSteps
<1>10. CASE Forget
  BY <1>10, ForgetKeeps
<1>11. ASSUME NEW m \in toUa, GetAnswer(m) \/ GetNotify(m)
       PROVE  SubscriptionInv'
  BY <1>11, GetAnswerKeeps, GetNotifyKeeps
<1>12. CASE UNCHANGED subscriptionVars
  <2>1. /\ UNCHANGED <<bound, now, changes, told, call, dlg, tags, mon, ua>> /\ toUs' = toUs /\ toUa' = toUa
    BY <1>12 DEF subscriptionVars
  <2>2. PICK Ms : Ms = {}
    OBVIOUS
  <2>3. Ms \subseteq AnswerRecord /\ (\A k \in Ms : k.call <= ua.call /\ k.tag <= tags) /\ toUa' \subseteq toUa \cup Ms
    BY <2>1, <2>2
  <2> QED
    BY <2>1, <2>3, TransitKeeps
<1> QED
  BY <1>1, <1>2, <1>3, <1>4, <1>5, <1>6, <1>7, <1>8, <1>9, <1>10, <1>11, <1>12 DEF SubscriptionNext

LEMMA ShownTruth ==
  ASSUME SubscriptionInv
  PROVE  StateShown
<1> SUFFICES ASSUME Quiet, ua.st = "on", ua.call \in DOMAIN dlg, Tells(dlg[ua.call])
             PROVE  ua.shows = now
  BY DEF StateShown
<1>1. PICK c : c = ua.call
  OBVIOUS
<1>2. /\ c \in DOMAIN dlg /\ c \in Positive /\ Alive(c) /\ toUa = {} /\ mon = Free /\ call = None /\ told = now
      /\ dlg[c].on /\ ~dlg[c].need /\ dlg[c].packets = {} /\ ~dlg[c].raced /\ ~dlg[c].missed
      /\ bound.what \in {"extension", "mailbox"} /\ dlg[c].seq \in Nat
      /\ bound.what = "extension" => Queues(dlg[c]) /\ LastInv(c) /\ NotedInv(c)
      /\ bound.what = "mailbox" => MailboxInv(c)
      /\ Delivered(c)
  BY <1>1, DialogFacts DEF Quiet, Tells, Alive, DialogRecord
<1>3. Works(c)
  BY <1>2 DEF Works, Free, Positive
<1>4. dlg[c].seq > 0 /\ Shows(c, now)
  <2>1. CASE bound.what = "extension"
    <3>1. ~dlg[c].queued
      BY <1>2, <2>1 DEF Queues
    <3>2. dlg[c].last = now
      BY <1>2, <1>3, <2>1 DEF NotedInv
    <3> QED
      BY <1>2, <1>3, <2>1, <3>1, <3>2 DEF LastInv
  <2>2. CASE bound.what = "mailbox"
    BY <1>2, <1>3, <2>2 DEF MailboxInv
  <2> QED
    BY <1>2, <2>1, <2>2
<1>5. ua.tag = dlg[c].tag /\ ua.got = dlg[c].seq
  BY <1>2, <1>4 DEF Delivered
<1>6. Seen(c)
  BY <1>2, <1>4, <1>5 DEF Seen
<1> QED
  BY <1>4, <1>5, <1>6 DEF Shows
-----------------------------------------------------------------------------
(* Each usage goes its own way.                                            *)

LEMMA InitUsages ==
  ASSUME Init
  PROVE  SubscriptionInv /\ TransferInv /\ MatchInv
<1>1. PICK b \in Subscriptions \cup {NoSubscription}, t \in Transfers \cup {NoTransfer},
           k \in Castings \cup {NoCasting} : SubscriptionInit(b) /\ TransferInit(t) /\ MatchInit(k)
  BY DEF Init
<1> QED
  BY <1>1, InitSubscription, InitTransfer, InitMatch

LEMMA UsagesGoOn ==
  ASSUME [Next]_vars
  PROVE  /\ SubscriptionNext \/ UNCHANGED subscriptionVars
         /\ TransferNext \/ UNCHANGED transferVars
         /\ MatchNext \/ UNCHANGED matchVars
BY DEF Next, vars

\* A subscription goes on as its dialog, its NOTIFYs and its SUBSCRIBE in the monitor's hands allow,
\* whatever is lost, repeated or overtaken and whenever the core announces a change.
THEOREM SubscriptionCorrect == Spec => []SubscriptionInv
<1>1. Init => SubscriptionInv
  BY InitUsages
<1>2. SubscriptionInv /\ [Next]_vars => SubscriptionInv'
  BY UsagesGoOn, SubscriptionKeeps
<1> QED
  BY <1>1, <1>2, PTL DEF Spec

\* When nothing is under way any more, a phone that is subscribed shows the state there is.
THEOREM StateShownCorrect == Spec => []StateShown
<1>1. SubscriptionInv => StateShown
  BY ShownTruth
<1> QED
  BY <1>1, SubscriptionCorrect, PTL

\* A transfer goes on as its legs, its work and its REFER allow, whatever the order of BYE, NOTIFY
\* and the end of the new call.
THEOREM TransferCorrect == Spec => []TransferInv
<1>1. Init => TransferInv
  BY InitUsages
<1>2. TransferInv /\ [Next]_vars => TransferInv'
  BY UsagesGoOn, TransferKeeps
<1> QED
  BY <1>1, <1>2, PTL DEF Spec

\* What the caller of a REFER is told is how its transfer ended.
THEOREM OutcomeTrueCorrect == Spec => []OutcomeTrue
<1>1. TransferInv => OutcomeTrue
  <2> SUFFICES ASSUME TransferInv, NEW n \in DOMAIN refer
               PROVE  /\ refer[n].final = 200 => ~With("X", "A")
                      /\ n = Len(refer) /\ refer[n].had /\ refer[n].final > 200 => party["X"] \in {"A", "gone"}
    BY DEF OutcomeTrue
  <2>1. ToldInOrder(refer[n], party["X"]) /\ refer # <<>> /\ StillThere(refer[Len(refer)], party["X"])
    BY DEF TransferInv, TellInv, TellsTrue
  <2> QED
    BY <2>1 DEF ToldInOrder, StillThere, With
<1> QED
  BY <1>1, TransferCorrect, PTL

\* No leg of a transfer goes before both ends know that the call is over, but for one that sent a
\* second REFER while its BYE was deferred.
THEOREM ByeFirstCorrect == Spec => []ByeFirst
<1>1. TransferInv => ByeFirst
  BY DEF TransferInv, LegsInv, LegsInOrder, LegInOrder, BothKnow, ByeFirst
<1> QED
  BY <1>1, TransferCorrect, PTL

\* Copies of an INVITE that take several ways find the dialog of the first, or one that has been
\* answered and acknowledged.
THEOREM MatchCorrect == Spec => []MatchInv
<1>1. Init => MatchInv
  BY InitUsages
<1>2. MatchInv /\ [Next]_vars => MatchInv'
  BY UsagesGoOn, MatchKeeps
<1> QED
  BY <1>1, <1>2, PTL DEF Spec

\* One call rings for one URI, on however many ways the INVITE comes, but for a copy that comes
\* after the ACK: for that one lines 8823 and 28463 ring again.
THEOREM MergedOnceCorrect == Spec => []MergedOnce
<1>1. MatchInv => MergedOnce
  BY MatchRings
<1> QED
  BY <1>1, MatchCorrect, PTL
=============================================================================
