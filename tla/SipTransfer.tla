----------------------------- MODULE SipTransfer -----------------------------
(***************************************************************************)
(* A phone transfers a call: REFER, blind, attended or to a parking place, *)
(* and a call taken over by an INVITE with Replaces, in chan_sip.c.        *)
(*                                                                         *)
(* The phone has the calls A, bridged to the party X or in the dialplan,   *)
(* and B, bridged to Y, ringing at Y or in the dialplan; another phone may *)
(* take B over with its call C.  Packets and timers are handled by the     *)
(* monitor thread, which holds no lock while a blind transfer is carried   *)
(* out; the threads of the calls hang up; parking has a thread of its own. *)
(***************************************************************************)
EXTENDS Integers, Sequences, SequencesExt

\* What one behaviour does: who is there at first, what the phone asks for, whether the target
\* is looked for here only (localtransfer), how many REFERs there are and how many of them are
\* repeated, and whether something fails.
CONSTANT Transfers

VARIABLES
  plan,     \* one of Transfers
  leg,      \* the dialogs A, B and C with their channels
  party,    \* where X and Y are
  work,     \* the REFER in the monitor's hands while it holds no lock
  park,     \* the parking thread
  refer,    \* the REFERs, by number: what the phone was told
  took      \* C has been tried

transferVars == <<plan, leg, party, work, park, refer, took>>

Legs == {"A", "B", "C"}

\* A dialog: there until it is destroyed; chan: it has a channel (owner); refer: p->refer;
\* pending: SIP_GOTREFER; defer: SIP_DEFER_BYE_ON_TRANSFER; gone: alreadygone; timer: autokillid;
\* bye: ours waits for its answer; byed: one was sent or received; refused: a REFER that came
\* after the channel had gone destroys it.
Leg(there) ==
  [there |-> there, chan |-> there, refer |-> FALSE, pending |-> FALSE, defer |-> FALSE, gone |-> FALSE,
   timer |-> FALSE, need |-> FALSE, bye |-> FALSE, byed |-> FALSE, refused |-> FALSE]

\* A party is with a leg, with the other party, on its way in the dialplan, parked or gone.
With(x, d) == party[x] = d
Partners(d) == {x \in {"X", "Y"} : party[x] = d}

Idle == [n |-> 0, kind |-> "none", step |-> "none", ok |-> FALSE]

\* A REFER: blind to an extension, to one that is not there or to a parking place, or attended:
\* it replaces B, a call that is not here, or one of another host.
Kinds == {"malformed", "nowhere", "blind", "parking", "attended", "unknown", "remote"}
Attended == {"attended", "unknown", "remote"}

\* The first answer; had: X was with A then.
Told(n, code) ==
  IF refer[n].code # 0 THEN refer ELSE [refer EXCEPT ![n].code = code, ![n].had = With("X", "A")]
\* transmit_notify_with_sipfrag, the last one of REFER n.
Final(r, n, code) == [r EXCEPT ![n].final = code]
Agreed(n) == Told(n, 202)
-----------------------------------------------------------------------------
(* The end of a leg.  Every operator takes the legs and returns them.      *)

\* sip_hangup.  With the flag set it waits for the BYE of the phone, or sends one later.
\* Mutant: nothing waits.
HangUp_NoTimer(l, d) ==
  IF l[d].defer THEN [l EXCEPT ![d].defer = FALSE, ![d].chan = FALSE]
  ELSE [l EXCEPT ![d].chan = FALSE, ![d].bye = @ \/ ~l[d].gone, ![d].byed = TRUE,
                 ![d].need = @ \/ l[d].gone]
HangUp(l, d) ==
  IF l[d].defer THEN [l EXCEPT ![d].defer = FALSE, ![d].chan = FALSE, ![d].timer = TRUE]
  ELSE [l EXCEPT ![d].chan = FALSE, ![d].bye = @ \/ ~l[d].gone, ![d].byed = TRUE,
                 ![d].need = @ \/ l[d].gone]

\* The thread of a call hangs up, when a party has, the phone has, or the dialplan ends.
Alone(d) == leg[d].chan /\ Partners(d) = {}

EndCall(d) ==
  /\ leg[d].chan
  /\ leg' = HangUp(leg, d)
  /\ party' = [x \in DOMAIN party |-> IF With(x, d) THEN "gone" ELSE party[x]]
  /\ UNCHANGED <<plan, work, park, refer, took>>

PartyEnds(x) ==
  /\ plan.hangups /\ party[x] \notin {"none", "gone"}
  /\ party' = [y \in DOMAIN party |-> IF y = x \/ party[y] = x THEN "gone" ELSE party[y]]
  /\ UNCHANGED <<plan, leg, work, park, refer, took>>

\* handle_request_bye: the channel is told to hang up, and the dialog is given some time.
ReceiveBye(d) ==
  /\ work = Idle /\ leg[d].there /\ ~leg[d].gone
  /\ leg' = [leg EXCEPT ![d].gone = TRUE, ![d].byed = TRUE, ![d].timer = TRUE]
  /\ party' = [x \in DOMAIN party |-> IF With(x, d) THEN "gone" ELSE party[x]]
  /\ UNCHANGED <<plan, work, park, refer, took>>

\* __sip_autodestruct
\* Mutant: the dialog of a transfer goes like any other.
Autodestruct_Silent(d) ==
  /\ work = Idle /\ leg[d].there /\ leg[d].timer /\ ~leg[d].chan
  /\ leg' = [leg EXCEPT ![d].there = FALSE]
  /\ UNCHANGED <<plan, party, work, park, refer, took>>
Autodestruct(d) ==
  /\ work = Idle /\ leg[d].there /\ leg[d].timer /\ ~leg[d].chan
  /\ leg' = IF leg[d].refer /\ ~leg[d].gone
            THEN [leg EXCEPT ![d].bye = TRUE, ![d].byed = TRUE]
            ELSE [leg EXCEPT ![d].there = FALSE]
  /\ UNCHANGED <<plan, party, work, park, refer, took>>

\* Our BYE is answered, or given up (retrans_pkt).
ByeAnswered(d) ==
  /\ work = Idle /\ leg[d].bye
  /\ leg' = [leg EXCEPT ![d].bye = FALSE, ![d].need = TRUE, ![d].gone = TRUE]
  /\ UNCHANGED <<plan, party, work, park, refer, took>>

DestroyLeg(d) ==
  /\ work = Idle /\ leg[d].there /\ leg[d].need /\ ~leg[d].chan /\ ~leg[d].bye
  /\ leg' = [leg EXCEPT ![d].there = FALSE]
  /\ UNCHANGED <<plan, party, work, park, refer, took>>
-----------------------------------------------------------------------------
(* handle_request_refer, with the locks of A and of its channel held.      *)

Answer(n, code) == refer' = Told(n, code)

\* get_sip_pvt_byid_locked: the call that is to be replaced is known here.
Here == leg["B"].there

\* No channel, a transfer that is not allowed, or one that is still under way.
Refused(n, kind, again) ==
  \/ /\ ~leg["A"].chan
     /\ Answer(n, 603)
     /\ leg' = IF again THEN leg ELSE [leg EXCEPT !["A"].gone = TRUE, !["A"].need = TRUE, !["A"].refused = TRUE]
  \/ /\ leg["A"].chan /\ ~plan.allowed
     /\ Answer(n, 603) /\ UNCHANGED leg
  \/ /\ leg["A"].chan /\ plan.allowed /\ ~again /\ leg["A"].pending
     /\ Answer(n, 491) /\ UNCHANGED leg

Heard(again) == leg["A"].chan /\ plan.allowed /\ (again \/ ~leg["A"].pending)

\* get_refer_info: there is nowhere to go.  The answer says it is accepted all the same.
Unusable(n, kind) ==
  \/ /\ kind = "malformed"
     /\ Answer(n, 400) /\ leg' = [leg EXCEPT !["A"].refer = TRUE]
  \/ /\ kind = "nowhere"
     /\ refer' = Final(Agreed(n), n, 404)
     /\ leg' = [leg EXCEPT !["A"].refer = TRUE, !["A"].pending = FALSE]

\* A repeated one is not even answered; a blind one needs somebody to transfer.
Dropped(n, kind, again) ==
  /\ leg' = [leg EXCEPT !["A"].refer = TRUE]
  /\ IF again THEN UNCHANGED refer
     ELSE ~With("X", "A") /\ kind \notin Attended /\ Answer(n, 603)

\* local_attended_transfer, when the call that is to be replaced is not there, or has no channel.
NotFound(n, kind) ==
  /\ \/ kind = "unknown" /\ plan.local /\ refer' = Final(Agreed(n), n, 481)
     \/ kind = "attended" /\ Here /\ ~leg["B"].chan /\ refer' = Final(Agreed(n), n, 503)
     \/ kind = "attended" /\ ~Here /\ plan.local /\ refer' = Final(Agreed(n), n, 481)
  /\ leg' = [leg EXCEPT !["A"].refer = TRUE, !["A"].pending = FALSE]
  /\ UNCHANGED party

\* attempt_transfer.  X goes where B was, or Y goes where A was; the call that is replaced hangs
\* up, and the other one when it finds itself alone.
Joined ==
  IF With("X", "A")
  THEN /\ party' = [party EXCEPT !["X"] = IF With("Y", "B") THEN "Y" ELSE "dialplan",
                                 !["Y"] = IF With("Y", "B") THEN "X" ELSE @]
       /\ leg' = HangUp([leg EXCEPT !["A"] = [@ EXCEPT !.refer = TRUE, !.pending = TRUE, !.defer = TRUE]], "B")
  ELSE /\ party' = [party EXCEPT !["Y"] = "dialplan"]
       /\ leg' = HangUp([leg EXCEPT !["A"] = [@ EXCEPT !.refer = TRUE, !.pending = TRUE, !.defer = TRUE]], "A")

\* The masquerade may fail, and two calls without a party both end.  The flag of the pending
\* REFER stays.
NotJoined ==
  /\ leg' = [leg EXCEPT !["A"] = [@ EXCEPT !.refer = TRUE, !.pending = TRUE, !.defer = FALSE]]
  /\ party' = party

\* The phone is told of the success before the locks are let go and the masquerade is done: whoever
\* hangs up in between makes the core do the masquerade first, so the two are one step here.
\* Mutant: the result of attempt_transfer is not looked at.
AttendedTransfer_Blind(n) ==
  /\ Here /\ leg["B"].chan
  /\ refer' = Final(Agreed(n), n, 200)
  /\ \/ Partners("A") \cup Partners("B") # {} /\ Joined
     \/ (plan.fails \/ Partners("A") \cup Partners("B") = {}) /\ NotJoined
AttendedTransfer(n) ==
  /\ Here /\ leg["B"].chan
  /\ \/ /\ Partners("A") \cup Partners("B") # {} /\ Joined
        /\ refer' = Final(Agreed(n), n, 200)
     \/ /\ plan.fails \/ Partners("A") \cup Partners("B") = {}
        /\ NotJoined
        /\ refer' = Final(Agreed(n), n, 486)

\* Otherwise the REFER is accepted and the locks are let go.
GoesElsewhere(kind) ==
  \/ kind \in {"blind", "parking"} /\ With("X", "A")
  \/ kind = "remote"
  \/ kind = "unknown" /\ ~plan.local
  \/ kind = "attended" /\ ~Here /\ ~plan.local

Started(n, kind) ==
  /\ leg' = [leg EXCEPT !["A"].refer = TRUE, !["A"].pending = TRUE]
  /\ refer' = Agreed(n)
  /\ work' = [n |-> n, kind |-> kind, step |-> "open", ok |-> With("X", "A")]

ReceiveRefer(n, kind, again) ==
  /\ work = Idle /\ leg["A"].there /\ ~leg["A"].gone
  /\ UNCHANGED <<plan, park, took>>
  /\ \/ Refused(n, kind, again) /\ UNCHANGED <<party, work>>
     \/ /\ Heard(again) /\ kind \in {"malformed", "nowhere"}
        /\ Unusable(n, kind) /\ UNCHANGED <<party, work>>
     \/ /\ Heard(again) /\ kind \notin {"malformed", "nowhere"}
        /\ Dropped(n, kind, again) /\ UNCHANGED <<party, work>>
     \/ /\ Heard(again) /\ ~again
        /\ \/ NotFound(n, kind) /\ UNCHANGED work
           \/ kind = "attended" /\ AttendedTransfer(n) /\ UNCHANGED work
           \/ GoesElsewhere(kind) /\ Started(n, kind) /\ UNCHANGED party
-----------------------------------------------------------------------------
(* The rest of handle_request_refer, without a lock: the thread of the call, *)
(* and X, may hang up at any point.                                        *)

A(f, v) == leg' = [leg EXCEPT !["A"] = [@ EXCEPT ![f] = v]]
Finish(code) == refer' = Final(refer, work.n, code) /\ work' = Idle

\* ast_parking_ext_valid
ToParking == work.kind = "parking" /\ plan.local

\* sip_park: X and the channel of A each go into a new channel, and a thread is started.  What
\* has gone there is hung up when a later step fails.
Parked ==
  /\ work.step = "open" /\ ToParking
  /\ \/ /\ A("pending", FALSE)
        /\ party' = [party EXCEPT !["X"] = IF With("X", "A") THEN "parked" ELSE @]
        /\ park' = work.n /\ work' = Idle /\ UNCHANGED refer
     \/ /\ plan.fails /\ A("pending", FALSE)
        /\ party' = party /\ park' = park /\ Finish(500)
     \/ /\ plan.fails
        /\ leg' = HangUp([leg EXCEPT !["A"].pending = FALSE], "A")
        /\ party' = [party EXCEPT !["X"] = "gone"] /\ park' = park /\ Finish(500)
  /\ UNCHANGED <<plan, took>>

\* sip_park_thread, after ast_park_call_exten: A may wait for its BYE.
ParkThread ==
  /\ park # 0 /\ park' = 0
  /\ \/ /\ refer' = Final(refer, park, 200) /\ party' = party
     \/ /\ plan.fails /\ refer' = Final(refer, park, 503)
        /\ party' = [party EXCEPT !["X"] = "gone"]
  /\ leg' = IF leg["A"].chan THEN HangUp([leg EXCEPT !["A"].defer = TRUE], "A")
            ELSE [leg EXCEPT !["A"].defer = TRUE]
  /\ UNCHANGED <<plan, work, took>>

\* Mutant: the phone is not told when there is nobody to move
Prepared_Silent ==
  /\ work.step = "open" /\ ~ToParking
  /\ \/ /\ ~work.ok /\ A("pending", FALSE) /\ work' = Idle /\ UNCHANGED refer
     \/ /\ work.ok /\ A("defer", TRUE)
        /\ work' = [work EXCEPT !.step = "goto"] /\ UNCHANGED refer
  /\ UNCHANGED <<plan, party, park, took>>

\* Without a party there is nothing to move; otherwise a hang-up waits from here on.
Prepared ==
  /\ work.step = "open" /\ ~ToParking
  /\ \/ /\ ~work.ok /\ A("pending", FALSE) /\ Finish(503)
     \/ /\ work.ok /\ A("defer", TRUE)
        /\ work' = [work EXCEPT !.step = "goto"] /\ UNCHANGED refer
  /\ UNCHANGED <<plan, party, park, took>>

\* ast_async_goto: X leaves for the dialplan.
Goto ==
  /\ work.step = "goto"
  /\ \/ /\ party' = [party EXCEPT !["X"] = IF With("X", "A") THEN "dialplan" ELSE @]
        /\ work' = [work EXCEPT !.step = "done", !.ok = TRUE]
     \/ /\ plan.fails \/ ~With("X", "A")
        /\ work' = [work EXCEPT !.step = "done", !.ok = FALSE] /\ UNCHANGED party
  /\ UNCHANGED <<plan, leg, park, refer, took>>

Transferred ==
  /\ work.step = "done"
  /\ leg' = [leg EXCEPT !["A"].pending = FALSE, !["A"].defer = @ /\ work.ok]
  /\ Finish(IF work.ok THEN 200 ELSE 503)
  /\ UNCHANGED <<plan, party, park, took>>
-----------------------------------------------------------------------------
(* An INVITE with Replaces, for B: handle_invite_replaces.                 *)

\* handle_request_invite, terminate_on_invalid_replaces_state: 481 without the call or its channel.
NothingToReplace == ~(Here /\ leg["B"].chan) /\ UNCHANGED <<leg, party>>

\* C takes the place of B with Y, or, when the masquerade fails, hangs up.
Replaced ==
  /\ Here /\ leg["B"].chan
  /\ \/ /\ leg' = HangUp([leg EXCEPT !["C"] = Leg(TRUE), !["B"].defer = FALSE], "B")
        /\ party' = [party EXCEPT !["Y"] = IF With("Y", "B") THEN "C" ELSE @]
     \/ /\ plan.fails
        /\ leg' = HangUp([leg EXCEPT !["C"] = Leg(TRUE), !["B"].defer = FALSE], "C")
        /\ UNCHANGED party

TakeOver ==
  /\ plan.takeover /\ ~took /\ work = Idle
  /\ took' = TRUE
  /\ NothingToReplace \/ Replaced
  /\ UNCHANGED <<plan, work, park, refer>>
-----------------------------------------------------------------------------
NoTransfer == [legs |-> {}, parties |-> {}, kinds |-> {}, local |-> TRUE, refers |-> 0, repeats |-> FALSE,
               fails |-> FALSE, hangups |-> FALSE, allowed |-> TRUE, takeover |-> FALSE]

TransferInit(t) ==
  /\ plan = t
  /\ leg = [d \in Legs |-> Leg(d \in t.legs)]
  /\ party = [x \in {"X", "Y"} |-> IF x \in t.parties THEN (IF x = "X" THEN "A" ELSE "B") ELSE "none"]
  /\ work = Idle /\ park = 0 /\ took = FALSE
  /\ refer = <<>>

\* The phone asks, once, for each of its REFERs; the last one may arrive again.
SendRefer(kind) ==
  /\ Len(refer) < plan.refers /\ leg["A"].there /\ ~leg["A"].byed
  /\ \A n \in DOMAIN refer : refer[n].code # 0
  /\ refer' = Append(refer, [kind |-> kind, code |-> 0, final |-> 0, again |-> plan.repeats, had |-> FALSE])
  /\ UNCHANGED <<plan, leg, party, work, park, took>>

Arrive ==
  /\ refer # <<>> /\ Last(refer).code = 0
  /\ ReceiveRefer(Len(refer), Last(refer).kind, FALSE)

ArriveAgain ==
  /\ refer # <<>> /\ Last(refer).code # 0 /\ Last(refer).again
  /\ ReceiveRefer(Len(refer), Last(refer).kind, TRUE)

TransferNext ==
  \/ \E kind \in plan.kinds : SendRefer(kind)
  \/ Arrive \/ ArriveAgain
  \/ Parked \/ ParkThread \/ Prepared \/ Goto \/ Transferred \/ TakeOver
  \/ \E x \in {"X", "Y"} : PartyEnds(x)
  \/ \E d \in Legs : EndCall(d) \/ ReceiveBye(d) \/ Autodestruct(d) \/ ByeAnswered(d) \/ DestroyLeg(d)

\* The monitor goes on, the thread of a call that has nobody left, or is told to, hangs up, timers
\* run out and a BYE is answered or given up.
TransferGoesOn ==
  \/ Parked \/ Prepared \/ Goto \/ Transferred \/ ParkThread
  \/ \E d \in Legs : \/ (Alone(d) \/ leg[d].gone) /\ EndCall(d)
                    \/ Autodestruct(d) \/ ByeAnswered(d) \/ DestroyLeg(d)

TransferFair == WF_transferVars(TransferGoesOn)
-----------------------------------------------------------------------------
TransferTypeOK ==
  /\ plan \in Transfers \cup {NoTransfer}
  /\ \A x \in {"X", "Y"} : party[x] \in Legs \cup {"X", "Y", "dialplan", "parked", "gone", "none"}
  /\ \A d \in Legs : leg[d].chan => leg[d].there
  /\ work # Idle => work.n \in DOMAIN refer

\* Every transfer that was accepted with 202 gets its last NOTIFY, whoever hangs up meanwhile: the
\* comment says "From here on failures will be indicated with NOTIFY requests".
Open(n) == refer[n].code = 202 /\ refer[n].final = 0

ReferTold == (\E n \in DOMAIN refer : Open(n)) ~> (\A n \in DOMAIN refer : ~Open(n))

\* The phone is told the truth: after "200 OK" X is not with it any more, and after a failure X is
\* still there unless somebody has hung up.
OutcomeTrue ==
  \A n \in DOMAIN refer :
    /\ refer[n].final = 200 => ~With("X", "A")
    /\ n = Len(refer) /\ refer[n].had /\ refer[n].final > 200 => party["X"] \in {"A", "gone"}

\* A dialog without a channel does not stay, and both ends know: it is not destroyed before a BYE
\* was sent or received, unless a second REFER came while its BYE was deferred: line 26499 then
\* destroys the dialog without one (refused).
Left(d) == leg[d].there /\ ~leg[d].chan
LegsEnd == (\E d \in Legs : Left(d)) ~> (\A d \in Legs : ~Left(d))
ByeFirst == \A d \in Legs : d \in plan.legs /\ ~leg[d].there => leg[d].byed \/ leg[d].refused
=============================================================================
