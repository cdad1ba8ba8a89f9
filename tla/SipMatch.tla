------------------------------ MODULE SipMatch ------------------------------
(***************************************************************************)
(* Which dialog a message belongs to: find_call and match_req_to_dialog of *)
(* chan_sip.c, with pedantic checking, for the dialogs of one Call-ID.     *)
(*                                                                         *)
(* A proxy forks.  Our INVITE reaches several phones, each of which may    *)
(* ring and answer it; or the INVITE of a caller reaches us in several     *)
(* copies.  Messages are lost, repeated and overtake one another.          *)
(***************************************************************************)
EXTENDS Integers, Sequences, FiniteSets, FiniteSetsExt, SequencesExt

\* What one behaviour does: the phones our INVITE is forked to, over TCP or UDP, and which of
\* them send an INFO;
\* or the copies (branch, uri) of the INVITE of a caller, whether it is asked who it is and then
\* uses another tag; and a bound on the messages that are lost or repeated.
CONSTANT Castings

\* A Call-ID is made by who sends the first INVITE: it is ours, which phones answer, or a caller's,
\* which comes in copies.
ASSUME MatchAssumption == \A k \in Castings : k.phones = {} \/ k.copies = {}

VARIABLES
  cast,     \* one of Castings
  pvts,     \* the dialogs, in the order of their creation
  phone,    \* the phones
  round,    \* how often the caller has sent its INVITE
  air,      \* the messages on their way
  faults

matchVars == <<cast, pvts, phone, round, air, faults>>

\* Tags: "us", the number of a phone, "caller" and "caller2"; NoTag.
NoTag == "none"

\* A dialog.  their: theirtag; est: SIP_PAGE2_DIALOG_ESTABLISHED; method: that of the last
\* request handled in it; seq, branch, uri: those of the INVITE it started with (init_icseq,
\* initviabranch); invited: it has sent an INVITE (invite_branch), done: which was answered;
\* talk: it has a channel in a call; bye: a BYE of ours waits for its answer.
Pvt == [tag |-> "us", their |-> NoTag, est |-> FALSE, method |-> "INVITE", seq |-> 0, branch |-> NoTag,
        uri |-> NoTag, invited |-> FALSE, done |-> FALSE, talk |-> FALSE, bye |-> FALSE, need |-> FALSE,
        rings |-> FALSE, icseq |-> 0, there |-> TRUE]

Response(method, code, to) == [type |-> "response", method |-> method, code |-> code, from |-> "us", to |-> to]
Request(method, from, to)  == [type |-> "request", method |-> method, from |-> from, to |-> to, seq |-> 2,
                               branch |-> NoTag, uri |-> NoTag, auth |-> FALSE]
ToPhone(method, ph) == [type |-> "ours", method |-> method, to |-> ph]

Invite(copy, from, auth) ==
  [Request("INVITE", from, NoTag) EXCEPT !.seq = IF auth THEN 2 ELSE 1, !.branch = <<copy.branch, auth>>,
                                         !.uri = copy.uri, !.auth = auth]
-----------------------------------------------------------------------------
(* match_req_to_dialog, for a dialog of the same Call-ID.                  *)

\* A response to our INVITE from another phone than the one that has the call.
MatchResponse(d, m) ==
  IF m.from # d.tag THEN "not"
  ELSE IF d.their # NoTag /\ d.est /\ m.to # d.their
       THEN IF m.code = 200 /\ d.invited /\ m.method = "INVITE" THEN "forked" ELSE "not"
  ELSE "match"

\* A request without a To tag that has taken another way than the one of the dialog.
OtherWay(d, m) == m.to = NoTag /\ m.seq = d.seq /\ d.branch # NoTag /\ m.branch # d.branch

\* Mutant: a request is not looked for among those that took another way
MatchRequest_AnyWay(d, m) ==
  IF \/ ~m.auth /\ m.from # d.their
     \/ m.to # NoTag /\ m.to # d.tag
     \/ OtherWay(d, m)
  THEN "not" ELSE "match"
MatchRequest(d, m) ==
  IF \/ ~m.auth /\ m.from # d.their
     \/ m.to # NoTag /\ m.to # d.tag
     \/ OtherWay(d, m) /\ (d.method # m.method \/ m.uri # d.uri)
     \/ m.to = NoTag /\ m.auth /\ m.uri # d.uri
  THEN "not"
  ELSE IF OtherWay(d, m) THEN "loop" ELSE "match"

Match(d, m) == IF m.type = "response" THEN MatchResponse(d, m) ELSE MatchRequest(d, m)

\* find_call: the first dialog that ends the search, and the last one before it to fork from.
Live == {i \in DOMAIN pvts : pvts[i].there}
Ends(m)  == {i \in Live : Match(pvts[i], m) \in {"match", "loop"}}
Found(m) == IF Ends(m) = {} THEN 0 ELSE Min(Ends(m))
Forks(m) == {i \in Live : Match(pvts[i], m) = "forked"}
-----------------------------------------------------------------------------
(* What is done with it.                                                   *)

Is(m, d, out) == /\ pvts' = [pvts EXCEPT ![Found(m)] = d]
                 /\ air' = (air \ {m}) \cup out

\* A call that is over is ended again (SIP_PENDINGBYE).
Late(d) == cast.tcp /\ d.done /\ ~d.talk

\* handle_response: a first final answer to the INVITE makes the call, one that is repeated is
\* only acknowledged again, but over TCP handled again; the answer to a BYE ends the dialog.
Responded(d, m) ==
  IF m.method = "BYE" THEN [d EXCEPT !.bye = FALSE, !.need = TRUE, !.est = FALSE]
  ELSE IF d.done /\ ~cast.tcp THEN d
  ELSE IF m.code = 200
       THEN [d EXCEPT !.their = m.to, !.done = TRUE, !.est = TRUE, !.talk = @ \/ ~d.done, !.bye = @ \/ Late(d)]
  ELSE [d EXCEPT !.their = IF @ = NoTag THEN m.to ELSE @]

\* forked_invite_init: the call of the other phone is acknowledged and ended.
\* Mutant: it is only acknowledged
Forked_NoBye(i, m) ==
  /\ pvts' = Append(pvts, [Pvt EXCEPT !.their = m.to, !.est = pvts[i].est, !.done = TRUE, !.need = TRUE])
  /\ air' = (air \ {m}) \cup {ToPhone("ACK", m.to)}
Forked(i, m) ==
  /\ pvts' = Append(pvts, [Pvt EXCEPT !.their = m.to, !.est = pvts[i].est, !.done = TRUE,
                                      !.bye = TRUE, !.need = TRUE])
  /\ air' = (air \ {m}) \cup {ToPhone("ACK", m.to), ToPhone("BYE", m.to)}

ReceiveResponse(m) ==
  /\ m.type = "response"
  /\ \/ /\ Found(m) # 0
        /\ LET d == Responded(pvts[Found(m)], m)
           IN  Is(m, d, IF m.method = "BYE" \/ m.code # 200 THEN {}
                        ELSE {ToPhone("ACK", d.their)} \cup
                             {ToPhone("BYE", ph) : ph \in IF Late(pvts[Found(m)]) THEN {d.their} ELSE {}})
     \/ /\ Found(m) = 0
        /\ \E i \in Forks(m) : i = Max(Forks(m)) /\ pvts[i].method = "INVITE" /\ Forked(i, m)
     \/ /\ Found(m) = 0 /\ \A i \in Forks(m) : i = Max(Forks(m)) => pvts[i].method # "INVITE"
        /\ pvts' = pvts /\ air' = air \ {m}
  /\ UNCHANGED <<cast, phone, round, faults>>

\* A request in a dialog: the phone ends the call or sends an INFO.  Without one: 481.
Asked(d, m) ==
  LET e == [d EXCEPT !.method = m.method]
  IN  IF m.method = "BYE" THEN [e EXCEPT !.talk = FALSE, !.est = FALSE, !.need = TRUE] ELSE e

ReceiveInDialog(m) ==
  /\ m.type = "request" /\ m.method \in {"BYE", "INFO"}
  /\ IF Found(m) # 0 THEN Is(m, Asked(pvts[Found(m)], m), {})
     ELSE pvts' = pvts /\ air' = air \ {m}
  /\ phone' = [phone EXCEPT ![m.from] = IF @ = "leaving" THEN "ended" ELSE @]
  /\ UNCHANGED <<cast, round, faults>>

\* An INVITE: repeated, it is ignored; a copy of one that is here already is refused with 482;
\* otherwise it makes a dialog.  It rings unless the caller is asked who it is (401).
Invited(d, m) ==
  IF m.seq <= d.icseq THEN d
  ELSE [d EXCEPT !.their = m.from, !.icseq = m.seq, !.method = "INVITE", !.rings = TRUE]

ReceiveInvite(m) ==
  /\ m.type = "request" /\ m.method = "INVITE"
  /\ air' = air \ {m}
  /\ \/ Found(m) # 0 /\ Match(pvts[Found(m)], m) = "match"
        /\ pvts' = [pvts EXCEPT ![Found(m)] = Invited(@, m)]
     \/ Found(m) # 0 /\ Match(pvts[Found(m)], m) = "loop" /\ UNCHANGED pvts
     \/ Found(m) = 0
        /\ pvts' = Append(pvts, [Pvt EXCEPT !.tag = <<"us", Len(pvts)>>, !.their = m.from, !.seq = m.seq,
                                            !.branch = m.branch, !.uri = m.uri, !.icseq = m.seq,
                                            !.rings = m.auth \/ ~cast.auth])
  /\ UNCHANGED <<cast, phone, round, faults>>

\* The caller acknowledges our final answer: 401, or 200.
Acknowledged(i) ==
  /\ cast.copies # {} /\ pvts[i].method = "INVITE"
  /\ pvts' = [pvts EXCEPT ![i].method = "ACK", ![i].talk = pvts[i].rings]
  /\ UNCHANGED <<cast, phone, round, air, faults>>

\* Our side ends a call: its BYE is sent until it is answered.
HangUpCall(i) ==
  /\ pvts[i].talk /\ cast.copies = {}
  /\ pvts' = [pvts EXCEPT ![i].talk = FALSE, ![i].bye = TRUE]
  /\ air' = air \cup {ToPhone("BYE", pvts[i].their)}
  /\ UNCHANGED <<cast, phone, round, faults>>

ByeAgain(i) ==
  /\ pvts[i].bye /\ ~cast.tcp /\ ToPhone("BYE", pvts[i].their) \notin air
  /\ \A m \in air : m.type = "response" => m.method # "BYE" \/ m.to # pvts[i].their
  /\ air' = air \cup {ToPhone("BYE", pvts[i].their)}
  /\ UNCHANGED <<cast, pvts, phone, round, faults>>

DestroyPvt(i) ==
  /\ pvts[i].there /\ pvts[i].need /\ ~pvts[i].bye /\ ~pvts[i].talk
  /\ pvts' = [pvts EXCEPT ![i].there = FALSE]
  /\ UNCHANGED <<cast, phone, round, air, faults>>
-----------------------------------------------------------------------------
(* The phones, the caller and the network (external).                      *)

Phone(ph, from, st, out) ==
  /\ phone[ph] \in from
  /\ phone' = [phone EXCEPT ![ph] = st]
  /\ air' = air \cup out
  /\ UNCHANGED <<cast, pvts, round, faults>>

Rings(ph)   == Phone(ph, {"called"}, "ringing", {Response("INVITE", 180, ph)})
Answers(ph) == Phone(ph, {"called", "ringing"}, "answered", {Response("INVITE", 200, ph)})
AnswersAgain(ph) ==
  /\ {Response("INVITE", 200, ph), ToPhone("ACK", ph)} \cap air = {}
  /\ Phone(ph, {"answered"}, "answered", {Response("INVITE", 200, ph)})
Informs(ph) == ph \in cast.info /\ Phone(ph, {"up"}, "up", {Request("INFO", ph, "us")})
Leaves(ph)  == Phone(ph, {"up"}, "leaving", {Request("BYE", ph, "us")})
LeavesAgain(ph) ==
  Request("BYE", ph, "us") \notin air /\ Phone(ph, {"leaving"}, "leaving", {Request("BYE", ph, "us")})

GetOurs(m) ==
  /\ m.type = "ours"
  /\ phone' = [phone EXCEPT ![m.to] = IF m.method = "BYE" THEN "ended" ELSE IF @ = "answered" THEN "up" ELSE @]
  /\ air' = (air \ {m}) \cup (IF m.method = "BYE" THEN {Response("BYE", 200, m.to)} ELSE {})
  /\ UNCHANGED <<cast, pvts, round, faults>>

\* The caller sends its INVITE, and again with its name when all copies have been heard of.
Calls ==
  /\ cast.copies # {} /\ round < (IF cast.auth THEN 2 ELSE 1)
  /\ round = 1 => air = {} /\ pvts # <<>>
  /\ round' = round + 1
  /\ air' = air \cup {Invite(c, IF round = 1 /\ cast.retags THEN "caller2" ELSE "caller", round = 1) : c \in cast.copies}
  /\ UNCHANGED <<cast, pvts, phone, faults>>

Fault ==
  /\ faults < cast.faults /\ faults' = faults + 1
  /\ \/ cast.copies = {} /\ \E m \in air : air' = air \ {m}
     \/ \E c \in cast.copies : \E auth \in BOOLEAN :
          /\ round > (IF auth THEN 1 ELSE 0)
          /\ air' = air \cup {Invite(c, IF auth /\ cast.retags THEN "caller2" ELSE "caller", auth)}
  /\ UNCHANGED <<cast, pvts, phone, round>>
-----------------------------------------------------------------------------
NoCasting == [phones |-> {}, info |-> {}, tcp |-> FALSE, copies |-> {}, auth |-> FALSE, retags |-> FALSE, faults |-> 0]

MatchInit(k) ==
  /\ cast = k
  /\ pvts = IF k.phones = {} THEN <<>> ELSE <<[Pvt EXCEPT !.invited = TRUE]>>
  /\ phone = [ph \in k.phones |-> "called"]
  /\ round = 0 /\ air = {} /\ faults = 0

Receive == \E m \in air : ReceiveResponse(m) \/ ReceiveInDialog(m) \/ ReceiveInvite(m)

MatchNext ==
  \/ Receive \/ Calls \/ Fault
  \/ \E m \in air : GetOurs(m)
  \/ \E i \in DOMAIN pvts : Acknowledged(i) \/ HangUpCall(i) \/ ByeAgain(i) \/ DestroyPvt(i)
  \/ \E ph \in DOMAIN phone :
       Rings(ph) \/ Answers(ph) \/ AnswersAgain(ph) \/ Informs(ph) \/ Leaves(ph) \/ LeavesAgain(ph)

Phones == UNION {k.phones : k \in Castings}

\* What is not lost arrives, and what is not answered is sent again.
MatchGoesOn(ph) ==
  \/ \E m \in air : m.to = ph /\ (ReceiveResponse(m) \/ GetOurs(m))
  \/ ph \in DOMAIN phone /\ AnswersAgain(ph)
  \/ \E i \in DOMAIN pvts : pvts[i].their = ph /\ ByeAgain(i)

MatchFair == \A ph \in Phones : WF_matchVars(MatchGoesOn(ph))
-----------------------------------------------------------------------------
MatchTypeOK ==
  /\ cast \in Castings \cup {NoCasting} /\ faults <= cast.faults
  /\ \A ph \in DOMAIN phone : phone[ph] \in {"called", "ringing", "answered", "up", "leaving", "ended"}

\* No phone is left with a call nobody is in: the answer of a second phone is acknowledged and its
\* call ended, whatever is lost, as long as the dialog to fork from is there and has handled no
\* other request; and a phone that was acknowledged has the call or is told that it ends.
Forkable(ph) == \E i \in Live : pvts[i].invited /\ pvts[i].est /\ pvts[i].method = "INVITE"
HasCall(ph)  == \E i \in Live : pvts[i].talk /\ pvts[i].their = ph
Waiting(ph)  == ph \in DOMAIN phone /\ phone[ph] = "answered" /\ Forkable(ph)
Stray(ph)    == ph \in DOMAIN phone /\ phone[ph] = "up" /\ ~HasCall(ph)

StrayEnds ==
  (\E ph \in Phones : Waiting(ph) \/ Stray(ph)) ~> (\A ph \in Phones : ~Waiting(ph) /\ ~Stray(ph))

\* On however many ways the INVITE of the caller comes, one call rings for one URI, unless a copy
\* comes after the call was answered and acknowledged (8823, 28463).
MergedOnce ==
  \A i, j \in DOMAIN pvts :
    i < j /\ pvts[i].rings /\ pvts[j].rings /\ pvts[i].uri = pvts[j].uri => pvts[i].method = "ACK"
=============================================================================
