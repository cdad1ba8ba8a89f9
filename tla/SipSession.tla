------------------------------ MODULE SipSession ------------------------------
(***************************************************************************)
(* An answered call in chan_sip.c and what is renegotiated in it: both     *)
(* sides send re-INVITEs, to change the media, to hold, to switch to a fax *)
(* over T.38 and back, and to refresh the session (RFC 4028).  p is the    *)
(* half of the dialog that is about the session, ua is the other side.     *)
(*                                                                         *)
(* Messages arrive once and in order: what loss and repetition do to a     *)
(* transaction is the matter of SipCall.  The numbers of our requests      *)
(* start at Ours, those of the other side at 1.                            *)
(***************************************************************************)
EXTENDS SipSdp

CONSTANTS Scenarios

Ours  == 100
Modes == {"accept", "originate", "refuse"}

\* What the application may say of T.38 (struct ast_control_t38_parameters), for this
\* side: negotiated and request with what a fax needs, and without (bad).
Requests == {"request", "negotiated", "bad", "terminate", "parms"}

\* A scenario: the media at its start; what the other side may offer (<<>>: it asks for
\* an offer), in which directions, and how it may answer (all lines, some, none); the bounds on its
\* INVITEs, on ours and on what the application says; that it may fall silent; what is
\* agreed about the session timer at the start, its mode here, and what is said of it.
ASSUME SessionAssumption ==
  \A s \in Scenarios :
    /\ s.media \subseteq Streams /\ s.dirs \subseteq {"none", "sendonly", "inactive", "null"}
    /\ s.fax \in BOOLEAN /\ s.dies \in BOOLEAN /\ s.bridged \in BOOLEAN
    /\ {s.theirs, s.ours, s.asks} \subseteq Nat /\ s.says \subseteq Requests
    /\ s.how \subseteq {"some", "none"} /\ s.mode \in Modes
    /\ s.refresher \in {"none", "us", "ua"} /\ s.timers \subseteq {"none", "us", "ua", "auto", "small"}

VARIABLES
  p,      \* the dialog
  ua,     \* the other side
  toUs,   \* the messages on their way, in order
  toUa,
  sc      \* the scenario: it does not change

vars == <<p, ua, toUs, toUa, sc>>

Msg(m, seq, code, sdp, se) == [m |-> m, seq |-> seq, code |-> code, sdp |-> sdp, se |-> se]

\* The session as the call left it: the descriptions are exchanged, and the timer runs if
\* it was agreed.
Session(s) ==
  [over |-> FALSE, soft |-> FALSE,
   fax |-> s.fax, t38 |-> "disabled", app |-> "none", asked |-> 0,
   offered |-> <<>>, joint |-> s.media, media |-> s.media, srtp |-> "none", hold |-> "none",
   novideo |-> "video" \notin s.media, notext |-> "text" \notin s.media,
   rver |-> 1, ver |-> 1, modify |-> TRUE, watched |-> TRUE,
   pending |-> 0, glare |-> 0, need |-> FALSE, outgoing |-> TRUE,
   initreq |-> Ours, seq |-> Ours, waiting |-> {}, tm |-> IF s.refresher = "none" THEN {} ELSE {"session"},
   st |-> [active |-> s.refresher # "none", ref |-> IF s.refresher = "ua" THEN "ua" ELSE "us",
           peer |-> s.refresher # "none"],
   redirected |-> FALSE, left |-> {}, refused |-> FALSE, out |-> <<>>]

Init ==
  /\ sc \in Scenarios /\ p = Session(sc)
  /\ ua = [on |-> sc.media, held |-> FALSE, ref |-> sc.refresher, sent |-> Sdp(1, <<>>, "none"),
           seq |-> 0, asked |-> 0, offer |-> "none", refused |-> FALSE, silent |-> FALSE]
  /\ toUs = <<>> /\ toUa = <<>>

Send(q, m, seq, code, sdp, se) == [q EXCEPT !.out = Append(@, Msg(m, seq, code, sdp, se))]
Started(q, t) == [q EXCEPT !.tm = @ \cup {t}]
Stopped(q, t) == [q EXCEPT !.tm = @ \ {t}]

Do(q) ==
  /\ p' = [q EXCEPT !.out = <<>>] /\ toUa' = IF ua.silent THEN <<>> ELSE toUa \o q.out
  /\ UNCHANGED <<ua, sc>>

\* A handler of something that does not come from the other side.
Local(q) == Do(q) /\ UNCHANGED toUs

Up == ~p.over
-----------------------------------------------------------------------------
(* What is sent.                                                           *)

\* reqprep: Session-Expires, and who refreshes, in an INVITE ...
AskSe(q) == IF q.st.active /\ q.st.peer THEN q.st.ref ELSE "none"

\* ... and respprep, in a response to one.

\* Mutant: the refresher is named as in a request.
TellSe_Swapped(q) ==
  IF q.st.active THEN (IF q.st.ref = "us" THEN "ua" ELSE "us") ELSE "none"

TellSe(q) == IF q.st.active THEN q.st.ref ELSE "none"

\* An INVITE of the other side that nothing will answer (history), and why.
Left(q, why) == [q EXCEPT !.left = @ \cup {why}]

\* transmit_reinvite_with_sdp: whatever is pending, our INVITE is the pending one now, and
\* p->initreq is our own.
Reinvite(q, t38, old) ==
  LET r   == [IF q.t38 = "peer" THEN Left(q, "crossed") ELSE q EXCEPT !.offered = <<>>, !.seq = @ + 1]
      s   == AddSdp(r, old, ~t38, t38)
      u   == [s.p EXCEPT !.initreq = r.seq, !.pending = r.seq, !.outgoing = TRUE,
                         !.waiting = @ \cup {r.seq}]
  IN  Send(u, "INVITE", r.seq, 0, s.sdp, AskSe(q))

\* transmit_response_with_sdp and _with_t38_sdp
AnswerAudio(q, seq, old) ==
  LET s == AddSdp(q, old, TRUE, q.t38 = "enabled")
  IN  Send(s.p, "INVITE", seq, 200, s.sdp, TellSe(q))

AnswerT38(q, seq) ==
  LET s == AddSdp(q, FALSE, FALSE, TRUE)
  IN  Send(s.p, "INVITE", seq, 200, s.sdp, TellSe(q))

\* p.refused (history): an offer was refused after it had changed the call: the fax is over here
\* all the same, or the hold.  The other side keeps to what was agreed before.
Refuse(q, seq, code) == Send(q, "INVITE", seq, code, NoSdp, "none")

\* check_pendings: a re-INVITE had to wait.
CheckPendings(q) ==
  IF q.need /\ q.pending = 0 /\ "wait" \notin q.tm
  THEN [Reinvite(q, q.t38 = "local", FALSE) EXCEPT !.need = FALSE] ELSE q

\* Another one may start, or has to wait.
ReinviteOrWait(q, t38) ==
  IF q.pending = 0 THEN Reinvite(q, t38, FALSE) ELSE [q EXCEPT !.need = TRUE]
-----------------------------------------------------------------------------
(* The application at this side (sip_indicate): interpret_t38_parameters.  *)

\* A fax is offered or accepted here.
Negotiate(q) ==
  CASE q.t38 = "peer" -> AnswerT38(Stopped(ChangeT38(q, "enabled"), "t38"), q.initreq)
    [] q.t38 \in {"disabled", "rejected", "local"} -> ReinviteOrWait(ChangeT38(q, "local"), TRUE)
    [] OTHER -> q

\* Mutant: a fax that is refused is not answered.
RefuseT38_Silent(q) == Stopped(ChangeT38(q, "rejected"), "t38")

RefuseT38(q) ==
  Refuse([Stopped(ChangeT38(q, "rejected"), "t38") EXCEPT !.refused = @ \/ "image" \in ua.on], q.initreq, 488)

Terminate(q) ==
  CASE q.t38 = "peer"    -> RefuseT38(q)
    [] q.t38 = "enabled" -> Reinvite(q, FALSE, FALSE)
    [] OTHER -> q

\* The parameters of the other side again: from now on nothing but the application ends
\* the negotiation.
AskParms(q) ==
  IF q.t38 = "peer" THEN [Left(Stopped(q, "t38"), "parms") EXCEPT !.app = "negotiate"] ELSE q

Interpret(q, say) ==
  CASE say \in {"request", "negotiated"} -> Negotiate(q)
    [] say = "bad"       -> IF q.t38 = "peer" THEN RefuseT38(q) ELSE ChangeT38(q, "rejected")
    [] say = "terminate" -> Terminate(q)
    [] say = "parms"     -> AskParms(q)

\* It asks for a fax or for its end, or answers the frame it was given.
Application ==
  /\ Up /\ sc.fax /\ p.asked < sc.asks
  /\ \E say \in sc.says :
       /\ say \in {"negotiated", "bad"} => p.app = "negotiate"
       /\ p.seq + (IF p.need THEN 1 ELSE 0) < Ours + sc.ours \/ p.t38 = "peer"
       /\ Local(Interpret([p EXCEPT !.asked = @ + 1, !.app = "none"], say))

\* sip_t38_abort
AbortT38 ==
  /\ Up /\ "t38" \in p.tm
  /\ Local(RefuseT38(p))

\* sip_set_rtp_peer: the bridge sends the media elsewhere, or takes them back.
Bridge ==
  /\ Up /\ sc.bridged /\ p.seq + (IF p.need THEN 1 ELSE 0) < Ours + sc.ours
  /\ Local(ReinviteOrWait([p EXCEPT !.redirected = ~@], FALSE))
-----------------------------------------------------------------------------
(* The timers.                                                             *)

\* restart_session_timer
RestartTimer(q) == IF q.st.active THEN Started(q, "session") ELSE q

\* proc_session_timer: this side refreshes the session, whatever else is pending, or the
\* other side did not.  (Bounds: no refresh of a channel that is being hung up, nor past
\* sc.ours while the other side answers.)

\* Mutant: if the other side did not, the timer only stops.
SessionTimer_Stops ==
  /\ Up /\ ~p.soft /\ "session" \in p.tm
  /\ IF p.st.ref = "us"
     THEN (p.seq < Ours + sc.ours \/ (ua.silent /\ p.waiting = {})) /\ Local(Reinvite(p, p.t38 = "enabled", TRUE))
     ELSE Local([Stopped(p, "session") EXCEPT !.st.active = FALSE])

SessionTimer ==
  /\ Up /\ ~p.soft /\ "session" \in p.tm
  /\ IF p.st.ref = "us"
     THEN (p.seq < Ours + sc.ours \/ (ua.silent /\ p.waiting = {})) /\ Local(Reinvite(p, p.t38 = "enabled", TRUE))
     ELSE Local([Stopped(p, "session") EXCEPT !.soft = TRUE, !.st.active = FALSE])

\* sip_reinvite_retry
RetryReinvite ==
  /\ Up /\ "wait" \in p.tm
  /\ Local(CheckPendings([Stopped(p, "wait") EXCEPT !.need = TRUE]))

\* retrans_pkt: nobody answers an INVITE.
InviteTimeout ==
  /\ Up /\ ua.silent /\ p.waiting # {}
  /\ Local([p EXCEPT !.waiting = {}, !.pending = 0, !.soft = TRUE])

\* check_rtp_timeout, in the monitor thread: who needs no watching is taken out.  Is no
\* RTP heard from a silent peer, the call is hung up.


CheckRtp ==
  /\ Up /\ p.watched
  /\ IF p.redirected \/ p.t38 = "enabled" THEN Local([p EXCEPT !.watched = FALSE])
     ELSE ua.silent /\ p.hold = "none" /\ Local([p EXCEPT !.watched = FALSE, !.soft = TRUE])

\* sip_hangup ends it all, and so does the bound here.
Hangup ==
  /\ Up /\ p.soft
  /\ Local([p EXCEPT !.over = TRUE, !.tm = {}, !.waiting = {}])
-----------------------------------------------------------------------------
(* A re-INVITE is received.                                                *)

\* handle_request_invite_st: the other side may adjust the timer.
AskedRef(q, se) == IF se \in {"us", "ua"} THEN se ELSE "us"

AdjustTimer(q, se) ==
  CASE sc.mode = "refuse" -> q
    [] se = "none" -> IF sc.mode = "originate"
                      THEN [q EXCEPT !.st.ref = IF q.st.active THEN "us" ELSE @, !.st.peer = FALSE]
                      ELSE q
    [] OTHER -> LET r == [q EXCEPT !.st.peer = TRUE]
                IN  IF r.st.active THEN [r EXCEPT !.st.ref = AskedRef(r, se)] ELSE r

\* The final response, where there is one yet: not while T.38 is asked for here.  A call
\* that has only had a bad key cannot answer.
AnswerReinvite(q, seq) ==
  CASE q.t38 = "peer"    -> Started(q, "t38")
    [] q.t38 = "enabled" -> AnswerT38(q, seq)
    [] q.t38 = "local"   -> Left(q, "local")
    [] q.srtp = "bad"    -> Refuse([q EXCEPT !.refused = TRUE], seq, 488)
    [] OTHER             -> AnswerAudio(q, seq, ~q.modify)

\* A re-INVITE without a description: everything is offered to the other side again.
Offerless(q) == [q EXCEPT !.joint = Caps, !.hold = "none"]

\* handle_request_invite


ReceiveInvite(q, e) ==
  LET r == [q EXCEPT !.pending = e.seq, !.initreq = e.seq, !.outgoing = FALSE]
      s == IF e.sdp = NoSdp THEN Accepted(Offerless(r)) ELSE ProcessSdp(r, e.sdp, "initiate")
  IN  IF q.pending # 0 /\ q.outgoing THEN Refuse([q EXCEPT !.glare = e.seq], e.seq, 491)
      ELSE IF ~s.ok THEN Refuse([s.p EXCEPT !.refused = @ \/ s.p.t38 # q.t38], e.seq, 488)
      ELSE IF e.se = "small" /\ sc.mode # "refuse" THEN Refuse(s.p, e.seq, 422)
      ELSE AnswerReinvite(RestartTimer(AdjustTimer(s.p, e.se)), e.seq)

\* An ACK may carry the answer to our offer.
ReceiveAck(q, e) ==
  IF e.seq # q.pending THEN [q EXCEPT !.glare = IF @ = e.seq THEN 0 ELSE @]
  ELSE LET r == [q EXCEPT !.pending = 0]
           s == ProcessSdp(r, e.sdp, "none")
       IN  IF e.sdp = NoSdp THEN CheckPendings(r)
           ELSE IF s.ok THEN CheckPendings(s.p) ELSE s.p
-----------------------------------------------------------------------------
(* A response to our re-INVITE: handle_response_invite.                    *)

\* Session-Expires in a 200: the timer starts anew.
AgreeTimer(q, se) ==
  CASE sc.mode = "refuse"       -> q
    [] se \in {"us", "ua"}      -> Started([q EXCEPT !.st = [active |-> TRUE, ref |-> se, peer |-> TRUE]], "session")
    [] sc.mode = "originate"    -> Started([q EXCEPT !.st = [active |-> TRUE, ref |-> "us", peer |-> FALSE]],
                                           "session")
    [] OTHER                    -> q

Acked(q, seq) == Send(q, "ACK", seq, 0, NoSdp, "none")

ReceiveResponse(q, e) ==
  LET r == [q EXCEPT !.waiting = @ \ {e.seq}, !.pending = IF @ = e.seq THEN 0 ELSE @]
      s == Acked(r, e.seq)
  IN  CASE e.code = 200 ->
             LET u == ProcessSdp(r, e.sdp, "accept")
             IN  CheckPendings(Acked(AgreeTimer(u.p, e.se), e.seq))
        [] e.code = 488 ->
             IF s.t38 = "local" THEN Reinvite(ChangeT38(s, "rejected"), FALSE, FALSE)
             ELSE [s EXCEPT !.soft = TRUE]
        [] e.code = 491 -> Started(s, "wait")

Receive ==
  /\ Up /\ toUs # <<>>
  /\ LET e == Head(toUs)
     IN  Do(CASE e.m = "ACK" -> ReceiveAck(p, e)
              [] e.m = "INVITE" /\ e.code = 0 -> ReceiveInvite(p, e)
              [] OTHER -> ReceiveResponse(p, e))
  /\ toUs' = Tail(toUs)
-----------------------------------------------------------------------------
(* The other side: it keeps to the standards, and answers at once.         *)

UaDo(u, msgs) ==
  /\ ua' = u /\ toUs' = toUs \o msgs
  /\ UNCHANGED <<p, sc>>

\* Its next description: with a new version if something changes, or was refused.
NextSdp(lines, dir) ==
  IF lines = ua.sent.lines /\ dir = ua.sent.dir /\ ~ua.refused THEN ua.sent
  ELSE Sdp(ua.sent.ver + 1, lines, dir)

\* It offers something, refreshes the session, or asks what there is (no lines).
UaInvites ==
  /\ Up /\ ~ua.silent /\ ua.asked = 0 /\ ua.seq < sc.theirs /\ UNCHANGED toUa
  /\ \E o \in sc.offers, dir \in sc.dirs, se \in sc.timers :
       LET s == IF o = <<>> THEN NoSdp ELSE NextSdp(o, dir)
           u == [ua EXCEPT !.seq = @ + 1, !.asked = ua.seq + 1,
                           !.offer = CASE o = <<>> -> "bare" [] s = ua.sent -> "same" [] OTHER -> "new"]
       IN  UaDo(IF o = <<>> THEN u ELSE [u EXCEPT !.sent = s, !.refused = FALSE],
                <<Msg("INVITE", u.seq, 0, s, se)>>)

\* It agrees to the lines it wants of those that are offered, or to none (488).
Agreed(lines, want) ==
  [i \in DOMAIN lines |-> IF lines[i].t \in want THEN lines[i] ELSE Decline(lines[i])]

Mirror(dir) == CASE dir = "recvonly" -> "sendonly" [] dir = "inactive" -> "inactive" [] OTHER -> "none"

UaAgrees(e, want, se) ==
  LET s == NextSdp(Agreed(e.sdp.lines, want), Mirror(e.sdp.dir))
  IN  UaDo([ua EXCEPT !.on = want, !.sent = s, !.refused = FALSE, !.ref = se, !.held = s.dir # "none"],
           <<Msg("INVITE", e.seq, 200, s, se)>>)

UaAnswers(e) ==
  IF ua.asked # 0 THEN UaDo(ua, <<Msg("INVITE", e.seq, 491, NoSdp, "none")>>)
  ELSE \/ \E want \in (SUBSET On(e.sdp.lines)) \ {{}} :
            \E se \in {e.se} \cup (sc.timers \cap {"ua"}) :
              (want = On(e.sdp.lines) \/ "some" \in sc.how) /\ UaAgrees(e, want, se)
       \/ "none" \in sc.how /\ UaDo(ua, <<Msg("INVITE", e.seq, 488, NoSdp, "none")>>)

\* The answer to its INVITE; when there was no description, 200 carries the offer and ACK
\* the answer.
UaHears(e) ==
  LET u == [ua EXCEPT !.asked = 0, !.offer = "none"]
      s == NextSdp(e.sdp.lines, "none")
  IN  CASE e.seq # ua.asked -> UaDo(ua, <<>>)
        [] e.seq = ua.asked /\ e.code # 200 ->
             UaDo([u EXCEPT !.refused = (ua.offer # "bare")], <<Msg("ACK", e.seq, 0, NoSdp, "none")>>)
        [] e.seq = ua.asked /\ e.code = 200 /\ ua.offer = "bare" ->
             UaDo([u EXCEPT !.on = On(s.lines), !.ref = e.se, !.sent = s, !.refused = FALSE, !.held = FALSE],
                  <<Msg("ACK", e.seq, 0, s, "none")>>)
        [] OTHER ->
             UaDo([u EXCEPT !.on = On(e.sdp.lines), !.ref = e.se, !.held = ua.sent.dir # "none"],
                  <<Msg("ACK", e.seq, 0, NoSdp, "none")>>)

UaReceives ==
  /\ Up /\ ~ua.silent /\ toUa # <<>> /\ toUa' = Tail(toUa)
  /\ LET e == Head(toUa)
     IN  CASE e.m = "ACK" -> UaDo(ua, <<>>)
           [] e.m = "INVITE" /\ e.code = 0 -> UaAnswers(e)
           [] OTHER -> UaHears(e)

\* It is gone, without a word.
UaDies ==
  /\ Up /\ sc.dies /\ ~ua.silent /\ toUa' = <<>>
  /\ UaDo([ua EXCEPT !.silent = TRUE], <<>>)
-----------------------------------------------------------------------------
Next ==
  \/ Application \/ AbortT38 \/ Bridge
  \/ SessionTimer \/ RetryReinvite \/ InviteTimeout \/ CheckRtp \/ Hangup
  \/ Receive \/ UaInvites \/ UaReceives \/ UaDies

\* The threads go on, the timers fire, and messages arrive.
Fairness ==
  /\ WF_vars(AbortT38 \/ SessionTimer \/ RetryReinvite \/ InviteTimeout \/ Hangup)
  /\ WF_toUs(Up /\ toUs # <<>> /\ toUs' = Tail(toUs))
  /\ WF_toUa(Up /\ ~ua.silent /\ toUa # <<>> /\ toUa' = Tail(toUa))

Spec == Init /\ [][Next]_vars /\ Fairness
-----------------------------------------------------------------------------
(* Properties.                                                             *)

TypeOK ==
  /\ sc \in Scenarios /\ {p.media, p.joint} \subseteq SUBSET Kinds /\ ua.on \subseteq Kinds
  /\ {p.seq, p.pending, p.glare, ua.seq, ua.asked} \subseteq Nat
  /\ p.st.ref \in {"us", "ua"} /\ p.out = <<>>

\* Nothing is on its way, and nothing is asked.
Settled ==
  /\ Up /\ ~p.soft /\ ~ua.silent /\ toUs = <<>> /\ toUa = <<>>
  /\ ua.asked = 0 /\ p.waiting = {}

\* What this side sends and expects.
Flowing == IF p.t38 = "enabled" THEN {"image"} ELSE p.media \cap p.joint

\* When a negotiation is over both sides have the same streams, know alike whether the
\* call is on hold, and agree who refreshes the session (process_sdp, change_t38_state, add_sdp).
SessionAgreed ==
  Settled /\ ~p.refused =>
             /\ Flowing = ua.on
             /\ (p.hold # "none") = ua.held
             /\ p.st.active /\ p.st.peer => ua.ref = p.st.ref

\* A re-INVITE gets a final response, whoever decides on it: an application that waits too
\* long is cut off (sip_t38_abort).
OfferAnswered ==
  ua.asked # 0 ~> ua.asked = 0 \/ ua.silent \/ p.over \/ p.left # {}

\* A call whose other side is gone ends, if it has a session timer (proc_session_timer).
SilenceEnds == ua.silent /\ p.st.active ~> p.over

=============================================================================
