------------------------------- MODULE SipCall -------------------------------
(***************************************************************************)
(* One call through chan_sip.c, placed or received: the dialog p, the      *)
(* thread of its channel, the monitor thread that reads messages and runs  *)
(* the timers, and the other side ua.                                      *)
(*                                                                         *)
(* net keeps every message ever sent: one may arrive at any time after,    *)
(* several times, in any order, or never.  So a retransmission is no step, *)
(* and a packet may run into its timeout although it was answered.         *)
(***************************************************************************)
EXTENDS SipDialog, FiniteSets

CONSTANTS Scenarios,   \* what one call may meet, see below
          MaxPackets   \* with so many packets only final responses are received

Finals == {200, 401, 404, 408, 422, 481, 486, 487, 488, 491, 503}
Faults == {"extension", "auth", "forbidden", "sdp", "exten", "st", "pbx", "channel", "loop"}

\* A scenario: who calls, how many other calls the peer has; the responses of
\* the other side to an INVITE and to a BYE; what is wrong with its request of the
\* number faulty; what may be wrong with a 200; the bounds on the numbers of the INVITEs of both sides.
ASSUME CallAssumption ==
  /\ CallLimit \in Nat /\ MaxAuthTries \in Nat /\ MaxPackets \in Nat
  /\ \A s \in Scenarios :
       /\ s.incoming \in BOOLEAN /\ s.others \in Nat
       /\ s.codes \subseteq Finals \cup {100, 180, 183} /\ s.byes \subseteq {200, 401, 481}
       /\ s.fault \in Faults \cup {"none"} /\ s.faulty \in Nat
       /\ s.hows \subseteq {"good", "media", "contact"}
       /\ s.ours \in Nat /\ s.theirs \in Nat

VARIABLES
  p,     \* the dialog
  net,   \* the messages sent so far
  ua,    \* the other side: seq, the number of its last request; up, it is in the call
  sc     \* the scenario: it does not change

vars == <<p, net, ua, sc>>

Flags  == {"outgoing", "established", "pendingbye", "needreinvite", "alreadygone", "needdestroy",
           "reinvite", "final", "inc_count", "inc_ringing", "progress", "nonce",
           "left"}
Timers == {"kill", "rekill", "init", "reinvite", "wait", "prov"}

\* A dialog as sip_alloc makes it; one that is placed has its channel from sip_new.
Alloc(s) ==
  [alive |-> IF s.incoming THEN "none" ELSE "live", incoming |-> s.incoming,
   inv |-> "none", owner |-> ~s.incoming, ch |-> IF s.incoming THEN "none" ELSE "down",
   soft |-> FALSE, answer |-> FALSE, fl |-> {}, tm |-> {}, packets |-> <<>>,
   pendinginvite |-> 0, glareinvite |-> 0, lastinvite |-> 0, initseq |-> 0,
   ocseq |-> 0, icseq |-> 0, authtries |-> 0, lastmsg |-> "none",
   inuse |-> s.others, ringing |-> 0, out |-> {}]

Init ==
  /\ sc \in Scenarios /\ p = Alloc(sc)
  /\ net = IF p.incoming THEN {Msg("us", "INVITE", 1, 0)} ELSE {}
  /\ ua = [seq |-> IF p.incoming THEN 1 ELSE 0, up |-> FALSE]

\* The other side does nothing about the rest: provisional responses, and responses to its
\* CANCEL and its BYE.
Heeded(e) == e.code = 0 \/ (e.m = "INVITE" /\ e.code >= 200)

\* A handler ends: what it sent is on its way.
Do(q) ==
  /\ p' = [q EXCEPT !.out = {}]
  /\ net' = net \cup {e \in q.out : Heeded(e)}
  /\ UNCHANGED sc

Live == p.alive = "live"
-----------------------------------------------------------------------------
(* The thread of the channel.                                              *)

\* sip_call: without media, or at the call limit, no INVITE is sent.
Call ==
  /\ Live /\ p.owner /\ p.ch = "down" /\ ~p.incoming /\ p.inv = "none" /\ ~p.soft
  /\ ~Has(p, "outgoing")
  /\ LET q == On(p, {"outgoing"})
     IN  IF LimitReached(p) THEN Do(QueueHangup(q))
         ELSE \/ Do(QueueHangup(IncRinging(q)))          \* no audio format is left
              \/ Do(Started(State(SendInvite(IncRinging(q)), "calling"), "init"))
  /\ UNCHANGED ua

\* sip_hangup: when the call is over for the dialplan, or was hung up here.
PbxHangup ==
  /\ Live /\ p.owner /\ (p.inv # "none" \/ p.soft)
  /\ Do(Hangup(p))
  /\ UNCHANGED ua

\* The frame of an answer is read: only then is the channel up.
ReadAnswer ==
  /\ Live /\ p.owner /\ p.answer
  /\ Do([p EXCEPT !.answer = FALSE, !.ch = "up"])
  /\ UNCHANGED ua

\* sip_answer
Answer ==
  /\ Live /\ p.owner /\ p.incoming /\ p.ch = "ring" /\ ~p.soft
  /\ Do(On(RespondReliably([p EXCEPT !.ch = "up"], 200, p.initseq, TRUE), {"established"}))
  /\ UNCHANGED ua

\* sip_indicate, AST_CONTROL_RINGING and _PROGRESS
Indicate(code) ==
  /\ Live /\ p.owner /\ p.incoming /\ p.ch = "ring" /\ ~p.soft
  /\ code = 183 => ~Has(p, "progress")
  /\ LET q == RespondProvisionally(State(p, "early"), code)
     IN  Do(IF code = 183 THEN On(q, {"progress"}) ELSE q)
  /\ UNCHANGED ua

\* sip_indicate, AST_CONTROL_PROCEEDING
IndicateProceeding ==
  /\ Live /\ p.owner /\ p.incoming /\ p.ch = "ring" /\ ~p.soft /\ ~Has(p, "progress")
  /\ Do(State(Respond(p, 100, "INVITE", p.initseq), "proceeding"))
  /\ UNCHANGED ua

\* sip_indicate, AST_CONTROL_BUSY, _CONGESTION and _INCOMPLETE
IndicateFailure ==
  /\ Live /\ p.owner /\ p.incoming /\ p.ch = "ring" /\ ~p.soft
  /\ Do(QueueHangup(On(State(RespondReliably(p, 486, p.initseq, TRUE), "completed"),
                       {"alreadygone"})))
  /\ UNCHANGED ua

\* A bridge lets the two phones talk directly.
DirectMedia ==
  /\ Live /\ p.owner /\ p.ch = "up" /\ ~Has(p, "alreadygone") /\ p.ocseq < sc.ours
  /\ ~Has(p, "needreinvite")
  /\ Do(SetRtpPeer(p))
  /\ UNCHANGED ua
-----------------------------------------------------------------------------
(* The timers.                                                             *)

\* retrans_pkt at its end: no answer in 64 times T1, or the packet cannot be sent.
RetransOver(q, pkt) ==
  LET r == IF pkt.fatal THEN
             IF q.owner THEN
               QueueHangup(IF pkt.code \in 200 .. 299 /\ q.pendinginvite # 0 /\ Has(q, "established")
                           THEN [State(q, "terminated") EXCEPT !.pendinginvite = 0]
                           ELSE On(q, {"alreadygone"}))
             ELSE On(q, {"needdestroy", "alreadygone"})
           ELSE IF q.pendinginvite = pkt.seq
           THEN CheckPendings([State(q, "terminated") EXCEPT !.pendinginvite = 0])
           ELSE q
  IN  CASE pkt.m = "BYE"    -> On(r, {"alreadygone", "needdestroy"})
        [] OTHER            -> r

RetransTimeout(i) ==
  /\ Live /\ i \in DOMAIN p.packets /\ p.packets[i].timer
  /\ LET r == RetransOver(p, p.packets[i])
     IN  Do([r EXCEPT !.packets = RemoveAt(@, i + Len(@) - Len(p.packets))])
  /\ UNCHANGED ua

\* auto_congest: not one response came.
AutoCongest ==
  /\ Live /\ "init" \in p.tm
  /\ LET q == Stopped(p, "init")
     IN  Do(IF q.owner THEN SchedDestroy(QueueHangup(q)) ELSE SchedDestroy(q))
  /\ UNCHANGED ua

\* __sip_autodestruct: another 10 seconds for packets and for the channel.  A run
\* put off for the channel is no longer known to the dialog: nothing stops it.

\* Mutant: a run that finds packets does not come back.
Autodestruct_Once ==
  /\ Live /\ p.tm \cap {"kill", "rekill"} # {}
  /\ IF p.packets # <<>> /\ ~Has(p, "needdestroy")
     THEN Do(LET q == Stopped(Stopped(p, "kill"), "rekill")
             IN  IF Has(p, "reinvite") \/ p.lastmsg \in {"CANCEL", "BYE"}
                 THEN On(q, {"needdestroy"}) ELSE q)
     ELSE LET q == IF p.packets # <<>> THEN PretendAck(p) ELSE p
          IN  Do(IF q.owner THEN Started(Stopped(QueueHangup(q), "kill"), "rekill")
                 ELSE Destroy(q))
  /\ UNCHANGED ua

Autodestruct ==
  /\ Live /\ p.tm \cap {"kill", "rekill"} # {}
  /\ IF p.packets # <<>> /\ ~Has(p, "needdestroy")
     THEN Do(IF Has(p, "reinvite") \/ p.lastmsg \in {"CANCEL", "BYE"}
             THEN On(p, {"needdestroy"}) ELSE p)
     ELSE LET q == IF p.packets # <<>> THEN PretendAck(p) ELSE p
          IN  Do(IF q.owner THEN Started(Stopped(QueueHangup(q), "kill"), "rekill")
                 ELSE Destroy(q))
  /\ UNCHANGED ua

\* dialog_needdestroy, in the monitor thread
NeedDestroy ==
  /\ Live /\ Has(p, "needdestroy") /\ p.packets = <<>> /\ ~p.owner
  /\ Do(Destroy(p))
  /\ UNCHANGED ua

\* reinvite_timeout
ReinviteTimeout ==
  /\ Live /\ "reinvite" \in p.tm
  /\ Do(CheckPendings(Stopped(p, "reinvite")))
  /\ UNCHANGED ua

\* sip_reinvite_retry
ReinviteRetry ==
  /\ Live /\ "wait" \in p.tm
  /\ Do(CheckPendings(Stopped(On(p, {"needreinvite"}), "wait")))
  /\ UNCHANGED ua

\* send_provisional_keepalive_full: repeat what was said, or stop.
ProvisionalKeepalive ==
  /\ Live /\ "prov" \in p.tm
  /\ Do(IF p.inv \in Open THEN Respond(p, IF p.inv = "early" THEN 183 ELSE 180, "INVITE", p.initseq)
        ELSE Stopped(p, "prov"))
  /\ UNCHANGED ua
-----------------------------------------------------------------------------
(* A response to a request of ours.                                        *)

\* History: without a channel, and with no timer that ends it.  SchedDestroy takes this back.
Left(q) ==
  IF ~q.owner /\ q.tm \cap {"kill", "rekill"} = {} THEN On(q, {"left"}) ELSE q

\* handle_response_invite, 100 to 183.  Only 183 carries media here.
Progress(q, code) ==
  LET r == IF q.inv # "cancelled" THEN CancelDestroy(q) ELSE q
      s == IF code = 183 /\ q.inv # "cancelled" THEN State(r, "early") ELSE r
      t == CheckPendings(IF code = 180 /\ s.owner /\ s.ch # "up" THEN [s EXCEPT !.ch = "ringing"]
                         ELSE s)
  IN  IF "kill" \in q.tm THEN Left(t) ELSE t

\* ... 200.  Without a channel, or with media, a contact or an interval that will
\* not do, the call ends once it is acknowledged.
Answered(q, seq, how, again) ==
  LET r == DecRinging(IF q.inv # "cancelled" THEN CancelDestroy(q) ELSE q)
      ends == \/ ~q.owner \/ how = "contact"
              \/ how = "media" /\ ~again
      s == [IF ends THEN On(r, {"pendingbye"}) ELSE r EXCEPT
              !.authtries = 0,
              !.answer = @ \/ (q.owner /\ ~again /\ how # "media"),
              !.soft   = @ \/ (q.owner /\ ~again /\ how = "media")]
  IN  CheckPendings(SendAck(On(s, {"established"}), seq))

\* ... 401 and 407: try again with credentials, so many times.
Challenged(q, seq) ==
  LET r == SendAck(q, seq)
  IN  IF r.authtries < MaxAuthTries
      THEN [SendInvite(State(r, "calling")) EXCEPT !.authtries = @ + 1]
      ELSE QueueHangup(On(r, {"needdestroy", "alreadygone"}))

\* ... 487: the INVITE was cancelled.
Terminated(q, seq) ==
  LET r == SendAck(q, seq)
  IN  SchedDestroy(CheckPendings(IF r.owner THEN QueueHangup(r) ELSE DecCall(r)))

Forgotten(q) == IF Has(q, "pendingbye") THEN Left(q) ELSE q

\* ... 491: the other side is in the middle of its own re-INVITE.
RequestPending(q, seq) ==
  LET r == SendAck(q, seq)
  IN  IF ~r.owner THEN Forgotten(r)
      ELSE IF r.ch # "up" THEN QueueHangup(r) ELSE Started(r, "wait")

\* handle_response_invite, up to its switch.
Settle(q, code, seq) ==
  LET r == Stopped(q, "init")
      s == IF code < 200 /\ r.inv = "calling" THEN State(r, "proceeding")
           ELSE IF code >= 300 /\ r.inv \in {"calling", "proceeding", "early"}
           THEN State(r, "completed") ELSE r
      t == IF code >= 200 /\ Has(s, "established") THEN Stopped(Off(s, {"reinvite"}), "reinvite")
           ELSE s
  IN  IF code >= 200 /\ seq = t.pendinginvite THEN [t EXCEPT !.pendinginvite = 0] ELSE t

InviteResponse(q, code, seq, how) ==
  LET again == Has(q, "established")
      r     == Settle(q, code, seq)
  IN  IF Has(q, "alreadygone") THEN q
      ELSE CASE code < 200         -> Progress(r, code)
             [] code = 200         -> Answered(r, seq, how, again)
             [] code = 401         -> Challenged(r, seq)
             [] code = 422         -> SendInvite(SendAck(r, seq))
             [] code = 487         -> Terminated(r, seq)
             [] code = 491         -> RequestPending(r, seq)
             [] OTHER              -> Forgotten(QueueHangup(SendAck(r, seq)))

\* handle_response, the codes without a case: what the call comes to is told to the
\* channel, if it did not get there by itself.
Failure(q, m, seq) ==
  LET r == QueueHangup(On(IF m = "INVITE" THEN SendAck(q, seq) ELSE q, {"alreadygone"}))
  IN  IF r.owner THEN r ELSE On(r, {"needdestroy"})

\* do_proxy_auth for a BYE
ByeChallenged(q) ==
  IF q.authtries < MaxAuthTries THEN [SendBye(q) EXCEPT !.authtries = @ + 1]
  ELSE On(q, {"needdestroy"})

\* handle_response of a call that was placed, or whose last INVITE was ours.
OutgoingResponse(q, m, seq, code, how) ==
  CASE code \in {486, 503}                    -> Failure(q, m, seq)
    [] code \notin {486, 503} /\ m = "INVITE" -> InviteResponse(q, code, seq, how)
    [] m = "BYE" /\ code = 200                -> Off(On(q, {"needdestroy"}), {"established"})
    [] m = "BYE" /\ code = 401                -> ByeChallenged(q)
    [] OTHER                                  -> q

\* ... of a call that was received: few codes have a case.
IncomingResponse(q, m, seq, code, how) ==
  CASE m = "INVITE" /\ code \in {200, 401, 481} -> InviteResponse(q, code, seq, how)
    [] m = "INVITE" /\ code \notin {200, 401, 481, 404, 408, 422, 486, 487, 491}
                                               -> CancelDestroy(q)
    [] m = "BYE" /\ code = 200                -> On(q, {"needdestroy"})
    [] m = "BYE" /\ code = 401                -> ByeChallenged(q)
    [] OTHER                                  -> q

\* A response must match a packet; a final one to an INVITE that does not is
\* a retransmission, and its ACK was lost.
Acknowledged(q, m, seq, code) ==
  IF code < 200 THEN IF m = "INVITE" THEN SemiAck(q, seq, FALSE, m) ELSE q
  ELSE Ack(q, seq, FALSE, m)

Matches(q, m, seq, code) ==
  (code < 200 => m = "INVITE") /\ Matching(q, seq, FALSE, m) # {}

HandleResponse(q, m, seq, code, how) ==
  IF ~Matches(q, m, seq, code)
  THEN IF m = "INVITE" /\ code >= 200 THEN SendAck(q, seq) ELSE q
  ELSE LET r == Acknowledged(q, m, seq, code)
       IN  IF m = "BYE" /\ code = 481 THEN On(r, {"needdestroy"})
           ELSE IF Has(r, "outgoing") THEN OutgoingResponse(r, m, seq, code, how)
           ELSE IncomingResponse(r, m, seq, code, how)

\* handle_incoming: no response to a request that was not sent yet.
ReceiveResponse(e) ==
  /\ Live /\ e \in net /\ e.to = "us" /\ e.code > 0 /\ e.seq <= p.ocseq
  /\ e.code < 200 => Len(p.packets) < MaxPackets
  /\ \E how \in sc.hows : Do(HandleResponse(p, e.m, e.seq, e.code, how))
  /\ UNCHANGED ua
-----------------------------------------------------------------------------
(* A request of the other side.                                            *)

\* handle_request_invite: an INVITE that gets its final response at once.
Refuse(q, code, seq) == SchedDestroy(State(RespondReliably(q, code, seq, TRUE), "completed"))

\* sip_new, as far as the dialog knows its channel.
NewChannel(q, state) == [q EXCEPT !.owner = TRUE, !.ch = state]

\* ... with the channel: the dialplan starts.
StartCall(q, seq, fault) ==
  LET r == State(RespondProvisionally(NewChannel(q, "ring"), 100), "proceeding")
  IN  IF fault = "pbx"
      THEN Hangup(RespondReliably(State(On(r, {"alreadygone"}), "completed"), 503, seq, TRUE))
      ELSE r

\* ... the first one of a dialog, up to sip_new; without a channel there is no call.
NewCall(q, seq, fault) ==
  LET r == IncCall(q)
      t == [r EXCEPT !.lastinvite = seq]
  IN  CASE fault = "auth"      -> SchedDestroy(State(On(RespondReliably(q, 401, seq, FALSE),
                                                          {"nonce"}), "completed"))
        [] fault = "forbidden" -> Refuse(q, 403, seq)
        [] fault = "sdp"       -> Refuse(q, 488, seq)
        [] fault \notin {"auth", "forbidden", "sdp"} /\ LimitReached(q) -> Refuse(q, 480, seq)
        [] fault = "exten" /\ ~LimitReached(q)   -> DecCall(Refuse(r, 404, seq))
        [] fault = "st" /\ ~LimitReached(q)      ->
             SchedDestroy(State(Respond(r, 422, "INVITE", seq), "completed"))
        [] fault = "channel" /\ ~LimitReached(q) ->
             IF "kill" \in t.tm THEN t ELSE Refuse(t, 503, seq)
        [] OTHER -> StartCall(t, seq, fault)

\* ... another one, or a retransmission (ign), of a call with a channel: answered as
\* far as the call is.
InviteAgain(q, seq, ign) ==
  LET answered == q.ch = "up" \/ (~ign /\ q.inv \in {"terminated", "confirmed"})
      r == On(Respond(q, 100, "INVITE", seq), {"established"})
  IN  IF answered
      THEN State(IF ign THEN Respond(r, 200, "INVITE", seq)
                 ELSE RespondReliably(r, 200, seq, FALSE), "terminated")
      ELSE State(RespondProvisionally(q, IF q.ch = "ringing" THEN 180 ELSE 100), "proceeding")

\* ... that is not a first one.
SameCall(q, seq, ign, fault) ==
  IF fault = "st" THEN
    LET r == State(Respond(q, 422, "INVITE", seq), "completed")
    IN  IF r.lastinvite = 0 THEN SchedDestroy(r) ELSE r
  ELSE LET r == IF ign THEN q ELSE [q EXCEPT !.lastinvite = seq]
       IN  IF r.owner THEN InviteAgain(r, seq, ign)
           ELSE IF ~ign /\ "kill" \notin r.tm THEN Refuse(r, 503, seq) ELSE r

\* ... once it is the INVITE the dialog is about.
AcceptInvite(q, seq, ign, fault) ==
  LET r == IF ign THEN q ELSE [CancelDestroy(q) EXCEPT !.pendinginvite = seq, !.initseq = seq]
      t == IF ~ign /\ r.owner THEN Off(r, {"outgoing"}) ELSE r
  IN  IF ~ign /\ r.owner /\ fault = "sdp"
      THEN LET u == RespondReliably(t, 488, seq, TRUE)
           IN  IF u.lastinvite = 0 THEN SchedDestroy(u) ELSE u
      ELSE IF ~ign /\ ~r.owner /\ r.lastinvite = 0 THEN NewCall(r, seq, fault)
      ELSE SameCall(t, seq, ign, fault)

\* ... while another INVITE is pending: it is over if the ACK is all it waits for, and
\* else the new one has to wait.
Glare(q, seq) == [RespondReliably(q, 491, seq, TRUE) EXCEPT !.glareinvite = seq]

LacksAck(q) == ~Has(q, "outgoing") /\ q.inv \in {"completed", "terminated"}

\* Our own INVITE comes back to us before it is answered, with the same address or with
\* another one.
Loops(q) == Has(q, "outgoing") /\ q.owner /\ q.inv \notin {"terminated", "confirmed"} /\ q.ch # "up"

RequestInvite(q, seq, ign, fault) ==
  IF fault = "extension" THEN
    LET r == State(Respond(q, 420, "INVITE", seq), "completed")
    IN  {IF r.lastinvite = 0 THEN SchedDestroy(r) ELSE r}
  ELSE IF Loops(q) THEN
    {SchedDestroy(State(Respond(q, 482, "INVITE", seq), "completed")),
     QueueHangup(Respond(q, 100, "INVITE", seq))}
  ELSE IF ~ign /\ q.pendinginvite # 0 THEN
    {IF LacksAck(q) THEN AcceptInvite(Ack(q, q.pendinginvite, TRUE, "INVITE"), seq, ign, fault)
     ELSE Glare(q, seq)}
  ELSE {AcceptInvite(q, seq, ign, fault)}

\* handle_request_cancel: too late for a call that is up.
RequestCancel(q, seq) ==
  LET r == On(q, {"alreadygone"})
      s == IF r.inv \in {"terminated", "completed"} THEN PretendAck(r) ELSE r
      t == DecCall(IF s.inv = "terminated" THEN s ELSE State(s, "cancelled"))
      u == IF t.owner THEN QueueHangup(t) ELSE SchedDestroy(t)
      old == {i \in DOMAIN u.packets : u.packets[i].seq = u.lastinvite /\ u.packets[i].code = 487}
      v == IF old = {} THEN u ELSE [u EXCEPT !.packets = RemoveAt(@, FirstOf(old))]
  IN  IF q.owner /\ q.ch = "up" THEN Respond(r, 200, "CANCEL", seq)
      ELSE Respond(RespondReliably(v, 487, v.initseq, TRUE), 200, "CANCEL", seq)

\* handle_request_bye: whatever was going on is over.
RequestBye(q, seq, ign) ==
  LET r == IF q.pendinginvite # 0 /\ ~Has(q, "outgoing") /\ ~ign
           THEN RespondReliably(q, 487, q.initseq, TRUE) ELSE q
      s == QueueHangup(On(State(PretendAck(r), "terminated"), {"alreadygone"}))
  IN  Stopped(Respond(Off(SchedDestroyFinal(s), {"established"}), 200, "BYE", seq), "wait")

\* The ACK of a response to an INVITE; its media may be refused.
RequestAck(q, seq, fault) ==
  LET r == IF seq = q.pendinginvite
           THEN Ack([State(q, "terminated") EXCEPT !.pendinginvite = 0], seq, TRUE, "ACK")
           ELSE IF seq = q.glareinvite THEN Ack([q EXCEPT !.glareinvite = 0], seq, TRUE, "ACK")
           ELSE q
  IN  IF seq = q.pendinginvite /\ q.owner /\ fault = "sdp" THEN r
      ELSE LET s == IF seq = q.pendinginvite THEN CheckPendings(r) ELSE r
           IN  IF s.lastinvite = 0 /\ ~Has(s, "nonce") THEN On(s, {"needdestroy"}) ELSE s

\* handle_incoming: a request is late, or repeated, or the next one.
Late(q, m, seq)   == q.icseq > seq /\ ~(seq = q.pendinginvite /\ m \in {"ACK", "CANCEL"})
Ignored(q, m, seq) == /\ q.icseq # 0 /\ q.icseq = seq /\ m # "ACK"
                      /\ m # "CANCEL" \/ Has(q, "alreadygone")

HandleRequest(q, m, seq, fault) ==
  IF Late(q, m, seq) THEN {IF m = "ACK" THEN q ELSE Respond(q, 500, m, seq)}
  ELSE IF m = "CANCEL" /\ q.pendinginvite = 0 THEN {Respond(q, 481, m, seq)}
  ELSE LET r == [q EXCEPT !.icseq = IF seq > @ THEN seq ELSE @, !.lastmsg = m]
           ign == Ignored(q, m, seq)
       IN  CASE m = "INVITE" -> RequestInvite(r, seq, ign, fault)
             [] m = "CANCEL" -> {RequestCancel(r, seq)}
             [] m = "BYE"    -> {RequestBye(r, seq, ign)}
             [] m = "ACK"    -> {RequestAck(r, seq, fault)}

\* The first INVITE makes the dialog (find_call).
ReceiveRequest(e) ==
  /\ p.alive # "gone" /\ e \in net /\ e.to = "us" /\ e.code = 0
  /\ Live \/ e.m = "INVITE"
  /\ Len(p.packets) < MaxPackets
  /\ LET fault == IF e.seq = sc.faulty THEN sc.fault ELSE "none"
     IN  \E q \in HandleRequest([p EXCEPT !.alive = "live"], e.m, e.seq, fault) : Do(q)
  /\ UNCHANGED ua
-----------------------------------------------------------------------------
(* The other side: it answers what it got, acknowledges what it was        *)
(* answered, and may cancel, re-INVITE and hang up.                        *)

Sent(m, seq)     == Msg("ua", m, seq, 0) \in net
Answers(m, seq)  == {e \in net : e.to = "us" /\ e.m = m /\ e.seq = seq /\ e.code > 0}
Final(S)         == {e \in S : e.code >= 200}
Replies(seq)     == {e \in net : e.to = "ua" /\ e.m = "INVITE" /\ e.seq = seq /\ e.code > 0}

UaSays(m, seq, code, up) ==
  /\ net' = net \cup {Msg("us", m, seq, code)}
  /\ ua' = [seq |-> IF code = 0 /\ seq > ua.seq THEN seq ELSE ua.seq, up |-> up]
  /\ UNCHANGED <<p, sc>>

UaRespond(seq, code) ==
  /\ Sent("INVITE", seq) /\ Final(Answers("INVITE", seq)) = {}
  /\ code = 487 => Sent("CANCEL", seq)
  /\ code \in {401, 422, 491} => seq < sc.ours
  /\ UaSays("INVITE", seq, code, ua.up \/ code = 200)

UaRespondOther(m, seq, code) ==
  /\ Sent(m, seq) /\ Answers(m, seq) = {}
  /\ UaSays(m, seq, code, ua.up /\ (m = "BYE" => code = 401))

UaAck(seq) ==
  /\ Final(Replies(seq)) # {} /\ Msg("us", "ACK", seq, 0) \notin net
  /\ UaSays("ACK", seq, 0, ua.up \/ \E e \in Replies(seq) : e.code = 200)

UaCancel(seq) ==
  /\ p.incoming /\ ~ua.up /\ Msg("us", "ACK", seq, 0) \notin net
  /\ Msg("us", "CANCEL", seq, 0) \notin net
  /\ UaSays("CANCEL", seq, 0, FALSE)

\* Nothing of its own in a dialog before the ACK of its last answer.
Settled == \A e \in net : (e.to = "us" /\ e.m = "INVITE" /\ e.code >= 200)
                            => Msg("ua", "ACK", e.seq, 0) \in net

\* A re-INVITE, an INVITE with credentials, or our own INVITE that a proxy sends back.
UaInvite ==
  /\ ua.seq < sc.theirs
  /\ ua.seq = 0 \/ Msg("us", "ACK", ua.seq, 0) \in net
  /\ \/ ua.up /\ Settled
     \/ Msg("ua", "INVITE", ua.seq, 401) \in net
     \/ sc.fault = "loop" /\ Sent("INVITE", 1)
  /\ UaSays("INVITE", ua.seq + 1, 0, ua.up)

UaBye ==
  /\ ua.up /\ Settled
  /\ UaSays("BYE", ua.seq + 1, 0, FALSE)
-----------------------------------------------------------------------------
Channel == \/ Call \/ PbxHangup \/ ReadAnswer \/ Answer \/ IndicateProceeding
           \/ IndicateFailure \/ DirectMedia
           \/ \E code \in {180, 183} : Indicate(code)

Timer == \/ \E i \in DOMAIN p.packets : RetransTimeout(i)
         \/ AutoCongest \/ Autodestruct \/ NeedDestroy \/ ReinviteTimeout \/ ReinviteRetry
         \/ ProvisionalKeepalive

Receive == \E e \in net : ReceiveResponse(e) \/ ReceiveRequest(e)

Ua == \/ \E seq \in 1 .. p.ocseq, code \in sc.codes : UaRespond(seq, code)
      \/ \E m \in {"BYE", "CANCEL"}, seq \in 1 .. p.ocseq, code \in sc.byes :
           (m = "CANCEL" => code = 200) /\ UaRespondOther(m, seq, code)
      \/ \E seq \in 1 .. ua.seq : UaAck(seq) \/ UaCancel(seq)
      \/ UaInvite \/ UaBye

Next == Channel \/ Timer \/ Receive \/ (p.alive # "gone" /\ Ua)

\* The scheduler and the monitor thread go on, a channel that was told to hang up does,
\* and the other side ends its transactions and is heard while we wait for that.
Fairness ==
  /\ WF_vars(\E i \in DOMAIN p.packets : RetransTimeout(i))
  /\ WF_vars(AutoCongest \/ Autodestruct \/ NeedDestroy \/ ReinviteTimeout \/ ReinviteRetry)
  /\ WF_vars(p.soft /\ PbxHangup)
  /\ WF_vars(\E e \in net : /\ e.code >= 200 /\ Matches(p, e.m, e.seq, e.code)
                        /\ ReceiveResponse(e))
  /\ WF_vars(\E seq \in 1 .. p.ocseq :
               \/ \E code \in sc.codes \cap Finals : UaRespond(seq, code)
               \/ \E m \in {"BYE", "CANCEL"} : UaRespondOther(m, seq, 200))

Spec == Init /\ [][Next]_vars /\ Fairness
-----------------------------------------------------------------------------
TypeOK ==
  /\ p.alive \in {"none", "live", "gone"} /\ p.inv \in Open \cup Ended
  /\ p.owner \in BOOLEAN /\ p.soft \in BOOLEAN /\ p.answer \in BOOLEAN
  /\ p.ch \in {"none", "down", "ring", "ringing", "up"}
  /\ p.fl \subseteq Flags /\ p.tm \subseteq Timers
  /\ {p.pendinginvite, p.glareinvite, p.lastinvite, p.initseq, p.ocseq, p.icseq} \subseteq Nat

\* The calls of the peer are counted for as long as they last, and no longer.
Counted ==
  /\ p.inuse = sc.others + (IF Has(p, "inc_count") THEN 1 ELSE 0)
  /\ p.alive = "gone" => p.inuse = sc.others /\ p.ringing = 0

\* Until an INVITE is answered with 200, a CANCEL follows a provisional response to the INVITE
\* it is about: the other side has heard of what is cancelled.  (When our own INVITE comes back
\* to us, its retransmission passes for that.  In an answered call the state of the INVITE may
\* be the one the other side's INVITE left.)
CancelAfterProgress ==
  sc.fault = "loop" \/ (\E r \in net : r.m = "INVITE" /\ r.code = 200) \/
  \A e \in net : e.to = "ua" /\ e.m = "CANCEL" /\ e.code = 0 =>
    \E r \in net : r.to = "us" /\ r.m = "INVITE" /\ r.seq = e.seq /\ r.code \in 100 .. 199

\* No BYE while an INVITE is pending, unless it is a re-INVITE that has its timeout behind it,
\* or the other side wanted credentials for a BYE.
ByeWaits ==
  [][\A e \in net' \ net : e.to = "ua" /\ e.m = "BYE" /\ e.code = 0 =>
       \/ p'.pendinginvite = 0 \/ Has(p, "reinvite")
       \/ \E r \in net : r.to = "us" /\ r.m = "BYE" /\ r.code = 401]_vars

\* A dialog without a channel comes to an end.  Excluded is one without a channel that some
\* handler leaves with no timer that ends it, until a later one starts such a timer: when a
\* re-INVITE fails behind which a BYE waits (23182-23210, and 491), and when a provisional
\* response stops that timer and there is nothing to be sent.
DialogEnds == (Live /\ ~p.owner) ~> (p.alive = "gone" \/ p.owner \/ Has(p, "left"))
=============================================================================
