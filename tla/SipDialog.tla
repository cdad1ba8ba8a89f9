------------------------------ MODULE SipDialog ------------------------------
(***************************************************************************)
(* The dialog of one call in chan_sip.c (struct sip_pvt) and what is done  *)
(* to it by many handlers: packets that are sent until they are answered,  *)
(* the timers of the dialog, the counters of its peer, what waits for a    *)
(* pending INVITE to end.  Every operator takes the dialog p and returns   *)
(* it changed; p.out collects the messages sent meanwhile.                 *)
(*                                                                         *)
(* A handler runs under the locks of the dialog and of its channel, so one *)
(* handler is one step of SipCall.  Where sip_queue_hangup_cause gives both*)
(* up for a moment (22755), nobody else gets in.                           *)
(***************************************************************************)
EXTENDS Integers, SequencesExt

CONSTANTS CallLimit, MaxAuthTries

\* enum invitestates: those before a final response, and those after.
Open  == {"none", "calling", "proceeding", "early"}
Ended == {"completed", "confirmed", "terminated", "cancelled"}

\* A message: who gets it, the method and the number of its CSeq, the code of a
\* response or 0.
Msg(to, m, seq, code) == [to |-> to, m |-> m, seq |-> seq, code |-> code]

Has(p, f)    == f \in p.fl
On(p, fs)    == [p EXCEPT !.fl = @ \cup fs]
Off(p, fs)   == [p EXCEPT !.fl = @ \ fs]
State(p, s)  == [p EXCEPT !.inv = s]
Started(p, t) == [p EXCEPT !.tm = @ \cup {t}]
Stopped(p, t) == [p EXCEPT !.tm = @ \ {t}]
Say(p, m, seq, code) == [p EXCEPT !.out = @ \cup {Msg("ua", m, seq, code)}]
-----------------------------------------------------------------------------
(* The end of the dialog is a timer.  A final one is not moved or stopped. *)
(* "left" is history: see Left in SipCall.                                 *)

SchedDestroy(p)      == IF Has(p, "final") THEN p ELSE Off(Started(p, "kill"), {"left"})
SchedDestroyFinal(p) == IF Has(p, "final") THEN p ELSE On(SchedDestroy(p), {"final"})
CancelDestroy(p)     == IF Has(p, "final") THEN p ELSE Stopped(p, "kill")

\* A soft hangup, or a frame that says so: the thread of the channel will call
\* sip_hangup.
QueueHangup(p) == [p EXCEPT !.soft = @ \/ p.owner]
-----------------------------------------------------------------------------
(* Packets, the newest first.  Only over UDP are they kept; a packet that  *)
(* waits no longer for a timer (~timer) stays until it is acknowledged.    *)

\* __sip_reliable_xmit: an INVITE that is sent is pending from now on.  The socket takes the
\* packet: one that it refuses would be dropped without a timer (4194), the INVITE still pending.
ReliableXmit(p, seq, code, fatal, m) ==
  LET q == IF m = "INVITE" /\ code = 0 THEN [p EXCEPT !.pendinginvite = seq] ELSE p
      pkt == [m |-> m, seq |-> seq, code |-> code, fatal |-> fatal, timer |-> TRUE]
  IN  Say([q EXCEPT !.packets = <<pkt>> \o @], m, seq, code)

Matching(p, seq, resp, m) ==
  {i \in DOMAIN p.packets :
     /\ p.packets[i].seq = seq /\ (p.packets[i].code > 0) = resp
     /\ resp \/ p.packets[i].m = m}

FirstOf(S) == CHOOSE i \in S : \A j \in S : i <= j

\* __sip_ack: a request that is answered is not pending.
Ack(p, seq, resp, m) ==
  LET found == Matching(p, seq, resp, m)
  IN  IF found = {} THEN p
      ELSE [p EXCEPT !.packets = RemoveAt(@, FirstOf(found)),
                     !.pendinginvite = IF ~resp /\ seq = @ THEN 0 ELSE @]

\* __sip_pretend_ack
PretendAck(p) ==
  [p EXCEPT !.packets = <<>>,
            !.pendinginvite =
               IF \E i \in DOMAIN p.packets : p.packets[i].code = 0 /\ p.packets[i].seq = @
               THEN 0 ELSE @]

\* __sip_semi_ack: no more retransmissions, and no timeout either.
SemiAck(p, seq, resp, m) ==
  LET found == Matching(p, seq, resp, m)
  IN  IF found = {} THEN p ELSE [p EXCEPT !.packets[FirstOf(found)].timer = FALSE]

SemiAckAll(p) ==
  [p EXCEPT !.packets = [i \in DOMAIN @ |-> [@[i] EXCEPT !.timer = FALSE]]]
-----------------------------------------------------------------------------
(* Requests and responses.                                                 *)

\* reqprep: a request of its own has the next number of the dialog.
NextSeq(p, m) == [p EXCEPT !.ocseq = @ + 1, !.lastmsg = m]

\* transmit_request: an ACK confirms, whatever the state was.
SendAck(p, seq) == Say([State(p, "confirmed") EXCEPT !.lastmsg = "ACK"], "ACK", seq, 0)

\* A CANCEL has the number of the INVITE it is about.
SendCancel(p) ==
  ReliableXmit([State(p, "cancelled") EXCEPT !.lastmsg = "CANCEL"],
               p.lastinvite, 0, FALSE, "CANCEL")

\* transmit_request_with_auth(SIP_BYE)
SendBye(p) ==
  LET q == NextSeq(p, "BYE") IN ReliableXmit(q, q.ocseq, 0, FALSE, "BYE")

\* transmit_invite with init, and with a new branch: an INVITE with credentials or
\* another interval is a new transaction.
SendInvite(p) ==
  LET q == NextSeq(p, "INVITE")
  IN  ReliableXmit([q EXCEPT !.lastinvite = q.ocseq], q.ocseq, 0, TRUE, "INVITE")

\* transmit_reinvite_with_sdp
SendReinvite(p) == On(SendInvite(p), {"outgoing", "reinvite"})

\* transmit_response
Respond(p, code, m, seq) == Say(p, m, seq, code)

\* transmit_response_reliable, send_response: a final response ends the repetition of
\* the provisional one.
RespondReliably(p, code, seq, fatal) ==
  ReliableXmit(IF fatal THEN Stopped(p, "prov") ELSE p, seq, code, fatal, "INVITE")

\* transmit_provisional_response: it is repeated while nothing final was said.
RespondProvisionally(p, code) == Started(Respond(p, code, "INVITE", p.initseq), "prov")
-----------------------------------------------------------------------------
(* update_call_counter: the calls of the peer, and those that ring.        *)

LimitReached(p) == CallLimit > 0 /\ p.inuse >= CallLimit

IncCall(p) ==
  IF Has(p, "inc_count") THEN p ELSE On([p EXCEPT !.inuse = @ + 1], {"inc_count"})

IncRinging(p) ==
  IF Has(p, "inc_ringing") THEN IncCall(p)
  ELSE IncCall(On([p EXCEPT !.ringing = @ + 1], {"inc_ringing"}))

DecRinging(p) ==
  IF Has(p, "inc_ringing") THEN Off([p EXCEPT !.ringing = @ - 1], {"inc_ringing"}) ELSE p

\* Mutant: the calls that ring are left to the end of the dialog.
DecCall_Ringing(p) ==
  IF Has(p, "inc_count") THEN Off([p EXCEPT !.inuse = @ - 1], {"inc_count"}) ELSE p
DecCall(p) ==
  LET q == IF Has(p, "inc_count") THEN Off([p EXCEPT !.inuse = @ - 1], {"inc_count"}) ELSE p
  IN  DecRinging(q)

-----------------------------------------------------------------------------
(* What waits for a pending INVITE: a BYE, or a re-INVITE.                 *)

\* Mutant: the BYE does not wait for the INVITE.
CheckPendings_Now(p) ==
  IF Has(p, "pendingbye") THEN SchedDestroy(Off(SendBye(QueueHangup(p)), {"pendingbye"}))
  ELSE p

CheckPendings(p) ==
  IF Has(p, "pendingbye") THEN
    IF "reinvite" \in p.tm THEN p
    ELSE IF p.inv \in {"proceeding", "early"} THEN
      LET q == SendCancel(p)
      IN  SchedDestroy(IF Has(q, "established") THEN q ELSE Off(q, {"pendingbye"}))
    ELSE IF p.pendinginvite # 0 /\ ~Has(p, "reinvite") THEN p
    ELSE SchedDestroy(Off(SendBye(QueueHangup(p)), {"pendingbye"}))
  ELSE IF /\ Has(p, "needreinvite")
          /\ p.pendinginvite = 0 /\ p.inv \notin {"calling", "proceeding", "early"}
          /\ "wait" \notin p.tm
  THEN Off(SendReinvite(p), {"needreinvite"})
  ELSE p

\* sip_set_rtp_peer: the media of an answered call go somewhere else.
SetRtpPeer(p) ==
  IF p.pendinginvite = 0 THEN SendReinvite(p)
  ELSE IF Has(p, "pendingbye") THEN p ELSE On(p, {"needreinvite"})
-----------------------------------------------------------------------------
(* sip_hangup: the channel goes, the dialog stays until the other side     *)
(* knows.                                                                  *)

\* Nothing but a provisional response is out, so the call can be cancelled.
NeedCancel(p) == p.inv \in Open /\ p.ch # "up"

\* Mutant: an INVITE nobody answered yet is cancelled as well.
HangupUnanswered_Cancel(p, q) ==
  IF Has(p, "outgoing") THEN SchedDestroy(SendCancel(SemiAckAll(q)))
  ELSE State(RespondReliably(Stopped(q, "prov"), 603, p.initseq, TRUE), "terminated")

HangupUnanswered(p, q) ==
  IF Has(p, "outgoing")
  THEN IF p.inv = "calling" THEN SchedDestroy(On(q, {"pendingbye"}))
       ELSE SchedDestroy(SendCancel(SemiAckAll(q)))
  ELSE State(RespondReliably(Stopped(q, "prov"), 603, p.initseq, TRUE), "terminated")

HangupAnswered(p, q) ==
  IF p.pendinginvite = 0 THEN (IF p.ch = "up" THEN SendBye(q) ELSE q)
  ELSE LET r == CancelDestroy(Stopped(Off(On(q, {"pendingbye"}), {"needreinvite"}), "wait"))
       IN  IF Has(r, "reinvite") THEN Started(r, "reinvite") ELSE r

Hangup(p) ==
  LET q == [DecCall(p) EXCEPT !.owner = FALSE, !.soft = FALSE, !.answer = FALSE,
                              !.ch = "none"]
  IN  IF Has(p, "alreadygone") THEN On(q, {"needdestroy"})
      ELSE LET r == IF p.inv # "calling" THEN SchedDestroy(q) ELSE q
           IN  IF p.lastmsg = "none" THEN r      \* there is no initreq yet
               ELSE IF NeedCancel(p) THEN HangupUnanswered(p, r)
               ELSE HangupAnswered(p, r)

\* dialog_unlink_all: no timer and no packet refers to the dialog any more.
Unlink(p) == [p EXCEPT !.packets = <<>>, !.tm = {}, !.soft = FALSE, !.answer = FALSE]

\* __sip_destroy
Destroy(p) == [DecCall(Unlink(p)) EXCEPT !.alive = "gone"]
=============================================================================
