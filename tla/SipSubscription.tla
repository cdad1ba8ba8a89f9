--------------------------- MODULE SipSubscription ---------------------------
(***************************************************************************)
(* Subscriptions of a phone to the state of an extension (Event: presence, *)
(* dialog) or to a mailbox (Event: message-summary), in chan_sip.c.        *)
(*                                                                         *)
(* Three parties: the phone, which subscribes, renews, takes back or       *)
(* forgets; the monitor thread, which handles packets and timers one at a  *)
(* time, but lets go of the dialog's lock in the middle of a SUBSCRIBE;    *)
(* and the thread of the core that announces changes.  Messages are lost,  *)
(* repeated and overtake one another.                                      *)
(***************************************************************************)
EXTENDS Integers

\* What one behaviour does: what is watched, and bounds on its changes, on the subscriptions
\* the phone starts, on the SUBSCRIBEs of one of them, and on the messages lost or repeated.
CONSTANT Subscriptions

ASSUME SubscriptionBounds ==
  \A b \in Subscriptions :
    /\ b.what \in {"extension", "mailbox"}
    /\ {b.changes, b.dialogs, b.subscribes, b.lost} \subseteq Nat

\* What is watched.  Of an extension: 0 is idle, n > 0 the n-th ringing channel, Gone a removed
\* one.  Of a mailbox: its counts.
Gone == -1
None == -2

VARIABLES
  bound,    \* one of Subscriptions
  now,      \* its state
  changes,  \* how often it has changed
  told,     \* the state the core has announced last
  call,     \* the announcement under way: the state it brings, or None
  dlg,      \* the dialogs of the subscriptions, by the number of their Call-ID
  tags,     \* how many tags were made
  mon,      \* the SUBSCRIBE in the monitor's hands, between two of its steps
  ua,       \* the phone
  toUs, toUa, lost

subscriptionVars == <<bound, now, changes, told, call, dlg, tags, mon, ua, toUs, toUa, lost>>
network  == <<toUs, toUa>>

\* A dialog.  tag: ours, new for each; on: subscribed # NONE; reg: the core knows it (stateid);
\* pend: pendinginvite; queued: SIP_PAGE2_STATECHANGEQUEUE; timer: autokillid; raced: a state
\* read without the lock was told after a newer one, or before the core noted it; missed: a
\* NOTIFY was given up.
NewDialog == [tag |-> tags + 1, on |-> FALSE, est |-> FALSE, reg |-> FALSE, icseq |-> 0,
              expiry |-> FALSE, last |-> None, ring |-> None, queued |-> FALSE, pend |-> 0,
              seq |-> 0, packets |-> {}, timer |-> FALSE, need |-> FALSE, raced |-> FALSE,
              missed |-> FALSE, out |-> {}]

Free == [call |-> 0, seq |-> 0, again |-> FALSE, read |-> None, late |-> FALSE]

\* Messages.  A SUBSCRIBE asks for a long, a too brief or no time; tag: that of the dialog it is
\* sent in, or 0.
Subscribe(c, n, time, tag) == [type |-> "SUBSCRIBE", call |-> c, seq |-> n, time |-> time, tag |-> tag]
AnswerTo(m, tag, code) == [type |-> "answer", call |-> m.call, tag |-> tag, seq |-> m.seq, code |-> code]
Notify(c, d, state, over) ==
  [type |-> "NOTIFY", call |-> c, tag |-> d.tag, seq |-> d.seq + 1, state |-> state, over |-> over]

-----------------------------------------------------------------------------
(* What is sent in a dialog d of Call-ID c.                                *)

Send(d, m) == [d EXCEPT !.out = @ \cup {m}]

\* send_request: the packet is kept until it is answered.
SendNotify(d, c, state, over) ==
  LET m == Notify(c, d, state, over)
  IN  [d EXCEPT !.seq = @ + 1, !.packets = @ \cup {m}, !.out = @ \cup {m}]

\* transmit_state_notify
StateNotify(d, c, state) ==
  IF ~d.est THEN d
  ELSE [SendNotify(d, c, state, state = Gone \/ ~d.expiry) EXCEPT !.pend = d.seq + 1]

\* state_notify_build_xml: what the body shows of a state is "early", "confirmed" or
\* "terminated" and the ringing channel; here the state itself.

\* extensionstate_update.  A removed extension ends the subscription without a word.
Unchanged(d, state) == \/ state = 0 /\ d.last = 0
                       \/ state > 0 /\ d.ring = state

Update(d, c, state, force) ==
  IF state = Gone THEN [d EXCEPT !.timer = TRUE, !.on = FALSE]
  ELSE IF ~force /\ Unchanged(d, state) THEN d
  ELSE LET e == [d EXCEPT !.last = state, !.ring = IF state > 0 /\ ~force THEN state ELSE @]
       IN  IF ~d.on THEN e
           ELSE IF d.pend = 0 THEN StateNotify(e, c, state)
           ELSE [e EXCEPT !.queued = TRUE]

\* transmit_notify_with_mwi: a NOTIFY does not wait for the one before it.
MwiNotify(d, c, count) == SendNotify(d, c, count, ~d.expiry)
-----------------------------------------------------------------------------
(* handle_request_subscribe, up to the line where the lock is let go.      *)

Reply(d, m, code)  == Send(d, AnswerTo(m, d.tag, code))
Refuse(d, m, code) == Reply([d EXCEPT !.need = TRUE], m, code)

\* Its timer is cancelled, and set again unless the subscription is taken back.
\* Mutant: a renewal leaves the dialog without a timer.
Timed_Once(d, m, again) == [d EXCEPT !.expiry = m.time = "long", !.timer = m.time = "long" /\ ~again]
Timed(d, m, again) == [d EXCEPT !.expiry = m.time = "long", !.timer = m.time = "long"]

\* match_req_to_dialog: a message that is sent in a dialog has its tag.  One that has the tag of
\* an earlier dialog of its Call-ID gets a dialog of its own, which refuses it and goes.
Known(m) == m.call \in DOMAIN dlg
Stranger(m) == Known(m) /\ m.tag \notin {0, dlg[m.call].tag}
DialogOf(m) == IF Known(m) THEN dlg[m.call] ELSE NewDialog
Ignored(m) == DialogOf(m).icseq = m.seq
Again(m)   == DialogOf(m).on /\ ~Ignored(m)

\* The first refusals: an old number, a renewal of a dialog that is not known any more, an
\* extension that is not there (get_destination).
Stale(m)   == DialogOf(m).icseq > m.seq
Unheard(m) == ~Ignored(m) /\ ~Again(m) /\ m.tag # 0
NoTarget   == bound.what = "extension" /\ now = Gone

\* Then it is subscribed, and a new subscription to the mailbox replaces the old one.
Accepted(m) ==
  LET d == [DialogOf(m) EXCEPT !.icseq = m.seq, !.on = TRUE]
  IN  IF d.need THEN d
      ELSE IF m.time = "brief" THEN Refuse(d, m, 423)
      ELSE LET e == Timed(d, m, Again(m))
           IN  IF bound.what = "mailbox" THEN Reply([e EXCEPT !.est = TRUE], m, 200)
               ELSE [e EXCEPT !.reg = @ \/ (m.time = "long" /\ ~Again(m))]

Kept == {c \in DOMAIN dlg : bound.what = "extension" \/ ~dlg[c].on}

GoesOn(m) == ~DialogOf(m).need /\ m.time # "brief"

Sent(d) == [d EXCEPT !.out = {}]

\* The dialogs, with d under the Call-ID c.
Entered(dialogs, c, d) == [i \in DOMAIN dialogs \cup {c} |-> IF i = c THEN d ELSE dialogs[i]]

Put(c, d) ==
  /\ dlg' = Entered(dlg, c, Sent(d))
  /\ toUa' = toUa \cup d.out

ReceiveSubscribe(m) ==
  /\ m.type = "SUBSCRIBE" /\ mon = Free
  /\ toUs' = toUs \ {m}
  /\ tags' = IF Known(m) THEN tags ELSE tags + 1
  /\ IF Stranger(m) THEN mon' = mon /\ dlg' = dlg /\ toUa' = toUa \cup {AnswerTo(m, m.tag, 481)}
     ELSE IF Stale(m) THEN mon' = mon /\ Put(m.call, Reply(DialogOf(m), m, 500))
     ELSE IF Unheard(m) THEN mon' = mon /\ Put(m.call, Refuse([DialogOf(m) EXCEPT !.icseq = m.seq], m, 481))
     ELSE IF NoTarget THEN mon' = mon /\ Put(m.call, Refuse([DialogOf(m) EXCEPT !.icseq = m.seq], m, 404))
     ELSE LET d == Accepted(m)
          IN  /\ dlg' = Entered([c \in Kept |-> dlg[c]], m.call, Sent(d))
              /\ toUa' = toUa \cup d.out
              /\ mon' = IF GoesOn(m)
                        THEN [Free EXCEPT !.call = m.call, !.seq = m.seq, !.again = m.time = "long"]
                        ELSE Free
  /\ UNCHANGED <<bound, now, changes, told, call, ua, lost>>

\* The state is read without the lock (ast_extension_state_extended, get_cached_mwi).
ReadState ==
  /\ mon # Free /\ mon.read = None
  /\ mon' = [mon EXCEPT !.read = now, !.late = bound.what = "extension" /\ now # told]
  /\ UNCHANGED <<bound, tags, now, changes, told, call, dlg, ua, network, lost>>

\* The rest: the answer and a NOTIFY whatever the state was before.
Finished(d, m) ==
  LET e == IF bound.what = "mailbox" THEN MwiNotify(d, m.call, m.read)
           ELSE IF m.read = Gone THEN Refuse(d, m, 404)
           ELSE Update(Reply([d EXCEPT !.est = TRUE, !.ring = IF m.read > 0 THEN m.read ELSE @], m, 200),
                       m.call, m.read, TRUE)
  IN  [e EXCEPT !.need = @ \/ ~m.again, !.raced = m.late]

FinishSubscribe ==
  /\ mon # Free /\ mon.read # None
  /\ Put(mon.call, Finished(dlg[mon.call], mon))
  /\ mon' = Free
  /\ UNCHANGED <<bound, tags, now, changes, told, call, ua, toUs, lost>>
-----------------------------------------------------------------------------
(* The core: it notes a change, and calls the callbacks with what it noted. *)

Change(v) ==
  /\ changes < bound.changes /\ v # now /\ now # Gone
  /\ bound.what = "mailbox" => v > 0
  /\ now' = v /\ changes' = changes + 1
  /\ UNCHANGED <<bound, tags, told, call, dlg, mon, ua, network, lost>>

Notice ==
  /\ call = None /\ told # now
  /\ call' = now /\ told' = now
  /\ UNCHANGED <<bound, tags, now, changes, dlg, mon, ua, network, lost>>

\* cb_extensionstate, or sip_send_mwi_to_peer for the dialog of mwipvt.  The lock of the
\* dialog is free between the steps of the monitor.
Announced(c) ==
  IF bound.what = "extension" /\ dlg[c].reg THEN Update(dlg[c], c, call, FALSE)
  ELSE IF bound.what = "mailbox" /\ dlg[c].on THEN MwiNotify(dlg[c], c, call)
  ELSE dlg[c]

Announce ==
  /\ call # None
  /\ dlg' = [c \in DOMAIN dlg |-> Sent(Announced(c))]
  /\ toUa' = toUa \cup UNION {Announced(c).out : c \in DOMAIN dlg}
  /\ mon' = [mon EXCEPT !.late = @ \/ mon.read # None]
  /\ call' = None
  /\ UNCHANGED <<bound, tags, now, changes, told, ua, toUs, lost>>
-----------------------------------------------------------------------------
(* Answers and timers.                                                     *)

\* handle_response_notify: the state that was queued is told now.
\* Mutant: it is dropped.
Flush_Dropped(d, c) == [d EXCEPT !.queued = FALSE]
Flush(d, c) == IF d.queued THEN Update([d EXCEPT !.queued = FALSE], c, d.last, TRUE) ELSE d

Answered(d, m) ==
  LET e == [d EXCEPT !.packets = {n \in @ : n.seq # m.seq}, !.pend = 0]
  IN  IF m.code = 481 THEN [e EXCEPT !.need = TRUE]
      ELSE Flush([e EXCEPT !.need = @ \/ ~d.on], m.call)

ReceiveAnswer(m) ==
  /\ m.type = "answer" /\ mon = Free
  /\ toUs' = toUs \ {m}
  /\ IF Known(m) /\ ~Stranger(m) /\ \E n \in dlg[m.call].packets : n.seq = m.seq
     THEN Put(m.call, Answered(dlg[m.call], m))
     ELSE UNCHANGED <<dlg, toUa>>
  /\ UNCHANGED <<bound, tags, now, changes, told, call, mon, ua, lost>>

\* retrans_pkt.  A packet whose copy or answer is still under way is sent again too: Repeat.
Unanswered(c) == {m \in dlg[c].packets \ toUa :
                    \A n \in toUs : n.type = "answer" => n.call # c \/ n.tag # m.tag \/ n.seq # m.seq}

Resend(c) ==
  /\ mon = Free
  /\ \E m \in Unanswered(c) : toUa' = toUa \cup {m}
  /\ UNCHANGED <<bound, tags, now, changes, told, call, dlg, mon, ua, toUs, lost>>

\* The last time: a NOTIFY of an extension is critical, one of a mailbox is not.
GiveUp(c) ==
  /\ mon = Free
  /\ \E m \in Unanswered(c) :
       Put(c, [dlg[c] EXCEPT !.packets = @ \ {m}, !.missed = TRUE, !.need = @ \/ bound.what = "extension"])
  /\ UNCHANGED <<bound, tags, now, changes, told, call, mon, ua, toUs, lost>>

Unlink(c) == dlg' = [i \in DOMAIN dlg \ {c} |-> dlg[i]] /\ toUa' = toUa

\* __sip_autodestruct: the phone is told once that its time is over.  The shortest time of a
\* subscription is longer than a SUBSCRIBE is on its way or waits for its answer.
Expire(c) ==
  /\ mon = Free /\ dlg[c].timer /\ ~(ua.call = c /\ ua.st = "asking")
  /\ \A m \in toUs : m.type = "SUBSCRIBE" => m.call # c
  /\ IF bound.what = "extension" /\ dlg[c].on
     THEN Put(c, [StateNotify([dlg[c] EXCEPT !.expiry = FALSE], c, 0) EXCEPT !.on = FALSE])
     ELSE (dlg[c].packets = {} \/ dlg[c].need) /\ Unlink(c)
  /\ UNCHANGED <<bound, tags, now, changes, told, call, mon, ua, toUs, lost>>

\* dialog_needdestroy
Destroy(c) ==
  /\ mon = Free /\ dlg[c].need /\ dlg[c].packets = {}
  /\ Unlink(c)
  /\ UNCHANGED <<bound, tags, now, changes, told, call, mon, ua, toUs, lost>>
-----------------------------------------------------------------------------
(* The phone and the network (external).                                   *)

Waits == ua.st \in {"asking", "renewing", "leaving"}

Ask(st, time) ==
  LET new == st = "asking"
      c == IF new THEN ua.call + 1 ELSE ua.call
      n == IF new THEN 1 ELSE ua.seq + 1
      m == Subscribe(c, n, time, IF new THEN 0 ELSE ua.tag)
  IN  /\ IF new THEN ua.st = "idle" /\ c <= bound.dialogs ELSE ua.st = "on" /\ n <= bound.subscribes
      /\ (time = "none") = (st = "leaving")
      /\ ua' = [ua EXCEPT !.st = st, !.call = c, !.seq = n, !.sent = m,
                          !.tag = m.tag, !.got = IF new THEN 0 ELSE @, !.shows = IF new THEN None ELSE @]
      /\ toUs' = toUs \cup {m}
      /\ UNCHANGED <<bound, tags, now, changes, told, call, dlg, mon, toUa, lost>>

AskAgain ==
  /\ Waits /\ ua.sent \notin toUs /\ mon = Free
  /\ \A m \in toUa : m.type = "answer" => m.call # ua.call \/ m.seq # ua.seq
  /\ toUs' = toUs \cup {ua.sent}
  /\ UNCHANGED <<bound, tags, now, changes, told, call, dlg, mon, ua, toUa, lost>>

\* It starts anew and forgets what it had.
Forget ==
  /\ ua.st # "idle" /\ ua' = [ua EXCEPT !.st = "idle"]
  /\ UNCHANGED <<bound, tags, now, changes, told, call, dlg, mon, network, lost>>

GetAnswer(m) ==
  /\ m.type = "answer"
  /\ ua' = IF m.call = ua.call /\ m.seq = ua.seq /\ Waits
           THEN [ua EXCEPT !.st = IF m.code = 200 /\ @ # "leaving" THEN "on" ELSE "idle",
                           !.tag = IF @ = 0 THEN m.tag ELSE @]
           ELSE ua
  /\ toUa' = toUa \ {m}
  /\ UNCHANGED <<bound, tags, now, changes, told, call, dlg, mon, toUs, lost>>

\* Its dialog is the one of the first message that came.
Mine(m) == m.call = ua.call /\ ua.st # "idle" /\ ua.tag \in {0, m.tag}

GetNotify(m) ==
  /\ m.type = "NOTIFY"
  /\ ua' = IF Mine(m) /\ m.seq > ua.got
           THEN [ua EXCEPT !.tag = m.tag, !.got = m.seq, !.shows = m.state, !.st = IF m.over THEN "idle" ELSE @]
           ELSE ua
  /\ toUs' = toUs \cup {AnswerTo(m, m.tag, IF Mine(m) THEN 200 ELSE 481)}
  /\ toUa' = toUa \ {m}
  /\ UNCHANGED <<bound, tags, now, changes, told, call, dlg, mon, lost>>

Lose ==
  /\ lost < bound.lost /\ lost' = lost + 1
  /\ \/ \E m \in toUs : toUs' = toUs \ {m} /\ toUa' = toUa
     \/ \E m \in toUa : toUa' = toUa \ {m} /\ toUs' = toUs
  /\ UNCHANGED <<bound, tags, now, changes, told, call, dlg, mon, ua>>

\* A message is sent again although it, or its answer, is only slow.
Repeat ==
  /\ lost < bound.lost /\ lost' = lost + 1
  /\ \/ Waits /\ ua.sent \notin toUs /\ toUs' = toUs \cup {ua.sent} /\ toUa' = toUa
     \/ \E c \in DOMAIN dlg : \E m \in dlg[c].packets \ toUa : toUa' = toUa \cup {m} /\ toUs' = toUs
  /\ UNCHANGED <<bound, tags, now, changes, told, call, dlg, mon, ua>>
-----------------------------------------------------------------------------
NoSubscription == [what |-> "extension", changes |-> 0, dialogs |-> 0, subscribes |-> 0, lost |-> 0, times |-> {}]

SubscriptionInit(b) ==
  /\ bound = b
  /\ now = 0 /\ changes = 0 /\ told = 0 /\ call = None
  /\ dlg = <<>> /\ tags = 0 /\ mon = Free
  /\ ua = [st |-> "idle", call |-> 0, tag |-> 0, seq |-> 0, sent |-> None, got |-> 0, shows |-> None]
  /\ toUs = {} /\ toUa = {} /\ lost = 0

\* The Call-IDs.
Dialogs == UNION {1 .. b.dialogs : b \in Subscriptions}

Timers(c) == c \in DOMAIN dlg /\ (Resend(c) \/ GiveUp(c) \/ Expire(c) \/ Destroy(c))

SubscriptionNext ==
  \/ \E v \in {Gone, 0, changes + 1} : Change(v)
  \/ Notice \/ Announce \/ ReadState \/ FinishSubscribe
  \/ \E m \in toUs : ReceiveSubscribe(m) \/ ReceiveAnswer(m)
  \/ \E c \in Dialogs : Timers(c)
  \/ \E st \in {"asking", "renewing", "leaving"}, t \in bound.times : Ask(st, t)
  \/ AskAgain \/ Forget \/ Lose \/ Repeat
  \/ \E m \in toUa : GetAnswer(m) \/ GetNotify(m)

\* The threads go on, what is not lost arrives, and timers run out.
SubscriptionFair ==
  /\ WF_subscriptionVars(Notice \/ Announce \/ ReadState \/ FinishSubscribe)
  /\ WF_subscriptionVars(\/ \E m \in toUs : ReceiveSubscribe(m) \/ ReceiveAnswer(m)
             \/ \E m \in toUa : GetNotify(m))
  /\ WF_subscriptionVars(\E c \in DOMAIN dlg : GiveUp(c) \/ Expire(c))
  /\ WF_subscriptionVars(\E c \in DOMAIN dlg : Destroy(c))

-----------------------------------------------------------------------------
Bodies == {Gone, None} \cup 0 .. bound.changes

SubscriptionTypeOK ==
  /\ bound \in Subscriptions \cup {NoSubscription} /\ {now, told, call} \subseteq Bodies
  /\ DOMAIN dlg \subseteq Dialogs
  /\ mon.call \in {0} \cup DOMAIN dlg
  /\ \A c \in DOMAIN dlg : dlg[c].out = {} /\ dlg[c].last \in Bodies

\* When nothing is under way any more, a phone that is subscribed shows the state there is,
\* whatever was lost, repeated or overtaken: a change that comes while a NOTIFY is unanswered is
\* told later (extensionstate_update, handle_response_notify).  Left out: a state that was read
\* without the lock and told after a newer one, and a NOTIFY of a mailbox that was given up.
Quiet == toUs = {} /\ toUa = {} /\ mon = Free /\ call = None /\ told = now

Tells(d) == d.on /\ ~d.need /\ d.expiry /\ d.packets = {} /\ ~d.raced /\ ~d.missed

StateShown ==
  Quiet /\ ua.st = "on" /\ ua.call \in DOMAIN dlg /\ Tells(dlg[ua.call]) => ua.shows = now

\* The dialog of a subscription the phone has forgotten does not stay: its timer, a NOTIFY that
\* finds nobody or the end it was given destroys it.
Forgotten(c) == c \in DOMAIN dlg /\ (ua.call # c \/ ua.st = "idle")

ForgottenEnds == (\E c \in Dialogs : Forgotten(c)) ~> (\A c \in Dialogs : ~Forgotten(c))
=============================================================================
