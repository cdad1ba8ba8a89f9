--------------------------- MODULE SipCompletion ---------------------------
(***************************************************************************)
(* Call completion between two servers that both run chan_sip.c: the       *)
(* caller's server watches the callee (monitor instance, SUBSCRIBE) and    *)
(* publishes whether the caller is free (PUBLISH); the callee's server has *)
(* an agent for the caller and tells it when the callee is free (NOTIFY).  *)
(*                                                                         *)
(* On each side the thread of the core and the one that handles packets    *)
(* and timers share the instance, or the agent, without a lock: a PUBLISH  *)
(* is made in steps, and brings the type, the tag and the body that its    *)
(* entry has in the last of them, whichever thread wrote them.  Messages   *)
(* are lost, repeated and overtake one another; every PUBLISH has a dialog *)
(* of its own.                                                             *)
(***************************************************************************)
EXTENDS Integers, Sequences, SequencesExt, TLC

\* What one behaviour does: the answers to the INVITE that offer the service and the policies of
\* the peer, bounds on the suspensions, the recalls and the messages of a foreign client; slips:
\* the requests of which one is repeated, or its answer lost; brief: the time of our PUBLISH is
\* too short; ends: the core may give up.
CONSTANT Services

VARIABLES
  service,  \* one of Services
  agent,    \* the agent of the callee's server
  serving,  \* the thread of its core
  esc,      \* its publications: the tag of each, and whether a timer runs
  nextTag,  \* esc_etag_counter
  inst,     \* the monitor instance of the caller's server, with its EPA entry
  asking,   \* the thread of its core: what it does next, and with which type of PUBLISH
  notice,   \* the NOTIFY in the hands of its monitor thread, and what is done next
  sent,     \* requests that are not answered
  wire,     \* messages on their way
  count     \* what was done of what is bounded

completionVars == <<service, agent, serving, esc, nextTag, inst, asking, notice, sent, wire, count>>

\* A body: form: it is PIDF with a presence of its namespace that has an entity and children; its
\* tuples, each with an id or not and the text of every status.
Tuple(id, statuses) == [id |-> id, statuses |-> statuses]
Pidf(basic) == [form |-> TRUE, tuples |-> <<Tuple(TRUE, <<basic>>)>>]
NoBody == [form |-> FALSE, tuples |-> <<>>]

CcSubscribe(time) == [type |-> "SUBSCRIBE", time |-> time]
CcNotify(n, state) == [type |-> "NOTIFY", n |-> n, state |-> state]
\* tag 0 is none.
CcPublish(n, tag, body, time) ==
  [type |-> "PUBLISH", n |-> n, tag |-> tag, body |-> body, time |-> time, event |-> TRUE]
CcReply(m, code, tag) == [type |-> "reply", of |-> m, code |-> code, tag |-> tag]

\* send_request: reliably.
SendReliably(ms) == sent' = sent \cup ms /\ wire' = wire \cup ms
-----------------------------------------------------------------------------
(* Offer: the INVITE is answered with Call-Info, and the core of each side *)
(* has its record.                                                         *)

NewAgent == [st |-> "offered", est |-> FALSE, subscribed |-> FALSE, tasks |-> {}, uri |-> FALSE, notifies |-> 0,
             avail |-> FALSE]

\* entry: the EPA entry, and the state of the caller; uri: notify_uri; leaked: a reference is kept.
NewInstance == [st |-> "on", subscribed |-> FALSE, acked |-> FALSE, uri |-> FALSE, entry |-> "none", tag |-> 0,
                type |-> "initial", body |-> NoBody, seen |-> 0, pubs |-> 0, failed |-> FALSE, leaked |-> FALSE]

\* sip_get_cc_information
Offered(info) == info.uri /\ info.purpose /\ info.service # "unknown"

\* sip_handle_cc: else the core watches by itself.
Native(policy, info) == policy \in {"always", "native"} /\ Offered(info)

Offer(policy, info) ==
  /\ agent.st = "none"
  /\ agent' = NewAgent
  /\ inst' = IF Native(policy, info) THEN NewInstance ELSE inst
  /\ UNCHANGED <<service, serving, esc, nextTag, asking, notice, sent, wire, count>>

\* The agent goes: whoever subscribed and was not answered is told so (sip_cc_agent_destructor).
AgentGoes ==
  /\ agent' = [NewAgent EXCEPT !.st = "gone"]
  /\ serving' = "idle"

Unanswered500 == IF agent.subscribed /\ ~agent.est THEN {CcReply(CcSubscribe("long"), 500, 0)} ELSE {}

OfferExpires ==
  /\ agent.st = "offered" /\ ~agent.subscribed
  /\ AgentGoes
  /\ UNCHANGED <<service, esc, nextTag, inst, asking, notice, sent, wire, count>>

\* sip_cc_monitor_request_cc
RequestCc ==
  /\ inst.st = "on" /\ ~inst.subscribed /\ ~inst.failed
  /\ inst' = [inst EXCEPT !.subscribed = TRUE]
  /\ SendReliably({CcSubscribe("long")})
  /\ UNCHANGED <<service, agent, serving, esc, nextTag, asking, notice, count>>
-----------------------------------------------------------------------------
(* The agent.                                                              *)

\* handle_cc_subscribe: the core answers it, later.  One that is repeated is handed to the core
\* again, which takes it for one out of order.
ReceiveCcSubscribe(m) ==
  /\ m.type = "SUBSCRIBE"
  /\ \/ /\ agent.st = "gone"
        /\ wire' = (wire \ {m}) \cup {CcReply(m, IF m.time = "none" THEN 200 ELSE 404, 0)}
        /\ UNCHANGED <<agent, serving>>
     \/ /\ agent.st # "gone" /\ m.time = "none"
        /\ AgentGoes
        /\ wire' = (wire \ {m}) \cup {CcReply(m, 200, 0)} \cup Unanswered500
     \/ /\ agent.st # "gone" /\ m.time = "long"
        /\ agent' = [agent EXCEPT !.subscribed = TRUE, !.tasks = @ \cup {IF agent.subscribed THEN "again" ELSE "first"}]
        /\ wire' = wire \ {m}
        /\ UNCHANGED serving
  /\ UNCHANGED <<service, esc, nextTag, inst, asking, notice, sent, count>>

\* sip_cc_agent_respond, and its last line, after the lock is let go.
Respond(t) ==
  /\ serving = "idle" /\ t \in agent.tasks
  /\ LET good == t = "first" \/ agent.uri
         out  == IF good THEN {CcNotify(agent.notifies + 1, "queued")} ELSE {}
     IN  /\ agent' = [agent EXCEPT !.st = "on", !.est = TRUE, !.tasks = @ \ {t}, !.notifies = @ + (IF good THEN 1 ELSE 0)]
         /\ sent' = sent \cup out
         /\ wire' = wire \cup out \cup {CcReply(CcSubscribe("long"), IF good THEN 200 ELSE 500, 0)}
  /\ serving' = "answered"
  /\ UNCHANGED <<service, esc, nextTag, inst, asking, notice, count>>

TakeForFree ==
  /\ serving = "answered"
  /\ agent' = [agent EXCEPT !.avail = TRUE]
  /\ serving' = "idle"
  /\ UNCHANGED <<service, esc, nextTag, inst, asking, notice, sent, wire, count>>

\* sip_cc_agent_recall: the callee is free.  Of a caller who is busy only the core is told.
Recall ==
  /\ serving = "idle" /\ agent.st = "on" /\ count.recalls < service.recalls
  /\ count' = [count EXCEPT !.recalls = @ + 1]
  /\ IF agent.avail
     THEN /\ agent' = [agent EXCEPT !.uri = TRUE, !.notifies = @ + 1]
          /\ SendReliably({CcNotify(agent.notifies + 1, "ready")})
     ELSE UNCHANGED <<agent, sent, wire>>
  /\ UNCHANGED <<service, serving, esc, nextTag, inst, asking, notice>>
-----------------------------------------------------------------------------
(* handle_request_publish                                                  *)

\* determine_sip_publish_type
PublishType(m) ==
  CASE m.time = "garbled" -> "unknown"
    [] m.time = "none" -> "remove"
    [] m.time = "long" /\ m.tag = 0 /\ m.body # NoBody -> "initial"
    [] m.time = "long" /\ m.tag # 0 /\ m.body = NoBody -> "refresh"
    [] m.time = "long" /\ m.tag # 0 /\ m.body # NoBody -> "modify"
    [] OTHER -> "unknown"

\* pidf_validate_tuple, sip_pidf_validate
ValidTuple(t) == t.id /\ Len(t.statuses) = 1
Valid(b) == b.form /\ \A t \in ToSet(b.tuples) : ValidTuple(t)

\* cc_esc_publish_handler: the agent is there, and the first tuple has a text.
Basic(b) == IF b.tuples = <<>> THEN "" ELSE Head(Head(b.tuples).statuses)

BodyCode(m) == IF agent.st \in {"none", "gone"} THEN 412
               ELSE IF ~Valid(m.body) \/ Basic(m.body) = "" THEN 400
               ELSE 200

\* What the agent takes from it.
Hears(m) ==
  IF BodyCode(m) = 200 /\ Basic(m.body) \in {"open", "closed"}
  THEN [agent EXCEPT !.avail = Basic(m.body) = "open"]
  ELSE agent

\* create_new_sip_etag, AST_SCHED_REPLACE_UNREF
\* Mutant: the timer that is replaced is not set again
Retagged_Stopped(t) == (nextTag :> (t = 0)) @@ [u \in DOMAIN esc \ {t} |-> esc[u]]
Retagged(t) == (nextTag :> TRUE) @@ [u \in DOMAIN esc \ {t} |-> esc[u]]


Replied(m, code, tag) == wire' = (wire \ {m}) \cup {CcReply(m, code, tag)}

\* A header that is missing, a time that is too brief, or one that is no number: it is then
\* compared all the same, whatever its variable holds.
PublishRefused(m) ==
  /\ \/ ~m.event /\ Replied(m, 489, 0)
     \/ m.event /\ m.time \in {"brief", "garbled"} /\ Replied(m, 423, 0)
     \/ m.event /\ m.time # "brief" /\ PublishType(m) = "unknown" /\ Replied(m, 400, 0)
  /\ UNCHANGED <<agent, esc, nextTag>>

\* handle_sip_publish_initial: one that is refused leaves its entry behind.
PublishInitial(m) ==
  /\ esc' = Retagged(0) /\ nextTag' = nextTag + 1
  /\ agent' = Hears(m)
  /\ Replied(m, BodyCode(m), nextTag)

\* An entry that is not there: it has another tag by now, or its time is over.
PublishUnknown(m) ==
  /\ m.tag \notin DOMAIN esc
  /\ Replied(m, 412, 0)
  /\ UNCHANGED <<agent, esc, nextTag>>

\* handle_sip_publish_refresh
PublishRefresh(m) ==
  /\ m.tag \in DOMAIN esc
  /\ esc' = Retagged(m.tag) /\ nextTag' = nextTag + 1
  /\ Replied(m, 200, nextTag)
  /\ UNCHANGED agent

\* handle_sip_publish_modify
PublishModify(m) ==
  /\ m.tag \in DOMAIN esc
  /\ agent' = Hears(m)
  /\ IF BodyCode(m) = 200 THEN esc' = Retagged(m.tag) /\ nextTag' = nextTag + 1
     ELSE UNCHANGED <<esc, nextTag>>
  /\ Replied(m, BodyCode(m), nextTag)

\* handle_sip_publish_remove: the core is not told.
PublishRemove(m) ==
  /\ m.tag \in DOMAIN esc
  /\ esc' = [t \in DOMAIN esc \ {m.tag} |-> esc[t]] /\ nextTag' = nextTag + 1
  /\ Replied(m, 200, nextTag)
  /\ UNCHANGED agent

ReceivePublish(m) ==
  /\ m.type = "PUBLISH"
  /\ \/ PublishRefused(m)
     \/ /\ m.event /\ m.time \in {"long", "none"}
        /\ \/ PublishType(m) = "initial" /\ PublishInitial(m)
           \/ PublishType(m) \in {"refresh", "modify", "remove"} /\ PublishUnknown(m)
           \/ PublishType(m) = "refresh" /\ PublishRefresh(m)
           \/ PublishType(m) = "modify" /\ PublishModify(m)
           \/ PublishType(m) = "remove" /\ PublishRemove(m)
  /\ UNCHANGED <<service, serving, inst, asking, notice, sent, count>>

\* publish_expire: nor is it told that the time is over.  It is an hour: nothing is on its way.
PublishExpire(t) ==
  /\ t \in DOMAIN esc /\ esc[t] /\ wire = {}
  /\ esc' = [u \in DOMAIN esc \ {t} |-> esc[u]]
  /\ UNCHANGED <<service, agent, serving, nextTag, inst, asking, notice, sent, wire, count>>
-----------------------------------------------------------------------------
(* The monitor instance.                                                   *)

State == IF inst.entry = "closed" THEN "closed" ELSE "open"

\* The steps of a PUBLISH, of either thread: construct_pidf_body writes the body of the entry,
\* transmit_publish its type, and what is sent is what the entry has then.  A body is written and
\* read as a whole.
Written(state) == [inst EXCEPT !.body = Pidf(state)]
Typed(type) == [inst EXCEPT !.type = type]
NewPublish(time) == CcPublish(inst.pubs + 1, IF inst.type = "initial" THEN 0 ELSE inst.tag, inst.body, time)
Published == [inst EXCEPT !.pubs = @ + 1]

OurTime == IF service.brief THEN "brief" ELSE "long"

\* handle_cc_notify: what is done depends on the entry, which the core may change meanwhile; one
\* that is not filled yet brings the server down.
ReceiveCcNotify(m) ==
  /\ m.type = "NOTIFY" /\ notice = <<>> /\ inst.st # "down"
  /\ \/ /\ m.n < inst.seen
        /\ Replied(m, 500, 0) /\ UNCHANGED <<inst, notice>>
     \/ /\ m.n >= inst.seen /\ inst.st = "over"
        /\ Replied(m, 400, 0) /\ UNCHANGED <<inst, notice>>
     \/ /\ m.n >= inst.seen /\ inst.st = "on" /\ m.state = "queued"
        /\ inst' = [inst EXCEPT !.seen = m.n, !.acked = TRUE]
        /\ Replied(m, 200, 0) /\ UNCHANGED notice
     \/ /\ m.n >= inst.seen /\ inst.st = "on" /\ m.state = "ready"
        /\ inst' = [inst EXCEPT !.seen = m.n, !.uri = TRUE, !.st = IF inst.entry = "bare" THEN "down" ELSE @]
        /\ notice' = <<[of |-> m, at |-> IF inst.entry = "closed" THEN "body" ELSE "answer"]>>
        /\ wire' = wire \ {m}
  /\ UNCHANGED <<service, agent, serving, esc, nextTag, asking, sent, count>>

\* The caller is busy: the monitor thread publishes that, before it answers.
PublishBusy ==
  /\ notice # <<>> /\ inst.st # "down"
  /\ \/ /\ Head(notice).at = "body"
        /\ inst' = Written("closed") /\ notice' = <<[Head(notice) EXCEPT !.at = "type"]>>
     \/ /\ Head(notice).at = "type"
        /\ inst' = Typed("initial") /\ notice' = <<[Head(notice) EXCEPT !.at = "send"]>>
  /\ UNCHANGED <<service, agent, serving, esc, nextTag, asking, sent, wire, count>>

FinishCcNotify ==
  /\ notice # <<>> /\ Head(notice).at \in {"send", "answer"} /\ inst.st # "down"
  /\ LET new == IF Head(notice).at = "send" THEN {NewPublish(OurTime)} ELSE {}
     IN  /\ inst' = IF new # {} THEN Published ELSE inst
         /\ sent' = sent \cup new
         /\ wire' = wire \cup new \cup {CcReply(Head(notice).of, 200, 0)}
  /\ notice' = <<>>
  /\ UNCHANGED <<service, agent, serving, esc, nextTag, asking, count>>

Asking(at, type) == [at |-> at, type |-> type]
CoreIdle == Asking("idle", "initial")

\* sip_cc_monitor_suspend: the entry is made, it is filled and its state is set, and it is
\* published if the callee has been free once.
Suspend ==
  /\ inst.st = "on" /\ inst.acked /\ ~inst.failed /\ asking = CoreIdle /\ inst.entry \in {"none", "open"}
  /\ count.suspends < service.suspends
  /\ count' = [count EXCEPT !.suspends = @ + 1]
  /\ IF inst.entry = "none"
     THEN inst' = [inst EXCEPT !.entry = "bare"] /\ asking' = Asking("made", "initial")
     ELSE inst' = [inst EXCEPT !.entry = "closed"] /\ asking' = Asking("body", "modify")
  /\ UNCHANGED <<service, agent, serving, esc, nextTag, notice, sent, wire>>

FillEntry ==
  /\ asking.at = "made" /\ inst.st = "on"
  /\ inst' = [inst EXCEPT !.entry = "closed"] /\ asking' = Asking("body", "initial")
  /\ UNCHANGED <<service, agent, serving, esc, nextTag, notice, sent, wire, count>>

\* sip_cc_monitor_unsuspend
Unsuspend ==
  /\ inst.st = "on" /\ asking = CoreIdle /\ inst.entry = "closed" /\ ~inst.failed
  /\ inst' = [inst EXCEPT !.entry = "open"] /\ asking' = Asking("body", "modify")
  /\ UNCHANGED <<service, agent, serving, esc, nextTag, notice, sent, wire, count>>

\* What the core's thread does then.
PublishState ==
  /\ inst.st = "on"
  /\ \/ /\ asking.at = "body" /\ ~inst.uri
        /\ asking' = CoreIdle /\ UNCHANGED <<inst, sent, wire>>
     \/ /\ asking.at = "body" /\ inst.uri
        /\ inst' = Written(State) /\ asking' = [asking EXCEPT !.at = "type"] /\ UNCHANGED <<sent, wire>>
     \/ /\ asking.at = "type"
        /\ inst' = Typed(asking.type) /\ asking' = [asking EXCEPT !.at = "send"] /\ UNCHANGED <<sent, wire>>
     \/ /\ asking.at = "send"
        /\ inst' = Published /\ SendReliably({NewPublish(OurTime)}) /\ asking' = CoreIdle
  /\ UNCHANGED <<service, agent, serving, esc, nextTag, notice, count>>

Farewell ==
  (IF inst.subscribed THEN {CcSubscribe("none")} ELSE {}) \cup
  (IF inst.entry = "none" THEN {} ELSE {CcPublish(inst.pubs + 1, inst.tag, NoBody, "none")})

\* sip_monitor_instance_destructor, when the core ends it: not if a reference is left.
EndMonitor ==
  /\ inst.st = "on" /\ asking = CoreIdle /\ notice = <<>> /\ (service.ends \/ inst.failed)
  /\ inst' = [NewInstance EXCEPT !.st = "over", !.leaked = inst.leaked, !.seen = inst.seen]
  /\ SendReliably(IF inst.leaked THEN {} ELSE Farewell)
  /\ UNCHANGED <<service, agent, serving, esc, nextTag, asking, notice, count>>

\* handle_response_subscribe, cc_handle_publish_error: the core is told that it has failed.
\* handle_response_publish: the tag of the last answer; with a longer time it is tried again.
Failed(i) == IF i.st = "on" THEN [i EXCEPT !.failed = TRUE] ELSE i

ReplyMattered(r) ==
  LET m == r.of
  IN  CASE m.type = "SUBSCRIBE" /\ r.code >= 300 /\ inst.st = "on" -> [Failed(inst) EXCEPT !.leaked = TRUE]
        [] m.type = "PUBLISH" /\ r.code = 200 /\ inst.st = "on" -> [inst EXCEPT !.tag = r.tag]
        [] m.type = "PUBLISH" /\ r.code # 200 -> Failed(inst)
        [] OTHER -> inst

TriedAgain(r) == r.of.type = "PUBLISH" /\ r.code = 423 /\ inst.st = "on"

ReceiveCcReply(r) ==
  /\ r.type = "reply"
  /\ \/ /\ r.of \notin sent
        /\ wire' = wire \ {r} /\ UNCHANGED <<inst, sent>>
     \/ /\ r.of \in sent /\ ~TriedAgain(r)
        /\ inst' = ReplyMattered(r)
        /\ sent' = sent \ {r.of} /\ wire' = wire \ {r}
     \/ /\ r.of \in sent /\ TriedAgain(r)
        /\ LET new == NewPublish("long")
           IN  /\ inst' = Published
               /\ sent' = (sent \ {r.of}) \cup {new} /\ wire' = (wire \ {r}) \cup {new}
  /\ UNCHANGED <<service, agent, serving, esc, nextTag, asking, notice, count>>
-----------------------------------------------------------------------------
(* The network, and another client (external).                             *)

\* retrans_pkt: losses are fewer than the transmissions of a request, so none is given up.
ResendRequest(m) ==
  /\ m \in sent \ wire /\ \A r \in wire : r.type = "reply" => r.of # m
  /\ m = CcSubscribe("long") => agent.tasks = {}
  /\ m.type = "NOTIFY" => notice = <<>>
  /\ wire' = wire \cup {m}
  /\ UNCHANGED <<service, agent, serving, esc, nextTag, inst, asking, notice, sent, count>>

\* One answer is lost, or one request repeated.  One that is lost and sent again is one that is slow.
Slip ==
  /\ count.slips = 0 /\ count' = [count EXCEPT !.slips = 1]
  /\ \/ \E r \in wire : r.type = "reply" /\ r.of.type \in service.slips /\ wire' = wire \ {r}
     \/ \E m \in sent \ wire : m.type \in service.slips /\ wire' = wire \cup {m}
  /\ UNCHANGED <<service, agent, serving, esc, nextTag, inst, asking, notice, sent>>

\* PUBLISHes of a client that is not ours.
OtherClient(m) ==
  /\ agent.st # "none" /\ count.foreign < service.foreign /\ count' = [count EXCEPT !.foreign = @ + 1]
  /\ m.tag \in {0, nextTag} \cup DOMAIN esc
  /\ wire' = wire \cup {m}
  /\ UNCHANGED <<service, agent, serving, esc, nextTag, inst, asking, notice, sent>>

BadBodies ==
  {Pidf(""), Pidf("away"), [form |-> TRUE, tuples |-> <<>>], [form |-> TRUE, tuples |-> <<Tuple(FALSE, <<"open">>)>>],
   [form |-> TRUE, tuples |-> <<Tuple(TRUE, <<"open", "closed">>)>>]}
OtherPublishes ==
  {CcPublish(0, t, b, "long") : t \in 0 .. 3, b \in BadBodies \cup {NoBody}}
  \cup {CcPublish(0, 0, NoBody, "garbled"), [CcPublish(0, 0, NoBody, "long") EXCEPT !.event = FALSE]}
-----------------------------------------------------------------------------
NoService == [policies |-> {}, infos |-> {}, suspends |-> 0, recalls |-> 0, slips |-> {}, foreign |-> 0,
              brief |-> FALSE, ends |-> FALSE, start |-> "call"]

\* A later start: the SUBSCRIBE and the first NOTIFY are answered, or also the one that says
\* that the callee is free.
Notifies(s) == IF s.start = "ready" THEN 2 ELSE 1
LaterAgent(s) == [NewAgent EXCEPT !.st = "on", !.est = TRUE, !.subscribed = TRUE, !.avail = TRUE,
                                  !.notifies = Notifies(s), !.uri = s.start = "ready"]
LaterInstance(s) == [NewInstance EXCEPT !.subscribed = TRUE, !.acked = TRUE,
                                        !.seen = Notifies(s), !.uri = s.start = "ready"]

CompletionInit(s) ==
  /\ service = s
  /\ agent = IF s.start # "call" THEN LaterAgent(s) ELSE [NewAgent EXCEPT !.st = "none"]
  /\ serving = "idle"
  /\ esc = <<>> /\ nextTag = 1
  /\ inst = IF s.start # "call" THEN LaterInstance(s) ELSE [NewInstance EXCEPT !.st = "none"]
  /\ asking = CoreIdle /\ notice = <<>>
  /\ sent = {} /\ wire = {}
  /\ count = [suspends |-> 0, recalls |-> 0, slips |-> 0, foreign |-> 0]

\* What is not lost arrives, what is not answered is sent again, threads go on, timers run out.
CompletionGoesOn ==
  \/ \E m \in wire : ReceiveCcSubscribe(m) \/ ReceivePublish(m) \/ ReceiveCcNotify(m) \/ ReceiveCcReply(m)
  \/ \E m \in sent : ResendRequest(m)
  \/ PublishBusy \/ FinishCcNotify \/ TakeForFree \/ OfferExpires
  \/ \E t \in {"first", "again"} : Respond(t)
  \/ \E t \in DOMAIN esc : PublishExpire(t)

CompletionNext ==
  \/ CompletionGoesOn
  \/ \E p \in service.policies, i \in service.infos : Offer(p, i)
  \/ RequestCc \/ Recall
  \/ Suspend \/ FillEntry \/ Unsuspend \/ PublishState \/ EndMonitor
  \/ \E m \in OtherPublishes : OtherClient(m)
  \/ Slip

CompletionFair == WF_completionVars(CompletionGoesOn)
-----------------------------------------------------------------------------
CompletionTypeOK ==
  /\ service \in Services \cup {NoService}
  /\ agent.st \in {"none", "offered", "on", "gone"} /\ serving \in {"idle", "answered"}
  /\ inst.st \in {"none", "on", "over", "down"} /\ asking.at \in {"idle", "made", "body", "type", "send"}
  /\ DOMAIN esc \subseteq 1 .. nextTag - 1

\* When the caller's side has ended, the agent of the other server goes and none of its
\* publications stays, whatever became of their tags, unless a reference is left.
CompletionEnds ==
  (inst.st = "over" /\ ~inst.leaked) ~> (agent.st = "gone" /\ esc = <<>>)
=============================================================================
