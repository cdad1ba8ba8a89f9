----------------------------- MODULE MCQueueCalls -----------------------------
(* Small instances of QueueCalls for TLC: queues that differ in their options. *)
EXTENDS QueueCalls

MemberOrder == <<"m1", "m2", "m3">>
Zero        == [c \in Callers |-> 0]

Base == [staff |-> {"m1", "m2"}, joins |-> {"c1"}, penalty |-> [m \in Members |-> 0],
         limit |-> [c \in Callers |-> 1], least |-> [c \in Callers |-> INT_MAX], rules |-> <<>>,
         prio |-> Zero, position |-> Zero, said |-> Zero,
         ringall |-> FALSE, autofill |-> TRUE, joinempty |-> {}, leaveempty |-> {}, maxlen |-> 0,
         announce |-> FALSE, autopause |-> FALSE, pausebusy |-> FALSE, ringinuse |-> FALSE,
         backoff |-> FALSE, greet |-> FALSE, forward |-> FALSE, weight |-> FALSE, wrapup |-> FALSE,
         expires |-> TRUE, timeout |-> TRUE, conf |-> FALSE, once |-> FALSE, star |-> FALSE, others |-> FALSE]

\* Two callers and one member, whose device is also used outside the queue
OneMember == [Base EXCEPT !.staff = {"m1"}, !.joins = {"c1", "c2"}, !.expires = FALSE, !.others = TRUE]

\* Two callers, one of whom is in the way of the other
OneByOne  == [Base EXCEPT !.joins = {"c1", "c2"}, !.autofill = FALSE]
\* One caller and three members of two penalties
RingAll   == [Base EXCEPT !.ringall = TRUE, !.autopause = TRUE, !.staff = Members,
                          !.penalty = [m \in Members |-> IF m = "m3" THEN 1 ELSE 0]]
\* Members leave the queue empty
Leaving   == [Base EXCEPT !.leaveempty = {"inuse", "ringing", "paused", "wrapup"}, !.joinempty = {"paused"},
                          !.staff = {"m1"}, !.joins = {"c1", "c2"}, !.autopause = TRUE, !.pausebusy = TRUE,
                          !.wrapup = TRUE, !.maxlen = 1, !.timeout = FALSE]
\* Three callers who come and go
Waiting   == [Base EXCEPT !.joins = Callers, !.staff = {}, !.announce = TRUE, !.expires = FALSE,
                          !.prio = [c \in Callers |-> IF c = "c3" THEN 1 ELSE 0],
                          !.position = ("c1" :> 1 @@ "c2" :> 2 @@ "c3" :> 2),
                          !.said = ("c1" :> 1 @@ "c2" :> 0 @@ "c3" :> 0)]
\* Rules, not in the order of their times, that let in the second member, and then only it
Rule(t, rel, max, min) == [time |-> t, maxrel |-> rel, max |-> max, minrel |-> TRUE, min |-> min]
Widening  == [Base EXCEPT !.expires = FALSE, !.weight = TRUE, !.greet = TRUE, !.star = TRUE, !.once = TRUE, !.forward = TRUE,
                          !.penalty = [m \in Members |-> IF m = "m1" THEN 0 ELSE 2],
                          !.limit = Zero, !.least = Zero,
                          !.rules = <<Rule(60, FALSE, 2, 3), Rule(30, TRUE, 2, 0)>>]
\* A queue without a timeout, whose configuration has priority over the caller's
Unlimited == [Base EXCEPT !.timeout = FALSE, !.conf = TRUE, !.autopause = TRUE]
Queues    == {OneMember, OneByOne, RingAll, Leaving, Waiting, Widening, Unlimited}
=============================================================================
