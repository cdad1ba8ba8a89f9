--------------------------- MODULE SipCall_proofs ---------------------------
(***************************************************************************)
(* Proofs about one call in chan_sip.c: every field of the dialog keeps to *)
(* its kind, the calls of the peer are counted for as long as they last,   *)
(* no BYE overtakes a pending INVITE and no CANCEL an INVITE nobody heard  *)
(* of, whatever is received, lost, repeated or timed out.                  *)
(*                                                                         *)
(* The operators of SipDialog and SipCall each have a lemma: they take a   *)
(* dialog in order (Ok) to a dialog in order.  The actions then follow     *)
(* from those of the operators they are made of.  The second half does the *)
(* same for a dialog whose INVITE has no 200 yet (Fair, Calm).             *)
(***************************************************************************)
EXTENDS SipCall, SequenceTheorems, WellFoundedInduction, TLAPS

Methods == {"INVITE", "ACK", "BYE", "CANCEL"}
Message == [to : {"us", "ua"}, m : Methods, seq : Nat, code : Nat]
Packet  == [m : Methods, seq : Nat, code : Nat, fatal : BOOLEAN, timer : BOOLEAN]
Dialog  ==
  [alive : {"none", "live", "gone"}, incoming : BOOLEAN, inv : Open \cup Ended,
   owner : BOOLEAN, ch : {"none", "down", "ring", "ringing", "up"},
   soft : BOOLEAN, answer : BOOLEAN, fl : SUBSET Flags, tm : SUBSET Timers, packets : Seq(Packet),
   pendinginvite : Nat, glareinvite : Nat, lastinvite : Nat, initseq : Nat,
   ocseq : Nat, icseq : Nat, authtries : Nat, lastmsg : Methods \cup {"none"},
   inuse : Nat, ringing : Nat, out : SUBSET Message]

\* The books: what the peer counts is the other calls and this one.
Balanced(q) ==
  /\ q.inuse = sc.others + (IF Has(q, "inc_count") THEN 1 ELSE 0)
  /\ q.ringing = IF Has(q, "inc_ringing") THEN 1 ELSE 0

Sound(q) == q \in Dialog /\ q.alive = "live" /\ Balanced(q) /\ sc.others \in Nat

\* A BYE of ours, and what has to be true before there is one: no INVITE is pending, or it
\* is a re-INVITE that had its time, or the other side wants credentials for a BYE.
Bye(e) == e.m = "BYE" /\ e.code = 0
Wanted == \E r \in net : r.to = "us" /\ r.m = "BYE" /\ r.code = 401
Free(q) == q.pendinginvite = 0 \/ Has(p, "reinvite") \/ Wanted
Silent(q) == \A e \in q.out : ~Bye(e)

\* A dialog in order in the middle of a handler, which sent no BYE so far; and at its end.
Ok(q)   == Sound(q) /\ Silent(q) /\ (Has(q, "reinvite") => Has(p, "reinvite"))
Over(q) == Sound(q) /\ (Silent(q) \/ Free(q))

Counters == {"inc_count", "inc_ringing"}
Special  == Counters \cup {"reinvite"}
-----------------------------------------------------------------------------
(* Single fields.                                                          *)

LEMMA OkOver ==
  ASSUME NEW q, Ok(q)
  PROVE  Over(q)
BY DEF Ok, Over

LEMMA OkFields ==
  ASSUME NEW q, Ok(q) \/ Over(q)
  PROVE  /\ q.incoming \in BOOLEAN /\ q.inv \in Open \cup Ended /\ q.owner \in BOOLEAN
         /\ q.soft \in BOOLEAN /\ q.answer \in BOOLEAN /\ q.packets \in Seq(Packet)
         /\ q.pendinginvite \in Nat /\ q.glareinvite \in Nat /\ q.lastinvite \in Nat
         /\ q.initseq \in Nat /\ q.ocseq \in Nat /\ q.icseq \in Nat /\ q.authtries \in Nat
         /\ q.out \subseteq Message
BY DEF Ok, Over, Sound, Dialog

LEMMA OkOn ==
  ASSUME NEW q, Ok(q), NEW fs, fs \subseteq Flags \ Special
  PROVE  Ok(On(q, fs))
BY DEF Ok, Sound, Silent, Dialog, Balanced, Has, On, Counters, Special

LEMMA OverFlags ==
  ASSUME NEW q, Over(q), NEW fs, fs \subseteq Flags \ Counters
  PROVE  Over(On(q, fs)) /\ Over(Off(q, fs))
<1>1. Sound(On(q, fs))
  BY DEF Over, Sound, Dialog, Balanced, Has, On, Counters
<1>2. Sound(Off(q, fs))
  BY DEF Over, Sound, Dialog, Balanced, Has, Off, Counters
<1>3. /\ On(q, fs).out = q.out /\ On(q, fs).pendinginvite = q.pendinginvite
      /\ Off(q, fs).out = q.out /\ Off(q, fs).pendinginvite = q.pendinginvite
  BY DEF Over, Sound, Dialog, On, Off
<1> QED
  BY <1>1, <1>2, <1>3 DEF Over, Silent, Free

LEMMA OkOff ==
  ASSUME NEW q, Ok(q), NEW fs, fs \cap Counters = {}
  PROVE  Ok(Off(q, fs))
BY DEF Ok, Sound, Silent, Dialog, Balanced, Has, Off, Counters

LEMMA OkState ==
  ASSUME NEW q, Ok(q), NEW s \in Open \cup Ended
  PROVE  Ok(State(q, s))
BY DEF Ok, Sound, Silent, Dialog, Balanced, Has, State

LEMMA OkTimers ==
  ASSUME NEW q, Ok(q), NEW t \in Timers
  PROVE  Ok(Started(q, t)) /\ Ok(Stopped(q, t))
BY DEF Ok, Sound, Silent, Dialog, Balanced, Has, Started, Stopped

LEMMA OverStarted ==
  ASSUME NEW q, Over(q), NEW t \in Timers
  PROVE  Over(Started(q, t))
<1>1. Sound(Started(q, t))
  BY DEF Over, Sound, Dialog, Balanced, Has, Started
<1>2. Started(q, t).out = q.out /\ Started(q, t).pendinginvite = q.pendinginvite
  BY DEF Over, Sound, Dialog, Started
<1> QED
  BY <1>1, <1>2 DEF Over, Silent, Free

LEMMA OkNumbers ==
  ASSUME NEW q, Ok(q), NEW n \in Nat
  PROVE  /\ Ok([q EXCEPT !.pendinginvite = n]) /\ Ok([q EXCEPT !.glareinvite = n])
         /\ Ok([q EXCEPT !.lastinvite = n]) /\ Ok([q EXCEPT !.initseq = n])
         /\ Ok([q EXCEPT !.ocseq = n]) /\ Ok([q EXCEPT !.icseq = n])
         /\ Ok([q EXCEPT !.authtries = n])
<1> USE DEF Ok, Sound, Silent, Dialog, Balanced, Has
<1>1. Ok([q EXCEPT !.pendinginvite = n]) /\ Ok([q EXCEPT !.glareinvite = n])
  OBVIOUS
<1>2. Ok([q EXCEPT !.lastinvite = n]) /\ Ok([q EXCEPT !.initseq = n])
  OBVIOUS
<1>3. Ok([q EXCEPT !.ocseq = n]) /\ Ok([q EXCEPT !.icseq = n])
  OBVIOUS
<1>4. Ok([q EXCEPT !.authtries = n])
  OBVIOUS
<1> QED
  BY <1>1, <1>2, <1>3, <1>4

LEMMA OkTruths ==
  ASSUME NEW q, Ok(q), NEW b \in BOOLEAN
  PROVE  Ok([q EXCEPT !.owner = b]) /\ Ok([q EXCEPT !.soft = b]) /\ Ok([q EXCEPT !.answer = b])
BY DEF Ok, Sound, Silent, Dialog, Balanced, Has

LEMMA OkChannel ==
  ASSUME NEW q, Ok(q), NEW s \in {"none", "down", "ring", "ringing", "up"}
  PROVE  Ok([q EXCEPT !.ch = s])
BY DEF Ok, Sound, Silent, Dialog, Balanced, Has

LEMMA OkLast ==
  ASSUME NEW q, Ok(q), NEW m \in Methods
  PROVE  Ok([q EXCEPT !.lastmsg = m])
BY DEF Ok, Sound, Silent, Dialog, Balanced, Has

LEMMA OkPackets ==
  ASSUME NEW q, Ok(q), NEW s \in Seq(Packet)
  PROVE  Ok([q EXCEPT !.packets = s])
BY DEF Ok, Sound, Silent, Dialog, Balanced, Has

LEMMA OverPackets ==
  ASSUME NEW q, Over(q), NEW s \in Seq(Packet)
  PROVE  Over([q EXCEPT !.packets = s])
<1> DEFINE r == [q EXCEPT !.packets = s]
<1>1. Sound(r)
  BY DEF Over, Sound, Dialog, Balanced, Has
<1>2. r.out = q.out /\ r.pendinginvite = q.pendinginvite
  BY DEF Over, Sound, Dialog
<1> QED
  BY <1>1, <1>2 DEF Over, Silent, Free

LEMMA OkSay ==
  ASSUME NEW q, Ok(q), NEW m \in Methods, NEW seq \in Nat, NEW code \in Nat,
         m # "BYE" \/ code # 0
  PROVE  Ok(Say(q, m, seq, code))
<1> DEFINE e == Msg("ua", m, seq, code)
<1>1. e \in Message /\ ~Bye(e)
  BY DEF Msg, Message, Bye
<1> HIDE DEF e
<1>2. Ok([q EXCEPT !.out = q.out \cup {e}])
  BY <1>1 DEF Ok, Sound, Silent, Dialog, Balanced, Has
<1> QED
  BY <1>2 DEF Say, e

LEMMA OkQueueHangup ==
  ASSUME NEW q, Ok(q)
  PROVE  Ok(QueueHangup(q))
BY OkFields, OkTruths DEF QueueHangup

LEMMA OkDestroyTimer ==
  ASSUME NEW q, Ok(q)
  PROVE  Ok(SchedDestroy(q)) /\ Ok(SchedDestroyFinal(q)) /\ Ok(CancelDestroy(q))
<1>1. "kill" \in Timers /\ {"final"} \subseteq Flags \ Special /\ {"left"} \cap Counters = {}
  BY DEF Timers, Flags, Counters, Special
<1> QED
  BY <1>1, OkTimers, OkOn, OkOff DEF SchedDestroy, SchedDestroyFinal, CancelDestroy

LEMMA OverSchedDestroy ==
  ASSUME NEW q, Over(q)
  PROVE  Over(SchedDestroy(q))
<1>1. "kill" \in Timers /\ {"left"} \subseteq Flags \ Counters
  BY DEF Timers, Flags, Counters
<1> QED
  BY <1>1, OverStarted, OverFlags DEF SchedDestroy
-----------------------------------------------------------------------------
(* Packets.                                                                *)

LEMMA RemoveKeeps ==
  ASSUME NEW S, NEW s \in Seq(S), NEW i \in DOMAIN s
  PROVE  RemoveAt(s, i) \in Seq(S)
<1>1. i \in 1 .. Len(s) /\ Len(s) \in Nat /\ i \in Int
  BY LenProperties
<1>2. SubSeq(s, 1, i - 1) \in Seq(S)
  <2>1. \A j \in 1 .. i - 1 : s[j] \in S
    BY <1>1
  <2> QED
    BY <1>1, <2>1, SubSeqProperties
<1>3. SubSeq(s, i + 1, Len(s)) \in Seq(S)
  <2>1. \A j \in i + 1 .. Len(s) : s[j] \in S
    BY <1>1
  <2> QED
    BY <1>1, <2>1, SubSeqProperties
<1> QED
  BY <1>2, <1>3, ConcatProperties DEF RemoveAt

LEMMA LeastNat ==
  ASSUME NEW S, S \subseteq Nat, S # {}
  PROVE  \E i \in S : \A j \in S : i <= j
<1> DEFINE R == OpToRel(<, Nat)
<1>1. IsWellFoundedOn(R, Nat)
  BY NatLessThanWellFounded
<1>2. \A x, y \in Nat : y < x => <<y, x>> \in R
  BY DEF OpToRel
<1> HIDE DEF R
<1>3. PICK x \in S : \A y \in S : ~(<<y, x>> \in R)
  BY <1>1, WFMin
<1>4. ASSUME NEW j \in S PROVE x <= j
  <2>1. x \in Nat /\ j \in Nat
    OBVIOUS
  <2>2. ~(<<j, x>> \in R)
    BY <1>3
  <2>3. ~(j < x)
    BY <2>1, <2>2, <1>2
  <2> QED
    BY <2>1, <2>3
<1> QED
  BY <1>4

\* The first of some packets is one of them.
LEMMA FirstOfFound ==
  ASSUME NEW s \in Seq(Packet), NEW S, S \subseteq DOMAIN s, S # {}
  PROVE  FirstOf(S) \in S
<1>1. S \subseteq Nat
  BY LenProperties
<1>2. \E i \in S : \A j \in S : i <= j
  BY <1>1, LeastNat
<1> QED
  BY <1>2 DEF FirstOf

LEMMA OkReliableXmit ==
  ASSUME NEW q, Ok(q), NEW seq \in Nat, NEW code \in Nat, NEW fatal \in BOOLEAN, NEW m \in Methods,
         m # "BYE"
  PROVE  Ok(ReliableXmit(q, seq, code, fatal, m))
<1> DEFINE r == IF m = "INVITE" /\ code = 0 THEN [q EXCEPT !.pendinginvite = seq] ELSE q
           pkt == [m |-> m, seq |-> seq, code |-> code, fatal |-> fatal, timer |-> TRUE]
<1>1. Ok(r)
  BY OkNumbers
<1>2. pkt \in Packet
  BY DEF Packet
<1> HIDE DEF r, pkt
<1>3. <<pkt>> \o r.packets \in Seq(Packet)
  BY <1>1, <1>2, OkFields
<1>4. Ok([r EXCEPT !.packets = <<pkt>> \o r.packets])
  BY <1>1, <1>3, OkPackets
<1> QED
  BY <1>4, OkSay DEF ReliableXmit, r, pkt

LEMMA OkAck ==
  ASSUME NEW q, Ok(q), NEW seq, NEW resp, NEW m
  PROVE  Ok(Ack(q, seq, resp, m))
<1> DEFINE found == Matching(q, seq, resp, m)
           rest == RemoveAt(q.packets, FirstOf(found))
           n == IF ~resp /\ seq = q.pendinginvite THEN 0 ELSE q.pendinginvite
<1>1. CASE found = {}
  BY <1>1 DEF Ack
<1>2. CASE found # {}
  <2>1. found \subseteq DOMAIN q.packets /\ q.packets \in Seq(Packet)
    BY OkFields DEF Matching
  <2> HIDE DEF found
  <2>2. FirstOf(found) \in DOMAIN q.packets
    BY <1>2, <2>1, FirstOfFound
  <2>3. rest \in Seq(Packet) /\ n \in Nat
    BY <2>1, <2>2, RemoveKeeps, OkFields
  <2>4. Ack(q, seq, resp, m) = [q EXCEPT !.packets = rest, !.pendinginvite = n]
    BY <1>2 DEF Ack, found
  <2> HIDE DEF rest, n
  <2>5. Ok([q EXCEPT !.packets = rest, !.pendinginvite = n])
    BY <2>3 DEF Ok, Sound, Silent, Dialog, Balanced, Has
  <2> QED
    BY <2>4, <2>5
<1> QED
  BY <1>1, <1>2

LEMMA OkPretendAck ==
  ASSUME NEW q, Ok(q)
  PROVE  Ok(PretendAck(q))
<1> DEFINE n == IF \E i \in DOMAIN q.packets : q.packets[i].code = 0 /\ q.packets[i].seq = q.pendinginvite
                THEN 0 ELSE q.pendinginvite
<1>1. n \in Nat /\ <<>> \in Seq(Packet)
  BY OkFields
<1>2. PretendAck(q) = [q EXCEPT !.packets = <<>>, !.pendinginvite = n]
  BY DEF PretendAck
<1> HIDE DEF n
<1>3. Ok([q EXCEPT !.packets = <<>>, !.pendinginvite = n])
  BY <1>1 DEF Ok, Sound, Silent, Dialog, Balanced, Has
<1> QED
  BY <1>2, <1>3

LEMMA QuietPacket ==
  ASSUME NEW pkt \in Packet
  PROVE  [pkt EXCEPT !.timer = FALSE] \in Packet
BY DEF Packet

LEMMA OkSemiAck ==
  ASSUME NEW q, Ok(q), NEW seq, NEW resp, NEW m
  PROVE  Ok(SemiAck(q, seq, resp, m)) /\ Ok(SemiAckAll(q))
<1>1. Ok(SemiAckAll(q))
  <2> DEFINE s == [i \in DOMAIN q.packets |-> [q.packets[i] EXCEPT !.timer = FALSE]]
  <2>1. q.packets \in Seq(Packet)
    BY OkFields
  <2>2. \A i \in DOMAIN q.packets : s[i] \in Packet
    <3>1. ASSUME NEW i \in DOMAIN q.packets PROVE q.packets[i] \in Packet
      BY <2>1
    <3> QED
      BY <3>1, QuietPacket
  <2> DEFINE n == Len(q.packets)
  <2>3. n \in Nat /\ DOMAIN q.packets = 1 .. n
    BY <2>1, LenProperties
  <2> HIDE DEF n
  <2>4. s \in [1 .. n -> Packet]
    BY <2>2, <2>3
  <2>5. s \in Seq(Packet)
    BY <2>3, <2>4, SeqDef
  <2> QED
    BY <2>5, OkPackets DEF SemiAckAll
<1>2. Ok(SemiAck(q, seq, resp, m))
  <2> DEFINE found == Matching(q, seq, resp, m)
             i == FirstOf(found)
             s == [q.packets EXCEPT ![i] = [q.packets[i] EXCEPT !.timer = FALSE]]
  <2>1. CASE found = {}
    BY <2>1 DEF SemiAck
  <2>2. CASE found # {}
    <3>1. found \subseteq DOMAIN q.packets /\ q.packets \in Seq(Packet)
      BY OkFields DEF Matching
    <3> HIDE DEF found
    <3>2. i \in DOMAIN q.packets
      BY <2>2, <3>1, FirstOfFound
    <3> HIDE DEF i
    <3>3. [q.packets[i] EXCEPT !.timer = FALSE] \in Packet
      BY <3>1, <3>2, QuietPacket
    <3>4. s \in Seq(Packet)
      BY <3>1, <3>2, <3>3, ExceptSeq
    <3>5. SemiAck(q, seq, resp, m) = [q EXCEPT !.packets = s]
      <4>1. SemiAck(q, seq, resp, m) = [q EXCEPT !.packets[i].timer = FALSE]
        BY <2>2 DEF SemiAck, found, i
      <4>2. [q EXCEPT !.packets[i].timer = FALSE] = [q EXCEPT !.packets = s]
        BY DEF Ok, Sound, Dialog
      <4> QED
        BY <4>1, <4>2
    <3> HIDE DEF s
    <3> QED
      BY <3>4, <3>5, OkPackets
  <2> QED
    BY <2>1, <2>2
<1> QED
  BY <1>1, <1>2
-----------------------------------------------------------------------------
(* Requests and responses, counters, and what waits for a pending INVITE.  *)

LEMMA OkNextSeq ==
  ASSUME NEW q, Ok(q), NEW m \in Methods
  PROVE  Ok(NextSeq(q, m)) /\ NextSeq(q, m).ocseq \in Nat
<1>1. q.ocseq + 1 \in Nat
  BY OkFields
<1>2. Ok(NextSeq(q, m))
  BY <1>1 DEF NextSeq, Ok, Sound, Silent, Dialog, Balanced, Has
<1> QED
  BY <1>2, OkFields

LEMMA OkSent ==
  ASSUME NEW q, Ok(q)
  PROVE  Ok(SendCancel(q)) /\ Ok(SendInvite(q)) /\ Over(SendReinvite(q))
<1>1. {"CANCEL", "INVITE"} \subseteq Methods /\ 0 \in Nat /\ "cancelled" \in Open \cup Ended
      /\ {"outgoing", "reinvite"} \subseteq Flags \ Counters
  BY DEF Methods, Open, Ended, Flags, Counters
<1>2. Ok(SendCancel(q))
  <2>1. q.lastinvite \in Nat
    BY OkFields
  <2>2. Ok([State(q, "cancelled") EXCEPT !.lastmsg = "CANCEL"])
    BY <1>1, OkState, OkLast
  <2> QED
    BY <1>1, <2>1, <2>2, OkReliableXmit DEF SendCancel
<1>3. Ok(SendInvite(q))
  <2> DEFINE r == NextSeq(q, "INVITE")
  <2>1. Ok(r) /\ r.ocseq \in Nat
    BY <1>1, OkNextSeq
  <2> HIDE DEF r
  <2>2. Ok([r EXCEPT !.lastinvite = r.ocseq])
    BY <2>1, OkNumbers
  <2> QED
    BY <1>1, <2>1, <2>2, OkReliableXmit DEF SendInvite, r
<1>4. Over(SendReinvite(q))
  BY <1>1, <1>3, OkOver, OverFlags DEF SendReinvite
<1> QED
  BY <1>2, <1>3, <1>4

\* A BYE is sent when it may be.
LEMMA OverBye ==
  ASSUME NEW q, Ok(q), Free(q)
  PROVE  /\ Over(SendBye(q)) /\ Len(q.packets) \in Nat
         /\ Len(SendBye(q).packets) = Len(q.packets) + 1
<1> DEFINE r == NextSeq(q, "BYE")
           pkt == [m |-> "BYE", seq |-> r.ocseq, code |-> 0, fatal |-> FALSE, timer |-> TRUE]
           e == Msg("ua", "BYE", r.ocseq, 0)
           s == <<pkt>> \o r.packets
<1>1. Ok(r) /\ r.ocseq \in Nat /\ "BYE" \in Methods
  BY OkNextSeq DEF Methods
<1>2. r.packets = q.packets /\ r.pendinginvite = q.pendinginvite
  BY DEF NextSeq, Ok, Sound, Dialog
<1>3. SendBye(q) = [r EXCEPT !.packets = s, !.out = r.out \cup {e}]
  <2> DEFINE t == [r EXCEPT !.packets = s]
  <2>1. SendBye(q) = [t EXCEPT !.out = @ \cup {e}]
    BY DEF SendBye, ReliableXmit, Say
  <2> HIDE DEF s, e, r
  <2>2. [t EXCEPT !.out = @ \cup {e}] = [r EXCEPT !.packets = s, !.out = r.out \cup {e}]
    BY <1>1 DEF Ok, Sound, Dialog
  <2> QED
    BY <2>1, <2>2
<1>4. pkt \in Packet /\ e \in Message
  BY <1>1 DEF Packet, Message, Msg
<1> HIDE DEF r, pkt, e
<1>5. r.packets \in Seq(Packet)
  BY <1>1, OkFields
<1>6. s \in Seq(Packet) /\ Len(s) = Len(q.packets) + 1 /\ Len(q.packets) \in Nat
  BY <1>2, <1>4, <1>5
<1> HIDE DEF s
<1> DEFINE t == [r EXCEPT !.packets = s, !.out = r.out \cup {e}]
<1>7. Sound(t)
  BY <1>1, <1>4, <1>6 DEF Ok, Sound, Dialog, Balanced, Has
<1>8. t.pendinginvite = q.pendinginvite /\ t.packets = s
  BY <1>1, <1>2 DEF Ok, Sound, Dialog
<1> HIDE DEF t
<1>9. Over(t)
  BY <1>7, <1>8 DEF Over, Free
<1> QED
  BY <1>3, <1>6, <1>8, <1>9 DEF t

LEMMA OkSendAck ==
  ASSUME NEW q, Ok(q), NEW seq \in Nat
  PROVE  Ok(SendAck(q, seq))
<1>1. "ACK" \in Methods /\ 0 \in Nat /\ "confirmed" \in Open \cup Ended
  BY DEF Methods, Open, Ended
<1>2. Ok([State(q, "confirmed") EXCEPT !.lastmsg = "ACK"])
  BY <1>1, OkState, OkLast
<1> QED
  BY <1>1, <1>2, OkSay DEF SendAck

LEMMA OkRespond ==
  ASSUME NEW q, Ok(q), NEW code \in Nat, NEW seq \in Nat, NEW m \in Methods,
         m # "BYE" \/ code # 0
  PROVE  Ok(Respond(q, code, m, seq))
BY OkSay DEF Respond

LEMMA OkRespondReliably ==
  ASSUME NEW q, Ok(q), NEW code \in Nat, NEW seq \in Nat
  PROVE  Ok(RespondReliably(q, code, seq, TRUE)) /\ Ok(RespondReliably(q, code, seq, FALSE))
<1>1. "INVITE" \in Methods /\ "prov" \in Timers /\ TRUE \in BOOLEAN /\ FALSE \in BOOLEAN
  BY DEF Methods, Timers
<1>2. Ok(Stopped(q, "prov"))
  BY <1>1, OkTimers
<1>3. Ok(ReliableXmit(Stopped(q, "prov"), seq, code, TRUE, "INVITE"))
      /\ Ok(ReliableXmit(q, seq, code, FALSE, "INVITE"))
  BY <1>1, <1>2, OkReliableXmit
<1> QED
  BY <1>3 DEF RespondReliably

LEMMA OkRespondProvisionally ==
  ASSUME NEW q, Ok(q), NEW code \in Nat
  PROVE  Ok(RespondProvisionally(q, code))
<1>1. "INVITE" \in Methods /\ "prov" \in Timers
  BY DEF Methods, Timers
<1> QED
  BY <1>1, OkFields, OkTimers, OkRespond DEF RespondProvisionally

\* A flag of the counters goes with its count.
LEMMA CountFlags ==
  ASSUME NEW q, Ok(q), NEW n \in Nat, NEW k \in Nat, NEW fs \in SUBSET Flags,
         n = sc.others + (IF "inc_count" \in fs THEN 1 ELSE 0),
         k = IF "inc_ringing" \in fs THEN 1 ELSE 0, fs \ q.fl \subseteq Counters
  PROVE  Ok([q EXCEPT !.inuse = n, !.ringing = k, !.fl = fs])
<1> DEFINE r == [q EXCEPT !.inuse = n, !.ringing = k, !.fl = fs]
<1>1. r \in Dialog
  BY ZenonT(40) DEF Ok, Sound, Dialog
<1>2. r.inuse = n /\ r.ringing = k /\ r.fl = fs /\ r.alive = "live" /\ sc.others \in Nat
      /\ r.out = q.out /\ ("reinvite" \in r.fl => "reinvite" \in q.fl)
  BY DEF Ok, Sound, Dialog, Counters
<1> HIDE DEF r
<1>3. Ok(r)
  BY <1>1, <1>2 DEF Ok, Sound, Silent, Balanced, Has
<1> QED
  BY <1>3 DEF r

LEMMA OkCounters ==
  ASSUME NEW q, Ok(q)
  PROVE  /\ Ok(IncCall(q)) /\ Ok(IncRinging(q)) /\ Ok(DecRinging(q)) /\ Ok(DecCall(q))
         /\ ~Has(DecCall(q), "inc_count") /\ ~Has(DecCall(q), "inc_ringing")
<1>0. ASSUME NEW r, Ok(r)
      PROVE  /\ r.inuse \in Nat /\ r.ringing \in Nat /\ r.fl \in SUBSET Flags /\ sc.others \in Nat
             /\ r.inuse = sc.others + (IF "inc_count" \in r.fl THEN 1 ELSE 0)
             /\ r.ringing = IF "inc_ringing" \in r.fl THEN 1 ELSE 0
  BY <1>0 DEF Ok, Sound, Silent, Dialog, Balanced, Has
<1>1. ASSUME NEW r, Ok(r) PROVE Ok(IncCall(r))
  <2>1. CASE Has(r, "inc_count")
    BY <1>1, <2>1 DEF IncCall
  <2>2. CASE ~Has(r, "inc_count")
    <3> DEFINE fs == r.fl \cup {"inc_count"}
               n == r.inuse + 1
               k == r.ringing
    <3>1. fs \in SUBSET Flags /\ n \in Nat /\ k \in Nat /\ fs \ r.fl \subseteq Counters
      BY <1>0, <1>1 DEF Flags, Counters
    <3>2. n = sc.others + (IF "inc_count" \in fs THEN 1 ELSE 0)
          /\ k = IF "inc_ringing" \in fs THEN 1 ELSE 0
      BY <1>0, <1>1, <2>2 DEF Has
    <3>3. IncCall(r) = [r EXCEPT !.inuse = n, !.ringing = k, !.fl = fs]
      BY <1>1, <2>2 DEF IncCall, On, Ok, Sound, Dialog
    <3> HIDE DEF fs, n, k
    <3>4. Ok([r EXCEPT !.inuse = n, !.ringing = k, !.fl = fs])
      BY <1>1, <3>1, <3>2, CountFlags
    <3> QED
      BY <3>3, <3>4
  <2> QED
    BY <2>1, <2>2
<1>2. Ok(IncRinging(q))
  <2>1. CASE Has(q, "inc_ringing")
    BY <1>1, <2>1 DEF IncRinging
  <2>2. CASE ~Has(q, "inc_ringing")
    <3> DEFINE fs == q.fl \cup {"inc_ringing"}
               n == q.inuse
               k == q.ringing + 1
    <3>1. fs \in SUBSET Flags /\ n \in Nat /\ k \in Nat /\ fs \ q.fl \subseteq Counters
      BY <1>0 DEF Flags, Counters
    <3>2. n = sc.others + (IF "inc_count" \in fs THEN 1 ELSE 0)
          /\ k = IF "inc_ringing" \in fs THEN 1 ELSE 0
      BY <1>0, <2>2 DEF Has
    <3>3. On([q EXCEPT !.ringing = q.ringing + 1], {"inc_ringing"})
          = [q EXCEPT !.inuse = n, !.ringing = k, !.fl = fs]
      BY DEF On, Ok, Sound, Dialog
    <3> HIDE DEF fs, n, k
    <3>4. Ok([q EXCEPT !.inuse = n, !.ringing = k, !.fl = fs])
      BY <3>1, <3>2, CountFlags
    <3> QED
      BY <1>1, <2>2, <3>3, <3>4 DEF IncRinging
  <2> QED
    BY <2>1, <2>2
<1>3. ASSUME NEW r, Ok(r) PROVE Ok(DecRinging(r)) /\ ~Has(DecRinging(r), "inc_ringing")
                             /\ (Has(DecRinging(r), "inc_count") <=> Has(r, "inc_count"))
  <2>1. CASE Has(r, "inc_ringing")
    <3> DEFINE fs == r.fl \ {"inc_ringing"}
               n == r.inuse
               k == r.ringing - 1
    <3>1. fs \in SUBSET Flags /\ n \in Nat /\ k \in Nat /\ fs \ r.fl \subseteq Counters
      BY <1>0, <1>3, <2>1 DEF Has
    <3>2. n = sc.others + (IF "inc_count" \in fs THEN 1 ELSE 0)
          /\ k = IF "inc_ringing" \in fs THEN 1 ELSE 0
      BY <1>0, <1>3, <2>1 DEF Has
    <3>3. DecRinging(r) = [r EXCEPT !.inuse = n, !.ringing = k, !.fl = fs]
      BY <1>3, <2>1 DEF DecRinging, Off, Ok, Sound, Dialog
    <3>4. DecRinging(r).fl = fs
      BY <1>3, <3>3 DEF Ok, Sound, Dialog
    <3>5. "inc_ringing" \notin fs /\ ("inc_count" \in fs <=> "inc_count" \in r.fl)
      OBVIOUS
    <3> HIDE DEF fs, n, k
    <3>6. Ok([r EXCEPT !.inuse = n, !.ringing = k, !.fl = fs])
      BY <1>3, <3>1, <3>2, CountFlags
    <3> QED
      BY <3>3, <3>4, <3>5, <3>6 DEF Has
  <2>2. CASE ~Has(r, "inc_ringing")
    BY <1>3, <2>2 DEF DecRinging
  <2> QED
    BY <2>1, <2>2
<1>4. Ok(DecCall(q)) /\ ~Has(DecCall(q), "inc_count") /\ ~Has(DecCall(q), "inc_ringing")
  <2> DEFINE r == IF Has(q, "inc_count") THEN Off([q EXCEPT !.inuse = q.inuse - 1], {"inc_count"}) ELSE q
  <2>1. Ok(r) /\ ~Has(r, "inc_count")
    <3>1. CASE Has(q, "inc_count")
      <4> DEFINE fs == q.fl \ {"inc_count"}
                 n == q.inuse - 1
                 k == q.ringing
      <4>1. fs \in SUBSET Flags /\ n \in Nat /\ k \in Nat /\ fs \ q.fl \subseteq Counters
        BY <1>0, <3>1 DEF Has
      <4>2. n = sc.others + (IF "inc_count" \in fs THEN 1 ELSE 0)
            /\ k = IF "inc_ringing" \in fs THEN 1 ELSE 0
        BY <1>0, <3>1 DEF Has
      <4>3. r = [q EXCEPT !.inuse = n, !.ringing = k, !.fl = fs]
        BY <3>1 DEF Off, Ok, Sound, Dialog
      <4>4. r.fl = fs
        BY <4>3 DEF Ok, Sound, Dialog
      <4>5. "inc_count" \notin fs
        OBVIOUS
      <4> HIDE DEF fs, n, k, r
      <4>6. Ok([q EXCEPT !.inuse = n, !.ringing = k, !.fl = fs])
        BY <4>1, <4>2, CountFlags
      <4> QED
        BY <4>3, <4>4, <4>5, <4>6 DEF Has
    <3>2. CASE ~Has(q, "inc_count")
      BY <3>2
    <3> QED
      BY <3>1, <3>2
  <2>2. DecCall(q) = DecRinging(r)
    BY DEF DecCall
  <2> HIDE DEF r
  <2> QED
    BY <1>3, <2>1, <2>2
<1> QED
  BY <1>1, <1>2, <1>3, <1>4

\* update_call_counter leaves the rest alone.
LEMMA DecCallKeeps ==
  ASSUME NEW q, Ok(q)
  PROVE  DecCall(q).pendinginvite = q.pendinginvite
BY DEF DecCall, DecRinging, Off, Ok, Sound, Dialog

LEMMA OverCheckPendings ==
  ASSUME NEW q, Ok(q)
  PROVE  Over(CheckPendings(q))
<1>1. {"pendingbye"} \cap Counters = {} /\ {"pendingbye"} \subseteq Flags \ Counters
      /\ {"needreinvite"} \subseteq Flags \ Counters
  BY DEF Flags, Counters
<1>2. ASSUME Free(q) PROVE Over(SchedDestroy(Off(SendBye(QueueHangup(q)), {"pendingbye"})))
  <2>1. Ok(QueueHangup(q)) /\ Free(QueueHangup(q))
    <3>1. QueueHangup(q).pendinginvite = q.pendinginvite
      BY DEF QueueHangup, Ok, Sound, Dialog
    <3> QED
      BY <1>2, <3>1, OkQueueHangup DEF Free
  <2>2. Over(SendBye(QueueHangup(q)))
    BY <2>1, OverBye
  <2> QED
    BY <1>1, <2>2, OverFlags, OverSchedDestroy
<1>3. Ok(SchedDestroy(SendCancel(q))) /\ Ok(SchedDestroy(Off(SendCancel(q), {"pendingbye"})))
  BY <1>1, OkSent, OkOff, OkDestroyTimer
<1>4. Over(Off(SendReinvite(q), {"needreinvite"}))
  BY <1>1, OkSent, OverFlags
<1>5. q.pendinginvite = 0 \/ Has(q, "reinvite") => Free(q)
  BY DEF Ok, Free
<1>6. CASE Has(q, "pendingbye")
  <2>1. CASE "reinvite" \in q.tm
    BY <1>6, <2>1, OkOver DEF CheckPendings
  <2>2. CASE "reinvite" \notin q.tm /\ q.inv \in {"proceeding", "early"}
    BY <1>3, <1>6, <2>2, OkOver DEF CheckPendings
  <2>3. CASE "reinvite" \notin q.tm /\ q.inv \notin {"proceeding", "early"}
    BY <1>2, <1>5, <1>6, <2>3, OkOver DEF CheckPendings
  <2> QED
    BY <2>1, <2>2, <2>3
<1>7. CASE ~Has(q, "pendingbye")
  BY <1>4, <1>7, OkOver DEF CheckPendings
<1> QED
  BY <1>6, <1>7

LEMMA OverSetRtpPeer ==
  ASSUME NEW q, Ok(q)
  PROVE  Over(SetRtpPeer(q))
<1>1. {"needreinvite"} \subseteq Flags \ Special
  BY DEF Flags, Counters, Special
<1> QED
  BY <1>1, OkSent, OkOn, OkOver DEF SetRtpPeer

LEMMA OverHangup ==
  ASSUME NEW q, Ok(q)
  PROVE  Over(Hangup(q))
<1>1. /\ {"pendingbye"} \subseteq Flags \ Special /\ {"needdestroy"} \subseteq Flags \ Special
      /\ {"needreinvite"} \cap Counters = {} /\ {"prov", "wait", "reinvite"} \subseteq Timers
      /\ "terminated" \in Open \cup Ended /\ 603 \in Nat
  BY DEF Flags, Counters, Special, Timers, Open, Ended
<1>2. q.initseq \in Nat
  BY OkFields
<1>3. ASSUME NEW r, Ok(r) PROVE Over(HangupUnanswered(q, r))
  <2>1. Ok(SchedDestroy(On(r, {"pendingbye"})))
    BY <1>1, <1>3, OkOn, OkDestroyTimer
  <2>2. Ok(SchedDestroy(SendCancel(SemiAckAll(r))))
    BY <1>3, OkSemiAck, OkSent, OkDestroyTimer
  <2>3. Ok(State(RespondReliably(Stopped(r, "prov"), 603, q.initseq, TRUE), "terminated"))
    BY <1>1, <1>2, <1>3, OkTimers, OkRespondReliably, OkState, ZenonT(40)
  <2> QED
    BY <2>1, <2>2, <2>3, OkOver DEF HangupUnanswered
<1>4. ASSUME NEW r, Ok(r), r.pendinginvite = q.pendinginvite PROVE Over(HangupAnswered(q, r))
  <2>1. q.pendinginvite = 0 => Over(SendBye(r))
    BY <1>4, OverBye DEF Free
  <2>2. Ok(CancelDestroy(Stopped(Off(On(r, {"pendingbye"}), {"needreinvite"}), "wait")))
    BY <1>1, <1>4, OkOn, OkOff, OkTimers, OkDestroyTimer
  <2> DEFINE s == CancelDestroy(Stopped(Off(On(r, {"pendingbye"}), {"needreinvite"}), "wait"))
  <2>3. Ok(s) /\ Ok(Started(s, "reinvite"))
    BY <1>1, <2>2, OkTimers
  <2> HIDE DEF s
  <2> QED
    BY <1>4, <2>1, <2>3, OkOver DEF HangupAnswered, s
<1> DEFINE r == [DecCall(q) EXCEPT !.owner = FALSE, !.soft = FALSE, !.answer = FALSE, !.ch = "none"]
<1>5. Ok(r) /\ r.pendinginvite = q.pendinginvite
  <2> DEFINE s == DecCall(q)
  <2>1. Ok(s) /\ s.pendinginvite = q.pendinginvite
    BY OkCounters, DecCallKeeps
  <2> HIDE DEF s
  <2>2. Ok([s EXCEPT !.owner = FALSE, !.soft = FALSE, !.answer = FALSE, !.ch = "none"])
    <3> DEFINE a == [s EXCEPT !.owner = FALSE]
               b == [a EXCEPT !.soft = FALSE]
               c == [b EXCEPT !.answer = FALSE]
    <3>1. Ok(a)
      BY <2>1, FALSE \in BOOLEAN, OkTruths
    <3> HIDE DEF a
    <3>2. Ok(b)
      BY <3>1, FALSE \in BOOLEAN, OkTruths
    <3> HIDE DEF b
    <3>3. Ok(c)
      BY <3>2, FALSE \in BOOLEAN, OkTruths
    <3> HIDE DEF c
    <3>4. Ok([c EXCEPT !.ch = "none"])
      BY <3>3, OkChannel
    <3> QED
      BY <3>4 DEF a, b, c
  <2>3. [s EXCEPT !.owner = FALSE, !.soft = FALSE, !.answer = FALSE, !.ch = "none"].pendinginvite
          = q.pendinginvite
    BY <2>1 DEF Ok, Sound, Dialog
  <2> QED
    BY <2>2, <2>3 DEF s
<1> HIDE DEF r
<1>6. Ok(On(r, {"needdestroy"})) /\ Ok(SchedDestroy(r))
  BY <1>1, <1>5, OkOn, OkDestroyTimer
<1> DEFINE t == IF q.inv # "calling" THEN SchedDestroy(r) ELSE r
<1>7. Ok(t) /\ t.pendinginvite = q.pendinginvite
  <2>1. SchedDestroy(r).pendinginvite = r.pendinginvite
    BY <1>5 DEF SchedDestroy, Started, Off, Ok, Sound, Dialog
  <2> QED
    BY <1>5, <1>6, <2>1
<1>8. Hangup(q) = IF Has(q, "alreadygone") THEN On(r, {"needdestroy"})
                  ELSE IF q.lastmsg = "none" THEN t
                  ELSE IF NeedCancel(q) THEN HangupUnanswered(q, t) ELSE HangupAnswered(q, t)
  BY DEF Hangup, r
<1> HIDE DEF t
<1> QED
  BY <1>3, <1>4, <1>6, <1>7, <1>8, OkOver

\* __sip_destroy takes the call out of the books.
LEMMA DestroyBalances ==
  ASSUME NEW q, Ok(q)
  PROVE  /\ Destroy(q) \in Dialog /\ Balanced(Destroy(q)) /\ Destroy(q).alive = "gone"
         /\ ~Has(Destroy(q), "inc_count") /\ ~Has(Destroy(q), "inc_ringing")
         /\ Silent(Destroy(q))
<1>1. Ok(Unlink(q))
  <2>1. <<>> \in Seq(Packet)
    OBVIOUS
  <2> QED
    BY <2>1 DEF Unlink, Ok, Sound, Silent, Dialog, Balanced, Has
<1> DEFINE r == DecCall(Unlink(q))
<1>2. Ok(r) /\ ~Has(r, "inc_count") /\ ~Has(r, "inc_ringing")
  BY <1>1, OkCounters
<1>3. Destroy(q) = [r EXCEPT !.alive = "gone"]
  BY DEF Destroy
<1> HIDE DEF r
<1> QED
  BY <1>2, <1>3 DEF Ok, Sound, Silent, Dialog, Balanced, Has
-----------------------------------------------------------------------------
(* The words of the operators, once for all.                               *)

LEMMA Words ==
  /\ Flags \ Special \subseteq Flags \ Counters /\ "reinvite" \in Flags \ Counters
  /\ "outgoing" \in Flags \ Special /\ "established" \in Flags \ Special
  /\ "pendingbye" \in Flags \ Special /\ "needreinvite" \in Flags \ Special
  /\ "alreadygone" \in Flags \ Special /\ "needdestroy" \in Flags \ Special
  /\ "final" \in Flags \ Special
  /\ "progress" \in Flags \ Special /\ "nonce" \in Flags \ Special
  /\ "left" \in Flags \ Special
  /\ "kill" \in Timers /\ "rekill" \in Timers /\ "init" \in Timers /\ "reinvite" \in Timers
  /\ "wait" \in Timers /\ "prov" \in Timers
  /\ "INVITE" \in Methods /\ "ACK" \in Methods /\ "BYE" \in Methods /\ "CANCEL" \in Methods
<1>1. /\ "outgoing" \in Flags \ Special /\ "established" \in Flags \ Special
      /\ "pendingbye" \in Flags \ Special /\ "needreinvite" \in Flags \ Special
      /\ "alreadygone" \in Flags \ Special /\ "needdestroy" \in Flags \ Special
      /\ "final" \in Flags \ Special
      /\ "progress" \in Flags \ Special /\ "nonce" \in Flags \ Special
      /\ "left" \in Flags \ Special
  BY DEF Flags, Counters, Special
<1>2. Flags \ Special \subseteq Flags \ Counters /\ "reinvite" \in Flags \ Counters
  BY DEF Flags, Counters, Special
<1> QED
  BY <1>1, <1>2 DEF Timers, Methods

LEMMA States ==
  /\ "none" \in Open \cup Ended /\ "calling" \in Open \cup Ended /\ "proceeding" \in Open \cup Ended
  /\ "early" \in Open \cup Ended /\ "completed" \in Open \cup Ended
  /\ "confirmed" \in Open \cup Ended /\ "terminated" \in Open \cup Ended
  /\ "cancelled" \in Open \cup Ended
BY DEF Open, Ended

LEMMA Codes ==
  401 \in Nat /\ 487 \in Nat /\ 488 \in Nat /\ 491 \in Nat /\ 503 \in Nat
OBVIOUS

LEMMA OkFlag ==
  ASSUME NEW q, Ok(q), NEW f \in Flags \ Special
  PROVE  Ok(On(q, {f})) /\ Ok(Off(q, {f}))
<1>1. {f} \subseteq Flags \ Special /\ {f} \cap Counters = {}
  BY DEF Special
<1> QED
  BY <1>1, OkOn, OkOff

LEMMA OverFlag ==
  ASSUME NEW q, Over(q), NEW f \in Flags \ Special
  PROVE  Over(On(q, {f})) /\ Over(Off(q, {f}))
<1>1. {f} \subseteq Flags \ Counters
  BY DEF Special
<1> QED
  BY <1>1, OverFlags
-----------------------------------------------------------------------------
(* The timers.                                                             *)

LEMMA SamePackets ==
  ASSUME NEW q, Over(q)
  PROVE  /\ \A fs : On(q, fs).packets = q.packets /\ Off(q, fs).packets = q.packets
         /\ \A s : State(q, s).packets = q.packets
         /\ QueueHangup(q).packets = q.packets /\ SchedDestroy(q).packets = q.packets
BY DEF Over, Sound, Dialog, On, Off, State, QueueHangup, SchedDestroy, Started

LEMMA XmitGrows ==
  ASSUME NEW q, Ok(q), NEW seq \in Nat, NEW code \in Nat, NEW fatal \in BOOLEAN, NEW m \in Methods
  PROVE  /\ Len(q.packets) \in Nat
         /\ Len(ReliableXmit(q, seq, code, fatal, m).packets) = Len(q.packets) + 1
<1> DEFINE pkt == [m |-> m, seq |-> seq, code |-> code, fatal |-> fatal, timer |-> TRUE]
<1>1. ReliableXmit(q, seq, code, fatal, m).packets = <<pkt>> \o q.packets
  BY DEF ReliableXmit, Say, Ok, Sound, Dialog
<1>2. pkt \in Packet /\ q.packets \in Seq(Packet)
  BY OkFields DEF Packet
<1> HIDE DEF pkt
<1>3. Len(<<pkt>> \o q.packets) = Len(q.packets) + 1 /\ Len(q.packets) \in Nat
  BY <1>2
<1> QED
  BY <1>1, <1>3

\* What waits for an INVITE only adds packets.
LEMMA CheckPendingsGrows ==
  ASSUME NEW q, Ok(q)
  PROVE  /\ Len(q.packets) \in Nat /\ Len(CheckPendings(q).packets) \in Nat
         /\ Len(CheckPendings(q).packets) >= Len(q.packets)
<1> DEFINE Longer(t) == Over(t) /\ Len(t.packets) = Len(q.packets) + 1
<1>1. Len(q.packets) \in Nat /\ {"pendingbye"} \subseteq Flags \ Counters
      /\ {"needreinvite"} \subseteq Flags \ Counters /\ {"outgoing", "reinvite"} \subseteq Flags \ Counters
  BY OkFields DEF Flags, Counters
<1>2. ASSUME NEW t, Longer(t), NEW fs, fs \subseteq Flags \ Counters
      PROVE  Longer(On(t, fs)) /\ Longer(Off(t, fs))
  BY <1>2, OverFlags, SamePackets
<1>3. ASSUME NEW t, Longer(t)
      PROVE  Longer(SchedDestroy(t))
  BY <1>3, OverSchedDestroy, SamePackets
<1>4. ASSUME Free(q) PROVE Longer(SendBye(QueueHangup(q)))
  <2>1. Ok(QueueHangup(q)) /\ QueueHangup(q).packets = q.packets
    BY OkQueueHangup, OkOver, SamePackets
  <2>2. Free(QueueHangup(q))
    <3>1. QueueHangup(q).pendinginvite = q.pendinginvite
      BY DEF QueueHangup, Ok, Sound, Dialog
    <3> QED
      BY <1>4, <3>1 DEF Free
  <2> QED
    BY <2>1, <2>2, OverBye
<1>5. Longer(SendCancel(q))
  <2> DEFINE r == [State(q, "cancelled") EXCEPT !.lastmsg = "CANCEL"]
  <2>1. Ok(r) /\ r.packets = q.packets /\ q.lastinvite \in Nat
    <3>1. Ok(r)
      BY Words, States, OkState, OkLast
    <3>2. r.packets = q.packets
      BY DEF State, Ok, Sound, Dialog
    <3> QED
      BY <3>1, <3>2, OkFields
  <2>2. SendCancel(q) = ReliableXmit(r, q.lastinvite, 0, FALSE, "CANCEL")
    BY DEF SendCancel
  <2> HIDE DEF r
  <2>3. "CANCEL" \in Methods /\ FALSE \in BOOLEAN /\ 0 \in Nat /\ "CANCEL" # "BYE"
    BY Words
  <2>4. Ok(ReliableXmit(r, q.lastinvite, 0, FALSE, "CANCEL"))
    BY <2>1, <2>3, OkReliableXmit
  <2>5. Len(ReliableXmit(r, q.lastinvite, 0, FALSE, "CANCEL").packets) = Len(r.packets) + 1
    BY <2>1, <2>3, XmitGrows
  <2> QED
    BY <2>1, <2>2, <2>4, <2>5, OkOver
<1>6. Longer(SendInvite(q))
  <2> DEFINE r == NextSeq(q, "INVITE")
             s == [r EXCEPT !.lastinvite = r.ocseq]
  <2>1. Ok(r) /\ r.ocseq \in Nat /\ r.packets = q.packets
    <3>1. Ok(r) /\ r.ocseq \in Nat
      BY Words, OkNextSeq
    <3>2. r.packets = q.packets
      BY DEF NextSeq, Ok, Sound, Dialog
    <3> QED
      BY <3>1, <3>2
  <2>2. SendInvite(q) = ReliableXmit(s, r.ocseq, 0, TRUE, "INVITE")
    BY DEF SendInvite
  <2> HIDE DEF r
  <2>3. Ok(s)
    BY <2>1, OkNumbers
  <2>4. s.packets = q.packets
    BY <2>1 DEF Ok, Sound, Dialog
  <2> HIDE DEF s
  <2>5. "INVITE" \in Methods /\ TRUE \in BOOLEAN /\ 0 \in Nat /\ "INVITE" # "BYE"
    BY Words
  <2>6. Ok(ReliableXmit(s, r.ocseq, 0, TRUE, "INVITE"))
    BY <2>1, <2>3, <2>5, OkReliableXmit
  <2>7. Len(ReliableXmit(s, r.ocseq, 0, TRUE, "INVITE").packets) = Len(s.packets) + 1
    BY <2>1, <2>3, <2>5, XmitGrows, ZenonT(40)
  <2> QED
    BY <2>2, <2>4, <2>6, <2>7, OkOver
<1> HIDE DEF Longer
<1>7. Free(q) => Longer(SchedDestroy(Off(SendBye(QueueHangup(q)), {"pendingbye"})))
  BY <1>1, <1>2, <1>3, <1>4
<1>8. Longer(SchedDestroy(SendCancel(q))) /\ Longer(SchedDestroy(Off(SendCancel(q), {"pendingbye"})))
  BY <1>1, <1>2, <1>3, <1>5
<1>9. Longer(Off(SendReinvite(q), {"needreinvite"}))
  BY <1>1, <1>2, <1>6 DEF SendReinvite
<1>10. q.pendinginvite = 0 \/ Has(q, "reinvite") => Free(q)
  BY DEF Ok, Free
<1>11. CheckPendings(q) = q \/ Longer(CheckPendings(q))
  <2>1. CASE Has(q, "pendingbye") /\ "reinvite" \in q.tm
    BY <2>1 DEF CheckPendings
  <2>2. CASE Has(q, "pendingbye") /\ "reinvite" \notin q.tm /\ q.inv \in {"proceeding", "early"}
    BY <1>8, <2>2 DEF CheckPendings
  <2>3. CASE Has(q, "pendingbye") /\ "reinvite" \notin q.tm /\ q.inv \notin {"proceeding", "early"}
    BY <1>7, <1>10, <2>3 DEF CheckPendings
  <2>4. CASE ~Has(q, "pendingbye")
    BY <1>9, <2>4 DEF CheckPendings
  <2> QED
    BY <2>1, <2>2, <2>3, <2>4
<1> QED
  BY <1>1, <1>11 DEF Longer

LEMMA OverRetransOver ==
  ASSUME NEW q, Ok(q), NEW pkt \in Packet
  PROVE  /\ Over(RetransOver(q, pkt))
         /\ Len(q.packets) \in Nat /\ Len(RetransOver(q, pkt).packets) \in Nat
         /\ Len(RetransOver(q, pkt).packets) >= Len(q.packets)
<1> DEFINE Good(r) == Over(r) /\ Len(r.packets) \in Nat /\ Len(r.packets) >= Len(q.packets)
<1>1. Len(q.packets) \in Nat
  BY OkFields
<1>2. ASSUME NEW r, Ok(r), r.packets = q.packets
      PROVE  Good(r) /\ Good(QueueHangup(r)) /\ Good(CheckPendings(r))
  BY <1>1, <1>2, OkOver, OkQueueHangup, SamePackets, OverCheckPendings, CheckPendingsGrows
<1>3. {"alreadygone", "needdestroy"} \subseteq Flags \ Special
      /\ {"needdestroy", "alreadygone"} \subseteq Flags \ Special
  BY Words
<1>4. ASSUME NEW r, Good(r) PROVE Good(On(r, {"alreadygone", "needdestroy"}))
  BY <1>3, <1>4, Words, OverFlags, SamePackets
<1> DEFINE t == [State(q, "terminated") EXCEPT !.pendinginvite = 0]
           a == On(q, {"alreadygone"})
           b == On(q, {"needdestroy", "alreadygone"})
<1>5. Ok(t) /\ t.packets = q.packets
  <2>1. Ok(t)
    BY States, OkState, OkNumbers
  <2>2. t.packets = q.packets
    BY DEF State, Ok, Sound, Dialog
  <2> QED
    BY <2>1, <2>2
<1>6. Ok(a) /\ a.packets = q.packets
  BY Words, OkFlag, OkOver, SamePackets
<1>7. Ok(b) /\ b.packets = q.packets
  BY <1>3, OkOn, OkOver, SamePackets
<1> DEFINE r == IF pkt.fatal THEN
                  IF q.owner THEN
                    QueueHangup(IF pkt.code \in 200 .. 299 /\ q.pendinginvite # 0 /\ Has(q, "established")
                                THEN t ELSE a)
                  ELSE b
                ELSE IF q.pendinginvite = pkt.seq THEN CheckPendings(t) ELSE q
<1>8. RetransOver(q, pkt) = IF pkt.m = "BYE" THEN On(r, {"alreadygone", "needdestroy"}) ELSE r
  BY DEF RetransOver
<1> HIDE DEF t, a, b, Good
<1>9. Good(r)
  BY <1>2, <1>5, <1>6, <1>7
<1> HIDE DEF r
<1>10. Good(RetransOver(q, pkt))
  BY <1>4, <1>8, <1>9
<1> QED
  BY <1>1, <1>10 DEF Good
-----------------------------------------------------------------------------
(* Responses.                                                              *)

LEMMA OkLeft ==
  ASSUME NEW q, Ok(q)
  PROVE  Ok(Left(q))
BY Words, OkFlag DEF Left

LEMMA OverProgress ==
  ASSUME NEW q, Ok(q), NEW code
  PROVE  Over(Progress(q, code))
<1> DEFINE r == IF q.inv # "cancelled" THEN CancelDestroy(q) ELSE q
           s == IF code = 183 /\ q.inv # "cancelled" THEN State(r, "early") ELSE r
           u == IF code = 180 /\ s.owner /\ s.ch # "up" THEN [s EXCEPT !.ch = "ringing"] ELSE s
           t == CheckPendings(u)
<1>1. Progress(q, code) = IF "kill" \in q.tm THEN Left(t) ELSE t
  BY DEF Progress
<1>2. Ok(r)
  BY OkDestroyTimer
<1> HIDE DEF r
<1>4. Ok(s)
  BY <1>2, States, OkState
<1> HIDE DEF s
<1>5. Ok(u)
  BY <1>4, OkChannel, ZenonT(40)
<1> HIDE DEF u
<1>6. Over(t)
  BY <1>5, OverCheckPendings
<1> HIDE DEF t
<1>7. Over(Left(t))
  BY <1>6, Words, OverFlag DEF Left
<1> QED
  BY <1>1, <1>6, <1>7

LEMMA OverAnswered ==
  ASSUME NEW q, Ok(q), NEW seq \in Nat, NEW how, NEW again \in BOOLEAN
  PROVE  Over(Answered(q, seq, how, again))
<1> DEFINE c == IF q.inv # "cancelled" THEN CancelDestroy(q) ELSE q
           r == DecRinging(c)
           ends == \/ ~q.owner \/ how = "contact"
                   \/ how = "media" /\ ~again
           t == IF ends THEN On(r, {"pendingbye"}) ELSE r
           a == t.answer \/ (q.owner /\ ~again /\ how # "media")
           b == t.soft \/ (q.owner /\ ~again /\ how = "media")
           s == [t EXCEPT !.authtries = 0, !.answer = a, !.soft = b]
<1>1. Answered(q, seq, how, again) = CheckPendings(SendAck(On(s, {"established"}), seq))
  BY DEF Answered
<1>2. Ok(c)
  BY OkDestroyTimer
<1> HIDE DEF c
<1>3. Ok(r)
  BY <1>2, OkCounters
<1> HIDE DEF r, ends
<1>4. Ok(t)
  BY <1>3, Words, OkFlag
<1> HIDE DEF t
<1>5. a \in BOOLEAN /\ b \in BOOLEAN
  OBVIOUS
<1> HIDE DEF a, b
<1>6. s = [[[t EXCEPT !.authtries = 0] EXCEPT !.answer = a] EXCEPT !.soft = b]
  BY <1>4 DEF Ok, Sound, Dialog
<1>7. Ok([t EXCEPT !.authtries = 0])
  BY <1>4, OkNumbers
<1>8. Ok([[t EXCEPT !.authtries = 0] EXCEPT !.answer = a])
  BY <1>5, <1>7, OkTruths
<1>9. Ok(s)
  BY <1>5, <1>6, <1>8, OkTruths
<1> HIDE DEF s
<1> QED
  BY <1>1, <1>9, Words, OkFlag, OkSendAck, OverCheckPendings

LEMMA OkTries ==
  ASSUME NEW q, Ok(q)
  PROVE  Ok([q EXCEPT !.authtries = @ + 1])
<1>1. q.authtries + 1 \in Nat
  BY OkFields
<1> QED
  BY <1>1, OkNumbers

LEMMA OverTries ==
  ASSUME NEW q, Over(q)
  PROVE  Over([q EXCEPT !.authtries = @ + 1])
<1> DEFINE n == q.authtries + 1
           r == [q EXCEPT !.authtries = n]
<1>1. n \in Nat
  BY OkFields
<1> HIDE DEF n
<1>2. Sound(r)
  BY <1>1 DEF Over, Sound, Dialog, Balanced, Has
<1>3. r.out = q.out /\ r.pendinginvite = q.pendinginvite
  BY DEF Over, Sound, Dialog
<1> HIDE DEF r
<1>4. Over(r)
  BY <1>2, <1>3 DEF Over, Silent, Free
<1> QED
  BY <1>4 DEF r, n

LEMMA OkGone ==
  ASSUME NEW q, Ok(q)
  PROVE  Ok(On(q, {"needdestroy", "alreadygone"}))
<1>1. {"needdestroy", "alreadygone"} \subseteq Flags \ Special
  BY Words
<1> QED
  BY <1>1, OkOn

LEMMA OkChallenged ==
  ASSUME NEW q, Ok(q), NEW seq \in Nat
  PROVE  Ok(Challenged(q, seq))
<1>1. Ok(SendAck(q, seq))
  BY OkSendAck
<1>2. Ok(SendInvite(State(SendAck(q, seq), "calling")))
  BY <1>1, States, OkState, OkSent
<1> QED
  BY <1>1, <1>2, OkTries, OkGone, OkQueueHangup DEF Challenged

LEMMA OverTerminated ==
  ASSUME NEW q, Ok(q), NEW seq \in Nat
  PROVE  Over(Terminated(q, seq))
<1> DEFINE r == SendAck(q, seq)
           t == IF r.owner THEN QueueHangup(r) ELSE DecCall(r)
<1>1. Ok(t)
  BY OkSendAck, OkQueueHangup, OkCounters
<1>2. Terminated(q, seq) = SchedDestroy(CheckPendings(t))
  BY DEF Terminated
<1> HIDE DEF t
<1> QED
  BY <1>1, <1>2, OverCheckPendings, OverSchedDestroy

LEMMA OkForgotten ==
  ASSUME NEW q, Ok(q)
  PROVE  Ok(Forgotten(q))
BY OkLeft DEF Forgotten

LEMMA OkRequestPending ==
  ASSUME NEW q, Ok(q), NEW seq \in Nat
  PROVE  Ok(RequestPending(q, seq))
BY Words, OkSendAck, OkForgotten, OkQueueHangup, OkTimers DEF RequestPending

LEMMA OkSettle ==
  ASSUME NEW q, Ok(q), NEW code, NEW seq
  PROVE  Ok(Settle(q, code, seq))
<1> DEFINE r == Stopped(q, "init")
           s == IF code < 200 /\ r.inv = "calling" THEN State(r, "proceeding")
                ELSE IF code >= 300 /\ r.inv \in {"calling", "proceeding", "early"}
                THEN State(r, "completed") ELSE r
           t == IF code >= 200 /\ Has(s, "established") THEN Stopped(Off(s, {"reinvite"}), "reinvite")
                ELSE s
<1>1. Settle(q, code, seq) = IF code >= 200 /\ seq = t.pendinginvite THEN [t EXCEPT !.pendinginvite = 0] ELSE t
  BY DEF Settle
<1>2. Ok(r)
  BY Words, OkTimers
<1> HIDE DEF r
<1>3. Ok(s)
  BY <1>2, States, OkState
<1> HIDE DEF s
<1>4. Ok(t)
  <2>1. {"reinvite"} \cap Counters = {} /\ "reinvite" \in Timers
    BY Words
  <2>2. Ok(Stopped(Off(s, {"reinvite"}), "reinvite"))
    BY <1>3, <2>1, OkOff, OkTimers
  <2> QED
    BY <1>3, <2>2
<1> HIDE DEF t
<1>5. Ok([t EXCEPT !.pendinginvite = 0])
  BY <1>4, OkNumbers
<1> QED
  BY <1>1, <1>4, <1>5

LEMMA OverInviteResponse ==
  ASSUME NEW q, Ok(q), NEW code, NEW seq \in Nat, NEW how
  PROVE  Over(InviteResponse(q, code, seq, how))
<1> DEFINE r == Settle(q, code, seq)
           again == Has(q, "established")
<1>1. Ok(r) /\ again \in BOOLEAN
  BY OkSettle DEF Has
<1> HIDE DEF r, again
<1>2. Over(Progress(r, code)) /\ Over(Answered(r, seq, how, again)) /\ Over(Terminated(r, seq))
  BY <1>1, OverProgress, OverAnswered, OverTerminated
<1>3. Ok(SendInvite(SendAck(r, seq))) /\ Ok(Challenged(r, seq)) /\ Ok(RequestPending(r, seq))
  BY <1>1, OkSendAck, OkSent, OkChallenged, OkRequestPending
<1>4. Ok(Forgotten(QueueHangup(SendAck(r, seq))))
  BY <1>1, OkSendAck, OkQueueHangup, OkForgotten
<1>5. Over(SendInvite(SendAck(r, seq))) /\ Over(Challenged(r, seq)) /\ Over(RequestPending(r, seq))
      /\ Over(Forgotten(QueueHangup(SendAck(r, seq)))) /\ Over(q)
  BY <1>3, <1>4, OkOver
<1> QED
  BY <1>2, <1>5 DEF InviteResponse, r, again

LEMMA OkFailure ==
  ASSUME NEW q, Ok(q), NEW m, NEW seq \in Nat
  PROVE  Ok(Failure(q, m, seq))
<1> DEFINE r == QueueHangup(On(IF m = "INVITE" THEN SendAck(q, seq) ELSE q, {"alreadygone"}))
<1>1. Ok(r)
  BY Words, OkSendAck, OkFlag, OkQueueHangup
<1> HIDE DEF r
<1> QED
  BY <1>1, Words, OkFlag DEF Failure, r

LEMMA OverByeChallenged ==
  ASSUME NEW q, Ok(q), Wanted
  PROVE  Over(ByeChallenged(q))
<1>1. Over(SendBye(q))
  BY OverBye DEF Free
<1>2. Over([SendBye(q) EXCEPT !.authtries = @ + 1])
  BY <1>1, OverTries
<1>3. Over(On(q, {"needdestroy"}))
  BY Words, OkFlag, OkOver
<1> QED
  BY <1>2, <1>3 DEF ByeChallenged

LEMMA OverResponse ==
  ASSUME NEW q, Ok(q), NEW m, NEW seq \in Nat, NEW code, NEW how,
         m = "BYE" /\ code = 401 => Wanted
  PROVE  /\ Over(OutgoingResponse(q, m, seq, code, how))
         /\ Over(IncomingResponse(q, m, seq, code, how))
<1>1. Over(InviteResponse(q, code, seq, how)) /\ Over(Failure(q, m, seq)) /\ Over(q)
  BY OverInviteResponse, OkFailure, OkOver
<1>2. Over(Off(On(q, {"needdestroy"}), {"established"})) /\ Over(On(q, {"needdestroy"}))
      /\ Over(CancelDestroy(q))
  BY Words, OkFlag, OkDestroyTimer, OkOver
<1>3. m = "BYE" /\ code = 401 => Over(ByeChallenged(q))
  BY OverByeChallenged
<1>4. Over(OutgoingResponse(q, m, seq, code, how))
  BY <1>1, <1>2, <1>3 DEF OutgoingResponse
<1>5. Over(IncomingResponse(q, m, seq, code, how))
  BY <1>1, <1>2, <1>3 DEF IncomingResponse
<1> QED
  BY <1>4, <1>5

LEMMA OverHandleResponse ==
  ASSUME NEW q, Ok(q), NEW m, NEW seq \in Nat, NEW code, NEW how,
         m = "BYE" /\ code = 401 => Wanted
  PROVE  Over(HandleResponse(q, m, seq, code, how))
<1> DEFINE r == Acknowledged(q, m, seq, code)
<1>1. Ok(r) /\ Over(SendAck(q, seq)) /\ Over(q)
  BY OkSemiAck, OkAck, OkSendAck, OkOver DEF Acknowledged
<1> HIDE DEF r
<1>2. Over(On(r, {"needdestroy"}))
  BY <1>1, Words, OkFlag, OkOver
<1>3. Over(OutgoingResponse(r, m, seq, code, how)) /\ Over(IncomingResponse(r, m, seq, code, how))
  BY <1>1, OverResponse
<1> QED
  BY <1>1, <1>2, <1>3 DEF HandleResponse, r
-----------------------------------------------------------------------------
(* Requests.                                                               *)

LEMMA OkRefuse ==
  ASSUME NEW q, Ok(q), NEW code \in Nat, NEW seq \in Nat
  PROVE  Ok(Refuse(q, code, seq))
<1>1. Ok(RespondReliably(q, code, seq, TRUE))
  BY OkRespondReliably
<1> QED
  BY <1>1, States, OkState, OkDestroyTimer DEF Refuse

LEMMA OkNewChannel ==
  ASSUME NEW q, Ok(q)
  PROVE  Ok(NewChannel(q, "ring"))
<1>1. Ok([[q EXCEPT !.owner = TRUE] EXCEPT !.ch = "ring"])
  BY OkTruths, OkChannel
<1>2. NewChannel(q, "ring") = [[q EXCEPT !.owner = TRUE] EXCEPT !.ch = "ring"]
  BY DEF NewChannel, Ok, Sound, Dialog
<1> QED
  BY <1>1, <1>2

LEMMA OverStartCall ==
  ASSUME NEW q, Ok(q), NEW seq \in Nat, NEW fault
  PROVE  Over(StartCall(q, seq, fault))
<1> DEFINE r == State(RespondProvisionally(NewChannel(q, "ring"), 100), "proceeding")
<1>1. Ok(r)
  <2>1. Ok(RespondProvisionally(NewChannel(q, "ring"), 100))
    BY OkNewChannel, OkRespondProvisionally
  <2> QED
    BY <2>1, States, OkState
<1> HIDE DEF r
<1> DEFINE t == State(On(r, {"alreadygone"}), "completed")
<1>2. Ok(t)
  BY <1>1, Words, States, OkFlag, OkState
<1> HIDE DEF t
<1>3. Ok(RespondReliably(t, 503, seq, TRUE))
  BY <1>2, Codes, OkRespondReliably, ZenonT(40)
<1>4. Over(Hangup(RespondReliably(t, 503, seq, TRUE)))
  BY <1>3, OverHangup
<1> QED
  BY <1>1, <1>4, OkOver DEF StartCall, r, t

LEMMA OverNewCall ==
  ASSUME NEW q, Ok(q), NEW seq \in Nat, NEW fault
  PROVE  Over(NewCall(q, seq, fault))
<1> DEFINE r == IncCall(q)
           t == [r EXCEPT !.lastinvite = seq]
<1>1. Ok(r)
  BY OkCounters
<1> HIDE DEF r
<1>2. Ok(t)
  BY <1>1, OkNumbers
<1> HIDE DEF t
<1>3. Ok(SchedDestroy(State(On(RespondReliably(q, 401, seq, FALSE), {"nonce"}), "completed")))
  <2>1. Ok(RespondReliably(q, 401, seq, FALSE))
    BY Codes, OkRespondReliably
  <2> QED
    BY <2>1, Words, States, OkFlag, OkState, OkDestroyTimer, ZenonT(40)
<1>4. Ok(Refuse(q, 403, seq)) /\ Ok(Refuse(q, 488, seq)) /\ Ok(Refuse(q, 480, seq))
  BY OkRefuse
<1>5. Ok(DecCall(Refuse(r, 404, seq))) /\ Ok(Refuse(t, 503, seq))
  BY <1>1, <1>2, OkRefuse, OkCounters
<1>6. Ok(SchedDestroy(State(Respond(r, 422, "INVITE", seq), "completed")))
  <2>1. Ok(Respond(r, 422, "INVITE", seq))
    BY <1>1, Words, OkRespond
  <2> QED
    BY <2>1, States, OkState, OkDestroyTimer
<1>7. Over(StartCall(t, seq, fault))
  BY <1>2, OverStartCall
<1>8. /\ Over(SchedDestroy(State(On(RespondReliably(q, 401, seq, FALSE), {"nonce"}), "completed")))
      /\ Over(Refuse(q, 403, seq)) /\ Over(Refuse(q, 488, seq)) /\ Over(Refuse(q, 480, seq))
      /\ Over(DecCall(Refuse(r, 404, seq))) /\ Over(t) /\ Over(Refuse(t, 503, seq))
      /\ Over(SchedDestroy(State(Respond(r, 422, "INVITE", seq), "completed")))
  BY <1>2, <1>3, <1>4, <1>5, <1>6, OkOver, ZenonT(40)
<1> QED
  BY <1>7, <1>8, Zenon DEF NewCall, r, t

LEMMA OkInviteAgain ==
  ASSUME NEW q, Ok(q), NEW seq \in Nat, NEW ign
  PROVE  Ok(InviteAgain(q, seq, ign))
<1> DEFINE r == On(Respond(q, 100, "INVITE", seq), {"established"})
<1>1. Ok(r)
  BY Words, OkRespond, OkFlag
<1> HIDE DEF r
<1>2. Ok(Respond(r, 200, "INVITE", seq)) /\ Ok(RespondReliably(r, 200, seq, FALSE))
  BY <1>1, Words, OkRespond, OkRespondReliably, ZenonT(40)
<1>3. Ok(RespondProvisionally(q, 180)) /\ Ok(RespondProvisionally(q, 100))
  BY OkRespondProvisionally
<1> QED
  BY <1>2, <1>3, States, OkState DEF InviteAgain, r

LEMMA OkSameCall ==
  ASSUME NEW q, Ok(q), NEW seq \in Nat, NEW ign, NEW fault
  PROVE  Ok(SameCall(q, seq, ign, fault))
<1>1. Ok(State(Respond(q, 422, "INVITE", seq), "completed"))
  BY Words, States, OkRespond, OkState
<1> DEFINE r == IF ign THEN q ELSE [q EXCEPT !.lastinvite = seq]
<1>2. Ok(r)
  BY OkNumbers
<1> HIDE DEF r
<1>3. Ok(InviteAgain(r, seq, ign)) /\ Ok(Refuse(r, 503, seq))
  BY <1>2, OkInviteAgain, OkRefuse
<1> QED
  BY <1>1, <1>2, <1>3, OkDestroyTimer DEF SameCall, r

LEMMA OverAcceptInvite ==
  ASSUME NEW q, Ok(q), NEW seq \in Nat, NEW ign, NEW fault
  PROVE  Over(AcceptInvite(q, seq, ign, fault))
<1> DEFINE c == CancelDestroy(q)
           d == [c EXCEPT !.pendinginvite = seq, !.initseq = seq]
           r == IF ign THEN q ELSE d
           t == IF ~ign /\ r.owner THEN Off(r, {"outgoing"}) ELSE r
<1>1. Ok(c)
  BY OkDestroyTimer
<1>2. Ok(d)
  <2> HIDE DEF c
  <2>1. Ok([[c EXCEPT !.pendinginvite = seq] EXCEPT !.initseq = seq])
    BY <1>1, OkNumbers
  <2>2. d = [[c EXCEPT !.pendinginvite = seq] EXCEPT !.initseq = seq]
    BY <1>1 DEF Ok, Sound, Dialog
  <2> QED
    BY <2>1, <2>2
<1> HIDE DEF d
<1>3. Ok(r)
  BY <1>2
<1> HIDE DEF r
<1>4. Ok(t)
  BY <1>3, Words, OkFlag
<1> HIDE DEF t
<1> DEFINE u == RespondReliably(t, 488, seq, TRUE)
<1>5. Ok(u) /\ Ok(SchedDestroy(u))
  BY <1>4, Codes, OkRespondReliably, OkDestroyTimer, ZenonT(40)
<1> HIDE DEF u
<1>6. Over(NewCall(r, seq, fault)) /\ Over(SameCall(t, seq, ign, fault))
  BY <1>3, <1>4, OverNewCall, OkSameCall, OkOver
<1>7. Over(u) /\ Over(SchedDestroy(u))
  BY <1>5, OkOver
<1>8. AcceptInvite(q, seq, ign, fault) \in
        {u, SchedDestroy(u), NewCall(r, seq, fault), SameCall(t, seq, ign, fault)}
  BY DEF AcceptInvite, c, d, r, t, u
<1> QED
  BY <1>6, <1>7, <1>8

LEMMA OverRequestInvite ==
  ASSUME NEW q, Ok(q), NEW seq \in Nat, NEW ign, NEW fault
  PROVE  \A t \in RequestInvite(q, seq, ign, fault) : Over(t)
<1>1. Ok(State(Respond(q, 420, "INVITE", seq), "completed"))
      /\ Ok(State(Respond(q, 482, "INVITE", seq), "completed"))
  BY Words, States, OkRespond, OkState
<1>2. Ok(SchedDestroy(State(Respond(q, 420, "INVITE", seq), "completed")))
      /\ Ok(SchedDestroy(State(Respond(q, 482, "INVITE", seq), "completed")))
  BY <1>1, OkDestroyTimer
<1>3. Ok(QueueHangup(Respond(q, 100, "INVITE", seq)))
  BY Words, OkRespond, OkQueueHangup
<1>4. Over(AcceptInvite(Ack(q, q.pendinginvite, TRUE, "INVITE"), seq, ign, fault))
      /\ Over(AcceptInvite(q, seq, ign, fault))
  BY OkAck, OverAcceptInvite
<1>5. Ok(Glare(q, seq))
  <2>1. PICK r : r = RespondReliably(q, 491, seq, TRUE)
    OBVIOUS
  <2>2. Ok(r)
    BY <2>1, Codes, OkRespondReliably, ZenonT(40)
  <2>3. Ok([r EXCEPT !.glareinvite = seq])
    BY ONLY <2>2, seq \in Nat, OkNumbers
  <2>4. Glare(q, seq) = [r EXCEPT !.glareinvite = seq]
    BY <2>1 DEF Glare
  <2> QED
    BY <2>3, <2>4
<1>6. CASE fault = "extension"
  BY <1>1, <1>2, <1>6, OkOver DEF RequestInvite
<1>7. CASE fault # "extension" /\ Loops(q)
  <2>1. RequestInvite(q, seq, ign, fault)
          = {SchedDestroy(State(Respond(q, 482, "INVITE", seq), "completed")),
             QueueHangup(Respond(q, 100, "INVITE", seq))}
    BY <1>7 DEF RequestInvite
  <2> QED
    BY <1>2, <1>3, <2>1, OkOver
<1>8. CASE fault # "extension" /\ ~Loops(q)
  BY <1>4, <1>5, <1>8, OkOver DEF RequestInvite
<1> QED
  BY <1>6, <1>7, <1>8

LEMMA OkRequestCancel ==
  ASSUME NEW q, Ok(q), NEW seq \in Nat
  PROVE  Ok(RequestCancel(q, seq))
<1> DEFINE r == On(q, {"alreadygone"})
           s == IF r.inv \in {"terminated", "completed"} THEN PretendAck(r) ELSE r
           t == DecCall(IF s.inv = "terminated" THEN s ELSE State(s, "cancelled"))
           u == IF t.owner THEN QueueHangup(t) ELSE SchedDestroy(t)
           old == {i \in DOMAIN u.packets : u.packets[i].seq = u.lastinvite /\ u.packets[i].code = 487}
           v == IF old = {} THEN u ELSE [u EXCEPT !.packets = RemoveAt(u.packets, FirstOf(old))]
<1>1. RequestCancel(q, seq) = IF q.owner /\ q.ch = "up" THEN Respond(r, 200, "CANCEL", seq)
                              ELSE Respond(RespondReliably(v, 487, v.initseq, TRUE), 200, "CANCEL", seq)
  BY DEF RequestCancel
<1>2. Ok(r)
  BY Words, OkFlag
<1> HIDE DEF r
<1>3. Ok(s)
  BY <1>2, OkPretendAck
<1> HIDE DEF s
<1>4. Ok(t)
  BY <1>3, States, OkState, OkCounters
<1> HIDE DEF t
<1>5. Ok(u)
  BY <1>4, OkQueueHangup, OkDestroyTimer
<1> HIDE DEF u
<1>6. Ok(v)
  <2>1. CASE old = {}
    BY <1>5, <2>1
  <2>2. CASE old # {}
    <3>1. old \subseteq DOMAIN u.packets /\ u.packets \in Seq(Packet)
      BY <1>5, OkFields
    <3> HIDE DEF old
    <3>2. FirstOf(old) \in DOMAIN u.packets
      BY <2>2, <3>1, FirstOfFound
    <3>3. RemoveAt(u.packets, FirstOf(old)) \in Seq(Packet)
      BY <3>1, <3>2, RemoveKeeps
    <3>4. Ok([u EXCEPT !.packets = RemoveAt(u.packets, FirstOf(old))])
      BY <1>5, <3>3, OkPackets
    <3> QED
      BY <2>2, <3>4
  <2> QED
    BY <2>1, <2>2
<1> HIDE DEF v
<1>7. v.initseq \in Nat
  BY <1>6, OkFields
<1>8. Ok(RespondReliably(v, 487, v.initseq, TRUE))
  BY <1>6, <1>7, Codes, OkRespondReliably, ZenonT(40)
<1>9. /\ Ok(Respond(r, 200, "CANCEL", seq))
      /\ Ok(Respond(RespondReliably(v, 487, v.initseq, TRUE), 200, "CANCEL", seq))
  BY <1>2, <1>8, Words, OkRespond, ZenonT(40)
<1> QED
  BY <1>1, <1>9

LEMMA OkRequestBye ==
  ASSUME NEW q, Ok(q), NEW seq \in Nat, NEW ign
  PROVE  Ok(RequestBye(q, seq, ign))
<1> DEFINE r == IF q.pendinginvite # 0 /\ ~Has(q, "outgoing") /\ ~ign
                THEN RespondReliably(q, 487, q.initseq, TRUE) ELSE q
           s == QueueHangup(On(State(PretendAck(r), "terminated"), {"alreadygone"}))
<1>1. Ok(r)
  BY OkFields, Codes, OkRespondReliably, ZenonT(40)
<1> HIDE DEF r
<1>2. Ok(s)
  BY <1>1, Words, States, OkPretendAck, OkState, OkFlag, OkQueueHangup
<1> HIDE DEF s
<1>3. Ok(Off(SchedDestroyFinal(s), {"established"}))
  BY <1>2, Words, OkDestroyTimer, OkFlag
<1>4. Ok(Respond(Off(SchedDestroyFinal(s), {"established"}), 200, "BYE", seq))
  <2>1. 200 \in Nat /\ 200 # 0
    OBVIOUS
  <2> QED
    BY <1>3, <2>1, Words, OkRespond
<1> QED
  BY <1>4, Words, OkTimers, ZenonT(40) DEF RequestBye, r, s

LEMMA OverRequestAck ==
  ASSUME NEW q, Ok(q), NEW seq \in Nat, NEW fault
  PROVE  Over(RequestAck(q, seq, fault))
<1> DEFINE a == [State(q, "terminated") EXCEPT !.pendinginvite = 0]
           r == IF seq = q.pendinginvite THEN Ack(a, seq, TRUE, "ACK")
                ELSE IF seq = q.glareinvite THEN Ack([q EXCEPT !.glareinvite = 0], seq, TRUE, "ACK")
                ELSE q
           s == IF seq = q.pendinginvite THEN CheckPendings(r) ELSE r
<1>1. RequestAck(q, seq, fault) =
        IF seq = q.pendinginvite /\ q.owner /\ fault = "sdp" THEN r
        ELSE IF s.lastinvite = 0 /\ ~Has(s, "nonce") THEN On(s, {"needdestroy"}) ELSE s
  BY DEF RequestAck
<1>2. Ok(a) /\ Ok([q EXCEPT !.glareinvite = 0])
  BY States, OkState, OkNumbers
<1> HIDE DEF a
<1>3. Ok(r)
  BY <1>2, OkAck
<1> HIDE DEF r
<1>4. Over(s)
  BY <1>3, OverCheckPendings, OkOver
<1> HIDE DEF s
<1> QED
  BY <1>1, <1>3, <1>4, Words, OkOver, OverFlag

LEMMA OverHandleRequest ==
  ASSUME NEW q, Ok(q), NEW m \in Methods, NEW seq \in Nat, NEW fault
  PROVE  \A t \in HandleRequest(q, m, seq, fault) : Over(t)
<1> DEFINE n == IF seq > q.icseq THEN seq ELSE q.icseq
           r == [q EXCEPT !.icseq = n, !.lastmsg = m]
           ign == Ignored(q, m, seq)
<1>1. Ok(r)
  <2>1. n \in Nat
    BY OkFields
  <2> HIDE DEF n
  <2>2. Ok([[q EXCEPT !.icseq = n] EXCEPT !.lastmsg = m])
    BY <2>1, OkNumbers, OkLast
  <2>3. r = [[q EXCEPT !.icseq = n] EXCEPT !.lastmsg = m]
    BY DEF Ok, Sound, Dialog
  <2> QED
    BY <2>2, <2>3
<1>2. HandleRequest(q, m, seq, fault) =
        IF Late(q, m, seq) THEN {IF m = "ACK" THEN q ELSE Respond(q, 500, m, seq)}
        ELSE IF m = "CANCEL" /\ q.pendinginvite = 0 THEN {Respond(q, 481, m, seq)}
        ELSE CASE m = "INVITE" -> RequestInvite(r, seq, ign, fault)
               [] m = "CANCEL" -> {RequestCancel(r, seq)}
               [] m = "BYE"    -> {RequestBye(r, seq, ign)}
               [] m = "ACK"    -> {RequestAck(r, seq, fault)}
  BY DEF HandleRequest
<1> HIDE DEF r, ign
<1>3. Over(Respond(q, 500, m, seq)) /\ Over(Respond(q, 481, m, seq)) /\ Over(q)
  <2>1. 500 \in Nat /\ 500 # 0 /\ 481 \in Nat /\ 481 # 0
    OBVIOUS
  <2> QED
    BY <2>1, OkRespond, OkOver
<1>4. Over(RequestCancel(r, seq)) /\ Over(RequestBye(r, seq, ign)) /\ Over(RequestAck(r, seq, fault))
  BY <1>1, OkRequestCancel, OkRequestBye, OkOver, OverRequestAck
<1>5. \A t \in RequestInvite(r, seq, ign, fault) : Over(t)
  BY <1>1, OverRequestInvite
<1> QED
  BY <1>2, <1>3, <1>4, <1>5 DEF Methods
-----------------------------------------------------------------------------
(* The invariant: the books are right as long as there is a dialog, and    *)
(* the dialog that is gone is in none of them.                             *)

Kept(q) ==
  /\ q \in Dialog /\ Balanced(q)
  /\ q.alive = "gone" => ~Has(q, "inc_count") /\ ~Has(q, "inc_ringing")

CallInv ==
  /\ Kept(p) /\ p.out = {} /\ sc \in Scenarios /\ net \subseteq Message
  /\ ua \in [seq : Nat, up : BOOLEAN]

LEMMA ScenarioOf ==
  ASSUME NEW s \in Scenarios
  PROVE  s.others \in Nat /\ s.incoming \in BOOLEAN /\ s.codes \subseteq Nat /\ s.byes \subseteq Nat
BY CallAssumption DEF Finals

LEMMA InitCallInv == ASSUME Init PROVE CallInv
<1>1. sc \in Scenarios /\ sc.others \in Nat /\ sc.incoming \in BOOLEAN
  BY ScenarioOf DEF Init
<1>2. p = Alloc(sc)
  BY DEF Init
<1>3. p.inuse = sc.others /\ p.ringing = 0 /\ p.fl = {} /\ p.incoming \in BOOLEAN /\ p.out = {}
  BY <1>1, <1>2 DEF Alloc
<1>4. p \in Dialog
  <2>1. "none" \in Open \cup Ended /\ {} \in SUBSET Flags /\ {} \in SUBSET Timers
        /\ <<>> \in Seq(Packet) /\ {} \in SUBSET Message /\ "none" \in Methods \cup {"none"}
    BY States
  <2>2. (IF sc.incoming THEN "none" ELSE "live") \in {"none", "live", "gone"}
        /\ (~sc.incoming) \in BOOLEAN
        /\ (IF sc.incoming THEN "none" ELSE "down") \in {"none", "down", "ring", "ringing", "up"}
    OBVIOUS
  <2> QED
    BY <1>1, <1>2, <2>1, <2>2 DEF Alloc, Dialog
<1>5. Kept(p)
  BY <1>1, <1>3, <1>4 DEF Kept, Balanced, Has
<1>6. net \subseteq Message
  <2>1. Msg("us", "INVITE", 1, 0) \in Message
    BY DEF Msg, Message, Methods
  <2> QED
    BY <2>1 DEF Init
<1>7. ua \in [seq : Nat, up : BOOLEAN]
  BY <1>3 DEF Init
<1> QED
  BY <1>1, <1>3, <1>5, <1>6, <1>7 DEF CallInv

\* What a step says of its BYEs.
Waits ==
  \A e \in net' \ net : e.to = "ua" /\ e.m = "BYE" /\ e.code = 0 =>
    \/ p'.pendinginvite = 0 \/ Has(p, "reinvite")
    \/ \E r \in net : r.to = "us" /\ r.m = "BYE" /\ r.code = 401

\* A handler ends with a dialog in order, or with one that is gone.
LEMMA DoKeeps ==
  ASSUME CallInv, NEW q, Kept(q), Silent(q) \/ Free(q), Do(q), UNCHANGED ua
  PROVE  CallInv' /\ Waits
<1>1. p' \in Dialog /\ p'.inuse = q.inuse /\ p'.ringing = q.ringing /\ p'.fl = q.fl
      /\ p'.alive = q.alive /\ p'.out = {} /\ p'.pendinginvite = q.pendinginvite /\ sc' = sc
  BY DEF Do, Kept, Dialog
<1>2. Kept(p)'
  BY <1>1 DEF Kept, Balanced, Has
<1>3. net' \subseteq Message /\ net' \subseteq net \cup q.out
  BY DEF Do, Kept, Dialog, CallInv
<1>4. CallInv'
  BY <1>1, <1>2, <1>3 DEF CallInv
<1>5. Waits
  <2>1. SUFFICES ASSUME NEW e \in net' \ net, Bye(e)
                 PROVE  \/ p'.pendinginvite = 0 \/ Has(p, "reinvite")
                        \/ \E r \in net : r.to = "us" /\ r.m = "BYE" /\ r.code = 401
    BY DEF Waits, Bye
  <2>2. ~Silent(q)
    BY <1>3, <2>1 DEF Silent
  <2> QED
    BY <1>1, <2>2 DEF Free, Wanted
<1> QED
  BY <1>4, <1>5

LEMMA OverKeeps ==
  ASSUME CallInv, NEW q, Over(q), Do(q), UNCHANGED ua
  PROVE  CallInv' /\ Waits
<1>1. Kept(q) /\ (Silent(q) \/ Free(q))
  BY DEF Over, Sound, Kept
<1> QED
  BY <1>1, DoKeeps

LEMMA OkLive ==
  ASSUME CallInv, Live
  PROVE  Ok(p)
BY ScenarioOf DEF CallInv, Kept, Ok, Sound, Silent, Live

LEMMA ChannelKeeps ==
  ASSUME CallInv, Channel
  PROVE  CallInv' /\ Waits
<1>1. Ok(p) /\ UNCHANGED ua /\ p.initseq \in Nat
  <2>1. Live
    BY DEF Channel, Call, PbxHangup, ReadAnswer, Answer, IndicateProceeding, IndicateFailure,
           DirectMedia, Indicate
  <2>2. UNCHANGED ua
    BY DEF Channel, Call, PbxHangup, ReadAnswer, Answer, IndicateProceeding, IndicateFailure,
           DirectMedia, Indicate
  <2> QED
    BY <2>1, <2>2, OkLive, OkFields
<1>2. ASSUME NEW q, Ok(q) \/ Over(q), Do(q) PROVE CallInv' /\ Waits
  BY <1>1, <1>2, OkOver, OverKeeps
<1>3. CASE Call
  <2> DEFINE q == On(p, {"outgoing"})
  <2>1. Ok(q)
    BY <1>1, Words, OkFlag
  <2> HIDE DEF q
  <2>2. Ok(IncRinging(q))
    BY <2>1, OkCounters
  <2>3. Ok(Started(State(SendInvite(IncRinging(q)), "calling"), "init"))
    BY <2>2, Words, States, OkSent, OkState, OkTimers
  <2>4. Ok(QueueHangup(q)) /\ Ok(QueueHangup(IncRinging(q)))
    BY <2>1, <2>2, OkQueueHangup
  <2>5. \/ Do(QueueHangup(q)) \/ Do(QueueHangup(IncRinging(q)))
        \/ Do(Started(State(SendInvite(IncRinging(q)), "calling"), "init"))
    BY <1>3 DEF Call, q
  <2> QED
    BY <1>2, <2>3, <2>4, <2>5
<1>4. CASE PbxHangup
  BY <1>1, <1>2, <1>4, OverHangup DEF PbxHangup
<1>5. CASE ReadAnswer
  <2>1. Ok([[p EXCEPT !.answer = FALSE] EXCEPT !.ch = "up"])
    <3>1. Ok([p EXCEPT !.answer = FALSE])
      BY <1>1, OkTruths
    <3> QED
      BY <3>1, OkChannel
  <2>2. [p EXCEPT !.answer = FALSE, !.ch = "up"] = [[p EXCEPT !.answer = FALSE] EXCEPT !.ch = "up"]
    BY <1>1 DEF Ok, Sound, Dialog
  <2> QED
    BY <1>2, <1>5, <2>1, <2>2 DEF ReadAnswer
<1>6. CASE Answer
  <2> DEFINE q == [p EXCEPT !.ch = "up"]
  <2>1. Ok(q)
    BY <1>1, OkChannel
  <2> HIDE DEF q
  <2>2. 200 \in Nat
    OBVIOUS
  <2>3. Ok(RespondReliably(q, 200, p.initseq, TRUE))
    BY <1>1, <2>1, <2>2, OkRespondReliably
  <2>4. Ok(On(RespondReliably(q, 200, p.initseq, TRUE), {"established"}))
    BY <2>3, Words, OkFlag
  <2> QED
    BY <1>2, <1>6, <2>4 DEF Answer, q
<1>7. CASE \E code \in {180, 183} : Indicate(code)
  <2>1. PICK code \in {180, 183} : Indicate(code)
    BY <1>7
  <2> DEFINE q == RespondProvisionally(State(p, "early"), code)
  <2>2. Ok(q)
    <3>1. code \in Nat
      OBVIOUS
    <3>2. Ok(State(p, "early"))
      BY <1>1, States, OkState
    <3> QED
      BY <3>1, <3>2, OkRespondProvisionally
  <2> HIDE DEF q
  <2>3. Ok(On(q, {"progress"}))
    BY <2>2, Words, OkFlag
  <2>4. Do(q) \/ Do(On(q, {"progress"}))
    BY <2>1 DEF Indicate, q
  <2> QED
    BY <1>2, <2>2, <2>3, <2>4
<1>8. CASE IndicateProceeding
  <2>1. 100 \in Nat
    OBVIOUS
  <2>2. Ok(Respond(p, 100, "INVITE", p.initseq))
    BY <1>1, <2>1, Words, OkRespond
  <2>3. Ok(State(Respond(p, 100, "INVITE", p.initseq), "proceeding"))
    BY <2>2, States, OkState
  <2> QED
    BY <1>2, <1>8, <2>3 DEF IndicateProceeding
<1>9. CASE IndicateFailure
  <2>1. 486 \in Nat
    OBVIOUS
  <2>2. Ok(RespondReliably(p, 486, p.initseq, TRUE))
    BY <1>1, <2>1, OkRespondReliably, ZenonT(40)
  <2>3. Ok(State(RespondReliably(p, 486, p.initseq, TRUE), "completed"))
    BY <2>2, States, OkState
  <2>4. Ok(QueueHangup(On(State(RespondReliably(p, 486, p.initseq, TRUE), "completed"), {"alreadygone"})))
    BY <2>3, Words, OkFlag, OkQueueHangup, ZenonT(40)
  <2> QED
    BY <1>2, <1>9, <2>4 DEF IndicateFailure
<1>10. CASE DirectMedia
  BY <1>1, <1>2, <1>10, OverSetRtpPeer DEF DirectMedia
<1> QED
  BY <1>3, <1>4, <1>5, <1>6, <1>7, <1>8, <1>9, <1>10 DEF Channel

\* The timers.
LEMMA TimerKeeps ==
  ASSUME CallInv, Timer
  PROVE  CallInv' /\ Waits
<1>1. Ok(p) /\ UNCHANGED ua /\ p.initseq \in Nat /\ p.packets \in Seq(Packet)
  <2>1. Live
    BY DEF Timer, RetransTimeout, AutoCongest, Autodestruct, NeedDestroy, ReinviteTimeout,
           ReinviteRetry, ProvisionalKeepalive
  <2>2. UNCHANGED ua
    BY DEF Timer, RetransTimeout, AutoCongest, Autodestruct, NeedDestroy, ReinviteTimeout,
           ReinviteRetry, ProvisionalKeepalive
  <2> QED
    BY <2>1, <2>2, OkLive, OkFields
<1>2. ASSUME NEW q, Ok(q) \/ Over(q), Do(q) PROVE CallInv' /\ Waits
  BY <1>1, <1>2, OkOver, OverKeeps
<1>3. ASSUME NEW q, Ok(q), Do(Destroy(q)) PROVE CallInv' /\ Waits
  <2>1. Kept(Destroy(q)) /\ Silent(Destroy(q))
    BY <1>3, DestroyBalances DEF Kept
  <2> QED
    BY <1>1, <1>3, <2>1, DoKeeps
<1>4. CASE \E i \in DOMAIN p.packets : RetransTimeout(i)
  <2>1. PICK i \in DOMAIN p.packets : RetransTimeout(i)
    BY <1>4
  <2> DEFINE r == RetransOver(p, p.packets[i])
             n == i + Len(r.packets) - Len(p.packets)
  <2>2. p.packets[i] \in Packet
    BY <1>1
  <2>3. Over(r) /\ Len(p.packets) \in Nat /\ Len(r.packets) \in Nat /\ Len(r.packets) >= Len(p.packets)
    BY <1>1, <2>2, OverRetransOver
  <2>4. Do([r EXCEPT !.packets = RemoveAt(r.packets, n)])
    BY <2>1 DEF RetransTimeout
  <2> HIDE DEF r
  <2>5. r.packets \in Seq(Packet) /\ i \in 1 .. Len(p.packets)
    BY <1>1, <2>3, OkFields, LenProperties
  <2>6. n \in 1 .. Len(r.packets)
    <3>1. \A a, b \in Nat : b >= a => \A j \in 1 .. a : j + b - a \in 1 .. b
      OBVIOUS
    <3> QED
      BY <2>3, <2>5, <3>1
  <2> HIDE DEF n
  <2>7. n \in DOMAIN r.packets
    BY <2>5, <2>6, LenProperties
  <2>8. RemoveAt(r.packets, n) \in Seq(Packet)
    BY <2>5, <2>7, RemoveKeeps
  <2>9. Over([r EXCEPT !.packets = RemoveAt(r.packets, n)])
    BY <2>3, <2>8, OverPackets
  <2> QED
    BY <1>2, <2>4, <2>9
<1>5. CASE AutoCongest
  <2>1. Ok(Stopped(p, "init"))
    BY <1>1, Words, OkTimers
  <2>2. Ok(SchedDestroy(QueueHangup(Stopped(p, "init")))) /\ Ok(SchedDestroy(Stopped(p, "init")))
    BY <2>1, OkQueueHangup, OkDestroyTimer
  <2> QED
    BY <1>2, <1>5, <2>2 DEF AutoCongest
<1>6. CASE Autodestruct
  <2> DEFINE q == IF p.packets # <<>> THEN PretendAck(p) ELSE p
  <2>1. Ok(q)
    BY <1>1, OkPretendAck
  <2>2. \/ Do(On(p, {"needdestroy"})) \/ Do(p)
        \/ Do(Started(Stopped(QueueHangup(q), "kill"), "rekill")) \/ Do(Destroy(q))
    BY <1>6 DEF Autodestruct
  <2> HIDE DEF q
  <2>3. Ok(On(p, {"needdestroy"})) /\ Ok(Started(Stopped(QueueHangup(q), "kill"), "rekill"))
    BY <1>1, <2>1, Words, OkFlag, OkQueueHangup, OkTimers
  <2> QED
    BY <1>1, <1>2, <1>3, <2>1, <2>2, <2>3
<1>7. CASE NeedDestroy
  BY <1>1, <1>3, <1>7 DEF NeedDestroy
<1>8. CASE ReinviteTimeout
  BY <1>1, <1>2, <1>8, Words, OkTimers, OverCheckPendings DEF ReinviteTimeout
<1>9. CASE ReinviteRetry
  <2>1. Ok(Stopped(On(p, {"needreinvite"}), "wait"))
    BY <1>1, Words, OkFlag, OkTimers
  <2> QED
    BY <1>2, <1>9, <2>1, OverCheckPendings DEF ReinviteRetry
<1>10. CASE ProvisionalKeepalive
  <2>1. 180 \in Nat /\ 183 \in Nat
    OBVIOUS
  <2>2. Ok(Respond(p, 180, "INVITE", p.initseq)) /\ Ok(Respond(p, 183, "INVITE", p.initseq))
    BY <1>1, <2>1, Words, OkRespond
  <2>3. Ok(Stopped(p, "prov"))
    BY <1>1, Words, OkTimers
  <2> QED
    BY <1>2, <1>10, <2>2, <2>3 DEF ProvisionalKeepalive
<1> QED
  BY <1>4, <1>5, <1>6, <1>7, <1>8, <1>9, <1>10 DEF Timer

\* What is received.
LEMMA ReceiveKeeps ==
  ASSUME CallInv, Receive
  PROVE  CallInv' /\ Waits
<1>1. PICK e \in net : ReceiveResponse(e) \/ ReceiveRequest(e)
  BY DEF Receive
<1>2. e.m \in Methods /\ e.seq \in Nat /\ UNCHANGED ua
  <2>1. e \in Message
    BY DEF CallInv
  <2> QED
    BY <1>1, <2>1 DEF Message, ReceiveResponse, ReceiveRequest
<1>3. ASSUME NEW q, Over(q), Do(q) PROVE CallInv' /\ Waits
  BY <1>2, <1>3, OverKeeps
<1>4. CASE ReceiveResponse(e)
  <2>1. PICK how \in sc.hows : Do(HandleResponse(p, e.m, e.seq, e.code, how))
    BY <1>4 DEF ReceiveResponse
  <2>2. Ok(p)
    BY <1>4, OkLive DEF ReceiveResponse
  <2>3. e.m = "BYE" /\ e.code = 401 => Wanted
    BY <1>4 DEF ReceiveResponse, Wanted
  <2>4. Over(HandleResponse(p, e.m, e.seq, e.code, how))
    BY <1>2, <2>2, <2>3, OverHandleResponse
  <2> QED
    BY <1>3, <2>1, <2>4
<1>5. CASE ReceiveRequest(e)
  <2> DEFINE fault == IF e.seq = sc.faulty THEN sc.fault ELSE "none"
             r == [p EXCEPT !.alive = "live"]
  <2>1. PICK q \in HandleRequest(r, e.m, e.seq, fault) : Do(q)
    BY <1>5 DEF ReceiveRequest
  <2>2. Ok(r)
    <3>1. p \in Dialog /\ p.out = {} /\ Balanced(p) /\ sc.others \in Nat
      BY ScenarioOf DEF CallInv, Kept
    <3>2. r \in Dialog /\ r.alive = "live" /\ r.out = {} /\ r.fl = p.fl
          /\ r.inuse = p.inuse /\ r.ringing = p.ringing
      BY <3>1 DEF Dialog
    <3> HIDE DEF r
    <3> QED
      BY <3>1, <3>2 DEF Ok, Sound, Silent, Balanced, Has
  <2> HIDE DEF fault, r
  <2>3. Over(q)
    BY <1>2, <2>1, <2>2, OverHandleRequest
  <2> QED
    BY <1>3, <2>1, <2>3
<1> QED
  BY <1>1, <1>4, <1>5

\* The other side leaves the dialog alone.
LEMMA UaKeeps ==
  ASSUME CallInv, Ua
  PROVE  CallInv' /\ Waits
<1>1. ASSUME NEW m \in Methods, NEW seq \in Nat, NEW code \in Nat, NEW up \in BOOLEAN,
             UaSays(m, seq, code, up)
      PROVE  CallInv' /\ Waits
  <2>1. Msg("us", m, seq, code) \in Message
    BY <1>1 DEF Msg, Message
  <2>2. net' \subseteq Message
    BY <1>1, <2>1 DEF UaSays, CallInv
  <2>3. ua' \in [seq : Nat, up : BOOLEAN]
    <3> DEFINE n == IF code = 0 /\ seq > ua.seq THEN seq ELSE ua.seq
    <3>1. n \in Nat /\ ua' = [seq |-> n, up |-> up]
      BY <1>1 DEF UaSays, CallInv
    <3> HIDE DEF n
    <3> QED
      BY <1>1, <3>1
  <2>4. p' = p /\ sc' = sc
    BY <1>1 DEF UaSays
  <2>5. Waits
    BY <1>1 DEF Waits, UaSays, Msg
  <2> QED
    BY <2>2, <2>3, <2>4, <2>5 DEF CallInv, Kept, Balanced
<1>2. ua.seq \in Nat /\ ua.up \in BOOLEAN /\ sc.codes \subseteq Nat /\ sc.byes \subseteq Nat
      /\ p.ocseq \in Nat /\ 0 \in Nat
  BY ScenarioOf DEF CallInv, Kept, Dialog
<1>3. CASE \E seq \in 1 .. p.ocseq, code \in sc.codes : UaRespond(seq, code)
  <2>1. PICK seq \in 1 .. p.ocseq, code \in sc.codes : UaRespond(seq, code)
    BY <1>3
  <2>2. seq \in Nat /\ code \in Nat /\ (ua.up \/ code = 200) \in BOOLEAN
    BY <1>2
  <2>3. UaSays("INVITE", seq, code, ua.up \/ code = 200)
    BY <2>1 DEF UaRespond
  <2> QED
    BY <1>1, <2>2, <2>3, Words
<1>4. CASE \E m \in {"BYE", "CANCEL"}, seq \in 1 .. p.ocseq, code \in sc.byes :
             (m = "CANCEL" => code = 200) /\ UaRespondOther(m, seq, code)
  <2>1. PICK m \in {"BYE", "CANCEL"}, seq \in 1 .. p.ocseq, code \in sc.byes :
               UaRespondOther(m, seq, code)
    BY <1>4
  <2>2. m \in Methods /\ seq \in Nat /\ code \in Nat
        /\ (ua.up /\ (m = "BYE" => code = 401)) \in BOOLEAN
    BY <1>2, Words
  <2>3. UaSays(m, seq, code, ua.up /\ (m = "BYE" => code = 401))
    BY <2>1 DEF UaRespondOther
  <2> QED
    BY <1>1, <2>2, <2>3
<1>5. CASE \E seq \in 1 .. ua.seq : UaAck(seq) \/ UaCancel(seq)
  <2>1. PICK seq \in 1 .. ua.seq : UaAck(seq) \/ UaCancel(seq)
    BY <1>5
  <2>2. seq \in Nat /\ FALSE \in BOOLEAN
        /\ (ua.up \/ \E e \in Replies(seq) : e.code = 200) \in BOOLEAN
    BY <1>2
  <2>3. \/ UaSays("ACK", seq, 0, ua.up \/ \E e \in Replies(seq) : e.code = 200)
        \/ UaSays("CANCEL", seq, 0, FALSE)
    BY <2>1 DEF UaAck, UaCancel
  <2> QED
    BY <1>1, <1>2, <2>2, <2>3, Words
<1>6. CASE UaInvite
  <2>1. ua.seq + 1 \in Nat
    BY <1>2
  <2> QED
    BY <1>1, <1>2, <1>6, <2>1, Words DEF UaInvite
<1>7. CASE UaBye
  <2>1. ua.seq + 1 \in Nat /\ FALSE \in BOOLEAN
    BY <1>2
  <2> QED
    BY <1>1, <1>2, <1>7, <2>1, Words DEF UaBye
<1> QED
  BY <1>3, <1>4, <1>5, <1>6, <1>7 DEF Ua

LEMMA NextKeeps ==
  ASSUME CallInv, [Next]_vars
  PROVE  CallInv' /\ Waits
<1>1. CASE UNCHANGED vars
  BY <1>1 DEF vars, CallInv, Kept, Balanced, Waits
<1>2. CASE Next
  BY <1>2, ChannelKeeps, TimerKeeps, ReceiveKeeps, UaKeeps DEF Next
<1> QED
  BY <1>1, <1>2

\* The invariant the theorems follow from: the dialog is whole, its counters agree with its
\* flags, and what is on the network is made of messages.
THEOREM CallInvCorrect == Spec => []CallInv
<1>1. Init => CallInv
  BY InitCallInv
<1>2. CallInv /\ [Next]_vars => CallInv'
  BY NextKeeps
<1> QED
  BY <1>1, <1>2, PTL DEF Spec
-----------------------------------------------------------------------------
\* Every field of the dialog keeps to its kind.
THEOREM TypeCorrect == Spec => []TypeOK
<1>1. CallInv => TypeOK
  BY DEF CallInv, Kept, Dialog, TypeOK
<1> QED
  BY <1>1, CallInvCorrect, PTL

\* update_call_counter and __sip_destroy: the calls of the peer are counted for as long as
\* they last, however they end.
THEOREM CountedCorrect == Spec => []Counted
<1>1. CallInv => Counted
  BY ScenarioOf DEF CallInv, Kept, Balanced, Counted
<1> QED
  BY <1>1, CallInvCorrect, PTL

\* check_pendings, sip_hangup and do_proxy_auth: no BYE overtakes an INVITE that is pending.
THEOREM ByeWaitsCorrect == Spec => ByeWaits
<1>1. CallInv /\ [Next]_vars =>
        [\A e \in net' \ net : e.to = "ua" /\ e.m = "BYE" /\ e.code = 0 =>
           \/ p'.pendinginvite = 0 \/ Has(p, "reinvite")
           \/ \E r \in net : r.to = "us" /\ r.m = "BYE" /\ r.code = 401]_vars
  BY NextKeeps DEF Waits
<1> QED
  BY <1>1, CallInvCorrect, PTL DEF Spec, ByeWaits
-----------------------------------------------------------------------------
(* Until an INVITE is answered with 200: what a dialog is like then, so    *)
(* that a CANCEL finds a provisional response to its INVITE.               *)

Accepts(S) == \E r \in S : r.m = "INVITE" /\ r.code = 200
Hushed == sc.fault # "loop" /\ ~Accepts(net)
Heard(seq) ==
  \E r \in net : r.to = "us" /\ r.m = "INVITE" /\ r.seq = seq /\ r.code \in 100 .. 199

Cancel(e) == e.m = "CANCEL" /\ e.code = 0
Asks(pkt) == pkt.m = "INVITE" /\ pkt.code = 0
Unasked(s)  == \A i \in DOMAIN s : ~Asks(s[i])
Alone(s, n) ==
  \A i \in DOMAIN s : Asks(s[i]) => s[i].seq = n /\ \A j \in DOMAIN s : Asks(s[j]) => j = i

Answerable == {"proceeding", "early"}

\* A call that was received sends no INVITE, and what waits for its end to say BYE has no
\* channel that could ring any more.
ReceivedSo(q) ==
  /\ ~Has(q, "outgoing") /\ Unasked(q.packets)
  /\ q.owner => q.lastinvite # 0
  /\ Has(q, "pendingbye") => ~q.owner /\ q.lastinvite # 0 /\ q.inv \notin Answerable

\* A call that is placed: nothing is said before sip_call; one INVITE is out at most, the
\* last one, and the state of a call that goes on is what a response to that INVITE made of it.
PlacedSo(q) ==
  /\ "prov" \notin q.tm
  /\ Has(p, "outgoing") => Has(q, "outgoing")
  /\ ~Has(q, "outgoing") => q.inv = "none" /\ q.out = {}
  /\ q.inv = "none" => q.lastmsg = "none" /\ q.packets = <<>> /\ ~Has(q, "pendingbye")
  /\ q.inv \in Answerable => Heard(q.lastinvite)
  /\ Alone(q.packets, q.lastinvite)
  /\ \A e \in q.out : e.m = "INVITE" => e.code = 0

Tame(q) ==
  /\ q.incoming = p.incoming
  /\ q.ch # "up" /\ ~q.answer /\ "wait" \notin q.tm /\ ~Has(q, "needreinvite")
  /\ \A e \in q.out : e.to = "ua" /\ (Cancel(e) => Heard(e.seq))
  /\ q.incoming => ReceivedSo(q)
  /\ ~q.incoming => PlacedSo(q)

\* A dialog in order (Ok, Over) that is tame as well.
Fair(q) == Ok(q) /\ Tame(q)
Calm(q) == Over(q) /\ Tame(q)

\* It can speak, and it spoke before.
Talks(q) == q.incoming \/ Has(q, "outgoing")
Begun(q) == q.incoming \/ q.inv # "none"

\* The states the dialog may go to.
Fits(q, s) ==
  /\ Talks(q) /\ s # "none"
  /\ s \in Answerable => IF q.incoming THEN ~Has(q, "pendingbye") ELSE Heard(q.lastinvite)

Plain == Flags \ (Special \cup {"outgoing", "pendingbye", "needreinvite"})
-----------------------------------------------------------------------------
LEMMA FairCalm ==
  ASSUME NEW q, Fair(q)
  PROVE  Calm(q)
BY OkOver DEF Fair, Calm

LEMMA FairOn ==
  ASSUME NEW q, Fair(q), NEW fs, fs \subseteq Plain
  PROVE  Fair(On(q, fs))
<1>1. Ok(On(q, fs))
  BY OkOn DEF Fair, Plain
<1>2. Tame(On(q, fs))
  BY DEF Fair, Tame, ReceivedSo, PlacedSo, Has, On, Ok, Sound, Dialog, Plain
<1> QED
  BY <1>1, <1>2 DEF Fair

LEMMA FairOff ==
  ASSUME NEW q, Fair(q), NEW fs, fs \cap Counters = {}, "outgoing" \notin fs \/ q.incoming
  PROVE  Fair(Off(q, fs))
<1>1. Ok(Off(q, fs))
  BY OkOff DEF Fair
<1>2. Tame(Off(q, fs))
  BY DEF Fair, Tame, ReceivedSo, PlacedSo, Has, Off, Ok, Sound, Dialog
<1> QED
  BY <1>1, <1>2 DEF Fair

LEMMA CalmOn ==
  ASSUME NEW q, Calm(q), NEW fs, fs \subseteq Plain
  PROVE  Calm(On(q, fs))
<1>1. Over(On(q, fs))
  BY OverFlags DEF Calm, Plain, Special
<1>2. Tame(On(q, fs))
  BY DEF Calm, Tame, ReceivedSo, PlacedSo, Has, On, Over, Sound, Dialog, Plain
<1> QED
  BY <1>1, <1>2 DEF Calm

LEMMA CalmOff ==
  ASSUME NEW q, Calm(q), NEW fs, fs \subseteq Flags \ (Counters \cup {"outgoing"})
  PROVE  Calm(Off(q, fs))
<1>1. Over(Off(q, fs))
  BY OverFlags DEF Calm
<1>2. Tame(Off(q, fs))
  BY DEF Calm, Tame, ReceivedSo, PlacedSo, Has, Off, Over, Sound, Dialog
<1> QED
  BY <1>1, <1>2 DEF Calm

LEMMA FairState ==
  ASSUME NEW q, Fair(q), NEW s \in Open \cup Ended, Fits(q, s)
  PROVE  Fair(State(q, s))
<1>1. Ok(State(q, s))
  BY OkState DEF Fair
<1>2. Tame(State(q, s))
  BY DEF Fair, Tame, ReceivedSo, PlacedSo, Has, State, Ok, Sound, Dialog, Fits, Talks
<1> QED
  BY <1>1, <1>2 DEF Fair

LEMMA FairStarted ==
  ASSUME NEW q, Fair(q), NEW t \in Timers, t # "wait", t # "prov" \/ q.incoming
  PROVE  Fair(Started(q, t))
<1>1. Ok(Started(q, t))
  BY OkTimers DEF Fair
<1>2. Tame(Started(q, t))
  BY DEF Fair, Tame, ReceivedSo, PlacedSo, Has, Started, Ok, Sound, Dialog
<1> QED
  BY <1>1, <1>2 DEF Fair

LEMMA FairStopped ==
  ASSUME NEW q, Fair(q), NEW t \in Timers
  PROVE  Fair(Stopped(q, t))
<1>1. Ok(Stopped(q, t))
  BY OkTimers DEF Fair
<1>2. Tame(Stopped(q, t))
  BY DEF Fair, Tame, ReceivedSo, PlacedSo, Has, Stopped, Ok, Sound, Dialog
<1> QED
  BY <1>1, <1>2 DEF Fair

LEMMA FairNumbers ==
  ASSUME NEW q, Fair(q), NEW n \in Nat
  PROVE  /\ Fair([q EXCEPT !.pendinginvite = n]) /\ Fair([q EXCEPT !.glareinvite = n])
         /\ Fair([q EXCEPT !.initseq = n]) /\ Fair([q EXCEPT !.icseq = n])
         /\ Fair([q EXCEPT !.authtries = n])
         /\ q.incoming /\ n # 0 => Fair([q EXCEPT !.lastinvite = n])
<1> USE DEF Fair, Tame, ReceivedSo, PlacedSo, Has
<1>1. Tame([q EXCEPT !.pendinginvite = n]) /\ Tame([q EXCEPT !.glareinvite = n])
  BY DEF Ok, Sound, Dialog
<1>2. Tame([q EXCEPT !.initseq = n]) /\ Tame([q EXCEPT !.icseq = n])
  BY DEF Ok, Sound, Dialog
<1>3. Tame([q EXCEPT !.authtries = n])
  BY DEF Ok, Sound, Dialog
<1>4. q.incoming /\ n # 0 => Tame([q EXCEPT !.lastinvite = n])
  BY DEF Ok, Sound, Dialog
<1> QED
  BY <1>1, <1>2, <1>3, <1>4, OkNumbers

LEMMA FairTruths ==
  ASSUME NEW q, Fair(q), NEW b \in BOOLEAN
  PROVE  /\ Fair([q EXCEPT !.soft = b]) /\ Fair([q EXCEPT !.owner = FALSE])
         /\ Fair([q EXCEPT !.answer = FALSE])
<1> USE DEF Fair, Tame, ReceivedSo, PlacedSo, Has
<1>1. Tame([q EXCEPT !.soft = b])
  BY DEF Ok, Sound, Dialog
<1>2. Tame([q EXCEPT !.owner = FALSE]) /\ Tame([q EXCEPT !.answer = FALSE])
  BY DEF Ok, Sound, Dialog
<1> QED
  BY <1>1, <1>2, FALSE \in BOOLEAN, OkTruths

LEMMA FairChannel ==
  ASSUME NEW q, Fair(q), NEW s \in {"none", "down", "ring", "ringing"}
  PROVE  Fair([q EXCEPT !.ch = s])
<1>1. Ok([q EXCEPT !.ch = s])
  BY OkChannel DEF Fair
<1>2. Tame([q EXCEPT !.ch = s])
  BY DEF Fair, Tame, ReceivedSo, PlacedSo, Has, Ok, Sound, Dialog
<1> QED
  BY <1>1, <1>2 DEF Fair

LEMMA FairLast ==
  ASSUME NEW q, Fair(q), Begun(q), NEW m \in Methods
  PROVE  Fair([q EXCEPT !.lastmsg = m])
<1>1. Ok([q EXCEPT !.lastmsg = m])
  BY OkLast DEF Fair
<1>2. Tame([q EXCEPT !.lastmsg = m])
  BY DEF Fair, Tame, ReceivedSo, PlacedSo, Has, Ok, Sound, Dialog, Begun
<1> QED
  BY <1>1, <1>2 DEF Fair

LEMMA FairSay ==
  ASSUME NEW q, Fair(q), NEW m \in Methods, NEW seq \in Nat, NEW code \in Nat, Talks(q),
         m # "BYE" \/ code # 0, m = "CANCEL" /\ code = 0 => Heard(seq),
         m = "INVITE" /\ ~q.incoming => code = 0
  PROVE  Fair(Say(q, m, seq, code))
<1> DEFINE e == Msg("ua", m, seq, code)
<1>1. Ok(Say(q, m, seq, code))
  BY OkSay DEF Fair
<1>2. e.m = m /\ e.seq = seq /\ e.code = code /\ e.to = "ua"
  BY DEF Msg
<1>3. Say(q, m, seq, code) = [q EXCEPT !.out = q.out \cup {e}]
  BY DEF Say
<1> HIDE DEF e
<1>4. Tame([q EXCEPT !.out = q.out \cup {e}])
  BY <1>2 DEF Fair, Tame, ReceivedSo, PlacedSo, Has, Ok, Sound, Dialog, Talks, Cancel
<1> QED
  BY <1>1, <1>3, <1>4 DEF Fair

LEMMA FairQueueHangup ==
  ASSUME NEW q, Fair(q)
  PROVE  Fair(QueueHangup(q))
<1>1. (q.soft \/ q.owner) \in BOOLEAN
  OBVIOUS
<1> QED
  BY <1>1, FairTruths DEF QueueHangup

LEMMA FairDestroyTimer ==
  ASSUME NEW q, Fair(q)
  PROVE  Fair(SchedDestroy(q)) /\ Fair(SchedDestroyFinal(q)) /\ Fair(CancelDestroy(q))
<1>1. /\ "kill" \in Timers /\ "kill" # "wait" /\ "kill" # "prov" /\ {"final"} \subseteq Plain
      /\ {"left"} \cap Counters = {} /\ "outgoing" \notin {"left"}
  BY DEF Timers, Plain, Flags, Counters, Special
<1>2. Fair(SchedDestroy(q)) /\ Fair(CancelDestroy(q))
  BY <1>1, FairStarted, FairStopped, FairOff DEF SchedDestroy, CancelDestroy
<1> QED
  BY <1>1, <1>2, FairOn DEF SchedDestroyFinal

LEMMA CalmSchedDestroy ==
  ASSUME NEW q, Calm(q)
  PROVE  Calm(SchedDestroy(q))
<1>1. Over(SchedDestroy(q))
  BY OverSchedDestroy DEF Calm
<1>2. Tame(SchedDestroy(q))
  BY DEF Calm, Tame, ReceivedSo, PlacedSo, Has, SchedDestroy, Started, Off, Over, Sound, Dialog
<1> QED
  BY <1>1, <1>2 DEF Calm
-----------------------------------------------------------------------------
(* Packets: the INVITE that is out is one of them at most.                 *)

\* RemoveAt leaves the others, in their order.
LEMMA RemoveAtOthers ==
  ASSUME NEW S, NEW s \in Seq(S), NEW i \in DOMAIN s
  PROVE  /\ DOMAIN RemoveAt(s, i) = 1 .. Len(s) - 1 /\ DOMAIN s = 1 .. Len(s) /\ Len(s) \in Nat
         /\ \A j \in 1 .. Len(s) - 1 :
              RemoveAt(s, i)[j] = s[IF j < i THEN j ELSE j + 1]
<1>1. i \in 1 .. Len(s) /\ Len(s) \in Nat /\ DOMAIN s = 1 .. Len(s)
  BY LenProperties
<1> DEFINE a == SubSeq(s, 1, i - 1)
           b == SubSeq(s, i + 1, Len(s))
<1>2. a \in Seq(S) /\ Len(a) = i - 1 /\ \A j \in 1 .. i - 1 : a[j] = s[j]
  <2>1. \A j \in 1 .. i - 1 : s[j] \in S
    BY <1>1
  <2> QED
    BY <1>1, <2>1, SubSeqProperties
<1>3. b \in Seq(S) /\ Len(b) = Len(s) - i /\ \A j \in 1 .. Len(s) - i : b[j] = s[i + j]
  <2>1. \A j \in i + 1 .. Len(s) : s[j] \in S
    BY <1>1
  <2> QED
    BY <1>1, <2>1, SubSeqProperties
<1>4. RemoveAt(s, i) = a \o b
  BY DEF RemoveAt
<1> HIDE DEF a, b
<1>5. Len(a \o b) = Len(s) - 1 /\ DOMAIN (a \o b) = 1 .. Len(s) - 1
  <2>1. a \o b \in Seq(S) /\ Len(a \o b) = Len(a) + Len(b)
    BY <1>2, <1>3, ConcatProperties
  <2>2. Len(a) + Len(b) = Len(s) - 1
    BY <1>1, <1>2, <1>3
  <2> QED
    BY <2>1, <2>2, LenProperties
<1>6. ASSUME NEW j \in 1 .. Len(s) - 1
      PROVE  (a \o b)[j] = s[IF j < i THEN j ELSE j + 1]
  <2>1. CASE j < i
    <3>1. j \in 1 .. i - 1 /\ j \in 1 .. Len(a) + Len(b) /\ j <= Len(a)
      BY <1>1, <1>2, <1>3, <2>1
    <3> QED
      BY <1>2, <1>3, <2>1, <3>1, ConcatProperties
  <2>2. CASE ~(j < i)
    <3>1. j - Len(a) \in 1 .. Len(s) - i /\ j \in 1 .. Len(a) + Len(b) /\ ~(j <= Len(a))
          /\ i + (j - Len(a)) = j + 1
      BY <1>1, <1>2, <1>3, <2>2
    <3>2. (a \o b)[j] = b[j - Len(a)]
      BY <1>2, <1>3, <3>1, ConcatProperties
    <3> QED
      BY <1>3, <2>2, <3>1, <3>2
  <2> QED
    BY <2>1, <2>2
<1> QED
  BY <1>1, <1>4, <1>5, <1>6

LEMMA RemoveAsks ==
  ASSUME NEW s \in Seq(Packet), NEW i \in DOMAIN s
  PROVE  /\ Unasked(s) => Unasked(RemoveAt(s, i))
         /\ \A n : Alone(s, n) => Alone(RemoveAt(s, i), n)
         /\ \A n : Alone(s, n) /\ Asks(s[i]) => Unasked(RemoveAt(s, i))
<1> DEFINE r == RemoveAt(s, i)
           at(j) == IF j < i THEN j ELSE j + 1
<1>1. /\ DOMAIN r = 1 .. Len(s) - 1 /\ DOMAIN s = 1 .. Len(s) /\ Len(s) \in Nat
      /\ \A j \in 1 .. Len(s) - 1 : r[j] = s[at(j)]
  BY RemoveAtOthers
<1> HIDE DEF r
<1>2. \A j \in DOMAIN r : at(j) \in DOMAIN s /\ at(j) # i /\ r[j] = s[at(j)]
  BY <1>1
<1>3. \A j, k \in DOMAIN r : at(j) = at(k) => j = k
  BY <1>1
<1> HIDE DEF at
<1>4. Unasked(s) => Unasked(r)
  BY <1>2 DEF Unasked
<1>5. ASSUME NEW n, Alone(s, n) PROVE Alone(r, n)
  <2>1. ASSUME NEW j \in DOMAIN r, Asks(r[j])
        PROVE  r[j].seq = n /\ \A k \in DOMAIN r : Asks(r[k]) => k = j
    <3>1. at(j) \in DOMAIN s /\ Asks(s[at(j)]) /\ r[j] = s[at(j)]
      BY <1>2, <2>1
    <3>2. s[at(j)].seq = n /\ \A k \in DOMAIN s : Asks(s[k]) => k = at(j)
      BY <1>5, <3>1 DEF Alone
    <3> QED
      BY <1>2, <1>3, <3>1, <3>2
  <2> QED
    BY <2>1 DEF Alone
<1>6. ASSUME NEW n, Alone(s, n), Asks(s[i]) PROVE Unasked(r)
  <2>1. \A k \in DOMAIN s : Asks(s[k]) => k = i
    BY <1>6 DEF Alone
  <2> QED
    BY <1>2, <2>1 DEF Unasked
<1> QED
  BY <1>4, <1>5, <1>6 DEF r

LEMMA UnaskedAlone ==
  ASSUME NEW s, Unasked(s), NEW n
  PROVE  Alone(s, n)
BY DEF Unasked, Alone

LEMMA AddsAsks ==
  ASSUME NEW s \in Seq(Packet), NEW pkt \in Packet
  PROVE  /\ Unasked(s) /\ ~Asks(pkt) => Unasked(<<pkt>> \o s)
         /\ \A n : Alone(s, n) /\ ~Asks(pkt) => Alone(<<pkt>> \o s, n)
         /\ Unasked(s) => Alone(<<pkt>> \o s, pkt.seq)
<1> DEFINE r == <<pkt>> \o s
<1>1. /\ DOMAIN r = 1 .. Len(s) + 1 /\ DOMAIN s = 1 .. Len(s) /\ Len(s) \in Nat
      /\ r[1] = pkt /\ \A j \in DOMAIN r : j # 1 => r[j] = s[j - 1] /\ j - 1 \in DOMAIN s
  <2>1. Len(s) \in Nat /\ DOMAIN s = 1 .. Len(s) /\ <<pkt>> \in Seq(Packet) /\ Len(<<pkt>>) = 1
    BY LenProperties
  <2>2. Len(r) = Len(s) + 1 /\ DOMAIN r = 1 .. Len(s) + 1
    BY <2>1, ConcatProperties
  <2> QED
    BY <2>1, <2>2
<1> HIDE DEF r
<1>2. Unasked(s) /\ ~Asks(pkt) => Unasked(r)
  BY <1>1 DEF Unasked
<1>3. ASSUME NEW n, Alone(s, n), ~Asks(pkt) PROVE Alone(r, n)
  <2>1. ASSUME NEW j \in DOMAIN r, Asks(r[j])
        PROVE  r[j].seq = n /\ \A k \in DOMAIN r : Asks(r[k]) => k = j
    <3>1. j # 1 /\ r[j] = s[j - 1] /\ j - 1 \in DOMAIN s
      BY <1>1, <1>3, <2>1
    <3>2. s[j - 1].seq = n /\ \A k \in DOMAIN s : Asks(s[k]) => k = j - 1
      BY <1>3, <2>1, <3>1 DEF Alone
    <3>3. ASSUME NEW k \in DOMAIN r, Asks(r[k]) PROVE k = j
      <4>1. k # 1 /\ Asks(s[k - 1]) /\ k - 1 \in DOMAIN s
        BY <1>1, <1>3, <3>3
      <4>2. k - 1 = j - 1
        BY <3>2, <4>1
      <4> QED
        BY <1>1, <4>2
    <3> QED
      BY <3>1, <3>2, <3>3
  <2> QED
    BY <2>1 DEF Alone
<1>4. Unasked(s) => Alone(r, pkt.seq)
  BY <1>1 DEF Unasked, Alone
<1> QED
  BY <1>2, <1>3, <1>4 DEF r

LEMMA FairPackets ==
  ASSUME NEW q, Fair(q), NEW s \in Seq(Packet), q.incoming => Unasked(s),
         ~q.incoming => Alone(s, q.lastinvite) /\ (q.inv = "none" => s = <<>>)
  PROVE  Fair([q EXCEPT !.packets = s])
<1>1. Ok([q EXCEPT !.packets = s])
  BY OkPackets DEF Fair
<1>2. Tame([q EXCEPT !.packets = s])
  BY DEF Fair, Tame, ReceivedSo, PlacedSo, Has, Ok, Sound, Dialog
<1> QED
  BY <1>1, <1>2 DEF Fair

LEMMA CalmPackets ==
  ASSUME NEW q, Calm(q), NEW s \in Seq(Packet), q.incoming => Unasked(s),
         ~q.incoming => Alone(s, q.lastinvite) /\ (q.inv = "none" => s = <<>>)
  PROVE  Calm([q EXCEPT !.packets = s])
<1>1. Over([q EXCEPT !.packets = s])
  BY OverPackets DEF Calm
<1>2. Tame([q EXCEPT !.packets = s])
  BY DEF Calm, Tame, ReceivedSo, PlacedSo, Has, Over, Sound, Dialog
<1> QED
  BY <1>1, <1>2 DEF Calm

\* What a dialog has for packets.
LEMMA TamePackets ==
  ASSUME NEW q, Fair(q) \/ Calm(q)
  PROVE  /\ q.packets \in Seq(Packet) /\ (q.incoming => Unasked(q.packets))
         /\ ~q.incoming => Alone(q.packets, q.lastinvite) /\ (q.inv = "none" => q.packets = <<>>)
BY OkFields DEF Fair, Calm, Tame, ReceivedSo, PlacedSo

\* One of them is taken away.
LEMMA FairRemove ==
  ASSUME NEW q, Fair(q), NEW i \in DOMAIN q.packets
  PROVE  /\ Fair([q EXCEPT !.packets = RemoveAt(q.packets, i)])
         /\ Begun(q)
         /\ Asks(q.packets[i]) => Unasked(RemoveAt(q.packets, i))
<1> DEFINE s == RemoveAt(q.packets, i)
<1>1. q.packets \in Seq(Packet) /\ (q.incoming => Unasked(q.packets))
      /\ (~q.incoming => Alone(q.packets, q.lastinvite) /\ (q.inv = "none" => q.packets = <<>>))
  BY TamePackets
<1>2. s \in Seq(Packet)
  BY <1>1, RemoveKeeps
<1>3. /\ Unasked(q.packets) => Unasked(s)
      /\ \A n : Alone(q.packets, n) => Alone(s, n)
      /\ \A n : Alone(q.packets, n) /\ Asks(q.packets[i]) => Unasked(s)
  BY <1>1, RemoveAsks
<1>4. q.packets # <<>>
  OBVIOUS
<1> HIDE DEF s
<1>5. Fair([q EXCEPT !.packets = s])
  BY <1>1, <1>2, <1>3, <1>4, FairPackets
<1> QED
  BY <1>1, <1>3, <1>4, <1>5 DEF s, Unasked, Begun

\* What no acknowledgement changes.
Still(r, q) == r.fl = q.fl /\ r.inv = q.inv /\ r.lastinvite = q.lastinvite

LEMMA FairAck ==
  ASSUME NEW q, Fair(q), NEW seq, NEW resp, NEW m
  PROVE  /\ Fair(Ack(q, seq, resp, m)) /\ Still(Ack(q, seq, resp, m), q)
         /\ Matching(q, seq, resp, m) # {} => Begun(q)
         /\ resp = FALSE /\ m = "INVITE" /\ Matching(q, seq, resp, m) # {} =>
              Unasked(Ack(q, seq, resp, m).packets)
<1> DEFINE found == Matching(q, seq, resp, m)
           i == FirstOf(found)
           n == IF ~resp /\ seq = q.pendinginvite THEN 0 ELSE q.pendinginvite
           r == [q EXCEPT !.packets = RemoveAt(q.packets, i)]
<1>1. CASE found = {}
  BY <1>1 DEF Ack, Still
<1>2. CASE found # {}
  <2>1. found \subseteq DOMAIN q.packets /\ q.packets \in Seq(Packet)
    BY TamePackets DEF Matching
  <2>2. resp = FALSE /\ m = "INVITE" => \A j \in found : Asks(q.packets[j])
    <3>1. \A j \in DOMAIN q.packets : q.packets[j] \in Packet
      BY <2>1
    <3>2. \A j \in DOMAIN q.packets : q.packets[j].code \in Nat
      BY <3>1 DEF Packet
    <3>3. ASSUME NEW j \in found, resp = FALSE PROVE ~(q.packets[j].code > 0)
      <4>1. (q.packets[j].code > 0) = resp
        BY DEF Matching
      <4> QED
        BY <3>3, <4>1
    <3>4. ASSUME NEW j \in found, resp = FALSE PROVE j \in DOMAIN q.packets /\ q.packets[j].m = m
      BY <3>4, Zenon DEF Matching
    <3> HIDE DEF found
    <3>5. ASSUME NEW j \in found, resp = FALSE PROVE q.packets[j].m = m /\ q.packets[j].code = 0
      <4>1. ~(q.packets[j].code > 0) /\ j \in DOMAIN q.packets /\ q.packets[j].m = m
        BY <3>3, <3>4, <3>5, Zenon
      <4>2. q.packets[j].code \in Nat
        BY <3>2, <4>1
      <4> QED
        BY ONLY <4>1, <4>2
    <3> QED
      BY <3>5, Zenon DEF Asks
  <2>3. Ack(q, seq, resp, m) = [q EXCEPT !.packets = RemoveAt(q.packets, i), !.pendinginvite = n]
    BY <1>2 DEF Ack
  <2>4. n \in Nat
    BY OkFields DEF Fair
  <2> HIDE DEF found, n
  <2>5. i \in found
    BY <1>2, <2>1, FirstOfFound
  <2> HIDE DEF i
  <2>6. /\ Fair(r) /\ Begun(q)
        /\ Asks(q.packets[i]) => Unasked(RemoveAt(q.packets, i))
    BY <2>1, <2>5, FairRemove
  <2>7. r.fl = q.fl /\ r.inv = q.inv /\ r.lastinvite = q.lastinvite
        /\ r.packets = RemoveAt(q.packets, i)
        /\ [q EXCEPT !.packets = RemoveAt(q.packets, i), !.pendinginvite = n]
             = [r EXCEPT !.pendinginvite = n]
    BY DEF Fair, Ok, Sound, Dialog
  <2> HIDE DEF r
  <2>8. Fair([r EXCEPT !.pendinginvite = n])
    BY <2>4, <2>6, FairNumbers
  <2>9. LET s == [r EXCEPT !.pendinginvite = n]
        IN  s.fl = r.fl /\ s.inv = r.inv /\ s.lastinvite = r.lastinvite /\ s.packets = r.packets
    BY <2>6 DEF Fair, Ok, Sound, Dialog
  <2> QED
    BY <2>2, <2>3, <2>5, <2>6, <2>7, <2>8, <2>9 DEF Still
<1> QED
  BY <1>1, <1>2

LEMMA FairPretendAck ==
  ASSUME NEW q, Fair(q)
  PROVE  /\ Fair(PretendAck(q)) /\ PretendAck(q).inv = q.inv /\ PretendAck(q).fl = q.fl
         /\ PretendAck(q).incoming = q.incoming
<1> DEFINE n == IF \E i \in DOMAIN q.packets : q.packets[i].code = 0 /\ q.packets[i].seq = q.pendinginvite
                THEN 0 ELSE q.pendinginvite
           r == [q EXCEPT !.packets = <<>>]
<1>1. n \in Nat /\ <<>> \in Seq(Packet)
  BY OkFields DEF Fair
<1>2. PretendAck(q) = [q EXCEPT !.packets = <<>>, !.pendinginvite = n]
  BY DEF PretendAck
<1> HIDE DEF n
<1>3. Unasked(<<>>)
  BY DEF Unasked
<1>4. Fair(r)
  BY <1>1, <1>3, UnaskedAlone, FairPackets
<1>5. [q EXCEPT !.packets = <<>>, !.pendinginvite = n] = [r EXCEPT !.pendinginvite = n]
      /\ r.inv = q.inv /\ r.fl = q.fl /\ r.incoming = q.incoming
  BY DEF Fair, Ok, Sound, Dialog
<1> HIDE DEF r
<1>6. LET s == [r EXCEPT !.pendinginvite = n]
      IN  s.inv = r.inv /\ s.fl = r.fl /\ s.incoming = r.incoming
  BY <1>4 DEF Fair, Ok, Sound, Dialog
<1>7. Fair([r EXCEPT !.pendinginvite = n])
  BY <1>1, <1>4, FairNumbers
<1> QED
  BY <1>2, <1>5, <1>6, <1>7

\* A timer that is stopped leaves the packets what they are.
LEMMA FairSemiAck ==
  ASSUME NEW q, Fair(q), NEW seq, NEW resp, NEW m
  PROVE  /\ Fair(SemiAck(q, seq, resp, m)) /\ Still(SemiAck(q, seq, resp, m), q)
         /\ Fair(SemiAckAll(q)) /\ Still(SemiAckAll(q), q)
<1> DEFINE Same(s) == /\ DOMAIN s = DOMAIN q.packets
                      /\ \A j \in DOMAIN s : /\ s[j].m = q.packets[j].m /\ s[j].seq = q.packets[j].seq
                                             /\ s[j].code = q.packets[j].code
<1>1. q.packets \in Seq(Packet) /\ (q.incoming => Unasked(q.packets))
      /\ (~q.incoming => Alone(q.packets, q.lastinvite) /\ (q.inv = "none" => q.packets = <<>>))
  BY TamePackets
<1>2. \A j \in DOMAIN q.packets : q.packets[j] \in Packet
  BY <1>1
<1>3. ASSUME NEW r, Ok(r), NEW s, r = [q EXCEPT !.packets = s], Same(s)
      PROVE  Fair(r) /\ Still(r, q)
  <2>1. r.packets = s /\ r.fl = q.fl /\ r.lastinvite = q.lastinvite /\ r.inv = q.inv
    BY <1>3 DEF Fair, Ok, Sound, Dialog
  <2>2. s \in Seq(Packet)
    BY <1>3, <2>1, OkFields
  <2>3. Unasked(q.packets) => Unasked(s)
    BY <1>3 DEF Unasked, Asks
  <2>4. \A n : Alone(q.packets, n) => Alone(s, n)
    BY <1>3 DEF Alone, Asks
  <2>5. q.packets = <<>> => s = <<>>
    <3>1. Len(s) \in Nat /\ DOMAIN s = 1 .. Len(s) /\ DOMAIN q.packets = 1 .. Len(q.packets)
          /\ Len(q.packets) \in Nat
      BY <1>1, <2>2, LenProperties
    <3>2. \A n \in Nat : 1 .. n = 1 .. 0 => n = 0
      <4>1. \A n \in Nat : n # 0 => 1 \in 1 .. n /\ 1 \notin 1 .. 0
        OBVIOUS
      <4> QED
        BY <4>1
    <3>3. q.packets = <<>> => 1 .. Len(s) = 1 .. 0
      <4>1. Len(<<>>) = 0
        BY EmptySeq
      <4> QED
        BY <1>3, <3>1, <4>1
    <3>4. q.packets = <<>> => Len(s) = 0
      BY <3>1, <3>2, <3>3
    <3> QED
      BY <2>2, <3>4, EmptySeq
  <2> QED
    BY <1>1, <1>3, <2>1, <2>2, <2>3, <2>4, <2>5, FairPackets DEF Still
<1>4. Fair(SemiAckAll(q)) /\ Still(SemiAckAll(q), q)
  <2> DEFINE s == [i \in DOMAIN q.packets |-> [q.packets[i] EXCEPT !.timer = FALSE]]
  <2>1. Same(s)
    BY <1>2 DEF Packet
  <2>2. Ok(SemiAckAll(q)) /\ SemiAckAll(q) = [q EXCEPT !.packets = s]
    BY OkSemiAck DEF Fair, SemiAckAll
  <2> HIDE DEF s, Same
  <2> QED
    BY <1>3, <2>1, <2>2
<1>5. Fair(SemiAck(q, seq, resp, m)) /\ Still(SemiAck(q, seq, resp, m), q)
  <2> DEFINE found == Matching(q, seq, resp, m)
             i == FirstOf(found)
             s == [q.packets EXCEPT ![i] = [q.packets[i] EXCEPT !.timer = FALSE]]
  <2>1. CASE found = {}
    BY <2>1 DEF SemiAck, Still
  <2>2. CASE found # {}
    <3>1. found \subseteq DOMAIN q.packets
      BY DEF Matching
    <3>2. SemiAck(q, seq, resp, m) = [q EXCEPT !.packets[i].timer = FALSE]
      BY <2>2 DEF SemiAck
    <3> HIDE DEF found
    <3>3. i \in DOMAIN q.packets
      BY <1>1, <2>2, <3>1, FirstOfFound
    <3> HIDE DEF i
    <3>4. Same(s)
      BY <1>2, <3>3 DEF Packet
    <3>5. [q EXCEPT !.packets[i].timer = FALSE] = [q EXCEPT !.packets = s]
      BY DEF Fair, Ok, Sound, Dialog
    <3>6. Ok(SemiAck(q, seq, resp, m))
      BY OkSemiAck DEF Fair
    <3> HIDE DEF s, Same
    <3> QED
      BY <1>3, <3>2, <3>4, <3>5, <3>6
  <2> QED
    BY <2>1, <2>2
<1> QED
  BY <1>4, <1>5
-----------------------------------------------------------------------------
(* Requests and responses of a tame dialog.                                *)

\* A packet that asks for no call, on top of the others.
LEMMA FairPush ==
  ASSUME NEW q, Fair(q), Begun(q), NEW pkt \in Packet, ~Asks(pkt)
  PROVE  Fair([q EXCEPT !.packets = <<pkt>> \o q.packets])
<1>1. q.packets \in Seq(Packet) /\ (q.incoming => Unasked(q.packets))
      /\ (~q.incoming => Alone(q.packets, q.lastinvite) /\ (q.inv = "none" => q.packets = <<>>))
  BY TamePackets
<1> DEFINE s == <<pkt>> \o q.packets
<1>2. s \in Seq(Packet)
  BY <1>1
<1>3. /\ Unasked(q.packets) => Unasked(s)
      /\ \A n : Alone(q.packets, n) => Alone(s, n)
  BY <1>1, AddsAsks
<1> HIDE DEF s
<1>4. Fair([q EXCEPT !.packets = s])
  BY <1>1, <1>2, <1>3, FairPackets DEF Begun
<1> QED
  BY <1>4 DEF s

LEMMA FairReliableXmit ==
  ASSUME NEW q, Fair(q), Begun(q), Talks(q), NEW seq \in Nat, NEW code \in Nat,
         NEW fatal \in BOOLEAN, NEW m \in Methods,
         m # "BYE", m = "INVITE" => q.incoming /\ code # 0, m = "CANCEL" /\ code = 0 => Heard(seq)
  PROVE  Fair(ReliableXmit(q, seq, code, fatal, m))
<1> DEFINE pkt == [m |-> m, seq |-> seq, code |-> code, fatal |-> fatal, timer |-> TRUE]
           r == [q EXCEPT !.packets = <<pkt>> \o q.packets]
<1>1. ReliableXmit(q, seq, code, fatal, m) = Say(r, m, seq, code)
  BY DEF ReliableXmit
<1>2. pkt \in Packet /\ ~Asks(pkt)
  BY DEF Packet, Asks
<1>3. r.incoming = q.incoming /\ r.fl = q.fl
  BY DEF Fair, Ok, Sound, Dialog
<1> HIDE DEF pkt
<1>4. Fair(r)
  BY <1>2, FairPush
<1> HIDE DEF r
<1>5. Talks(r)
  BY <1>3 DEF Talks, Has
<1>6. Fair(Say(r, m, seq, code))
  BY <1>3, <1>4, <1>5, FairSay
<1> QED
  BY <1>1, <1>6

\* An ACK confirms.
LEMMA FairSendAck ==
  ASSUME NEW q, Fair(q), Talks(q), NEW seq \in Nat
  PROVE  /\ Fair(SendAck(q, seq)) /\ SendAck(q, seq).packets = q.packets
         /\ SendAck(q, seq).fl = q.fl /\ SendAck(q, seq).incoming = q.incoming
         /\ SendAck(q, seq).inv = "confirmed"
<1> DEFINE r == State(q, "confirmed")
           s == [r EXCEPT !.lastmsg = "ACK"]
<1>1. Fair(r)
  BY States, FairState DEF Fits, Answerable
<1>2. r.inv = "confirmed" /\ r.fl = q.fl /\ r.incoming = q.incoming /\ r.packets = q.packets
  BY DEF State, Fair, Ok, Sound, Dialog
<1> HIDE DEF r
<1>3. Fair(s)
  BY <1>1, <1>2, Words, FairLast DEF Begun
<1>4. s.inv = "confirmed" /\ s.fl = q.fl /\ s.incoming = q.incoming /\ s.packets = q.packets
  BY <1>1, <1>2 DEF Fair, Ok, Sound, Dialog
<1>5. SendAck(q, seq) = Say(s, "ACK", seq, 0)
  BY DEF SendAck, r
<1> HIDE DEF s
<1>6. Fair(Say(s, "ACK", seq, 0))
  <2>1. Talks(s) /\ 0 \in Nat /\ "ACK" \in Methods
    BY <1>4, Words DEF Talks, Has
  <2> QED
    BY <1>3, <2>1, FairSay
<1>7. LET t == Say(s, "ACK", seq, 0)
      IN  t.inv = s.inv /\ t.fl = s.fl /\ t.incoming = s.incoming /\ t.packets = s.packets
  BY <1>3 DEF Say, Fair, Ok, Sound, Dialog
<1> QED
  BY <1>4, <1>5, <1>6, <1>7

\* A CANCEL, when its INVITE was heard of.
LEMMA FairSendCancel ==
  ASSUME NEW q, Fair(q), Talks(q), Heard(q.lastinvite)
  PROVE  Fair(SendCancel(q)) /\ SendCancel(q).incoming = q.incoming
<1> DEFINE r == State(q, "cancelled")
           s == [r EXCEPT !.lastmsg = "CANCEL"]
<1>1. Fair(r)
  BY States, FairState DEF Fits, Answerable
<1>2. r.inv = "cancelled" /\ r.fl = q.fl /\ r.incoming = q.incoming
  BY DEF State, Fair, Ok, Sound, Dialog
<1> HIDE DEF r
<1>3. Fair(s)
  BY <1>1, <1>2, Words, FairLast DEF Begun
<1>4. s.inv = "cancelled" /\ s.fl = q.fl /\ s.incoming = q.incoming
  BY <1>1, <1>2 DEF Fair, Ok, Sound, Dialog
<1>5. SendCancel(q) = ReliableXmit(s, q.lastinvite, 0, FALSE, "CANCEL")
  BY DEF SendCancel, r
<1> HIDE DEF s
<1>6. Talks(s) /\ Begun(s) /\ 0 \in Nat /\ "CANCEL" \in Methods /\ q.lastinvite \in Nat
      /\ FALSE \in BOOLEAN /\ "CANCEL" # "BYE" /\ "CANCEL" # "INVITE"
  BY <1>4, Words, OkFields DEF Talks, Has, Begun, Fair
<1>7. Fair(ReliableXmit(s, q.lastinvite, 0, FALSE, "CANCEL"))
  BY <1>3, <1>6, FairReliableXmit
<1>8. ReliableXmit(s, q.lastinvite, 0, FALSE, "CANCEL").incoming = s.incoming
  BY <1>3 DEF ReliableXmit, Say, Fair, Ok, Sound, Dialog
<1> QED
  BY <1>4, <1>5, <1>7, <1>8

\* An INVITE is sent once none is out: it is the last one.
LEMMA FairSendInvite ==
  ASSUME NEW q, Fair(q), ~q.incoming, Has(q, "outgoing"), Unasked(q.packets)
  PROVE  /\ Fair(State(SendInvite(q), "calling"))
         /\ q.inv \notin Answerable \cup {"none"} => Fair(SendInvite(q))
<1> DEFINE n == q.ocseq + 1
           pkt == [m |-> "INVITE", seq |-> n, code |-> 0, fatal |-> TRUE, timer |-> TRUE]
           e == Msg("ua", "INVITE", n, 0)
           s == <<pkt>> \o q.packets
           o == q.out \cup {e}
<1>1. Ok(SendInvite(q)) /\ Ok(State(SendInvite(q), "calling"))
  BY OkSent, OkState, States DEF Fair
<1>2. SendInvite(q) = [q EXCEPT !.ocseq = n, !.lastmsg = "INVITE", !.lastinvite = n,
                                !.pendinginvite = n, !.packets = s, !.out = o]
  <2> DEFINE a == NextSeq(q, "INVITE")
             b == [a EXCEPT !.lastinvite = a.ocseq]
             c == [b EXCEPT !.pendinginvite = a.ocseq]
             d == [c EXCEPT !.packets = <<pkt>> \o @]
  <2>1. a = [q EXCEPT !.ocseq = n, !.lastmsg = "INVITE"] /\ a.ocseq = n
    BY DEF NextSeq, Fair, Ok, Sound, Dialog
  <2>2. SendInvite(q) = Say(d, "INVITE", n, 0)
    BY <2>1 DEF SendInvite, ReliableXmit
  <2>3. d = [q EXCEPT !.ocseq = n, !.lastmsg = "INVITE", !.lastinvite = n,
                      !.pendinginvite = n, !.packets = s]
    <3> HIDE DEF pkt, n
    <3> QED
      BY <2>1 DEF Fair, Ok, Sound, Dialog
  <2> HIDE DEF pkt, n, d, s, e
  <2>4. Say(d, "INVITE", n, 0) = [d EXCEPT !.out = d.out \cup {e}]
    BY DEF Say, e
  <2> QED
    BY <2>2, <2>3, <2>4 DEF Fair, Ok, Sound, Dialog
<1>3. n \in Nat
  BY OkFields DEF Fair
<1>4. pkt \in Packet /\ pkt.seq = n /\ e.m = "INVITE" /\ e.code = 0 /\ e.to = "ua"
  BY <1>3 DEF Packet, Msg, Methods
<1> HIDE DEF n, pkt, e
<1>5. q.packets \in Seq(Packet)
  BY TamePackets
<1>6. Alone(s, n)
  BY <1>4, <1>5, AddsAsks
<1>7. \A x \in o : /\ x.to = "ua" /\ (Cancel(x) => Heard(x.seq))
                   /\ x.m = "INVITE" => x.code = 0
  BY <1>4 DEF Fair, Tame, PlacedSo, Cancel
<1> HIDE DEF s, o
<1> DEFINE r == SendInvite(q)
<1>8. /\ r.incoming = q.incoming /\ r.ch = q.ch /\ r.answer = q.answer /\ r.tm = q.tm
      /\ r.fl = q.fl /\ r.inv = q.inv /\ r.lastinvite = n /\ r.packets = s /\ r.out = o
  BY <1>2 DEF Fair, Ok, Sound, Dialog
<1> HIDE DEF r
<1>9. q.inv \notin Answerable \cup {"none"} => Tame(r)
  BY <1>6, <1>7, <1>8 DEF Fair, Tame, PlacedSo, Has
<1>10. LET t == State(r, "calling")
       IN  /\ t.incoming = r.incoming /\ t.ch = r.ch /\ t.answer = r.answer /\ t.tm = r.tm
           /\ t.fl = r.fl /\ t.inv = "calling" /\ t.lastinvite = r.lastinvite
           /\ t.packets = r.packets /\ t.out = r.out
  BY <1>1 DEF State, r, Ok, Sound, Dialog
<1>11. Tame(State(r, "calling"))
  <2> DEFINE t == State(r, "calling")
  <2> HIDE DEF t
  <2>1. /\ t.incoming = r.incoming /\ t.ch = r.ch /\ t.answer = r.answer /\ t.tm = r.tm
        /\ t.fl = r.fl /\ t.inv = "calling" /\ t.lastinvite = r.lastinvite
        /\ t.packets = r.packets /\ t.out = r.out
    BY <1>10 DEF t
  <2>2. Tame(t)
    BY <1>6, <1>7, <1>8, <2>1 DEF Fair, Tame, PlacedSo, Has, Answerable
  <2> QED
    BY <2>2 DEF t
<1> QED
  BY <1>1, <1>9, <1>11 DEF Fair, r

LEMMA CalmSendBye ==
  ASSUME NEW q, Fair(q), Free(q), Talks(q), Begun(q)
  PROVE  Calm(SendBye(q)) /\ Len(q.packets) \in Nat /\ Len(SendBye(q).packets) = Len(q.packets) + 1
<1> DEFINE n == q.ocseq + 1
           pkt == [m |-> "BYE", seq |-> n, code |-> 0, fatal |-> FALSE, timer |-> TRUE]
           e == Msg("ua", "BYE", n, 0)
           s == <<pkt>> \o q.packets
           o == q.out \cup {e}
<1>1. Over(SendBye(q)) /\ Len(q.packets) \in Nat /\ Len(SendBye(q).packets) = Len(q.packets) + 1
  BY OverBye DEF Fair
<1>2. SendBye(q) = [q EXCEPT !.ocseq = n, !.lastmsg = "BYE", !.packets = s, !.out = o]
  <2> DEFINE a == NextSeq(q, "BYE")
             d == [a EXCEPT !.packets = <<pkt>> \o @]
  <2>1. a = [q EXCEPT !.ocseq = n, !.lastmsg = "BYE"] /\ a.ocseq = n
    BY DEF NextSeq, Fair, Ok, Sound, Dialog
  <2>2. SendBye(q) = Say(d, "BYE", n, 0)
    BY <2>1 DEF SendBye, ReliableXmit
  <2>3. d = [q EXCEPT !.ocseq = n, !.lastmsg = "BYE", !.packets = s]
    <3> HIDE DEF pkt, n
    <3> QED
      BY <2>1 DEF Fair, Ok, Sound, Dialog
  <2> HIDE DEF pkt, n, d, s, e
  <2>4. Say(d, "BYE", n, 0) = [d EXCEPT !.out = d.out \cup {e}]
    BY DEF Say, e
  <2> QED
    BY <2>2, <2>3, <2>4 DEF Fair, Ok, Sound, Dialog
<1>3. n \in Nat
  BY OkFields DEF Fair
<1>4. pkt \in Packet /\ ~Asks(pkt) /\ e.m = "BYE" /\ e.to = "ua"
  BY <1>3 DEF Packet, Msg, Asks, Methods
<1> HIDE DEF n, pkt, e
<1>5. q.packets \in Seq(Packet)
  BY TamePackets
<1>6. (Unasked(q.packets) => Unasked(s)) /\ \A k : Alone(q.packets, k) => Alone(s, k)
  BY <1>4, <1>5, AddsAsks
<1> HIDE DEF s
<1>7. Tame(SendBye(q))
  <2> DEFINE r == SendBye(q)
  <2>1. /\ r.incoming = q.incoming /\ r.ch = q.ch /\ r.answer = q.answer /\ r.tm = q.tm
        /\ r.fl = q.fl /\ r.inv = q.inv /\ r.lastinvite = q.lastinvite /\ r.owner = q.owner
        /\ r.packets = s /\ r.out = o
    BY <1>2 DEF Fair, Ok, Sound, Dialog
  <2>2. \A x \in o : x \in q.out \/ (x.m = "BYE" /\ x.to = "ua")
    BY <1>4
  <2> HIDE DEF o, r
  <2>3. Tame(r)
    BY <1>6, <2>1, <2>2 DEF Fair, Tame, ReceivedSo, PlacedSo, Has, Talks, Begun, Cancel
  <2> QED
    BY <2>3 DEF r
<1> QED
  BY <1>1, <1>7 DEF Calm

\* Responses of a call that was received.
LEMMA FairRespond ==
  ASSUME NEW q, Fair(q), q.incoming, NEW code \in Nat, NEW seq \in Nat, NEW m \in Methods, code # 0
  PROVE  Fair(Respond(q, code, m, seq)) /\ Respond(q, code, m, seq).incoming
         /\ Respond(q, code, m, seq).fl = q.fl
<1>1. Fair(Say(q, m, seq, code))
  BY FairSay DEF Talks
<1>2. Say(q, m, seq, code).incoming = q.incoming /\ Say(q, m, seq, code).fl = q.fl
  BY DEF Say, Fair, Ok, Sound, Dialog
<1> QED
  BY <1>1, <1>2 DEF Respond

Told(r, q, code) ==
  /\ Fair(r) /\ r.incoming /\ r.fl = q.fl /\ r.owner = q.owner
  /\ r.lastinvite = q.lastinvite /\ r.initseq = q.initseq
  /\ \E e \in r.out : e.m = "INVITE" /\ e.code = code

LEMMA FairRespondReliably ==
  ASSUME NEW q, Fair(q), q.incoming, NEW code \in Nat, code # 0, NEW seq \in Nat
  PROVE  Told(RespondReliably(q, code, seq, TRUE), q, code)
         /\ Told(RespondReliably(q, code, seq, FALSE), q, code)
<1> DEFINE Like(r) == /\ r.incoming /\ r.fl = q.fl /\ r.owner = q.owner
                      /\ r.lastinvite = q.lastinvite /\ r.initseq = q.initseq
           Good(r) == /\ Fair(r) /\ Like(r)
                      /\ \E e \in r.out : e.m = "INVITE" /\ e.code = code
<1>1. Msg("ua", "INVITE", seq, code).m = "INVITE" /\ Msg("ua", "INVITE", seq, code).code = code
  BY DEF Msg
<1>2. ASSUME NEW r, Fair(r), Like(r)
      PROVE  /\ Good(ReliableXmit(r, seq, code, TRUE, "INVITE"))
             /\ Good(ReliableXmit(r, seq, code, FALSE, "INVITE"))
  <2>1. Talks(r) /\ Begun(r) /\ r.incoming /\ "INVITE" \in Methods /\ "INVITE" # "BYE" /\ "INVITE" # "CANCEL"
        /\ TRUE \in BOOLEAN /\ FALSE \in BOOLEAN
    BY <1>2, Words DEF Talks, Begun
  <2>2. Fair(ReliableXmit(r, seq, code, TRUE, "INVITE")) /\ Fair(ReliableXmit(r, seq, code, FALSE, "INVITE"))
    BY <1>2, <2>1, FairReliableXmit
  <2>3. \A fatal : LET t == ReliableXmit(r, seq, code, fatal, "INVITE")
                   IN  Like(t) /\ Msg("ua", "INVITE", seq, code) \in t.out
    BY <1>2 DEF ReliableXmit, Say, Fair, Ok, Sound, Dialog
  <2> QED
    BY <1>1, <2>2, <2>3
<1>3. Fair(Stopped(q, "prov")) /\ Like(Stopped(q, "prov")) /\ Like(q)
  <2>1. Like(Stopped(q, "prov")) /\ Like(q)
    BY DEF Stopped, Fair, Ok, Sound, Dialog
  <2> QED
    BY <2>1, Words, FairStopped
<1> HIDE DEF Like, Good
<1>4. Good(RespondReliably(q, code, seq, TRUE)) /\ Good(RespondReliably(q, code, seq, FALSE))
  BY <1>2, <1>3 DEF RespondReliably
<1> QED
  BY <1>4 DEF Good, Like, Told

LEMMA FairRespondProvisionally ==
  ASSUME NEW q, Fair(q), q.incoming, NEW code \in Nat, code # 0
  PROVE  /\ Fair(RespondProvisionally(q, code)) /\ RespondProvisionally(q, code).incoming
         /\ RespondProvisionally(q, code).fl = q.fl
<1>1. q.initseq \in Nat /\ "INVITE" \in Methods /\ "prov" \in Timers /\ "prov" # "wait"
  BY OkFields, Words DEF Fair
<1> DEFINE r == Respond(q, code, "INVITE", q.initseq)
<1>2. Fair(r) /\ r.incoming /\ r.fl = q.fl
  BY <1>1, FairRespond
<1> HIDE DEF r
<1>3. Fair(Started(r, "prov"))
  BY <1>1, <1>2, FairStarted
<1>4. Started(r, "prov").incoming = r.incoming /\ Started(r, "prov").fl = r.fl
  BY <1>2 DEF Started, Fair, Ok, Sound, Dialog
<1> QED
  BY <1>2, <1>3, <1>4 DEF RespondProvisionally, r
-----------------------------------------------------------------------------
(* Counters, what waits for an INVITE, and the end of the channel.         *)

LEMMA FairCounters ==
  ASSUME NEW q, Fair(q)
  PROVE  /\ Fair(IncCall(q)) /\ Fair(IncRinging(q)) /\ Fair(DecRinging(q)) /\ Fair(DecCall(q))
         /\ IncCall(q).incoming = q.incoming /\ IncRinging(q).incoming = q.incoming
         /\ DecCall(q).incoming = q.incoming /\ DecRinging(q).incoming = q.incoming
         /\ IncRinging(q).inv = q.inv /\ (Has(q, "outgoing") => Has(IncRinging(q), "outgoing"))
<1>1. Ok(IncCall(q)) /\ Ok(IncRinging(q)) /\ Ok(DecRinging(q)) /\ Ok(DecCall(q))
  BY OkCounters DEF Fair
<1> DEFINE Alike(r) ==
             /\ r.incoming = q.incoming /\ r.ch = q.ch /\ r.answer = q.answer /\ r.tm = q.tm
             /\ r.inv = q.inv /\ r.lastinvite = q.lastinvite /\ r.owner = q.owner
             /\ r.packets = q.packets /\ r.out = q.out /\ r.lastmsg = q.lastmsg
             /\ \A f \in {"outgoing", "pendingbye", "needreinvite"} : f \in r.fl <=> f \in q.fl
<1>2. ASSUME NEW r, Alike(r) PROVE Tame(r)
  BY <1>2 DEF Fair, Tame, ReceivedSo, PlacedSo, Has
<1>3. Alike(IncCall(q)) /\ Alike(DecRinging(q))
  BY DEF IncCall, DecRinging, On, Off, Fair, Ok, Sound, Dialog
<1>4. Alike(IncRinging(q))
  <2> DEFINE r == On([q EXCEPT !.ringing = q.ringing + 1], {"inc_ringing"})
  <2>1. Alike(r) /\ DOMAIN r = DOMAIN q /\ r = [f \in DOMAIN r |-> r[f]]
    BY DEF On, Fair, Ok, Sound, Dialog
  <2>2. IncRinging(q) = IF Has(q, "inc_ringing") THEN IncCall(q) ELSE IncCall(r)
    BY DEF IncRinging
  <2> HIDE DEF r
  <2>3. Alike(IncCall(r))
    BY <2>1 DEF IncCall, On, Fair, Ok, Sound, Dialog
  <2> QED
    BY <1>3, <2>2, <2>3
<1>5. Alike(DecCall(q))
  <2> DEFINE r == IF Has(q, "inc_count") THEN Off([q EXCEPT !.inuse = q.inuse - 1], {"inc_count"}) ELSE q
  <2>1. Alike(r) /\ DOMAIN r = DOMAIN q
    BY DEF Off, Fair, Ok, Sound, Dialog
  <2>2. DecCall(q) = DecRinging(r)
    BY DEF DecCall
  <2> HIDE DEF r
  <2>3. Alike(DecRinging(r))
    BY <2>1 DEF DecRinging, Off, Fair, Ok, Sound, Dialog
  <2> QED
    BY <2>2, <2>3
<1>6. Tame(IncCall(q)) /\ Tame(IncRinging(q)) /\ Tame(DecRinging(q)) /\ Tame(DecCall(q))
  BY <1>2, <1>3, <1>4, <1>5
<1> QED
  BY <1>1, <1>3, <1>4, <1>5, <1>6 DEF Fair, Has

\* What waits for a BYE has spoken, and knows of a response if it may still be cancelled.
LEMMA PendingTalks ==
  ASSUME NEW q, Fair(q), Has(q, "pendingbye")
  PROVE  Talks(q) /\ Begun(q) /\ (q.inv \in Answerable => Heard(q.lastinvite))
BY DEF Fair, Tame, ReceivedSo, PlacedSo, Talks, Begun

LEMMA CalmCheckPendings ==
  ASSUME NEW q, Fair(q)
  PROVE  Calm(CheckPendings(q))
<1>1. {"pendingbye"} \subseteq Flags \ (Counters \cup {"outgoing"})
      /\ {"pendingbye"} \cap Counters = {} /\ "outgoing" \notin {"pendingbye"}
  BY DEF Flags, Counters
<1>2. ASSUME Free(q), Has(q, "pendingbye")
      PROVE  Calm(SchedDestroy(Off(SendBye(QueueHangup(q)), {"pendingbye"})))
  <2> DEFINE r == QueueHangup(q)
  <2>1. Fair(r) /\ Free(r) /\ Talks(r) /\ Begun(r)
    <3>1. r.pendinginvite = q.pendinginvite /\ r.incoming = q.incoming /\ r.fl = q.fl /\ r.inv = q.inv
      BY DEF QueueHangup, Fair, Ok, Sound, Dialog
    <3>2. Talks(q) /\ Begun(q) /\ Fair(r)
      BY <1>2, PendingTalks, FairQueueHangup
    <3> QED
      BY <1>2, <3>1, <3>2 DEF Free, Talks, Begun, Has
  <2> HIDE DEF r
  <2>2. Calm(SendBye(r))
    BY <2>1, CalmSendBye
  <2>3. Calm(Off(SendBye(r), {"pendingbye"}))
    BY <1>1, <2>2, CalmOff
  <2> QED
    BY <2>3, CalmSchedDestroy DEF r
<1>3. ASSUME Has(q, "pendingbye"), q.inv \in Answerable
      PROVE  Calm(SchedDestroy(SendCancel(q))) /\ Calm(SchedDestroy(Off(SendCancel(q), {"pendingbye"})))
  <2>1. Fair(SendCancel(q))
    BY <1>3, PendingTalks, FairSendCancel
  <2>2. Fair(Off(SendCancel(q), {"pendingbye"}))
    BY <1>1, <2>1, FairOff
  <2> QED
    BY <2>1, <2>2, FairDestroyTimer, FairCalm
<1>4. q.pendinginvite = 0 \/ Has(q, "reinvite") => Free(q)
  BY DEF Fair, Ok, Free
<1>5. Calm(q) /\ ~Has(q, "needreinvite")
  BY FairCalm DEF Fair, Tame
<1>6. CASE Has(q, "pendingbye")
  <2>1. CASE "reinvite" \in q.tm
    BY <1>5, <1>6, <2>1 DEF CheckPendings
  <2>2. CASE "reinvite" \notin q.tm /\ q.inv \in Answerable
    BY <1>3, <1>6, <2>2 DEF CheckPendings, Answerable
  <2>3. CASE "reinvite" \notin q.tm /\ q.inv \notin Answerable
    BY <1>2, <1>4, <1>5, <1>6, <2>3 DEF CheckPendings, Answerable
  <2> QED
    BY <2>1, <2>2, <2>3
<1>7. CASE ~Has(q, "pendingbye")
  BY <1>5, <1>7 DEF CheckPendings
<1> QED
  BY <1>6, <1>7

\* A BYE that has to wait: the channel is gone, and the call is not one that goes on.
LEMMA FairPendingBye ==
  ASSUME NEW q, Fair(q), Begun(q),
         q.incoming => ~q.owner /\ q.lastinvite # 0 /\ q.inv \notin Answerable
  PROVE  Fair(On(q, {"pendingbye"}))
<1>1. Ok(On(q, {"pendingbye"}))
  BY Words, OkFlag DEF Fair
<1>2. Tame(On(q, {"pendingbye"}))
  BY DEF Fair, Tame, ReceivedSo, PlacedSo, Has, On, Ok, Sound, Dialog, Begun
<1> QED
  BY <1>1, <1>2 DEF Fair

LEMMA FairDecline ==
  ASSUME NEW q, Fair(q), q.incoming, NEW n \in Nat
  PROVE  Fair(RespondReliably(q, 603, n, TRUE)) /\ RespondReliably(q, 603, n, TRUE).incoming
<1>1. 603 \in Nat /\ 603 # 0
  OBVIOUS
<1>2. Told(RespondReliably(q, 603, n, TRUE), q, 603)
  BY <1>1, FairRespondReliably, ZenonT(40)
<1> QED
  BY <1>2 DEF Told

\* sip_hangup of a channel there is.
LEMMA CalmHangup ==
  ASSUME NEW q, Fair(q), q.owner
  PROVE  Calm(Hangup(q))
<1> DEFINE s == DecCall(q)
           r == [s EXCEPT !.owner = FALSE, !.soft = FALSE, !.answer = FALSE, !.ch = "none"]
           t == IF q.inv # "calling" THEN SchedDestroy(r) ELSE r
<1>1. Fair(s) /\ s.incoming = q.incoming /\ s.inv = q.inv /\ s.lastinvite = q.lastinvite
      /\ s.pendinginvite = q.pendinginvite
      /\ (Has(s, "outgoing") <=> Has(q, "outgoing"))
  <2>1. Fair(s)
    BY FairCounters
  <2>2. s.incoming = q.incoming /\ s.inv = q.inv /\ s.lastinvite = q.lastinvite
        /\ s.pendinginvite = q.pendinginvite
    BY DEF DecCall, DecRinging, Off, Fair, Ok, Sound, Dialog
  <2>3. Has(s, "outgoing") <=> Has(q, "outgoing")
    BY DEF DecCall, DecRinging, Off, Has, Fair, Ok, Sound, Dialog
  <2> QED
    BY <2>1, <2>2, <2>3
<1> HIDE DEF s
<1>2. Fair(r) /\ ~r.owner /\ r.incoming = q.incoming /\ r.inv = q.inv /\ r.lastinvite = q.lastinvite
      /\ r.pendinginvite = q.pendinginvite /\ r.fl = s.fl
  <2>1. Fair([[[[s EXCEPT !.owner = FALSE] EXCEPT !.soft = FALSE] EXCEPT !.answer = FALSE] EXCEPT !.ch = "none"])
    <3> DEFINE a == [s EXCEPT !.owner = FALSE]
               b == [a EXCEPT !.soft = FALSE]
               c == [b EXCEPT !.answer = FALSE]
    <3>1. Fair(a)
      BY <1>1, TRUE \in BOOLEAN, FairTruths
    <3> HIDE DEF a
    <3>2. Fair(b)
      BY <3>1, FALSE \in BOOLEAN, FairTruths
    <3> HIDE DEF b
    <3>3. Fair(c)
      BY <3>2, FALSE \in BOOLEAN, FairTruths
    <3> HIDE DEF c
    <3>4. Fair([c EXCEPT !.ch = "none"])
      BY <3>3, FairChannel
    <3> QED
      BY <3>4 DEF a, b, c
  <2>2. r = [[[[s EXCEPT !.owner = FALSE] EXCEPT !.soft = FALSE] EXCEPT !.answer = FALSE] EXCEPT !.ch = "none"]
    BY <1>1 DEF Fair, Ok, Sound, Dialog
  <2>3. ~r.owner /\ r.incoming = s.incoming /\ r.inv = s.inv /\ r.lastinvite = s.lastinvite
        /\ r.pendinginvite = s.pendinginvite /\ r.fl = s.fl
    BY <1>1 DEF Fair, Ok, Sound, Dialog
  <2> QED
    BY <1>1, <2>1, <2>2, <2>3
<1> HIDE DEF r
<1>3. Fair(t) /\ ~t.owner /\ t.incoming = q.incoming /\ t.inv = q.inv /\ t.lastinvite = q.lastinvite
      /\ t.pendinginvite = q.pendinginvite /\ (Has(t, "outgoing") <=> Has(r, "outgoing"))
  <2>1. LET u == SchedDestroy(r)
        IN  /\ u.owner = r.owner /\ u.incoming = r.incoming /\ u.inv = r.inv /\ u.lastinvite = r.lastinvite
            /\ u.pendinginvite = r.pendinginvite /\ (Has(u, "outgoing") <=> Has(r, "outgoing"))
    BY <1>2 DEF SchedDestroy, Started, Off, Has, Fair, Ok, Sound, Dialog
  <2> QED
    BY <1>2, <2>1, FairDestroyTimer
<1>4. Hangup(q) = IF Has(q, "alreadygone") THEN On(r, {"needdestroy"})
                  ELSE IF q.lastmsg = "none" THEN t
                  ELSE IF NeedCancel(q) THEN HangupUnanswered(q, t) ELSE HangupAnswered(q, t)
  BY DEF Hangup, r, s
<1> HIDE DEF t
<1>5. {"needdestroy"} \subseteq Plain
  BY DEF Plain, Flags, Counters, Special
<1>6. Calm(On(r, {"needdestroy"})) /\ Calm(t)
  BY <1>2, <1>3, <1>5, FairOn, FairCalm
<1>7. q.incoming => ~Has(q, "outgoing") /\ q.lastinvite # 0
  BY DEF Fair, Tame, ReceivedSo
<1>8. ASSUME NeedCancel(q), q.lastmsg # "none" PROVE Calm(HangupUnanswered(q, t))
  <2>1. CASE q.incoming
    <3> DEFINE v == Stopped(t, "prov")
    <3>1. Fair(v) /\ v.incoming /\ v.fl = t.fl
      <4>1. v.incoming = t.incoming /\ v.fl = t.fl
        BY <1>3 DEF Stopped, Fair, Ok, Sound, Dialog
      <4> QED
        BY <1>3, <2>1, <4>1, Words, FairStopped
    <3> HIDE DEF v
    <3> DEFINE w == RespondReliably(v, 603, q.initseq, TRUE)
    <3>2. q.initseq \in Nat
      BY OkFields DEF Fair
    <3>3. Fair(w) /\ w.incoming
      BY <3>1, <3>2, FairDecline, ZenonT(40)
    <3>4. HangupUnanswered(q, t) = State(w, "terminated")
      BY <1>7, <2>1 DEF HangupUnanswered, v
    <3> HIDE DEF w
    <3>5. Fair(State(w, "terminated"))
      BY <3>3, States, FairState DEF Fits, Talks, Answerable
    <3> QED
      BY <3>4, <3>5, FairCalm
  <2>2. CASE ~q.incoming
    <3>1. q.inv # "none" /\ Has(q, "outgoing") /\ (q.inv \in Answerable => Heard(q.lastinvite))
      BY <1>8, <2>2 DEF Fair, Tame, PlacedSo
    <3>2. CASE q.inv = "calling"
      <4>1. Fair(On(t, {"pendingbye"}))
        BY <1>3, <2>2, <3>1, FairPendingBye DEF Begun
      <4>2. HangupUnanswered(q, t) = SchedDestroy(On(t, {"pendingbye"}))
        BY <3>1, <3>2 DEF HangupUnanswered
      <4> QED
        BY <4>1, <4>2, FairDestroyTimer, FairCalm
    <3>3. CASE q.inv # "calling"
      <4>1. Heard(q.lastinvite)
        BY <1>8, <3>1, <3>3 DEF NeedCancel, Open, Answerable
      <4> DEFINE u == SemiAckAll(t)
      <4>2. Fair(u) /\ u.fl = t.fl /\ u.lastinvite = t.lastinvite
        BY <1>3, FairSemiAck DEF Still
      <4>3. HangupUnanswered(q, t) = SchedDestroy(SendCancel(u))
        BY <3>1, <3>3 DEF HangupUnanswered
      <4> HIDE DEF u
      <4>4. Talks(u) /\ Heard(u.lastinvite)
        BY <1>1, <1>2, <1>3, <3>1, <4>1, <4>2 DEF Talks, Has
      <4> QED
        BY <4>2, <4>3, <4>4, FairSendCancel, FairDestroyTimer, FairCalm
    <3> QED
      BY <3>2, <3>3
  <2> QED
    BY <2>1, <2>2
<1>9. ASSUME ~NeedCancel(q), q.lastmsg # "none" PROVE Calm(HangupAnswered(q, t))
  <2>1. q.ch # "up" /\ q.inv \notin Open
    BY <1>9 DEF Fair, Tame, NeedCancel
  <2>2. q.inv \notin Answerable /\ q.inv # "none"
    BY <2>1 DEF Open, Answerable
  <2> DEFINE a == On(t, {"pendingbye"})
             b == Off(a, {"needreinvite"})
             c == CancelDestroy(Stopped(b, "wait"))
  <2>3. Fair(a)
    BY <1>3, <1>7, <2>2, FairPendingBye DEF Begun
  <2> HIDE DEF a
  <2>4. Fair(b)
    <3>1. {"needreinvite"} \cap Counters = {} /\ "outgoing" \notin {"needreinvite"}
      BY DEF Counters
    <3> QED
      BY <2>3, <3>1, FairOff
  <2> HIDE DEF b
  <2>5. Fair(c)
    BY <2>4, Words, FairStopped, FairDestroyTimer
  <2> HIDE DEF c
  <2>6. Fair(Started(c, "reinvite"))
    BY <2>5, Words, FairStarted
  <2>7. HangupAnswered(q, t) = IF q.pendinginvite = 0 THEN t
                               ELSE IF Has(c, "reinvite") THEN Started(c, "reinvite") ELSE c
    BY <2>1 DEF HangupAnswered, a, b, c
  <2> QED
    BY <1>6, <2>5, <2>6, <2>7, FairCalm
<1> QED
  BY <1>4, <1>6, <1>8, <1>9

LEMMA TameDestroy ==
  ASSUME NEW q, Fair(q)
  PROVE  Tame(Destroy(q))
<1> DEFINE r == Unlink(q)
<1>1. Ok(r)
  <2>1. <<>> \in Seq(Packet)
    OBVIOUS
  <2> QED
    BY <2>1 DEF Unlink, Fair, Ok, Sound, Silent, Dialog, Balanced, Has
<1>2. Unasked(<<>>)
  BY DEF Unasked
<1>3. Tame(r)
  BY <1>2, UnaskedAlone DEF Unlink, Fair, Tame, ReceivedSo, PlacedSo, Has, Ok, Sound, Dialog
<1>4. Fair(r)
  BY <1>1, <1>3 DEF Fair
<1> HIDE DEF r
<1>5. Fair(DecCall(r))
  BY <1>4, FairCounters
<1> DEFINE s == DecCall(r)
<1>6. Destroy(q) = [s EXCEPT !.alive = "gone"]
  BY DEF Destroy, r
<1> HIDE DEF s
<1>7. Tame([s EXCEPT !.alive = "gone"])
  BY <1>5 DEF s, Fair, Tame, ReceivedSo, PlacedSo, Has, Ok, Sound, Dialog
<1> QED
  BY <1>6, <1>7
-----------------------------------------------------------------------------
(* Timers and responses of a tame dialog.                                  *)

LEMMA BegunTalks ==
  ASSUME NEW q, Fair(q), Begun(q)
  PROVE  Talks(q)
BY DEF Fair, Tame, PlacedSo, Begun, Talks

LEMMA CalmRetransOver ==
  ASSUME NEW q, Fair(q), Begun(q), NEW pkt \in Packet
  PROVE  Calm(RetransOver(q, pkt))
<1> DEFINE s == State(q, "terminated")
           t == [s EXCEPT !.pendinginvite = 0]
           a == On(q, {"alreadygone"})
           b == On(q, {"needdestroy", "alreadygone"})
<1>1. Fair(s)
  BY BegunTalks, States, FairState DEF Fits, Answerable
<1> HIDE DEF s
<1>2. Fair(t)
  <2>1. 0 \in Nat
    OBVIOUS
  <2> QED
    BY <1>1, <2>1, FairNumbers
<1>3. {"alreadygone"} \subseteq Plain /\ {"needdestroy", "alreadygone"} \subseteq Plain
      /\ {"alreadygone", "needdestroy"} \subseteq Plain
  BY DEF Plain, Flags, Counters, Special
<1>4. Fair(a) /\ Fair(b)
  BY <1>3, FairOn
<1> DEFINE r == IF pkt.fatal THEN
                  IF q.owner THEN
                    QueueHangup(IF pkt.code \in 200 .. 299 /\ q.pendinginvite # 0 /\ Has(q, "established")
                                THEN t ELSE a)
                  ELSE b
                ELSE IF q.pendinginvite = pkt.seq THEN CheckPendings(t) ELSE q
<1>5. RetransOver(q, pkt) = IF pkt.m = "BYE" THEN On(r, {"alreadygone", "needdestroy"}) ELSE r
  BY DEF RetransOver, s
<1> HIDE DEF t, a, b
<1>6. Calm(QueueHangup(t)) /\ Calm(QueueHangup(a)) /\ Calm(b) /\ Calm(CheckPendings(t)) /\ Calm(q)
  BY <1>2, <1>4, FairQueueHangup, CalmCheckPendings, FairCalm
<1>7. Calm(r)
  BY <1>6
<1> HIDE DEF r
<1> QED
  BY <1>3, <1>5, <1>7, CalmOn

LEMMA CalmRemove ==
  ASSUME NEW q, Calm(q), NEW i \in DOMAIN q.packets
  PROVE  Calm([q EXCEPT !.packets = RemoveAt(q.packets, i)])
<1> DEFINE s == RemoveAt(q.packets, i)
<1>1. q.packets \in Seq(Packet) /\ (q.incoming => Unasked(q.packets))
      /\ (~q.incoming => Alone(q.packets, q.lastinvite) /\ (q.inv = "none" => q.packets = <<>>))
  BY TamePackets
<1>2. s \in Seq(Packet)
  BY <1>1, RemoveKeeps
<1>3. /\ Unasked(q.packets) => Unasked(s)
      /\ \A n : Alone(q.packets, n) => Alone(s, n)
  BY <1>1, RemoveAsks
<1>4. q.packets # <<>>
  OBVIOUS
<1> HIDE DEF s
<1>5. Calm([q EXCEPT !.packets = s])
  BY <1>1, <1>2, <1>3, <1>4, CalmPackets
<1> QED
  BY <1>5 DEF s

\* What no response changes of a dialog before it is looked into.
Akin(r, q) ==
  /\ r.incoming = q.incoming /\ (Has(r, "outgoing") <=> Has(q, "outgoing"))
  /\ r.packets = q.packets /\ r.lastinvite = q.lastinvite

LEMMA FairSettle ==
  ASSUME NEW q, Fair(q), Talks(q), NEW code \in Nat, NEW seq,
         ~q.incoming, code < 200 => Heard(q.lastinvite)
  PROVE  Fair(Settle(q, code, seq)) /\ Akin(Settle(q, code, seq), q)
<1> DEFINE r == Stopped(q, "init")
           s == IF code < 200 /\ r.inv = "calling" THEN State(r, "proceeding")
                ELSE IF code >= 300 /\ r.inv \in {"calling", "proceeding", "early"}
                THEN State(r, "completed") ELSE r
           o == Off(s, {"reinvite"})
           t == IF code >= 200 /\ Has(s, "established") THEN Stopped(o, "reinvite")
                ELSE s
<1>1. Settle(q, code, seq) = IF code >= 200 /\ seq = t.pendinginvite THEN [t EXCEPT !.pendinginvite = 0] ELSE t
  BY DEF Settle
<1>2. Fair(r) /\ Akin(r, q)
  <2>1. Akin(r, q)
    BY DEF Akin, Stopped, Has, Fair, Ok, Sound, Dialog
  <2> QED
    BY <2>1, Words, FairStopped
<1> HIDE DEF r
<1>3. Fair(s) /\ Akin(s, q)
  <2>1. Talks(r) /\ ~r.incoming /\ (code < 200 => Heard(r.lastinvite))
    BY <1>2 DEF Talks, Akin
  <2>2. \A x : Akin(State(r, x), r)
    BY <1>2 DEF Akin, State, Has, Fair, Ok, Sound, Dialog
  <2>3. Fair(State(r, "completed"))
    BY <1>2, <2>1, States, FairState DEF Fits, Answerable
  <2>4. code < 200 => Fair(State(r, "proceeding"))
    BY <1>2, <2>1, States, FairState DEF Fits
  <2> QED
    BY <1>2, <2>2, <2>3, <2>4 DEF Akin
<1> HIDE DEF s
<1>4. Fair(o) /\ Akin(o, q)
  <2>1. {"reinvite"} \cap Counters = {} /\ "outgoing" \notin {"reinvite"}
    BY DEF Counters
  <2>2. Akin(o, s)
    BY <1>3 DEF Akin, Off, Has, Fair, Ok, Sound, Dialog
  <2> QED
    BY <1>3, <2>1, <2>2, FairOff DEF Akin
<1> HIDE DEF o
<1>5. Fair(t) /\ Akin(t, q)
  <2>1. Akin(Stopped(o, "reinvite"), o)
    BY <1>4 DEF Akin, Stopped, Has, Fair, Ok, Sound, Dialog
  <2> QED
    BY <1>3, <1>4, <2>1, Words, FairStopped DEF Akin
<1> HIDE DEF t
<1>6. Fair([t EXCEPT !.pendinginvite = 0]) /\ Akin([t EXCEPT !.pendinginvite = 0], t)
  <2>1. Akin([t EXCEPT !.pendinginvite = 0], t)
    BY <1>5 DEF Akin, Has, Fair, Ok, Sound, Dialog
  <2>2. 0 \in Nat
    OBVIOUS
  <2> QED
    BY <1>5, <2>1, <2>2, FairNumbers
<1> QED
  BY <1>1, <1>5, <1>6 DEF Akin

LEMMA PlainWords ==
  /\ {"left"} \subseteq Plain /\ {"needdestroy"} \subseteq Plain /\ {"alreadygone"} \subseteq Plain
  /\ {"needdestroy", "alreadygone"} \subseteq Plain /\ {"nonce"} \subseteq Plain
  /\ {"established"} \subseteq Plain /\ {"progress"} \subseteq Plain
  /\ {"established"} \subseteq Flags \ (Counters \cup {"outgoing"})
  /\ {"established"} \cap Counters = {} /\ "outgoing" \notin {"established"}
BY DEF Plain, Flags, Counters, Special

LEMMA CalmProgress ==
  ASSUME NEW q, Fair(q), Talks(q), ~q.incoming, Heard(q.lastinvite), NEW code
  PROVE  Calm(Progress(q, code))
<1> DEFINE r == IF q.inv # "cancelled" THEN CancelDestroy(q) ELSE q
           s == IF code = 183 /\ q.inv # "cancelled" THEN State(r, "early") ELSE r
           u == IF code = 180 /\ s.owner /\ s.ch # "up" THEN [s EXCEPT !.ch = "ringing"] ELSE s
           t == CheckPendings(u)
<1>1. Progress(q, code) = IF "kill" \in q.tm THEN Left(t) ELSE t
  BY DEF Progress
<1>2. Fair(r) /\ Akin(r, q)
  <2>1. Akin(r, q)
    BY DEF Akin, CancelDestroy, Stopped, Has, Fair, Ok, Sound, Dialog
  <2> QED
    BY <2>1, FairDestroyTimer
<1> HIDE DEF r
<1>4. Fair(s)
  <2>1. Talks(r) /\ ~r.incoming /\ Heard(r.lastinvite)
    BY <1>2 DEF Talks, Akin
  <2>2. Fair(State(r, "early"))
    BY <1>2, <2>1, States, FairState DEF Fits
  <2> QED
    BY <1>2, <2>2
<1> HIDE DEF s
<1>5. Fair(u)
  BY <1>4, FairChannel, ZenonT(40)
<1> HIDE DEF u
<1>6. Calm(t)
  BY <1>5, CalmCheckPendings
<1> HIDE DEF t
<1>7. Calm(Left(t))
  BY <1>6, PlainWords, CalmOn DEF Left
<1> QED
  BY <1>1, <1>6, <1>7

LEMMA FairForgotten ==
  ASSUME NEW q, Fair(q)
  PROVE  Fair(Forgotten(q))
BY PlainWords, FairOn DEF Forgotten, Left

LEMMA FairTries ==
  ASSUME NEW q, Fair(q)
  PROVE  Fair([q EXCEPT !.authtries = @ + 1])
<1>1. q.authtries + 1 \in Nat
  BY OkFields DEF Fair
<1> QED
  BY <1>1, FairNumbers

\* The INVITE that is tried again is the only one: the one before was acknowledged.
LEMMA FairChallenged ==
  ASSUME NEW q, Fair(q), ~q.incoming, Has(q, "outgoing"), Unasked(q.packets), NEW seq \in Nat
  PROVE  Fair(Challenged(q, seq)) /\ Fair(SendInvite(SendAck(q, seq)))
<1> DEFINE r == SendAck(q, seq)
           s == State(r, "calling")
<1>1. /\ Fair(r) /\ r.packets = q.packets /\ r.fl = q.fl /\ r.incoming = q.incoming
      /\ r.inv = "confirmed"
  BY FairSendAck DEF Talks
<1> HIDE DEF r
<1>2. Fair(SendInvite(r))
  BY <1>1, FairSendInvite DEF Answerable, Has
<1>3. Fair(s)
  BY <1>1, States, FairState DEF Fits, Talks, Answerable, Has
<1>4. s.packets = r.packets /\ s.fl = r.fl /\ s.incoming = r.incoming /\ s.inv = "calling"
  BY <1>1 DEF State, Fair, Ok, Sound, Dialog
<1> HIDE DEF s
<1>5. Fair(SendInvite(s))
  BY <1>1, <1>3, <1>4, FairSendInvite DEF Answerable, Has
<1>6. Fair([SendInvite(s) EXCEPT !.authtries = @ + 1])
  BY <1>5, FairTries
<1>7. Fair(QueueHangup(On(r, {"needdestroy", "alreadygone"})))
  BY <1>1, PlainWords, FairOn, FairQueueHangup
<1> QED
  BY <1>2, <1>6, <1>7 DEF Challenged, r, s

LEMMA CalmTerminated ==
  ASSUME NEW q, Fair(q), Talks(q), NEW seq \in Nat
  PROVE  Calm(Terminated(q, seq))
<1> DEFINE r == SendAck(q, seq)
           t == IF r.owner THEN QueueHangup(r) ELSE DecCall(r)
<1>1. Fair(t)
  BY FairSendAck, FairQueueHangup, FairCounters
<1>2. Terminated(q, seq) = SchedDestroy(CheckPendings(t))
  BY DEF Terminated
<1> HIDE DEF t
<1> QED
  BY <1>1, <1>2, CalmCheckPendings, CalmSchedDestroy

\* No re-INVITE without an answer: the channel is not up yet.
LEMMA FairRequestPending ==
  ASSUME NEW q, Fair(q), Talks(q), NEW seq \in Nat
  PROVE  Fair(RequestPending(q, seq))
<1>1. Fair(SendAck(q, seq))
  BY FairSendAck
<1>2. SendAck(q, seq).ch # "up"
  BY <1>1 DEF Fair, Tame
<1> QED
  BY <1>1, <1>2, FairForgotten, FairQueueHangup DEF RequestPending

LEMMA CalmInviteResponse ==
  ASSUME NEW q, Fair(q), ~q.incoming, Has(q, "outgoing"), NEW code \in Nat, NEW seq \in Nat, NEW how,
         code # 200, code < 200 => Heard(q.lastinvite), code >= 200 => Unasked(q.packets)
  PROVE  Calm(InviteResponse(q, code, seq, how))
<1> DEFINE r == Settle(q, code, seq)
<1>1. Fair(r) /\ Akin(r, q)
  BY FairSettle DEF Talks
<1> HIDE DEF r
<1>2. ~r.incoming /\ Has(r, "outgoing") /\ Talks(r)
  BY <1>1 DEF Akin, Talks
<1>3. code < 200 => Calm(Progress(r, code))
  BY <1>1, <1>2, CalmProgress DEF Akin
<1>4. code >= 200 => Calm(Challenged(r, seq)) /\ Calm(SendInvite(SendAck(r, seq)))
  BY <1>1, <1>2, FairChallenged, FairCalm DEF Akin
<1>5. Calm(Terminated(r, seq)) /\ Calm(RequestPending(r, seq))
  BY <1>1, <1>2, CalmTerminated, FairRequestPending, FairCalm
<1>6. Calm(Forgotten(QueueHangup(SendAck(r, seq)))) /\ Calm(q)
  BY <1>1, <1>2, FairSendAck, FairQueueHangup, FairForgotten, FairCalm
<1> QED
  BY <1>3, <1>4, <1>5, <1>6 DEF InviteResponse, r

LEMMA FairFailure ==
  ASSUME NEW q, Fair(q), Talks(q), NEW m, NEW seq \in Nat
  PROVE  Fair(Failure(q, m, seq))
<1> DEFINE s == IF m = "INVITE" THEN SendAck(q, seq) ELSE q
           r == QueueHangup(On(s, {"alreadygone"}))
<1>1. Fair(s)
  BY FairSendAck
<1> HIDE DEF s
<1>2. Fair(r)
  BY <1>1, PlainWords, FairOn, FairQueueHangup
<1> HIDE DEF r
<1>3. Failure(q, m, seq) = IF r.owner THEN r ELSE On(r, {"needdestroy"})
  BY DEF Failure, r, s
<1> QED
  BY <1>2, <1>3, PlainWords, FairOn

LEMMA CalmByeChallenged ==
  ASSUME NEW q, Fair(q), Wanted, Talks(q), Begun(q)
  PROVE  Calm(ByeChallenged(q))
<1> DEFINE r == SendBye(q)
           n == r.authtries + 1
<1>1. Calm(r)
  BY CalmSendBye DEF Free
<1> HIDE DEF r
<1>2. Over([r EXCEPT !.authtries = @ + 1])
  BY <1>1, OverTries DEF Calm
<1>3. n \in Nat
  BY <1>1, OkFields DEF Calm
<1> HIDE DEF n
<1>4. Tame([r EXCEPT !.authtries = n])
  BY <1>1 DEF Calm, Tame, ReceivedSo, PlacedSo, Has, Over, Sound, Dialog
<1>5. Calm([r EXCEPT !.authtries = @ + 1])
  BY <1>2, <1>4 DEF Calm, n
<1>6. Calm(On(q, {"needdestroy"}))
  BY PlainWords, FairOn, FairCalm
<1> QED
  BY <1>5, <1>6 DEF ByeChallenged, r

\* The packet of an INVITE is the one of the last INVITE of a call that is placed.
LEMMA InviteMatched ==
  ASSUME NEW q, Fair(q), NEW seq, Matching(q, seq, FALSE, "INVITE") # {}
  PROVE  ~q.incoming /\ seq = q.lastinvite
<1>1. PICK i : i \in Matching(q, seq, FALSE, "INVITE")
  OBVIOUS
<1>2. i \in DOMAIN q.packets /\ q.packets[i].seq = seq /\ q.packets[i].m = "INVITE"
      /\ (q.packets[i].code > 0) = FALSE
  BY <1>1 DEF Matching
<1>3. q.packets[i].code \in Nat
  <2>1. q.packets[i] \in Packet
    BY <1>2, TamePackets
  <2> QED
    BY <2>1 DEF Packet
<1>4. Asks(q.packets[i])
  BY <1>2, <1>3 DEF Asks
<1> QED
  BY <1>2, <1>4, TamePackets DEF Unasked, Alone

LEMMA CalmHandleResponse ==
  ASSUME NEW q, Fair(q), Talks(q), NEW m \in Methods, NEW seq \in Nat, NEW code \in Nat, NEW how,
         m = "BYE" /\ code = 401 => Wanted,
         m = "INVITE" => code # 200, m = "INVITE" /\ code < 200 => Heard(seq)
  PROVE  Calm(HandleResponse(q, m, seq, code, how))
<1> DEFINE r == Acknowledged(q, m, seq, code)
<1>1. CASE ~Matches(q, m, seq, code)
  <2>1. Calm(SendAck(q, seq)) /\ Calm(q)
    BY FairSendAck, FairCalm
  <2> QED
    BY <1>1, <2>1 DEF HandleResponse
<1>2. CASE Matches(q, m, seq, code)
  <2>1. Matching(q, seq, FALSE, m) # {} /\ (code < 200 => m = "INVITE")
    BY <1>2 DEF Matches
  <2>2. Begun(q)
    BY <2>1, FairAck
  <2>3. Fair(r) /\ r.fl = q.fl /\ r.inv = q.inv /\ r.lastinvite = q.lastinvite
    <3>1. Fair(Ack(q, seq, FALSE, m)) /\ Still(Ack(q, seq, FALSE, m), q)
      BY FairAck, Zenon
    <3>2. Fair(SemiAck(q, seq, FALSE, m)) /\ Still(SemiAck(q, seq, FALSE, m), q)
      BY FairSemiAck, Zenon
    <3>3. Still(q, q)
      BY DEF Still
    <3>4. Fair(r) /\ Still(r, q)
      BY <3>1, <3>2, <3>3, Zenon DEF Acknowledged
    <3> HIDE DEF r
    <3> QED
      BY <3>4 DEF Still
  <2>4. r.incoming = q.incoming
    BY <2>3 DEF Fair, Tame
  <2>5. m = "INVITE" /\ code >= 200 => Unasked(r.packets)
    <3>1. m = "INVITE" => Unasked(Ack(q, seq, FALSE, m).packets)
      BY <2>1, FairAck, Zenon
    <3>2. code >= 200 => ~(code < 200)
      OBVIOUS
    <3> QED
      BY <3>1, <3>2, Zenon DEF Acknowledged
  <2>6. m = "INVITE" => ~q.incoming /\ seq = q.lastinvite
    BY <2>1, InviteMatched
  <2>7. HandleResponse(q, m, seq, code, how) =
          IF m = "BYE" /\ code = 481 THEN On(r, {"needdestroy"})
          ELSE IF Has(r, "outgoing") THEN OutgoingResponse(r, m, seq, code, how)
          ELSE IncomingResponse(r, m, seq, code, how)
    BY <1>2 DEF HandleResponse
  <2> HIDE DEF r
  <2>8. Talks(r) /\ Begun(r)
    BY <2>2, <2>3, <2>4 DEF Talks, Begun, Has
  <2>9. /\ Calm(r) /\ Calm(On(r, {"needdestroy"}))
        /\ Calm(Off(On(r, {"needdestroy"}), {"established"})) /\ Calm(Failure(r, m, seq))
    BY <2>3, <2>8, PlainWords, FairOn, FairOff, FairFailure, FairCalm
  <2>10. m = "BYE" /\ code = 401 => Calm(ByeChallenged(r))
    BY <2>3, <2>8, CalmByeChallenged
  <2>11. CASE Has(r, "outgoing")
    <3>1. ~q.incoming
      BY <2>3, <2>4, <2>11 DEF Fair, Tame, ReceivedSo
    <3>2. m = "INVITE" => Calm(InviteResponse(r, code, seq, how))
      BY <2>3, <2>4, <2>5, <2>6, <2>11, <3>1, CalmInviteResponse
    <3>3. Calm(OutgoingResponse(r, m, seq, code, how))
      BY <2>9, <2>10, <3>2 DEF OutgoingResponse
    <3> QED
      BY <2>7, <2>9, <2>11, <3>3
  <2>12. CASE ~Has(r, "outgoing")
    <3>1. q.incoming
      BY <2>4, <2>8, <2>12 DEF Talks
    <3>2. m # "INVITE"
      BY <2>6, <3>1
    <3>3. Calm(IncomingResponse(r, m, seq, code, how))
      BY <2>9, <2>10, <3>2 DEF IncomingResponse
    <3> QED
      BY <2>7, <2>9, <2>12, <3>3
  <2> QED
    BY <2>11, <2>12
<1> QED
  BY <1>1, <1>2
-----------------------------------------------------------------------------
(* Requests of the other side: a call that is received, of which a handler *)
(* says 200 to the INVITE, or leaves a tame dialog.                        *)

Tells(q) == Calm(q) \/ Accepts(q.out)

LEMMA FairTells ==
  ASSUME NEW q, Fair(q)
  PROVE  Tells(q)
BY FairCalm DEF Tells

\* A call that was received takes every state, but for one that goes on, which a BYE that
\* waits would contradict.
LEMMA FairIncomingState ==
  ASSUME NEW q, Fair(q), q.incoming
  PROVE  /\ \A s \in {"completed", "terminated", "cancelled"} :
              Fair(State(q, s)) /\ State(q, s).incoming
         /\ ~Has(q, "pendingbye") => Fair(State(q, "proceeding")) /\ Fair(State(q, "early"))
         /\ \A s : State(q, s).incoming /\ State(q, s).fl = q.fl /\ State(q, s).owner = q.owner
                   /\ State(q, s).out = q.out
<1>1. \A s \in {"completed", "terminated", "cancelled"} : s \in Open \cup Ended /\ Fits(q, s)
  BY DEF Fits, Talks, Answerable, Open, Ended
<1>2. ~Has(q, "pendingbye") => Fits(q, "proceeding") /\ Fits(q, "early")
  BY DEF Fits, Talks
<1>3. \A s : State(q, s).incoming /\ State(q, s).fl = q.fl /\ State(q, s).owner = q.owner
             /\ State(q, s).out = q.out
  BY DEF State, Fair, Ok, Sound, Dialog
<1> QED
  BY <1>1, <1>2, <1>3, States, FairState

\* What a final response that is sent reliably leaves.
LEMMA FairRefuse ==
  ASSUME NEW q, Fair(q), q.incoming, NEW code \in Nat, code # 0, NEW seq \in Nat
  PROVE  Fair(Refuse(q, code, seq))
<1> DEFINE r == RespondReliably(q, code, seq, TRUE)
<1>1. Fair(r) /\ r.incoming
  BY FairRespondReliably, Zenon DEF Told
<1> HIDE DEF r
<1>2. Fair(State(r, "completed"))
  BY <1>1, FairIncomingState
<1> QED
  BY <1>2, FairDestroyTimer DEF Refuse, r

LEMMA FairAnswered ==
  ASSUME NEW q, Fair(q), q.incoming, NEW code \in Nat, code # 0, NEW seq \in Nat
  PROVE  /\ Fair(State(Respond(q, code, "INVITE", seq), "completed"))
         /\ Fair(SchedDestroy(State(Respond(q, code, "INVITE", seq), "completed")))
<1>1. Fair(Respond(q, code, "INVITE", seq)) /\ Respond(q, code, "INVITE", seq).incoming
  BY Words, FairRespond
<1>2. Fair(State(Respond(q, code, "INVITE", seq), "completed"))
  BY <1>1, FairIncomingState
<1> QED
  BY <1>2, FairDestroyTimer

LEMMA TellsStartCall ==
  ASSUME NEW q, Fair(q), q.incoming, q.lastinvite # 0, ~Has(q, "pendingbye"), NEW seq \in Nat,
         NEW fault
  PROVE  Tells(StartCall(q, seq, fault))
<1> DEFINE a == NewChannel(q, "ring")
           b == RespondProvisionally(a, 100)
           r == State(b, "proceeding")
           s == On(r, {"alreadygone"})
           t == State(s, "completed")
           u == RespondReliably(t, 503, seq, TRUE)
<1>1. Fair(a) /\ a.incoming /\ a.owner /\ a.fl = q.fl
  <2>1. a = [q EXCEPT !.owner = TRUE, !.ch = "ring"]
    BY DEF NewChannel
  <2>2. Ok(a)
    BY OkNewChannel DEF Fair
  <2>3. a.incoming /\ a.owner /\ a.fl = q.fl
    BY <2>1 DEF Fair, Ok, Sound, Dialog
  <2>4. /\ a.ch = "ring" /\ a.answer = q.answer /\ a.tm = q.tm /\ a.out = q.out
        /\ a.packets = q.packets /\ a.lastinvite = q.lastinvite /\ a.incoming = q.incoming
    BY <2>1 DEF Fair, Ok, Sound, Dialog
  <2> HIDE DEF a
  <2>5. Tame(a)
    BY <2>3, <2>4 DEF Fair, Tame, ReceivedSo, Has
  <2> QED
    BY <2>2, <2>3, <2>5 DEF Fair
<1> HIDE DEF a
<1>2. Fair(b) /\ b.incoming /\ b.fl = q.fl /\ b.owner
  <2>1. 100 \in Nat /\ 100 # 0
    OBVIOUS
  <2>2. b.owner = a.owner
    BY <1>1 DEF RespondProvisionally, Respond, Say, Started, Fair, Ok, Sound, Dialog
  <2> QED
    BY <1>1, <2>1, <2>2, FairRespondProvisionally
<1> HIDE DEF b
<1>3. Fair(r) /\ r.incoming /\ r.owner
  BY <1>2, FairIncomingState DEF Has
<1> HIDE DEF r
<1>4. Fair(s) /\ s.incoming /\ s.owner
  <2>1. s.incoming = r.incoming /\ s.owner = r.owner
    BY <1>3 DEF On, Fair, Ok, Sound, Dialog
  <2> QED
    BY <1>3, <2>1, PlainWords, FairOn
<1> HIDE DEF s
<1>5. Fair(t) /\ t.incoming /\ t.owner
  BY <1>4, FairIncomingState
<1> HIDE DEF t
<1>6. Fair(u) /\ u.owner
  <2>1. 503 \in Nat /\ 503 # 0
    OBVIOUS
  <2>2. Told(RespondReliably(t, 503, seq, TRUE), t, 503)
    BY <1>5, <2>1, FairRespondReliably, ZenonT(40)
  <2> QED
    BY <1>5, <2>2 DEF Told
<1> HIDE DEF u
<1>7. Calm(Hangup(u)) /\ Calm(r)
  BY <1>3, <1>6, CalmHangup, FairCalm
<1>8. StartCall(q, seq, fault) = IF fault = "pbx" THEN Hangup(u) ELSE r
  BY DEF StartCall, u, t, s, r, b, a
<1> QED
  BY <1>7, <1>8 DEF Tells

LEMMA TellsNewCall ==
  ASSUME NEW q, Fair(q), q.incoming, q.lastinvite = 0, NEW seq \in Nat, seq # 0, NEW fault
  PROVE  Tells(NewCall(q, seq, fault))
<1> DEFINE r == IncCall(q)
           t == [r EXCEPT !.lastinvite = seq]
           w == RespondReliably(q, 401, seq, FALSE)
<1>0. 401 \in Nat /\ 401 # 0 /\ 403 \in Nat /\ 403 # 0 /\ 488 \in Nat /\ 488 # 0
      /\ 480 \in Nat /\ 480 # 0 /\ 404 \in Nat /\ 404 # 0 /\ 503 \in Nat /\ 503 # 0
      /\ 422 \in Nat /\ 422 # 0
  OBVIOUS
<1>1. Fair(r) /\ r.incoming /\ (Has(r, "pendingbye") <=> Has(q, "pendingbye"))
  <2>1. Has(r, "pendingbye") <=> Has(q, "pendingbye")
    BY DEF IncCall, On, Has, Fair, Ok, Sound, Dialog
  <2> QED
    BY <2>1, FairCounters
<1>2. ~Has(q, "pendingbye")
  BY DEF Fair, Tame, ReceivedSo
<1> HIDE DEF r
<1>3. Fair(t) /\ t.incoming /\ t.lastinvite # 0 /\ ~Has(t, "pendingbye")
  <2>1. Fair(t)
    BY <1>1, FairNumbers
  <2>2. t.incoming = r.incoming /\ t.lastinvite = seq /\ t.fl = r.fl
    BY <1>1 DEF Fair, Ok, Sound, Dialog
  <2> QED
    BY <1>1, <1>2, <2>1, <2>2 DEF Has
<1> HIDE DEF t
<1>4. Fair(SchedDestroy(State(On(w, {"nonce"}), "completed")))
  <2>1. Told(RespondReliably(q, 401, seq, FALSE), q, 401)
    <3>1. PICK code \in Nat : code = 401 /\ code # 0
      OBVIOUS
    <3>2. Told(RespondReliably(q, code, seq, FALSE), q, code)
      BY <3>1, FairRespondReliably, ZenonT(40)
    <3> QED
      BY <3>1, <3>2
  <2>2. Fair(w) /\ w.incoming
    BY <2>1 DEF Told
  <2> HIDE DEF w
  <2>3. Fair(On(w, {"nonce"}))
    BY <2>2, PlainWords, FairOn
  <2>4. On(w, {"nonce"}).incoming
    BY <2>2 DEF On, Fair, Ok, Sound, Dialog
  <2> QED
    BY <2>3, <2>4, FairIncomingState, FairDestroyTimer
<1> HIDE DEF w
<1>5. Fair(Refuse(q, 403, seq)) /\ Fair(Refuse(q, 488, seq)) /\ Fair(Refuse(q, 480, seq))
  BY <1>0, FairRefuse
<1>6. Fair(DecCall(Refuse(r, 404, seq))) /\ Fair(Refuse(t, 503, seq))
  BY <1>0, <1>1, <1>3, FairRefuse, FairCounters
<1>7. Fair(SchedDestroy(State(Respond(r, 422, "INVITE", seq), "completed")))
  BY <1>0, <1>1, FairAnswered
<1>8. Tells(StartCall(t, seq, fault))
  BY <1>3, TellsStartCall
<1>9. Tells(SchedDestroy(State(On(w, {"nonce"}), "completed")))
  BY <1>4, FairTells, Zenon
<1>10. Tells(Refuse(q, 403, seq)) /\ Tells(Refuse(q, 488, seq)) /\ Tells(Refuse(q, 480, seq))
  BY <1>5, FairTells, ZenonT(40)
<1>11. Tells(DecCall(Refuse(r, 404, seq))) /\ Tells(t) /\ Tells(Refuse(t, 503, seq))
  BY <1>3, <1>6, FairTells, Zenon
<1>12. Tells(SchedDestroy(State(Respond(r, 422, "INVITE", seq), "completed")))
  BY <1>7, FairTells, Zenon
<1> QED
  BY <1>8, <1>9, <1>10, <1>11, <1>12, Zenon DEF NewCall, r, t, w

\* Only what is said of the answered call is a 200; the other one goes on.
LEMMA TellsInviteAgain ==
  ASSUME NEW q, Fair(q), q.incoming, q.owner, NEW seq \in Nat, NEW ign
  PROVE  Tells(InviteAgain(q, seq, ign))
<1> DEFINE a == Respond(q, 100, "INVITE", seq)
           r == On(a, {"established"})
           one == Respond(r, 200, "INVITE", seq)
           two == RespondReliably(r, 200, seq, FALSE)
<1>0. 100 \in Nat /\ 100 # 0 /\ 180 \in Nat /\ 180 # 0 /\ 200 \in Nat /\ 200 # 0
  OBVIOUS
<1>1. Fair(a) /\ a.incoming
  BY <1>0, Words, FairRespond
<1> HIDE DEF a
<1>2. Fair(r) /\ r.incoming
  <2>1. r.incoming = a.incoming
    BY <1>1 DEF On, Fair, Ok, Sound, Dialog
  <2> QED
    BY <1>1, <2>1, PlainWords, FairOn
<1> HIDE DEF r
<1>3. Accepts(State(one, "terminated").out)
  <2>1. Fair(one) /\ one.incoming
    BY <1>0, <1>2, Words, FairRespond
  <2>2. Msg("ua", "INVITE", seq, 200) \in one.out
    BY <1>2 DEF Respond, Say, Fair, Ok, Sound, Dialog
  <2>3. State(one, "terminated").out = one.out
    BY <2>1, FairIncomingState
  <2> QED
    BY <2>2, <2>3 DEF Accepts, Msg
<1>4. Accepts(State(two, "terminated").out)
  <2>1. PICK code \in Nat : code = 200 /\ code # 0
    OBVIOUS
  <2>2. Told(RespondReliably(r, code, seq, FALSE), r, code)
    BY <1>2, <2>1, FairRespondReliably, ZenonT(40)
  <2>3. Told(two, r, 200)
    BY <2>1, <2>2
  <2>4. Fair(two) /\ two.incoming /\ Accepts(two.out)
    BY <2>3 DEF Told, Accepts
  <2>5. State(two, "terminated").out = two.out
    BY <2>4, FairIncomingState, ZenonT(40)
  <2> QED
    BY <2>4, <2>5
<1>5. ~Has(q, "pendingbye")
  BY DEF Fair, Tame, ReceivedSo
<1>6. Fair(State(RespondProvisionally(q, 180), "proceeding"))
      /\ Fair(State(RespondProvisionally(q, 100), "proceeding"))
  <2>1. /\ Fair(RespondProvisionally(q, 180)) /\ RespondProvisionally(q, 180).incoming
        /\ RespondProvisionally(q, 180).fl = q.fl
    BY <1>0, FairRespondProvisionally
  <2>2. /\ Fair(RespondProvisionally(q, 100)) /\ RespondProvisionally(q, 100).incoming
        /\ RespondProvisionally(q, 100).fl = q.fl
    BY <1>0, FairRespondProvisionally
  <2> QED
    BY <1>5, <2>1, <2>2, FairIncomingState DEF Has
<1>7. /\ Tells(State(one, "terminated")) /\ Tells(State(two, "terminated"))
      /\ Tells(State(RespondProvisionally(q, 180), "proceeding"))
      /\ Tells(State(RespondProvisionally(q, 100), "proceeding"))
  BY <1>3, <1>4, <1>6, FairTells DEF Tells
<1> QED
  BY <1>7, Zenon DEF InviteAgain, one, two, r, a

LEMMA TellsSameCall ==
  ASSUME NEW q, Fair(q), q.incoming, NEW seq \in Nat, seq # 0, NEW ign, NEW fault
  PROVE  Tells(SameCall(q, seq, ign, fault))
<1>0. 422 \in Nat /\ 422 # 0 /\ 503 \in Nat /\ 503 # 0
  OBVIOUS
<1> DEFINE a == State(Respond(q, 422, "INVITE", seq), "completed")
           r == IF ign THEN q ELSE [q EXCEPT !.lastinvite = seq]
<1>1. Tells(a) /\ Tells(SchedDestroy(a))
  BY <1>0, FairAnswered, FairTells
<1> HIDE DEF a
<1>2. Fair(r) /\ r.incoming
  <2>1. Fair([q EXCEPT !.lastinvite = seq])
    BY FairNumbers
  <2>2. [q EXCEPT !.lastinvite = seq].incoming
    BY DEF Fair, Ok, Sound, Dialog
  <2> QED
    BY <2>1, <2>2
<1> HIDE DEF r
<1>3. r.owner => Tells(InviteAgain(r, seq, ign))
  BY <1>2, TellsInviteAgain
<1>4. Tells(Refuse(r, 503, seq)) /\ Tells(r)
  BY <1>0, <1>2, FairRefuse, FairTells
<1> QED
  BY <1>1, <1>3, <1>4, Zenon DEF SameCall, a, r

LEMMA TellsAcceptInvite ==
  ASSUME NEW q, Fair(q), q.incoming, NEW seq \in Nat, seq # 0, NEW ign, NEW fault
  PROVE  Tells(AcceptInvite(q, seq, ign, fault))
<1> DEFINE c == CancelDestroy(q)
           d == [c EXCEPT !.pendinginvite = seq, !.initseq = seq]
           r == IF ign THEN q ELSE d
           t == IF ~ign /\ r.owner THEN Off(r, {"outgoing"}) ELSE r
           u == RespondReliably(t, 488, seq, TRUE)
<1>1. Fair(c) /\ c.incoming
  <2>1. c.incoming = q.incoming
    BY DEF CancelDestroy, Stopped, Fair, Ok, Sound, Dialog
  <2> QED
    BY <2>1, FairDestroyTimer
<1> HIDE DEF c
<1>2. Fair(d) /\ d.incoming
  <2>1. Fair([[c EXCEPT !.pendinginvite = seq] EXCEPT !.initseq = seq])
    BY <1>1, FairNumbers
  <2>2. d = [[c EXCEPT !.pendinginvite = seq] EXCEPT !.initseq = seq] /\ d.incoming = c.incoming
    BY <1>1 DEF Fair, Ok, Sound, Dialog
  <2> QED
    BY <1>1, <2>1, <2>2
<1> HIDE DEF d
<1>3. Fair(r) /\ r.incoming
  BY <1>2
<1> HIDE DEF r
<1>4. Fair(t) /\ t.incoming
  <2>1. {"outgoing"} \cap Counters = {}
    BY DEF Counters
  <2>2. Fair(Off(r, {"outgoing"}))
    BY <1>3, <2>1, FairOff
  <2>3. Off(r, {"outgoing"}).incoming = r.incoming
    BY <1>3 DEF Off, Fair, Ok, Sound, Dialog
  <2> QED
    BY <1>3, <2>2, <2>3
<1> HIDE DEF t
<1>5. Fair(u)
  <2>1. 488 \in Nat /\ 488 # 0
    OBVIOUS
  <2>2. Told(RespondReliably(t, 488, seq, TRUE), t, 488)
    BY <1>4, <2>1, FairRespondReliably, ZenonT(40)
  <2> QED
    BY <2>2 DEF Told
<1> HIDE DEF u
<1>6. Tells(u) /\ Tells(SchedDestroy(u)) /\ Tells(SameCall(t, seq, ign, fault))
  BY <1>4, <1>5, FairDestroyTimer, FairTells, TellsSameCall
<1>7. r.lastinvite = 0 => Tells(NewCall(r, seq, fault))
  BY <1>3, TellsNewCall
<1> QED
  BY <1>6, <1>7, Zenon DEF AcceptInvite, u, t, r, d, c

LEMMA TellsRequestInvite ==
  ASSUME NEW q, Fair(q), q.incoming, NEW seq \in Nat, seq # 0, NEW ign, NEW fault
  PROVE  \A t \in RequestInvite(q, seq, ign, fault) : Tells(t)
<1>1. ~Loops(q)
  BY DEF Fair, Tame, ReceivedSo, Loops
<1> DEFINE a == State(Respond(q, 420, "INVITE", seq), "completed")
           k == Ack(q, q.pendinginvite, TRUE, "INVITE")
<1>2. Tells(a) /\ Tells(SchedDestroy(a))
  <2>1. 420 \in Nat /\ 420 # 0
    OBVIOUS
  <2> QED
    BY <2>1, FairAnswered, FairTells
<1> HIDE DEF a
<1>3. Fair(k) /\ k.incoming
  <2>1. Fair(k)
    BY FairAck, Zenon
  <2> QED
    BY <2>1 DEF Fair, Tame
<1> HIDE DEF k
<1>4. Tells(AcceptInvite(k, seq, ign, fault)) /\ Tells(AcceptInvite(q, seq, ign, fault))
  BY <1>3, TellsAcceptInvite
<1>5. Tells(Glare(q, seq))
  <2>1. 491 \in Nat /\ 491 # 0
    OBVIOUS
  <2>2. PICK r : r = RespondReliably(q, 491, seq, TRUE)
    OBVIOUS
  <2>3. Told(RespondReliably(q, 491, seq, TRUE), q, 491)
    BY <2>1, FairRespondReliably, ZenonT(40)
  <2>4. Fair(r)
    BY <2>2, <2>3 DEF Told
  <2>5. Fair([r EXCEPT !.glareinvite = seq])
    BY ONLY <2>4, seq \in Nat, FairNumbers
  <2>6. Glare(q, seq) = [r EXCEPT !.glareinvite = seq]
    BY <2>2 DEF Glare
  <2> QED
    BY <2>5, <2>6, FairTells
<1>6. RequestInvite(q, seq, ign, fault) =
        IF fault = "extension" THEN {IF a.lastinvite = 0 THEN SchedDestroy(a) ELSE a}
        ELSE IF ~ign /\ q.pendinginvite # 0 THEN
          {IF LacksAck(q) THEN AcceptInvite(k, seq, ign, fault) ELSE Glare(q, seq)}
        ELSE {AcceptInvite(q, seq, ign, fault)}
  BY <1>1, Zenon DEF RequestInvite, a, k
<1> QED
  BY <1>2, <1>4, <1>5, <1>6

LEMMA FairRequestCancel ==
  ASSUME NEW q, Fair(q), q.incoming, NEW seq \in Nat
  PROVE  Fair(RequestCancel(q, seq))
<1> DEFINE r == On(q, {"alreadygone"})
           s == IF r.inv \in {"terminated", "completed"} THEN PretendAck(r) ELSE r
           t == DecCall(IF s.inv = "terminated" THEN s ELSE State(s, "cancelled"))
           u == IF t.owner THEN QueueHangup(t) ELSE SchedDestroy(t)
           old == {i \in DOMAIN u.packets : u.packets[i].seq = u.lastinvite /\ u.packets[i].code = 487}
           v == IF old = {} THEN u ELSE [u EXCEPT !.packets = RemoveAt(u.packets, FirstOf(old))]
           w == RespondReliably(v, 487, v.initseq, TRUE)
<1>1. RequestCancel(q, seq) = IF q.owner /\ q.ch = "up" THEN Respond(r, 200, "CANCEL", seq)
                              ELSE Respond(w, 200, "CANCEL", seq)
  BY DEF RequestCancel
<1>2. q.ch # "up"
  BY DEF Fair, Tame
<1>3. Fair(r)
  BY PlainWords, FairOn
<1>4. \A x : Fair(x) => x.incoming
  BY DEF Fair, Tame
<1> HIDE DEF r
<1>5. Fair(s)
  BY <1>3, FairPretendAck
<1> HIDE DEF s
<1>6. Fair(t)
  BY <1>4, <1>5, FairIncomingState, FairCounters
<1> HIDE DEF t
<1>7. Fair(u)
  BY <1>6, FairQueueHangup, FairDestroyTimer
<1> HIDE DEF u
<1>8. Fair(v)
  <2>1. CASE old = {}
    BY <1>7, <2>1
  <2>2. CASE old # {}
    <3>1. old \subseteq DOMAIN u.packets /\ u.packets \in Seq(Packet)
      BY <1>7, TamePackets
    <3> HIDE DEF old
    <3>2. FirstOf(old) \in DOMAIN u.packets
      BY <2>2, <3>1, FirstOfFound
    <3>3. Fair([u EXCEPT !.packets = RemoveAt(u.packets, FirstOf(old))])
      BY <1>7, <3>2, FairRemove
    <3> QED
      BY <2>2, <3>3
  <2> QED
    BY <2>1, <2>2
<1> HIDE DEF v
<1>9. Fair(w)
  <2>1. PICK n : n = v.initseq
    OBVIOUS
  <2>2. n \in Nat
    BY <1>8, <2>1, OkFields DEF Fair
  <2>3. 487 \in Nat /\ 487 # 0
    OBVIOUS
  <2>4. Told(RespondReliably(v, 487, n, TRUE), v, 487)
    BY ONLY <1>4, <1>8, <2>2, <2>3, FairRespondReliably, ZenonT(40)
  <2> QED
    BY <2>1, <2>4 DEF Told
<1> HIDE DEF w
<1>10. Fair(Respond(w, 200, "CANCEL", seq))
  <2>1. 200 \in Nat /\ 200 # 0
    OBVIOUS
  <2> QED
    BY <1>4, <1>9, <2>1, Words, FairRespond
<1> QED
  BY <1>1, <1>2, <1>10

LEMMA FairRequestBye ==
  ASSUME NEW q, Fair(q), q.incoming, NEW seq \in Nat, NEW ign
  PROVE  Fair(RequestBye(q, seq, ign))
<1> DEFINE r == IF q.pendinginvite # 0 /\ ~Has(q, "outgoing") /\ ~ign
                THEN RespondReliably(q, 487, q.initseq, TRUE) ELSE q
           a == PretendAck(r)
           s == QueueHangup(On(State(a, "terminated"), {"alreadygone"}))
           t == Off(SchedDestroyFinal(s), {"established"})
           u == Respond(t, 200, "BYE", seq)
<1>1. Fair(r)
  <2>1. PICK n : n = q.initseq
    OBVIOUS
  <2>2. n \in Nat
    BY <2>1, OkFields DEF Fair
  <2>3. 487 \in Nat /\ 487 # 0
    OBVIOUS
  <2>4. Told(RespondReliably(q, 487, n, TRUE), q, 487)
    BY <2>2, <2>3, FairRespondReliably, ZenonT(40)
  <2>5. Fair(RespondReliably(q, 487, q.initseq, TRUE))
    BY <2>1, <2>4 DEF Told
  <2> QED
    BY <2>5
<1>2. \A x : Fair(x) => x.incoming
  BY DEF Fair, Tame
<1> HIDE DEF r
<1>3. Fair(a) /\ a.incoming
  BY <1>1, <1>2, FairPretendAck
<1> HIDE DEF a
<1>4. Fair(s)
  <2>1. Fair(State(a, "terminated"))
    BY <1>3, FairIncomingState
  <2>2. Fair(On(State(a, "terminated"), {"alreadygone"}))
    BY <2>1, PlainWords, FairOn
  <2> QED
    BY <2>2, FairQueueHangup
<1> HIDE DEF s
<1>5. Fair(t)
  BY <1>4, PlainWords, FairDestroyTimer, FairOff
<1> HIDE DEF t
<1>6. Fair(u)
  <2>1. 200 \in Nat /\ 200 # 0
    OBVIOUS
  <2> QED
    BY <1>2, <1>5, <2>1, Words, FairRespond
<1> HIDE DEF u
<1>7. Fair(Stopped(u, "wait"))
  BY <1>6, Words, FairStopped
<1> QED
  BY <1>7, Zenon DEF RequestBye, u, t, s, a, r

LEMMA CalmRequestAck ==
  ASSUME NEW q, Fair(q), q.incoming, NEW seq \in Nat, NEW fault
  PROVE  Calm(RequestAck(q, seq, fault))
<1> DEFINE b == State(q, "terminated")
           a == [b EXCEPT !.pendinginvite = 0]
           g == [q EXCEPT !.glareinvite = 0]
           r == IF seq = q.pendinginvite THEN Ack(a, seq, TRUE, "ACK")
                ELSE IF seq = q.glareinvite THEN Ack(g, seq, TRUE, "ACK")
                ELSE q
           s == IF seq = q.pendinginvite THEN CheckPendings(r) ELSE r
<1>1. RequestAck(q, seq, fault) =
        IF seq = q.pendinginvite /\ q.owner /\ fault = "sdp" THEN r
        ELSE IF s.lastinvite = 0 /\ ~Has(s, "nonce") THEN On(s, {"needdestroy"}) ELSE s
  BY DEF RequestAck
<1>2. Fair(b) /\ 0 \in Nat
  BY FairIncomingState
<1> HIDE DEF b
<1>3. Fair(a) /\ Fair(g)
  BY <1>2, FairNumbers
<1> HIDE DEF a, g
<1>4. Fair(r)
  BY <1>3, FairAck
<1> HIDE DEF r
<1>5. Calm(s) /\ Calm(r)
  BY <1>4, CalmCheckPendings, FairCalm
<1> HIDE DEF s
<1>6. Calm(On(s, {"needdestroy"}))
  BY <1>5, PlainWords, CalmOn
<1> QED
  BY <1>1, <1>5, <1>6

LEMMA TellsHandleRequest ==
  ASSUME NEW q, Fair(q), q.incoming, NEW m \in Methods, NEW seq \in Nat, seq # 0, NEW fault
  PROVE  \A t \in HandleRequest(q, m, seq, fault) : Tells(t)
<1> DEFINE n == IF seq > q.icseq THEN seq ELSE q.icseq
           c == [q EXCEPT !.icseq = n]
           r == [c EXCEPT !.lastmsg = m]
           ign == Ignored(q, m, seq)
<1>1. Fair(r) /\ r.incoming /\ r = [q EXCEPT !.icseq = n, !.lastmsg = m]
  <2>1. n \in Nat
    BY OkFields DEF Fair
  <2> HIDE DEF n
  <2>2. Fair(c) /\ c.incoming
    <3>1. c.incoming
      BY DEF Fair, Ok, Sound, Dialog
    <3> QED
      BY <2>1, <3>1, FairNumbers
  <2>3. r = [q EXCEPT !.icseq = n, !.lastmsg = m]
    BY DEF Fair, Ok, Sound, Dialog
  <2> HIDE DEF c
  <2>4. Fair(r)
    BY <2>2, FairLast DEF Begun
  <2>5. r.incoming
    BY <2>4, <2>2 DEF Fair, Tame
  <2> QED
    BY <2>3, <2>4, <2>5
<1>2. HandleRequest(q, m, seq, fault) =
        IF Late(q, m, seq) THEN {IF m = "ACK" THEN q ELSE Respond(q, 500, m, seq)}
        ELSE IF m = "CANCEL" /\ q.pendinginvite = 0 THEN {Respond(q, 481, m, seq)}
        ELSE CASE m = "INVITE" -> RequestInvite(r, seq, ign, fault)
               [] m = "CANCEL" -> {RequestCancel(r, seq)}
               [] m = "BYE"    -> {RequestBye(r, seq, ign)}
               [] m = "ACK"    -> {RequestAck(r, seq, fault)}
  BY <1>1 DEF HandleRequest
<1> HIDE DEF r, ign
<1>3. Tells(Respond(q, 500, m, seq)) /\ Tells(Respond(q, 481, m, seq)) /\ Tells(q)
  <2>1. 500 \in Nat /\ 500 # 0 /\ 481 \in Nat /\ 481 # 0
    OBVIOUS
  <2> QED
    BY <2>1, FairRespond, FairTells
<1>4. Tells(RequestCancel(r, seq)) /\ Tells(RequestBye(r, seq, ign))
  BY <1>1, FairRequestCancel, FairRequestBye, FairTells
<1>5. Tells(RequestAck(r, seq, fault))
  BY <1>1, CalmRequestAck DEF Tells
<1>6. \A t \in RequestInvite(r, seq, ign, fault) : Tells(t)
  BY <1>1, TellsRequestInvite
<1> QED
  BY <1>2, <1>3, <1>4, <1>5, <1>6 DEF Methods
-----------------------------------------------------------------------------
(* The invariant of CancelAfterProgress: while no INVITE is answered with  *)
(* 200, the dialog is tame and so is what is on its way.                   *)

\* What is on its way: requests of the other side have numbers and its responses codes, a
\* CANCEL is about an INVITE that was heard of, and a call that is placed has asked before
\* anything is said, is asked nothing itself, and answers no INVITE.
Wire ==
  /\ \A e \in net : e.to = "us" => IF e.code = 0 THEN e.seq # 0 ELSE e.code >= 100
  /\ \A e \in net : e.to = "ua" /\ Cancel(e) => Heard(e.seq)
  /\ ~p.incoming => \A e \in net : /\ Has(p, "outgoing") /\ (e.to = "us" => e.code # 0)
                                   /\ e.to = "ua" /\ e.m = "INVITE" => e.code = 0

HushInv == CallInv /\ (Hushed => Tame(p) /\ Wire /\ ~ua.up)

LEMMA InitHushInv == ASSUME Init PROVE HushInv
<1>1. CallInv /\ p = Alloc(sc) /\ sc.incoming \in BOOLEAN /\ p.incoming = sc.incoming
      /\ net = (IF p.incoming THEN {Msg("us", "INVITE", 1, 0)} ELSE {}) /\ ~ua.up
  BY InitCallInv, ScenarioOf DEF Init, CallInv, Alloc
<1>2. Unasked(<<>>) /\ Alone(<<>>, 0)
  BY DEF Unasked, Alone
<1>3. Tame(p)
  <2>1. /\ p.ch # "up" /\ ~p.answer /\ p.tm = {} /\ p.fl = {} /\ p.out = {} /\ p.packets = <<>>
        /\ p.inv = "none" /\ p.lastmsg = "none" /\ p.owner = ~p.incoming /\ p.lastinvite = 0
    BY <1>1 DEF Alloc
  <2> QED
    BY <1>2, <2>1 DEF Tame, ReceivedSo, PlacedSo, Has, Answerable
<1>4. Wire
  BY <1>1 DEF Wire, Msg, Cancel
<1> QED
  BY <1>1, <1>3, <1>4 DEF HushInv

\* A handler ends: what it said is on its way, and the dialog is what it left.
LEMMA DoTame ==
  ASSUME HushInv, Hushed', NEW q \in Dialog, Tame(q) \/ Accepts(q.out), Do(q), UNCHANGED ua
  PROVE  (Tame(p) /\ Wire /\ ~ua.up)'
<1>1. net' = net \cup {e \in q.out : Heeded(e)} /\ sc' = sc /\ ua' = ua /\ p' = [q EXCEPT !.out = {}]
  BY DEF Do
<1>2. Hushed
  BY <1>1 DEF Hushed, Accepts
<1>3. Tame(p) /\ Wire /\ ~ua.up
  BY <1>2 DEF HushInv
<1>4. ~Accepts(q.out)
  <2>1. SUFFICES ASSUME NEW e \in q.out, e.m = "INVITE", e.code = 200
                 PROVE  FALSE
    BY DEF Accepts
  <2>2. e \in net'
    BY <1>1, <2>1 DEF Heeded
  <2> QED
    BY <2>1, <2>2 DEF Hushed, Accepts
<1>5. Tame(q)
  BY <1>4
<1>6. \A seq : Heard(seq) => Heard(seq)'
  BY <1>1 DEF Heard
<1>7. /\ p'.incoming = q.incoming /\ p'.ch = q.ch /\ p'.answer = q.answer /\ p'.tm = q.tm
      /\ p'.fl = q.fl /\ p'.inv = q.inv /\ p'.owner = q.owner /\ p'.lastinvite = q.lastinvite
      /\ p'.lastmsg = q.lastmsg /\ p'.packets = q.packets /\ p'.out = {}
  BY <1>1 DEF Dialog
<1>8. Tame(p)'
  BY <1>5, <1>6, <1>7 DEF Tame, ReceivedSo, PlacedSo, Has
<1>9. Wire'
  <2>1. \A e \in net' : e \in net \/ (e \in q.out /\ e.to = "ua")
    BY <1>1, <1>5 DEF Tame
  <2>2. \A e \in net' : e.to = "us" => IF e.code = 0 THEN e.seq # 0 ELSE e.code >= 100
    BY <1>3, <2>1 DEF Wire
  <2>3. ASSUME NEW e \in net', e.to = "ua", Cancel(e) PROVE Heard(e.seq)'
    <3>1. Heard(e.seq)
      BY <1>3, <1>5, <2>1, <2>3 DEF Wire, Tame
    <3> QED
      BY <1>6, <3>1
  <2>4. ASSUME ~p'.incoming, NEW e \in net'
        PROVE  /\ Has(p', "outgoing") /\ (e.to = "us" => e.code # 0)
               /\ e.to = "ua" /\ e.m = "INVITE" => e.code = 0
    <3>1. ~p.incoming /\ ~q.incoming /\ PlacedSo(q)
      BY <1>5, <1>7, <2>4 DEF Tame
    <3>2. CASE e \in net
      BY <1>3, <1>7, <3>1, <3>2 DEF Wire, PlacedSo, Has
    <3>3. CASE e \in q.out /\ e.to = "ua"
      BY <1>7, <3>1, <3>3 DEF PlacedSo, Has
    <3> QED
      BY <2>1, <3>2, <3>3
  <2> QED
    BY <2>2, <2>3, <2>4 DEF Wire
<1> QED
  BY <1>1, <1>3, <1>8, <1>9

LEMMA DoCalm ==
  ASSUME HushInv, Hushed', NEW q, Fair(q) \/ Calm(q) \/ (Over(q) /\ Accepts(q.out)), Do(q),
         UNCHANGED ua
  PROVE  (Tame(p) /\ Wire /\ ~ua.up)'
<1>1. q \in Dialog
  BY DEF Fair, Calm, Ok, Over, Sound
<1>2. Tame(q) \/ Accepts(q.out)
  BY DEF Fair, Calm
<1> QED
  BY <1>1, <1>2, DoTame

LEMMA LiveFair ==
  ASSUME HushInv, Hushed, Live
  PROVE  Fair(p)
BY OkLive DEF HushInv, Fair

LEMMA ChannelTame ==
  ASSUME HushInv, Hushed, Hushed', Channel
  PROVE  (Tame(p) /\ Wire /\ ~ua.up)'
<1>1. Fair(p) /\ Ok(p) /\ UNCHANGED ua /\ p.initseq \in Nat
  <2>1. Live
    BY DEF Channel, Call, PbxHangup, ReadAnswer, Answer, IndicateProceeding, IndicateFailure,
           DirectMedia, Indicate
  <2>2. UNCHANGED ua
    BY DEF Channel, Call, PbxHangup, ReadAnswer, Answer, IndicateProceeding, IndicateFailure,
           DirectMedia, Indicate
  <2> QED
    BY <2>1, <2>2, LiveFair, OkFields DEF Fair
<1>2. ASSUME NEW q, Fair(q) \/ Calm(q), Do(q) PROVE (Tame(p) /\ Wire /\ ~ua.up)'
  BY <1>1, <1>2, DoCalm
<1>3. p.incoming /\ p.owner => ~Has(p, "pendingbye")
  BY <1>1 DEF Fair, Tame, ReceivedSo
<1>4. CASE Call
  <2> DEFINE q == On(p, {"outgoing"})
             r == IncRinging(q)
  <2>1. ~p.incoming /\ p.inv = "none"
    BY <1>4 DEF Call
  <2>2. Fair(q) /\ ~q.incoming /\ q.inv = "none" /\ Has(q, "outgoing")
    <3>1. q.inv = "none" /\ Has(q, "outgoing") /\ ~q.incoming
      BY <1>1, <2>1 DEF On, Has, Fair, Ok, Sound, Dialog
    <3>2. Ok(q)
      BY <1>1, Words, OkFlag
    <3>3. Tame(q)
      BY <1>1, <2>1 DEF On, Has, Fair, Tame, PlacedSo, Ok, Sound, Dialog, Answerable
    <3> QED
      BY <3>1, <3>2, <3>3 DEF Fair
  <2> HIDE DEF q
  <2>3. Fair(r) /\ ~r.incoming /\ r.inv = "none" /\ Has(r, "outgoing")
    BY <2>2, FairCounters
  <2> HIDE DEF r
  <2>4. Unasked(r.packets)
    BY <2>3 DEF Fair, Tame, PlacedSo, Unasked
  <2>5. Fair(Started(State(SendInvite(r), "calling"), "init"))
    BY <2>3, <2>4, Words, FairSendInvite, FairStarted
  <2>6. Fair(QueueHangup(q)) /\ Fair(QueueHangup(r))
    BY <2>2, <2>3, FairQueueHangup
  <2>7. \/ Do(QueueHangup(q)) \/ Do(QueueHangup(r))
        \/ Do(Started(State(SendInvite(r), "calling"), "init"))
    BY <1>4 DEF Call, q, r
  <2> QED
    BY <1>2, <2>5, <2>6, <2>7
<1>5. CASE PbxHangup
  BY <1>1, <1>2, <1>5, CalmHangup DEF PbxHangup
<1>6. CASE ReadAnswer \/ DirectMedia
  BY <1>1, <1>6 DEF ReadAnswer, DirectMedia, Fair, Tame
<1>7. CASE Answer
  <2> DEFINE q == [p EXCEPT !.ch = "up"]
             r == RespondReliably(q, 200, p.initseq, TRUE)
             t == On(r, {"established"})
             e == Msg("ua", "INVITE", p.initseq, 200)
  <2>1. Ok(q)
    BY <1>1, OkChannel
  <2> HIDE DEF q
  <2>2. 200 \in Nat
    OBVIOUS
  <2>3. Ok(r)
    BY <1>1, <2>1, <2>2, OkRespondReliably
  <2>4. e \in r.out
    BY <2>1 DEF RespondReliably, ReliableXmit, Say, Stopped, Ok, Sound, Dialog
  <2>5. e.m = "INVITE" /\ e.code = 200
    BY DEF Msg
  <2> HIDE DEF r, e
  <2>6. Ok(t) /\ t.out = r.out
    <3>1. t.out = r.out
      BY <2>3 DEF On, Ok, Sound, Dialog
    <3> QED
      BY <2>3, <3>1, Words, OkFlag
  <2>7. Over(t) /\ Accepts(t.out)
    BY <2>4, <2>5, <2>6, OkOver DEF Accepts
  <2>8. Do(t)
    BY <1>7 DEF Answer, t, r, q
  <2> HIDE DEF t
  <2> QED
    BY <1>1, <2>7, <2>8, DoCalm
<1>8. CASE \E code \in {180, 183} : Indicate(code)
  <2>1. PICK code \in {180, 183} : Indicate(code)
    BY <1>8
  <2> DEFINE s == State(p, "early")
             q == RespondProvisionally(s, code)
  <2>2. Fair(s) /\ s.incoming
    BY <1>1, <1>3, <2>1, FairIncomingState DEF Indicate
  <2> HIDE DEF s
  <2>3. Fair(q)
    <3>1. code \in Nat /\ code # 0
      OBVIOUS
    <3> QED
      BY <2>2, <3>1, FairRespondProvisionally
  <2> HIDE DEF q
  <2>4. Fair(On(q, {"progress"}))
    BY <2>3, PlainWords, FairOn
  <2>5. Do(q) \/ Do(On(q, {"progress"}))
    BY <2>1 DEF Indicate, q, s
  <2> QED
    BY <1>2, <2>3, <2>4, <2>5
<1>9. CASE IndicateProceeding
  <2> DEFINE r == Respond(p, 100, "INVITE", p.initseq)
  <2>1. 100 \in Nat /\ 100 # 0 /\ p.incoming /\ p.owner
    BY <1>9 DEF IndicateProceeding
  <2>2. Fair(r) /\ r.incoming /\ r.fl = p.fl
    BY <1>1, <2>1, Words, FairRespond
  <2>3. Do(State(r, "proceeding"))
    BY <1>9 DEF IndicateProceeding
  <2> HIDE DEF r
  <2>4. Fair(State(r, "proceeding"))
    BY <1>3, <2>1, <2>2, FairIncomingState DEF Has
  <2> QED
    BY <1>2, <2>3, <2>4
<1>10. CASE IndicateFailure
  <2> DEFINE r == RespondReliably(p, 486, p.initseq, TRUE)
             t == On(State(r, "completed"), {"alreadygone"})
  <2>1. 486 \in Nat /\ 486 # 0 /\ p.incoming
    BY <1>10 DEF IndicateFailure
  <2>2. Told(RespondReliably(p, 486, p.initseq, TRUE), p, 486)
    <3>1. PICK n \in Nat : n = p.initseq
      BY <1>1
    <3>2. Told(RespondReliably(p, 486, n, TRUE), p, 486)
      BY <1>1, <2>1, FairRespondReliably, ZenonT(40)
    <3> QED
      BY <3>1, <3>2
  <2>3. Fair(r) /\ r.incoming
    BY <2>2 DEF Told
  <2>4. Do(QueueHangup(t))
    BY <1>10 DEF IndicateFailure
  <2> HIDE DEF r
  <2>5. Fair(t)
    BY <2>3, FairIncomingState, PlainWords, FairOn
  <2> QED
    BY <1>2, <2>4, <2>5, FairQueueHangup
<1> QED
  BY <1>4, <1>5, <1>6, <1>7, <1>8, <1>9, <1>10 DEF Channel

LEMMA TimerTame ==
  ASSUME HushInv, Hushed, Hushed', Timer
  PROVE  (Tame(p) /\ Wire /\ ~ua.up)'
<1>1. Fair(p) /\ Ok(p) /\ UNCHANGED ua /\ p.initseq \in Nat /\ p.packets \in Seq(Packet)
  <2>1. Live
    BY DEF Timer, RetransTimeout, AutoCongest, Autodestruct, NeedDestroy, ReinviteTimeout,
           ReinviteRetry, ProvisionalKeepalive
  <2>2. UNCHANGED ua
    BY DEF Timer, RetransTimeout, AutoCongest, Autodestruct, NeedDestroy, ReinviteTimeout,
           ReinviteRetry, ProvisionalKeepalive
  <2> QED
    BY <2>1, <2>2, LiveFair, OkFields DEF Fair
<1>2. ASSUME NEW q, Fair(q) \/ Calm(q), Do(q) PROVE (Tame(p) /\ Wire /\ ~ua.up)'
  BY <1>1, <1>2, DoCalm
<1>3. ASSUME NEW q, Fair(q), Do(Destroy(q)) PROVE (Tame(p) /\ Wire /\ ~ua.up)'
  <2>1. Destroy(q) \in Dialog
    BY <1>3, DestroyBalances DEF Fair
  <2> QED
    BY <1>1, <1>3, <2>1, TameDestroy, DoTame
<1>4. CASE \E i \in DOMAIN p.packets : RetransTimeout(i)
  <2>1. PICK i \in DOMAIN p.packets : RetransTimeout(i)
    BY <1>4
  <2> DEFINE r == RetransOver(p, p.packets[i])
             n == i + Len(r.packets) - Len(p.packets)
  <2>2. p.packets[i] \in Packet /\ Begun(p)
    <3>1. p.packets[i] \in Packet
      BY <1>1
    <3>2. Begun(p)
      BY <1>1, FairRemove
    <3> QED
      BY <3>1, <3>2
  <2>3. Len(p.packets) \in Nat /\ Len(r.packets) \in Nat /\ Len(r.packets) >= Len(p.packets)
    BY <1>1, <2>2, OverRetransOver
  <2>4. Calm(r)
    BY <1>1, <2>2, CalmRetransOver
  <2>5. Do([r EXCEPT !.packets = RemoveAt(r.packets, n)])
    BY <2>1 DEF RetransTimeout
  <2> HIDE DEF r
  <2>6. r.packets \in Seq(Packet) /\ i \in 1 .. Len(p.packets)
    BY <1>1, <2>4, TamePackets, LenProperties
  <2>7. n \in 1 .. Len(r.packets)
    <3>1. \A a, b \in Nat : b >= a => \A j \in 1 .. a : j + b - a \in 1 .. b
      OBVIOUS
    <3> QED
      BY <2>3, <2>6, <3>1
  <2> HIDE DEF n
  <2>8. n \in DOMAIN r.packets
    BY <2>6, <2>7, LenProperties
  <2> QED
    BY <1>2, <2>4, <2>5, <2>8, CalmRemove
<1>5. CASE AutoCongest
  <2>1. Fair(Stopped(p, "init"))
    BY <1>1, Words, FairStopped
  <2>2. Fair(SchedDestroy(QueueHangup(Stopped(p, "init")))) /\ Fair(SchedDestroy(Stopped(p, "init")))
    BY <2>1, FairQueueHangup, FairDestroyTimer
  <2> QED
    BY <1>2, <1>5, <2>2 DEF AutoCongest
<1>6. CASE Autodestruct
  <2> DEFINE q == IF p.packets # <<>> THEN PretendAck(p) ELSE p
  <2>1. Fair(q)
    BY <1>1, FairPretendAck
  <2>2. \/ Do(On(p, {"needdestroy"})) \/ Do(p)
        \/ Do(Started(Stopped(QueueHangup(q), "kill"), "rekill")) \/ Do(Destroy(q))
    BY <1>6 DEF Autodestruct
  <2> HIDE DEF q
  <2>3. Fair(On(p, {"needdestroy"}))
    BY <1>1, PlainWords, FairOn
  <2>4. Fair(Started(Stopped(QueueHangup(q), "kill"), "rekill"))
    BY <2>1, Words, FairQueueHangup, FairStopped, FairStarted
  <2> QED
    BY <1>1, <1>2, <1>3, <2>1, <2>2, <2>3, <2>4
<1>7. CASE NeedDestroy
  BY <1>1, <1>3, <1>7 DEF NeedDestroy
<1>8. CASE ReinviteTimeout
  BY <1>1, <1>2, <1>8, Words, FairStopped, CalmCheckPendings DEF ReinviteTimeout
<1>9. CASE ReinviteRetry
  BY <1>1, <1>9 DEF ReinviteRetry, Fair, Tame
<1>10. CASE ProvisionalKeepalive
  <2>1. p.incoming
    BY <1>1, <1>10 DEF ProvisionalKeepalive, Fair, Tame, PlacedSo
  <2>2. 180 \in Nat /\ 180 # 0 /\ 183 \in Nat /\ 183 # 0
    OBVIOUS
  <2>3. Fair(Respond(p, 180, "INVITE", p.initseq)) /\ Fair(Respond(p, 183, "INVITE", p.initseq))
    BY <1>1, <2>1, <2>2, Words, FairRespond
  <2>4. Fair(Stopped(p, "prov"))
    BY <1>1, Words, FairStopped
  <2> QED
    BY <1>2, <1>10, <2>3, <2>4 DEF ProvisionalKeepalive
<1> QED
  BY <1>4, <1>5, <1>6, <1>7, <1>8, <1>9, <1>10 DEF Timer

LEMMA ReceiveTame ==
  ASSUME HushInv, Hushed, Hushed', Receive
  PROVE  (Tame(p) /\ Wire /\ ~ua.up)'
<1>1. PICK e \in net : ReceiveResponse(e) \/ ReceiveRequest(e)
  BY DEF Receive
<1>2. CallInv /\ Tame(p) /\ Wire
  BY DEF HushInv
<1>3. e.m \in Methods /\ e.seq \in Nat /\ e.code \in Nat /\ UNCHANGED ua
  <2>1. e \in Message
    BY <1>2 DEF CallInv
  <2> QED
    BY <1>1, <2>1 DEF Message, ReceiveResponse, ReceiveRequest
<1>4. CASE ReceiveResponse(e)
  <2>1. PICK how \in sc.hows : Do(HandleResponse(p, e.m, e.seq, e.code, how))
    BY <1>4 DEF ReceiveResponse
  <2>2. Fair(p) /\ e.to = "us" /\ e.code # 0
    BY <1>3, <1>4, LiveFair DEF ReceiveResponse
  <2>3. e.m = "BYE" /\ e.code = 401 => Wanted
    BY <2>2 DEF Wanted
  <2>4. e.code >= 100 /\ Talks(p)
    BY <1>2, <2>2 DEF Wire, Talks
  <2>5. e.m = "INVITE" => e.code # 200
    BY DEF Hushed, Accepts
  <2>6. e.m = "INVITE" /\ e.code < 200 => Heard(e.seq)
    BY <1>3, <2>2, <2>4 DEF Heard
  <2>7. Calm(HandleResponse(p, e.m, e.seq, e.code, how))
    BY <1>3, <2>2, <2>3, <2>4, <2>5, <2>6, CalmHandleResponse
  <2> QED
    BY <1>3, <2>1, <2>7, DoCalm
<1>5. CASE ReceiveRequest(e)
  <2> DEFINE fault == IF e.seq = sc.faulty THEN sc.fault ELSE "none"
             r == [p EXCEPT !.alive = "live"]
  <2>1. PICK q \in HandleRequest(r, e.m, e.seq, fault) : Do(q)
    BY <1>5 DEF ReceiveRequest
  <2>2. p.incoming /\ e.seq # 0
    BY <1>2, <1>5 DEF ReceiveRequest, Wire
  <2>3. Fair(r) /\ r.incoming
    <3>1. p \in Dialog /\ p.out = {} /\ Balanced(p) /\ sc.others \in Nat
      BY <1>2, ScenarioOf DEF CallInv, Kept
    <3>2. r \in Dialog /\ r.alive = "live" /\ r.out = {} /\ r.fl = p.fl
          /\ r.inuse = p.inuse /\ r.ringing = p.ringing /\ r.incoming = p.incoming
      BY <3>1 DEF Dialog
    <3>3. Tame(r)
      BY <1>2, <3>1 DEF Tame, ReceivedSo, PlacedSo, Has, Dialog
    <3> HIDE DEF r
    <3> QED
      BY <2>2, <3>1, <3>2, <3>3 DEF Fair, Ok, Sound, Silent, Balanced, Has
  <2> HIDE DEF fault, r
  <2>4. Tells(q)
    BY <1>3, <2>1, <2>2, <2>3, TellsHandleRequest
  <2>5. Over(q)
    BY <1>3, <2>1, <2>3, OverHandleRequest DEF Fair
  <2> QED
    BY <1>3, <2>1, <2>4, <2>5, DoCalm DEF Tells
<1> QED
  BY <1>1, <1>4, <1>5

\* The other side: an INVITE it does not answer with 200 brings it into no call, so that it
\* hangs nothing up and asks for nothing more.
LEMMA UaTame ==
  ASSUME HushInv, Hushed, Hushed', Ua
  PROVE  (Tame(p) /\ Wire /\ ~ua.up)'
<1>1. CallInv /\ Tame(p) /\ Wire /\ ~ua.up
  BY DEF HushInv
<1>2. ASSUME NEW m, NEW seq, NEW code, NEW up, UaSays(m, seq, code, up), ~up,
             code = 0 => seq # 0 /\ p.incoming, code # 0 => code >= 100,
             ~p.incoming => Has(p, "outgoing")
      PROVE  (Tame(p) /\ Wire /\ ~ua.up)'
  <2> DEFINE e == Msg("us", m, seq, code)
  <2>1. p' = p /\ sc' = sc /\ net' = net \cup {e} /\ ~ua'.up
    BY <1>2 DEF UaSays
  <2>2. e.to = "us" /\ e.m = m /\ e.seq = seq /\ e.code = code
    BY DEF Msg
  <2> HIDE DEF e
  <2>3. \A s : Heard(s) => Heard(s)'
    BY <2>1 DEF Heard
  <2>4. Tame(p)'
    BY <1>1, <2>1, <2>3 DEF Tame, ReceivedSo, PlacedSo
  <2>5. Wire'
    <3>1. \A x \in net' : x.to = "us" => IF x.code = 0 THEN x.seq # 0 ELSE x.code >= 100
      BY <1>1, <1>2, <2>1, <2>2 DEF Wire
    <3>2. \A x \in net' : x.to = "ua" /\ Cancel(x) => Heard(x.seq)'
      BY <1>1, <2>1, <2>2, <2>3 DEF Wire
    <3>3. ~p'.incoming => \A x \in net' : /\ Has(p', "outgoing") /\ (x.to = "us" => x.code # 0)
                                          /\ x.to = "ua" /\ x.m = "INVITE" => x.code = 0
      BY <1>1, <1>2, <2>1, <2>2 DEF Wire
    <3> QED
      BY <3>1, <3>2, <3>3 DEF Wire
  <2> QED
    BY <2>1, <2>4, <2>5
<1>3. \A m, seq : Sent(m, seq) /\ ~p.incoming => Has(p, "outgoing")
  BY <1>1 DEF Sent, Wire
<1>4. \A e \in net : e.m = "INVITE" => e.code # 200
  BY DEF Hushed, Accepts
<1>5. \A e \in net : e.to = "ua" /\ e.m = "INVITE" /\ e.code # 0 => p.incoming
  BY <1>1 DEF Wire
<1>6. (\A c \in sc.codes : c # 0 /\ c >= 100) /\ (\A c \in sc.byes : c # 0 /\ c >= 100)
  <2>1. sc.codes \subseteq Finals \cup {100, 180, 183} /\ sc.byes \subseteq {200, 401, 481}
    BY <1>1, CallAssumption DEF CallInv
  <2> QED
    BY <2>1 DEF Finals
<1>7. ua.seq \in Nat /\ p.ocseq \in Nat
  BY <1>1 DEF CallInv, Kept, Dialog
<1>8. CASE \E seq \in 1 .. p.ocseq, code \in sc.codes : UaRespond(seq, code)
  <2>1. PICK seq \in 1 .. p.ocseq, code \in sc.codes : UaRespond(seq, code)
    BY <1>8
  <2>2. UaSays("INVITE", seq, code, ua.up \/ code = 200) /\ Sent("INVITE", seq)
    BY <2>1 DEF UaRespond
  <2>3. code # 200
    <3>1. Msg("us", "INVITE", seq, code) \in net'
      BY <2>2 DEF UaSays
    <3> QED
      BY <3>1 DEF Hushed, Accepts, Msg
  <2>4. ~(ua.up \/ code = 200) /\ code # 0 /\ code >= 100 /\ (~p.incoming => Has(p, "outgoing"))
    BY <1>1, <1>3, <1>6, <2>2, <2>3
  <2> QED
    BY <1>2, <2>2, <2>4
<1>9. CASE \E m \in {"BYE", "CANCEL"}, seq \in 1 .. p.ocseq, code \in sc.byes :
             (m = "CANCEL" => code = 200) /\ UaRespondOther(m, seq, code)
  <2>1. PICK m \in {"BYE", "CANCEL"}, seq \in 1 .. p.ocseq, code \in sc.byes :
               UaRespondOther(m, seq, code)
    BY <1>9
  <2>2. UaSays(m, seq, code, ua.up /\ (m = "BYE" => code = 401)) /\ Sent(m, seq)
    BY <2>1 DEF UaRespondOther
  <2>3. ~(ua.up /\ (m = "BYE" => code = 401)) /\ code # 0 /\ code >= 100
        /\ (~p.incoming => Has(p, "outgoing"))
    BY <1>1, <1>3, <1>6, <2>2
  <2> QED
    BY <1>2, <2>2, <2>3
<1>10. CASE \E seq \in 1 .. ua.seq : UaAck(seq) \/ UaCancel(seq)
  <2>1. PICK seq \in 1 .. ua.seq : UaAck(seq) \/ UaCancel(seq)
    BY <1>10
  <2>2. seq # 0
    BY <1>7
  <2>3. CASE UaAck(seq)
    <3>1. UaSays("ACK", seq, 0, ua.up \/ \E e \in Replies(seq) : e.code = 200)
          /\ Final(Replies(seq)) # {}
      BY <2>3 DEF UaAck
    <3>2. p.incoming
      BY <1>5, <3>1 DEF Final, Replies
    <3>3. ~(ua.up \/ \E e \in Replies(seq) : e.code = 200)
      BY <1>1, <1>4 DEF Replies
    <3> QED
      BY <1>2, <2>2, <3>1, <3>2, <3>3
  <2>4. CASE UaCancel(seq)
    <3>1. UaSays("CANCEL", seq, 0, FALSE) /\ p.incoming
      BY <2>4 DEF UaCancel
    <3> QED
      BY <1>2, <2>2, <3>1
  <2> QED
    BY <2>1, <2>3, <2>4
<1>11. CASE UaInvite
  <2>1. UaSays("INVITE", ua.seq + 1, 0, ua.up) /\ Msg("ua", "INVITE", ua.seq, 401) \in net
    BY <1>1, <1>11 DEF UaInvite, Hushed
  <2>2. p.incoming
    BY <1>5, <2>1 DEF Msg
  <2>3. ua.seq + 1 # 0
    BY <1>7
  <2> QED
    BY <1>1, <1>2, <2>1, <2>2, <2>3
<1>12. CASE UaBye
  BY <1>1, <1>12 DEF UaBye
<1> QED
  BY <1>8, <1>9, <1>10, <1>11, <1>12 DEF Ua

LEMMA NextHushInv ==
  ASSUME HushInv, [Next]_vars
  PROVE  HushInv'
<1>1. CallInv'
  BY NextKeeps DEF HushInv
<1>2. net \subseteq net' /\ sc' = sc
  BY DEF Next, vars, Channel, Timer, Receive, Ua, Call, PbxHangup, ReadAnswer, Answer,
         IndicateProceeding, IndicateFailure, DirectMedia, Indicate, RetransTimeout, AutoCongest,
         Autodestruct, NeedDestroy, ReinviteTimeout, ReinviteRetry, ProvisionalKeepalive,
         ReceiveResponse, ReceiveRequest, UaRespond, UaRespondOther, UaAck, UaCancel, UaInvite,
         UaBye, UaSays, Do
<1>3. SUFFICES ASSUME Hushed' PROVE (Tame(p) /\ Wire /\ ~ua.up)'
  BY <1>1 DEF HushInv
<1>4. Hushed
  BY <1>2, <1>3 DEF Hushed, Accepts
<1>5. CASE UNCHANGED vars
  BY <1>4, <1>5 DEF HushInv, vars, Tame, ReceivedSo, PlacedSo, Wire, Heard
<1>6. CASE Next
  BY <1>3, <1>4, <1>6, ChannelTame, TimerTame, ReceiveTame, UaTame DEF Next
<1> QED
  BY <1>5, <1>6

\* check_pendings and sip_hangup: until an INVITE is answered with 200, a CANCEL follows a
\* provisional response to the INVITE it is about.
THEOREM CancelAfterProgressCorrect == Spec => []CancelAfterProgress
<1>1. Init => HushInv
  BY InitHushInv
<1>2. HushInv /\ [Next]_vars => HushInv'
  BY NextHushInv
<1>3. HushInv => CancelAfterProgress
  BY DEF HushInv, Hushed, Accepts, Wire, Cancel, Heard, CancelAfterProgress
<1> QED
  BY <1>1, <1>2, <1>3, PTL DEF Spec
=============================================================================
