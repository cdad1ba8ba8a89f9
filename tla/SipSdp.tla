-------------------------------- MODULE SipSdp --------------------------------
(***************************************************************************)
(* Session descriptions in chan_sip.c: what an offer or an answer of the   *)
(* other side does to the call (process_sdp), and what the call says in an *)
(* offer or an answer of its own (add_sdp).  The operators take the half p *)
(* of the dialog that is about media, and return it changed.               *)
(*                                                                         *)
(* Of a media line counts its kind, that its port is not zero (on), that   *)
(* its transport protocol is one the peer is configured for (fit), that it *)
(* names a format in common (good), and its security (sec).                *)
(***************************************************************************)
EXTENDS Integers, SequencesExt

CONSTANTS Caps,      \* the kinds of media the peer has formats for
          Encrypt    \* only secure media are accepted (SIP_PAGE2_USE_SRTP)

Streams == {"audio", "video", "text"}
Kinds   == Streams \cup {"image"}

ASSUME SdpAssumption == Caps \subseteq Streams /\ Encrypt \in BOOLEAN

\* A session description: its version in the o= line; the media lines; the direction
\* (none is said, sendonly, inactive, sendrecv, or no address at all).
Sdp(ver, lines, dir) == [ver |-> ver, lines |-> lines, dir |-> dir]
NoSdp == Sdp(0, <<>>, "none")

Line(t)    == [t |-> t, on |-> TRUE, fit |-> TRUE, good |-> TRUE, sec |-> "none"]
Decline(l) == [l EXCEPT !.on = FALSE, !.sec = "none"]

On(lines) == {lines[i].t : i \in {j \in DOMAIN lines : lines[j].on}}
-----------------------------------------------------------------------------
(* The lines of a description: each one is kept with its decline line, and *)
(* taken if it can be, the first of its kind (has_media_stream).           *)


Taken(p, lines, i) ==
  LET fine(j) == lines[j].on /\ lines[j].fit /\ lines[j].t \in (IF p.fax THEN Kinds ELSE Streams)
  IN  fine(i) /\ \A j \in 1 .. i - 1 : fine(j) => lines[j].t # lines[i].t

TakenKinds(p, lines) == {lines[i].t : i \in {j \in DOMAIN lines : Taken(p, lines, j)}}

\* p.offered: what is known of each line when the answer is made.


Offered(p, lines) ==
  [i \in DOMAIN lines |-> [type |-> IF Taken(p, lines, i) THEN lines[i].t ELSE "unknown",
                           line |-> lines[i]]]

\* A line that cannot be read ends it all (it is the last one here); one without its key, or with
\* one that cannot be used, does too, and then p.offered stays.
Malformed(lines) == Last(lines).t = "malformed"
Keyed(p, lines, secs) ==
  \E i \in DOMAIN lines : Taken(p, lines, i) /\ lines[i].t = "audio" /\ lines[i].sec \in secs
SecureAudio(p, lines) == Keyed(p, lines, {"key", "nokey", "badkey"})
KeyMissing(p, lines) == Keyed(p, lines, {"nokey", "badkey"})

\* process_crypto.  p.srtp: there is none, its key was bad, or it had a good one.
Crypto(p, lines) == IF Keyed(p, lines, {"key"}) THEN "ok"
                    ELSE IF Keyed(p, lines, {"badkey"}) /\ p.srtp = "none" THEN "bad" ELSE p.srtp
-----------------------------------------------------------------------------
(* change_t38_state: the frame for the application depends on the state    *)
(* that is left.                                                           *)

ChangeT38(p, s) ==
  IF p.t38 = s THEN p
  ELSE [p EXCEPT !.t38 = s,
                 !.app = CASE s = "peer"    -> "negotiate"
                           [] s = "enabled" -> "negotiated"
                           [] s \in {"disabled", "rejected"} /\ p.t38 = "enabled" -> "terminated"
                           [] s \in {"disabled", "rejected"} /\ p.t38 = "local"   -> "refused"
                           [] OTHER -> @]

\* What was said of T.38: it is accepted, it is offered, or it is left as it is.
ImageLine(p, action) ==
  IF action = "accept" /\ p.t38 = "local" THEN ChangeT38(p, "enabled")
  ELSE IF action = "initiate" THEN ChangeT38(p, "peer") ELSE p
-----------------------------------------------------------------------------
(* process_sdp                                                             *)

\* process_sdp_o: a version that is not new is no change, unless T.38 was asked for.
NewVersion(p, s) == p.rver < s.ver \/ p.t38 = "local"

\* The first refusals: no line can be taken, or the keys are not as they must be.
Secured(p, kinds) == [p EXCEPT !.srtp = IF "image" \in kinds THEN "none" ELSE @]

KeysRefused(p, secure, kinds) ==
  \/ p.srtp # (IF secure THEN "ok" ELSE "none")
  \/ ~secure /\ Encrypt /\ "image" \notin kinds

\* The formats in common; an offer of a fax needs none.
Joint(p, lines) ==
  {t \in Caps : \E i \in DOMAIN lines : Taken(p, lines, i) /\ lines[i].good /\ lines[i].t = t}

\* The streams start or stop.  Next to a fax the audio stream is only not read.
SetMedia(p, kinds) ==
  [p EXCEPT !.media = (kinds \cap (Caps \cup {"audio", "image"}))
                      \cup (IF "image" \in kinds THEN @ \cap {"audio"} ELSE {})]

\* change_hold_state.  The address 0.0.0.0 starts a hold, and ends one.
Hold(p, dir) ==
  [p EXCEPT !.hold = CASE dir = "sendonly" -> "onedir"
                       [] dir = "inactive" -> "inactive"
                       [] dir = "null" /\ @ = "none" -> "active"
                       [] OTHER            -> "none"]

Refused(p)  == [ok |-> FALSE, p |-> [p EXCEPT !.offered = <<>>]]
Accepted(p) == [ok |-> TRUE, p |-> p]

\* What follows once the lines are read.
Settle(p, s, action, kinds) ==
  LET q == IF kinds \cap Streams # {} THEN [p EXCEPT !.joint = Joint(p, s.lines)] ELSE p
      r == SetMedia(q, kinds)
      u == IF "image" \in kinds THEN ImageLine(r, action) ELSE ChangeT38(r, "disabled")
  IN  IF "audio" \notin kinds /\ u.t38 \notin {"disabled", "rejected"} THEN Accepted(u)
      ELSE Accepted(Hold(u, s.dir))

ReadLines(p, s, action) ==
  LET lines == s.lines
      kinds == TakenKinds(p, lines)
      \* Whatever comes of it, this much is changed.
      q == [p EXCEPT !.novideo = "video" \notin kinds, !.notext = "text" \notin kinds,
                     !.offered = Offered(p, lines),
                     !.srtp = Crypto(p, lines)]
      r == Secured(q, kinds)
      u == IF "image" \in kinds THEN r ELSE ChangeT38(r, "disabled")
  IN  IF lines = <<>> THEN Refused(p)
      ELSE IF Malformed(lines) THEN Refused(q)
      ELSE IF KeyMissing(p, lines) THEN [ok |-> FALSE, p |-> q]
      ELSE IF kinds = {} THEN Refused(q)
      ELSE IF KeysRefused(r, SecureAudio(p, lines), kinds) THEN Refused(r)
      ELSE IF Joint(p, lines) = {} /\ "image" \notin kinds THEN Refused(u)
      ELSE Settle(u, s, action, kinds)


ProcessSdp(p, s, action) ==
  LET q == [p EXCEPT !.offered = <<>>]
  IN  IF ~NewVersion(p, s) THEN Accepted([q EXCEPT !.modify = FALSE])
      ELSE ReadLines([q EXCEPT !.rver = s.ver, !.modify = TRUE], s, action)
-----------------------------------------------------------------------------
(* add_sdp                                                                 *)

\* The kinds of media this call wants: T.38 goes alone, or next to audio.
Needed(p, audio, t38) ==
  (IF audio THEN (IF "audio" \in p.joint THEN {"audio"} ELSE {})
                 \cup (IF "video" \in p.joint /\ ~p.novideo THEN {"video"} ELSE {})
                 \cup (IF "text" \in p.joint /\ ~p.notext THEN {"text"} ELSE {})
   ELSE {})
  \cup (IF t38 THEN {"image"} ELSE {})

OurLine(p, t) ==
  [Line(t) EXCEPT !.sec = IF t = "audio" /\ p.srtp # "none" THEN "key" ELSE "none"]

\* An answer takes the lines of the offer in their order; an offer makes its own.


OurLines(p, need) ==
  IF p.offered # <<>>
  THEN [i \in DOMAIN p.offered |->
          IF p.offered[i].type \in need THEN OurLine(p, p.offered[i].type)
          ELSE Decline(p.offered[i].line)]
  ELSE LET kinds == SelectSeq(<<"audio", "video", "text", "image">>, LAMBDA t : t \in need)
       IN  [i \in DOMAIN kinds |-> OurLine(p, kinds[i])]

OurDir(p) ==
  CASE p.hold = "onedir"   -> "recvonly"
    [] p.hold = "inactive" -> "inactive"
    [] OTHER               -> "sendrecv"

\* The call is put back among those whose RTP is watched.


AddSdp(p, old, audio, t38) ==
  LET q == [p EXCEPT !.ver = IF old THEN @ ELSE @ + 1, !.watched = TRUE]
  IN  [p |-> q, sdp |-> Sdp(q.ver, OurLines(p, Needed(p, audio, t38)),
                            IF audio THEN OurDir(p) ELSE "none")]
=============================================================================
