----------------------------- MODULE SipLocation -----------------------------
(***************************************************************************)
(* Registration in chan_sip.c, both ends.  The client is a register= line  *)
(* (SipRegistry) or a phone that may send any REGISTER; the server is a    *)
(* peer entry (SipRegistrar) or a foreign registrar that may answer        *)
(* anything.  Between them requests and answers are lost, delayed,         *)
(* reordered and, as long as the budget of faults lasts, duplicated.       *)
(*                                                                         *)
(* Each action is one packet or one timer of the monitor thread, or one    *)
(* command of the console.                                                 *)
(***************************************************************************)
EXTENDS SipRegistry, SipRegistrar

CONSTANTS Scenarios,   \* [client, server, kind, fault, qualify, codes, contacts]
          MaxSeq,      \* bound on the REGISTERs of a client
          MaxNonces,   \* bound on the nonces of the server
          MaxFaults    \* bound on restarts, reloads, commands and duplicates

ASSUME LocationAssumption ==
  /\ MaxSeq \in Nat /\ MaxNonces \in Nat /\ MaxFaults \in Nat
  /\ Scenarios \subseteq [client : {"asterisk", "phone"}, server : {"asterisk", "other"},
                         kind : Kinds, fault : PeerFaults, qualify : BOOLEAN,
                         codes : SUBSET Nat, contacts : SUBSET Contacts]

VARIABLES sc,          \* the scenario
          reg,         \* the client's registry entry
          phoneSeq,    \* the REGISTERs of a phone
          peer,        \* the server's peer entry
          requests,    \* REGISTERs under way
          responses,   \* answers under way
          faults

vars == <<sc, reg, phoneSeq, peer, requests, responses, faults>>

ClientIs(who) == sc.client = who
ServerIs(who) == sc.server = who

\* sip_send_all_registers, at the start.
Init ==
  /\ sc \in Scenarios
  /\ reg = [NewRegistry EXCEPT !.expire = TRUE]
  /\ phoneSeq = 0
  /\ peer = NewPeer(sc.kind, sc.fault, sc.qualify)
  /\ requests = {} /\ responses = {} /\ faults = 0

\* What a handler has made of the registry or of the peer, and what it has sent.
Client(c) ==
  /\ reg' = [c EXCEPT !.out = {}]
  /\ requests' = requests \cup c.out
  /\ UNCHANGED <<sc, phoneSeq, peer>>

Server(r) ==
  /\ peer' = [r EXCEPT !.out = {}]
  /\ responses' = responses \cup r.out
  /\ UNCHANGED <<sc, reg, phoneSeq>>

Fault == faults < MaxFaults /\ faults' = faults + 1
-----------------------------------------------------------------------------
(* The registry's timers and packets.                                      *)

Reregister ==
  /\ ClientIs("asterisk") /\ reg.expire /\ reg.seq < MaxSeq
  /\ \E resolved \in BOOLEAN : Client(ReregisterNow(reg, resolved))
  /\ UNCHANGED <<responses, faults>>

RegTimeout ==
  /\ ClientIs("asterisk") /\ reg.timeout /\ reg.seq < MaxSeq
  /\ \E resolved \in BOOLEAN : Client(TimedOut(reg, resolved))
  /\ UNCHANGED <<responses, faults>>

\* retrans_pkt gives a REGISTER up, and leaves its dialog alone.
PacketTimeout(id) ==
  /\ reg.dlg[id].pend # 0
  /\ Client(Acked(reg, id))
  /\ UNCHANGED <<responses, faults>>

\* dialog_needdestroy: not while a packet waits.
Reap(id) ==
  /\ reg.dlg[id].need /\ reg.dlg[id].pend = 0
  /\ Client(Unlinked(reg, id))
  /\ UNCHANGED <<responses, faults>>

\* The sip_reload of the client: the entry is built anew.
ReloadRegistry ==
  /\ ClientIs("asterisk") /\ Fault
  /\ Client([NewRegistry EXCEPT !.seq = reg.seq, !.expire = TRUE])
  /\ UNCHANGED responses

\* network_change_event_sched_cb
NetworkChange ==
  /\ ClientIs("asterisk") /\ Fault
  /\ Client([reg EXCEPT !.expire = TRUE])
  /\ UNCHANGED responses

\* handle_response and handle_response_register; high: Min-Expires above what this side
\* takes.  An answer is for the dialog whose packet it acknowledges.
Answered(c, id, m, high, resolved) ==
  LET d == Acked(c, id)
  IN  CASE m.code = 200 -> IF d.dlg[id].registry THEN Registered(d, id) ELSE NeedDestroy(d, id)
        [] m.code \in {401, 407} ->
             IF d.dlg[id].registry THEN Challenged(d, id, m.nonce) ELSE NeedDestroy(d, id)
        [] m.code = 403 -> IF d.dlg[id].registry THEN Forbidden(d, id) ELSE NeedDestroy(d, id)
        [] m.code \in {400, 404} -> IF d.dlg[id].registry THEN Rejected(d, id) ELSE d
        [] m.code = 408 -> IF d.dlg[id].registry THEN [d EXCEPT !.attempts = 0] ELSE d
        [] m.code = 423 -> IF d.dlg[id].registry THEN TooBrief(d, id, high, resolved) ELSE d
        [] OTHER -> NeedDestroy(d, id)

ReceiveAnswer(m, id) ==
  /\ reg.dlg[id].pend = m.seq
  /\ m.code \in {401, 407, 423} => reg.seq < MaxSeq
  /\ \E high, resolved \in (IF m.code = 423 THEN BOOLEAN ELSE {FALSE}) :
       Client(Answered(reg, id, m, high, resolved))
  /\ responses' = responses \ {m}
  /\ UNCHANGED faults
-----------------------------------------------------------------------------
(* The other sides.                                                        *)

\* A phone sends any REGISTER, with credentials for any nonce it was given.
PhoneRegister(contact, off, nonce) ==
  /\ ClientIs("phone") /\ phoneSeq < MaxSeq
  /\ phoneSeq' = phoneSeq + 1
  /\ requests' = requests \cup {Register(phoneSeq + 1, nonce, contact, off)}
  /\ UNCHANGED <<sc, reg, peer, responses, faults>>

\* A foreign registrar answers a REGISTER, with a challenge for instance.
ForeignAnswer(m, code) ==
  /\ ServerIs("other")
  /\ responses' = responses \cup {Answer(m.seq, code, IF code = 401 THEN m.seq ELSE 0)}
  /\ requests' = requests \ {m}
  /\ UNCHANGED <<sc, reg, phoneSeq, peer, faults>>
-----------------------------------------------------------------------------
(* The peer.                                                               *)

\* handle_request_register.  A request may come again.
Handle(m) ==
  /\ ServerIs("asterisk") /\ peer.fresh < MaxNonces
  /\ \E old, error \in BOOLEAN :
       /\ old => peer.kind = "cached" /\ ~peer.known
       /\ error => peer.qualify
       /\ Server(HandleRegister(peer, m, old, error))
  /\ \/ requests' = requests \ {m} /\ UNCHANGED faults
     \/ Fault /\ UNCHANGED requests

\* The dialog of the REGISTERs is destroyed when its time is over.
DialogEnds ==
  /\ peer.sd.alive
  /\ Server([peer EXCEPT !.sd = NoServerDialog])
  /\ UNCHANGED <<requests, faults>>

Expire ==
  /\ peer.expire
  /\ Server(ExpireRegister(peer))
  /\ UNCHANGED <<requests, faults>>

\* sip_poke_peer_s: only a peer that is still in the table.
PokeAgain ==
  /\ peer.poke = "again"
  /\ \E error \in BOOLEAN :
       Server(IF peer.known THEN PokePeer(peer, FALSE, error) ELSE [peer EXCEPT !.poke = "none"])
  /\ UNCHANGED <<requests, faults>>

\* sip_poke_peer_now
PokeNow ==
  /\ peer.poke = "now"
  /\ \E error \in BOOLEAN : Server(PokePeer(peer, FALSE, error))
  /\ UNCHANGED <<requests, faults>>

PokeUnanswered ==
  /\ peer.poke = "noanswer"
  /\ Server(NoAnswer(peer))
  /\ UNCHANGED <<requests, faults>>

PokeTimer == PokeAgain \/ PokeNow \/ PokeUnanswered

PokeAnswer ==
  /\ peer.polled
  /\ \E lag \in BOOLEAN : Server(PokeAnswered(peer, lag))
  /\ UNCHANGED <<requests, faults>>

\* The answer of a poll that the peer has let go.
OrphanAnswer ==
  /\ peer.orphans > 0
  /\ \E lag \in BOOLEAN : Server(PokeAnswered([peer EXCEPT !.orphans = 0], lag))
  /\ UNCHANGED <<requests, faults>>

\* The command sip qualify peer.
QualifyNow ==
  /\ Fault /\ peer.known
  /\ \E error \in BOOLEAN : Server(PokePeer(peer, TRUE, error))
  /\ UNCHANGED requests

\* The command sip unregister.
Unregister ==
  /\ Fault /\ peer.expire /\ peer.known
  /\ Server(ExpireRegister(peer))
  /\ UNCHANGED requests

\* A call looks a cached peer up that is not in memory.
LookUp ==
  /\ Fault /\ peer.kind = "cached" /\ ~peer.known
  /\ \E old \in BOOLEAN : Server(FindPeer(peer, old))
  /\ UNCHANGED requests

\* build_peer for a peer of sip.conf, then sip_poke_all_peers.
Built(r) ==
  LET s == LinkByIp(SourceDb(r))
  IN  IF s.qualify THEN [s EXCEPT !.poke = "again"] ELSE s

ReloadPeers ==
  /\ Fault /\ peer.known
  /\ Server(IF peer.kind = "static" THEN Built(peer)
            ELSE IF peer.qualify THEN [peer EXCEPT !.poke = "again"] ELSE peer)
  /\ UNCHANGED requests

\* The process ends and is started: what is stored stays.
Restart ==
  /\ ServerIs("asterisk") /\ Fault
  /\ LET r == [NewPeer(sc.kind, sc.fault, sc.qualify)
                 EXCEPT !.db = peer.db, !.fresh = peer.fresh, !.used = peer.used,
                        !.twice = peer.twice]
     IN  Server(IF sc.kind = "static" THEN Built(r) ELSE r)
  /\ UNCHANGED requests
-----------------------------------------------------------------------------
Next ==
  \/ Reregister \/ RegTimeout \/ ReloadRegistry \/ NetworkChange
  \/ \E id \in DOMAIN reg.dlg : PacketTimeout(id) \/ Reap(id)
  \/ \E m \in responses, id \in DOMAIN reg.dlg : ReceiveAnswer(m, id)
  \/ \E contact \in sc.contacts, off \in BOOLEAN, nonce \in 0..peer.fresh :
       PhoneRegister(contact, off, nonce)
  \/ \E m \in requests, code \in sc.codes : ForeignAnswer(m, code)
  \/ \E m \in requests : Handle(m)
  \/ DialogEnds \/ Expire \/ PokeTimer \/ PokeAnswer \/ OrphanAnswer
  \/ QualifyNow \/ Unregister \/ LookUp \/ ReloadPeers \/ Restart

\* Timers come when their time is over.
Spec == Init /\ [][Next]_vars /\ WF_vars(PokeTimer)
-----------------------------------------------------------------------------
TypeOK ==
  /\ sc \in Scenarios
  /\ IsRegistry(reg) /\ reg.out = {} /\ peer \in Peers /\ peer.out = {}
  /\ requests \subseteq Requests /\ responses \subseteq Answers
  /\ phoneSeq \in 0 .. MaxSeq /\ faults \in 0 .. MaxFaults

(* A register= line that has not given up has a timer that makes it try    *)
(* again, whatever is lost and whatever is answered: no answer leaves it   *)
(* unregistered without a next attempt (sip_reg_timeout, sip_reregister).  *)
RegistryGoesOn == ClientIs("asterisk") /\ reg.state \notin GivenUp => reg.expire \/ reg.timeout

(* A nonce lets at most one request through: a REGISTER that is heard      *)
(* again, after a newer one, a restart or a reload, is challenged          *)
(* (check_auth: stalenonce).                                               *)
NonceOnce == ~peer.twice

(* What is stored of a registration ends when the registration does: no    *)
(* entry of the database is left that a restart would bring back for a     *)
(* peer that has gone, and no registration is lost by a restart.           *)
StoredIsBound ==
  peer.known /\ peer.kind \in {"static", "auto"} => (peer.db # "none" <=> peer.expire)

\* Why: both ends keep what their handlers keep.
RegistryInv == Consistent(reg) /\ GoesOn(reg)
PeerInv     == NoncesKept(peer) /\ EntryKept(peer)

(* A qualified phone that is registered and answers no more is found       *)
(* unreachable, whatever it answered before, late or in time, and          *)
(* whatever was registered, reloaded or asked meanwhile.  Excluded is a    *)
(* phone that is polled by hand, which no timer waits for (forced).        *)
SilenceNoticed ==
  sc.qualify =>
    \/ []<><<PokeAnswer \/ OrphanAnswer>>_vars
    \/ []<>(peer.lastms = "unreachable" \/ peer.addr # "ua" \/ peer.forced)
=============================================================================
