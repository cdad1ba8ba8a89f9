---------------------------- MODULE SipRegistrar ----------------------------
(***************************************************************************)
(* One peer of chan_sip.c (struct sip_peer) that registers here: its       *)
(* address, the tables it is found in, what is stored of it, and the       *)
(* qualify that watches it.  Every operator takes the peer r, together     *)
(* with the dialog of its REGISTERs, and returns it changed; r.out         *)
(* collects the answers sent meanwhile.                                    *)
(***************************************************************************)
EXTENDS Integers, FiniteSets

CONSTANT AlwaysReject   \* alwaysauthreject: an unknown peer is not told from a wrong password

ASSUME RegistrarAssumption == AlwaysReject \in BOOLEAN

\* What may be wrong with the peer: its password, its user name, its address, it is not
\* dynamic, it uses another transport, it does not exist.  "open": it needs no password.
PeerFaults == {"none", "secret", "username", "acl", "notdynamic", "transport", "unknown", "open"}

Answers == [seq : Nat \ {0}, code : Nat, nonce : Nat]
Answer(seq, code, nonce) == [seq |-> seq, code |-> code, nonce |-> nonce]
Reply(r, m, code) == [r EXCEPT !.out = @ \cup {Answer(m.seq, code, 0)}]

NoServerDialog == [alive |-> FALSE, nonce |-> 0, stale |-> FALSE, icseq |-> 0]

Addresses == {"none", "ua", "denied"}
Kinds == {"static", "auto", "cached"}
Peers == [kind : Kinds, fault : PeerFaults, qualify : BOOLEAN, known : BOOLEAN,
          addr : Addresses, byip : BOOLEAN, expire : BOOLEAN,
          lastms : {"unknown", "ok", "lagged", "unreachable"},
          poke : {"none", "now", "again", "noanswer"}, polled : BOOLEAN, orphans : {0, 1},
          exten : BOOLEAN, db : Addresses,
          sd : [alive : BOOLEAN, nonce : Nat, stale : BOOLEAN, icseq : Nat],
          fresh : Nat, used : SUBSET Nat, twice : BOOLEAN,
          forced : BOOLEAN, out : SUBSET Answers]

\* kind: static, of sip.conf with host=dynamic; auto, of autocreatepeer; cached, of the
\* realtime database with rtcachefriends, rtautoclear and rtupdate.
NewPeer(kind, fault, qualify) ==
  [kind |-> kind, fault |-> fault, qualify |-> qualify, known |-> kind = "static",
   addr |-> "none", byip |-> FALSE, expire |-> FALSE, lastms |-> "unknown",
   poke |-> "none", polled |-> FALSE, orphans |-> 0, exten |-> FALSE, db |-> "none",
   sd |-> NoServerDialog, fresh |-> 0, used |-> {}, twice |-> FALSE,
   forced |-> FALSE, out |-> {}]
-----------------------------------------------------------------------------
(* Qualify: an OPTIONS that must be answered in time.                      *)

\* sip_poke_noanswer
NoAnswer(r) ==
  [r EXCEPT !.lastms = "unreachable", !.polled = FALSE, !.poke = "again"]

\* sip_poke_peer, for an OPTIONS that is sent.
\* Mutant: nobody waits for the answer.
Poked_Alone(r, force) == [r EXCEPT !.polled = TRUE, !.poke = "none", !.forced = force]
Poked(r, force) ==
  [r EXCEPT !.polled = TRUE, !.poke = IF force THEN "none" ELSE "noanswer", !.forced = force]

\* sip_poke_peer.  error: the packet cannot be sent.  A forced one is nobody's to time out.
\* orphans: dialogs of polls the peer has let go, which an answer still finds.
PokePeer(r, force, error) ==
  IF (~r.qualify /\ ~force) \/ r.addr = "none"
  THEN [r EXCEPT !.poke = "none", !.lastms = "unknown", !.polled = FALSE,
                 !.orphans = IF r.polled THEN 1 ELSE @]
  ELSE IF error THEN [NoAnswer(r) EXCEPT !.forced = FALSE] ELSE Poked(r, force)

\* handle_response_peerpoke
PokeAnswered(r, lag) ==
  IF ~r.qualify THEN r
  ELSE [r EXCEPT !.lastms = IF lag THEN "lagged" ELSE "ok", !.polled = FALSE,
                 !.poke = "again", !.forced = FALSE,
                 !.orphans = IF r.polled THEN 1 ELSE @]
-----------------------------------------------------------------------------
(* What is stored, and what is forgotten.                                  *)

\* reg_source_db
SourceDb(r) ==
  IF r.db = "none" THEN r
  ELSE [r EXCEPT !.addr = r.db, !.exten = TRUE, !.poke = IF r.qualify THEN "again" ELSE @,
                 !.expire = TRUE]

LinkByIp(r) == [r EXCEPT !.byip = r.addr # "none"]

\* destroy_association, without ignoreregexpire
DestroyAssociation(r) == [r EXCEPT !.db = "none"]

\* expire_register: the address is cleared after the table that is sorted by it.
ExpireRegister(r) ==
  [DestroyAssociation(r) EXCEPT
     !.expire = FALSE, !.exten = FALSE, !.known = r.kind = "static",
     !.byip = FALSE, !.addr = "none"]

\* An object the peer had before is gone, and what it polled with it.
Fresh(r) == [r EXCEPT !.known = TRUE, !.addr = "none", !.byip = FALSE, !.lastms = "unknown",
                      !.poke = "none", !.polled = FALSE, !.forced = FALSE]

\* realtime_peer and build_peer.  old: its time was over while nobody asked for it.
RealtimePeer(r, old) ==
  LET s == Fresh(r)
      t == IF old THEN [DestroyAssociation(s) EXCEPT !.lastms = "unreachable"]
           ELSE [s EXCEPT !.addr = r.db, !.poke = "now"]
  IN  LinkByIp([t EXCEPT !.expire = TRUE])

\* temp_peer
TempPeer(r) == LinkByIp(SourceDb(Fresh(r)))

\* sip_find_peer by name
FindPeer(r, old) == IF r.kind = "cached" /\ ~r.known THEN RealtimePeer(r, old) ELSE r
-----------------------------------------------------------------------------
(* parse_register_contact: the peer, and the code of the answer.           *)

SetAddress(r, contact) ==
  LET s == [r EXCEPT !.byip = FALSE]
  IN  IF contact = "lost" THEN s ELSE [s EXCEPT !.addr = contact]

\* Mutant: the binding is not stored.
Bind_Unstored(r, m, error) ==
  [PokePeer([LinkByIp(r) EXCEPT !.expire = TRUE], FALSE, error) EXCEPT !.exten = TRUE]
Bind(r, m, error) ==
  [PokePeer([LinkByIp(r) EXCEPT !.expire = TRUE, !.db = r.addr], FALSE, error) EXCEPT !.exten = TRUE]

\* denied: the answer to a contact that the ACL refuses, which has become the address by then.
ParseContact(r, m, error, denied) ==
  IF m.contact = "stars" THEN Reply(r, m, 400)
  ELSE IF m.off THEN Reply(ExpireRegister(r), m, 200)
  ELSE IF m.contact = "none" THEN Reply(r, m, 200)
  ELSE LET s == SetAddress(r, m.contact)
       IN  IF m.contact = "lost" THEN Reply(s, m, 400)
           ELSE IF m.contact = "denied" THEN Reply(s, m, denied)
           ELSE Reply(Bind(s, m, error), m, 200)
-----------------------------------------------------------------------------
(* Digest authentication.  The nonces are numbered; good: the response was *)
(* made with the right password.                                           *)

\* build_nonce
BuildNonce(r, force) ==
  IF r.sd.stale \/ force \/ r.sd.nonce = 0
  THEN [r EXCEPT !.fresh = @ + 1, !.sd.nonce = r.fresh + 1, !.sd.stale = FALSE]
  ELSE r

Challenge(r, m) == [r EXCEPT !.out = @ \cup {Answer(m.seq, 401, r.sd.nonce)}]

\* A nonce is answered: from now on it is stale.
\* Mutant: it stays good.
Accept_Again(r, m) ==
  [r EXCEPT !.used = @ \cup {m.nonce}, !.twice = @ \/ m.nonce \in r.used]
Accept(r, m) ==
  [r EXCEPT !.sd.stale = TRUE, !.used = @ \cup {m.nonce}, !.twice = @ \/ m.nonce \in r.used]

\* check_auth: the peer, and the outcome.
CheckAuth(r, m, ignore, good) ==
  IF r.fault = "open" THEN <<r, "ok">>
  ELSE IF r.sd.nonce = 0 \/ m.nonce = 0
  THEN <<Challenge(BuildNonce(r, ~(ignore /\ r.sd.nonce # 0 /\ m.nonce = 0)), m), "challenge">>
  ELSE IF r.fault = "username" THEN <<r, "refused">>
  ELSE IF m.nonce # r.sd.nonce \/ r.sd.stale
  THEN <<Challenge(IF good THEN BuildNonce(r, FALSE)
                   ELSE IF ignore THEN r ELSE BuildNonce(r, TRUE), m), "challenge">>
  ELSE <<Accept(r, m), IF good THEN "ok" ELSE "secret">>

\* transmit_fake_auth_response: as if the peer existed and the password was wrong.
FakeAuth(r, m, ignore) ==
  IF r.sd.nonce = 0 \/ m.nonce = 0
  THEN Challenge(BuildNonce(r, ~(ignore /\ r.sd.nonce # 0 /\ m.nonce = 0)), m)
  ELSE IF m.nonce # r.sd.nonce
  THEN Challenge(IF ignore THEN r ELSE BuildNonce(r, TRUE), m)
  ELSE Reply(r, m, 403)

Refuse(r, m, ignore, code) == IF AlwaysReject THEN FakeAuth(r, m, ignore) ELSE Reply(r, m, code)
-----------------------------------------------------------------------------
(* register_verify and handle_request_register.                            *)

\* A peer with a password.
Verify(r, m, ignore, error) ==
  LET auth == CheckAuth(r, m, ignore, r.fault # "secret")
  IN  CASE auth[2] = "challenge" -> auth[1]
        [] auth[2] = "secret"    -> Reply(auth[1], m, 403)
        [] auth[2] = "refused"   -> Refuse(auth[1], m, ignore, 404)
        [] OTHER -> IF r.fault = "transport" THEN Reply(auth[1], m, 403)
                    ELSE ParseContact(auth[1], m, error, 603)

RegisterVerify(r, m, ignore, old, error) ==
  IF ignore /\ m.off THEN Reply(r, m, 200)
  ELSE IF r.fault = "unknown" /\ AlwaysReject             \* the bogus peer
  THEN LET auth == CheckAuth(r, m, ignore, FALSE)
       IN  IF auth[2] = "secret" THEN Reply(auth[1], m, 403) ELSE auth[1]
  ELSE IF r.fault = "unknown" THEN Reply(r, m, 404)
  ELSE IF r.fault = "acl" THEN Refuse(FindPeer(r, old), m, ignore, 404)
  ELSE IF r.fault = "notdynamic" THEN Refuse(FindPeer(r, old), m, ignore, 403)
  ELSE IF r.kind = "auto" /\ ~r.known THEN ParseContact(TempPeer(r), m, error, 403)
  ELSE Verify(FindPeer(r, old), m, ignore, error)

HandleRegister(r, m, old, error) ==
  LET ignore == r.sd.alive /\ r.sd.icseq = m.seq
      s == [r EXCEPT !.sd = IF @.alive THEN [@ EXCEPT !.icseq = m.seq]
                            ELSE [NoServerDialog EXCEPT !.alive = TRUE, !.icseq = m.seq]]
  IN  IF r.sd.alive /\ r.sd.icseq > m.seq THEN Reply(r, m, 500)
      ELSE RegisterVerify(s, m, ignore, old, error)
-----------------------------------------------------------------------------
\* What every handler keeps of the nonces: the one of the dialog is among those that were
\* given, and marked once it was answered; none was answered twice.
NoncesKept(r) ==
  /\ r.used \subseteq 1 .. r.fresh /\ r.sd.nonce <= r.fresh
  /\ r.sd.nonce \in r.used => r.sd.stale
  /\ ~r.twice

\* What every handler keeps of the entry in the database: while the peer is known it is there
\* exactly as long as the registration runs; a peer of sip.conf is always known, and one
\* that was created for a registration is forgotten with it.
EntryKept(r) ==
  /\ r.known /\ r.kind \in {"static", "auto"} => (r.db # "none" <=> r.expire)
  /\ r.kind = "static" => r.known
  /\ r.kind = "auto" /\ ~r.known => ~r.expire
=============================================================================
