----------------------------- MODULE SipRegistry -----------------------------
(***************************************************************************)
(* A register= line of sip.conf (struct sip_registry): what chan_sip.c     *)
(* does to stay registered somewhere else.  Every operator takes the       *)
(* registry c with its dialogs and returns it changed; c.out collects the  *)
(* requests sent meanwhile.                                                *)
(*                                                                         *)
(* All of it runs in the monitor thread, one packet or timer at a time.    *)
(***************************************************************************)
EXTENDS Integers

CONSTANTS MaxAttempts,   \* regattempts_max, 0: no limit
          MaxTries,      \* MAX_AUTHTRIES
          Retry403       \* register_retry_403

ASSUME RegistryAssumption == MaxAttempts \in Nat /\ MaxTries \in Nat /\ Retry403 \in BOOLEAN

\* enum sipregistrystate; the last three are meant to be final.
InProgress == {"regsent", "authsent"}
GivenUp    == {"rejected", "noauth", "failed"}
States     == {"unregistered", "registered"} \cup InProgress \cup GivenUp

\* A REGISTER: its number, the nonce its credentials answer (0: it has none), the contact,
\* and whether it takes the registration back.
Register(seq, nonce, contact, off) ==
  [seq |-> seq, nonce |-> nonce, contact |-> contact, off |-> off]

\* The contacts: ua, which may register; denied, which the contact ACL of the other side
\* refuses; lost, a name nobody resolves; stars, a * among others; none.
Contacts == {"ua", "denied", "lost", "stars", "none"}
Requests == [seq : Nat \ {0}, nonce : Nat, contact : Contacts, off : BOOLEAN]

NewRegistry ==
  [state |-> "unregistered", call |-> 0, timeout |-> FALSE, expire |-> FALSE,
   attempts |-> 0, nonce |-> 0, seq |-> 0, dlg |-> <<>>, out |-> {}]

\* A dialog of the registry, named by the number of its first REGISTER.  pend: the
\* REGISTER whose packet waits for an answer.
NewDialog == [need |-> FALSE, registry |-> TRUE, tries |-> 0, pend |-> 0]

Dialogs == [need : BOOLEAN, registry : BOOLEAN, tries : Nat, pend : Nat]

IsRegistry(c) ==
  /\ c \in [state : States, call : Nat, timeout : BOOLEAN, expire : BOOLEAN, attempts : Nat,
            nonce : Nat, seq : Nat, dlg : [DOMAIN c.dlg -> Dialogs], out : SUBSET Requests]
  /\ DOMAIN c.dlg \subseteq Nat \ {0}

NeedDestroy(c, id) == [c EXCEPT !.dlg[id].need = TRUE]

Attempts(n) == IF n < MaxAttempts THEN n + 1 ELSE n

\* The rest of transmit_register: only without credentials a timeout is started.
SendRegister(c, id, auth) ==
  [c EXCEPT !.seq = @ + 1, !.dlg[id].pend = c.seq + 1,
            !.state = IF auth = 0 THEN "regsent" ELSE "authsent",
            !.timeout = @ \/ auth = 0,
            !.attempts = Attempts(@),
            !.out = @ \cup {Register(c.seq + 1, IF auth = 0 THEN c.nonce ELSE auth, "ua", FALSE)}]

\* transmit_register.  resolved: create_addr finds an address.  There is memory for the dialog:
\* without (15262) nothing is sent and no timer is started.
Transmit(c, auth, resolved) ==
  IF auth = 0 /\ (c.state \in InProgress \/ c.call # 0) THEN c
  ELSE IF c.call # 0 THEN SendRegister(c, c.call, auth)
  ELSE IF ~resolved THEN [c EXCEPT !.timeout = TRUE, !.attempts = Attempts(@)]
  ELSE LET id == c.seq + 1
       IN  SendRegister([c EXCEPT !.call = id,
                                  !.dlg = [i \in {id} \cup DOMAIN @ |->
                                             IF i = id THEN NewDialog ELSE @[i]]], id, auth)
-----------------------------------------------------------------------------
(* Timers.                                                                 *)

\* sip_reregister
ReregisterNow(c, resolved) == Transmit([c EXCEPT !.expire = FALSE], 0, resolved)

\* sip_reg_timeout: the dialog is let go, with what it waits for.
Decoupled(c) ==
  IF c.call = 0 THEN c
  ELSE [c EXCEPT !.dlg[c.call] = [@ EXCEPT !.need = TRUE, !.pend = 0, !.registry = FALSE],
                 !.call = 0]

TimedOut(c, resolved) ==
  LET d == [Decoupled(c) EXCEPT !.timeout = FALSE]
  IN  IF MaxAttempts > 0 /\ d.attempts >= MaxAttempts
      THEN [d EXCEPT !.state = "failed"]
      ELSE Transmit([d EXCEPT !.state = "unregistered"], 0, resolved)

\* dialog_unlink_all
Unlinked(c, id) ==
  [c EXCEPT !.call = IF c.dlg[id].registry /\ @ = id THEN 0 ELSE @,
            !.dlg = [i \in DOMAIN @ \ {id} |-> @[i]]]
-----------------------------------------------------------------------------
(* handle_response_register, for the answer of the packet of dialog id.    *)

Acked(c, id) == [c EXCEPT !.dlg[id].pend = 0]

\* 401, 407: do_register_auth
Challenged(c, id, nonce) ==
  IF c.dlg[id].tries = MaxTries \/ nonce = 0 THEN NeedDestroy(c, id)
  ELSE Transmit([c EXCEPT !.dlg[id].tries = @ + 1, !.nonce = nonce], nonce, TRUE)

\* 403
Forbidden(c, id) ==
  IF Retry403 THEN [c EXCEPT !.nonce = 0]
  ELSE NeedDestroy([c EXCEPT !.timeout = FALSE, !.state = "noauth"], id)

\* 404, and 400, 414, 493
Rejected(c, id) ==
  NeedDestroy([c EXCEPT !.call = 0, !.timeout = FALSE, !.state = "rejected"], id)

\* 423
\* Mutant: the next attempt is left to the timer that was just taken away.
TooBrief_Wait(c, id, high, resolved) ==
  LET d == [c EXCEPT !.timeout = FALSE]
      e == IF d.call = 0 THEN d ELSE NeedDestroy([d EXCEPT !.call = 0], id)
  IN  [e EXCEPT !.state = IF high THEN "rejected" ELSE "unregistered"]
TooBrief(c, id, high, resolved) ==
  LET d == [c EXCEPT !.timeout = FALSE]
      e == IF d.call = 0 THEN d ELSE NeedDestroy([d EXCEPT !.call = 0], id)
  IN  IF high THEN [e EXCEPT !.state = "rejected"]
      ELSE Transmit([e EXCEPT !.state = "unregistered"], 0, resolved)

\* 200
Registered(c, id) ==
  NeedDestroy([c EXCEPT !.state = "registered", !.attempts = 0, !.timeout = FALSE, !.call = 0,
                        !.expire = TRUE, !.dlg[id].registry = FALSE, !.dlg[id].tries = 0], id)
-----------------------------------------------------------------------------
\* What every handler keeps: the call in use is a dialog of the registry; of the registry's
\* dialogs only that one waits for an answer, and none waits once the registry has given
\* up; while a call is in use or a REGISTER is under way, the timeout is running.
Consistent(c) ==
  /\ c.call # 0 => c.call \in DOMAIN c.dlg /\ c.dlg[c.call].registry
  /\ \A id \in DOMAIN c.dlg : c.dlg[id].registry /\ c.dlg[id].pend # 0
                               => id = c.call /\ c.state \notin GivenUp
  /\ c.state \notin GivenUp /\ (c.state \in InProgress \/ c.call # 0) => c.timeout

\* A next attempt will come.
GoesOn(c) == c.state \notin GivenUp => c.expire \/ c.timeout
=============================================================================
