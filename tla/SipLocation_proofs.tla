------------------------- MODULE SipLocation_proofs -------------------------
(***************************************************************************)
(* Proofs about SipLocation, for every scenario, every setting of both     *)
(* ends and any number of REGISTERs, nonces and faults.                    *)
(***************************************************************************)
EXTENDS SipLocation, TLAPS

\* What is written to a dialog keeps its kind.
LEMMA DialogWritten ==
  ASSUME NEW D, NEW f \in [D -> Dialogs], NEW i \in D
  PROVE  /\ \A v \in Nat : [f EXCEPT ![i].pend = v] \in [D -> Dialogs]
         /\ \A v \in Nat : [f EXCEPT ![i].tries = v] \in [D -> Dialogs]
         /\ \A v \in BOOLEAN : [f EXCEPT ![i].need = v] \in [D -> Dialogs]
         /\ \A v \in BOOLEAN : [f EXCEPT ![i].registry = v] \in [D -> Dialogs]
<1>1. \A v \in Nat : [f[i] EXCEPT !.pend = v] \in Dialogs /\ [f[i] EXCEPT !.tries = v] \in Dialogs
  BY DEF Dialogs
<1>2. \A v \in BOOLEAN : [f[i] EXCEPT !.need = v] \in Dialogs /\ [f[i] EXCEPT !.registry = v] \in Dialogs
  BY DEF Dialogs
<1>3. QED
  BY <1>1, <1>2

\* The kinds of the fields.
LEMMA RegistryFields ==
  ASSUME NEW c, IsRegistry(c)
  PROVE  /\ c.state \in States /\ c.call \in Nat /\ c.timeout \in BOOLEAN /\ c.expire \in BOOLEAN
         /\ c.attempts \in Nat /\ c.nonce \in Nat /\ c.seq \in Nat /\ c.out \in SUBSET Requests
         /\ c.dlg \in [DOMAIN c.dlg -> Dialogs] /\ DOMAIN c.dlg \subseteq Nat \ {0}
         /\ Attempts(c.attempts) \in Nat
         /\ \A id \in DOMAIN c.dlg : c.dlg[id] \in Dialogs
  BY RegistryAssumption DEF IsRegistry, Attempts, RegistryAssumption

LEMMA StateNames ==
  /\ \A x \in GivenUp \cup InProgress \cup {"unregistered", "registered"} : x \in States
  /\ {"regsent", "authsent"} \subseteq InProgress /\ {"rejected", "noauth", "failed"} \subseteq GivenUp
  /\ InProgress \cap GivenUp = {} /\ "unregistered" \notin InProgress \cup GivenUp
  /\ "registered" \notin InProgress \cup GivenUp
  BY DEF States, GivenUp, InProgress

\* A REGISTER that is sent for the call in use.
LEMMA Sent ==
  ASSUME NEW c, NEW auth \in Nat, IsRegistry(c),
         c.call \in DOMAIN c.dlg, c.dlg[c.call].registry,
         \A id \in DOMAIN c.dlg : c.dlg[id].registry /\ c.dlg[id].pend # 0 => id = c.call,
         auth = 0 \/ c.timeout
  PROVE  LET s == SendRegister(c, c.call, auth)
         IN  IsRegistry(s) /\ Consistent(s) /\ GoesOn(s)
<1> DEFINE s == SendRegister(c, c.call, auth)
           r == Register(c.seq + 1, IF auth = 0 THEN c.nonce ELSE auth, "ua", FALSE)
<1>1. /\ c.dlg \in [DOMAIN c.dlg -> Dialogs] /\ c.seq \in Nat /\ c.nonce \in Nat
      /\ c.attempts \in Nat /\ c.timeout \in BOOLEAN /\ DOMAIN c.dlg \subseteq Nat \ {0}
      /\ c.out \subseteq Requests /\ c.call \in Nat /\ c.expire \in BOOLEAN
  BY DEF IsRegistry
<1>2. /\ s.seq = c.seq + 1 /\ s.dlg = [c.dlg EXCEPT ![c.call].pend = c.seq + 1]
      /\ s.state = IF auth = 0 THEN "regsent" ELSE "authsent"
      /\ s.timeout = (c.timeout \/ auth = 0) /\ s.call = c.call /\ s.expire = c.expire
      /\ s.out = c.out \cup {r} /\ s.nonce = c.nonce /\ s.attempts = Attempts(c.attempts)
  BY DEF IsRegistry, SendRegister
<1>3. DOMAIN s.dlg = DOMAIN c.dlg /\ s.dlg \in [DOMAIN c.dlg -> Dialogs]
  <2>1. c.seq + 1 \in Nat
    BY <1>1
  <2>2. [c.dlg EXCEPT ![c.call].pend = c.seq + 1] \in [DOMAIN c.dlg -> Dialogs]
    BY <1>1, <2>1, DialogWritten
  <2>3. QED
    BY <1>2, <2>2
<1>4. /\ s.dlg[c.call].registry
      /\ \A id \in DOMAIN s.dlg : s.dlg[id].registry /\ s.dlg[id].pend # 0 => id = c.call
  BY <1>1, <1>2 DEF Dialogs
<1>5. r \in Requests /\ Attempts(c.attempts) \in Nat
  <2>1. c.seq + 1 \in Nat \ {0} /\ (IF auth = 0 THEN c.nonce ELSE auth) \in Nat /\ "ua" \in Contacts
    BY <1>1 DEF Contacts
  <2>2. QED
    BY <1>1, <2>1, RegistryAssumption DEF Requests, Register, Attempts, RegistryAssumption
<1>6. s.timeout = TRUE /\ s.state \in InProgress /\ s.state \notin GivenUp /\ s.state \in States
  BY <1>1, <1>2 DEF InProgress, GivenUp, States
<1>7. IsRegistry(s)
  <2>1. /\ c.seq + 1 \in Nat /\ (c.timeout \/ auth = 0) \in BOOLEAN
        /\ [c.dlg EXCEPT ![c.call].pend = c.seq + 1] \in [DOMAIN c.dlg -> Dialogs]
    BY <1>1, <1>2, <1>3
  <2>4. c.out \cup {r} \in SUBSET Requests
    BY <1>1, <1>5
  <2>5. (IF auth = 0 THEN "regsent" ELSE "authsent") \in States
    BY DEF States, InProgress
  <2>2. s \in [state : States, call : Nat, timeout : BOOLEAN, expire : BOOLEAN, attempts : Nat,
               nonce : Nat, seq : Nat, dlg : [DOMAIN c.dlg -> Dialogs], out : SUBSET Requests]
    BY <1>5, <2>1, <2>4, <2>5 DEF IsRegistry, SendRegister
  <2>3. QED
    BY <1>1, <1>2, <1>3, <2>2 DEF IsRegistry
<1>8. Consistent(s) /\ GoesOn(s)
  BY <1>1, <1>2, <1>3, <1>4, <1>6 DEF Consistent, GoesOn
<1>9. QED
  BY <1>7, <1>8

Keeps(c) == IsRegistry(c) /\ Consistent(c)
Good(c)  == Keeps(c) /\ GoesOn(c)

\* transmit_register without credentials leaves a next attempt behind, whatever it finds.
LEMMA TransmitGood ==
  ASSUME NEW c, Keeps(c), NEW resolved
  PROVE  Good(Transmit(c, 0, resolved))
<1>1. CASE c.state \in InProgress \/ c.call # 0
  BY <1>1 DEF Transmit, Good, Keeps, Consistent, GoesOn
<1>2. CASE ~(c.state \in InProgress \/ c.call # 0) /\ ~resolved
  <2> DEFINE d == [c EXCEPT !.timeout = TRUE, !.attempts = Attempts(@)]
  <2>1. d = Transmit(c, 0, resolved)
    BY <1>2 DEF Transmit
  <2>2. /\ d.state = c.state /\ d.call = c.call /\ d.timeout = TRUE /\ d.dlg = c.dlg
        /\ d.expire = c.expire
    BY DEF Keeps, IsRegistry
  <2>3. d \in [state : States, call : Nat, timeout : BOOLEAN, expire : BOOLEAN, attempts : Nat,
               nonce : Nat, seq : Nat, dlg : [DOMAIN c.dlg -> Dialogs], out : SUBSET Requests]
    BY RegistryFields DEF Keeps, IsRegistry
  <2>4. QED
    BY <2>1, <2>2, <2>3 DEF Good, Keeps, IsRegistry, Consistent, GoesOn
<1>3. CASE ~(c.state \in InProgress \/ c.call # 0) /\ resolved
  <2> DEFINE id == c.seq + 1
             f == [i \in {id} \cup DOMAIN c.dlg |-> IF i = id THEN NewDialog ELSE c.dlg[i]]
             e == [c EXCEPT !.call = id, !.dlg = f]
  <2>1. Transmit(c, 0, resolved) = SendRegister(e, id, 0)
    BY <1>3 DEF Transmit
  <2>2. DOMAIN f = {id} \cup DOMAIN c.dlg /\ f \in [DOMAIN f -> Dialogs] /\ id \in Nat \ {0}
    <3>1. NewDialog \in Dialogs
      BY DEF NewDialog, Dialogs
    <3>2. QED
      BY <3>1, RegistryFields DEF Keeps
  <2>3. e.call = id /\ e.dlg = f
    BY DEF Keeps, IsRegistry
  <2>4. e \in [state : States, call : Nat, timeout : BOOLEAN, expire : BOOLEAN, attempts : Nat,
               nonce : Nat, seq : Nat, dlg : [DOMAIN f -> Dialogs], out : SUBSET Requests]
    <3> HIDE DEF f, id
    <3>1. QED
      BY <2>2, RegistryFields DEF Keeps, IsRegistry
  <2>5. IsRegistry(e)
    BY <2>2, <2>3, <2>4, RegistryFields DEF IsRegistry, Keeps
  <2>6. f[id] = NewDialog /\ \A i \in DOMAIN f : i # id => f[i] = c.dlg[i] /\ i \in DOMAIN c.dlg
    OBVIOUS
  <2>7. c.call = 0 /\ NewDialog.registry
    BY <1>3 DEF NewDialog
  <2>8. \A i \in DOMAIN e.dlg : e.dlg[i].registry /\ e.dlg[i].pend # 0 => i = e.call
    <3> HIDE DEF f, id
    <3>1. QED
      BY <2>2, <2>3, <2>6, <2>7, RegistryFields DEF Keeps, Consistent
  <2>9. e.call \in DOMAIN e.dlg /\ e.dlg[e.call].registry
    BY <2>2, <2>3, <2>6, <2>7
  <2>10. QED
    <3> HIDE DEF e
    <3>1. Good(SendRegister(e, e.call, 0))
      BY <2>5, <2>8, <2>9, Sent DEF Good, Keeps
    <3>2. QED
      BY <3>1, <2>1, <2>3
<1>4. QED
  BY <1>1, <1>2, <1>3

\* do_register_auth answers for the call in use.
LEMMA TransmitAuthGood ==
  ASSUME NEW c, Keeps(c), NEW auth \in Nat \ {0}, c.call # 0, c.timeout
  PROVE  Good(Transmit(c, auth, TRUE))
<1>1. Transmit(c, auth, TRUE) = SendRegister(c, c.call, auth)
  BY DEF Transmit
<1>2. /\ IsRegistry(c) /\ c.call \in DOMAIN c.dlg /\ c.dlg[c.call].registry
      /\ \A id \in DOMAIN c.dlg : c.dlg[id].registry /\ c.dlg[id].pend # 0 => id = c.call
  BY DEF Keeps, Consistent
<1>3. Good(SendRegister(c, c.call, auth))
  BY <1>2, Sent DEF Good, Keeps
<1>4. QED
  BY <1>1, <1>3

\* The timers.
LEMMA ReregisterGood ==
  ASSUME NEW c, Good(c), NEW resolved
  PROVE  Good(ReregisterNow(c, resolved))
<1> DEFINE d == [c EXCEPT !.expire = FALSE]
<1>1. d.state = c.state /\ d.call = c.call /\ d.timeout = c.timeout /\ d.dlg = c.dlg
  BY DEF Good, Keeps, IsRegistry
<1>2. d \in [state : States, call : Nat, timeout : BOOLEAN, expire : BOOLEAN, attempts : Nat,
             nonce : Nat, seq : Nat, dlg : [DOMAIN c.dlg -> Dialogs], out : SUBSET Requests]
  BY RegistryFields DEF Good, Keeps, IsRegistry
<1>3. Keeps(d)
  BY <1>1, <1>2 DEF Good, Keeps, IsRegistry, Consistent
<1>4. QED
  BY <1>3, TransmitGood DEF ReregisterNow

LEMMA DecoupledKeeps ==
  ASSUME NEW c, Good(c)
  PROVE  LET d == Decoupled(c)
         IN  /\ IsRegistry(d) /\ d.call = 0 /\ DOMAIN d.dlg = DOMAIN c.dlg
             /\ \A id \in DOMAIN d.dlg : d.dlg[id].registry => d.dlg[id].pend = 0
<1>1. CASE c.call = 0
  BY <1>1, RegistryFields DEF Decoupled, Good, Keeps, Consistent
<1>2. CASE c.call # 0
  <2> DEFINE f == [c.dlg EXCEPT ![c.call] = [@ EXCEPT !.need = TRUE, !.pend = 0, !.registry = FALSE]]
             d == [c EXCEPT !.dlg = f, !.call = 0]
  <2>1. Decoupled(c) = d
    BY <1>2 DEF Decoupled
  <2>2. c.call \in DOMAIN c.dlg /\ c.dlg \in [DOMAIN c.dlg -> Dialogs]
    BY <1>2, RegistryFields DEF Good, Keeps, Consistent
  <2>3. [c.dlg[c.call] EXCEPT !.need = TRUE, !.pend = 0, !.registry = FALSE] \in Dialogs
    BY <2>2 DEF Dialogs
  <2>4. f \in [DOMAIN c.dlg -> Dialogs] /\ DOMAIN f = DOMAIN c.dlg
    BY <2>2, <2>3
  <2>5. \A id \in DOMAIN f : f[id].registry => f[id].pend = 0
    <3>1. f[c.call].registry = FALSE
      BY <2>2 DEF Dialogs
    <3>2. \A id \in DOMAIN c.dlg \ {c.call} : f[id] = c.dlg[id]
      BY <2>2
    <3>3. \A id \in DOMAIN c.dlg \ {c.call} : c.dlg[id].registry => c.dlg[id].pend = 0
      BY DEF Good, Keeps, Consistent
    <3>4. QED
      BY <2>4, <3>1, <3>2, <3>3
  <2>6. d.dlg = f /\ d.call = 0
    BY DEF Good, Keeps, IsRegistry
  <2>7. d \in [state : States, call : Nat, timeout : BOOLEAN, expire : BOOLEAN, attempts : Nat,
               nonce : Nat, seq : Nat, dlg : [DOMAIN c.dlg -> Dialogs], out : SUBSET Requests]
    <3> HIDE DEF f
    <3>1. QED
      BY <2>4, RegistryFields DEF Good, Keeps, IsRegistry
  <2>8. IsRegistry(d)
    <3> HIDE DEF f, d
    <3>1. QED
      BY <2>4, <2>6, <2>7, RegistryFields DEF Good, Keeps, IsRegistry
  <2>9. QED
    <3> HIDE DEF f, d
    <3>1. QED
      BY <2>1, <2>4, <2>5, <2>6, <2>8
<1>3. QED
  BY <1>1, <1>2

LEMMA TimedOutGood ==
  ASSUME NEW c, Good(c), NEW resolved
  PROVE  Good(TimedOut(c, resolved))
<1> DEFINE a == Decoupled(c)
           d == [a EXCEPT !.timeout = FALSE]
           e == [d EXCEPT !.state = "failed"]
           f == [d EXCEPT !.state = "unregistered"]
<1>1. /\ IsRegistry(a) /\ a.call = 0
      /\ \A id \in DOMAIN a.dlg : a.dlg[id].registry => a.dlg[id].pend = 0
  BY DecoupledKeeps
<1> HIDE DEF a
<1>2. /\ e.state = "failed" /\ e.call = 0 /\ e.dlg = a.dlg
      /\ f.state = "unregistered" /\ f.call = 0 /\ f.dlg = a.dlg
  BY <1>1 DEF IsRegistry
<1>3. d \in [state : States, call : Nat, timeout : BOOLEAN, expire : BOOLEAN, attempts : Nat,
             nonce : Nat, seq : Nat, dlg : [DOMAIN a.dlg -> Dialogs], out : SUBSET Requests]
  BY <1>1 DEF IsRegistry
<1>4. {e, f} \subseteq [state : States, call : Nat, timeout : BOOLEAN, expire : BOOLEAN, attempts : Nat,
             nonce : Nat, seq : Nat, dlg : [DOMAIN a.dlg -> Dialogs], out : SUBSET Requests]
  BY <1>3, StateNames
<1>5. Keeps(f) /\ Good(e)
  BY <1>1, <1>2, <1>4, StateNames DEF Keeps, Good, IsRegistry, Consistent, GoesOn
<1>6. Good(Transmit(f, 0, resolved))
  BY <1>5, TransmitGood
<1>7. QED
  BY <1>5, <1>6 DEF TimedOut, a

\* A dialog is freed.
LEMMA UnlinkedGood ==
  ASSUME NEW c, Good(c), NEW id \in DOMAIN c.dlg
  PROVE  Good(Unlinked(c, id))
<1> DEFINE f == [i \in DOMAIN c.dlg \ {id} |-> c.dlg[i]]
           k == IF c.dlg[id].registry /\ c.call = id THEN 0 ELSE c.call
           d == [c EXCEPT !.call = k, !.dlg = f]
<1>1. Unlinked(c, id) = d
  BY DEF Unlinked
<1>2. /\ DOMAIN f \subseteq DOMAIN c.dlg /\ f \in [DOMAIN f -> Dialogs]
      /\ \A i \in DOMAIN f : f[i] = c.dlg[i] /\ i # id
      /\ \A i \in DOMAIN c.dlg : i # id => i \in DOMAIN f
  BY RegistryFields DEF Good, Keeps
<1>3. k \in Nat /\ (k # 0 => k = c.call /\ k # id) /\ (c.call # id => k = c.call)
  BY RegistryFields DEF Good, Keeps, Consistent
<1> HIDE DEF f, k
<1>4. d.call = k /\ d.dlg = f /\ d.state = c.state /\ d.timeout = c.timeout /\ d.expire = c.expire
  BY DEF Good, Keeps, IsRegistry
<1>5. d \in [state : States, call : Nat, timeout : BOOLEAN, expire : BOOLEAN, attempts : Nat,
             nonce : Nat, seq : Nat, dlg : [DOMAIN f -> Dialogs], out : SUBSET Requests]
  BY <1>2, <1>3, RegistryFields DEF Good, Keeps, IsRegistry
<1> HIDE DEF d
<1>6. IsRegistry(d)
  BY <1>2, <1>4, <1>5, RegistryFields DEF Good, Keeps, IsRegistry
<1>7. Consistent(d) /\ GoesOn(d)
  BY <1>2, <1>3, <1>4 DEF Good, Keeps, Consistent, GoesOn
<1>8. QED
  BY <1>1, <1>6, <1>7 DEF Good, Keeps

\* The packet of a dialog is acknowledged: from now on no dialog of the registry waits, and an
\* answer that is for the registry is for the call in use, of a registry that goes on.
Quiet(c) == \A i \in DOMAIN c.dlg : c.dlg[i].registry => c.dlg[i].pend = 0

LEMMA AckedGood ==
  ASSUME NEW c, Good(c), NEW id \in DOMAIN c.dlg
  PROVE  LET d == Acked(c, id)
         IN  /\ Good(d) /\ DOMAIN d.dlg = DOMAIN c.dlg
             /\ c.dlg[id].pend # 0 /\ d.dlg[id].registry =>
                  Quiet(d) /\ d.call = id /\ d.state \notin GivenUp /\ d.timeout
<1> DEFINE f == [c.dlg EXCEPT ![id].pend = 0]
           d == [c EXCEPT !.dlg = f]
<1>1. Acked(c, id) = d
  BY DEF Acked
<1>2. f \in [DOMAIN c.dlg -> Dialogs] /\ DOMAIN f = DOMAIN c.dlg
  BY RegistryFields, DialogWritten DEF Good, Keeps
<1>3. /\ \A i \in DOMAIN c.dlg : i # id => f[i] = c.dlg[i]
      /\ f[id].pend = 0 /\ f[id].registry = c.dlg[id].registry
  BY RegistryFields DEF Good, Keeps, Dialogs
<1> HIDE DEF f
<1>4. d.call = c.call /\ d.dlg = f /\ d.state = c.state /\ d.timeout = c.timeout /\ d.expire = c.expire
  BY DEF Good, Keeps, IsRegistry
<1>5. d \in [state : States, call : Nat, timeout : BOOLEAN, expire : BOOLEAN, attempts : Nat,
             nonce : Nat, seq : Nat, dlg : [DOMAIN f -> Dialogs], out : SUBSET Requests]
  BY <1>2, RegistryFields DEF Good, Keeps, IsRegistry
<1> HIDE DEF d
<1>6. IsRegistry(d)
  BY <1>2, <1>4, <1>5, RegistryFields DEF Good, Keeps, IsRegistry
<1>7. Consistent(d) /\ GoesOn(d)
  BY <1>2, <1>3, <1>4 DEF Good, Keeps, Consistent, GoesOn
<1>8. ASSUME c.dlg[id].pend # 0, c.dlg[id].registry
      PROVE  Quiet(d) /\ d.call = id /\ d.state \notin GivenUp /\ d.timeout
  <2>1. id \in Nat \ {0} /\ c.call = id /\ c.state \notin GivenUp /\ c.timeout
    BY <1>8, RegistryFields DEF Good, Keeps, Consistent
  <2>2. \A i \in DOMAIN c.dlg : i # id /\ c.dlg[i].registry => c.dlg[i].pend = 0
    BY <2>1 DEF Good, Keeps, Consistent
  <2>3. QED
    BY <1>2, <1>3, <1>4, <2>1, <2>2 DEF Quiet
<1>9. QED
  BY <1>1, <1>2, <1>3, <1>4, <1>6, <1>7, <1>8 DEF Good, Keeps

\* A dialog is to be destroyed.
LEMMA NeedDestroyed ==
  ASSUME NEW c, IsRegistry(c), NEW id \in DOMAIN c.dlg
  PROVE  LET d == NeedDestroy(c, id)
         IN  /\ IsRegistry(d) /\ DOMAIN d.dlg = DOMAIN c.dlg
             /\ \A i \in DOMAIN c.dlg :
                  d.dlg[i].pend = c.dlg[i].pend /\ d.dlg[i].registry = c.dlg[i].registry
             /\ d.call = c.call /\ d.state = c.state
             /\ d.timeout = c.timeout /\ d.expire = c.expire
<1> DEFINE f == [c.dlg EXCEPT ![id].need = TRUE]
           d == [c EXCEPT !.dlg = f]
<1>1. NeedDestroy(c, id) = d
  BY DEF NeedDestroy
<1>2. f \in [DOMAIN c.dlg -> Dialogs] /\ DOMAIN f = DOMAIN c.dlg
  BY RegistryFields, DialogWritten
<1>3. \A i \in DOMAIN c.dlg : f[i].pend = c.dlg[i].pend /\ f[i].registry = c.dlg[i].registry
  BY RegistryFields DEF Dialogs
<1> HIDE DEF f
<1>4. d.call = c.call /\ d.dlg = f /\ d.state = c.state /\ d.timeout = c.timeout /\ d.expire = c.expire
  BY DEF IsRegistry
<1>5. d \in [state : States, call : Nat, timeout : BOOLEAN, expire : BOOLEAN, attempts : Nat,
             nonce : Nat, seq : Nat, dlg : [DOMAIN f -> Dialogs], out : SUBSET Requests]
  BY <1>2, RegistryFields DEF IsRegistry
<1> HIDE DEF d
<1>6. IsRegistry(d)
  BY <1>2, <1>4, <1>5, RegistryFields DEF IsRegistry
<1>7. QED
  BY <1>1, <1>2, <1>3, <1>4, <1>6

LEMMA NeedDestroyGood ==
  ASSUME NEW c, Good(c), NEW id \in DOMAIN c.dlg
  PROVE  Good(NeedDestroy(c, id))
<1> DEFINE d == NeedDestroy(c, id)
<1>1. /\ IsRegistry(d) /\ DOMAIN d.dlg = DOMAIN c.dlg
      /\ \A i \in DOMAIN c.dlg :
           d.dlg[i].pend = c.dlg[i].pend /\ d.dlg[i].registry = c.dlg[i].registry
      /\ d.call = c.call /\ d.state = c.state
      /\ d.timeout = c.timeout /\ d.expire = c.expire
  BY NeedDestroyed DEF Good, Keeps
<1> HIDE DEF d
<1>2. Consistent(d) /\ GoesOn(d)
  BY <1>1 DEF Good, Keeps, Consistent, GoesOn
<1>3. Good(d)
  BY <1>1, <1>2 DEF Good, Keeps
<1>4. QED
  BY <1>3 DEF d

\* Whatever is written to a quiet registry that has no call and either gave up or will try
\* again.
LEMMA LetGo ==
  ASSUME NEW c, IsRegistry(c), Quiet(c), c.call = 0, c.state \notin InProgress, GoesOn(c)
  PROVE  Good(c)
  BY DEF Quiet, Consistent, Good, Keeps

\* 403
LEMMA ForbiddenGood ==
  ASSUME NEW c, Good(c), Quiet(c), NEW id \in DOMAIN c.dlg
  PROVE  Good(Forbidden(c, id))
<1>1. CASE Retry403
  <2> DEFINE d == [c EXCEPT !.nonce = 0]
  <2>1. d.call = c.call /\ d.dlg = c.dlg /\ d.state = c.state /\ d.timeout = c.timeout /\ d.expire = c.expire
    BY DEF Good, Keeps, IsRegistry
  <2>2. d \in [state : States, call : Nat, timeout : BOOLEAN, expire : BOOLEAN, attempts : Nat,
               nonce : Nat, seq : Nat, dlg : [DOMAIN c.dlg -> Dialogs], out : SUBSET Requests]
    BY RegistryFields DEF Good, Keeps, IsRegistry
  <2>3. QED
    BY <1>1, <2>1, <2>2 DEF Forbidden, Good, Keeps, IsRegistry, Consistent, GoesOn
<1>2. CASE ~Retry403
  <2> DEFINE d == [c EXCEPT !.timeout = FALSE, !.state = "noauth"]
  <2>1. d.call = c.call /\ d.dlg = c.dlg /\ d.state = "noauth"
    BY DEF Good, Keeps, IsRegistry
  <2>2. d \in [state : States, call : Nat, timeout : BOOLEAN, expire : BOOLEAN, attempts : Nat,
               nonce : Nat, seq : Nat, dlg : [DOMAIN c.dlg -> Dialogs], out : SUBSET Requests]
    BY RegistryFields, StateNames DEF Good, Keeps, IsRegistry
  <2> HIDE DEF d
  <2>3. Good(d)
    BY <2>1, <2>2, StateNames DEF Good, Keeps, IsRegistry, Consistent, GoesOn, Quiet
  <2>4. Good(NeedDestroy(d, id))
    BY <2>1, <2>3, NeedDestroyGood
  <2>5. QED
    BY <1>2, <2>4 DEF Forbidden, d
<1>3. QED
  BY <1>1, <1>2

\* 404 and its kin
LEMMA RejectedGood ==
  ASSUME NEW c, Good(c), Quiet(c), NEW id \in DOMAIN c.dlg
  PROVE  Good(Rejected(c, id))
<1> DEFINE d == [c EXCEPT !.call = 0, !.timeout = FALSE, !.state = "rejected"]
<1>1. d.call = 0 /\ d.dlg = c.dlg /\ d.state = "rejected"
  BY DEF Good, Keeps, IsRegistry
<1>2. d \in [state : States, call : Nat, timeout : BOOLEAN, expire : BOOLEAN, attempts : Nat,
             nonce : Nat, seq : Nat, dlg : [DOMAIN c.dlg -> Dialogs], out : SUBSET Requests]
  BY RegistryFields, StateNames DEF Good, Keeps, IsRegistry
<1> HIDE DEF d
<1>3. Good(d)
  BY <1>1, <1>2, StateNames, LetGo DEF Good, Keeps, IsRegistry, GoesOn, Quiet
<1>4. Good(NeedDestroy(d, id))
  BY <1>1, <1>3, NeedDestroyGood
<1>5. QED
  BY <1>4 DEF Rejected, d

\* 423
LEMMA TooBriefGood ==
  ASSUME NEW c, Good(c), Quiet(c), NEW id \in DOMAIN c.dlg, NEW high, NEW resolved
  PROVE  Good(TooBrief(c, id, high, resolved))
<1> DEFINE d == [c EXCEPT !.timeout = FALSE]
           e == IF d.call = 0 THEN d ELSE NeedDestroy([d EXCEPT !.call = 0], id)
<1>1. IsRegistry(e) /\ e.call = 0 /\ Quiet(e)
  <2>1. /\ d.dlg = c.dlg /\ IsRegistry(d) /\ [d EXCEPT !.call = 0].dlg = c.dlg
        /\ [d EXCEPT !.call = 0].call = 0 /\ IsRegistry([d EXCEPT !.call = 0])
    BY RegistryFields DEF Good, Keeps, IsRegistry
  <2> HIDE DEF d
  <2>2. CASE d.call = 0
    BY <2>1, <2>2 DEF Quiet
  <2>3. CASE d.call # 0
    <3> DEFINE g == [d EXCEPT !.call = 0]
               n == NeedDestroy(g, id)
    <3>1. /\ IsRegistry(n) /\ DOMAIN n.dlg = DOMAIN g.dlg /\ n.call = g.call
          /\ \A i \in DOMAIN g.dlg :
               n.dlg[i].pend = g.dlg[i].pend /\ n.dlg[i].registry = g.dlg[i].registry
      <4>1. IsRegistry(g) /\ id \in DOMAIN g.dlg
        BY <2>1
      <4> HIDE DEF g
      <4>2. QED
        BY <4>1, NeedDestroyed
    <3>2. g.dlg = c.dlg /\ g.call = 0 /\ e = n
      BY <2>1, <2>3
    <3> HIDE DEF g, n, e
    <3>3. QED
      BY <3>1, <3>2 DEF Quiet
  <2>4. QED
    BY <2>2, <2>3
<1> HIDE DEF e
<1>2. ASSUME NEW x \in {"rejected", "unregistered"}
      PROVE  LET f == [e EXCEPT !.state = x]
             IN  Keeps(f) /\ (x = "rejected" => Good(f))
  <2> DEFINE f == [e EXCEPT !.state = x]
  <2>1. f.state = x /\ f.call = 0 /\ f.dlg = e.dlg
    BY <1>1 DEF IsRegistry
  <2>2. x \in States /\ x \notin InProgress /\ (x = "rejected" => x \in GivenUp)
    BY StateNames
  <2>3. f \in [state : States, call : Nat, timeout : BOOLEAN, expire : BOOLEAN, attempts : Nat,
               nonce : Nat, seq : Nat, dlg : [DOMAIN e.dlg -> Dialogs], out : SUBSET Requests]
    BY <1>1, <2>2 DEF IsRegistry
  <2> HIDE DEF f
  <2>4. Keeps(f) /\ (x = "rejected" => Good(f))
    BY <1>1, <2>1, <2>2, <2>3 DEF Keeps, Good, IsRegistry, Consistent, GoesOn, Quiet
  <2>5. QED
    BY <2>4 DEF f
<1>3. Good(Transmit([e EXCEPT !.state = "unregistered"], 0, resolved))
  BY <1>2, TransmitGood
<1>4. TooBrief(c, id, high, resolved) =
        IF high THEN [e EXCEPT !.state = "rejected"]
        ELSE Transmit([e EXCEPT !.state = "unregistered"], 0, resolved)
  BY DEF TooBrief, e
<1>5. QED
  BY <1>2, <1>3, <1>4

\* 200
LEMMA RegisteredGood ==
  ASSUME NEW c, Good(c), Quiet(c), NEW id \in DOMAIN c.dlg
  PROVE  Good(Registered(c, id))
<1> DEFINE g == [c.dlg EXCEPT ![id].registry = FALSE]
           f == [g EXCEPT ![id].tries = 0]
           d == [c EXCEPT !.state = "registered", !.attempts = 0, !.timeout = FALSE, !.call = 0,
                          !.expire = TRUE, !.dlg = f]
<1>1. f \in [DOMAIN c.dlg -> Dialogs] /\ DOMAIN f = DOMAIN c.dlg
  <2>1. g \in [DOMAIN c.dlg -> Dialogs]
    BY RegistryFields, DialogWritten DEF Good, Keeps
  <2> HIDE DEF g
  <2>2. QED
    BY <2>1, DialogWritten
<1>2. \A i \in DOMAIN f : f[i].registry => f[i].pend = 0
  BY RegistryFields DEF Quiet, Good, Keeps, Dialogs
<1>3. Registered(c, id) = NeedDestroy(d, id)
  BY DEF Registered, Good, Keeps, IsRegistry
<1> HIDE DEF f
<1>4. d.call = 0 /\ d.dlg = f /\ d.state = "registered" /\ d.expire = TRUE
  BY DEF Good, Keeps, IsRegistry
<1>5. d \in [state : States, call : Nat, timeout : BOOLEAN, expire : BOOLEAN, attempts : Nat,
             nonce : Nat, seq : Nat, dlg : [DOMAIN f -> Dialogs], out : SUBSET Requests]
  BY <1>1, RegistryFields, StateNames DEF Good, Keeps, IsRegistry
<1> HIDE DEF d
<1>6. Good(d)
  BY <1>1, <1>2, <1>4, <1>5, RegistryFields, StateNames, LetGo DEF Good, Keeps, IsRegistry, GoesOn, Quiet
<1>7. QED
  BY <1>1, <1>3, <1>4, <1>6, NeedDestroyGood

\* 401 and 407
LEMMA ChallengedGood ==
  ASSUME NEW c, Good(c), NEW id \in DOMAIN c.dlg, c.call = id, c.timeout, NEW nonce \in Nat
  PROVE  Good(Challenged(c, id, nonce))
<1>1. CASE c.dlg[id].tries = MaxTries \/ nonce = 0
  BY <1>1, NeedDestroyGood DEF Challenged
<1>2. CASE ~(c.dlg[id].tries = MaxTries \/ nonce = 0)
  <2> DEFINE f == [c.dlg EXCEPT ![id].tries = @ + 1]
             d == [c EXCEPT !.dlg = f, !.nonce = nonce]
  <2>1. Challenged(c, id, nonce) = Transmit(d, nonce, TRUE)
    BY <1>2 DEF Challenged
  <2>2. f \in [DOMAIN c.dlg -> Dialogs] /\ DOMAIN f = DOMAIN c.dlg
    <3>1. c.dlg[id].tries + 1 \in Nat
      BY RegistryFields DEF Good, Keeps, Dialogs
    <3>2. QED
      BY <3>1, RegistryFields, DialogWritten DEF Good, Keeps
  <2>3. \A i \in DOMAIN c.dlg : f[i].pend = c.dlg[i].pend /\ f[i].registry = c.dlg[i].registry
    BY RegistryFields DEF Good, Keeps, Dialogs
  <2> HIDE DEF f
  <2>4. d.call = c.call /\ d.dlg = f /\ d.state = c.state /\ d.timeout = c.timeout /\ d.expire = c.expire
    BY DEF Good, Keeps, IsRegistry
  <2>5. d \in [state : States, call : Nat, timeout : BOOLEAN, expire : BOOLEAN, attempts : Nat,
               nonce : Nat, seq : Nat, dlg : [DOMAIN f -> Dialogs], out : SUBSET Requests]
    BY <2>2, RegistryFields DEF Good, Keeps, IsRegistry
  <2> HIDE DEF d
  <2>6. IsRegistry(d)
    BY <2>2, <2>4, <2>5, RegistryFields DEF Good, Keeps, IsRegistry
  <2>7. Consistent(d)
    BY <2>2, <2>3, <2>4 DEF Good, Keeps, Consistent, GoesOn
  <2>8. id # 0
    BY RegistryFields DEF Good, Keeps
  <2>9. QED
    BY <1>2, <2>1, <2>4, <2>6, <2>7, <2>8, TransmitAuthGood DEF Keeps
<1>3. QED
  BY <1>1, <1>2

\* Whatever answers a REGISTER, the registry goes on or has given up.
LEMMA AnsweredGood ==
  ASSUME NEW c, Good(c), NEW id \in DOMAIN c.dlg, c.dlg[id].pend # 0,
         NEW m \in Answers, NEW high, NEW resolved
  PROVE  Good(Answered(c, id, m, high, resolved))
<1> DEFINE d == Acked(c, id)
<1>1. /\ Good(d) /\ id \in DOMAIN d.dlg
      /\ d.dlg[id].registry => Quiet(d) /\ d.call = id /\ d.timeout
  BY AckedGood
<1>2. m.nonce \in Nat
  BY DEF Answers
<1>3. Answered(c, id, m, high, resolved) =
        CASE m.code = 200 -> IF d.dlg[id].registry THEN Registered(d, id) ELSE NeedDestroy(d, id)
          [] m.code \in {401, 407} ->
               IF d.dlg[id].registry THEN Challenged(d, id, m.nonce) ELSE NeedDestroy(d, id)
          [] m.code = 403 -> IF d.dlg[id].registry THEN Forbidden(d, id) ELSE NeedDestroy(d, id)
          [] m.code \in {400, 404} -> IF d.dlg[id].registry THEN Rejected(d, id) ELSE d
          [] m.code = 408 -> IF d.dlg[id].registry THEN [d EXCEPT !.attempts = 0] ELSE d
          [] m.code = 423 -> IF d.dlg[id].registry THEN TooBrief(d, id, high, resolved) ELSE d
          [] OTHER -> NeedDestroy(d, id)
  BY DEF Answered
<1> HIDE DEF d
<1>4. Good(NeedDestroy(d, id))
  BY <1>1, NeedDestroyGood
<1>5. Good([d EXCEPT !.attempts = 0])
  <2> DEFINE e == [d EXCEPT !.attempts = 0]
  <2>1. e.call = d.call /\ e.dlg = d.dlg /\ e.state = d.state /\ e.timeout = d.timeout /\ e.expire = d.expire
    BY <1>1 DEF Good, Keeps, IsRegistry
  <2>2. e \in [state : States, call : Nat, timeout : BOOLEAN, expire : BOOLEAN, attempts : Nat,
               nonce : Nat, seq : Nat, dlg : [DOMAIN d.dlg -> Dialogs], out : SUBSET Requests]
    BY <1>1, RegistryFields DEF Good, Keeps, IsRegistry
  <2> HIDE DEF e
  <2>3. Good(e)
    BY <1>1, <2>1, <2>2 DEF Good, Keeps, IsRegistry, Consistent, GoesOn
  <2>4. QED
    BY <2>3 DEF e
<1>6. d.dlg[id].registry =>
        /\ Good(Registered(d, id)) /\ Good(Challenged(d, id, m.nonce)) /\ Good(Forbidden(d, id))
        /\ Good(Rejected(d, id)) /\ Good(TooBrief(d, id, high, resolved))
  BY <1>1, <1>2, RegisteredGood, ChallengedGood, ForbiddenGood, RejectedGood, TooBriefGood
<1>7. QED
  BY <1>1, <1>3, <1>4, <1>5, <1>6

-----------------------------------------------------------------------------
(* The peer.                                                               *)

\* What authentication and what registration work on.
SameNonces(r, s) == s.used = r.used /\ s.fresh = r.fresh /\ s.sd = r.sd /\ s.twice = r.twice
SameEntry(r, s)  == s.kind = r.kind /\ s.known = r.known /\ s.db = r.db /\ s.expire = r.expire

GoodPeer(r) == r \in Peers /\ NoncesKept(r) /\ EntryKept(r)

LEMMA PeerFields ==
  ASSUME NEW r \in Peers
  PROVE  /\ r.kind \in Kinds /\ r.fault \in PeerFaults /\ r.qualify \in BOOLEAN /\ r.known \in BOOLEAN
         /\ r.addr \in Addresses /\ r.byip \in BOOLEAN /\ r.expire \in BOOLEAN
         /\ r.polled \in BOOLEAN /\ r.orphans \in {0, 1} /\ r.exten \in BOOLEAN /\ r.db \in Addresses
         /\ r.lastms \in {"unknown", "ok", "lagged", "unreachable"}
         /\ r.poke \in {"none", "now", "again", "noanswer"}
         /\ r.sd \in [alive : BOOLEAN, nonce : Nat, stale : BOOLEAN, icseq : Nat]
         /\ r.fresh \in Nat /\ r.used \in SUBSET Nat /\ r.twice \in BOOLEAN
         /\ r.forced \in BOOLEAN /\ r.out \in SUBSET Answers
  BY DEF Peers

LEMMA SameIsGood ==
  ASSUME NEW r, GoodPeer(r), NEW s \in Peers, SameNonces(r, s), SameEntry(r, s)
  PROVE  GoodPeer(s)
  BY DEF GoodPeer, SameNonces, SameEntry, NoncesKept, EntryKept

LEMMA ReplyGood ==
  ASSUME NEW r \in Peers, NEW a \in Answers
  PROVE  LET s == [r EXCEPT !.out = @ \cup {a}]
         IN  s \in Peers /\ SameNonces(r, s) /\ SameEntry(r, s) /\ s.fault = r.fault
<1>1. r.out \cup {a} \in SUBSET Answers
  BY PeerFields
<1>2. QED
  BY <1>1 DEF Peers, SameNonces, SameEntry

\* Qualify touches neither.
LEMMA NoAnswerSame ==
  ASSUME NEW r \in Peers
  PROVE  LET s == NoAnswer(r)
         IN  s \in Peers /\ SameNonces(r, s) /\ SameEntry(r, s) /\ s.addr = r.addr
<1>1. NoAnswer(r) \in Peers
  BY DEF Peers, NoAnswer
<1>2. QED
  BY <1>1 DEF Peers, NoAnswer, SameNonces, SameEntry

LEMMA PokePeerSame ==
  ASSUME NEW r \in Peers, NEW force \in BOOLEAN, NEW error \in BOOLEAN
  PROVE  LET s == PokePeer(r, force, error)
         IN  s \in Peers /\ SameNonces(r, s) /\ SameEntry(r, s) /\ s.addr = r.addr
<1> DEFINE o  == IF r.polled THEN 1 ELSE r.orphans
           s1 == [r EXCEPT !.poke = "none", !.lastms = "unknown", !.polled = FALSE,
                           !.orphans = o]
           s2 == [NoAnswer(r) EXCEPT !.forced = FALSE]
           s3 == Poked(r, force)
<1>1. s1 \in Peers /\ SameNonces(r, s1) /\ SameEntry(r, s1) /\ s1.addr = r.addr
  <2>1. o \in {0, 1}
    BY PeerFields
  <2> HIDE DEF o
  <2>2. s1 \in Peers
    BY <2>1 DEF Peers
  <2>3. QED
    BY <2>2 DEF Peers, SameNonces, SameEntry
<1>2. s2 \in Peers /\ SameNonces(r, s2) /\ SameEntry(r, s2) /\ s2.addr = r.addr
  <2> DEFINE n == NoAnswer(r)
  <2>1. n \in Peers /\ SameNonces(r, n) /\ SameEntry(r, n) /\ n.addr = r.addr
    BY NoAnswerSame
  <2> HIDE DEF n
  <2>2. [n EXCEPT !.forced = FALSE] \in Peers
    BY <2>1 DEF Peers
  <2>3. /\ SameNonces(r, [n EXCEPT !.forced = FALSE]) /\ SameEntry(r, [n EXCEPT !.forced = FALSE])
        /\ [n EXCEPT !.forced = FALSE].addr = n.addr
    BY <2>1 DEF Peers, SameNonces, SameEntry
  <2>4. QED
    BY <2>1, <2>2, <2>3 DEF n
<1>3. s3 \in Peers /\ SameNonces(r, s3) /\ SameEntry(r, s3) /\ s3.addr = r.addr
  <2>1. (IF force THEN "none" ELSE "noanswer") \in {"none", "now", "again", "noanswer"}
    OBVIOUS
  <2>2. s3 \in Peers
    BY <2>1 DEF Peers, Poked
  <2>3. QED
    BY <2>2 DEF Peers, Poked, SameNonces, SameEntry
<1> HIDE DEF s1, s2, s3
<1>4. PokePeer(r, force, error) \in {s1, s2, s3}
  BY DEF PokePeer, s1, s2, s3
<1>5. QED
  BY <1>1, <1>2, <1>3, <1>4

LEMMA PokeAnsweredSame ==
  ASSUME NEW r \in Peers, NEW lag \in BOOLEAN
  PROVE  LET s == PokeAnswered(r, lag)
         IN  s \in Peers /\ SameNonces(r, s) /\ SameEntry(r, s)
<1> DEFINE o == IF r.polled THEN 1 ELSE r.orphans
           l == IF lag THEN "lagged" ELSE "ok"
           s == [r EXCEPT !.lastms = l, !.polled = FALSE, !.poke = "again", !.forced = FALSE,
                          !.orphans = o]
<1>1. o \in {0, 1} /\ l \in {"unknown", "ok", "lagged", "unreachable"}
  BY PeerFields
<1>2. PokeAnswered(r, lag) \in {r, s}
  BY DEF PokeAnswered
<1> HIDE DEF o, l
<1>3. s \in Peers
  BY <1>1 DEF Peers
<1>4. SameNonces(r, s) /\ SameEntry(r, s)
  BY DEF Peers, SameNonces, SameEntry
<1>5. QED
  BY <1>2, <1>3, <1>4 DEF SameNonces, SameEntry

\* A registration that ends takes its entry with it.
LEMMA ExpireGood ==
  ASSUME NEW r, GoodPeer(r)
  PROVE  GoodPeer(ExpireRegister(r)) /\ ExpireRegister(r).kind = r.kind
<1> DEFINE k == r.kind = "static"
           s == [r EXCEPT !.db = "none", !.expire = FALSE, !.exten = FALSE, !.known = k,
                          !.byip = FALSE, !.addr = "none"]
<1>1. ExpireRegister(r) = s
  BY DEF ExpireRegister, DestroyAssociation
<1>2. k \in BOOLEAN /\ "none" \in Addresses
  BY DEF Addresses
<1>3. s \in Peers
  <2> HIDE DEF k
  <2>1. QED
    BY <1>2 DEF GoodPeer, Peers
<1>4. s.kind = r.kind /\ s.known = k /\ s.expire = FALSE /\ s.db = "none" /\ SameNonces(r, s)
  BY DEF GoodPeer, Peers, SameNonces
<1> HIDE DEF s
<1>5. NoncesKept(s) /\ EntryKept(s)
  BY <1>4 DEF GoodPeer, SameNonces, NoncesKept, EntryKept
<1>6. QED
  BY <1>1, <1>3, <1>4, <1>5 DEF GoodPeer

\* A peer that is built: from the database, from sip.conf, for a registration.
LEMMA FreshSame ==
  ASSUME NEW r \in Peers
  PROVE  LET s == Fresh(r)
         IN  /\ s \in Peers /\ SameNonces(r, s) /\ s.known = TRUE
             /\ s.kind = r.kind /\ s.db = r.db /\ s.expire = r.expire
<1>1. "none" \in Addresses
  BY DEF Addresses
<1>2. Fresh(r) \in Peers
  BY <1>1 DEF Peers, Fresh
<1>3. QED
  BY <1>2 DEF Peers, Fresh, SameNonces

LEMMA LinkByIpSame ==
  ASSUME NEW r \in Peers
  PROVE  LET s == LinkByIp(r)
         IN  s \in Peers /\ SameNonces(r, s) /\ SameEntry(r, s) /\ s.addr = r.addr
<1> DEFINE b == r.addr # "none"
<1>1. b \in BOOLEAN
  OBVIOUS
<1>2. LinkByIp(r) = [r EXCEPT !.byip = b]
  BY DEF LinkByIp
<1> HIDE DEF b
<1>3. [r EXCEPT !.byip = b] \in Peers
  BY <1>1 DEF Peers
<1>4. QED
  BY <1>2, <1>3 DEF Peers, SameNonces, SameEntry

LEMMA SourceDbSame ==
  ASSUME NEW r \in Peers
  PROVE  LET s == SourceDb(r)
         IN  /\ s \in Peers /\ SameNonces(r, s)
             /\ s.kind = r.kind /\ s.known = r.known /\ s.db = r.db
             /\ (s.expire <=> r.expire \/ r.db # "none")
<1>1. CASE r.db = "none"
  BY <1>1 DEF SourceDb, SameNonces
<1>2. CASE r.db # "none"
  <2> DEFINE p == IF r.qualify THEN "again" ELSE r.poke
             s == [r EXCEPT !.addr = r.db, !.exten = TRUE, !.poke = p, !.expire = TRUE]
  <2>1. p \in {"none", "now", "again", "noanswer"}
    BY PeerFields
  <2>2. SourceDb(r) = s
    BY <1>2 DEF SourceDb
  <2> HIDE DEF p
  <2>3. s \in Peers
    BY <2>1, PeerFields DEF Peers
  <2>4. /\ SameNonces(r, s) /\ s.kind = r.kind /\ s.known = r.known /\ s.db = r.db
        /\ s.expire = TRUE
    BY DEF Peers, SameNonces
  <2>5. QED
    BY <1>2, <2>2, <2>3, <2>4
<1>3. QED
  BY <1>1, <1>2

LEMMA FindPeerGood ==
  ASSUME NEW r, GoodPeer(r), NEW old \in BOOLEAN
  PROVE  LET s == FindPeer(r, old)
         IN  GoodPeer(s) /\ s.kind = r.kind /\ (s.kind = "auto" => s.known = r.known)
<1> DEFINE s == Fresh(r)
           t1 == [DestroyAssociation(s) EXCEPT !.lastms = "unreachable"]
           t2 == [s EXCEPT !.addr = r.db, !.poke = "now"]
           t == IF old THEN t1 ELSE t2
           e == [t EXCEPT !.expire = TRUE]
           p == LinkByIp(e)
<1>1. s \in Peers /\ SameNonces(r, s) /\ s.kind = r.kind
  BY FreshSame DEF GoodPeer
<1>2. r.db \in Addresses /\ "none" \in Addresses
  BY PeerFields DEF GoodPeer, Addresses
<1> HIDE DEF s
<1>3. t1 \in Peers /\ SameNonces(r, t1) /\ t1.kind = r.kind
  <2>1. DestroyAssociation(s) \in Peers
    BY <1>1, <1>2 DEF Peers, DestroyAssociation
  <2>2. SameNonces(s, DestroyAssociation(s)) /\ DestroyAssociation(s).kind = s.kind
    BY <1>1 DEF Peers, DestroyAssociation, SameNonces
  <2> DEFINE u == DestroyAssociation(s)
  <2> HIDE DEF u
  <2>3. u \in Peers => /\ [u EXCEPT !.lastms = "unreachable"] \in Peers
                       /\ SameNonces(u, [u EXCEPT !.lastms = "unreachable"])
                       /\ [u EXCEPT !.lastms = "unreachable"].kind = u.kind
    BY DEF Peers, SameNonces
  <2>4. QED
    BY <1>1, <2>1, <2>2, <2>3 DEF SameNonces, u
<1>4. t2 \in Peers /\ SameNonces(r, t2) /\ t2.kind = r.kind
  <2>1. t2 \in Peers
    BY <1>1, <1>2 DEF Peers
  <2>2. QED
    BY <1>1, <2>1 DEF Peers, SameNonces
<1> HIDE DEF t1, t2
<1>5. t \in Peers /\ SameNonces(r, t) /\ t.kind = r.kind
  BY <1>3, <1>4
<1> HIDE DEF t
<1>6. e \in Peers /\ SameNonces(r, e) /\ e.kind = r.kind
  <2>1. e \in Peers
    BY <1>5 DEF Peers
  <2>2. QED
    BY <1>5, <2>1 DEF Peers, SameNonces
<1> HIDE DEF e
<1>7. p \in Peers /\ SameNonces(r, p) /\ p.kind = r.kind
  BY <1>6, LinkByIpSame DEF SameNonces, SameEntry
<1> HIDE DEF p
<1>8. CASE r.kind = "cached" /\ ~r.known
  <2>1. FindPeer(r, old) = p
    BY <1>8 DEF FindPeer, RealtimePeer, p, e, t, t1, t2, s
  <2>2. NoncesKept(p) /\ EntryKept(p)
    BY <1>7, <1>8 DEF GoodPeer, NoncesKept, EntryKept, SameNonces
  <2>3. QED
    BY <1>7, <1>8, <2>1, <2>2 DEF GoodPeer
<1>9. CASE ~(r.kind = "cached" /\ ~r.known)
  BY <1>9 DEF FindPeer
<1>10. QED
  BY <1>8, <1>9

LEMMA TempPeerGood ==
  ASSUME NEW r, GoodPeer(r), r.kind = "auto", ~r.known
  PROVE  GoodPeer(TempPeer(r)) /\ TempPeer(r).known
<1> DEFINE s == Fresh(r)
           t == SourceDb(s)
           p == LinkByIp(t)
<1>1. /\ s \in Peers /\ SameNonces(r, s) /\ s.known = TRUE
      /\ s.kind = "auto" /\ s.db = r.db /\ s.expire = r.expire
  BY FreshSame DEF GoodPeer
<1>2. r.expire = FALSE
  BY PeerFields DEF GoodPeer, EntryKept
<1> HIDE DEF s
<1>3. /\ t \in Peers /\ SameNonces(s, t) /\ t.kind = "auto" /\ t.known = TRUE /\ t.db = r.db
      /\ (t.expire <=> r.db # "none")
  BY <1>1, <1>2, SourceDbSame
<1> HIDE DEF t
<1>4. p \in Peers /\ SameNonces(t, p) /\ SameEntry(t, p)
  BY <1>3, LinkByIpSame
<1> HIDE DEF p
<1>5. NoncesKept(p) /\ EntryKept(p) /\ p.known
  BY <1>1, <1>3, <1>4 DEF GoodPeer, NoncesKept, EntryKept, SameNonces, SameEntry
<1>6. TempPeer(r) = p
  BY DEF TempPeer, p, t, s
<1>7. QED
  BY <1>4, <1>5, <1>6 DEF GoodPeer

\* A peer of sip.conf takes the state of its entry.  The peer it is built from: the one there was,
\* or a new one.
LEMMA BuiltGood ==
  ASSUME NEW r \in Peers, NoncesKept(r), r.kind = "static", r.known,
         r.db = "none" => ~r.expire
  PROVE  GoodPeer(Built(r))
<1> DEFINE s == SourceDb(r)
           t == LinkByIp(s)
<1>1. /\ s \in Peers /\ SameNonces(r, s) /\ s.kind = "static" /\ s.known = r.known
      /\ s.db = r.db /\ (s.expire <=> r.db # "none")
  BY SourceDbSame
<1> HIDE DEF s
<1>2. t \in Peers /\ SameNonces(s, t) /\ SameEntry(s, t)
  BY <1>1, LinkByIpSame
<1> HIDE DEF t
<1>3. GoodPeer(t)
  BY <1>1, <1>2 DEF GoodPeer, NoncesKept, EntryKept, SameNonces, SameEntry
<1>4. [t EXCEPT !.poke = "again"] \in Peers
  BY <1>2 DEF Peers
<1>5. SameNonces(t, [t EXCEPT !.poke = "again"]) /\ SameEntry(t, [t EXCEPT !.poke = "again"])
  BY <1>2 DEF Peers, SameNonces, SameEntry
<1>6. GoodPeer([t EXCEPT !.poke = "again"])
  BY <1>3, <1>4, <1>5, SameIsGood
<1>7. Built(r) = IF t.qualify THEN [t EXCEPT !.poke = "again"] ELSE t
  BY DEF Built, t, s
<1>8. QED
  BY <1>3, <1>6, <1>7

\* A code of an answer that carries no nonce.
LEMMA ReplySame ==
  ASSUME NEW r \in Peers, NEW m \in Requests, NEW code \in Nat
  PROVE  LET s == Reply(r, m, code)
         IN  s \in Peers /\ SameNonces(r, s) /\ SameEntry(r, s) /\ (GoodPeer(r) => GoodPeer(s))
<1>1. Answer(m.seq, code, 0) \in Answers
  BY DEF Requests, Answers, Answer
<1>2. Reply(r, m, code) = [r EXCEPT !.out = @ \cup {Answer(m.seq, code, 0)}]
  BY DEF Reply
<1>3. LET s == Reply(r, m, code) IN s \in Peers /\ SameNonces(r, s) /\ SameEntry(r, s)
  BY <1>1, <1>2, ReplyGood
<1>4. QED
  BY <1>3, SameIsGood

\* A contact that is refused may have become the address: the entry in the database is not touched.
LEMMA SetAddressSame ==
  ASSUME NEW r \in Peers, NEW contact \in {"ua", "denied", "lost"}
  PROVE  LET s == SetAddress(r, contact)
         IN  /\ s \in Peers /\ SameNonces(r, s) /\ SameEntry(r, s)
             /\ contact # "lost" => s.addr = contact
<1> DEFINE s == [r EXCEPT !.byip = FALSE]
           t == [s EXCEPT !.addr = contact]
<1>1. s \in Peers /\ SameNonces(r, s) /\ SameEntry(r, s)
  BY DEF Peers, SameNonces, SameEntry
<1>2. contact # "lost" => t \in Peers /\ SameNonces(r, t) /\ SameEntry(r, t) /\ t.addr = contact
  <2>1. contact # "lost" => contact \in Addresses
    BY DEF Addresses
  <2> HIDE DEF s
  <2>2. contact # "lost" => t \in Peers
    BY <1>1, <2>1 DEF Peers
  <2>3. t.addr = contact /\ SameNonces(s, t) /\ SameEntry(s, t)
    BY <1>1 DEF Peers, SameNonces, SameEntry
  <2>4. QED
    BY <1>1, <2>2, <2>3 DEF SameNonces, SameEntry
<1>3. SetAddress(r, contact) = IF contact = "lost" THEN s ELSE t
  BY DEF SetAddress
<1> HIDE DEF s, t
<1>4. QED
  BY <1>1, <1>2, <1>3

\* A binding is stored with its timer.
LEMMA BindGood ==
  ASSUME NEW r \in Peers, NoncesKept(r), r.addr # "none", r.known \/ r.kind = "cached",
         NEW m, NEW error \in BOOLEAN
  PROVE  GoodPeer(Bind(r, m, error))
<1> DEFINE l == LinkByIp(r)
           b == [l EXCEPT !.expire = TRUE, !.db = r.addr]
           p == PokePeer(b, FALSE, error)
           e == [p EXCEPT !.exten = TRUE]
<1>1. l \in Peers /\ SameNonces(r, l) /\ SameEntry(r, l) /\ r.addr \in Addresses
  BY LinkByIpSame, PeerFields
<1> HIDE DEF l
<1>2. b \in Peers /\ SameNonces(r, b) /\ b.kind = r.kind /\ b.known = r.known /\ b.expire = TRUE /\ b.db = r.addr
  <2>1. b \in Peers
    BY <1>1 DEF Peers
  <2>2. QED
    BY <1>1, <2>1 DEF Peers, SameNonces, SameEntry
<1> HIDE DEF b
<1>3. p \in Peers /\ SameNonces(b, p) /\ SameEntry(b, p)
  BY <1>2, PokePeerSame
<1> HIDE DEF p
<1>4. e \in Peers /\ SameNonces(p, e) /\ SameEntry(p, e)
  <2>1. e \in Peers
    BY <1>3 DEF Peers
  <2>2. QED
    BY <1>3, <2>1 DEF Peers, SameNonces, SameEntry
<1> HIDE DEF e
<1>5. NoncesKept(e) /\ EntryKept(e)
  BY <1>2, <1>3, <1>4 DEF NoncesKept, EntryKept, SameNonces, SameEntry
<1>6. Bind(r, m, error) = e
  BY DEF Bind, e, p, b, l
<1>7. QED
  BY <1>4, <1>5, <1>6 DEF GoodPeer

\* A peer that may be created for a registration exists by now.
LEMMA ParseContactGood ==
  ASSUME NEW r, GoodPeer(r), r.known \/ r.kind = "cached",
         NEW m \in Requests, NEW error \in BOOLEAN, NEW denied \in {403, 603}
  PROVE  GoodPeer(ParseContact(r, m, error, denied))
<1> DEFINE s == SetAddress(r, m.contact)
<1>1. r \in Peers /\ m.contact \in Contacts
  BY DEF GoodPeer, Requests
<1>2. m.contact \in {"stars", "none"} \/ m.contact \in {"ua", "denied", "lost"}
  BY <1>1 DEF Contacts
<1>3. CASE m.contact = "stars" \/ m.off \/ m.contact = "none"
  <2>1. GoodPeer(Reply(r, m, 400)) /\ GoodPeer(Reply(r, m, 200))
    BY <1>1, ReplySame
  <2>2. GoodPeer(Reply(ExpireRegister(r), m, 200))
    BY ExpireGood, ReplySame DEF GoodPeer
  <2>3. QED
    BY <1>3, <2>1, <2>2 DEF ParseContact
<1>4. CASE ~(m.contact = "stars" \/ m.off \/ m.contact = "none")
  <2>1. m.contact \in {"ua", "denied", "lost"}
    BY <1>2, <1>4
  <2>2. s \in Peers /\ SameNonces(r, s) /\ SameEntry(r, s) /\ (m.contact # "lost" => s.addr = m.contact)
    BY <1>1, <2>1, SetAddressSame
  <2> HIDE DEF s
  <2>4. GoodPeer(s)
    BY <2>2, SameIsGood
  <2>5. GoodPeer(Reply(s, m, 400)) /\ GoodPeer(Reply(s, m, denied))
    BY <2>2, <2>4, ReplySame
  <2>6. CASE m.contact = "ua"
    <3>1. NoncesKept(s)
      BY <2>2 DEF GoodPeer, NoncesKept, SameNonces
    <3>2. s.addr # "none"
      BY <2>2, <2>6
    <3>3. GoodPeer(Bind(s, m, error))
      BY <2>2, <3>1, <3>2, BindGood DEF SameEntry
    <3>4. GoodPeer(Reply(Bind(s, m, error), m, 200))
      BY <3>3, ReplySame DEF GoodPeer
    <3>5. QED
      BY <1>4, <2>6, <3>4 DEF ParseContact, s
  <2>7. CASE m.contact \in {"denied", "lost"}
    BY <1>4, <2>5, <2>7 DEF ParseContact, s
  <2>8. QED
    BY <2>1, <2>6, <2>7
<1>5. QED
  BY <1>3, <1>4

\* Authentication.  A nonce that is given is a new one.
LEMMA BuildNonceGood ==
  ASSUME NEW r, GoodPeer(r), NEW force
  PROVE  GoodPeer(BuildNonce(r, force)) /\ SameEntry(r, BuildNonce(r, force))
<1> DEFINE n == r.fresh + 1
           d == [[r.sd EXCEPT !.nonce = n] EXCEPT !.stale = FALSE]
           s == [r EXCEPT !.fresh = n, !.sd = d]
<1>1. n \in Nat /\ n = r.fresh + 1 /\ r.fresh \in Nat
  BY PeerFields DEF GoodPeer
<1>2. BuildNonce(r, force) \in {r, s}
  BY DEF BuildNonce, GoodPeer, Peers
<1> HIDE DEF n
<1>3. d \in [alive : BOOLEAN, nonce : Nat, stale : BOOLEAN, icseq : Nat] /\ d.nonce = n
  BY <1>1, PeerFields DEF GoodPeer
<1> HIDE DEF d
<1>4. s \in Peers
  BY <1>1, <1>3 DEF GoodPeer, Peers
<1>5. s.fresh = n /\ s.sd = d /\ s.used = r.used /\ s.twice = r.twice /\ SameEntry(r, s)
  BY DEF GoodPeer, Peers, SameEntry
<1> HIDE DEF s
<1>6. NoncesKept(s) /\ EntryKept(s)
  BY <1>1, <1>3, <1>5 DEF GoodPeer, NoncesKept, EntryKept, SameEntry
<1>7. QED
  BY <1>2, <1>4, <1>5, <1>6 DEF GoodPeer, SameEntry

LEMMA ChallengeGood ==
  ASSUME NEW r, GoodPeer(r), NEW m \in Requests
  PROVE  GoodPeer(Challenge(r, m)) /\ SameEntry(r, Challenge(r, m))
<1>1. Answer(m.seq, 401, r.sd.nonce) \in Answers
  <2>1. m.seq \in Nat \ {0} /\ r.sd.nonce \in Nat
    BY PeerFields DEF GoodPeer, Requests
  <2>2. QED
    BY <2>1 DEF Answers, Answer
<1>2. QED
  BY <1>1, ReplyGood, SameIsGood DEF Challenge, GoodPeer

LEMMA AcceptGood ==
  ASSUME NEW r, GoodPeer(r), NEW m \in Requests, m.nonce = r.sd.nonce, ~r.sd.stale, m.nonce # 0
  PROVE  GoodPeer(Accept(r, m)) /\ SameEntry(r, Accept(r, m))
<1> DEFINE d == [r.sd EXCEPT !.stale = TRUE]
           u == r.used \cup {m.nonce}
           t == r.twice \/ m.nonce \in r.used
           s == [r EXCEPT !.sd = d, !.used = u, !.twice = t]
<1>1. Accept(r, m) = s
  BY DEF Accept
<1>2. /\ r.used \in SUBSET Nat /\ r.fresh \in Nat /\ m.nonce \in Nat /\ r.sd.nonce <= r.fresh
      /\ m.nonce \notin r.used /\ ~r.twice /\ r.used \subseteq 1 .. r.fresh /\ r.twice \in BOOLEAN
  BY PeerFields DEF GoodPeer, NoncesKept, Requests
<1>3. d \in [alive : BOOLEAN, nonce : Nat, stale : BOOLEAN, icseq : Nat] /\ d.nonce = r.sd.nonce /\ d.stale = TRUE
  BY PeerFields DEF GoodPeer
<1>4. u \in SUBSET Nat /\ u \subseteq 1 .. r.fresh /\ t = FALSE
  BY <1>2
<1> HIDE DEF d, u, t
<1>5. s \in Peers
  BY <1>3, <1>4 DEF GoodPeer, Peers
<1>6. s.fresh = r.fresh /\ s.sd = d /\ s.used = u /\ s.twice = t /\ SameEntry(r, s)
  BY DEF GoodPeer, Peers, SameEntry
<1> HIDE DEF s
<1>7. NoncesKept(s) /\ EntryKept(s)
  BY <1>2, <1>3, <1>4, <1>6 DEF GoodPeer, NoncesKept, EntryKept, SameEntry
<1>8. QED
  BY <1>1, <1>5, <1>6, <1>7 DEF GoodPeer

\* A nonce that is built, and given.
LEMMA AskedGood ==
  ASSUME NEW r, GoodPeer(r), NEW m \in Requests, NEW force
  PROVE  LET s == Challenge(BuildNonce(r, force), m) IN GoodPeer(s) /\ SameEntry(r, s)
<1> DEFINE b == BuildNonce(r, force)
<1>1. GoodPeer(b) /\ SameEntry(r, b)
  BY BuildNonceGood
<1> HIDE DEF b
<1>2. GoodPeer(Challenge(b, m)) /\ SameEntry(b, Challenge(b, m))
  BY <1>1, ChallengeGood
<1>3. QED
  BY <1>1, <1>2 DEF SameEntry, b

LEMMA CheckAuthGood ==
  ASSUME NEW r, GoodPeer(r), NEW m \in Requests, NEW ignore, NEW good
  PROVE  LET a == CheckAuth(r, m, ignore, good) IN GoodPeer(a[1]) /\ SameEntry(r, a[1])
<1> DEFINE a == CheckAuth(r, m, ignore, good)
           i == ~(ignore /\ r.sd.nonce # 0 /\ m.nonce = 0)
<1>1. GoodPeer(r) /\ SameEntry(r, r)
  BY DEF SameEntry
<1>2. /\ GoodPeer(Challenge(r, m)) /\ SameEntry(r, Challenge(r, m))
      /\ \A f \in BOOLEAN : LET s == Challenge(BuildNonce(r, f), m) IN GoodPeer(s) /\ SameEntry(r, s)
  BY ChallengeGood, AskedGood
<1>3. CASE r.fault = "open"
  BY <1>1, <1>3 DEF CheckAuth
<1>4. CASE r.fault # "open" /\ (r.sd.nonce = 0 \/ m.nonce = 0)
  <2>1. a[1] = Challenge(BuildNonce(r, i), m)
    BY <1>4 DEF CheckAuth
  <2>2. i \in BOOLEAN
    OBVIOUS
  <2> HIDE DEF i, a
  <2>3. QED
    BY <1>2, <2>1, <2>2 DEF a
<1>5. CASE r.fault = "username" /\ ~(r.sd.nonce = 0 \/ m.nonce = 0)
  BY <1>1, <1>5 DEF CheckAuth
<1>6. CASE r.fault \notin {"open", "username"} /\ ~(r.sd.nonce = 0 \/ m.nonce = 0)
           /\ (m.nonce # r.sd.nonce \/ r.sd.stale)
  <2>1. a[1] = Challenge(IF good THEN BuildNonce(r, FALSE)
                         ELSE IF ignore THEN r ELSE BuildNonce(r, TRUE), m)
    BY <1>6 DEF CheckAuth
  <2> HIDE DEF a
  <2>2. QED
    BY <1>2, <2>1 DEF a
<1>7. CASE r.fault \notin {"open", "username"} /\ ~(r.sd.nonce = 0 \/ m.nonce = 0)
           /\ ~(m.nonce # r.sd.nonce \/ r.sd.stale)
  <2>1. a[1] = Accept(r, m)
    BY <1>7 DEF CheckAuth
  <2>2. QED
    BY <1>7, <2>1, AcceptGood
<1>8. QED
  BY <1>3, <1>4, <1>5, <1>6, <1>7

LEMMA RefuseGood ==
  ASSUME NEW r, GoodPeer(r), NEW m \in Requests, NEW ignore, NEW code \in Nat
  PROVE  GoodPeer(Refuse(r, m, ignore, code))
<1> DEFINE i == ~(ignore /\ r.sd.nonce # 0 /\ m.nonce = 0)
<1>1. GoodPeer(Reply(r, m, code)) /\ GoodPeer(Reply(r, m, 403)) /\ GoodPeer(Challenge(r, m))
  BY ReplySame, ChallengeGood DEF GoodPeer
<1>2. GoodPeer(Challenge(BuildNonce(r, i), m)) /\ GoodPeer(Challenge(BuildNonce(r, TRUE), m))
  BY AskedGood
<1>3. GoodPeer(FakeAuth(r, m, ignore))
  <2>1. FakeAuth(r, m, ignore) \in {Challenge(BuildNonce(r, i), m), Challenge(r, m),
                                    Challenge(BuildNonce(r, TRUE), m), Reply(r, m, 403)}
    BY DEF FakeAuth
  <2>2. QED
    BY <1>1, <1>2, <2>1, ZenonT(40)
<1>4. QED
  BY <1>1, <1>3 DEF Refuse

LEMMA VerifyGood ==
  ASSUME NEW r, GoodPeer(r), r.known \/ r.kind = "cached", NEW m \in Requests, NEW ignore,
         NEW error \in BOOLEAN
  PROVE  GoodPeer(Verify(r, m, ignore, error))
<1> DEFINE a == CheckAuth(r, m, ignore, r.fault # "secret")
<1>1. GoodPeer(a[1]) /\ SameEntry(r, a[1])
  BY CheckAuthGood
<1>2. Verify(r, m, ignore, error) \in
        {a[1], Reply(a[1], m, 403), Refuse(a[1], m, ignore, 404), ParseContact(a[1], m, error, 603)}
  BY DEF Verify
<1> HIDE DEF a
<1>3. GoodPeer(Reply(a[1], m, 403))
  BY <1>1, ReplySame DEF GoodPeer
<1>4. GoodPeer(Refuse(a[1], m, ignore, 404))
  BY <1>1, RefuseGood
<1>5. GoodPeer(ParseContact(a[1], m, error, 603))
  BY <1>1, ParseContactGood DEF SameEntry
<1>6. QED
  BY <1>1, <1>2, <1>3, <1>4, <1>5

LEMMA RegisterVerifyGood ==
  ASSUME NEW r, GoodPeer(r), NEW m \in Requests, NEW ignore,
         NEW old \in BOOLEAN, NEW error \in BOOLEAN
  PROVE  GoodPeer(RegisterVerify(r, m, ignore, old, error))
<1> DEFINE f == FindPeer(r, old)
           a == CheckAuth(r, m, ignore, FALSE)
<1>1. GoodPeer(f) /\ f.kind = r.kind /\ (f.kind = "auto" => f.known = r.known)
  BY FindPeerGood
<1>2. GoodPeer(a[1])
  BY CheckAuthGood
<1> HIDE DEF f, a
<1>3. /\ GoodPeer(Reply(r, m, 200)) /\ GoodPeer(Reply(a[1], m, 403)) /\ GoodPeer(Reply(r, m, 404))
      /\ GoodPeer(Refuse(f, m, ignore, 404)) /\ GoodPeer(Refuse(f, m, ignore, 403))
  BY <1>1, <1>2, ReplySame, RefuseGood DEF GoodPeer
<1>4. CASE (ignore /\ m.off) \/ r.fault \in {"unknown", "acl", "notdynamic"}
  <2>1. RegisterVerify(r, m, ignore, old, error) \in
          {Reply(r, m, 200), Reply(a[1], m, 403), a[1], Reply(r, m, 404),
           Refuse(f, m, ignore, 404), Refuse(f, m, ignore, 403)}
    <3>1. CASE ignore /\ m.off
      BY <3>1 DEF RegisterVerify
    <3>2. CASE ~(ignore /\ m.off) /\ r.fault = "unknown"
      BY <3>2 DEF RegisterVerify, a
    <3>3. CASE ~(ignore /\ m.off) /\ r.fault = "acl"
      BY <3>3 DEF RegisterVerify, f
    <3>4. CASE ~(ignore /\ m.off) /\ r.fault = "notdynamic"
      BY <3>4 DEF RegisterVerify, f
    <3>5. QED
      BY <1>4, <3>1, <3>2, <3>3, <3>4
  <2>2. QED
    BY <1>2, <1>3, <2>1
<1>5. CASE ~((ignore /\ m.off) \/ r.fault \in {"unknown", "acl", "notdynamic"}) /\ r.kind = "auto" /\ ~r.known
  <2>1. GoodPeer(TempPeer(r)) /\ TempPeer(r).known
    BY <1>5, TempPeerGood
  <2>2. GoodPeer(ParseContact(TempPeer(r), m, error, 403))
    BY <2>1, ParseContactGood
  <2>3. QED
    BY <1>5, <2>2 DEF RegisterVerify
<1>6. CASE ~((ignore /\ m.off) \/ r.fault \in {"unknown", "acl", "notdynamic"}) /\ ~(r.kind = "auto" /\ ~r.known)
  <2>1. f.known \/ f.kind = "cached"
    BY <1>1, <1>6, PeerFields DEF GoodPeer, EntryKept, Kinds
  <2>2. GoodPeer(Verify(f, m, ignore, error))
    BY <1>1, <2>1, VerifyGood
  <2>3. RegisterVerify(r, m, ignore, old, error) = Verify(f, m, ignore, error)
    BY <1>6 DEF RegisterVerify, f
  <2>4. QED
    BY <2>2, <2>3
<1>7. QED
  BY <1>4, <1>5, <1>6

\* The dialog of the REGISTERs: a new one has no nonce.
LEMMA ServerDialogGood ==
  ASSUME NEW r, GoodPeer(r), NEW alive \in BOOLEAN, NEW seq \in Nat
  PROVE  /\ GoodPeer([r EXCEPT !.sd = [NoServerDialog EXCEPT !.alive = alive, !.icseq = seq]])
         /\ GoodPeer([r EXCEPT !.sd = [@ EXCEPT !.icseq = seq]])
         /\ GoodPeer([r EXCEPT !.sd = NoServerDialog])
<1>1. ASSUME NEW d \in [alive : BOOLEAN, nonce : Nat, stale : BOOLEAN, icseq : Nat],
             d.nonce = 0 \/ (d.nonce = r.sd.nonce /\ d.stale = r.sd.stale)
      PROVE  GoodPeer([r EXCEPT !.sd = d])
  <2> DEFINE s == [r EXCEPT !.sd = d]
  <2>1. s \in Peers
    BY DEF GoodPeer, Peers
  <2>2. s.sd = d /\ s.fresh = r.fresh /\ s.used = r.used /\ s.twice = r.twice /\ SameEntry(r, s)
    BY DEF GoodPeer, Peers, SameEntry
  <2>3. r.fresh \in Nat
    BY PeerFields DEF GoodPeer
  <2> HIDE DEF s
  <2>4. NoncesKept(s) /\ EntryKept(s)
    BY <1>1, <2>2, <2>3 DEF GoodPeer, NoncesKept, EntryKept, SameEntry
  <2>5. QED
    BY <2>1, <2>4 DEF GoodPeer, s
<1>2. r.sd \in [alive : BOOLEAN, nonce : Nat, stale : BOOLEAN, icseq : Nat]
  BY PeerFields DEF GoodPeer
<1>3. [r.sd EXCEPT !.icseq = seq] \in [alive : BOOLEAN, nonce : Nat, stale : BOOLEAN, icseq : Nat]
      /\ [r.sd EXCEPT !.icseq = seq].nonce = r.sd.nonce /\ [r.sd EXCEPT !.icseq = seq].stale = r.sd.stale
  BY <1>2
<1>4. /\ NoServerDialog \in [alive : BOOLEAN, nonce : Nat, stale : BOOLEAN, icseq : Nat]
      /\ NoServerDialog.nonce = 0
      /\ [NoServerDialog EXCEPT !.alive = alive, !.icseq = seq]
           \in [alive : BOOLEAN, nonce : Nat, stale : BOOLEAN, icseq : Nat]
      /\ [NoServerDialog EXCEPT !.alive = alive, !.icseq = seq].nonce = 0
  BY DEF NoServerDialog
<1>5. GoodPeer([r EXCEPT !.sd = [NoServerDialog EXCEPT !.alive = alive, !.icseq = seq]])
  <2> DEFINE d == [NoServerDialog EXCEPT !.alive = alive, !.icseq = seq]
  <2>1. d \in [alive : BOOLEAN, nonce : Nat, stale : BOOLEAN, icseq : Nat] /\ d.nonce = 0
    BY DEF NoServerDialog
  <2> HIDE DEF d
  <2>2. GoodPeer([r EXCEPT !.sd = d])
    BY <1>1, <2>1
  <2>3. QED
    BY <2>2 DEF d
<1>6. GoodPeer([r EXCEPT !.sd = [r.sd EXCEPT !.icseq = seq]])
  <2> DEFINE d == [r.sd EXCEPT !.icseq = seq]
  <2>1. /\ d \in [alive : BOOLEAN, nonce : Nat, stale : BOOLEAN, icseq : Nat]
        /\ d.nonce = r.sd.nonce /\ d.stale = r.sd.stale
    BY <1>3
  <2> HIDE DEF d
  <2>2. GoodPeer([r EXCEPT !.sd = d])
    BY <1>1, <2>1
  <2>3. QED
    BY <2>2 DEF d
<1>7. GoodPeer([r EXCEPT !.sd = NoServerDialog])
  BY <1>1, <1>4
<1>8. QED
  BY <1>5, <1>6, <1>7

LEMMA HandleRegisterGood ==
  ASSUME NEW r, GoodPeer(r), NEW m \in Requests, NEW old \in BOOLEAN, NEW error \in BOOLEAN
  PROVE  GoodPeer(HandleRegister(r, m, old, error))
<1> DEFINE ignore == r.sd.alive /\ r.sd.icseq = m.seq
           s == [r EXCEPT !.sd = IF @.alive THEN [@ EXCEPT !.icseq = m.seq]
                                 ELSE [NoServerDialog EXCEPT !.alive = TRUE, !.icseq = m.seq]]
<1>1. m.seq \in Nat
  BY DEF Requests
<1>2. GoodPeer(s)
  BY <1>1, ServerDialogGood
<1> HIDE DEF s
<1>3. GoodPeer(RegisterVerify(s, m, ignore, old, error))
  BY <1>2, RegisterVerifyGood
<1>4. GoodPeer(Reply(r, m, 500))
  BY ReplySame DEF GoodPeer
<1>5. QED
  BY <1>3, <1>4 DEF HandleRegister, s

-----------------------------------------------------------------------------
(* The system.                                                             *)

Inv == TypeOK /\ RegistryInv /\ PeerInv

LEMMA InvParts == Inv <=> /\ Good(reg) /\ reg.out = {} /\ GoodPeer(peer) /\ peer.out = {}
                          /\ sc \in Scenarios /\ requests \subseteq Requests /\ responses \subseteq Answers
                          /\ phoneSeq \in 0 .. MaxSeq /\ faults \in 0 .. MaxFaults
  BY DEF Inv, TypeOK, RegistryInv, PeerInv, Good, Keeps, GoodPeer

\* What a handler has sent is handed to the network.
LEMMA ClientGood ==
  ASSUME NEW c, Good(c), Client(c), requests \subseteq Requests
  PROVE  Good(reg') /\ reg'.out = {} /\ requests' \subseteq Requests
<1> DEFINE d == [c EXCEPT !.out = {}]
<1>1. d.call = c.call /\ d.dlg = c.dlg /\ d.state = c.state /\ d.timeout = c.timeout /\ d.expire = c.expire
      /\ d.out = {}
  BY DEF Good, Keeps, IsRegistry
<1>2. d \in [state : States, call : Nat, timeout : BOOLEAN, expire : BOOLEAN, attempts : Nat,
             nonce : Nat, seq : Nat, dlg : [DOMAIN c.dlg -> Dialogs], out : SUBSET Requests]
  BY RegistryFields DEF Good, Keeps, IsRegistry
<1>3. reg' = d /\ requests' = requests \cup c.out
  BY DEF Client
<1> HIDE DEF d
<1>4. Good(d)
  BY <1>1, <1>2 DEF Good, Keeps, IsRegistry, Consistent, GoesOn
<1>5. c.out \subseteq Requests
  BY RegistryFields DEF Good, Keeps
<1>6. QED
  BY <1>1, <1>3, <1>4, <1>5

LEMMA ServerGood ==
  ASSUME NEW r, GoodPeer(r), Server(r), responses \subseteq Answers
  PROVE  GoodPeer(peer') /\ peer'.out = {} /\ responses' \subseteq Answers
<1> DEFINE s == [r EXCEPT !.out = {}]
<1>1. s \in Peers /\ s.out = {} /\ SameNonces(r, s) /\ SameEntry(r, s)
  BY DEF GoodPeer, Peers, SameNonces, SameEntry
<1>2. peer' = s /\ responses' = responses \cup r.out /\ r.out \subseteq Answers
  BY PeerFields DEF Server, GoodPeer
<1> HIDE DEF s
<1>3. GoodPeer(s)
  BY <1>1, SameIsGood
<1>4. QED
  BY <1>1, <1>2, <1>3

LEMMA NewRegistryGood ==
  ASSUME NEW n \in Nat
  PROVE  /\ Good([NewRegistry EXCEPT !.seq = n, !.expire = TRUE])
         /\ Good([NewRegistry EXCEPT !.expire = TRUE])
         /\ [NewRegistry EXCEPT !.expire = TRUE].out = {}
<1> DEFINE R == [state : States, call : Nat, timeout : BOOLEAN, expire : BOOLEAN, attempts : Nat,
                 nonce : Nat, seq : Nat, dlg : [{} -> Dialogs], out : SUBSET Requests]
<1>1. DOMAIN (<<>>) = {}
  OBVIOUS
<1>2. <<>> \in [{} -> Dialogs]
  OBVIOUS
<1>3. NewRegistry \in R /\ NewRegistry.call = 0 /\ NewRegistry.state = "unregistered"
  BY <1>2, StateNames DEF NewRegistry
<1>4. NewRegistry.dlg = <<>>
  BY DEF NewRegistry
<1> DEFINE g == NewRegistry
<1>5. g \in R /\ g.call = 0 /\ g.state = "unregistered" /\ DOMAIN g.dlg = {}
  BY <1>1, <1>3, <1>4
<1> HIDE DEF g
<1>6. ASSUME NEW e, e \in {[g EXCEPT !.seq = n, !.expire = TRUE], [g EXCEPT !.expire = TRUE]}
      PROVE  Good(e)
  <2>1. e \in R /\ e.call = 0 /\ e.state = "unregistered" /\ e.dlg = g.dlg /\ e.expire = TRUE
    BY <1>5, <1>6
  <2>2. QED
    BY <1>5, <2>1, StateNames DEF Good, Keeps, IsRegistry, Consistent, GoesOn
<1>7. [NewRegistry EXCEPT !.expire = TRUE].out = {}
  BY DEF NewRegistry
<1>8. QED
  BY <1>6, <1>7 DEF g

LEMMA NewPeerGood ==
  ASSUME NEW k \in Kinds, NEW f \in PeerFaults, NEW q \in BOOLEAN
  PROVE  GoodPeer(NewPeer(k, f, q))
<1> DEFINE b == k = "static"
           p == NewPeer(k, f, q)
<1>1. b \in BOOLEAN /\ "none" \in Addresses
  BY DEF Addresses
<1>2. NoServerDialog \in [alive : BOOLEAN, nonce : Nat, stale : BOOLEAN, icseq : Nat] /\ NoServerDialog.nonce = 0
  BY DEF NoServerDialog
<1>3. p = [kind |-> k, fault |-> f, qualify |-> q, known |-> b,
   addr |-> "none", byip |-> FALSE, expire |-> FALSE, lastms |-> "unknown",
   poke |-> "none", polled |-> FALSE, orphans |-> 0, exten |-> FALSE, db |-> "none",
   sd |-> NoServerDialog, fresh |-> 0, used |-> {}, twice |-> FALSE,
   forced |-> FALSE, out |-> {}]
  BY DEF NewPeer
<1> HIDE DEF p
<1>4. p.known <=> p.kind = "static"
  <2>1. p.known = b /\ p.kind = k
    BY <1>3
  <2>2. QED
    BY <2>1
<1> HIDE DEF b
<1>5. p \in Peers
  BY <1>1, <1>2, <1>3 DEF Peers
<1>6. NoncesKept(p) /\ EntryKept(p)
  BY <1>2, <1>3, <1>4 DEF NoncesKept, EntryKept
<1>7. QED
  BY <1>5, <1>6 DEF GoodPeer, p

LEMMA InitInv == Init => Inv
<1> SUFFICES ASSUME Init PROVE Inv
  OBVIOUS
<1>1. sc \in Scenarios /\ sc.kind \in Kinds /\ sc.fault \in PeerFaults /\ sc.qualify \in BOOLEAN
  BY LocationAssumption DEF Init, LocationAssumption
<1>2. Good(reg) /\ reg.out = {}
  BY NewRegistryGood DEF Init
<1>3. GoodPeer(peer) /\ peer.out = {}
  BY <1>1, NewPeerGood DEF Init, NewPeer
<1>4. QED
  BY <1>1, <1>2, <1>3, InvParts, LocationAssumption DEF Init, LocationAssumption

\* The steps of the client.
ClientStep ==
  \/ Reregister \/ RegTimeout \/ ReloadRegistry \/ NetworkChange
  \/ \E id \in DOMAIN reg.dlg : PacketTimeout(id) \/ Reap(id)
  \/ \E m \in responses, id \in DOMAIN reg.dlg : ReceiveAnswer(m, id)

LEMMA FaultType == ASSUME faults \in 0 .. MaxFaults, Fault PROVE faults' \in 0 .. MaxFaults
  BY LocationAssumption DEF Fault, LocationAssumption

LEMMA ClientInv ==
  ASSUME Inv, ClientStep
  PROVE  Inv'
<1>1. /\ Good(reg) /\ reg.out = {} /\ GoodPeer(peer) /\ peer.out = {}
      /\ sc \in Scenarios /\ requests \subseteq Requests /\ responses \subseteq Answers
      /\ phoneSeq \in 0 .. MaxSeq /\ faults \in 0 .. MaxFaults
  BY InvParts
<1>2. ASSUME NEW c, Good(c), Client(c), responses' \subseteq responses, faults' \in 0 .. MaxFaults
      PROVE  Inv'
  <2>1. Good(reg') /\ reg'.out = {} /\ requests' \subseteq Requests
    BY <1>1, <1>2, ClientGood
  <2>2. sc' = sc /\ phoneSeq' = phoneSeq /\ peer' = peer
    BY <1>2 DEF Client
  <2>3. /\ GoodPeer(peer') /\ peer'.out = {} /\ sc' \in Scenarios /\ responses' \subseteq Answers
        /\ phoneSeq' \in 0 .. MaxSeq
    BY <1>1, <1>2, <2>2
  <2>4. QED
    BY <1>2, <2>1, <2>3
       DEF Inv, TypeOK, RegistryInv, PeerInv, Good, Keeps, GoodPeer
<1>3. CASE Reregister
  <2>1. PICK resolved \in BOOLEAN : Client(ReregisterNow(reg, resolved))
    BY <1>3 DEF Reregister
  <2>2. Good(ReregisterNow(reg, resolved))
    BY <1>1, ReregisterGood
  <2>3. QED
    BY <1>1, <1>2, <1>3, <2>1, <2>2 DEF Reregister
<1>4. CASE RegTimeout
  <2>1. PICK resolved \in BOOLEAN : Client(TimedOut(reg, resolved))
    BY <1>4 DEF RegTimeout
  <2>2. Good(TimedOut(reg, resolved))
    BY <1>1, TimedOutGood
  <2>3. QED
    BY <1>1, <1>2, <1>4, <2>1, <2>2 DEF RegTimeout
<1>5. CASE ReloadRegistry
  <2>1. Good([NewRegistry EXCEPT !.seq = reg.seq, !.expire = TRUE])
    BY <1>1, RegistryFields, NewRegistryGood DEF Good, Keeps
  <2>2. QED
    BY <1>1, <1>2, <1>5, <2>1, FaultType DEF ReloadRegistry
<1>6. CASE NetworkChange
  <2> DEFINE d == [reg EXCEPT !.expire = TRUE]
  <2>1. d.call = reg.call /\ d.dlg = reg.dlg /\ d.state = reg.state /\ d.timeout = reg.timeout /\ d.expire = TRUE
    BY <1>1 DEF Good, Keeps, IsRegistry
  <2>2. d \in [state : States, call : Nat, timeout : BOOLEAN, expire : BOOLEAN, attempts : Nat,
               nonce : Nat, seq : Nat, dlg : [DOMAIN reg.dlg -> Dialogs], out : SUBSET Requests]
    BY <1>1, RegistryFields DEF Good, Keeps, IsRegistry
  <2>3. Client(d) /\ UNCHANGED responses /\ Fault
    BY <1>6 DEF NetworkChange
  <2> HIDE DEF d
  <2>4. Good(d)
    BY <1>1, <2>1, <2>2 DEF Good, Keeps, IsRegistry, Consistent, GoesOn
  <2>5. QED
    BY <1>1, <1>2, <2>3, <2>4, FaultType
<1>7. ASSUME NEW id \in DOMAIN reg.dlg, PacketTimeout(id)
      PROVE  Inv'
  <2>1. Good(Acked(reg, id))
    BY <1>1, AckedGood
  <2>2. QED
    BY <1>1, <1>2, <1>7, <2>1 DEF PacketTimeout
<1>8. ASSUME NEW id \in DOMAIN reg.dlg, Reap(id)
      PROVE  Inv'
  <2>1. Good(Unlinked(reg, id))
    BY <1>1, UnlinkedGood
  <2>2. QED
    BY <1>1, <1>2, <1>8, <2>1 DEF Reap
<1>9. ASSUME NEW m \in responses, NEW id \in DOMAIN reg.dlg, ReceiveAnswer(m, id)
      PROVE  Inv'
  <2>1. m \in Answers /\ reg.dlg[id].pend # 0
    <3>1. m \in Answers
      BY <1>1
    <3>2. m.seq # 0
      BY <3>1 DEF Answers
    <3>3. QED
      BY <1>9, <3>1, <3>2 DEF ReceiveAnswer
  <2>2. PICK high, resolved \in (IF m.code = 423 THEN BOOLEAN ELSE {FALSE}) :
          Client(Answered(reg, id, m, high, resolved))
    BY <1>9 DEF ReceiveAnswer
  <2>3. Good(Answered(reg, id, m, high, resolved))
    BY <1>1, <2>1, AnsweredGood
  <2>4. responses' \subseteq responses /\ faults' = faults
    BY <1>9 DEF ReceiveAnswer
  <2>5. QED
    BY <1>1, <1>2, <2>2, <2>3, <2>4
<1>10. QED
  BY <1>3, <1>4, <1>5, <1>6, <1>7, <1>8, <1>9 DEF ClientStep

\* The steps of a phone and of a foreign registrar.
OtherStep ==
  \/ \E contact \in sc.contacts, off \in BOOLEAN, nonce \in 0..peer.fresh :
       PhoneRegister(contact, off, nonce)
  \/ \E m \in requests, code \in sc.codes : ForeignAnswer(m, code)

LEMMA OtherInv ==
  ASSUME Inv, OtherStep
  PROVE  Inv'
<1>1. /\ Good(reg) /\ reg.out = {} /\ GoodPeer(peer) /\ peer.out = {}
      /\ sc \in Scenarios /\ requests \subseteq Requests /\ responses \subseteq Answers
      /\ phoneSeq \in 0 .. MaxSeq /\ faults \in 0 .. MaxFaults
  BY InvParts
<1>2. sc.contacts \subseteq Contacts /\ sc.codes \subseteq Nat /\ MaxSeq \in Nat
  BY <1>1, LocationAssumption DEF LocationAssumption
<1>3. ASSUME NEW contact \in sc.contacts, NEW off \in BOOLEAN, NEW nonce \in 0 .. peer.fresh,
             PhoneRegister(contact, off, nonce)
      PROVE  Inv'
  <2>1. phoneSeq + 1 \in Nat \ {0} /\ nonce \in Nat /\ contact \in Contacts
    BY <1>1, <1>2
  <2>2. Register(phoneSeq + 1, nonce, contact, off) \in Requests
    BY <2>1 DEF Register, Requests
  <2>3. requests' \subseteq Requests
    BY <1>1, <1>3, <2>2 DEF PhoneRegister
  <2>4. phoneSeq' \in 0 .. MaxSeq
    BY <1>1, <1>2, <1>3 DEF PhoneRegister
  <2>5. sc' = sc /\ reg' = reg /\ peer' = peer /\ responses' = responses /\ faults' = faults
    BY <1>3 DEF PhoneRegister
  <2>6. QED
    BY <1>1, <2>3, <2>4, <2>5 DEF Inv, TypeOK, RegistryInv, PeerInv, Good, Keeps, GoodPeer
<1>4. ASSUME NEW m \in requests, NEW code \in sc.codes, ForeignAnswer(m, code)
      PROVE  Inv'
  <2> DEFINE n == IF code = 401 THEN m.seq ELSE 0
  <2>1. m.seq \in Nat \ {0} /\ code \in Nat /\ n \in Nat
    BY <1>1, <1>2 DEF Requests
  <2>2. responses' = responses \cup {Answer(m.seq, code, n)}
    BY <1>4 DEF ForeignAnswer
  <2> HIDE DEF n
  <2>3. Answer(m.seq, code, n) \in Answers
    BY <2>1 DEF Answer, Answers
  <2>4. /\ sc' = sc /\ reg' = reg /\ phoneSeq' = phoneSeq /\ peer' = peer /\ faults' = faults
        /\ requests' \subseteq requests
    BY <1>4 DEF ForeignAnswer
  <2>5. responses' \subseteq Answers /\ requests' \subseteq Requests
    BY <1>1, <2>2, <2>3, <2>4
  <2>6. QED
    BY <1>1, <2>4, <2>5 DEF Inv, TypeOK, RegistryInv, PeerInv, Good, Keeps, GoodPeer
<1>5. QED
  BY <1>3, <1>4 DEF OtherStep

\* The steps of the peer.
PeerStep ==
  \/ \E m \in requests : Handle(m)
  \/ DialogEnds \/ Expire \/ PokeTimer \/ PokeAnswer \/ OrphanAnswer
  \/ QualifyNow \/ Unregister \/ LookUp \/ ReloadPeers \/ Restart

\* What a peer is to wait for next.
LEMMA PokeSetGood ==
  ASSUME NEW r, GoodPeer(r), NEW p \in {"none", "now", "again", "noanswer"}
  PROVE  GoodPeer([r EXCEPT !.poke = p])
<1>1. [r EXCEPT !.poke = p] \in Peers
  BY DEF GoodPeer, Peers
<1>2. SameNonces(r, [r EXCEPT !.poke = p]) /\ SameEntry(r, [r EXCEPT !.poke = p])
  BY DEF GoodPeer, Peers, SameNonces, SameEntry
<1>3. QED
  BY <1>1, <1>2, SameIsGood

LEMMA RestartGood ==
  ASSUME GoodPeer(peer), sc \in Scenarios
  PROVE  LET r == [NewPeer(sc.kind, sc.fault, sc.qualify)
                     EXCEPT !.db = peer.db, !.fresh = peer.fresh, !.used = peer.used,
                            !.twice = peer.twice]
         IN  GoodPeer(IF sc.kind = "static" THEN Built(r) ELSE r)
<1> DEFINE n == NewPeer(sc.kind, sc.fault, sc.qualify)
           r == [n EXCEPT !.db = peer.db, !.fresh = peer.fresh, !.used = peer.used,
                          !.twice = peer.twice]
<1>1. sc.kind \in Kinds /\ sc.fault \in PeerFaults /\ sc.qualify \in BOOLEAN
  BY LocationAssumption DEF LocationAssumption
<1>2. n \in Peers
  BY <1>1, NewPeerGood DEF GoodPeer
<1>3. n.kind = sc.kind /\ (n.known <=> sc.kind = "static") /\ n.expire = FALSE /\ n.sd.nonce = 0
  <2>1. n.kind = sc.kind /\ n.expire = FALSE
    BY DEF NewPeer
  <2>2. n.known <=> sc.kind = "static"
    BY DEF NewPeer
  <2>3. n.sd.nonce = 0
    BY DEF NewPeer, NoServerDialog
  <2>4. QED
    BY <2>1, <2>2, <2>3
<1> HIDE DEF n
<1>4. /\ peer.db \in Addresses /\ peer.fresh \in Nat /\ peer.used \in SUBSET Nat /\ peer.twice = FALSE
      /\ peer.used \subseteq 1 .. peer.fresh
  BY PeerFields DEF GoodPeer, NoncesKept
<1>5. r \in Peers
  BY <1>2, <1>4 DEF Peers
<1>6. /\ r.kind = sc.kind /\ (r.known <=> sc.kind = "static") /\ r.expire = FALSE /\ r.sd.nonce = 0
      /\ r.db = peer.db /\ r.fresh = peer.fresh /\ r.used = peer.used /\ r.twice = FALSE
  BY <1>2, <1>3, <1>4 DEF Peers
<1> HIDE DEF r
<1>7. NoncesKept(r)
  BY <1>4, <1>6 DEF NoncesKept
<1>8. CASE sc.kind = "static"
  BY <1>5, <1>6, <1>7, <1>8, BuiltGood DEF r, n
<1>9. CASE sc.kind # "static"
  BY <1>5, <1>6, <1>7, <1>9 DEF GoodPeer, EntryKept, r, n
<1>10. QED
  BY <1>8, <1>9

LEMMA PeerStepInv ==
  ASSUME Inv, PeerStep
  PROVE  Inv'
<1>1. /\ Good(reg) /\ reg.out = {} /\ GoodPeer(peer) /\ peer.out = {}
      /\ sc \in Scenarios /\ requests \subseteq Requests /\ responses \subseteq Answers
      /\ phoneSeq \in 0 .. MaxSeq /\ faults \in 0 .. MaxFaults
  BY InvParts
<1>2. ASSUME NEW r, GoodPeer(r), Server(r), requests' \subseteq requests, faults' \in 0 .. MaxFaults
      PROVE  Inv'
  <2>1. GoodPeer(peer') /\ peer'.out = {} /\ responses' \subseteq Answers
    BY <1>1, <1>2, ServerGood
  <2>2. sc' = sc /\ phoneSeq' = phoneSeq /\ reg' = reg
    BY <1>2 DEF Server
  <2>3. requests' \subseteq Requests
    BY <1>1, <1>2
  <2>4. QED
    BY <1>1, <1>2, <2>1, <2>2, <2>3
       DEF Inv, TypeOK, RegistryInv, PeerInv, Good, Keeps, GoodPeer
<1>3. ASSUME NEW r \in Peers, SameNonces(peer, r), SameEntry(peer, r)
      PROVE  GoodPeer(r)
  BY <1>1, <1>3, SameIsGood
<1>4. \A force, error \in BOOLEAN : GoodPeer(PokePeer(peer, force, error))
  BY <1>1, <1>3, PokePeerSame DEF GoodPeer
<1>5. ASSUME NEW m \in requests, Handle(m)
      PROVE  Inv'
  <2>1. PICK old, error \in BOOLEAN : Server(HandleRegister(peer, m, old, error))
    BY <1>5 DEF Handle
  <2>2. GoodPeer(HandleRegister(peer, m, old, error))
    BY <1>1, HandleRegisterGood
  <2>3. requests' \subseteq requests /\ faults' \in 0 .. MaxFaults
    BY <1>1, <1>5, FaultType DEF Handle
  <2>4. QED
    BY <1>2, <2>1, <2>2, <2>3
<1>6. CASE DialogEnds
  <2>1. GoodPeer([peer EXCEPT !.sd = NoServerDialog])
    BY <1>1, ServerDialogGood
  <2>2. QED
    BY <1>1, <1>2, <1>6, <2>1 DEF DialogEnds
<1>7. CASE Expire \/ Unregister
  <2>1. GoodPeer(ExpireRegister(peer))
    BY <1>1, ExpireGood
  <2>2. QED
    BY <1>1, <1>2, <1>7, <2>1, FaultType DEF Expire, Unregister
<1>8. CASE PokeAgain
  <2>1. PICK error \in BOOLEAN :
          Server(IF peer.known THEN PokePeer(peer, FALSE, error) ELSE [peer EXCEPT !.poke = "none"])
    BY <1>8 DEF PokeAgain
  <2>2. GoodPeer([peer EXCEPT !.poke = "none"]) /\ GoodPeer(PokePeer(peer, FALSE, error))
    BY <1>1, <1>4, PokeSetGood
  <2>3. QED
    BY <1>1, <1>2, <1>8, <2>1, <2>2 DEF PokeAgain
<1>9. CASE PokeNow
  BY <1>1, <1>2, <1>4, <1>9 DEF PokeNow
<1>10. CASE PokeUnanswered
  <2>1. GoodPeer(NoAnswer(peer))
    BY <1>1, <1>3, NoAnswerSame DEF GoodPeer
  <2>2. QED
    BY <1>1, <1>2, <1>10, <2>1 DEF PokeUnanswered
<1>11. CASE PokeAnswer
  <2>1. \A lag \in BOOLEAN : GoodPeer(PokeAnswered(peer, lag))
    BY <1>1, <1>3, PokeAnsweredSame DEF GoodPeer
  <2>2. QED
    BY <1>1, <1>2, <1>11, <2>1 DEF PokeAnswer
<1>12. CASE OrphanAnswer
  <2> DEFINE p == [peer EXCEPT !.orphans = 0]
  <2>1. p \in Peers /\ SameNonces(peer, p) /\ SameEntry(peer, p)
    <3>1. p \in Peers
      BY <1>1 DEF GoodPeer, Peers
    <3>2. QED
      BY <1>1, <3>1 DEF GoodPeer, Peers, SameNonces, SameEntry
  <2>2. PICK lag \in BOOLEAN : Server(PokeAnswered(p, lag))
    BY <1>12 DEF OrphanAnswer
  <2> HIDE DEF p
  <2>3. GoodPeer(PokeAnswered(p, lag))
    BY <1>3, <2>1, PokeAnsweredSame, SameIsGood
  <2>4. QED
    BY <1>1, <1>2, <1>12, <2>2, <2>3 DEF OrphanAnswer
<1>13. CASE QualifyNow
  BY <1>1, <1>2, <1>4, <1>13, FaultType DEF QualifyNow
<1>14. CASE LookUp
  <2>1. \A old \in BOOLEAN : GoodPeer(FindPeer(peer, old))
    BY <1>1, FindPeerGood
  <2>2. QED
    BY <1>1, <1>2, <1>14, <2>1, FaultType DEF LookUp
<1>15. CASE ReloadPeers
  <2>1. peer.known /\ peer.kind = "static" => GoodPeer(Built(peer))
    BY <1>1, BuiltGood DEF GoodPeer, EntryKept
  <2>2. GoodPeer([peer EXCEPT !.poke = "again"])
    BY <1>1, PokeSetGood
  <2>3. QED
    BY <1>1, <1>2, <1>15, <2>1, <2>2, FaultType DEF ReloadPeers
<1>16. CASE Restart
  <2>1. QED
    BY <1>1, <1>2, <1>16, RestartGood, FaultType DEF Restart
<1>17. QED
  BY <1>5, <1>6, <1>7, <1>8, <1>9, <1>10, <1>11, <1>12, <1>13, <1>14, <1>15, <1>16
     DEF PeerStep, PokeTimer

LEMMA NextInv == Inv /\ [Next]_vars => Inv'
<1>1. ASSUME Inv, UNCHANGED vars PROVE Inv'
  BY <1>1 DEF vars, Inv, TypeOK, RegistryInv, PeerInv
<1>2. Next => ClientStep \/ OtherStep \/ PeerStep
  BY DEF Next, ClientStep, OtherStep, PeerStep
<1>3. QED
  BY <1>1, <1>2, ClientInv, OtherInv, PeerStepInv
-----------------------------------------------------------------------------
\* The invariant of registration: of both ends every variable keeps to its kind, the registry
\* keeps its dialogs, timers and state in agreement, and the peer its nonces and its entry in
\* the database (chan_sip.c: transmit_register, handle_response_register, register_verify).
THEOREM InvCorrect == Spec => []Inv
  BY InitInv, NextInv, PTL DEF Spec

\* Every variable of both ends keeps to its kind, whatever is sent, lost and answered.
THEOREM TypeCorrect == Spec => []TypeOK
<1>1. Inv => TypeOK
  BY DEF Inv
<1>2. QED
  BY <1>1, InvCorrect, PTL

\* A register= line that has not given up has a timer that makes it try again, for every
\* registrar, every limit on attempts and any loss (sip_reg_timeout, sip_reregister).
THEOREM RegistryGoesOnCorrect == Spec => []RegistryGoesOn
<1>1. Inv => RegistryGoesOn
  BY DEF Inv, RegistryInv, GoesOn, RegistryGoesOn
<1>2. QED
  BY <1>1, InvCorrect, PTL

\* A nonce lets at most one request through, for any number of requests, duplicates and
\* restarts (check_auth: stalenonce).
THEOREM NonceOnceCorrect == Spec => []NonceOnce
<1>1. Inv => NonceOnce
  BY DEF Inv, PeerInv, NoncesKept, NonceOnce
<1>2. QED
  BY <1>1, InvCorrect, PTL

\* What is stored of a registration ends when the registration does, over expiries,
\* unregistrations, reloads and restarts (expire_register, destroy_association).
THEOREM StoredIsBoundCorrect == Spec => []StoredIsBound
<1>1. Inv => StoredIsBound
  BY DEF Inv, PeerInv, EntryKept, StoredIsBound
<1>2. QED
  BY <1>1, InvCorrect, PTL
=============================================================================
