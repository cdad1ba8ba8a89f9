---------------------------- MODULE MCSipUsages ----------------------------
(* Small instances of SipUsages for TLC. *)
EXTENDS SipUsages

\* What is watched, its changes, the subscriptions, the SUBSCRIBEs of one, the faults, the times.
B(w, ch, d, s, l, t) ==
  [what |-> w, changes |-> ch, dialogs |-> d, subscribes |-> s, lost |-> l, times |-> t]
Times == {"long", "brief", "none"}

Watches ==
  {B("extension", 1, 1, 1, 1, {"long"}), B("extension", 2, 1, 1, 0, {"long"}), B("extension", 1, 1, 2, 0, {"long", "none"}),
   B("extension", 0, 2, 1, 0, {"long"}), B("mailbox", 1, 1, 1, 1, {"long"}), B("mailbox", 1, 1, 2, 0, Times)}

\* The calls A and B with their parties: one REFER of every kind, two of them, a parked call and
\* one that is taken over; calls in the dialplan; a target elsewhere; no transfers allowed.
One == [NoTransfer EXCEPT !.legs = {"A", "B"}, !.parties = {"X", "Y"}, !.kinds = Kinds, !.refers = 1,
                          !.fails = TRUE, !.hangups = TRUE]
Calling ==
  {[One EXCEPT !.repeats = TRUE],
   [One EXCEPT !.refers = 2, !.hangups = FALSE, !.kinds = {"parking", "attended"}],
   [One EXCEPT !.kinds = {"attended"}, !.takeover = TRUE],
   [One EXCEPT !.parties = {}], [One EXCEPT !.parties = {"X"}], [One EXCEPT !.parties = {"Y"}],
   [One EXCEPT !.local = FALSE, !.kinds = Attended], [One EXCEPT !.allowed = FALSE]}

\* Two phones answer, over UDP and TCP; a caller's INVITE comes on three ways to two URIs.
Out == [NoCasting EXCEPT !.phones = {"p1", "p2"}]
In  == [NoCasting EXCEPT !.copies = {[branch |-> 1, uri |-> 1], [branch |-> 2, uri |-> 1], [branch |-> 3, uri |-> 2]}]
Forking ==
  {[Out EXCEPT !.faults = 1], [Out EXCEPT !.info = {"p1"}], [Out EXCEPT !.tcp = TRUE],
   [In EXCEPT !.faults = 2], [In EXCEPT !.auth = TRUE, !.retags = TRUE, !.faults = 1]}

\* The offer and the request, given up at any time; the whole course; from the first NOTIFY on,
\* with an end at any time; from the second on, with a PUBLISH lost or repeated; a PUBLISH whose
\* time is too short; the PUBLISHes of another client.
Info(u, pu, sv) == [uri |-> u, purpose |-> pu, service |-> sv]
Early == [NoService EXCEPT !.policies = {"native"}, !.infos = {Info(TRUE, TRUE, "BS")}]
Ready == [NoService EXCEPT !.start = "queued", !.suspends = 1, !.recalls = 1]
Completing ==
  {[Early EXCEPT !.policies = {"never", "generic", "native", "always"},
                 !.infos = {Info(u, pu, sv) : u \in BOOLEAN, pu \in BOOLEAN, sv \in {"BS", "unknown"}}],
   [Early EXCEPT !.suspends = 1, !.slips = {"SUBSCRIBE", "NOTIFY"}, !.ends = TRUE],
   [Early EXCEPT !.suspends = 1, !.recalls = 1],
   [Ready EXCEPT !.ends = TRUE], [Ready EXCEPT !.start = "ready", !.slips = {"PUBLISH"}],
   [Ready EXCEPT !.brief = TRUE],
   [Ready EXCEPT !.suspends = 0, !.recalls = 0, !.foreign = 2]}
=============================================================================
