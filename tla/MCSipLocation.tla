---------------------------- MODULE MCSipLocation ----------------------------
EXTENDS SipLocation

Row(client, server, kind, fault, qualify, codes, contacts) ==
  [client |-> client, server |-> server, kind |-> kind, fault |-> fault,
   qualify |-> qualify, codes |-> codes, contacts |-> contacts]

\* A register= line at an Asterisk, at a registrar that may answer anything, and phones at
\* peers of each kind and with each fault.
MCScenarios ==
  {Row("asterisk", "asterisk", "static", f, FALSE, {}, {}) : f \in {"none", "secret"}}
  \cup {Row("asterisk", "other", "static", "none", FALSE, cs, {}) :
          cs \in {{200, 401, 403}, {200, 404, 423, 503}, {401, 408, 423}}}
  \cup {Row("phone", "asterisk", k, "open", TRUE, {}, {"ua"}) :
          k \in {"static", "cached"}}
  \cup {Row("phone", "asterisk", "auto", "none", TRUE, {}, {"ua", "denied", "lost"})}
  \cup {Row("phone", "asterisk", "static", "none", FALSE, {}, {"ua"})}
  \cup {Row("phone", "asterisk", "static", "open", FALSE, {}, {"ua", "denied", "lost", "stars", "none"})}
  \cup {Row("phone", "asterisk", "static", f, FALSE, {}, {"ua"}) : f \in PeerFaults \ {"none", "open"}}
=============================================================================
