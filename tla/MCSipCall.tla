------------------------------ MODULE MCSipCall ------------------------------
EXTENDS SipCall

\* The call that is placed, and the call that is received; each scenario changes a part.
Placed == [incoming |-> FALSE, others |-> 0, codes |-> {183, 200, 404}, byes |-> {200},
           fault |-> "none", faulty |-> 1, hows |-> {"good"}, ours |-> 1, theirs |-> 0]

Received == [Placed EXCEPT !.incoming = TRUE, !.codes = {}, !.ours = 0, !.theirs = 1]

SomeCalls ==
  {[Placed EXCEPT !.ours = 2, !.hows = {"good", "media", "contact"}],
   [Placed EXCEPT !.ours = 2, !.codes = {183, 401, 404, 422, 487}],
   [Placed EXCEPT !.ours = 3, !.codes = {200, 491}],
   [Placed EXCEPT !.codes = {100, 180, 200, 503}, !.byes = {200, 401, 481}],
   [Placed EXCEPT !.theirs = 1, !.codes = {200, 486}, !.byes = {200, 401}],
   [Placed EXCEPT !.theirs = 1, !.ours = 2, !.codes = {200}],
   [Placed EXCEPT !.others = 1],
   [Placed EXCEPT !.theirs = 1, !.codes = {183, 486, 487}, !.fault = "loop"],
   Received,
   [Received EXCEPT !.others = 1]}
  \cup {[Received EXCEPT !.theirs = 2, !.fault = f] : f \in Faults \ {"loop"}}
=============================================================================
