----------------------------- MODULE AtLeastOnce -----------------------------
(***************************************************************************)
(* What execd promises about the journals it consumes, whatever crashes:   *)
(* the mark of a topic never goes back and passes only messages that were  *)
(* processed, and no message below the mark is executed again.             *)
(***************************************************************************)
EXTENDS Integers

CONSTANTS Topics, Offsets

VARIABLES
  mark,       \* topic -> the first message not known to be processed
  handled,    \* <<topic, offset>> processed
  executed    \* <<topic, offset>> with some command executed

vars == <<mark, handled, executed>>

Init == mark = [t \in Topics |-> 0] /\ handled = {} /\ executed = {}

\* Messages at or above the mark are executed, in part or whole, and repeatedly
\* if the daemon dies before the mark has moved.
Execute(t, o) ==
  /\ o >= mark[t]
  /\ executed' = executed \cup {<<t, o>>}
  /\ UNCHANGED <<mark, handled>>

Handle(t, o) ==
  /\ o >= mark[t]
  /\ handled' = handled \cup {<<t, o>>}
  /\ UNCHANGED <<mark, executed>>

\* The mark passes one message.
Advance(t) ==
  /\ <<t, mark[t]>> \in handled
  /\ mark' = [mark EXCEPT ![t] = @ + 1]
  /\ UNCHANGED <<handled, executed>>

Next == \E t \in Topics :
  Advance(t) \/ \E o \in Offsets : Execute(t, o) \/ Handle(t, o)

Spec == Init /\ [][Next]_vars
=============================================================================
