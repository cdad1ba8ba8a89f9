------------------------------ MODULE MCExecd ------------------------------
(* Small instances of Execd for TLC. *)
EXTENDS Execd

NoStop   == [t \in {} |-> 0]
StopAll  == [t \in Topics |-> 1]

\* execd_crash: nothing but commands, two to a topic.
Commands == [t \in Topics |-> {"run"}]
TwoEach  == [t \in Topics |-> 2]

\* execd_kinds: a message of any class, and a topic of two commands beside it.
OfAnyKind == [t \in Topics |-> IF t = "a" THEN AllKinds ELSE {"run"}]
OneAndTwo == [t \in Topics |-> IF t = "a" THEN 1 ELSE 2]
=============================================================================
