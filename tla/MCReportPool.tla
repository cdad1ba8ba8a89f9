---------------------------- MODULE MCReportPool ----------------------------
(* Small instances of ReportPool for TLC: one client is told the time      *)
(* twice, the other one once.                                              *)
EXTENDS ReportPool

CONSTANTS u1, u2

SomeTicks  == [u \in UUIDs |-> IF u = u1 THEN 2 ELSE 1]
SomeRounds == [u \in UUIDs |-> 1]
=============================================================================
