--------------------------- MODULE MCExecdWorkers ---------------------------
(* Small instances of ExecdWorkers for TLC. *)
EXTENDS ExecdWorkers

=============================================================================
