---------------------------- MODULE MCRuleReplace ----------------------------
(* Small instances of RuleReplace for TLC. *)
EXTENDS RuleReplace

\* The new version has another directive than the old one, or one more.
TwoVersions == {{"d2"}, {"d1", "d2"}}
=============================================================================
