---------------------------- MODULE MCEngineLoop ----------------------------
(* Model values for model checking EngineLoop.                             *)
EXTENDS EngineLoop

CONSTANTS m1, p1, n1, n2

OneMessage == {m1}
OnePrompt == {p1}
OneNotice == {n1}
TwoNotices == {n1, n2}
LastNotice == {n2}
None == {}

=============================================================================
