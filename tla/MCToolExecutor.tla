--------------------------- MODULE MCToolExecutor ---------------------------
(* The tools TLC tries: Bash, edits of one file, an Agent, an unknown name. *)
EXTENDS ToolExecutor

CONSTANTS bash, edit, agent, ghost

SameFileEdit == {<<edit, edit>>}
=============================================================================
