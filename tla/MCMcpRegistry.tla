--------------------------- MODULE MCMcpRegistry ---------------------------
(* Two goroutines call tools of a server while its configuration is reloaded. *)
EXTENDS McpRegistry, TLC

Symmetry == Permutations(Caller) \cup Permutations(Config)
=============================================================================
