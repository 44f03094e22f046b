--------------------------- MODULE MCLspRegistry ---------------------------
(* One kind of server, at the workspace and at two extra roots, which may be exchanged. *)
EXTENDS LspRegistry, TLC
CONSTANTS gopls, workspace, other, third
MCServers == {gopls}
MCRoots == {workspace, other, third}
MCWanted == MCServers \X MCRoots
Symmetry == Permutations(Caller) \cup Permutations({other, third})
=============================================================================
