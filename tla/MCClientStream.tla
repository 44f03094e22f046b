--------------------------- MODULE MCClientStream ---------------------------
(* Instances of ClientStream for TLC. *)
EXTENDS ClientStream, TLC

Symmetry == Permutations(Emitter) \cup Permutations(Conn)
=============================================================================
