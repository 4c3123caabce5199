--------------------------- MODULE MC_ServerLoop ---------------------------
(***************************************************************************)
(* ServerLoop for TLC.  Connections are told apart only by what happens to *)
(* them: the server compares descriptors and ids, never connections.       *)
(***************************************************************************)
EXTENDS ServerLoop

CONSTANTS c1, c2, c3

Symmetry == Permutations(Conns)
=============================================================================
