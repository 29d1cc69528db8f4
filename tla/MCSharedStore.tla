--------------------------- MODULE MCSharedStore ---------------------------
(* SharedStore with symmetric calls and handlers.                          *)
EXTENDS SharedStore, TLC

Symmetry == Permutations(Calls) \cup Permutations(Handlers)
=============================================================================
