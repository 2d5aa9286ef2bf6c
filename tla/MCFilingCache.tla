---------------------------- MODULE MCFilingCache ----------------------------
(* Two keys, of two documents or two spellings of one.                         *)
EXTENDS FilingCache, TLC
Symmetric ==
  Permutations(Procs) \cup Permutations(Docs) \cup Permutations(Paths) \cup Permutations(Bodies)
=============================================================================
