----------------------------- MODULE MCMemoryState -----------------------------
(***************************************************************************)
(* MemoryState on three goroutines: enough for two readers and a writer to *)
(* meet in every order, and for a third request to find what they leave;   *)
(* and on three external ids, so that two tenants can ask for a third one. *)
(***************************************************************************)
EXTENDS MemoryState, TLC

Symmetry ==
  Permutations(Goroutines) \cup Permutations(Ids) \cup Permutations(Exts)
=============================================================================
