----------------------------- MODULE MCAdminCatalog -----------------------------
(***************************************************************************)
(* AdminCatalog with two tenants, a scope the API does not know, and two   *)
(* assistants, so that a clone and its source can both be edited.          *)
(***************************************************************************)
EXTENDS AdminCatalog, TLC

Symmetry == Permutations(Asts) \cup Permutations(Tenants)
=============================================================================
