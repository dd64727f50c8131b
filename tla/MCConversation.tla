----------------------------- MODULE MCConversation -----------------------------
(***************************************************************************)
(* Conversation with two call ids, enough for one round of two calls and   *)
(* for two rounds.                                                         *)
(***************************************************************************)
EXTENDS Adapters

Symmetry == Permutations(CallIds) \cup Permutations(FunctionNames)
=============================================================================
