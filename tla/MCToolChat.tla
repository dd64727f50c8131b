------------------------------- MODULE MCToolChat -------------------------------
(***************************************************************************)
(* ToolChat with one collection, which the assistant may name twice, and   *)
(* two records in every state an admin can have left them: enough for a    *)
(* duplicate within a collection and across two listings; one edit that    *)
(* falls anywhere; two iterations of up to two calls each; and histories   *)
(* that are plain, that hold an answered call (the hub numbers its own     *)
(* from 1), and that the LLM hub refuses.                                  *)
(***************************************************************************)
EXTENDS ToolChat

ClientHistories ==
  { <<Text("user", "text")>>,
    <<Calls(<<0>>), Function(0)>>,
    <<Calls(<<0>>)>> }
=============================================================================
