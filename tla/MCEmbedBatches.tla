----------------------------- MODULE MCEmbedBatches -----------------------------
(***************************************************************************)
(* EmbedBatches with two fallbacks and inputs of up to five texts, in      *)
(* batches of one to three and chunks of two batches: several full chunks, *)
(* a last chunk and a last batch that are partial, models that cut the     *)
(* same input differently, and two models whose late tasks can meet the    *)
(* third.                                                                  *)
(***************************************************************************)
EXTENDS EmbedBatches
=============================================================================
