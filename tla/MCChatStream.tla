------------------------------ MODULE MCChatStream ------------------------------
(***************************************************************************)
(* ChatStream on every adapter, with texts of up to three words and up to  *)
(* three calls.                                                            *)
(***************************************************************************)
EXTENDS ChatStream
=============================================================================
