---------------------------------- MODULE Null ----------------------------------
(***************************************************************************)
(* The absent value: Go's nil and missing map entries, Python's None.      *)
(***************************************************************************)
CONSTANT NULL
=============================================================================
