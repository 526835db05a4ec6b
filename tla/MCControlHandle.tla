-------------------------- MODULE MCControlHandle --------------------------
(* Small instances of ControlHandle.                                       *)
EXTENDS ControlHandle
=============================================================================
