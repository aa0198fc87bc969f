------------------------------ MODULE MCDoAll ------------------------------
(***************************************************************************)
(* Two nodes; the first outer item is on the node of the CP, the second on *)
(* the other one.                                                          *)
(***************************************************************************)
EXTENDS DoAll
=============================================================================
