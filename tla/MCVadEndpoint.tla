---------------------------- MODULE MCVadEndpoint ----------------------------
(***************************************************************************)
(* Instances of VadEndpoint for TLC: frames of 2 samples, inputs that do   *)
(* and do not line up with frames, and decision windows of one and of two  *)
(* frames.                                                                 *)
(***************************************************************************)
EXTENDS VadEndpoint

MCInputSizes == {1, 3, 5}
=============================================================================
