-------------------------- MODULE MCGatewaySession --------------------------
(***************************************************************************)
(* Instances of GatewaySession for TLC.  Sample counts are scaled down: a  *)
(* frame is 1 or 2 samples, the buffer holds MaxBufferSamples of them, and *)
(* the session accepts MaxAudioSamples in all, more than one buffer full.  *)
(***************************************************************************)
EXTENDS GatewaySession

MCFrameSizes == {1, 2}

=============================================================================
