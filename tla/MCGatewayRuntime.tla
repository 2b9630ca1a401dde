-------------------------- MODULE MCGatewayRuntime --------------------------
(***************************************************************************)
(* GatewayRuntime for TLC: one or two sessions of a few samples.           *)
(***************************************************************************)
EXTENDS GatewayRuntime

CONSTANTS s1, s2

MCOne == {s1}
MCTwo == {s1, s2}
MCAllCommands == {"segment", "finish", "abort"}
MCFinishAbort == {"finish", "abort"}
MCSegmentFinish == {"segment", "finish"}
MCNoFault == {}
MCSubmitFaults == {"submit fails", "queue timeout"}
MCOutside == {"outside abort", "close", "result error", "disconnect", "wait timeout"}
Symmetry == Permutations(Sessions)
=============================================================================
