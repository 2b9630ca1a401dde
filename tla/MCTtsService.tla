---------------------------- MODULE MCTtsService ----------------------------
(* Small instances of TtsService for TLC. *)
EXTENDS TtsService

CONSTANTS a, b, h

MCSockets == {a, b}
MCPosts == {h}
MCCrowd ==
    [cosyvoice |-> {a, b}, remote |-> {a, h}, triton |-> {a}, qwen |-> {a, b}]
=============================================================================
