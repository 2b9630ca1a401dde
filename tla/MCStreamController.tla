------------------------- MODULE MCStreamController -------------------------
(* Small instances of StreamController for TLC. *)
EXTENDS StreamController

CONSTANTS s1, s2

MCOneSession == {s1}
MCTwoSessions == {s1, s2}
MCEager == {TRUE}
MCBothModes == {"stateful", "chunked"}
MCOperations ==
    {"create_stream", "create_chunked_stream", "add_audio", "finish_segment",
     "finish_stream", "transcribe_stream_chunk", "transcribe_file"}
=============================================================================
