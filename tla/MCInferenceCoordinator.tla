------------------------ MODULE MCInferenceCoordinator ------------------------
(* Small instances of InferenceCoordinator for TLC. *)
EXTENDS InferenceCoordinator, TLC

CONSTANTS s1, s2, s3

\* One session id more than there are slots: a third stream meets the limit.
MCSessions == {s1, s2, s3}
MCEagerModes == {TRUE, FALSE}
MCLazy == {FALSE}
MCStreams == {"create_stream", "add_audio"}
MCMixed == {"create_stream", "add_audio", "finish_segment", "finish_stream", "transcribe_file"}
MCOneSession == {s1}
MCSymmetry == Permutations(MCSessions)
===============================================================================
