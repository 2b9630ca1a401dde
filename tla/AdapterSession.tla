---------------------------- MODULE AdapterSession ----------------------------
(***************************************************************************)
(* One session inside a speech backend: _SessionState of SenseVoiceAdapter *)
(* (app/asr_sensevoice.py) and of FasterWhisperAdapter                     *)
(* (app/asr_faster_whisper.py), which accumulate the audio of the segment, *)
(* and QwenVLLMStreamingSession (app/asr.py), which LocalCoordinatorAdapter*)
(* (app/asr_gateway_local_adapter.py) and the direct service reach through *)
(* the inference coordinator.                                              *)
(*                                                                         *)
(* Audio is a sequence of samples, and a sample is its own token of text.  *)
(* The engine is external: the decode of a finished segment is right, the  *)
(* decode of a segment that still grows may be wrong.                      *)
(***************************************************************************)
EXTENDS Transcript

CONSTANTS
    Sessions,
    MaxSamples,      \* bound: the samples of each session's client
    Speech,          \* the samples with speech in them, the others are noise
    Wrong,           \* the token of a wrong decode of each session
    MaxSegment       \* asr_max_utterance_seconds, the same limit everywhere

ASSUME AudioAssumption ==
    /\ MaxSamples \in [Sessions -> Nat]
    /\ Speech \subseteq Nat
    /\ \A s \in Sessions : Wrong[s][2] \notin Speech
    /\ MaxSegment \in Nat \ {0}

Rolling == {"sensevoice", "faster_whisper"}

\* Samples i to j of a session.
Audio(s, i, j) == [n \in 1 .. (j - i + 1) |-> <<s, i + n - 1>>]

\* What the engine makes of audio, and what it may make of it for now.
Decode(pcm) == SelectSeq(pcm, LAMBDA x : x[2] \in Speech)
Hears(s, pcm) == {Decode(pcm), <<Wrong[s]>>}

\* cached: cached_final, a set of at most one text; id: _segment_id of the Qwen
\* session, modulo IdCycle: it is only compared with the active segment of the
\* transcript, which is the same one or the one before.  (A session's language is
\* left out: it only groups the jobs of a batch into engine calls.)
IdCycle == 2
NewAdapterSession == [pcm |-> <<>>, partial |-> <<>>, cached |-> {}, id |-> 0]

-----------------------------------------------------------------------------
(* The rolling adapters *)

\* remaining_segment_samples
RemainingSegment(a) == IF Len(a.pcm) > MaxSegment THEN 0 ELSE MaxSegment - Len(a.pcm)

\* The utterance limit of submit, and the audio it adds before the engine runs.
Overflows(a, pcm) == Len(a.pcm) + Len(pcm) > MaxSegment
Extend(a, pcm) == [a EXCEPT !.pcm = @ \o pcm]

\* The waveform of a job: SenseVoice decodes the whole segment every time,
\* faster-whisper only for a final job.
Waveform(kind, a, pcm, final) ==
    IF kind = "faster_whisper" /\ ~final THEN pcm ELSE a.pcm

\* The end of submit for one job: its session and the text of its result
Decoded(kind, a, final, text) ==
    [a EXCEPT !.cached = IF final THEN {text} ELSE @,
              !.partial = IF kind = "faster_whisper" /\ ~final THEN @ \o text ELSE @]

DecodedText(kind, a, final, text) ==
    IF kind = "faster_whisper" /\ ~final THEN a.partial \o text ELSE text

\* Mutant of Consumed: the audio of the segment stays.
ConsumedKeepsAudio(a) == [a EXCEPT !.partial = <<>>, !.cached = {}]

\* _consume_final: its text, whether it calls the engine, and what it leaves
Consumed(a) == [a EXCEPT !.pcm = <<>>, !.partial = <<>>, !.cached = {}]
ConsumedText(a) == IF a.cached # {} THEN CHOOSE x \in a.cached : TRUE ELSE Decode(a.pcm)
ConsumeCalls(a) == a.cached = {} /\ a.pcm # <<>>

-----------------------------------------------------------------------------
(* QwenVLLMStreamingSession *)

Snapshot(id, text, finished) == [id |-> id, text |-> text, finished |-> finished]

\* Mutant of StartFreshSegment: the state of the model is not initialised.
StartFreshSegmentOldState(a) == [a EXCEPT !.id = (@ + 1) % IdCycle]

StartFreshSegment(a) == [a EXCEPT !.pcm = <<>>, !.id = (@ + 1) % IdCycle]

\* add_pcm_s16le: audio that reaches the utterance limit ends the segment there
\* and goes on in a fresh one.  (A frame is no longer than an utterance, so that
\* it meets the limit once.)
AddPcm(a, pcm) ==
    LET room == MaxSegment - Len(a.pcm)
    IN  IF Len(pcm) < room THEN [a EXCEPT !.pcm = @ \o pcm]
        ELSE [StartFreshSegment(a) EXCEPT !.pcm = SubSeq(pcm, room + 1, Len(pcm))]

\* Its snapshots; the text of a segment that goes on is open.
AddPcmSnapshots(a, pcm, text) ==
    LET room == MaxSegment - Len(a.pcm)
        finished == Snapshot(a.id, Decode(a.pcm \o SubSeq(pcm, 1, room)), TRUE)
    IN  IF Len(pcm) < room THEN <<Snapshot(a.id, text, FALSE)>>
        ELSE IF Len(pcm) = room THEN <<finished>>
        ELSE <<finished, Snapshot(StartFreshSegment(a).id, text, FALSE)>>

\* finish_segment and finish flush the state.
FlushedText(a) == Decode(a.pcm)
=============================================================================
