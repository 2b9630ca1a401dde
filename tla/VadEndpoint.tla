----------------------------- MODULE VadEndpoint -----------------------------
(***************************************************************************)
(* StreamingVADEndpointDetector (app/asr_vad.py): the state machine that   *)
(* decides which samples of a stream reach the model, which are dropped,   *)
(* and where an utterance ends.                                            *)
(*                                                                         *)
(* Buffers are sample counts; their order in the stream is preRoll,        *)
(* candidate, trailing, input.  A call (add_audio, endpoint_finalized,     *)
(* finish_input) is opened, processes one frame per step - the loop of     *)
(* _drain_complete_frames - and returns its decision in a last step.  The  *)
(* VAD model's probability of a frame is chosen freely from the three      *)
(* classes its two thresholds tell apart (onset exceeds offset,            *)
(* app/config.py:225).                                                     *)
(***************************************************************************)
EXTENDS Integers

CONSTANTS
    FrameSamples,      \* frame_samples
    MinSpeech,         \* min_speech_samples
    MinSilence,        \* min_silence_samples
    Hangover,          \* hangover_samples
    PreRoll,           \* pre_roll_samples
    InputSizes,        \* samples in one add_audio call
    MaxInput           \* bound on the samples one behaviour receives

\* _milliseconds_to_samples never returns less than one sample.
ASSUME VadAssumption ==
    /\ FrameSamples \in Nat \ {0}
    /\ MinSpeech \in Nat \ {0}
    /\ MinSilence \in Nat \ {0}
    /\ Hangover \in Nat \ {0}
    /\ PreRoll \in Nat \ {0}
    /\ InputSizes \subseteq Nat
    /\ MaxInput \in Nat

VARIABLES
    state,        \* VADEndpointState
    input,        \* _input_buffer
    preRoll,      \* _pre_roll
    candidate,    \* _candidate
    candSpeech,   \* _candidate_speech_samples
    trailing,     \* _trailing
    call,         \* the open call, or "none"
    audio,        \* audio_to_model of the open call so far
    dropped,      \* discarded_samples of the open call so far
    outcome,      \* "endpoint" once the open call has met one, else "none"
    received,     \* all samples given to the detector
    delivered,    \* all samples its decisions passed on to the model
    discarded,    \* all samples its decisions, or a reset, gave up
    utterance     \* samples answered as audio since the last endpoint

buffers == <<input, preRoll, candidate, candSpeech, trailing>>
answer == <<audio, dropped, outcome>>
totals == <<received, delivered, discarded, utterance>>
vars == <<state, buffers, call, answer, totals>>

States == {"waiting", "candidate", "in_speech", "trailing", "finalizing"}
Calls == {"none", "add", "finalized", "finish"}
Outcomes == {"none", "endpoint"}

\* The open call has met an endpoint.
Endpoint == outcome = "endpoint"

\* Probability classes: at least the onset threshold, between offset and
\* onset, below offset.
Classes == {"speech", "unsure", "silence"}
AboveOffset == {"speech", "unsure"}

Minimum(a, b) == IF a <= b THEN a ELSE b
Excess(n, limit) == IF n > limit THEN n - limit ELSE 0

\* Everything inside the detector.
Held == input + preRoll + candidate + trailing

TypeOK ==
    /\ state \in States
    /\ input \in Nat /\ preRoll \in Nat /\ candidate \in Nat
    /\ candSpeech \in Nat /\ trailing \in Nat
    /\ call \in Calls
    /\ audio \in Nat /\ dropped \in Nat /\ outcome \in Outcomes
    /\ received \in Nat /\ delivered \in Nat /\ discarded \in Nat
    /\ utterance \in Nat

Init ==
    /\ state = "waiting"
    /\ input = 0 /\ preRoll = 0 /\ candidate = 0 /\ candSpeech = 0
    /\ trailing = 0
    /\ call = "none"
    /\ audio = 0 /\ dropped = 0 /\ outcome = "none"
    /\ received = 0 /\ delivered = 0 /\ discarded = 0 /\ utterance = 0

-----------------------------------------------------------------------------
\* Opening a call.

AddAudio(n) ==
    /\ call = "none"
    /\ received + n <= MaxInput
    /\ input' = input + n
    /\ received' = received + n
    /\ call' = "add"
    /\ UNCHANGED <<state, preRoll, candidate, candSpeech, trailing, answer,
                   delivered, discarded, utterance>>

EndpointFinalized ==
    /\ call = "none"
    /\ state = "finalizing"
    /\ state' = "waiting"
    /\ call' = "finalized"
    /\ UNCHANGED <<buffers, answer, totals>>

FinishInput ==
    /\ call = "none"
    /\ call' = "finish"
    /\ UNCHANGED <<state, buffers, answer, totals>>

\* reset: the caller writes off what the detector held.
Reset ==
    /\ call = "none"
    /\ state' = "waiting"
    /\ input' = 0 /\ preRoll' = 0 /\ candidate' = 0 /\ candSpeech' = 0
    /\ trailing' = 0
    /\ discarded' = discarded + Held
    /\ utterance' = 0
    /\ UNCHANGED <<call, answer, received, delivered>>

-----------------------------------------------------------------------------
\* _process_frame: one frame, by the state it finds.

HasFrame ==
    /\ call # "none"
    /\ ~Endpoint
    /\ state # "finalizing"
    /\ input >= FrameSamples

\* Mutants of AppendPreRoll: an excess that may be negative; no trimming.
AppendPreRollUnclamped(n) ==
    /\ preRoll' = Minimum(preRoll + n, PreRoll)
    /\ dropped' = dropped + preRoll + n - PreRoll
AppendPreRollUntrimmed(n) ==
    /\ preRoll' = preRoll + n
    /\ UNCHANGED dropped

\* _append_pre_roll(n): the oldest samples beyond the limit are dropped.
AppendPreRoll(n) ==
    /\ preRoll' = Minimum(preRoll + n, PreRoll)
    /\ dropped' = dropped + Excess(preRoll + n, PreRoll)

\* The candidate, now cand samples of which speech count, becomes speech as
\* soon as it is long enough; until then it is kept back.
PromoteCandidate(cand, speech) ==
    IF speech >= MinSpeech
    THEN /\ state' = "in_speech"
         /\ audio' = audio + cand
         /\ candidate' = 0 /\ candSpeech' = 0
    ELSE /\ state' = "candidate"
         /\ candidate' = cand /\ candSpeech' = speech
         /\ UNCHANGED audio

WaitingFrame(p) ==
    /\ HasFrame /\ state = "waiting"
    /\ input' = input - FrameSamples
    /\ IF p = "speech"
       THEN /\ PromoteCandidate(preRoll + FrameSamples, FrameSamples)
            /\ preRoll' = 0
            /\ UNCHANGED dropped
       ELSE /\ AppendPreRoll(FrameSamples)
            /\ UNCHANGED <<state, candidate, candSpeech, audio>>
    /\ UNCHANGED <<trailing, call, outcome, totals>>

CandidateFrame(p) ==
    /\ HasFrame /\ state = "candidate"
    /\ input' = input - FrameSamples
    /\ IF p \in AboveOffset
       THEN /\ PromoteCandidate(candidate + FrameSamples,
                                candSpeech + FrameSamples)
            /\ UNCHANGED <<preRoll, dropped>>
       ELSE /\ state' = "waiting"
            /\ AppendPreRoll(candidate + FrameSamples)
            /\ candidate' = 0 /\ candSpeech' = 0
            /\ UNCHANGED audio
    /\ UNCHANGED <<trailing, call, outcome, totals>>

\* Mutants of ExtendSilence: what the new pre-roll cannot take is forgotten; no
\* hangover is kept.
ExtendSilenceForgets(n) ==
    IF n < MinSilence
    THEN /\ state' = "trailing"
         /\ trailing' = n
         /\ UNCHANGED <<audio, dropped, preRoll, outcome>>
    ELSE LET keep == Minimum(n, Hangover)
         IN  /\ state' = "finalizing"
             /\ audio' = audio + keep
             /\ preRoll' = Minimum(n - keep, PreRoll)
             /\ trailing' = 0
             /\ outcome' = "endpoint"
             /\ UNCHANGED dropped
ExtendSilenceKeepsNone(n) ==
    IF n < MinSilence
    THEN /\ state' = "trailing"
         /\ trailing' = n
         /\ UNCHANGED <<audio, dropped, preRoll, outcome>>
    ELSE /\ state' = "finalizing"
         /\ preRoll' = Minimum(n, PreRoll)
         /\ dropped' = dropped + Excess(n, PreRoll)
         /\ trailing' = 0
         /\ outcome' = "endpoint"
         /\ UNCHANGED audio

\* A silent frame has made the trailing silence n samples long: keep waiting,
\* or end the utterance - the hangover goes to the model, the rest starts a
\* fresh pre-roll.
ExtendSilence(n) ==
    IF n < MinSilence
    THEN /\ state' = "trailing"
         /\ trailing' = n
         /\ UNCHANGED <<audio, dropped, preRoll, outcome>>
    ELSE LET keep == Minimum(n, Hangover)
         IN  /\ state' = "finalizing"
             /\ audio' = audio + keep
             /\ preRoll' = Minimum(n - keep, PreRoll)
             /\ dropped' = dropped + Excess(n - keep, PreRoll)
             /\ trailing' = 0
             /\ outcome' = "endpoint"

SpeechFrame(p) ==
    /\ HasFrame /\ state = "in_speech"
    /\ input' = input - FrameSamples
    /\ IF p \in AboveOffset
       THEN /\ audio' = audio + FrameSamples
            /\ UNCHANGED <<state, trailing, dropped, preRoll, outcome>>
       ELSE ExtendSilence(FrameSamples)
    /\ UNCHANGED <<candidate, candSpeech, call, totals>>

TrailingFrame(p) ==
    /\ HasFrame /\ state = "trailing"
    /\ input' = input - FrameSamples
    /\ IF p \in AboveOffset
       THEN /\ state' = "in_speech"
            /\ audio' = audio + trailing + FrameSamples
            /\ trailing' = 0
            /\ UNCHANGED <<dropped, preRoll, outcome>>
       ELSE ExtendSilence(trailing + FrameSamples)
    /\ UNCHANGED <<candidate, candSpeech, call, totals>>

-----------------------------------------------------------------------------
\* Returning the decision.

Drained ==
    /\ call # "none"
    /\ Endpoint \/ state = "finalizing" \/ input < FrameSamples

CloseCall ==
    /\ call' = "none"
    /\ audio' = 0 /\ dropped' = 0 /\ outcome' = "none"

Return ==
    /\ Drained
    /\ call \in {"add", "finalized"}
    /\ delivered' = delivered + audio
    /\ discarded' = discarded + dropped
    /\ utterance' = IF Endpoint THEN 0 ELSE utterance + audio
    /\ CloseCall
    /\ UNCHANGED <<state, buffers, received>>

\* finish_input after its drain: what is left goes to the model if it belongs
\* to speech (with at most a hangover of silence, less what this call already
\* hands over), and is dropped otherwise.
FlushAudio ==
    CASE state = "in_speech" -> input
      [] state = "trailing" -> Minimum(trailing, Excess(Hangover, audio))
      [] OTHER -> 0

\* Mutant of FlushDropped: the candidate is forgotten.
FlushDroppedForgets ==
    CASE state = "in_speech" -> preRoll
      [] state = "trailing" -> (trailing - FlushAudio) + input + preRoll
      [] OTHER -> input + preRoll

FlushDropped ==
    CASE state = "in_speech" -> preRoll
      [] state = "trailing" -> (trailing - FlushAudio) + input + preRoll
      [] state = "candidate" -> input + candidate + preRoll
      [] OTHER -> input + preRoll

ReturnFinish ==
    /\ Drained
    /\ call = "finish"
    /\ delivered' = delivered + audio + FlushAudio
    /\ discarded' = discarded + dropped + FlushDropped
    /\ utterance' = IF Endpoint THEN 0 ELSE utterance + audio + FlushAudio
    /\ state' = IF state = "candidate" THEN "waiting" ELSE state
    /\ input' = 0 /\ preRoll' = 0 /\ candidate' = 0 /\ candSpeech' = 0
    /\ trailing' = 0
    /\ CloseCall
    /\ UNCHANGED received

ProcessFrame ==
    \E p \in Classes :
        WaitingFrame(p) \/ CandidateFrame(p) \/ SpeechFrame(p) \/ TrailingFrame(p)

Next ==
    \/ \E n \in InputSizes : AddAudio(n)
    \/ EndpointFinalized
    \/ FinishInput
    \/ Reset
    \/ ProcessFrame
    \/ Return
    \/ ReturnFinish

Spec == Init /\ [][Next]_vars

-----------------------------------------------------------------------------
(* Properties *)

\* Every sample given to the detector is inside it, in the decision being
\* put together, or in a decision already returned.  The gateway's
\* pending_vad is computed by subtraction and is wrong for the rest of the
\* session as soon as one sample is answered twice or forgotten; clearing a
\* pre-roll that is not empty (_process_frame, at the endpoint) or a
\* candidate outside the candidate state (finish_input) would do so.
SamplesConserved ==
    received = delivered + discarded + audio + dropped + Held

\* Between calls, and unless an endpoint is waiting to be acknowledged, the
\* detector keeps back less than a frame and one decision window (pre-roll
\* and undecided speech, or undecided silence), so its latency is bounded.
HeldIsBounded ==
    call = "none" /\ state # "finalizing" =>
        \/ Held < FrameSamples + PreRoll + MinSpeech
        \/ Held < FrameSamples + MinSilence

\* An endpoint ends an utterance that the model has been given: at least the
\* minimum speech duration since the last endpoint, and some trailing silence
\* in the very decision that reports it.  The gateway needs the latter: an
\* endpoint without audio would leave no job to carry the segment boundary,
\* and the detector would stay in its finalizing state.
EndpointHasUtterance ==
    Endpoint => audio > 0 /\ utterance + audio > MinSpeech

\* The gateway's view of the detector (module VadContract).  The decision
\* being put together still counts as held, and an endpoint is visible only
\* once it has been returned.
Contract ==
    INSTANCE VadContract WITH
        held <- Held + audio + dropped,
        awaiting <- (state = "finalizing" /\ ~Endpoint)

\* The detector implements that contract.
ImplementsContract == Contract!CSpec

\* README.md:437: "Silence/noise and short bursts are explicitly discarded by
\* the Gateway."  Audio the detector has not looked at is none of these: what
\* finish_input drops unclassified should be less than a frame.  The code does not
\* guarantee it when an endpoint is awaiting its acknowledgement (asr_vad.py:214,
\* see the README), so no run checks it.
DropsOnlyClassified ==
    [][call = "finish" /\ call' = "none" => input < FrameSamples]_vars
=============================================================================
