-------------------------- MODULE VadEndpointProofs --------------------------
(***************************************************************************)
(* The endpoint detector for every frame size, every set of windows and    *)
(* every stream: its safety invariants, and that it implements the         *)
(* contract the gateway session relies on.                                 *)
(***************************************************************************)
EXTENDS VadEndpoint, TLAPS

\* Which buffers can be non-empty in which state, and how full they get.  It
\* is what makes the uncounted clears of the code harmless.
BufferDiscipline ==
    /\ state # "candidate" => candidate = 0 /\ candSpeech = 0
    /\ state # "trailing" => trailing = 0
    /\ state \notin {"waiting", "finalizing"} => preRoll = 0
    /\ preRoll <= PreRoll
    /\ candSpeech < MinSpeech
    /\ candSpeech <= candidate /\ candidate <= PreRoll + candSpeech
    /\ trailing < MinSilence

\* What the decision being put together looks like.
CallDiscipline ==
    /\ Endpoint => state = "finalizing" /\ call # "none"
    /\ call = "none" => audio = 0 /\ dropped = 0
    /\ call = "none" /\ state # "finalizing" => input < FrameSamples
    /\ state = "finalizing" /\ ~Endpoint => audio = 0 /\ dropped = 0

\* The utterance that an endpoint will end has reached the model.
SpeechDelivered ==
    /\ state \in {"in_speech", "trailing"} => utterance + audio >= MinSpeech
    /\ EndpointHasUtterance

IInv ==
    /\ TypeOK
    /\ SamplesConserved
    /\ BufferDiscipline
    /\ CallDiscipline
    /\ SpeechDelivered

LEMMA InitIInv == Init => IInv
BY VadAssumption
   DEF VadAssumption, Init, IInv, TypeOK, SamplesConserved, BufferDiscipline, CallDiscipline,
       SpeechDelivered, EndpointHasUtterance, Held, States, Calls, Outcomes,
        Endpoint

\* Opening a call, and reset.
LEMMA OpenIInv ==
    ASSUME IInv,
           \/ \E n \in InputSizes : AddAudio(n)
           \/ EndpointFinalized
           \/ FinishInput
           \/ Reset
    PROVE  IInv'
<1> USE VadAssumption
    DEF VadAssumption, IInv, TypeOK, SamplesConserved, BufferDiscipline, CallDiscipline,
        SpeechDelivered, EndpointHasUtterance, Held, States, Calls, Outcomes,
        Endpoint,
        buffers, answer, totals
<1>1. ASSUME NEW n \in InputSizes, AddAudio(n) PROVE IInv'
  BY <1>1 DEF AddAudio
<1>2. CASE EndpointFinalized
  BY <1>2 DEF EndpointFinalized
<1>3. CASE FinishInput
  BY <1>3 DEF FinishInput
<1>4. CASE Reset
  BY <1>4 DEF Reset
<1> QED BY <1>1, <1>2, <1>3, <1>4

\* One frame.
LEMMA FrameIInv ==
    ASSUME IInv, ProcessFrame
    PROVE  IInv'
<1> USE VadAssumption
    DEF VadAssumption, IInv, TypeOK, SamplesConserved, BufferDiscipline, CallDiscipline,
        SpeechDelivered, EndpointHasUtterance, Held, States, Calls, Outcomes,
        Endpoint, Classes,
        AboveOffset, totals, HasFrame, Minimum, Excess
<1>1. ASSUME NEW p \in Classes, WaitingFrame(p) PROVE IInv'
  <2>1. CASE p = "speech"
    BY <1>1, <2>1 DEF WaitingFrame, PromoteCandidate
  <2>2. CASE p # "speech"
    BY <1>1, <2>2 DEF WaitingFrame, AppendPreRoll
  <2> QED BY <2>1, <2>2
<1>2. ASSUME NEW p \in Classes, CandidateFrame(p) PROVE IInv'
  <2>1. CASE p \in AboveOffset
    BY <1>2, <2>1 DEF CandidateFrame, PromoteCandidate
  <2>2. CASE p \notin AboveOffset
    BY <1>2, <2>2 DEF CandidateFrame, AppendPreRoll
  <2> QED BY <2>1, <2>2
<1>3. ASSUME NEW p \in Classes, SpeechFrame(p) PROVE IInv'
  <2>1. CASE p \in AboveOffset
    BY <1>3, <2>1 DEF SpeechFrame
  <2>2. CASE p \notin AboveOffset
    BY <1>3, <2>2 DEF SpeechFrame, ExtendSilence
  <2> QED BY <2>1, <2>2
<1>4. ASSUME NEW p \in Classes, TrailingFrame(p) PROVE IInv'
  <2>1. CASE p \in AboveOffset
    BY <1>4, <2>1 DEF TrailingFrame
  <2>2. CASE p \notin AboveOffset
    BY <1>4, <2>2 DEF TrailingFrame, ExtendSilence
  <2> QED BY <2>1, <2>2
<1> QED BY <1>1, <1>2, <1>3, <1>4 DEF ProcessFrame

\* Returning a decision.
LEMMA ReturnIInv ==
    ASSUME IInv, Return \/ ReturnFinish
    PROVE  IInv'
<1> USE VadAssumption
    DEF VadAssumption, IInv, TypeOK, SamplesConserved, BufferDiscipline, CallDiscipline,
        SpeechDelivered, EndpointHasUtterance, Held, States, Calls, Outcomes,
        Endpoint,
        buffers, Drained, CloseCall
<1>1. CASE Return
  BY <1>1 DEF Return
<1>2. CASE ReturnFinish
  BY <1>2 DEF ReturnFinish, FlushAudio, FlushDropped, Minimum, Excess
<1> QED BY <1>1, <1>2

LEMMA StutterIInv ==
    ASSUME IInv, UNCHANGED vars
    PROVE  IInv'
BY DEF IInv, TypeOK, SamplesConserved, BufferDiscipline, CallDiscipline,
       SpeechDelivered, EndpointHasUtterance, Endpoint, Held, vars, buffers, answer,
       totals

LEMMA StepIInv == IInv /\ [Next]_vars => IInv'
BY OpenIInv, FrameIInv, ReturnIInv, StutterIInv DEF Next

\* The inductive invariant holds in every reachable state of the detector.
LEMMA AlwaysIInv == Spec => []IInv
BY InitIInv, StepIInv, PTL DEF Spec

\* The detector's variables keep their types (StreamingVADEndpointDetector):
\* in particular no buffer length is ever driven below zero.
THEOREM TypeCorrect == Spec => []TypeOK
BY AlwaysIInv, PTL DEF IInv

\* No sample is lost or answered twice by add_audio, endpoint_finalized,
\* finish_input or reset, for every frame size and every decision window.
THEOREM ConservesSamples == Spec => []SamplesConserved
BY AlwaysIInv, PTL DEF IInv

\* Between calls the detector keeps back a bounded amount of audio.
THEOREM BoundsHeld == Spec => []HeldIsBounded
<1>1. IInv => HeldIsBounded
  BY VadAssumption
     DEF VadAssumption, IInv, TypeOK, BufferDiscipline, CallDiscipline,
         HeldIsBounded, Held, States
<1> QED BY <1>1, AlwaysIInv, PTL

\* Every endpoint ends an utterance of at least the minimum speech duration,
\* and reports it in a decision that carries audio.
THEOREM EndsUtterances == Spec => []EndpointHasUtterance
BY AlwaysIInv, PTL DEF IInv, SpeechDelivered

-----------------------------------------------------------------------------
(* The contract *)

LEMMA InitContract == Init => Contract!CInit
BY DEF Init, Contract!CInit, Held, Endpoint

\* Opening a call and reset are steps of the contract.
LEMMA OpenContract ==
    ASSUME IInv,
           \/ \E n \in InputSizes : AddAudio(n)
           \/ EndpointFinalized
           \/ FinishInput
           \/ Reset
    PROVE  Contract!CNext
<1> USE VadAssumption
    DEF VadAssumption, IInv, TypeOK, CallDiscipline, Held, Endpoint, Calls,
        buffers, answer, totals
<1>1. ASSUME NEW n \in InputSizes, AddAudio(n) PROVE Contract!Accept
  BY <1>1 DEF AddAudio, Contract!Accept
<1>2. ASSUME EndpointFinalized PROVE Contract!Resume
  BY <1>2 DEF EndpointFinalized, Contract!Resume
<1>3. ASSUME FinishInput PROVE Contract!Flush
  BY <1>3 DEF FinishInput, Contract!Flush
<1>4. ASSUME Reset PROVE Contract!Reset
  BY <1>4 DEF Reset, Contract!Reset, Contract!Releases
<1> QED BY <1>1, <1>2, <1>3, <1>4 DEF Contract!CNext

\* A frame moves samples between the buffers and the decision being put
\* together: the contract sees nothing.
LEMMA FrameContract ==
    ASSUME IInv, ProcessFrame
    PROVE  UNCHANGED Contract!cvars
<1> USE VadAssumption
    DEF VadAssumption, IInv, TypeOK, BufferDiscipline, Held, Endpoint, Classes,
        AboveOffset, totals, HasFrame, Minimum, Excess, Contract!cvars
<1>1. ASSUME NEW p \in Classes, WaitingFrame(p) PROVE UNCHANGED Contract!cvars
  BY <1>1 DEF WaitingFrame, PromoteCandidate, AppendPreRoll
<1>2. ASSUME NEW p \in Classes, CandidateFrame(p) PROVE UNCHANGED Contract!cvars
  BY <1>2 DEF CandidateFrame, PromoteCandidate, AppendPreRoll
<1>3. ASSUME NEW p \in Classes, SpeechFrame(p) PROVE UNCHANGED Contract!cvars
  BY <1>3 DEF SpeechFrame, ExtendSilence
<1>4. ASSUME NEW p \in Classes, TrailingFrame(p) PROVE UNCHANGED Contract!cvars
  BY <1>4 DEF TrailingFrame, ExtendSilence
<1> QED BY <1>1, <1>2, <1>3, <1>4 DEF ProcessFrame

\* A returned decision is an answer the contract allows.
LEMMA ReturnContract ==
    ASSUME IInv, Return \/ ReturnFinish
    PROVE  Contract!CNext
<1> USE VadAssumption
    DEF VadAssumption, IInv, TypeOK, BufferDiscipline, CallDiscipline,
        SpeechDelivered, EndpointHasUtterance, Held, Endpoint, States, Calls,
        buffers, Drained, CloseCall
<1>1. ASSUME Return PROVE Contract!Answer
  BY <1>1 DEF Return, Contract!Answer, Contract!Releases
<1>2. ASSUME ReturnFinish PROVE Contract!AnswerFlush
  <2>1. FlushAudio \in Nat /\ FlushDropped \in Nat
        /\ FlushAudio + FlushDropped = Held
    BY DEF FlushAudio, FlushDropped, Minimum, Excess
  <2> QED BY <1>2, <2>1 DEF ReturnFinish, Contract!AnswerFlush, Contract!Releases
<1> QED BY <1>1, <1>2 DEF Contract!CNext

\* The detector implements the contract the gateway session is modelled
\* against: its calls never answer more than was given, flush completely,
\* and report an endpoint only together with audio.
THEOREM Implements == Spec => ImplementsContract
<1>1. IInv /\ [Next]_vars => [Contract!CNext]_(Contract!cvars)
  <2> SUFFICES ASSUME IInv, [Next]_vars
               PROVE  [Contract!CNext]_(Contract!cvars)
    OBVIOUS
  <2>1. CASE UNCHANGED vars
    BY <2>1 DEF vars, buffers, answer, totals, Held, Endpoint, Contract!cvars
  <2>2. CASE Next
    BY <2>2, OpenContract, FrameContract, ReturnContract DEF Next
  <2> QED BY <2>1, <2>2
<1> QED BY <1>1, InitContract, AlwaysIInv, PTL
        DEF Spec, ImplementsContract, Contract!CSpec
=============================================================================
