----------------------------- MODULE VadContract -----------------------------
(***************************************************************************)
(* What the gateway relies on when it puts a VAD in front of a session     *)
(* (module GatewaySession): the detector is a box that holds samples.  A   *)
(* call answers with a number of samples for the model, a number dropped,  *)
(* and whether an utterance ended; it never answers with more than it      *)
(* holds, an endpoint always brings audio with it, and after an endpoint   *)
(* the box answers nothing until the endpoint has been acknowledged.       *)
(***************************************************************************)
EXTENDS Naturals

VARIABLES
    held,        \* samples inside the box
    delivered,   \* samples answered as audio for the model, in all
    discarded,   \* samples given up, in all
    awaiting,    \* an endpoint was answered and not acknowledged yet
    call         \* the call being answered, or "none"

cvars == <<held, delivered, discarded, awaiting, call>>

CInit ==
    /\ held = 0 /\ delivered = 0 /\ discarded = 0
    /\ awaiting = FALSE
    /\ call = "none"

\* add_audio: the box takes some samples in.
Accept ==
    /\ call = "none"
    /\ held' \in Nat /\ held' >= held
    /\ call' = "add"
    /\ UNCHANGED <<delivered, discarded, awaiting>>

\* endpoint_finalized
Resume ==
    /\ call = "none" /\ awaiting
    /\ awaiting' = FALSE
    /\ call' = "finalized"
    /\ UNCHANGED <<held, delivered, discarded>>

\* finish_input
Flush ==
    /\ call = "none"
    /\ call' = "finish"
    /\ UNCHANGED <<held, delivered, discarded, awaiting>>

\* What leaves the box is delivered or discarded.
Releases ==
    /\ held' \in Nat
    /\ delivered' >= delivered /\ discarded' >= discarded
    /\ held' + delivered' + discarded' = held + delivered + discarded

\* The decision of add_audio or endpoint_finalized.
Answer ==
    /\ call \in {"add", "finalized"}
    /\ Releases
    /\ awaiting => UNCHANGED <<held, awaiting>>
    /\ awaiting' /\ ~awaiting => delivered' > delivered
    /\ awaiting' \in BOOLEAN
    /\ call' = "none"

\* The decision of finish_input: the box is emptied.
AnswerFlush ==
    /\ call = "finish"
    /\ Releases
    /\ held' = 0
    /\ awaiting' \in BOOLEAN
    /\ call' = "none"

\* reset, of an aborted session: the caller writes off what was inside.
Reset ==
    /\ call = "none"
    /\ Releases
    /\ held' = 0 /\ delivered' = delivered
    /\ awaiting' = FALSE
    /\ UNCHANGED call

CNext == Accept \/ Resume \/ Flush \/ Answer \/ AnswerFlush \/ Reset

CSpec == CInit /\ [][CNext]_cvars
=============================================================================
