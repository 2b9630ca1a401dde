---------------------------- MODULE SessionRecord ----------------------------
(***************************************************************************)
(* The data of one gateway session: GatewaySession                         *)
(* (app/asr_gateway_sessions.py) together with the PcmRingBuffer it owns   *)
(* (app/asr_gateway_chunking.py), as one record, and its methods as        *)
(* operators on that record.                                               *)
(*                                                                         *)
(* PCM bytes are abstracted to sample counts and absolute sample cursors.  *)
(* A method that raises leaves the record alone, so each method comes as a *)
(* guard (Can...) saying when it does not raise, and the record it leaves. *)
(***************************************************************************)
EXTENDS Integers

CONSTANT MaxBufferSamples    \* PcmRingBuffer.max_samples

ASSUME MaxBufferAssumption == MaxBufferSamples \in Nat \ {0}

\* TerminalState: the two live states and the three ended ones.
LiveStates == {"open", "finishing"}
EndedStates == {"succeeded", "failed", "aborted"}

\* SessionReservation (job sequence, generation, absolute range, final flag).
\* seq = 0 stands for Python's None: job sequences start at 1.
Reservation == [seq : Nat, gen : Nat, start : Nat, end : Nat, final : BOOLEAN]
NoReservation ==
    [seq |-> 0, gen |-> 0, start |-> 0, end |-> 0, final |-> FALSE]

SessionType ==
    [accepted     : Nat,   \* GatewaySession._accepted_samples
     extDiscarded : Nat,   \* GatewaySession._external_discarded_samples
     bufAccepted  : Nat,   \* PcmRingBuffer.accepted_samples
     base         : Nat,   \* PcmRingBuffer._base_sample
     data         : Nat,   \* len(PcmRingBuffer._data) // 2
     acked        : Nat,   \* PcmRingBuffer.acknowledged_samples
     discarded    : Nat,   \* PcmRingBuffer.discarded_samples
     res          : Reservation,
     nextSeq      : Nat,
     gen          : Nat,
     state        : LiveStates \cup EndedStates,
     finishReq    : BOOLEAN]

NewSession ==
    [accepted |-> 0, extDiscarded |-> 0, bufAccepted |-> 0, base |-> 0,
     data |-> 0, acked |-> 0, discarded |-> 0, res |-> NoReservation,
     nextSeq |-> 1, gen |-> 1, state |-> "open", finishReq |-> FALSE]

-----------------------------------------------------------------------------
\* Derived quantities: sample_accounting and in_flight.

InFlight(s) == s.res # NoReservation
Reserved(s) == s.res.end - s.res.start
Buffered(s) == s.data - Reserved(s)

PendingVad(s) ==
    LET diff == s.accepted - s.bufAccepted - s.extDiscarded
    IN  IF diff > 0 THEN diff ELSE 0

-----------------------------------------------------------------------------
\* append_pcm over PcmRingBuffer.append; with count_accepted=False for audio
\* that was already accepted on its way into the gateway's VAD (HandOver).

CanAppend(s, n) ==
    /\ s.state \in LiveStates
    /\ s.data + n <= MaxBufferSamples

HandOver(s, n) ==
    [s EXCEPT !.data = @ + n, !.bufAccepted = @ + n]

AppendPcm(s, n) == [HandOver(s, n) EXCEPT !.accepted = @ + n]

\* Mutant of CanAcceptVad: the samples inside the VAD are forgotten.
CanAcceptVadIgnoresVad(s, n) == Buffered(s) + Reserved(s) + n <= MaxBufferSamples

\* accept_vad_input: bounded by everything the session already holds, the
\* samples inside the VAD included; it does not look at the terminal state.
CanAcceptVad(s, n) ==
    Buffered(s) + Reserved(s) + PendingVad(s) + n <= MaxBufferSamples

AcceptVad(s, n) == [s EXCEPT !.accepted = @ + n]

\* record_discarded
CanRecordDiscarded(s, n) == n <= PendingVad(s)
RecordDiscarded(s, n) == [s EXCEPT !.extDiscarded = @ + n]

\* reserve over PcmRingBuffer.reserve_range
CanReserve(s, n) == ~InFlight(s) /\ 0 < n /\ n <= Buffered(s)

NewReservation(s, n, final) ==
    [seq |-> s.nextSeq, gen |-> s.gen, start |-> s.base, end |-> s.base + n,
     final |-> final]

Reserve(s, n, final) ==
    [s EXCEPT !.res = NewReservation(s, n, final), !.nextSeq = @ + 1]

\* matches_reservation, acknowledge and rollback
MatchesReservation(s, j) ==
    /\ s.res.seq = j.seq
    /\ s.res.gen = s.gen
    /\ s.res.start = j.start
    /\ s.res.end = j.end

\* Mutants of Acknowledge: an absolute cursor taken for a length; a cursor that
\* stays behind; the whole buffer acknowledged instead of the reservation.
AcknowledgeAbsolute(s) ==
    [s EXCEPT !.data = @ - s.res.end, !.base = s.res.end,
              !.acked = @ + Reserved(s), !.res = NoReservation]
AcknowledgeKeepsCursor(s) ==
    [s EXCEPT !.data = @ - Reserved(s), !.acked = @ + Reserved(s),
              !.res = NoReservation]
AcknowledgeWholeBuffer(s) ==
    [s EXCEPT !.data = 0, !.base = @ + s.data, !.acked = @ + s.data,
              !.res = NoReservation]

Acknowledge(s) ==
    [s EXCEPT !.data = @ - Reserved(s),
              !.base = s.res.end,
              !.acked = @ + Reserved(s),
              !.res = NoReservation]

Rollback(s) == [s EXCEPT !.res = NoReservation]

\* request_finish looks at finish_requested only, not at the terminal state.
RequestFinish(s) ==
    IF s.finishReq THEN s
    ELSE [s EXCEPT !.finishReq = TRUE, !.state = "finishing"]

\* Mutants of AbortSession: the dropped samples are not counted; the reservation
\* is not rolled back.
AbortSessionUncounted(s) ==
    IF s.state \in {"aborted", "failed"} THEN s
    ELSE [s EXCEPT !.res = NoReservation, !.base = @ + s.data, !.data = 0,
                   !.extDiscarded = @ + PendingVad(s), !.gen = @ + 1,
                   !.state = "aborted"]
AbortSessionKeepsReservation(s) ==
    IF s.state \in {"aborted", "failed"} THEN s
    ELSE [s EXCEPT !.gen = @ + 1, !.state = "aborted"]

\* abort: roll the reservation back, discard what is buffered, write off what
\* the VAD holds, and start a new generation.
AbortSession(s) ==
    IF s.state \in {"aborted", "failed"} THEN s
    ELSE [s EXCEPT !.res = NoReservation,
                   !.discarded = @ + s.data,
                   !.base = @ + s.data,
                   !.data = 0,
                   !.extDiscarded = @ + PendingVad(s),
                   !.gen = @ + 1,
                   !.state = "aborted"]

FailSession(s) == [AbortSession(s) EXCEPT !.state = "failed"]

CanSucceed(s) == Buffered(s) = 0 /\ Reserved(s) = 0
Succeed(s) == [s EXCEPT !.state = "succeeded"]

\* SessionManager.close: a context that leaves the table with its session not
\* aborted or failed gets a new generation, so late results are stale.
CloseSession(s) ==
    IF s.state \in {"aborted", "failed"} THEN s ELSE [s EXCEPT !.gen = @ + 1]
=============================================================================
