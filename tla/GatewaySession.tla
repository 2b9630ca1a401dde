--------------------------- MODULE GatewaySession ---------------------------
(***************************************************************************)
(* One gateway session as the runtime drives it (app/asr_gateway.py): the  *)
(* WebSocket handler appends audio, asks for chunks and ends the session,  *)
(* the scheduler later returns or rejects the jobs it was given, and the   *)
(* two interleave in any order the event loop allows.                      *)
(*                                                                         *)
(* The gateway's VAD is represented by its contract (module VadContract,   *)
(* which VadEndpoint is shown to implement): it holds samples, and a call  *)
(* hands some of them back as speech and drops some, never more than it    *)
(* holds.  Which samples it chooses is left open.                          *)
(***************************************************************************)
EXTENDS SessionRecord

CONSTANTS
    FrameSizes,        \* samples in one incoming WebSocket frame
    MaxAudioSamples,   \* settings.asr_max_audio_seconds * sample_rate
    MaxJobs            \* bound on the job sequences a behaviour uses

ASSUME SessionAssumption ==
    /\ FrameSizes \subseteq Nat \ {0}
    /\ MaxAudioSamples \in Nat
    /\ MaxJobs \in Nat

VARIABLES
    s,               \* the GatewaySession
    held,            \* samples inside the VAD endpoint detector
    jobs,            \* reservations handed to the scheduler, not yet returned
    backend,         \* "open" while the adapter knows the session
    terminalEvents,  \* asr_session_terminal events emitted so far
    handler,         \* "reading" while the handler is in its receive loop
    context,         \* "live" while the runtime has a context for the session
    vadMode          \* capabilities.vad_mode; "none" stands for all but GATEWAY

vars == <<s, held, jobs, backend, terminalEvents, handler, context, vadMode>>

BackendOpen == backend = "open"
Reading == handler = "reading"
Live == context = "live"

TypeOK ==
    /\ s \in SessionType
    /\ held \in Nat
    /\ jobs \subseteq Reservation
    /\ backend \in {"open", "closed"}
    /\ terminalEvents \in Nat
    /\ handler \in {"reading", "done"}
    /\ context \in {"live", "released"}
    /\ vadMode \in {"none", "gateway"}

Init ==
    /\ s = NewSession
    /\ held = 0
    /\ jobs = {}
    /\ backend = "open"
    /\ terminalEvents = 0
    /\ handler = "reading"
    /\ context = "live"
    /\ vadMode \in {"none", "gateway"}

-----------------------------------------------------------------------------
\* Audio.  The handler leaves its receive loop on finish, abort and errors,
\* and refuses audio beyond the duration limit.

Receives(n) ==
    /\ Live /\ Reading
    /\ s.accepted + n <= MaxAudioSamples

\* A binary frame of a session without gateway VAD.
Ingest(n) ==
    /\ Receives(n)
    /\ vadMode # "gateway"
    /\ CanAppend(s, n)
    /\ s' = AppendPcm(s, n)
    /\ UNCHANGED <<held, jobs, backend, terminalEvents, handler, context, vadMode>>

\* A binary frame of a session with gateway VAD: the frame is accepted, the
\* VAD hands back audio and drops some, and both are entered in the session.
IngestVad(n, audio, dropped) ==
    /\ Receives(n)
    /\ vadMode = "gateway"
    /\ CanAcceptVad(s, n)
    /\ audio + dropped <= held + n
    /\ held' = held + n - (audio + dropped)
    /\ LET accepted == AcceptVad(s, n)
           handed == HandOver(accepted, audio)
       IN  /\ audio > 0 => CanAppend(accepted, audio)
           /\ CanRecordDiscarded(handed, dropped)
           /\ s' = RecordDiscarded(handed, dropped)
    /\ UNCHANGED <<jobs, backend, terminalEvents, handler, context, vadMode>>

\* The same frame when the hand-over raises: the session was ended by another
\* task while the frame was on its way.  The frame has been accepted and the
\* VAD has let go of its audio, and nothing more is recorded.
IngestVadRaises(n, audio, dropped) ==
    /\ Receives(n)
    /\ vadMode = "gateway"
    /\ CanAcceptVad(s, n)
    /\ audio + dropped <= held + n
    /\ held' = held + n - (audio + dropped)
    /\ LET accepted == AcceptVad(s, n)
       IN  IF audio > 0
           THEN ~CanAppend(accepted, audio) /\ s' = accepted
           ELSE ~CanRecordDiscarded(accepted, dropped) /\ s' = accepted
    /\ handler' = "done"
    /\ UNCHANGED <<jobs, backend, terminalEvents, context, vadMode>>

\* _schedule_next reserves a chunk and enqueues its job.
Schedule(n, final) ==
    /\ Live
    /\ CanReserve(s, n)
    /\ s.nextSeq <= MaxJobs
    /\ s' = Reserve(s, n, final)
    /\ jobs' = jobs \cup {NewReservation(s, n, final)}
    /\ UNCHANGED <<held, backend, terminalEvents, handler, context, vadMode>>

\* _schedule_next when scheduler.enqueue raises: the reservation is rolled
\* back, its job sequence is spent.
ScheduleRefused(n) ==
    /\ Live
    /\ CanReserve(s, n)
    /\ s.nextSeq <= MaxJobs
    /\ s' = Rollback(Reserve(s, n, FALSE))
    /\ UNCHANGED <<held, jobs, backend, terminalEvents, handler, context, vadMode>>

-----------------------------------------------------------------------------
\* The scheduler gives a job back.  It owns the job until then, whatever
\* happened to the session in between.

\* _cleanup_job after the adapter answered: acknowledge, or a stale result.
CleanupJob(j) ==
    /\ j \in jobs
    /\ jobs' = jobs \ {j}
    /\ s' = IF Live /\ j.gen = s.gen /\ MatchesReservation(s, j)
            THEN Acknowledge(s) ELSE s
    /\ UNCHANGED <<held, backend, terminalEvents, handler, context, vadMode>>

\* _reject_job for an expired, cancelled or failed-worker job.
RejectJob(j) ==
    /\ j \in jobs
    /\ jobs' = jobs \ {j}
    /\ s' = IF Live /\ j.gen = s.gen /\ s.res.seq = j.seq
            THEN Rollback(s) ELSE s
    /\ UNCHANGED <<held, backend, terminalEvents, handler, context, vadMode>>

\* _apply_result_locked reaches endpoint_finalized: the VAD resumes and may
\* hand back audio that arrived while it was finalizing.  The append is not
\* protected by back-pressure here.
EndpointFinalized(audio, dropped) ==
    /\ Live /\ vadMode = "gateway"
    /\ s.state \in LiveStates /\ BackendOpen
    /\ 0 < audio + dropped /\ audio + dropped <= held
    /\ audio > 0 => CanAppend(s, audio)
    /\ LET handed == HandOver(s, audio)
       IN  /\ CanRecordDiscarded(handed, dropped)
           /\ s' = RecordDiscarded(handed, dropped)
    /\ held' = held - (audio + dropped)
    /\ UNCHANGED <<jobs, backend, terminalEvents, handler, context, vadMode>>

-----------------------------------------------------------------------------
\* Ending the session.

\* finish() up to request_finish: the VAD is flushed, so everything it holds
\* is either handed over or dropped.
Finish(audio) ==
    /\ Live /\ Reading
    /\ audio <= held
    /\ vadMode = "gateway" \/ held = 0
    /\ held' = 0
    /\ audio > 0 => CanAppend(s, audio)
    /\ LET handed == HandOver(s, audio)
       IN  /\ CanRecordDiscarded(handed, held - audio)
           /\ s' = RequestFinish(RecordDiscarded(handed, held - audio))
    /\ handler' = "done"
    /\ UNCHANGED <<jobs, backend, terminalEvents, context, vadMode>>

\* The rest of finish(): finish_session, the final event, succeed.  The
\* adapter raises when an abort has removed the session from it.
FinishSucceeds ==
    /\ Live /\ s.finishReq /\ BackendOpen
    /\ CanSucceed(s)
    /\ s' = Succeed(s)
    /\ backend' = "closed"
    /\ terminalEvents' = terminalEvents + 1
    /\ UNCHANGED <<held, jobs, handler, context, vadMode>>

\* _fail_session: a result error, lag, a deadline or a protocol error.  Its
\* callers first check that no terminal event was produced yet, which the
\* first failure does together with dropping the adapter's session.  The
\* handler keeps reading if the scheduler's result path failed the session.
Fail ==
    /\ Live /\ s.state \in LiveStates /\ BackendOpen
    /\ s' = FailSession(s)
    /\ backend' = "closed"
    /\ terminalEvents' = terminalEvents + 1
    /\ handler' \in {handler, "done"}
    /\ UNCHANGED <<held, jobs, context, vadMode>>

\* enqueue_abort: the client's abort command.
EnqueueAbort ==
    /\ Live /\ Reading
    /\ s' = AbortSession(s)
    /\ held' = 0
    /\ backend' = "closed"
    /\ terminalEvents' = terminalEvents + 1
    /\ handler' = "done"
    /\ UNCHANGED <<jobs, context, vadMode>>

\* abort() followed by _release_session: disconnect, drain and shutdown.
Abort ==
    /\ Live
    /\ context' = "released"
    /\ IF s.state \in EndedStates
       THEN /\ s' = CloseSession(s)
            /\ UNCHANGED <<held, backend, terminalEvents>>
       ELSE /\ s' = CloseSession(AbortSession(s))
            /\ held' = 0
            /\ backend' = "closed"
            /\ terminalEvents' = terminalEvents + 1
    /\ UNCHANGED <<jobs, handler, vadMode>>

Next ==
    \/ \E n \in FrameSizes :
        \/ Ingest(n)
        \/ \E audio, dropped \in 0 .. held + n :
            IngestVad(n, audio, dropped) \/ IngestVadRaises(n, audio, dropped)
    \/ \E n \in 1 .. Buffered(s) :
        \/ \E final \in BOOLEAN : Schedule(n, final)
        \/ ScheduleRefused(n)
    \/ \E j \in jobs : CleanupJob(j) \/ RejectJob(j)
    \/ \E audio, dropped \in 0 .. held : EndpointFinalized(audio, dropped)
    \/ \E audio \in 0 .. held : Finish(audio)
    \/ FinishSucceeds
    \/ Fail
    \/ EnqueueAbort
    \/ Abort

Spec == Init /\ [][Next]_vars

-----------------------------------------------------------------------------
(* Properties *)

\* Every accepted sample is in exactly one place: buffered, reserved by the
\* job in flight, acknowledged, discarded, or inside the VAD
\* (sample_accounting).  Its clamp max(0, ...) would hide a VAD that handed
\* over more than it was given, or a discard entered twice.
Conservation ==
    s.accepted = Buffered(s) + Reserved(s) + s.acked
                 + s.discarded + s.extDiscarded + PendingVad(s)

\* The session never holds more than its limit, audio inside the VAD
\* included, and while it is running what the session believes to be inside
\* the VAD is what the VAD has.  So the hand-overs that have no back-pressure
\* (endpoint_finalized in _apply_result_locked, finish_input in finish) can
\* never meet the session_pcm_limit error.
HandOverFits ==
    /\ s.data + PendingVad(s) <= MaxBufferSamples
    /\ BackendOpen => held = PendingVad(s)

\* A session in flight is waiting for a job the scheduler really has, with
\* the same generation and range; otherwise nothing would ever release the
\* reservation and the session would be stuck.
ReservationIsOwned ==
    InFlight(s) => s.res \in jobs /\ s.res.gen = s.gen

\* Buffer cursors: the buffer starts where decoding and discarding stopped,
\* and the reservation is a prefix of it.
CursorsAgree ==
    /\ s.base = s.acked + s.discarded
    /\ s.bufAccepted = s.base + s.data
    /\ InFlight(s) => s.res.start = s.base /\ s.res.end <= s.base + s.data

\* Decoding advances over consecutive ranges: a step that acknowledges does
\* so for a job of the current generation that starts at the cursor, and
\* moves the cursor to that job's end.  No sample is decoded twice and none
\* is skipped, whatever was rolled back, refused or aborted in between.
DecodesInOrder ==
    [][s'.acked # s.acked =>
        \E j \in jobs :
            /\ j.gen = s.gen
            /\ j.start = s.base /\ j.end = s'.base
            /\ s'.acked - s.acked = j.end - j.start]_vars

\* docs/asr-sensevoice-failure-containment-design.md:61: "A session may emit
\* exactly one `asr_session_terminal` event."
OneTerminalEvent == terminalEvents <= 1
=============================================================================
