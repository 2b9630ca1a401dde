------------------------------- MODULE Delivery -------------------------------
(***************************************************************************)
(* How the text of the audio reaches the client: the gateway               *)
(* (app/asr_gateway.py) with its rolling adapters or the local one, and    *)
(* the direct service (app/asr_api.py) in its stateful and chunked mode.   *)
(* The services' control is modelled in GatewayRuntime, InferenceCoordinator*)
(* and StreamController; here audio and text are in the foreground: which  *)
(* samples a job takes, what the backend keeps of a segment, when a        *)
(* segment is closed, and what the client shows.                           *)
(*                                                                         *)
(* A gateway step runs to the next await that can suspend.  The scheduler  *)
(* publishes the results of a batch before it takes another batch.         *)
(* The VAD passes all audio on, except behind an endpoint, where it keeps  *)
(* it until the endpoint is finalised.                                     *)
(***************************************************************************)
EXTENDS AdapterSession

CONSTANTS
    Kinds,           \* the backends and services considered
    Preferred,       \* samples of a regular job or chunk
    MaxFrame,        \* samples of a frame of the direct service, of a Qwen job
    MaxBuffered,     \* asr_gateway_max_session_buffer_seconds
    MaxBatch         \* capabilities.max_batch_items of the rolling adapters

ASSUME DeliveryAssumption ==
    /\ Kinds \subseteq Rolling \cup {"local", "stateful", "chunked"}
    /\ {Preferred, MaxFrame, MaxBuffered, MaxBatch} \subseteq Nat \ {0}
    /\ MaxFrame <= MaxSegment

VARIABLES
    kind,        \* the backend or service of this behaviour
    worker,      \* the adapter: "cold", "ready", "failed", "closed"
    adapter,     \* each session inside the backend
    c            \* each session's connection, see NewConnection

vars == <<kind, worker, adapter, c>>

NoJob == [from |-> 0, to |-> 0, final |-> FALSE]
NoResult == [n |-> 0, text |-> <<>>, id |-> 0, final |-> FALSE, error |-> FALSE]

\* at: the handler; end: how the stream ended; fed, given, taken: samples
\* received, passed on by the VAD, reserved for jobs; where: the job; pending:
\* its result waits for the protocol lock; closing: it waits for finish_segment;
\* utter: utterance_samples; made: events that are published with the result;
\* conflict: a snapshot was refused; straddled: a job crossed the end of a Qwen
\* segment.
NewConnection ==
    [at |-> "away", end |-> "none", fed |-> 0, given |-> 0, taken |-> 0,
     job |-> NoJob, where |-> "none", result |-> NoResult, pending |-> FALSE,
     closing |-> FALSE, utter |-> 0, endpoint |-> FALSE, finish |-> FALSE,
     idle |-> TRUE, t |-> NewTranscript, made |-> <<>>, view |-> EmptyView,
     conflict |-> FALSE, straddled |-> FALSE]

Init ==
    /\ kind \in Kinds
    /\ worker = "cold"
    /\ adapter = [s \in Sessions |-> NewAdapterSession]
    /\ c = [s \in Sessions |-> NewConnection]

Gateway == kind \in Rolling \cup {"local"}

-----------------------------------------------------------------------------
(* Pieces *)

To(s, x) == c' = [c EXCEPT ![s] = x]
Reserved(x) == IF x.where = "none" THEN 0 ELSE x.job.to - x.job.from + 1
Buffered(x) == x.given - x.taken
Held(x) == x.fed - x.given

\* The protocol lock; a result that waits for it goes before the handler.
Free(x) == x.at # "blocked" /\ ~x.closing
LockFree(x) == Free(x) /\ ~x.pending

\* What an operation left, and its events sent.
Publish(x, done) ==
    [x EXCEPT !.t = done.t, !.view = ShownAll(@, done.events), !.made = <<>>]

\* The session fails or is aborted.  A queued job goes, and so do the events of
\* a result that failed (the transcript is restored with them).
Ended(x, how) ==
    [x EXCEPT !.at = "closed", !.end = how, !.where = "none", !.job = NoJob,
              !.result = NoResult, !.pending = FALSE, !.closing = FALSE, !.made = <<>>]

Ends(s, x, how) ==
    /\ To(s, Ended(x, how))
    /\ adapter' = [adapter EXCEPT ![s] = NewAdapterSession]

-----------------------------------------------------------------------------
(* _schedule_next *)

Smaller(m, n) == IF m < n THEN m ELSE n

\* Mutant of SegmentRemaining: the gateway's own count decides, which a result
\* that waits for the lock has not reached.
SegmentRemainingOwnCount(x, a) == MaxSegment - x.utter

SegmentRemaining(x, a) ==
    IF kind \in Rolling THEN Smaller(MaxSegment - x.utter, RemainingSegment(a))
    ELSE MaxSegment - x.utter

\* Mutant of Ready: the segment's limit is not looked at.
ReadyUnlimited(x, a, force) ==
    IF x.where # "none" THEN 0
    ELSE IF Buffered(x) >= Preferred THEN Preferred
    ELSE IF force \/ x.finish THEN Buffered(x) ELSE 0

\* ready_samples: a limit of 0 counts as no limit
Ready(x, a, force) ==
    LET limit == Smaller(SegmentRemaining(x, a), IF kind = "local" THEN MaxFrame ELSE MaxSegment)
        maximum == IF limit = 0 THEN Buffered(x) ELSE limit
    IN  IF x.where # "none" THEN 0
        ELSE IF maximum > 0 /\ Buffered(x) >= maximum THEN maximum
        ELSE IF Buffered(x) >= Preferred THEN Preferred
        ELSE IF force \/ x.finish THEN Buffered(x) ELSE 0

\* The enqueue of a failed worker raises, which ends the session.
Raises(x, a, force) == Ready(x, a, force) > 0 /\ worker # "ready"

Scheduled(x, a, force) ==
    LET n == Ready(x, a, force)
    IN  IF n = 0 THEN x
        ELSE [x EXCEPT !.where = "queued", !.idle = FALSE, !.taken = @ + n,
                       !.job = [from |-> x.taken + 1, to |-> x.taken + n,
                                final |-> \/ x.finish \/ x.endpoint
                                          \/ n = SegmentRemaining(x, a)]]

\* The step that ends with _schedule_next.
Schedule(s, x, force) ==
    IF Raises(x, adapter[s], force)
    THEN Ends(s, x, "error")
    ELSE To(s, Scheduled(x, adapter[s], force)) /\ UNCHANGED adapter

Drained(x) == x.where = "none" /\ Buffered(x) = 0 /\ Held(x) = 0

-----------------------------------------------------------------------------
(* The gateway's handler *)

Open(s) ==
    /\ worker = "ready" /\ c[s].at = "away"
    /\ To(s, [c[s] EXCEPT !.at = "receiving"])
    /\ UNCHANGED <<kind, worker, adapter>>

Fits(x) == Buffered(x) + Reserved(x) + Held(x) + 1 <= MaxBuffered

\* _ingest_locked takes a sample, in which the VAD may find an endpoint.
Ingest(s) ==
    LET x == c[s] IN
    /\ Gateway /\ x.fed < MaxSamples[s] /\ Fits(x)
    /\ \/ x.at = "receiving" /\ LockFree(x)
       \/ x.at = "blocked" /\ x.where = "none"
    /\ \E found \in BOOLEAN :
        LET fed == [x EXCEPT !.at = "receiving", !.fed = @ + 1,
                             !.given = IF x.endpoint THEN @ ELSE @ + 1,
                             !.endpoint = @ \/ found]
        IN  (x.endpoint => ~found) /\ Schedule(s, fed, found)
    /\ UNCHANGED <<kind, worker>>

\* The buffer is full: wait for the job in flight, with the protocol lock.
IngestBlocks(s) ==
    LET x == c[s] IN
    /\ Gateway /\ x.at = "receiving" /\ LockFree(x)
    /\ x.fed < MaxSamples[s] /\ ~Fits(x)
    /\ IF x.where # "none"
       THEN To(s, [x EXCEPT !.at = "blocked"]) /\ UNCHANGED adapter
       ELSE Ends(s, x, "error")
    /\ UNCHANGED <<kind, worker>>

Segment(s) ==
    /\ Gateway /\ c[s].at = "receiving" /\ LockFree(c[s])
    /\ Schedule(s, [c[s] EXCEPT !.at = "segment"], TRUE)
    /\ UNCHANGED <<kind, worker>>

\* finish, up to its ingest(b""): the VAD gives back what it keeps
Finish(s) ==
    /\ Gateway /\ c[s].at = "receiving"
    /\ To(s, [c[s] EXCEPT !.at = "finishing", !.finish = TRUE, !.given = c[s].fed])
    /\ UNCHANGED <<kind, worker, adapter>>

FinishDecodes(s) ==
    LET x == [c[s] EXCEPT !.at = "finish", !.idle = @ \/ Drained(c[s])] IN
    /\ c[s].at = "finishing" /\ LockFree(c[s])
    /\ Schedule(s, x, TRUE)
    /\ UNCHANGED <<kind, worker>>

\* finish_segment and finish_session of the adapter: the text, the session
\* afterwards, and whether the model runs, which may raise
ControlText(a) == IF kind \in Rolling THEN ConsumedText(a) ELSE FlushedText(a)
ControlLeaves(a) == IF kind \in Rolling THEN Consumed(a) ELSE StartFreshSegment(a)
ControlCalls(a) == kind = "local" \/ ConsumeCalls(a)

\* _apply_control_result, which is left out when there is no text
ControlApplied(t, a) ==
    IF ControlText(a) = <<>> THEN Left(t, <<>>)
    ELSE ApplySegmentSnapshot(t, IF t.active = NoSegment THEN 0 ELSE t.active, ControlText(a))

ControlCommitted(t, a) ==
    LET applied == ControlApplied(t, a) IN Then(applied, CommitPending(applied.t))

\* The scheduler waits for an adapter call of its own, and for the protocol lock.
EngineFree == \A s \in Sessions : c[s].where # "submitted"

\* The second half of segment and finish, idle and with the protocol lock
CommandReady(s) == c[s].idle /\ LockFree(c[s]) /\ EngineFree

SegmentCloses(s) ==
    /\ c[s].at = "segment" /\ CommandReady(s)
    /\ To(s, Publish([c[s] EXCEPT !.at = "receiving", !.utter = 0],
                     ControlCommitted(c[s].t, adapter[s])))
    /\ adapter' = [adapter EXCEPT ![s] = ControlLeaves(@)]
    /\ UNCHANGED <<kind, worker>>

FinishCloses(s) ==
    LET applied == ControlApplied(c[s].t, adapter[s]) IN
    /\ c[s].at = "finish" /\ CommandReady(s)
    /\ To(s, Publish([c[s] EXCEPT !.at = "closed", !.end = "final"],
                     Then(applied, FinalEvent(applied.t))))
    /\ adapter' = [adapter EXCEPT ![s] = NewAdapterSession]
    /\ UNCHANGED <<kind, worker>>

ControlRaises(s) ==
    /\ c[s].at \in {"segment", "finish"} /\ CommandReady(s) /\ ControlCalls(adapter[s])
    /\ Ends(s, c[s], "error")
    /\ UNCHANGED <<kind, worker>>

\* The client aborts or goes away; a submitted job is waited for.
Abort(s) ==
    /\ Gateway /\ c[s].at \in {"receiving", "segment", "finish"}
    /\ c[s].where \in {"none", "queued"} /\ LockFree(c[s])
    /\ Ends(s, c[s], "aborted")
    /\ UNCHANGED <<kind, worker>>

-----------------------------------------------------------------------------
(* The scheduler and the adapter's submit *)

JobAudio(s) == Audio(s, c[s].job.from, c[s].job.to)

\* Nothing of the previous batch is left.
SchedulerFree ==
    \A s \in Sessions : c[s].where \in {"none", "queued"} /\ ~c[s].pending /\ ~c[s].closing

Failed(s) ==
    [c[s] EXCEPT !.where = "decoded", !.result = [NoResult EXCEPT !.error = TRUE]]

\* A rolling batch fails: the worker, the batch and the queue fail with it.
BatchFailed ==
    /\ worker' = "failed"
    /\ c' = [s \in Sessions |-> IF c[s].where # "none" THEN Failed(s) ELSE c[s]]
    /\ UNCHANGED <<kind, adapter>>

\* submit, up to the engine: every job is held against the utterance limit, and
\* then the audio is added.
Submit(batch) ==
    /\ worker = "ready" /\ SchedulerFree /\ batch # {}
    /\ \A s \in batch : c[s].where = "queued"
    /\ \A s, o \in batch : c[s].job.final = c[o].job.final            \* BatchKey
    /\ Cardinality(batch) <= IF kind = "local" THEN 1 ELSE MaxBatch
    /\ IF kind \in Rolling /\ \E s \in batch : Overflows(adapter[s], JobAudio(s))
       THEN BatchFailed
       ELSE /\ c' = [s \in Sessions |->
                 IF s \in batch THEN [c[s] EXCEPT !.where = "submitted"] ELSE c[s]]
            /\ adapter' = [s \in Sessions |->
                 IF s \in batch /\ kind \in Rolling
                 THEN Extend(adapter[s], JobAudio(s)) ELSE adapter[s]]
            /\ UNCHANGED <<kind, worker>>

Submitted == {s \in Sessions : c[s].where = "submitted"}

WithResult(s, text, id, final) ==
    [c[s] EXCEPT !.where = "decoded",
       !.result = [n |-> Reserved(c[s]), text |-> text, id |-> id, final |-> final,
                   error |-> FALSE]]

\* A rolling batch is decoded, a partial job perhaps wrongly.
BatchDecodes ==
    /\ kind \in Rolling /\ Submitted # {}
    /\ \E wrong \in SUBSET {s \in Submitted : ~c[s].job.final} :
        LET final(s) == c[s].job.final
            text(s) == IF s \in wrong THEN <<Wrong[s]>>
                       ELSE Decode(Waveform(kind, adapter[s], JobAudio(s), final(s)))
        IN  /\ adapter' = [s \in Sessions |->
                 IF s \in Submitted THEN Decoded(kind, adapter[s], final(s), text(s))
                 ELSE adapter[s]]
            /\ c' = [s \in Sessions |->
                 IF s \in Submitted
                 THEN WithResult(s, DecodedText(kind, adapter[s], final(s), text(s)), 1, final(s))
                 ELSE c[s]]
    /\ UNCHANGED <<kind, worker>>

\* The Qwen session takes the job's audio.  Of its snapshots only the first is
\* the result.
LocalDecodes(s) ==
    LET a == adapter[s] IN
    /\ kind = "local" /\ c[s].where = "submitted"
    /\ \E text \in Hears(s, AddPcm(a, JobAudio(s)).pcm) :
        LET shots == AddPcmSnapshots(a, JobAudio(s), text) IN
        /\ adapter' = [adapter EXCEPT ![s] = AddPcm(a, JobAudio(s))]
        /\ To(s, [WithResult(s, shots[1].text, shots[1].id, shots[1].finished)
                    EXCEPT !.straddled = @ \/ Len(shots) > 1])
    /\ UNCHANGED <<kind, worker>>

\* A group of the batch fails, or its results are too few.
BatchFails ==
    /\ kind \in Rolling /\ Submitted # {}
    /\ BatchFailed

\* The local adapter turns the exception into the result of its job.
LocalFails(s) ==
    /\ kind = "local" /\ c[s].where = "submitted"
    /\ To(s, Failed(s))
    /\ UNCHANGED <<kind, worker, adapter>>

-----------------------------------------------------------------------------
(* _publish_result: _apply_result_locked *)

\* What follows a closed segment or a plain result.
Continue(s, x, a, force) ==
    LET next == Scheduled(x, a, force)
    IN  IF Raises(x, a, force) THEN Ends(s, x, "error")
        ELSE /\ To(s, [next EXCEPT !.idle = @ \/ Drained(next)])
             /\ adapter' = [adapter EXCEPT ![s] = a]

Apply(s, x) ==
    LET a == adapter[s]
        r == x.result
        done == ApplySegmentSnapshot(x.t, r.id, r.text)
        y == [x EXCEPT !.t = done.t, !.made = done.events, !.utter = @ + r.n,
                       !.result = NoResult, !.pending = FALSE]
        again == y.endpoint /\ ~r.final            \* deferred_endpoint_final
        z == IF again THEN Scheduled(y, a, TRUE) ELSE y
        closes == \/ r.final
                  \/ y.endpoint /\ z = y
                  \/ y.utter >= MaxSegment
    IN  IF r.error THEN Ends(s, x, "error")
        ELSE IF done.conflict THEN Ends(s, [x EXCEPT !.conflict = TRUE], "error")
        ELSE IF again /\ Raises(y, a, TRUE) THEN Ends(s, y, "error")
        ELSE IF closes THEN To(s, [z EXCEPT !.closing = TRUE]) /\ UNCHANGED adapter
        ELSE Continue(s, Publish(z, done), a, y.endpoint \/ y.finish)

\* cleanup releases the reservation; the result waits if the handler has the lock.
Settle(s) ==
    LET x == [c[s] EXCEPT !.where = "none", !.job = NoJob] IN
    /\ c[s].where = "decoded"
    /\ \A o \in Sessions : ~c[o].pending /\ ~c[o].closing
    /\ IF Free(x) THEN Apply(s, x)
       ELSE To(s, [x EXCEPT !.pending = TRUE]) /\ UNCHANGED adapter
    /\ UNCHANGED <<kind, worker>>

LateResult(s) ==
    /\ c[s].pending /\ Free(c[s])
    /\ Apply(s, c[s])
    /\ UNCHANGED <<kind, worker>>

\* finish_segment returns and the segment is committed.  A finalised endpoint
\* lets the VAD's audio go on, with perhaps another endpoint in it.
ResultCloses(s) ==
    LET x == c[s]
        done == ControlCommitted(x.t, adapter[s])
        all == [done EXCEPT !.events = x.made \o @]
    IN
    /\ x.closing /\ EngineFree
    /\ \E found \in BOOLEAN :
        LET y == [Publish(x, all) EXCEPT !.closing = FALSE, !.utter = 0,
                    !.given = IF x.endpoint THEN x.fed ELSE @, !.endpoint = found]
        IN  /\ found => x.endpoint /\ Held(x) > 0
            /\ Continue(s, y, ControlLeaves(adapter[s]), Buffered(y) > 0 \/ found \/ y.finish)
    /\ UNCHANGED <<kind, worker>>

ResultCloseRaises(s) ==
    /\ c[s].closing /\ EngineFree /\ ControlCalls(adapter[s])
    /\ Ends(s, c[s], "error")
    /\ UNCHANGED <<kind, worker>>

-----------------------------------------------------------------------------
(* The direct service, one step per message: events are sent as they are made *)

\* A snapshot and, when it ends its segment, _commit_finished_segment
SnapshotApplied(t, shot) ==
    LET done == ApplySegmentSnapshot(t, shot.id, shot.text)
    IN  IF shot.finished THEN Then(done, CommitPending(done.t)) ELSE done

SnapshotsApplied(t, shots) ==
    FoldLeft(LAMBDA done, shot : Then(done, SnapshotApplied(done.t, shot)), Left(t, <<>>), shots)

\* reset_segment
Flushed(t, a) == SnapshotApplied(t, Snapshot(a.id, FlushedText(a), TRUE))

\* _add_model_audio and, behind an endpoint, reset_segment, unless the model has
\* just ended the segment by itself
StatefulAudio(s, n) ==
    LET x == c[s]
        a == AddPcm(adapter[s], Audio(s, x.fed + 1, x.fed + n))
    IN
    /\ kind = "stateful" /\ x.at = "receiving" /\ x.fed + n <= MaxSamples[s]
    /\ \E text \in Hears(s, a.pcm), found \in BOOLEAN :
        LET shots == AddPcmSnapshots(adapter[s], Audio(s, x.fed + 1, x.fed + n), text)
            done == SnapshotsApplied(x.t, shots)
            reset == found /\ ~Last(shots).finished
        IN  IF done.conflict THEN Ends(s, [x EXCEPT !.conflict = TRUE], "error")
            ELSE /\ To(s, Publish([x EXCEPT !.fed = @ + n],
                                  IF reset THEN Then(done, Flushed(done.t, a)) ELSE done))
                 /\ adapter' = [adapter EXCEPT ![s] = IF reset THEN StartFreshSegment(a) ELSE a]
    /\ UNCHANGED <<kind, worker>>

StatefulSegment(s) ==
    /\ kind = "stateful" /\ c[s].at = "receiving"
    /\ To(s, Publish(c[s], Flushed(c[s].t, adapter[s])))
    /\ adapter' = [adapter EXCEPT ![s] = StartFreshSegment(@)]
    /\ UNCHANGED <<kind, worker>>

StatefulEnd(s) ==
    LET done == ApplySegmentSnapshot(c[s].t, adapter[s].id, FlushedText(adapter[s])) IN
    /\ kind = "stateful" /\ c[s].at = "receiving"
    /\ To(s, Publish([c[s] EXCEPT !.at = "closed", !.end = "final"],
                     Then(done, FinalEvent(done.t))))
    /\ adapter' = [adapter EXCEPT ![s] = NewAdapterSession]
    /\ UNCHANGED <<kind, worker>>

\* _flush_chunked_buffer without its commit; the buffer is Buffered(x)
ChunkFlushed(s, x) ==
    AppendIndependentSegment(x.t, Decode(Audio(s, x.taken + 1, x.given)), TRUE)

\* A frame; the silence detector may find the end of a sentence in it.
ChunkAudio(s) ==
    LET x == [c[s] EXCEPT !.fed = @ + 1, !.given = @ + 1]
        full == Buffered(x) >= Preferred
        done == IF full THEN ChunkFlushed(s, x) ELSE Left(x.t, <<>>)
    IN
    /\ kind = "chunked" /\ x.at = "receiving" /\ x.fed <= MaxSamples[s]
    /\ \E silence \in BOOLEAN :
         To(s, Publish([x EXCEPT !.taken = IF full THEN x.given ELSE @],
                       IF silence THEN Then(done, CommitPending(done.t)) ELSE done))
    /\ UNCHANGED <<kind, worker, adapter>>

\* The segment command, and the end command with its final event
ChunkSegment(s) ==
    LET done == ChunkFlushed(s, c[s]) IN
    /\ kind = "chunked" /\ c[s].at = "receiving"
    /\ To(s, Publish([c[s] EXCEPT !.taken = c[s].given], Then(done, CommitPending(done.t))))
    /\ UNCHANGED <<kind, worker, adapter>>

ChunkEnd(s) ==
    LET done == ChunkFlushed(s, c[s]) IN
    /\ kind = "chunked" /\ c[s].at = "receiving"
    /\ To(s, Publish([c[s] EXCEPT !.taken = c[s].given, !.at = "closed", !.end = "final"],
                     Then(done, FinalEvent(done.t))))
    /\ UNCHANGED <<kind, worker, adapter>>

\* The model raises, or the client goes away: fail() and abort().
DirectFails(s) ==
    /\ ~Gateway /\ c[s].at = "receiving"
    /\ \E how \in {"error", "aborted"} : Ends(s, c[s], how)
    /\ UNCHANGED <<kind, worker>>

-----------------------------------------------------------------------------
(* The adapter as a whole *)

\* warmup; an exception leaves the adapter as it was
Warmup ==
    /\ worker = "cold"
    /\ worker' = "ready"
    /\ UNCHANGED <<kind, adapter, c>>

\* drain, when nobody is left, and close
Close ==
    /\ \A s \in Sessions : c[s].at \in {"away", "closed"} /\ c[s].where = "none"
    /\ worker \in {"ready", "failed"}
    /\ worker' = "closed"
    /\ UNCHANGED <<kind, adapter, c>>

Next ==
    \/ Warmup \/ Close
    \/ \E batch \in SUBSET Sessions : Submit(batch)
    \/ BatchDecodes \/ BatchFails
    \/ \E s \in Sessions :
        \/ Open(s) \/ Ingest(s) \/ IngestBlocks(s) \/ Abort(s)
        \/ Segment(s) \/ SegmentCloses(s) \/ ControlRaises(s)
        \/ Finish(s) \/ FinishDecodes(s) \/ FinishCloses(s)
        \/ LocalDecodes(s) \/ LocalFails(s)
        \/ Settle(s) \/ LateResult(s) \/ ResultCloses(s) \/ ResultCloseRaises(s)
        \/ \E n \in 1 .. MaxFrame : StatefulAudio(s, n)
        \/ StatefulSegment(s) \/ StatefulEnd(s)
        \/ ChunkAudio(s) \/ ChunkSegment(s) \/ ChunkEnd(s) \/ DirectFails(s)

Spec == Init /\ [][Next]_vars

-----------------------------------------------------------------------------
(* Properties *)

\* What the client shows is the transcript: behind every operation the events
\* it has got make up the confirmed text and the partial (README.md, "append
\* sentence_final events permanently and replace the displayed tail").
ClientView ==
    \A s \in Sessions :
        ~c[s].closing /\ c[s].end # "error" /\ c[s].end # "aborted"
        => c[s].view = [confirmed |-> c[s].t.confirmed, tail |-> c[s].t.partial]

\* Text that is speech, not a wrong decode or white space
Said(text) == SelectSeq(text, LAMBDA x : x[2] \in Speech)

\* The speech of the audio, without gap and repetition and in its order, is what
\* is confirmed, and with the final event it is all there.
SpeechDelivered ==
    \A s \in Sessions :
        LET x == c[s]
            all == Decode(Audio(s, 1, x.fed))
        IN  ~x.straddled =>
              /\ IsPrefix(Said(x.view.confirmed), all)
              /\ x.end = "final" => Said(x.view.confirmed \o x.view.tail) = all

\* "The completed transcript is all `sentence_final` messages in order plus the
\* `final` text" (docs/API.md:354), for every session.  The local adapter does not
\* guarantee it (asr_gateway.py:321, see the README), so no run checks it.
TranscriptComplete ==
    \A s \in Sessions :
        c[s].end = "final" =>
            Said(c[s].view.confirmed \o c[s].view.tail) = Decode(Audio(s, 1, c[s].fed))

\* A rolling adapter has the audio of the segment, neither more nor less: what
\* the session has given to jobs since the last boundary, up to the limit.
SegmentAudio ==
    \A s \in Sessions :
        LET x == c[s]
            inside == IF x.where \in {"submitted", "decoded"} THEN Reserved(x)
                      ELSE IF x.pending THEN x.result.n ELSE 0
            queued == IF x.where = "queued" THEN Reserved(x) ELSE 0
        IN  kind \in Rolling /\ worker = "ready" /\ x.at \notin {"away", "closed"}
            => /\ adapter[s].pcm = Audio(s, x.taken - queued - inside - x.utter + 1,
                                            x.taken - queued)
               /\ Len(adapter[s].pcm) <= MaxSegment

\* No result is refused: a snapshot of a new segment never meets the text of an
\* older one.
NoConflict == \A s \in Sessions : ~c[s].conflict

\* Only a failed engine call fails a rolling worker: no job is beyond the segment's
\* limit, although a handler that waited for its buffer cuts the next job before the
\* result of the last one is counted (test_adapter_segment_remaining_is_authoritative
\* _for_job_size).
LimitKept ==
    [][worker' = "failed" /\ worker # "failed" => \E s \in Sessions : c[s].where = "submitted"]_vars
=============================================================================
