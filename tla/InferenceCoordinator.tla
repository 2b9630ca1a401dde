------------------------ MODULE InferenceCoordinator ------------------------
(***************************************************************************)
(* ASRInferenceCoordinator (app/asr_inference.py): asyncio callers submit  *)
(* jobs to a bounded priority queue and one thread owns the model.         *)
(*                                                                         *)
(* A step is what runs between two points where the other side can act: a  *)
(* caller runs from one await to the next, the owner thread from one use   *)
(* of the lock (or of a future) to the next.  _ready and _load_error are   *)
(* left out: snapshot() reports them, and _load_error refuses only what    *)
(* _accepting, cleared in the same critical section, already refuses.      *)
(*                                                                         *)
(* A refused submission raises with every reservation taken back; it is a  *)
(* stuttering step and has no action, except where a cleanup reacts to it. *)
(***************************************************************************)
EXTENDS Integers, FiniteSets

CONSTANTS
    Sessions,          \* session ids create_stream may draw (uuid4)
    NoSession,         \* session_id = None, a file job
    MaxActiveStreams,  \* settings.asr_max_active_streams
    QueueSize,         \* settings.asr_inference_queue_size
    MaxQueuedAudio,    \* settings.asr_max_queued_audio_seconds
    EagerModes,        \* the values of settings.asr_eager_load considered
    Operations,        \* the operations the clients of the instance call: the
                       \* native controller and the chunked one use different ones
    MaxJobs            \* bound on the jobs one behaviour submits

ASSUME CoordinatorAssumption ==
    /\ NoSession \notin Sessions
    /\ IsFiniteSet(Sessions)
    /\ MaxActiveStreams \in Nat
    /\ QueueSize \in Nat \ {0}
    /\ MaxQueuedAudio \in Nat
    /\ EagerModes \subseteq BOOLEAN
    /\ Operations \subseteq
         {"create_stream", "create_chunked_stream", "add_audio",
          "transcribe_stream_chunk", "finish_stream", "finish_segment",
          "transcribe_file"}
    /\ MaxJobs \in Nat

VARIABLES
    accepting,      \* _accepting
    shutdown,       \* _shutdown_requested
    control,        \* the shutdown job is in the queue
    queue,          \* the business jobs in _jobs
    queuedJobs,     \* _queued_business_jobs
    queuedAudio,    \* _queued_audio_seconds
    active,         \* _active_sessions
    reservations,   \* _stream_reservations
    poisoned,       \* _poisoned_sessions
    busy,           \* _busy_sessions
    batchPending,   \* _batch_pending
    batchRunning,   \* _batch_running
    jobs,           \* every job and the caller that awaits it
    issued,         \* jobs made so far; a job's sequence is its index
    pc,             \* where the owner thread is
    job,            \* the job it holds, or 0
    outcome,        \* what its try block left for the finally block
    warmed,         \* its local warmed
    sessions        \* its local sessions

lifecycle == <<accepting, shutdown, control>>
admission == <<queue, queuedJobs, queuedAudio>>
registries == <<active, reservations, poisoned, busy>>
batch == <<batchPending, batchRunning>>
worker == <<pc, job, outcome, warmed, sessions>>
vars == <<lifecycle, admission, registries, batch, jobs, issued, worker>>

JobIds == 1..MaxJobs
Creates == {"create_stream", "create_chunked_stream"}
Chunks == {"add_audio", "transcribe_stream_chunk"}
SessionActions == Chunks \cup {"finish_stream", "finish_segment", "abort_stream"}
Actions == Creates \cup SessionActions \cup {"transcribe_file"}

\* Where the coroutine awaiting a job is: _submit's two waits, the two halves
\* of _cleanup_cancelled_started_job, or how it ended: it returned, it raised,
\* or it gave up (queue timeout, cancellation) on a job that had not started.
Waiting == {"started", "result", "cleanup", "unpoisoned"}
Ended == {"returned", "raised", "gave_up"}

JobType == [action : Actions \cup {"none"}, sid : Sessions \cup {NoSession},
            started : {"pending", "set", "error", "cancelled"},
            result : {"pending", "value", "error", "not_ready", "cancelled"},
            holdsStream : BOOLEAN,
            cleanup : BOOLEAN,      \* submitted by _cleanup_cancelled_started_job
            caller : {"none"} \cup Waiting \cup Ended]

NoJobRecord ==
    [action |-> "none", sid |-> NoSession, started |-> "pending",
     result |-> "pending", holdsStream |-> FALSE, cleanup |-> FALSE,
     caller |-> "none"]

TypeOK ==
    /\ accepting \in BOOLEAN /\ shutdown \in BOOLEAN /\ control \in BOOLEAN
    /\ queue \subseteq JobIds
    /\ queuedJobs \in 0..QueueSize
    /\ queuedAudio \in 0..MaxQueuedAudio
    /\ active \subseteq Sessions /\ reservations \subseteq Sessions
    /\ poisoned \subseteq Sessions /\ busy \subseteq Sessions
    /\ batchPending \in BOOLEAN /\ batchRunning \in BOOLEAN
    /\ jobs \in [JobIds -> JobType]
    /\ issued \in 0..MaxJobs
    /\ pc \in {"dead", "loading", "get", "check", "warm", "claim", "execute",
               "transcribe", "cleanup", "purge", "release", "resolve",
               "draining"}
    /\ job \in JobIds \cup {0}
    /\ outcome \in {"skip", "value", "error", "fatal"}
    /\ warmed \in BOOLEAN
    /\ sessions \subseteq Sessions

ThreadAlive == pc # "dead"
WorkerLoopActive == pc \notin {"dead", "draining"}

\* One unit of audio per chunk; the other jobs carry none.
AudioOf(action) == IF action \in Chunks THEN 1 ELSE 0
HoldsSession(j) == jobs[j].action \in SessionActions
Used == {jobs[j].sid : j \in 1..issued}

\* A client learns a session id from the call that created the session.
Known == {jobs[j].sid : j \in {i \in 1..issued :
             jobs[i].action \in Creates /\ jobs[i].caller = "returned"}}

Init ==
    /\ accepting = FALSE /\ shutdown = FALSE /\ control = FALSE
    /\ queue = {} /\ queuedJobs = 0 /\ queuedAudio = 0
    /\ active = {} /\ reservations = {} /\ poisoned = {} /\ busy = {}
    /\ batchPending = FALSE /\ batchRunning = FALSE
    /\ jobs = [j \in JobIds |-> NoJobRecord]
    /\ issued = 0
    /\ pc = "dead" /\ job = 0 /\ outcome = "skip" /\ warmed = FALSE
    /\ sessions = {}

-----------------------------------------------------------------------------
(* start and stop *)

Start ==
    /\ ~ThreadAlive
    /\ accepting' = TRUE
    /\ shutdown' = FALSE
    /\ pc' = "loading"
    /\ warmed' = FALSE
    /\ UNCHANGED <<control, admission, registries, batch, jobs, issued, job,
                   outcome, sessions>>

\* The extra slot of the queue is the shutdown job's.
ShutdownSlotFree == Cardinality(queue) < QueueSize + 1

\* Mutant of Stop: a full queue loses the shutdown job.
StopLosesJob ==
    /\ accepting' = FALSE
    /\ IF WorkerLoopActive /\ ~shutdown
       THEN control' = (Cardinality(queue) < QueueSize) /\ shutdown' = TRUE
       ELSE UNCHANGED <<control, shutdown>>
    /\ UNCHANGED <<admission, registries, batch, jobs, issued, worker>>

Stop ==
    /\ accepting' = FALSE
    /\ \/ /\ WorkerLoopActive /\ ~shutdown /\ ShutdownSlotFree
          /\ control' = TRUE
          /\ shutdown' = TRUE
       \/ /\ ~(WorkerLoopActive /\ ~shutdown /\ ShutdownSlotFree)
          /\ UNCHANGED <<control, shutdown>>
    /\ UNCHANGED <<admission, registries, batch, jobs, issued, worker>>

-----------------------------------------------------------------------------
(* _submit, up to its first await *)

Admissible(sid) == accepting /\ sid \in active \ poisoned

QueueAdmits(action) ==
    /\ queuedAudio + AudioOf(action) <= MaxQueuedAudio
    /\ queuedJobs < QueueSize

\* MaxJobs bounds the jobs, and leaves one for each cleanup under way.
Room ==
    issued + Cardinality({j \in JobIds : jobs[j].caller \in {"cleanup", "unpoisoned"}})
        < MaxJobs

NewJob(action, sid, byCleanup) ==
    [NoJobRecord EXCEPT !.action = action, !.sid = sid,
                        !.holdsStream = action \in Creates,
                        !.cleanup = byCleanup, !.caller = "started"]

\* The job joins the queue; earlier is jobs, or jobs with the step's other change.
Enqueue(earlier, action, sid, byCleanup) ==
    /\ issued < MaxJobs
    /\ issued' = issued + 1
    /\ jobs' = [earlier EXCEPT ![issued + 1] = NewJob(action, sid, byCleanup)]
    /\ queue' = queue \cup {issued + 1}
    /\ queuedJobs' = queuedJobs + 1
    /\ queuedAudio' = queuedAudio + AudioOf(action)

\* Mutant of CreateAdmitted: the sessions that exist are counted, instead of the
\* slots taken for those still to be created as well.
CreateAdmittedActive(action) ==
    /\ accepting
    /\ ~batchPending /\ ~batchRunning
    /\ Cardinality(active) < MaxActiveStreams
    /\ QueueAdmits(action)

CreateAdmitted(action) ==
    /\ accepting
    /\ ~batchPending /\ ~batchRunning
    /\ Cardinality(reservations) < MaxActiveStreams
    /\ QueueAdmits(action)

\* create_stream and create_chunked_stream
CreateStream(action, sid) ==
    /\ sid \notin Used
    /\ CreateAdmitted(action) /\ Room
    /\ reservations' = reservations \cup {sid}
    /\ Enqueue(jobs, action, sid, FALSE)
    /\ UNCHANGED <<lifecycle, active, poisoned, busy, batch, worker>>

\* Mutant of OperationAdmitted: a busy session is admitted.
OperationAdmittedBusy(action, sid) ==
    /\ action = "transcribe_stream_chunk" => ~batchPending /\ ~batchRunning
    /\ Admissible(sid)
    /\ QueueAdmits(action)

OperationAdmitted(action, sid) ==
    /\ action = "transcribe_stream_chunk" => ~batchPending /\ ~batchRunning
    /\ Admissible(sid)
    /\ sid \notin busy
    /\ QueueAdmits(action)

\* add_audio, finish_stream, finish_segment and transcribe_stream_chunk
SubmitOperation(action, sid) ==
    /\ sid \in Known
    /\ OperationAdmitted(action, sid) /\ Room
    /\ busy' = busy \cup {sid}
    /\ Enqueue(jobs, action, sid, FALSE)
    /\ UNCHANGED <<lifecycle, active, reservations, poisoned, batch, worker>>

\* abort_stream poisons a busy session and leaves it to the owner thread.
\* Its two critical sections run without an await between them.
AbortBusy(sid) ==
    /\ accepting /\ sid \in active /\ sid \in busy
    /\ poisoned' = poisoned \cup {sid}

AbortIdle(earlier, sid, byCleanup) ==
    /\ OperationAdmitted("abort_stream", sid)
    /\ busy' = busy \cup {sid}
    /\ Enqueue(earlier, "abort_stream", sid, byCleanup)

AbortStream(sid) ==
    /\ sid \in Known
    /\ \/ /\ AbortBusy(sid)
          /\ UNCHANGED <<admission, jobs, issued, busy>>
       \/ /\ Room
          /\ AbortIdle(jobs, sid, FALSE)
          /\ UNCHANGED poisoned
    /\ UNCHANGED <<lifecycle, active, reservations, batch, worker>>

FileAdmitted ==
    /\ accepting
    /\ reservations = {} /\ ~batchPending /\ ~batchRunning
    /\ QueueAdmits("transcribe_file")

TranscribeFile ==
    /\ FileAdmitted /\ Room
    /\ batchPending' = TRUE
    /\ Enqueue(jobs, "transcribe_file", NoSession, FALSE)
    /\ UNCHANGED <<lifecycle, registries, batchRunning, worker>>

\* The file endpoint of the direct service.  Each refusal is an HTTP 503.
PostTranscribe ==
    /\ "transcribe_file" \in Operations      \* asr_file_transcribe_enabled
    /\ TranscribeFile

-----------------------------------------------------------------------------
(* _submit, after its first await *)

SidOf(j) == {jobs[j].sid} \ {NoSession}

\* The coroutine ends.  transcribe_file's finally clears _batch_pending; the
\* abort of a cleanup that fails with a coordinator error poisons its session.
EndCaller(j, end, started, result, poison) ==
    /\ jobs' = [jobs EXCEPT ![j].caller = end, ![j].started = started,
                            ![j].result = result]
    /\ batchPending' = (batchPending /\ jobs[j].action # "transcribe_file")
    /\ poisoned' = IF poison THEN poisoned \cup SidOf(j) ELSE poisoned
    /\ UNCHANGED <<lifecycle, admission, active, reservations, busy,
                   batchRunning, issued, worker>>

SeeStarted(j) ==
    /\ jobs[j].caller = "started"
    /\ \/ /\ jobs[j].started = "set"
          /\ jobs' = [jobs EXCEPT ![j].caller = "result"]
          /\ UNCHANGED <<lifecycle, admission, registries, batch, issued, worker>>
       \/ /\ jobs[j].started = "error"
          /\ EndCaller(j, "raised", "error", jobs[j].result, jobs[j].cleanup)

\* job.started.cancel() succeeds only while the owner thread has not claimed it.
QueueTimeout(j) ==
    /\ jobs[j].caller = "started" /\ jobs[j].started = "pending"
    /\ EndCaller(j, "gave_up", "cancelled", "cancelled", jobs[j].cleanup)

SeeResult(j) ==
    /\ jobs[j].caller = "result"
    /\ jobs[j].result \in {"value", "error", "not_ready"}
    /\ EndCaller(j, IF jobs[j].result = "value" THEN "returned" ELSE "raised",
                 jobs[j].started, jobs[j].result,
                 jobs[j].cleanup /\ jobs[j].result = "not_ready")

\* Mutant of InferenceTimeout: the result is awaited without a time limit.
InferenceTimeoutUnbounded(j) ==
    /\ jobs[j].caller = "result" /\ jobs[j].result # "pending"
    /\ EndCaller(j, "raised", jobs[j].started, jobs[j].result, TRUE)

\* The timer may fire although the result has been set: the event loop learns
\* of a result only through a later callback.
InferenceTimeout(j) ==
    /\ jobs[j].caller = "result"
    /\ EndCaller(j, "raised", jobs[j].started, jobs[j].result, TRUE)

\* The task awaiting the job is cancelled.
CancelCaller(j) ==
    \/ /\ jobs[j].caller = "started" /\ jobs[j].started = "pending"
       /\ EndCaller(j, "gave_up", "cancelled", "cancelled", FALSE)
    \/ /\ \/ jobs[j].caller = "started" /\ jobs[j].started # "pending"
          \/ jobs[j].caller = "result"
       /\ Room
       /\ EndCaller(j, IF SidOf(j) = {} THEN "raised" ELSE "cleanup",
                    jobs[j].started, jobs[j].result, TRUE)
    \/ /\ jobs[j].caller = "cleanup"
       /\ EndCaller(j, "raised", jobs[j].started, jobs[j].result, FALSE)

\* _cleanup_cancelled_started_job has its result, or waited inference_timeout.
\* Awaiting a cancelled result raises CancelledError, which it does not catch.
CleanupWaited(j) ==
    /\ jobs[j].caller = "cleanup"
    /\ IF jobs[j].sid \in active /\ jobs[j].result # "cancelled"
       THEN /\ poisoned' = poisoned \ {jobs[j].sid}
            /\ jobs' = [jobs EXCEPT ![j].caller = "unpoisoned"]
       ELSE /\ jobs' = [jobs EXCEPT ![j].caller = "raised"]
            /\ UNCHANGED poisoned
    /\ UNCHANGED <<lifecycle, admission, active, reservations, busy, batch,
                   issued, worker>>

\* It aborts the session, and poisons it when the abort is refused.
CleanupAborts(j) ==
    LET sid == jobs[j].sid
        left == [jobs EXCEPT ![j].caller = "raised"]
        Ignored == sid \notin active \/ ~accepting
        Refused == sid \in poisoned \/ ~QueueAdmits("abort_stream")
    IN
    /\ jobs[j].caller = "unpoisoned"
    /\ \/ /\ Ignored
          /\ jobs' = left
          /\ UNCHANGED <<admission, issued, poisoned, busy>>
       \/ /\ ~Ignored
          /\ sid \in busy \/ Refused
          /\ poisoned' = poisoned \cup {sid}
          /\ jobs' = left
          /\ UNCHANGED <<admission, issued, busy>>
       \/ /\ AbortIdle(left, sid, TRUE)
          /\ UNCHANGED poisoned
    /\ UNCHANGED <<lifecycle, active, reservations, batch, worker>>

-----------------------------------------------------------------------------
(* The owner thread *)

\* _worker_loop up to its while: the factory, and the warmup of an eager load.
Load ==
    /\ pc = "loading"
    /\ pc' = "get"
    /\ \/ /\ warmed' \in EagerModes
          /\ UNCHANGED accepting
       \/ /\ accepting' = FALSE
          /\ UNCHANGED warmed
    /\ UNCHANGED <<shutdown, control, admission, registries, batch, jobs, issued,
                   job, outcome, sessions>>

\* The order of the PriorityQueue: streaming jobs (priority 0) before file jobs
\* (priority 10), by sequence within each.  The shutdown job (-100) is first.
Before(i, j) ==
    LET late(k) == jobs[k].action = "transcribe_file" IN
    \/ ~late(i) /\ late(j)
    \/ (late(i) <=> late(j)) /\ i < j

IsNext(j) == j \in queue /\ \A i \in queue \ {j} : Before(j, i)

\* queue.get() and _release_queue_slot: the queue itself is read by nobody else.
Dequeue(j) ==
    /\ ~control /\ IsNext(j)
    /\ queue' = queue \ {j}
    /\ queuedJobs' = queuedJobs - 1

GetJob ==
    /\ pc = "get"
    /\ \E j \in queue : Dequeue(j) /\ job' = j
    /\ pc' = "check"
    /\ UNCHANGED <<lifecycle, queuedAudio, registries, batch, jobs, issued,
                   outcome, warmed, sessions>>

\* The shutdown job ends the loop; _finalize_worker's first critical section.
GetShutdown ==
    /\ pc = "get" /\ control
    /\ control' = FALSE
    /\ accepting' = FALSE
    /\ pc' = "draining"
    /\ UNCHANGED <<shutdown, admission, registries, batch, jobs, issued, job,
                   outcome, warmed, sessions>>

\* _reject_unclaimed_job
Rejected(j) ==
    [jobs EXCEPT ![j].started = IF @ = "pending" THEN "error" ELSE @,
                 ![j].result = IF @ = "pending" THEN "cancelled" ELSE @]

WorkerLeaves == <<lifecycle, admission, registries, batch, issued, job, warmed, sessions>>

\* _job_expired_before_start, before the warmup and again before the claim.
\* The deadline of a job that nobody cancelled may have passed or not.
Unexpired == accepting /\ jobs[job].started # "cancelled"

PassCheck ==
    /\ pc = "check" /\ Unexpired
    /\ pc' = IF warmed THEN "claim" ELSE "warm"
    /\ UNCHANGED <<jobs, outcome, WorkerLeaves>>

\* _claim_job: from here on the caller can no longer cancel.
Claim ==
    /\ pc = "claim" /\ Unexpired
    /\ jobs' = [jobs EXCEPT ![job].started = "set"]
    /\ pc' = "execute"
    /\ UNCHANGED <<outcome, WorkerLeaves>>

Expire ==
    /\ pc \in {"check", "claim"}
    /\ jobs' = Rejected(job)
    /\ outcome' = "skip"
    /\ pc' = "cleanup"
    /\ UNCHANGED WorkerLeaves

\* The warmup of a lazily loaded model, in front of its first job.
Warmup ==
    /\ pc = "warm"
    /\ \/ /\ warmed' = TRUE
          /\ pc' = "claim"
          /\ UNCHANGED <<accepting, outcome>>
       \/ /\ accepting' = FALSE
          /\ outcome' = "error"
          /\ pc' = "cleanup"
          /\ UNCHANGED warmed
    /\ UNCHANGED <<shutdown, control, admission, registries, batch, jobs, issued,
                   job, sessions>>

-----------------------------------------------------------------------------
(* _execute_job: the model may return, raise, or never come back *)

ExecuteCreate ==
    LET sid == jobs[job].sid IN
    /\ jobs[job].action \in Creates
    /\ \/ /\ sessions' = sessions \cup {sid}
          /\ active' = active \cup {sid}
          /\ jobs' = [jobs EXCEPT ![job].holdsStream = FALSE]
          /\ outcome' = "value"
       \/ /\ jobs[job].action = "create_stream"
          /\ outcome' = "error"
          /\ UNCHANGED <<sessions, active, jobs>>
    /\ pc' = "cleanup"
    /\ UNCHANGED <<reservations, batchRunning>>

\* add_audio and finish_segment look their session up; a chunk's transcription
\* does not.  A KeyError is one more error of the job.
ExecuteAudio ==
    /\ jobs[job].action \in Chunks \cup {"finish_segment"}
    /\ \/ /\ jobs[job].action # "transcribe_stream_chunk" => jobs[job].sid \in sessions
          /\ outcome' = "value"
       \/ outcome' = "error"
    /\ pc' = "cleanup"
    /\ UNCHANGED <<sessions, active, reservations, jobs, batchRunning>>

\* finish_stream raises KeyError outside its try; abort_stream does not.
ExecuteEnd ==
    LET sid == jobs[job].sid IN
    /\ jobs[job].action \in {"finish_stream", "abort_stream"}
    /\ \/ /\ jobs[job].action = "abort_stream" \/ sid \in sessions
          /\ outcome' \in {"value", "error"}
          /\ sessions' = sessions \ {sid}
          /\ active' = active \ {sid}
          /\ reservations' = reservations \ {sid}
       \/ /\ jobs[job].action = "finish_stream" /\ sid \notin sessions
          /\ outcome' = "error"
          /\ UNCHANGED <<sessions, active, reservations>>
    /\ pc' = "cleanup"
    /\ UNCHANGED <<jobs, batchRunning>>

ExecuteFile ==
    /\ jobs[job].action = "transcribe_file"
    /\ batchRunning' = TRUE
    /\ pc' = "transcribe"
    /\ UNCHANGED <<sessions, active, reservations, jobs, outcome>>

\* A BaseException out of the model: the loop unwinds after its finally block.
ExecuteDies ==
    /\ \/ jobs[job].action \in {"create_stream", "transcribe_stream_chunk"}
       \/ jobs[job].sid \in sessions
    /\ outcome' = "fatal"
    /\ pc' = "cleanup"
    /\ IF jobs[job].action \in {"finish_stream", "abort_stream"}
       THEN /\ sessions' = sessions \ {jobs[job].sid}
            /\ active' = active \ {jobs[job].sid}
            /\ reservations' = reservations \ {jobs[job].sid}
       ELSE UNCHANGED <<sessions, active, reservations>>
    /\ UNCHANGED <<jobs, batchRunning>>

Execute ==
    /\ pc = "execute"
    /\ ExecuteCreate \/ ExecuteAudio \/ ExecuteEnd \/ ExecuteFile \/ ExecuteDies
    /\ UNCHANGED <<lifecycle, admission, poisoned, busy, batchPending, issued,
                   job, warmed>>

TranscribeEnds ==
    /\ pc = "transcribe"
    /\ batchRunning' = FALSE
    /\ outcome' \in {"value", "error", "fatal"}
    /\ pc' = "cleanup"
    /\ UNCHANGED <<lifecycle, admission, registries, batchPending, jobs, issued,
                   job, warmed, sessions>>

-----------------------------------------------------------------------------
(* The finally block *)

\* _cleanup_poisoned_session reads the poison in one critical section and
\* drops the session in a second one.
CheckPoison ==
    /\ pc = "cleanup"
    /\ pc' = IF jobs[job].sid \in poisoned THEN "purge" ELSE "release"
    /\ UNCHANGED <<jobs, outcome, WorkerLeaves>>

\* Mutant of Purge: the model's session is dropped, the id stays active.
PurgeKeepsActive ==
    /\ pc = "purge"
    /\ sessions' = sessions \ {jobs[job].sid}
    /\ poisoned' = poisoned \ {jobs[job].sid}
    /\ busy' = busy \ {jobs[job].sid}
    /\ pc' = "release"
    /\ UNCHANGED <<lifecycle, admission, active, reservations, batch, jobs, issued,
                   job, outcome, warmed>>

\* A BaseException out of the session's abort() ends the thread as well.
Purge ==
    LET sid == {jobs[job].sid} IN
    /\ pc = "purge"
    /\ outcome' = outcome \/ (sid \subseteq sessions /\ outcome' = "fatal")
    /\ sessions' = sessions \ sid
    /\ active' = active \ sid
    /\ reservations' = reservations \ sid
    /\ poisoned' = poisoned \ sid
    /\ busy' = busy \ sid
    /\ pc' = "release"
    /\ UNCHANGED <<lifecycle, admission, batch, jobs, issued, job, warmed>>

\* Mutant of ReleaseJob: the audio stays booked.
ReleaseJobKeepsAudio(j, current) ==
    /\ busy' = IF HoldsSession(j) THEN busy \ {jobs[j].sid} ELSE busy
    /\ IF jobs[j].holdsStream
       THEN /\ reservations' = reservations \ {jobs[j].sid}
            /\ jobs' = [current EXCEPT ![j].holdsStream = FALSE]
       ELSE /\ jobs' = current
            /\ UNCHANGED reservations
    /\ UNCHANGED queuedAudio

\* _release_audio_reservation, _release_session_reservation and
\* _release_stream_reservation of job j, given jobs as they stand.
ReleaseJob(j, current) ==
    /\ queuedAudio' = queuedAudio - AudioOf(jobs[j].action)
    /\ busy' = IF HoldsSession(j) THEN busy \ {jobs[j].sid} ELSE busy
    /\ IF jobs[j].holdsStream
       THEN /\ reservations' = reservations \ {jobs[j].sid}
            /\ jobs' = [current EXCEPT ![j].holdsStream = FALSE]
       ELSE /\ jobs' = current
            /\ UNCHANGED reservations

Release ==
    /\ pc = "release"
    /\ ReleaseJob(job, jobs)
    /\ pc' = "resolve"
    /\ UNCHANGED <<lifecycle, queue, queuedJobs, active, poisoned, batch, issued,
                   job, outcome, warmed, sessions>>

\* The futures are set last.  A fatal error goes on to _finalize_worker.
Resolve ==
    LET settled == [value |-> "value", error |-> "error", fatal |-> "not_ready"]
        early == [error |-> "set", fatal |-> "error"]
    IN
    /\ pc = "resolve"
    /\ jobs' = IF outcome = "skip" THEN jobs ELSE
               [jobs EXCEPT
                 ![job].started = IF @ = "pending" THEN early[outcome] ELSE @,
                 ![job].result = IF @ = "pending" THEN settled[outcome] ELSE @]
    /\ IF outcome = "fatal"
       THEN accepting' = FALSE /\ pc' = "draining"
       ELSE UNCHANGED accepting /\ pc' = "get"
    /\ job' = 0
    /\ outcome' = "skip"
    /\ UNCHANGED <<shutdown, control, admission, registries, batch, issued,
                   warmed, sessions>>

-----------------------------------------------------------------------------
(* _finalize_worker after its first critical section *)

\* One turn of _cancel_queued_jobs.
DrainJob ==
    /\ pc = "draining"
    /\ \E j \in queue : Dequeue(j) /\ ReleaseJob(j, Rejected(j))
    /\ UNCHANGED <<lifecycle, active, poisoned, batch, issued, worker>>

DrainShutdown ==
    /\ pc = "draining" /\ control
    /\ control' = FALSE
    /\ UNCHANGED <<accepting, shutdown, admission, registries, batch, jobs, issued, worker>>

Finalize ==
    /\ pc = "draining" /\ queue = {} /\ ~control
    /\ sessions' = {}
    /\ active' = {} /\ reservations' = {} /\ poisoned' = {} /\ busy' = {}
    /\ batchPending' = FALSE /\ batchRunning' = FALSE
    /\ queuedAudio' = 0 /\ queuedJobs' = 0
    /\ shutdown' = FALSE
    /\ pc' = "dead"
    /\ UNCHANGED <<accepting, control, queue, jobs, issued, job, outcome, warmed>>

-----------------------------------------------------------------------------
Client ==
    \/ Start
    \/ Stop
    \/ \E sid \in Sessions :
         \/ \E action \in Creates \cap Operations : CreateStream(action, sid)
         \/ \E action \in SessionActions \cap Operations : SubmitOperation(action, sid)
         \/ AbortStream(sid)
    \/ PostTranscribe
    \/ \E j \in JobIds : CancelCaller(j)

\* What the event loop owes a waiting caller: the next of its awaits ends.
Caller(j) ==
    \/ SeeStarted(j) \/ QueueTimeout(j)
    \/ SeeResult(j) \/ InferenceTimeout(j)
    \/ CleanupWaited(j) \/ CleanupAborts(j)

Worker ==
    \/ Load \/ GetJob \/ GetShutdown
    \/ PassCheck \/ Claim \/ Expire \/ Warmup \/ Execute \/ TranscribeEnds
    \/ CheckPoison \/ Purge \/ Release \/ Resolve
    \/ DrainJob \/ DrainShutdown \/ Finalize

Next == Client \/ (\E j \in JobIds : Caller(j)) \/ Worker

Spec == Init /\ [][Next]_vars

\* The event loop runs and its timers fire, whatever the owner thread does: the
\* model may hang for ever.
LoopFairness == \A j \in JobIds : WF_vars(Caller(j))
LoopSpec == Spec /\ LoopFairness

\* The model also comes back from every call.
FairSpec == LoopSpec /\ WF_vars(Worker)

-----------------------------------------------------------------------------
(* Properties *)

\* Jobs whose reservations the owner thread has not given back yet.
Held == IF pc \in {"check", "warm", "claim", "execute", "transcribe", "cleanup",
                   "purge", "release"} THEN {job} ELSE {}

\* The stream limit holds although a stream's slot is taken by the caller and
\* given back by the owner thread on six paths (create failed, finish, abort,
\* poison, drain, finalize): no live session is without its reservation.
CapacityBound ==
    /\ Cardinality(reservations) <= MaxActiveStreams
    /\ active \subseteq reservations

\* _queued_business_jobs and _queued_audio_seconds say exactly what is queued
\* and, for audio, what the owner thread still holds: neither drifts over
\* timeouts, cancellations and drains.
QueueAccounting ==
    /\ queuedJobs = Cardinality(queue)
    /\ queuedAudio = Cardinality({j \in queue \cup Held : jobs[j].action \in Chunks})

\* A session's operations are serialised: at most one is queued or in the owner
\* thread's hands, whatever its caller did meanwhile.
OneOperationPerSession ==
    \A i, j \in queue \cup Held :
        HoldsSession(i) /\ HoldsSession(j) /\ jobs[i].sid = jobs[j].sid => i = j

\* An admitted operation finds its session when it runs: sessions[session_id]
\* raises no KeyError, although it was admitted while active named it and the
\* owner thread drops sessions without asking the queue.
LookupsSucceed ==
    /\ pc = "execute"
    /\ jobs[job].action \in {"add_audio", "finish_segment", "finish_stream"}
    => jobs[job].sid \in sessions

\* A file job and a live stream never own the model together.  The code does
\* not guarantee it (asr_inference.py:291, see the README): the caller's finally
\* gives up the batch admission while the owner thread may still be about to
\* start the file, so no run checks this.
BatchExclusive == batchRunning => reservations = {}

\* A poisoned session is dropped, and its stream slot given back.
PoisonedIsRemoved ==
    \A sid \in Sessions : sid \in poisoned \cap active ~> sid \notin active
=============================================================================
