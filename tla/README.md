# TLA+ models of the speech services

This directory holds TLA+ specifications of the speech services of the
repository, the TLC configurations that model-check them on small instances, and
TLAPS proofs of the main invariants of seven of them. Line references are to the
Python files under `src/app/`.

1. [The system](#1-the-system): components, state, operations, hard behaviour
2. [Modules](#2-modules): which module models what, and how
3. [Runs](#3-runs): what TLC checks, bounds, fairness
4. [Where the code and its documents disagree](#4-where-the-code-and-its-documents-disagree)
5. [Proofs](#5-proofs)
6. [What is not modelled](#6-what-is-not-modelled)
7. [Plan](#7-plan)

To check: `tlc -workers 2 -config <cfg> <module>` for a run of section 3, `tlapm
<module>.tla` for a proof module of section 5. `PROJECT.json` lists components,
runs, the source lines of every definition, hazards, mutants, findings and
theorems. A definition commented "Mutant of X" is a deliberately wrong variant of
X: substituted for X, it breaks the property `PROJECT.json` names with it.

## 1. The system

The repository serves three kinds of model: speech recognition (ASR), speech
synthesis (TTS) and translation (MT). ASR has by far the most state and
concurrency, in two services:

* the *direct service* (`asr_api.py`): a controller per WebSocket submits
  operations to `ASRInferenceCoordinator` (`asr_inference.py`), whose one thread
  owns the model;
* the *gateway* (`asr_gateway*.py`): WebSocket handlers feed `GatewaySession`
  objects, optionally through a voice-activity endpoint detector (`asr_vad.py`);
  `GatewayRuntime` cuts their audio into jobs for a `GatewayScheduler`, whose task
  batches jobs of several sessions into calls of a worker's adapter and publishes
  the results back into the sessions. A sender task per connection writes events.

Both turn decoded text into events through the same transcript state
(`asr_streaming.py`), and reach the Qwen engine through the same coordinator: the
direct service by itself, the gateway through its local adapter. TTS
(`tts_api.py`) is a service of its own: a handler per WebSocket takes one of a
bounded number of slots and, for each text, starts a producer thread that drives the
synthesizer and fills a queue of two chunks.

| Component | State | Operations | What is hard | What makes it correct |
|---|---|---|---|---|
| Session and PCM buffer (`asr_gateway_sessions.py`, `asr_gateway_chunking.py`) | buffered samples, one reservation, cursors, generation, state | append, accept for VAD, record discarded, reserve, acknowledge, roll back, request finish, abort, fail, succeed, close | two tasks use it; a job's result can come back after the session was aborted; accounting by subtraction with a clamp | samples are conserved; each is decoded once and in order; what the VAD hands back fits |
| Endpoint detector (`asr_vad.py`) | five states, four buffers | add_audio, endpoint_finalized, finish_input, reset | long sequences over five states; buffers cleared without being counted | conserves samples, bounds what it holds, an endpoint brings audio, calls return |
| Inference coordinator (`asr_inference.py`) | bounded priority queue, active/busy/poisoned sessions, reservations, counters, futures of each job | start, stop, create_stream, add_audio, finish_segment, finish_stream, abort_stream, transcribe_file, transcribe_stream_chunk; the owner thread's loop | two time-outs and cancellation race a thread; poisoning; thread death and restart | limits hold, one operation per session, counters exact, callers return, shutdown ends |
| Scheduler (`asr_gateway_scheduler.py`) | per-worker queue, queued samples, cancelled generations, accepted keys, failed workers, wake event | enqueue, cancel_session, wait_session_safe, run_once, close | one task publishes into sessions that handlers are changing; a batch may fail with more jobs behind it | account exact, no submitted job of a session the adapter forgot, jobs settle |
| Runtime and handler (`asr_gateway.py`) | context per session: protocol lock, idle event, pending endpoint, outbound queue | open, ingest, segment, finish, abort, error, publish, release, drain_worker, close | waits for idle, for the lock, for a reservation, for the scheduler's barrier, for the sender; drain and close abort from outside | one terminal event and nothing behind it; handlers come back; nothing left behind |
| Registry, leases, session manager (`asr_gateway_backends.py`, `asr_gateway_sessions.py`) | worker lifecycle, active leases, per-worker "empty" event, session table | register, acquire, release, begin_drain, mark_failed, remove; create, close | the same session can be released by finish, sender, handler, drain and close; opens fail half-way | leases counted exactly and never on an unregistered worker; a drain ends |
| Transcript and protocol (`asr_gateway_protocol.py`, `asr_streaming.py`) | confirmed text, partial, active segment | apply snapshot, commit, append independent segment, final | a segment is closed by an endpoint, the segment limit, a command or the end, each at another moment | the client's view is the transcript; no result is refused as a conflict |
| Adapters (`asr_gateway_local_adapter.py`, `asr_sensevoice.py`, `asr_faster_whisper.py`), engine sessions (`asr.py`) | tables of sessions, PCM and text of the segment, cached final | warmup, open, submit, finish_segment, finish, abort, close | audio is added before the engine may fail; three places keep the segment's length | the adapter has the audio of the segment, no more and no less; the speech reaches the client once and in order |
| Direct API controller (`asr_api.py`) | session id, deadline, last event | start, audio, segment, end, expire, fail, abort | a deadline cancels an operation that cleans up for itself; aborts that are refused | handlers end, slots come back, at most one terminal event |
| TTS (`tts_api.py`, `tts.py`, `tts_qwen.py`, remote backends) | stream slots, producer threads and their queues, CosyVoice's lock, Qwen's request queue and worker | stream, POST, start, close | clients leave with a producer in the model; full queues; a stop mark among requests | slots exact, audio complete, producers end, requests are answered |
| MT, configuration, schemas, metrics, scripts | none shared | | | |

The hazards, each with its line and the properties that look at it, are in
`PROJECT.json`.

## 2. Modules

| Module | Models | Uses |
|---|---|---|
| `SessionRecord` | a `GatewaySession` with its `PcmRingBuffer`, as a record and pure operators, one per method | |
| `GatewaySession` | one session, its handler's calls and the jobs that come back, in any order | `SessionRecord` |
| `VadContract` | what the gateway relies on from a VAD (abstract specification) | |
| `VadEndpoint` | `StreamingVADEndpointDetector`, frame by frame | implements `VadContract` |
| `InferenceCoordinator` | callers, queue and owner thread of the coordinator | |
| `StreamController` | the direct service's handlers, stateful and chunked, as the coordinator's callers | `InferenceCoordinator` |
| `Transcript` | `StreamingTranscriptState`, its events and a client's display, as pure operators | |
| `AdapterSession` | one session inside SenseVoice, faster-whisper and the Qwen engine, as pure operators | `Transcript` |
| `Delivery` | audio to text through the gateway with any of its adapters and through the direct service | `AdapterSession` |
| `TtsService` | the TTS service with its synthesizers | |
| `WorkerLeases` | registry, leases, session manager; open, end, release, drain, close | |
| `JobList` | the scheduler's lists of jobs: what leaving some out and summing their audio gives | |
| `GatewayRuntime` | several sessions with handlers, senders and outside aborts, and the scheduler task of one worker | `SessionRecord`, `JobList` |
| `GatewaySessionProofs` and `GatewayRuntimeProofs` (with the lemmas of `GatewayLemmas`), `VadEndpointProofs`, `InferenceCoordinatorProofs`, `StreamControllerProofs`, `WorkerLeasesProofs`, `TtsServiceProofs` | theorems | each extends the module it is about; `StreamControllerProofs` also the coordinator's |
| `MC*` | instances for TLC | |

**Audio is a number of samples** in the modules about control: PCM bytes, text, file
names and metadata are left out, and what a property tells apart of them (how many
samples, whose, in which order) is kept. A sample range `[start, end)` of a job is
kept, so that "decoded twice" and "skipped" are visible. In `Delivery` audio is a
sequence of samples and a sample is its own token of text, so that lost, repeated
and swapped text is visible.

**Steps.** All gateway code runs on one event loop, so a step extends from one
`await` that can really suspend to the next; awaiting a lock that nobody holds
across a suspension does not end a step. In `InferenceCoordinator` the owner
thread is preempted between any two uses of the lock or of a future.

**`SessionRecord`.** `data`, `base`, `acked`, `discarded`, `bufAccepted` are the
cursors of the buffer; `accepted`, `extDiscarded` those of the session;
`res` is the reservation in flight, `gen` the generation that an abort bumps.
An operator `CanX` is the method's refusal (an exception in the code).
`PendingVad` keeps the code's `max(0, ...)`.

**`GatewaySession`.** `held` are the samples inside the VAD, whose answers are any
that `VadContract` allows. `jobs` are the reservations given to the scheduler and
not yet returned; `CleanupJob` is what happens to one that comes back, current or
stale. `Fail` leaves the handler reading when the scheduler's result path failed
the session. The mode, with or without the gateway's VAD, is chosen in `Init`.

**`VadEndpoint`.** The buffers are `preRoll`, `candidate`, `trailing` and `input`. A
call opens, processes one frame per step and returns; the model's probability is
any of the three classes that the two thresholds separate. `received`, `delivered`,
`discarded` and `utterance` are history for the properties.

**`InferenceCoordinator`.** A job record holds the two futures (`started`, `result`)
and where its caller is. The owner thread's `pc` names its critical sections:
`get`, `check` (expired or not ready), `warm`, `claim`, `execute`, `cleanup` and `purge`
(poison), `release`, `resolve`, `draining`. `QueueTimeout`, `InferenceTimeout` and
`CancelCaller` may happen at any moment their wait is pending. A refused submission
changes nothing and has no action.

`CreateAdmitted`, `OperationAdmitted` and `FileAdmitted` are the refusals.

**`StreamController`** extends `InferenceCoordinator` by its callers. A stream's `at` is the
handler's current await, `doing` the model operation and what must follow it, `wire`
the last event on the socket. A call of the model is the coordinator's own action
(`CreateStream`, `SubmitOperation`, `AbortIdle`, `AbortBusy`), and the handler goes on
when that job's caller has ended. The deadline may pass at any moment; it cancels the
coordinator's coroutine (`CancelCaller`), whose cleanup runs before `_expire_session`.
`MaxJobs` bounds the jobs of a behaviour, and `RoomFor` keeps those in reserve that a
stream will need to end, so that the bound never looks like a hang.

**`Transcript`, `AdapterSession`, `Delivery`.** The engine decodes the noise away
(`Speech` are the samples that say something), is right about a finished segment and
may be wrong about one that still grows (`Hears`). `Transcript` gives for each
operation the new state and the events; `ShownAll` is what a client makes of them,
after `DisplayState` of `scripts/stream_asr_client.py`. In `Delivery` a connection has three
sample counts, `fed` by the client, `given` on by the VAD, `taken` for jobs; `utter` is
`utterance_samples`. `Schedule` is `_schedule_next` with the three limits it
takes the minimum of; `Submit`, `BatchDecodes` and `BatchFails` are the adapter's submit
around the engine; `Settle` is `_cleanup_job` and, when the protocol lock is free,
`_apply_result`; `LateResult` is the latter when the handler had the lock.
`ResultCloses` is the `finish_segment` that follows an endpoint or a full segment.

**`TtsService`.** A connection's `at` is the handler's await; a producer's `at` is where
its thread is (`call`, `model`, `put`, for Qwen `enqueue`, `wait`, for Triton `stopping`, the join in
`stop_stream`). `responses` counts what Triton's callbacks have brought and nobody has taken;
a third response stands for a callback blocked in its put. A send that
raises in the body of `async for` does not close the generator: the handler's
`finally` gives the slot back first, and the event loop's finalizer stops the producer
some time later (`orphan`, `FinalizeGenerator`). `POST /v1/tts` drives `stream_pcm` in its own
thread and takes no slot.

**`WorkerLeases`.** `empty` is `_worker_empty`, the event a drain waits for; `sweep`
is the program counter of `drain_worker` for each worker and of `close()`.
A handler in `segment` is `segmenting`: it may come back, fail or stay.
`Happens` selects what the surroundings may do in an instance: calls that raise, a
worker reported failed, a shutdown. Which worker is selected follows the code
(fewest leases, then the smallest id); capability matching is left out.

**`GatewayRuntime`.** A handler's `pc` is its current wait; `ctx` is its
`_SessionContext`; `sched` is the scheduler task. `ScheduleNext` is `_schedule_next`
with its refusals; `Dispatch` chooses the batch, `SubmitFails` drains the queue of
the failed worker, `Settle` acknowledges or drops each result and the `Publish...`
actions are `_apply_result`, one step per critical section of the protocol lock.
Time is left out: a deadline may pass or not (`PastDeadline` where a handler looks at it under
the lock), and the age and sample limits of a batch become a free cut of the candidates.
`AdapterRaises` and `AbortRaises` are the adapter's exceptions.

## 3. Runs

Ten runs pass. Numbers are distinct states.

| Run | Instance | States | Properties |
|---|---|---|---|
| `session` | buffer of 3 samples, 5 samples in all, frames of 1 and 2, 3 jobs; both VAD modes | 14,608 | `Conservation`, `HandOverFits`, `ReservationIsOwned`, `CursorsAgree`, `DecodesInOrder` |
| `vad_endpoint` | frames of 2, inputs of 1, 3 and 5, 16 samples, minimum speech of two frames, silence of three | 10,810 | `SamplesConserved`, `HeldIsBounded`, `EndpointHasUtterance`, `ImplementsContract` |
| `coordinator` | 3 sessions for 2 slots, queue of 1, 3 jobs, lazy and eager loading; native streams and files | 979,069 | `CapacityBound`, `QueueAccounting`, `OneOperationPerSession`, `LookupsSucceed` |
| `stream` | 1 connection, stateful and chunked, lazy loading, queue of 1, 5 jobs | 164,418 | `IdleBetweenOperations`, `TerminalEventLast`, `HandlersEnd`, `SlotComesBack`, `CallersReturn`, `ShutdownCompletes` |
| `delivery` | sessions of 6 samples and of 1, segments of 3, jobs of 2, batches of 2; five backends and modes | 1,957,851 | `ClientView`, `SpeechDelivered`, `SegmentAudio`, `NoConflict`, `LimitKept` |
| `tts` | 1 slot, 2 streams and a POST request, 2 texts of up to 3 chunks; CosyVoice, Triton, another remote backend, Qwen with a queue of 1 and batches of 2 | 191,873 | `SlotsExact`, `AudioComplete`, `ProducersEnd`, `BatchesAnswered`, `WorkersStop` |
| `leases` | 1 worker of capacity 2, drained; 2 sessions; failing opens, segments, finishes, aborts, sends, worker | 65,749 | `NothingLeftBehind`, `DrainEnds` |
| `leases_faults` | 2 workers of capacity 1 on 1 or 2 GPUs, one drained; 2 sessions; failing VAD factory and aborts, worker failure, close | 185,887 | `LeasesExact` |
| `runtime_two` | 2 sessions of 3 samples, jobs of 2, queue of 2 jobs and 3 samples, batches of 2; finish and abort; failing submits, queue time-outs | 671,073 | `QueueExact`, `SubmittedSessionsOpen`, `JobsOwnReservations` |
| `runtime_one` | 1 session behind the VAD; every command; disconnects, adapter errors, wait time-outs and deadlines, outside aborts, close | 171,607 | `TerminalEventIsLast`, `JobsSettle`, `HangsOnlyThen` |

The runs `session` and `vad_endpoint` also check their `TypeOK`, which the proofs rest on.

**Why these bounds.** Every limit is reached: a session sends more than a buffer
holds, a queue of one job makes the second submission a refusal and puts `stop()` in
front of a full queue, the third stream of `coordinator` meets the limit of two, in
`leases_faults` and `tts` a second client competes for a place, three jobs let a
stale one, a current one and a queued one exist together. Two sessions suffice
where the code treats sessions alike and compares at most two (a batch, the
scheduler's drain, the worker's event). Inputs of the detector that do and do not
line up with frames reach every edge of its state machine. The detector's
and the single session's invariants are proved for all values (section 5). Five jobs let
a stream be created, used, cancelled and aborted by both the cleanup and the handler.
In `delivery` the long session crosses the segment limit, has noise, a sentence end
and a wrong partial in it, and shares a batch with the short one. Its six
samples let a handler block on a full buffer while the job that fills the segment is in
flight, and cut the next job at a remaining budget of 0. In `tts` three
chunks and the end mark overfill the queue of two, the second stream finds no slot
or the slot of a stream whose producer is still alive, and Qwen's queue of one is
full when a request comes. (The stop mark and the worker's own put find room: when the
service closes, its handlers have returned and no producer has a request left to put.) Which clients come is
fixed for each synthesizer (`Crowd`).
Sessions and GPUs are interchangeable, and symmetry is used for them in the safety
runs only.

**Deadlock.** The coordinator's runs check for it. Elsewhere a bounded client may have
sent everything and left, so that the system really stops, and the configurations
say `CHECK_DEADLOCK FALSE`.

**Fairness**, only in the runs with liveness properties.

* `StreamController!ServiceSpec`: the event loop runs, sends and timers end, and the
  deadline of a connection passes some time. Nothing is
  assumed of the owner thread, which may hang in the model: `CallersReturn` holds all
  the same. `ShutdownCompletes` says that a requested shutdown ends the thread *if* every model
  call comes back, an implication with the thread's fairness inside the property, and
  so does `SlotComesBack`.
* `TtsService!Spec`: threads and the event loop run, sends end, model calls come back. The
  remote backends have time-outs (Triton has none); CosyVoice and Qwen run in process.
  That a thread runs assumes one for every producer: `asyncio.to_thread` takes it from
  the event loop's default executor, which has 32 at most, and `tts_max_active_streams` may be
  128 (`config.py:124`). With more streams than threads, or after enough of the hangs that
  `ProducersEnd` names, a text waits for a thread, which no property here covers.
  Clients owe nothing.
* `WorkerLeases!FairSpec`: tasks that can run do. A handler at its socket ends some time
  (strong fairness: the idle time-out and the session deadline are looked at there, and it may
  leave the socket for `segment` and return any number of times). Nothing is assumed of a
  handler inside `segment`, whose wait for idle looks at no clock (`asr_gateway.py:405`), nor
  of a `finish` whose session an `abort()` has released. Nobody has to connect, segment,
  finish, abort, or start a drain.
* `GatewayRuntime!FairSpec`: tasks that can run do; adapter calls end (submit has a
  time-out); a queued job's deadline wakes the scheduler. Clients owe nothing.

**What the properties mean where it is not obvious.**

* `HandOverFits`: `endpoint_finalized` hands audio over from the result path, which
  has no back-pressure; it never meets the buffer limit, because ingest counts what is
  inside the VAD against the same limit.
* `ImplementsContract`: the detector refines `VadContract`, with the decision being put
  together still counted as held.
* `LookupsSucceed`: `sessions[session_id]` in the owner thread raises no `KeyError`
  although the operation was admitted earlier, under a registry that others change.
* `SubmittedSessionsOpen`: no abort path drops the adapter's session while a submitted
  batch contains one of its jobs; this is what the barrier `wait_session_safe` is for.
* `TerminalEventIsLast` is about the events *sent* to the client: one terminal event
  at most, and nothing queued behind it. The log event of section 4 is another matter.
* `HangsOnlyThen`: a handler gets back to its socket or returns, or it waits for ever for
  something that nobody is left to do. There are three such waits: in `segment`, for idle, with
  nothing in flight; in `finish`, for idle, overtaken by an abort from a drain or a close; and
  for the sender, when the session has ended without a terminal event in its queue (an
  `enqueue_abort` in which the adapter raised). Section 4 describes each.
* `DrainEnds`: a drain unloads its worker, or waits without a time-out (`asr_gateway.py:659`) for
  a session that nothing ends: one opened behind the sweep whose handler stays in
  `segment`, or one whose handler waits for the sender as above.
* `LimitKept`: no submit fails the worker because a job is beyond the adapter's segment
  limit. This rests on a buffer no larger than a segment, and on the
  adapter's own count of the segment, which runs ahead of the gateway's; section 4 has what a
  larger buffer does.
* `ProducersEnd`: a producer whose handler has returned ends, but for one: a thread that
  drops Triton's generator joins the thread of the callbacks, and that one waits to put a
  third response into a queue of two (`tts_triton.py:36-39`, `70`).
* `SlotComesBack`: a stream's slot in the coordinator is free for good once its handler
  returned, except for the two leaks that the property names; so there is no third. The
  abort that leaks it times out here; a queue that is full at the abort takes a second
  connection, and leaks it in the same way.
* `ClientView`: between operations, confirmed text and tail at the client are those of
  the server, so no event is missing and none is extra.
* `SpeechDelivered`: what is confirmed is a prefix of the speech at every moment, and
  at the end everything is there. It leaves out sessions in which a job crossed the
  end of a Qwen segment (`straddled`), see section 4.
* `SegmentAudio`: gateway and adapter keep the segment's audio apart (`utterance_samples`,
  `state.pcm`); they agree whatever was rolled back, failed, skipped or closed.
* `AudioComplete`: the queue between producer and handler loses nothing although puts
  time out, and the end mark cannot overtake audio.
* `WorkersStop`: there is one stop mark, and the worker may take it out of the queue in the
  middle of a batch (`tts_qwen.py:194`) or decode longer than `close()` waits; it ends all the same.

## 4. Where the code and its documents disagree

Two runs are expected to find a violation of what a document or a test says.

| Run | Property | What happens |
|---|---|---|
| `coordinator_poison` | `PoisonedIsRemoved` | `tests/test_asr_inference.py:458` expects a timed-out session to be removed. If the time-out (`asr_inference.py:420`) lands after the owner thread looked for poison and before it set the result, nobody looks again: the session and its stream slot stay until a restart. |
| `runtime_boundary` | `HandlerReturns` | `README.md:455` says that `segment` first transcribes buffered PCM. While a job is in flight, `ingest(force=True)` schedules nothing; when that job's result is applied, `_schedule_next` is called without `force`, so a remainder below the preferred chunk stays and idle is never set. The handler waits for ever (`asr_gateway.py:405`). |

Others were seen while modelling and have no run of their own. The definition
named in brackets, put into a configuration, shows the counterexample.

* "The completed transcript is all `sentence_final` messages in order plus the `final`
  text" (`docs/API.md:354`). Behind the gateway's local adapter text can be lost: a
  handler waits for buffer space with the protocol lock held while the scheduler's
  cleanup acknowledges a job; the handler then cuts the next job with the old
  `utterance_samples` (`asr_gateway.py:321`), across the end of the Qwen segment.
  `LocalCoordinatorAdapter.submit` returns the first of the two snapshots only
  (`asr_gateway_local_adapter.py:75-81`), and the text of `finish_segment` replaces the
  finished segment's. [`TranscriptComplete` of `Delivery`, in the instance of `delivery`
  with `Kinds = {"local"}`]
* A final decode that yields no text is not applied (`asr_gateway.py:409`), so that a
  wrong partial shown before is what gets committed;
  `docs/asr-sensevoice-small-design.md:58-60` says that the gateway commits the final
  decode. `SpeechDelivered` counts only the speech.
* "A session may emit exactly one `asr_session_terminal` event"
  (`docs/asr-sensevoice-failure-containment-design.md:61`). The result path fails a
  session, which emits one; the client's abort is already in the receive queue, and
  `enqueue_abort` (`asr_gateway.py:545`) emits another. [`OneTerminalEvent`, in the instance
  of `session`]
* "Let existing stateful sessions finish within a bounded deadline"
  (`docs/asr-gateway-platform-design.md:209`). An open that fails sets the worker's event
  (`asr_gateway.py:168`) though another session is open, or just being opened, there. The
  drain stops waiting before its deadline and unloads the worker with that session on it.
  [`DrainWaits`, in the instance of `leases`]
* `test_adapter_segment_remaining_is_authoritative_for_job_size`
  (`tests/test_asr_gateway.py:2005`) expects a job of the adapter's remaining budget. A handler
  blocked on a full buffer holds the protocol lock while the job that fills the segment is
  acknowledged, and cuts the next one before the segment is closed. The budget is 0, `maximum
  or available` (`asr_gateway_sessions.py:119`) takes that for no limit, and the job is the
  whole buffer; when that is more than a segment, submit fails the worker. `config.py:67` and
  `:111` allow such a buffer. [`LimitKept`, in the instance of `delivery` with a long session of
  7 samples, `MaxBuffered = 4` and `Kinds = {"sensevoice"}`]
* The controller's `abort()` and `_expire_session` forget the session id and then ignore
  an `abort_stream` that is refused by a full queue or times out
  (`asr_api.py:703-714`): the stream slot is lost until a restart. [the second alternative
  of `SlotComesBack`; the third is `coordinator_poison`]
* `fail()` (`asr_api.py:718`) sends without a time limit before the handler's `finally`
  aborts, so that a client that does not read keeps its slot beyond the deadline; the
  fairness of `stream` assumes that sends end.
* A deadline inside the send of the final event makes an error event follow it. [the
  third alternative of `TerminalEventLast`]
* The TTS slot is given back before the producer has stopped (`SendRaises`), so
  `tts_max_active_streams` does not bound the producer threads; and CosyVoice's lock is
  held across yields, so a client that reads slowly holds up every other stream.
* The producer of a client that left drops Triton's generator, whose `finally` calls
  `stop_stream` (`tts_triton.py:70`). It joins the thread of the callbacks, and that one may
  be blocked in `responses.put` (`36-39`), since nobody takes responses any more: both threads
  are lost, one of them from the pool that all producers share. [the second alternative of
  `ProducersEnd`]
* `finish_input` drops whatever is in the detector's input buffer. Behind an
  unacknowledged endpoint that can be many frames nobody has classified
  (`asr_vad.py:214`; `README.md:437` speaks of silence, noise and short bursts).
  [`DropsOnlyClassified` of `VadEndpoint`, in the instance of `vad_endpoint`]
* The caller of `transcribe_file` clears `_batch_pending` when it is cancelled
  (`asr_inference.py:291`); the owner thread, which has claimed the job, sets
  `_batch_running` later. A stream created in between shares the model with the file.
  [`BatchExclusive`, in the instance of `coordinator`]
* A VAD factory that raises in `open_session` (`asr_gateway.py:171-177`) leaves the
  lease, the manager's slot and the adapter's session. [`NothingLeftBehind`, in the
  instance of `leases` with the faults of `leases_faults`]
* `finish` gives the lease back (`asr_gateway.py:459`) before the sender frees the
  manager's slot. With equal limits, a new connection gets the lease, opens its
  session in the adapter and is refused by `SessionManager.create`
  (`asr_gateway.py:160-169`); the adapter's session stays. [`BackendReleased`, in the
  instance of `leases` with both limits 1]
* `enqueue_abort` does not suppress an exception of the adapter
  (`asr_gateway.py:557`): no close is queued, the error path finds the session
  aborted and sends no terminal event, and the handler waits for its sender for ever
  (`asr_gateway.py:1283`); the context, slot and lease stay. [the third wait of
  `WaitsForNobody`, in `HangsOnlyThen`; `EndedIsReleased`, in the instance of `leases`]
* `abort()` from a drain or a close (`asr_gateway.py:560-587`) sets no event the
  session's own handler may be waiting for. [the second wait of `WaitsForNobody`]
* `segment` hangs as well when the VAD holds samples back, since idle requires that
  nothing is pending in it. [the first wait of `WaitsForNobody`]
* After its deadline a drain waits again, without a time-out (`asr_gateway.py:659`), for a
  session that was in the adapter's open call at the sweep; its handler may then hang in one of
  those waits. [the second alternative of `DrainEnds`]

## 5. Proofs

TLAPS proves, for every value of the constants:

| Theorem | Statement | Checked by TLC in |
|---|---|---|
| `GatewaySessionProofs!TypeCorrect` | `[]TypeOK` | `session` |
| `...!ConservesSamples` | `[]Conservation` | `session` |
| `...!HandOversFit` | `[]HandOverFits` | `session` |
| `...!OwnsReservation` | `[]ReservationIsOwned` | `session` |
| `...!AgreesOnCursors` | `[]CursorsAgree` | `session` |
| `...!DecodesConsecutively` | `DecodesInOrder`, an action property | `session` |
| `VadEndpointProofs!TypeCorrect` | `[]TypeOK` | `vad_endpoint` |
| `...!ConservesSamples` | `[]SamplesConserved` | `vad_endpoint` |
| `...!BoundsHeld` | `[]HeldIsBounded` | `vad_endpoint` |
| `...!EndsUtterances` | `[]EndpointHasUtterance` | `vad_endpoint` |
| `...!Implements` | `ImplementsContract`, the refinement of `VadContract` | `vad_endpoint` |
| `InferenceCoordinatorProofs!TypeCorrect` | `[]TypeOK` | |
| `...!StreamLimitHolds` | `[]CapacityBound` | `coordinator` |
| `...!QueueIsAccounted` | `[]QueueAccounting` | `coordinator` |
| `...!SessionsSerialised` | `[]OneOperationPerSession` | `coordinator` |
| `...!AdmittedFindsSession` | `[]LookupsSucceed` | `coordinator` |
| `WorkerLeasesProofs!TypeCorrect` | `[]TypeOK` | |
| `...!LeasesAreExact` | `[]LeasesExact` | `leases_faults` |
| `...!HandlersLeaveNothing` | `[]NothingLeftBehind`, if the VAD factory does not raise | `leases` |
| `GatewayRuntimeProofs!TerminalIsLast` | `[]TerminalEventIsLast` | `runtime_one` |
| `...!AccountExact` | `[]QueueExact` | `runtime_two` |
| `...!SubmittedStayOpen` | `[]SubmittedSessionsOpen` | `runtime_two` |
| `...!JobsOwn` | `[]JobsOwnReservations` | `runtime_two` |
| `StreamControllerProofs!OneTerminalEvent` | `TerminalEventLast`, an action property | `stream` |
| `...!SessionIdleBetweenOperations` | `[]IdleBetweenOperations` | `stream` |
| `...!AccountsUnderService` | the coordinator's four invariants, of `ServiceSpec` | |
| `TtsServiceProofs!SlotsAreExact` | `[]SlotsExact` | `tts` |
| `...!AudioIsComplete` | `[]AudioComplete` | `tts` |

**Assumptions.** Sizes and limits are natural numbers, positive where the code makes
them so (`_milliseconds_to_samples` returns at least one sample); frame sizes are
positive. The bounds of the model (`MaxJobs`, `MaxAudioSamples`, `MaxInput`) are
arbitrary naturals. Sets whose members are counted (sessions, workers, WebSocket
clients) are finite. `HandlersLeaveNothing` has one hypothesis more, that
`"vad_factory_fails"` is not in `Happens`: with it the statement is false, as section 4
says, and the instance of `leases` satisfies it. All other theorems hold for every choice
of `Happens`. Every theorem holds without fairness: the specifications state some, and
no proof uses it.

**Before each proof** TLC checked the inductive invariant as an invariant of the
component's instance: 979,069 states for `InferenceCoordinator`, 185,887 for `WorkerLeases` (in
that of `leases_faults`), 171,607 and 671,073
for the two of `GatewayRuntime`, 164,418 for `StreamController`, 191,873 for `TtsService`.

**`GatewaySession`.** None of the invariants is inductive. `Conservation` needs that
the clamp of `PendingVad` never bites, thus that hand-overs and discards add up to
less than was accepted; this holds because the VAD returns no more than it holds, which
needs `held = PendingVad` while the adapter's session is open; and the cursors must agree for
an acknowledgement to move samples from "reserved" to "acknowledged" one for one. The
inductive invariant `IInv` is `Sound` (type, cursor equations, the buffer limit
including the VAD's share, and that the reservation is a job of the current
generation) and `Surroundings` (how `held`, `backend`, `context` and the mode
relate). `GatewayLemmas` has one lemma per operator saying which fields change;
the step lemmas cite these and never expand the records. `DecodesInOrder` follows from
`IInv` and from the fact that only a matching job changes `acked`.

**`VadEndpoint`.** `SamplesConserved` is not inductive since the code clears buffers
without counting them. `BufferDiscipline` says which buffers are empty in which state, which makes
these clears harmless, and bounds each buffer. `CallDiscipline` says what a
decision under construction looks like, `SpeechDelivered` that in speech at least the
minimum has been answered, which `EndpointHasUtterance` needs at the moment silence
completes. `IInv` is their conjunction. The refinement proof maps each action to
one of the contract's or to a stutter, under `IInv`.

**`InferenceCoordinator`.** A job changes hands between its caller, the queue and the
owner thread, each of which may leave at any moment; the invariant says who may rely on
what. `JobsInOrder` numbers the jobs and says that the futures of an unsettled one are
still open to the owner thread, and that a session is created by one job. `Promised` is
what admission guarantees to a job until it runs: a queued create has its reservation and is
alone with its session; an operation's session is active, and no other job of that session
is queued or held. It is the reason why `_execute_job` finds its session, and it
survives a caller that times out or is cancelled since `_release_job` belongs to the owner
thread alone. `Guarded` (an operation under way marks its session busy, or its session is
gone for good) keeps admission from letting a second operation in, which
`OneOperationPerSession` and `Promised` need, and `active = sessions` ties the caller's
registry to the owner thread's. The hard part of `Promised` is
that a job which removes its session (a finish, an abort, the purge of a poisoned one)
leaves no queued operation of that session behind: an abort of a busy session only poisons it,
and poison is acted on only behind the session's own job.

**`WorkerLeases`.** `LeasesExact` is nearly inductive: it needs that a held lease has
its worker (`Placed`), that `ReleaseLease` of a released lease does nothing, and that the
registry unloads no worker with leases. `NothingLeftBehind` needs `Settled` (manager and
contexts agree; without a context there is no lease except while the adapter opens),
which every step preserves but `VadFactoryFails`.

**`GatewayRuntime`.** The terminal event is made in four places by two tasks, with an adapter
call between looking at `protocol.terminal` and setting it. The invariant is the
discipline of `protocol_lock`: a handler in an adapter call has the lock, the scheduler in one
of its own has it for the session of its current result (`SchedulerLocks`), and the
protocol does not end between a holder's look and its event (`Sound`). Most steps change neither
the lock nor the protocol, and one lemma each for a handler's and a scheduler's step
carries the invariant over them.

**Jobs and reservations** (the second half of `GatewayRuntimeProofs`). A job is in the queue, in
the submitted batch or in a handler's or the scheduler's hands, its reservation is in the
session's record, its cancellation in a set of generations, and the adapter's session
closes in yet another place; none of the three invariants says enough about the others.
The invariant `JInv` has one part for each place:

* `Owners`: for each session, what its record, context, handler and outside abort may be
  together. A reservation lies inside the buffer and the session is not idle; a
  session that is over (another generation, or succeeded) has nothing buffered or
  reserved, so that no job can be cut from it; the adapter's session is gone only of one
  that is over or whose protocol has ended.
* `OneJobEach`: no session has two unsettled jobs, and a job whose generation is the
  session's owns the reservation. All jobs are of the first generation since a
  session whose generation has changed has no audio any more.
* `Barriers`: whoever waits to abort a session has cancelled its generation, and behind the
  barrier the worker has none of its jobs. This is what `OpenInAdapter` needs when
  the error path takes the lock and closes the adapter's session.
* `SchedulerLists` and `FailingOver`: what the batch and the list of failures hold at each
  place of the scheduler's task, and that the session of a failure under way is over.
* `QueueExact` itself, with `OpenInAdapter` the strengthening of `SubmittedSessionsOpen`.

Most steps concern one session and move it in one of a few ways (it takes audio, reserves,
settles, ends); a lemma for each way carries `JInv` over, and each action is shown to be of
one of them.

**Lists of every length.** `Only` and `SumSizes` are recursive functions on the prefixes of a
list. `GatewayLemmas` proves induction over `0 .. n` from the library's least elements of
well-founded relations, for a set of numbers instead of a predicate, and from it that these
functions are what their equations say, and the facts the proof cites: a list is
split into two without loss of audio (`SumOnly`), appending a job adds its audio
(`SumAppend`), and leaving jobs out keeps the rest in order and apart (`OnlyRange`, `UniqueOnly`).

**`StreamController`.** `Wires` says, for each connection, where the handler can be given what is
on the wire: an error only while `fail()` sends it, the final event only until the
socket closes or the session expires, the close only in the last abort. Under it every
step moves the wire as `TerminalEventLast` allows. The proof is about `ServiceSpec`, the
composition with the coordinator, whose own steps leave the connections alone.

**Connections and jobs** (the second half of `StreamControllerProofs`). `ServiceSpec` is not an
instance of the coordinator's `Spec`: its handlers submit under conditions of their own and
await their jobs. `SInv` is the coordinator's `IInv`, which the handlers' calls keep, and
what `IdleBetweenOperations` needs besides:

* `BusyHeld`: a busy session has the operation that made it busy in the queue or in the owner
  thread's hands, so that `_busy_sessions` never keeps a session that is idle.
* `Stopping`: a thread that ends takes no more jobs.
* `Linked` of each connection. Before its first call the coordinator knows nothing of it
  (`Fresh`). The job a handler awaits is the one it submitted (`Awaits`). While the
  handler may call the model again (`Open`), every other job of its session has returned
  to it (`Alone`), nobody has poisoned the session or is about to purge it (`Unharmed`),
  and it is active, still being created, or ended by its own finish (`Usable`).

`Steps(d)` says what a step of the coordinator may do to session `d`: a new job of it
comes only from the cleanup of a cancelled caller, poison only from a caller that fails, and it
is removed only by its own last operation or behind poison. Each of the three needs a caller
that did not return, which a handler with an open connection does not have (`StepsKeep`). The
rest shows that the callers' and the owner thread's steps are such steps for every session, and a
handler's own calls for every session but its own. The reserves of `Room` and `RoomFor` play
no part: of the bound `MaxJobs` the proof needs only that `Enqueue` respects it. Since
`IInv` holds in the composition, so do the coordinator's own invariants.

**`TtsService`.** `SlotsExact` is inductive over the types of the records. `AudioComplete` needs
`Flow`, which follows the chunks from the model to the client: those sent, those in the
bounded queue and the one in the producer's hands are numbered without a gap, the end
comes last and behind a failure comes nothing else, a stopped producer belongs to a
handler that has left, and a handler that reads again has no producer. The invariant is
stated of one client's two records since every step changes those of one client at most.

**Only model-checked:**

* Every liveness property (`CallersReturn`, `ShutdownCompletes`, `HandlersEnd`,
  `SlotComesBack`, `DrainEnds`, `JobsSettle`, `HangsOnlyThen`, `ProducersEnd`, `BatchesAnswered`,
  `WorkersStop`)
  and `PoisonedIsRemoved`: fairness and `ENABLED` are beyond the prover.
* `ClientView`, `SpeechDelivered`, `SegmentAudio`, `NoConflict` and `LimitKept` of `Delivery`: they
  compare or bound folds over events, snapshots and segments of text.

## 6. What is not modelled

* Sequence numbers of events: an event takes the next one when it is made, and events
  are sent in that order. Where a deadline or an error comes between the events of a
  result, the numbers of the unsent ones are skipped.
* `StablePunctuationTracker` and the update modes of `StreamingTranscriptState` other
  than segment-local snapshots and independent segments: no service selects them.
* The grouping of a batch by language (`asr_sensevoice.py:319`, one engine call per
  language): a batch is one call that decodes or fails as a whole.
* In `Delivery`, queues and time-outs of the gateway and the coordinator: they are the
  subject of `GatewayRuntime` and `StreamController`. The VAD passes everything on except
  behind an endpoint; what else it holds or drops is the subject of `VadEndpoint`.
* In `StreamController`, the temporary file of `POST /v1/asr`, which is removed while the
  owner thread may still read it after an inference time-out.
* In `TtsService`, model loading and warm-up (a service that cannot load does not start),
  transports and timing statistics, the size of the thread pool, and the cancellation of a
  handler that waits for an item (the server's shutdown waits for handlers).
* Speech classifiers and models: a free choice of outcome, or a call that returns,
  raises or hangs.
* In the gateway: authentication, validation of the start message, HTTP routes,
  metrics, log events other than the terminal one, connection lag. `ChunkPolicy`
  (`asr_gateway_chunking.py:104-141`) is not used by the runtime.
* In `GatewayRuntime`: more than one worker; `WorkerLeases` has several workers
  but no jobs. Batch keys are reduced to final and not final.
* Translation, configuration, schemas, artifacts, observability, deployment scripts: no
  state that another component reads back.

## 7. Plan

Done, in this order: `SessionRecord`, `GatewaySession`, `VadContract`, `VadEndpoint`
with proofs; `InferenceCoordinator`; `WorkerLeases`; `GatewayRuntime`, which composes
sessions and scheduler; `StreamController` over the coordinator; `Transcript`,
`AdapterSession` and `Delivery`; `TtsService`.

Proved since: the accounts of `InferenceCoordinator`, `WorkerLeases` and `TtsService`, the
terminal events of `GatewayRuntime` and `StreamController`, the scheduler's account, jobs
and barrier in `GatewayRuntime`, and the sessions that `StreamController`'s handlers find.

Left to prove: that the events of each of `Transcript`'s operations take a client's view
from the old transcript to the new one, the step lemma behind `ClientView`.
