--------------------------- MODULE GatewayRuntime ---------------------------
(***************************************************************************)
(* Several sessions and the scheduler that serves them: the WebSocket      *)
(* handler and the sender of each session, GatewayRuntime                  *)
(* (app/asr_gateway.py) between them, the task of GatewayScheduler         *)
(* (app/asr_gateway_scheduler.py) for one worker, and an outside abort()   *)
(* of a session by drain_worker or close().                                *)
(*                                                                         *)
(* All of it runs on one event loop, so a step extends to the next await   *)
(* that can really suspend: the protocol lock when it is taken, the idle   *)
(* and reservation events, the safety barrier wait_session_safe, the       *)
(* adapter, the socket, the sender.  Sessions are SessionRecord records.   *)
(* Time is left out: whatever depends on a clock may happen or not.        *)
(***************************************************************************)
EXTENDS SessionRecord, JobList, FiniteSets, TLC

CONSTANTS
    Sessions,
    GatewayVad,      \* capabilities.vad_mode is VadMode.GATEWAY
    Preferred,       \* samples of a regular job (asr_gateway_default_update_ms)
    MaxFrames,       \* bound: samples a client sends; a frame is one sample
    MaxReadyJobs,    \* GatewayScheduler.max_ready_jobs
    MaxQueuedSamples,\* GatewayScheduler.max_queued_samples
    BatchLimit,      \* capabilities.max_batch_items
    Commands,        \* the control commands clients send
    Happens          \* what may go wrong or come from outside

ASSUME RuntimeAssumption ==
    /\ IsFiniteSet(Sessions)
    /\ GatewayVad \in BOOLEAN
    /\ {Preferred, MaxReadyJobs, MaxQueuedSamples, BatchLimit} \subseteq Nat \ {0}
    /\ MaxFrames \in Nat
    /\ Commands \subseteq {"segment", "finish", "abort"}
    /\ Happens \subseteq {"submit fails", "result error", "queue timeout",
                          "wait timeout", "outside abort", "disconnect", "close"}

VARIABLES
    ses,        \* the GatewaySession of each session
    held,       \* samples inside its VAD endpoint detector
    ctx,        \* its _SessionContext, see NewContext
    pc,         \* where its handler is
    sender,     \* its send_outbound_events: "running" or "done"
    outside,    \* the outside abort(): "none", "barrier", "adapter", "done"
    queue,      \* GatewayScheduler._queues of the worker
    queued,     \* GatewayScheduler._queued_samples
    cancelled,  \* GatewayScheduler._cancelled_generations
    accepted,   \* the keys of GatewayScheduler._accepted
    wake,       \* GatewayScheduler._wake, is the event set?
    sched       \* the scheduler task, see Resting

tasks == <<pc, sender, outside>>
ready == <<queue, queued, wake>>
vars == <<ses, held, ctx, tasks, ready, cancelled, accepted, sched>>

\* live: in GatewayRuntime._contexts; lock: protocol_lock; endpoint:
\* endpoint_pending; backend: the adapter knows the session; terminal:
\* protocol.terminal; last: terminal events put into the outbound queue; shut: a
\* bare close was; late: an event was put behind a terminal one.
NewContext ==
    [live |-> TRUE, lock |-> "free", idle |-> TRUE, endpoint |-> FALSE,
     backend |-> TRUE, terminal |-> FALSE, last |-> 0, shut |-> FALSE, late |-> FALSE]

\* at: where the task is; batch: accepted jobs not settled yet; failures: jobs
\* taken from the queue whose error is still to be published; bad: the results
\* at hand are errors; worker: "ok", or "failed" when in _submit_failures; due: a
\* timer ended the last sleep; closed: _closed.
Resting ==
    [at |-> "scan", batch |-> <<>>, failures |-> <<>>, bad |-> FALSE,
     worker |-> "ok", due |-> FALSE, closed |-> FALSE]

Init ==
    /\ ses = [s \in Sessions |-> NewSession]
    /\ held = [s \in Sessions |-> 0]
    /\ ctx = [s \in Sessions |-> NewContext]
    /\ pc = [s \in Sessions |-> "receive"]
    /\ sender = [s \in Sessions |-> "running"]
    /\ outside = [s \in Sessions |-> "none"]
    /\ queue = <<>>
    /\ queued = 0
    /\ cancelled = {}
    /\ accepted = {}
    /\ wake = FALSE
    /\ sched = Resting

-----------------------------------------------------------------------------
\* Small pieces.

JobOf(s, r) == [of |-> s, gen |-> r.gen, seq |-> r.res.seq, start |-> r.res.start,
                end |-> r.res.end, final |-> r.res.final]
Key(j) == <<j.of, j.gen>>
Now(s) == <<s, ses[s].gen>>
Ended(s) == ses[s].state \in EndedStates
Go(s, where) == pc' = [pc EXCEPT ![s] = where]
LockFree(s) == ctx[s].lock = "free"

\* An event, and a terminal event, in the outbound queue.
Event(c) == [c EXCEPT !.late = @ \/ c.last > 0]
TerminalEvent(c) == [Event(c) EXCEPT !.terminal = TRUE, !.last = @ + 1]

\* _release_session, which SessionManager.close is part of
Release(s) ==
    IF ctx[s].live
    THEN /\ ctx' = [ctx EXCEPT ![s].live = FALSE]
         /\ ses' = [ses EXCEPT ![s] = CloseSession(@)]
    ELSE UNCHANGED <<ctx, ses>>

\* ready_samples; the adapter's input and segment limits are out of reach of
\* MaxFrames samples
Ready(r, force) ==
    IF InFlight(r) THEN 0
    ELSE IF Buffered(r) >= Preferred THEN Preferred
    ELSE IF force \/ r.finishReq THEN Buffered(r) ELSE 0

\* enqueue raises
EnqueueRefused(n) ==
    \/ sched.closed
    \/ sched.worker = "failed"
    \/ Len(queue) >= MaxReadyJobs
    \/ queued + n > MaxQueuedSamples

\* _schedule_next: the session and context it leaves, whether it raised, and
\* whether it put a job into the queue (the new reservation's).
ScheduleNext(r, c, force) ==
    LET n == Ready(r, force)
        reserved == Reserve(r, n, r.finishReq \/ c.endpoint)
    IN  IF n = 0 THEN [r |-> r, c |-> c, raised |-> FALSE, put |-> FALSE]
        ELSE IF EnqueueRefused(n)
        THEN [r |-> Rollback(reserved), c |-> [c EXCEPT !.idle = TRUE],
              raised |-> TRUE, put |-> FALSE]
        ELSE [r |-> reserved, c |-> [c EXCEPT !.idle = FALSE], raised |-> FALSE, put |-> TRUE]

\* The scheduler's side of a successful enqueue, which sets _wake.
Enqueue(s, n) ==
    IF n.put
    THEN /\ queue' = Append(queue, JobOf(s, n.r))
         /\ queued' = queued + Reserved(n.r)
         /\ wake' = TRUE
    ELSE UNCHANGED ready

\* Nothing is buffered, reserved or inside the VAD.
Drained(r) == ~InFlight(r) /\ Buffered(r) = 0 /\ PendingVad(r) = 0

-----------------------------------------------------------------------------
\* The handler: audio.

\* Where an exception takes the handler: the outer except clause reports it
\* unless the protocol has ended, the finally clause follows.
Raise(s, c) == Go(s, IF c.terminal THEN "leave" ELSE "error")

\* A frame arrives; check_deadlines raises KeyError when the context is gone.
Frame(s) ==
    /\ pc[s] = "receive"
    /\ ses[s].accepted < MaxFrames
    /\ IF ctx[s].live THEN Go(s, "ingest") ELSE Raise(s, ctx[s])
    /\ UNCHANGED <<ses, held, ctx, sender, outside, ready, cancelled, accepted, sched>>

\* accept_vad_input, or append_pcm, takes one more sample.
Fits(r) == IF GatewayVad THEN CanAcceptVad(r, 1) ELSE CanAppend(r, 1)

\* _ingest_locked takes the frame: the outcomes for the session, the samples
\* left in the VAD, the endpoint flag, and whether a call raised.
Taken(s) ==
    LET r == ses[s]
    IN  IF ~GatewayVad
        THEN {[r |-> AppendPcm(r, 1), held |-> 0, endpoint |-> FALSE, raised |-> FALSE]}
        ELSE LET a == AcceptVad(r, 1)
             IN  {[r |-> IF audio > 0 /\ ~CanAppend(a, audio) THEN a
                         ELSE RecordDiscarded(HandOver(a, audio), dropped),
                   held |-> held[s] + 1 - audio - dropped,
                   endpoint |-> e,
                   raised |-> \/ audio > 0 /\ ~CanAppend(a, audio)
                              \/ ~CanRecordDiscarded(HandOver(a, audio), dropped)] :
                     audio \in 0 .. held[s] + 1, dropped \in 0 .. held[s] + 1, e \in BOOLEAN}

\* The frame is taken and a job perhaps scheduled; the handler enters with the
\* lock free, or holds it and the reservation it waited for is released.
Ingest(s) ==
    /\ \/ pc[s] = "ingest" /\ LockFree(s)
       \/ pc[s] = "blocked" /\ ~InFlight(ses[s])
    /\ ctx[s].live
    /\ Fits(ses[s])
    /\ \E t \in Taken(s) :
        /\ t.held >= 0
        /\ LET c == [ctx[s] EXCEPT !.lock = "free", !.endpoint = @ \/ t.endpoint]
               n == ScheduleNext(t.r, c, t.endpoint)
           IN  /\ held' = [held EXCEPT ![s] = t.held]
               /\ IF t.raised
                  THEN /\ ses' = [ses EXCEPT ![s] = t.r]
                       /\ ctx' = [ctx EXCEPT ![s].lock = "free"]
                       /\ UNCHANGED ready
                  ELSE /\ ses' = [ses EXCEPT ![s] = n.r]
                       /\ ctx' = [ctx EXCEPT ![s] = n.c]
                       /\ Enqueue(s, n)
               /\ Go(s, IF t.raised \/ n.raised THEN "error" ELSE "receive")
    /\ UNCHANGED <<sender, outside, cancelled, accepted, sched>>

\* The frame does not fit: wait, with the lock, for the session's job if there
\* is one, fail otherwise.  A context released meanwhile raises KeyError.
IngestBlocks(s) ==
    /\ \/ pc[s] = "ingest" /\ LockFree(s)
       \/ pc[s] = "blocked" /\ ~InFlight(ses[s])
    /\ ~ctx[s].live \/ ~Fits(ses[s])
    /\ LET wait == ctx[s].live /\ InFlight(ses[s]) /\ (GatewayVad \/ ~Ended(s))
       IN  /\ ctx' = [ctx EXCEPT ![s].lock = IF wait THEN "handler" ELSE "free"]
           /\ Go(s, IF wait THEN "blocked" ELSE "error")
    /\ UNCHANGED <<ses, held, sender, outside, ready, cancelled, accepted, sched>>

\* The wait for the reservation times out.
IngestTimeout(s) ==
    /\ "wait timeout" \in Happens
    /\ pc[s] = "blocked"
    /\ ctx' = [ctx EXCEPT ![s].lock = "free"]
    /\ Go(s, "error")
    /\ UNCHANGED <<ses, held, sender, outside, ready, cancelled, accepted, sched>>

\* check_deadlines raises under the lock: ingest reports a TimeoutError, which
\* ends segment and finish without an event.
PastDeadline(s) ==
    /\ "wait timeout" \in Happens
    /\ pc[s] \in {"ingest", "segment", "finish"}
    /\ LockFree(s)
    /\ ctx[s].live
    /\ Go(s, IF pc[s] = "ingest" THEN "error" ELSE "leave")
    /\ UNCHANGED <<ses, held, ctx, sender, outside, ready, cancelled, accepted, sched>>

-----------------------------------------------------------------------------
\* The handler: control commands.

\* ingest(b"", force=True), the first half of segment and finish
ForceDecode(s, next) ==
    LET n == ScheduleNext(ses[s], ctx[s], TRUE)
        c == IF next = "finish wait" /\ ~n.put /\ Drained(n.r)
             THEN [n.c EXCEPT !.idle = TRUE] ELSE n.c
    IN  IF ctx[s].live
        THEN /\ ses' = [ses EXCEPT ![s] = n.r]
             /\ ctx' = [ctx EXCEPT ![s] = c]
             /\ Enqueue(s, n)
             /\ IF n.raised THEN Raise(s, n.c) ELSE Go(s, next)
        ELSE /\ Raise(s, ctx[s])
             /\ UNCHANGED <<ses, ctx, ready>>

Segment(s) ==
    /\ "segment" \in Commands
    /\ pc[s] = "receive"
    /\ IF ctx[s].live THEN Go(s, "segment") ELSE Raise(s, ctx[s])
    /\ UNCHANGED <<ses, held, ctx, sender, outside, ready, cancelled, accepted, sched>>

SegmentDecodes(s) ==
    /\ pc[s] = "segment"
    /\ LockFree(s)
    /\ ForceDecode(s, "segment wait")
    /\ UNCHANGED <<held, sender, outside, cancelled, accepted, sched>>

\* finish, up to request_finish: the VAD gives back or drops all it holds.
Finish(s) ==
    /\ "finish" \in Commands
    /\ pc[s] = "receive"
    /\ \E audio \in 0 .. held[s] :
        LET dropped == held[s] - audio
            handed == HandOver(ses[s], audio)
            raises == \/ ~ctx[s].live
                      \/ audio > 0 /\ ~CanAppend(ses[s], audio)
                      \/ ~CanRecordDiscarded(handed, dropped)
        IN  /\ held' = IF ctx[s].live THEN [held EXCEPT ![s] = 0] ELSE held
            /\ IF raises
               THEN Raise(s, ctx[s]) /\ UNCHANGED ses
               ELSE /\ ses' = [ses EXCEPT ![s] =
                                 RequestFinish(RecordDiscarded(handed, dropped))]
                    /\ Go(s, "finish")
    /\ UNCHANGED <<ctx, sender, outside, ready, cancelled, accepted, sched>>

FinishDecodes(s) ==
    /\ pc[s] = "finish"
    /\ LockFree(s)
    /\ ForceDecode(s, "finish wait")
    /\ UNCHANGED <<held, sender, outside, cancelled, accepted, sched>>

\* The session is idle and the lock free: on to the adapter, which raises
\* when it does not know the session any more.
CallAdapter(s) ==
    /\ pc[s] \in {"segment wait", "finish wait"}
    /\ ctx[s].idle
    /\ LockFree(s)
    /\ IF ctx[s].backend
       THEN /\ ctx' = [ctx EXCEPT ![s].lock = "handler"]
            /\ Go(s, IF pc[s] = "segment wait" THEN "segment adapter" ELSE "finish adapter")
       ELSE /\ Raise(s, ctx[s])
            /\ UNCHANGED ctx
    /\ UNCHANGED <<ses, held, sender, outside, ready, cancelled, accepted, sched>>

\* The protocol refuses further events once it is terminal.
SegmentReturns(s) ==
    /\ pc[s] = "segment adapter"
    /\ LET c == [ctx[s] EXCEPT !.lock = "free"]
       IN  IF c.terminal
           THEN ctx' = [ctx EXCEPT ![s] = c] /\ Raise(s, c)
           ELSE ctx' = [ctx EXCEPT ![s] = Event(c)] /\ Go(s, "receive")
    /\ UNCHANGED <<ses, held, sender, outside, ready, cancelled, accepted, sched>>

\* The final event is made before succeed() may refuse.
FinishReturns(s) ==
    /\ pc[s] = "finish adapter"
    /\ LET c == [ctx[s] EXCEPT !.lock = "free", !.backend = FALSE]
       IN  IF ~c.terminal /\ CanSucceed(ses[s])
           THEN /\ ses' = [ses EXCEPT ![s] = Succeed(@)]
                /\ ctx' = [ctx EXCEPT ![s] = TerminalEvent(c)]
                /\ Go(s, "await")
           ELSE /\ ctx' = [ctx EXCEPT ![s] = [c EXCEPT !.terminal = TRUE]]
                /\ Go(s, "leave")
                /\ UNCHANGED ses
    /\ UNCHANGED <<held, sender, outside, ready, cancelled, accepted, sched>>

\* The adapter raises instead.
AdapterRaises(s) ==
    /\ "result error" \in Happens
    /\ pc[s] \in {"segment adapter", "finish adapter"}
    /\ ctx' = [ctx EXCEPT ![s].lock = "free"]
    /\ Raise(s, ctx[s])
    /\ UNCHANGED <<ses, held, sender, outside, ready, cancelled, accepted, sched>>

\* The client goes away, or is silent for too long or sends nonsense.
Disconnect(s) ==
    /\ "disconnect" \in Happens
    /\ pc[s] = "receive"
    /\ Go(s, "leave") \/ Go(s, "error")
    /\ UNCHANGED <<ses, held, ctx, sender, outside, ready, cancelled, accepted, sched>>

-----------------------------------------------------------------------------
\* The barrier: cancel_session, then wait_session_safe if the scheduler has
\* accepted a job of this generation.

\* Mutant of MustWait: the accepted jobs are not waited for.
MustWaitNever(s) == FALSE

MustWait(s) == Now(s) \in accepted
Passed(s) == \A k \in accepted : k[1] # s
Cancel(s) == cancelled' = cancelled \cup {Now(s)}

\* session.abort(), vad.reset() and the call of adapter.abort_session
AbortBody(s) ==
    /\ ses' = [ses EXCEPT ![s] = AbortSession(@)]
    /\ held' = [held EXCEPT ![s] = 0]
    /\ ctx' = [ctx EXCEPT ![s].backend = FALSE]

\* enqueue_error, up to the lock
ErrorBegins(s) ==
    /\ pc[s] = "error"
    /\ IF ctx[s].live
       THEN Cancel(s) /\ Go(s, IF MustWait(s) THEN "error barrier" ELSE "error lock")
       ELSE Go(s, "leave") /\ UNCHANGED cancelled
    /\ UNCHANGED <<ses, held, ctx, sender, outside, ready, accepted, sched>>

ErrorPasses(s) ==
    /\ pc[s] = "error barrier"
    /\ Passed(s)
    /\ Go(s, "error lock")
    /\ UNCHANGED <<ses, held, ctx, sender, outside, ready, cancelled, accepted, sched>>

\* Mutant of ErrorLocked: a protocol that has ended gets another error.
ErrorLockedAnyway(s) ==
    /\ pc[s] = "error lock"
    /\ LockFree(s)
    /\ Cancel(s)
    /\ ses' = [ses EXCEPT ![s] = FailSession(@)]
    /\ ctx' = [ctx EXCEPT ![s].lock = "handler", ![s].backend = FALSE]
    /\ Go(s, "error adapter")
    /\ UNCHANGED <<held, sender, outside, ready, accepted, sched>>

\* enqueue_error under the lock, with _fail_session
ErrorLocked(s) ==
    /\ pc[s] = "error lock"
    /\ LockFree(s)
    /\ IF ctx[s].terminal \/ Ended(s)
       THEN Go(s, "await") /\ UNCHANGED <<ses, ctx, cancelled>>
       ELSE /\ Cancel(s)
            /\ ses' = [ses EXCEPT ![s] = FailSession(@)]
            /\ ctx' = [ctx EXCEPT ![s].lock = "handler", ![s].backend = FALSE]
            /\ Go(s, "error adapter")
    /\ UNCHANGED <<held, sender, outside, ready, accepted, sched>>

ErrorSent(s) ==
    /\ pc[s] = "error adapter"
    /\ ctx' = [ctx EXCEPT ![s] = [TerminalEvent(@) EXCEPT !.lock = "free"]]
    /\ Go(s, "await")
    /\ UNCHANGED <<ses, held, sender, outside, ready, cancelled, accepted, sched>>

\* enqueue_abort
Abort(s) ==
    /\ "abort" \in Commands
    /\ pc[s] = "receive"
    /\ IF ~ctx[s].live THEN Raise(s, ctx[s]) /\ UNCHANGED <<ses, held, ctx, cancelled>>
       ELSE /\ Cancel(s)
            /\ IF MustWait(s) THEN Go(s, "abort barrier") /\ UNCHANGED <<ses, held, ctx>>
               ELSE Go(s, "abort adapter") /\ AbortBody(s)
    /\ UNCHANGED <<sender, outside, ready, accepted, sched>>

AbortPasses(s) ==
    /\ pc[s] = "abort barrier"
    /\ Passed(s)
    /\ AbortBody(s)
    /\ Go(s, "abort adapter")
    /\ UNCHANGED <<sender, outside, ready, cancelled, accepted, sched>>

\* enqueue_close, which raises KeyError when the context is gone
AbortSent(s) ==
    /\ pc[s] = "abort adapter"
    /\ IF ctx[s].live
       THEN ctx' = [ctx EXCEPT ![s].shut = TRUE] /\ Go(s, "await")
       ELSE Raise(s, ctx[s]) /\ UNCHANGED ctx
    /\ UNCHANGED <<ses, held, sender, outside, ready, cancelled, accepted, sched>>

\* adapter.abort_session raises: the session is aborted, and no event says so.
AbortRaises(s) ==
    /\ "result error" \in Happens
    /\ pc[s] = "abort adapter"
    /\ Raise(s, ctx[s])
    /\ UNCHANGED <<ses, held, ctx, sender, outside, ready, cancelled, accepted, sched>>

\* The handler waits for the sender, then leaves.
Awaited(s) ==
    /\ pc[s] = "await"
    /\ sender[s] = "done"
    /\ Go(s, "leave")
    /\ UNCHANGED <<ses, held, ctx, sender, outside, ready, cancelled, accepted, sched>>

\* The finally clause: the sender is cancelled, then abort().
Leave(s) ==
    /\ pc[s] = "leave"
    /\ sender' = [sender EXCEPT ![s] = "done"]
    /\ IF ~ctx[s].live \/ Ended(s)
       THEN Release(s) /\ Go(s, "returned") /\ UNCHANGED <<held, cancelled>>
       ELSE /\ Cancel(s)
            /\ IF MustWait(s) THEN Go(s, "leave barrier") /\ UNCHANGED <<ses, held, ctx>>
               ELSE Go(s, "leave adapter") /\ AbortBody(s)
    /\ UNCHANGED <<outside, ready, accepted, sched>>

LeavePasses(s) ==
    /\ pc[s] = "leave barrier"
    /\ Passed(s)
    /\ AbortBody(s)
    /\ Go(s, "leave adapter")
    /\ UNCHANGED <<sender, outside, ready, cancelled, accepted, sched>>

LeaveReleases(s) ==
    /\ pc[s] = "leave adapter"
    /\ Release(s)
    /\ Go(s, "returned")
    /\ UNCHANGED <<held, sender, outside, ready, cancelled, accepted, sched>>

\* send_outbound_events reaches a terminal envelope.
SenderReleases(s) ==
    /\ sender[s] = "running"
    /\ ctx[s].last > 0 \/ ctx[s].shut
    /\ Release(s)
    /\ sender' = [sender EXCEPT ![s] = "done"]
    /\ UNCHANGED <<held, pc, outside, ready, cancelled, accepted, sched>>

\* abort() called by drain_worker or close()
OutsideBegins(s) ==
    /\ "outside abort" \in Happens
    /\ outside[s] = "none"
    /\ ctx[s].live
    /\ IF Ended(s)
       THEN Release(s) /\ outside' = [outside EXCEPT ![s] = "done"] /\ UNCHANGED <<held, cancelled>>
       ELSE /\ Cancel(s)
            /\ IF MustWait(s)
               THEN outside' = [outside EXCEPT ![s] = "barrier"] /\ UNCHANGED <<ses, held, ctx>>
               ELSE outside' = [outside EXCEPT ![s] = "adapter"] /\ AbortBody(s)
    /\ UNCHANGED <<pc, sender, ready, accepted, sched>>

OutsidePasses(s) ==
    /\ outside[s] = "barrier"
    /\ Passed(s)
    /\ AbortBody(s)
    /\ outside' = [outside EXCEPT ![s] = "adapter"]
    /\ UNCHANGED <<pc, sender, ready, cancelled, accepted, sched>>

OutsideReleases(s) ==
    /\ outside[s] = "adapter"
    /\ Release(s)
    /\ outside' = [outside EXCEPT ![s] = "done"]
    /\ UNCHANGED <<held, pc, sender, ready, cancelled, accepted, sched>>

-----------------------------------------------------------------------------
\* The scheduler task: run_once and the loop around it.

\* The job whose result is being published, and what follows it.
Current == IF sched.batch # <<>> THEN Head(sched.batch) ELSE Head(sched.failures)

NextResult(b, f) ==
    [sched EXCEPT !.batch = b, !.failures = f,
                  !.bad = @ /\ (b # <<>> \/ f # <<>>),
                  !.at = IF b # <<>> THEN "settle" ELSE IF f # <<>> THEN "publish" ELSE "scan"]

\* _mark_safe, for a job that was accepted, and on to the next one.
Done ==
    IF sched.batch # <<>>
    THEN /\ accepted' = accepted \ {Key(Current)}
         /\ sched' = NextResult(Tail(sched.batch), sched.failures)
    ELSE /\ sched' = NextResult(<<>>, Tail(sched.failures))
         /\ UNCHANGED accepted

IsCancelled(j) == Key(j) \in cancelled

\* Mutant of IsCurrent: the generation is not compared.
IsCurrentAnyGeneration(j) == ctx[j.of].live

\* _reject_job: a session of another generation is left alone; losing the
\* reservation otherwise is a StaleResultError.
IsCurrent(j) == ctx[j.of].live /\ ses[j.of].gen = j.gen
RejectRaises(j) == IsCurrent(j) /\ ses[j.of].res.seq # j.seq
Rejected(js) ==
    [s \in Sessions |->
        IF \E j \in js : j.of = s /\ IsCurrent(j) /\ ~RejectRaises(j)
        THEN Rollback(ses[s]) ELSE ses[s]]

CancelledAt == {i \in DOMAIN queue : IsCancelled(queue[i])}
Kept == Only(queue, DOMAIN queue \ CancelledAt)
Dropped == Only(queue, CancelledAt)

\* A job stayed in the queue too long.  An exception of reject ends the task.
Expire(i) ==
    /\ "queue timeout" \in Happens
    /\ sched.at = "scan"
    /\ LET j == queue[i]
       IN  /\ queue' = Only(queue, DOMAIN queue \ {i})
           /\ queued' = queued - Size(j)
           /\ ses' = Rejected({j})
           /\ sched' = [sched EXCEPT !.at = IF RejectRaises(j) THEN "dead" ELSE "publish",
                                     !.failures = <<j>>, !.bad = TRUE]
    /\ UNCHANGED <<held, ctx, tasks, wake, cancelled, accepted>>

\* Where the jobs of one batch key are, the first of each session.
Candidates(final) ==
    {i \in DOMAIN Kept :
        /\ Kept[i].final = final
        /\ \A k \in 1 .. i - 1 : Kept[k].final = final => Kept[k].of # Kept[i].of}

\* Cancelled jobs leave the queue; the oldest job, or a final one that is due,
\* chooses the batch key; the candidates, the oldest first and cut by the item
\* and sample limits, are accepted and given to the adapter.
Dispatch ==
    /\ sched.at = "scan"
    /\ \E f, n \in DOMAIN Kept :
        LET chosen == {i \in Candidates(Kept[f].final) : i <= n}
            batch == Only(Kept, chosen)
        IN  /\ f = 1 \/ Kept[f].final
            /\ Len(batch) \in 1 .. BatchLimit
            /\ sched' = [sched EXCEPT !.at = "submit", !.batch = batch]
            /\ accepted' = accepted \cup {Key(j) : j \in Range(batch)}
            /\ queue' = Only(Kept, DOMAIN Kept \ chosen)
    /\ queued' = queued - SumSizes(Dropped)
    /\ ses' = Rejected(Range(Dropped))
    /\ UNCHANGED <<held, ctx, tasks, wake, cancelled>>

\* Nothing is due: cancelled jobs leave the queue and the task sleeps.
Rest ==
    /\ sched.at = "scan"
    /\ ~sched.closed
    /\ ~sched.due \/ Kept = <<>>
    /\ queue' = Kept
    /\ queued' = queued - SumSizes(Dropped)
    /\ ses' = Rejected(Range(Dropped))
    /\ wake' = FALSE
    /\ sched' = [sched EXCEPT !.at = "asleep", !.due = FALSE]
    /\ UNCHANGED <<held, ctx, tasks, cancelled, accepted>>

\* Woken by enqueue or close, or by the deadline of a queued job.
WakeUp ==
    /\ sched.at = "asleep"
    /\ wake \/ queue # <<>>
    /\ sched' = [sched EXCEPT !.at = "scan", !.due = ~wake]
    /\ UNCHANGED <<ses, held, ctx, tasks, ready, cancelled, accepted>>

\* GatewayRuntime.close, once every session is aborted: scheduler.close
CloseScheduler ==
    /\ "close" \in Happens
    /\ ~sched.closed
    /\ \A s \in Sessions : ~ctx[s].live
    /\ sched' = [sched EXCEPT !.closed = TRUE]
    /\ wake' = TRUE
    /\ UNCHANGED <<ses, held, ctx, tasks, queue, queued, cancelled, accepted>>

Stop ==
    /\ sched.at = "scan"
    /\ sched.closed
    /\ sched' = [sched EXCEPT !.at = "stopped"]
    /\ UNCHANGED <<ses, held, ctx, tasks, ready, cancelled, accepted>>

\* The adapter answers for every job of the batch.
SubmitReturns ==
    /\ sched.at = "submit"
    /\ queued' = queued - SumSizes(sched.batch)
    /\ sched' = [sched EXCEPT !.at = "settle", !.due = FALSE]
    /\ UNCHANGED <<ses, held, ctx, tasks, queue, wake, cancelled, accepted>>

\* _drain_failed_queue: the drained jobs whose failure is to be published
DrainedFailures ==
    Only(queue, {i \in DOMAIN queue : ~RejectRaises(queue[i]) /\ ~IsCancelled(queue[i])})

\* Mutant of SubmitFails: the drained audio stays on the account.
SubmitFailsForgets ==
    /\ "submit fails" \in Happens
    /\ sched.at = "submit"
    /\ queue' = <<>>
    /\ queued' = queued - SumSizes(sched.batch)
    /\ ses' = Rejected(Range(queue))
    /\ sched' = [sched EXCEPT !.at = "settle", !.due = FALSE, !.bad = TRUE, !.worker = "failed"]
    /\ UNCHANGED <<held, ctx, tasks, wake, cancelled, accepted>>

\* It raises or times out: the worker is failed and the queue drained.
SubmitFails ==
    /\ "submit fails" \in Happens
    /\ sched.at = "submit"
    /\ queue' = <<>>
    /\ queued' = queued - SumSizes(queue) - SumSizes(sched.batch)
    /\ ses' = Rejected(Range(queue))
    /\ sched' = [sched EXCEPT
            !.at = "settle", !.due = FALSE, !.bad = TRUE, !.worker = "failed",
            !.failures = DrainedFailures]
    /\ UNCHANGED <<held, ctx, tasks, wake, cancelled, accepted>>

\* _cleanup_job: does the job still own the reservation it acknowledges?
Owns(j) == IsCurrent(j) /\ MatchesReservation(ses[j.of], j)

\* Mutant of Settle: the result is published, the reservation kept.
SettleForgets ==
    /\ sched.at = "settle"
    /\ IF Owns(Current) /\ ~IsCancelled(Current)
       THEN sched' = [sched EXCEPT !.at = "publish"] /\ UNCHANGED accepted
       ELSE Done
    /\ UNCHANGED <<ses, held, ctx, tasks, ready, cancelled>>

\* cleanup acknowledges the reservation, or finds the job stale; a cancelled
\* job's result is dropped.
Settle ==
    /\ sched.at = "settle"
    /\ LET j == Current
       IN  /\ ses' = IF Owns(j) THEN [ses EXCEPT ![j.of] = Acknowledge(@)] ELSE ses
           /\ IF Owns(j) /\ ~IsCancelled(j)
              THEN sched' = [sched EXCEPT !.at = "publish"] /\ UNCHANGED accepted
              ELSE Done
    /\ UNCHANGED <<held, ctx, tasks, ready, cancelled>>

-----------------------------------------------------------------------------
\* publish: _publish_result over _apply_result.

\* _result_is_stale_or_terminal
IsStale(j) ==
    \/ ses[j.of].gen # j.gen
    \/ ctx[j.of].terminal
    \/ Ended(j.of)

\* A released or stale session: nothing is published, idle is set.
PublishNothing ==
    /\ sched.at \in {"publish", "repair"}
    /\ LET j == Current
       IN  \/ ~ctx[j.of].live /\ UNCHANGED ctx
           \/ /\ ctx[j.of].live
              /\ LockFree(j.of)
              /\ IsStale(j)
              /\ ctx' = [ctx EXCEPT ![j.of].idle = TRUE]
    /\ Done
    /\ UNCHANGED <<ses, held, tasks, ready, cancelled>>

Publishes(j) == ctx[j.of].live /\ LockFree(j.of) /\ ~IsStale(j)

\* An error result, an age limit, or an exception in the other branch: under
\* the lock, _fail_session up to the adapter's answer.
PublishError ==
    /\ \/ sched.at = "repair"
       \/ sched.at = "publish" /\ (sched.bad \/ "result error" \in Happens)
    /\ LET s == Current.of
       IN  /\ Publishes(Current)
           /\ Cancel(s)
           /\ ses' = [ses EXCEPT ![s] = FailSession(@)]
           /\ ctx' = [ctx EXCEPT ![s].lock = "scheduler", ![s].backend = FALSE]
    /\ sched' = [sched EXCEPT !.at = "failing"]
    /\ UNCHANGED <<held, tasks, ready, accepted>>

\* Mutant of ErrorPublished: idle is not set.
ErrorPublishedBusy ==
    /\ sched.at = "failing"
    /\ ctx' = [ctx EXCEPT ![Current.of] = [TerminalEvent(@) EXCEPT !.lock = "free"]]
    /\ Done
    /\ UNCHANGED <<ses, held, tasks, ready, cancelled>>

ErrorPublished ==
    /\ sched.at = "failing"
    /\ ctx' = [ctx EXCEPT ![Current.of] =
                  [TerminalEvent(@) EXCEPT !.lock = "free", !.idle = TRUE]]
    /\ Done
    /\ UNCHANGED <<ses, held, tasks, ready, cancelled>>

\* An exception under the lock: it is released, and taken again to repair.
Repairs(s, c) ==
    /\ ctx' = [ctx EXCEPT ![s] = [c EXCEPT !.lock = "free"]]
    /\ sched' = [sched EXCEPT !.at = "repair"]
    /\ UNCHANGED accepted

\* The end of _apply_result_locked: schedule the next chunk, set idle if there
\* is nothing left, enqueue the events.
ApplyEnds(s, r, c, force) ==
    LET n == ScheduleNext(r, c, force \/ c.endpoint \/ r.finishReq)
        last == [n.c EXCEPT !.idle = @ \/ (~n.put /\ Drained(n.r)), !.lock = "free"]
    IN  /\ ses' = [ses EXCEPT ![s] = n.r]
        /\ Enqueue(s, n)
        /\ IF n.raised
           THEN Repairs(s, n.c)
           ELSE ctx' = [ctx EXCEPT ![s] = Event(last)] /\ Done

\* A good result that ends no segment.
PublishText ==
    /\ sched.at = "publish"
    /\ ~sched.bad
    /\ LET s == Current.of
       IN  /\ Publishes(Current)
           /\ ~ctx[s].endpoint
           /\ ApplyEnds(s, ses[s], ctx[s], FALSE)
    /\ UNCHANGED <<held, tasks, cancelled>>

\* A good result that ends the segment, or one that meets an endpoint: what is
\* buffered is scheduled first and the endpoint deferred, if there is something.
PublishSegment ==
    /\ sched.at = "publish"
    /\ ~sched.bad
    /\ \E final \in BOOLEAN :
        LET s == Current.of
            n == ScheduleNext(ses[s], ctx[s], TRUE)
            defer == ctx[s].endpoint /\ ~final
        IN  /\ final \/ ctx[s].endpoint
            /\ Publishes(Current)
            /\ IF defer
               THEN ses' = [ses EXCEPT ![s] = n.r] /\ Enqueue(s, n)
               ELSE UNCHANGED <<ses, ready>>
            /\ IF defer /\ n.raised THEN Repairs(s, n.c)
               ELSE IF defer /\ n.put
               THEN /\ ctx' = [ctx EXCEPT ![s] = Event(n.c)]
                    /\ Done
               ELSE /\ ctx' = [ctx EXCEPT ![s].lock = "scheduler"]
                    /\ sched' = [sched EXCEPT !.at = "segmenting"]
                    /\ UNCHANGED accepted
    /\ UNCHANGED <<held, tasks, cancelled>>

\* The adapter has finished the segment: a pending endpoint is acknowledged to
\* the VAD, which hands over or drops what it held back.
SegmentEnds ==
    /\ sched.at = "segmenting"
    /\ LET s == Current.of
           c == [ctx[s] EXCEPT !.lock = "free"]
       IN  IF ~c.endpoint
           THEN ApplyEnds(s, ses[s], c, Buffered(ses[s]) > 0) /\ UNCHANGED held
           ELSE \E audio \in 0 .. held[s], dropped \in 0 .. held[s], e \in BOOLEAN :
                LET r == HandOver(ses[s], audio)
                IN  /\ audio + dropped <= held[s]
                    /\ held' = [held EXCEPT ![s] = @ - audio - dropped]
                    /\ IF audio > 0 /\ ~CanAppend(ses[s], audio)
                       THEN Repairs(s, [c EXCEPT !.endpoint = FALSE]) /\ UNCHANGED <<ses, ready>>
                       ELSE ApplyEnds(s, RecordDiscarded(r, dropped), [c EXCEPT !.endpoint = e],
                                      Buffered(r) > 0)
    /\ UNCHANGED <<tasks, cancelled>>

\* finish_segment, or the transcript merge before it, raises.
SegmentRaises ==
    /\ "result error" \in Happens
    /\ sched.at = "segmenting"
    /\ Repairs(Current.of, ctx[Current.of])
    /\ UNCHANGED <<ses, held, tasks, ready, cancelled>>

-----------------------------------------------------------------------------
SchedulerStep ==
    \/ (\E i \in DOMAIN queue : Expire(i))
    \/ Dispatch \/ Rest \/ WakeUp \/ Stop
    \/ SubmitReturns \/ SubmitFails \/ Settle
    \/ PublishNothing \/ PublishError \/ ErrorPublished \/ PublishText
    \/ PublishSegment \/ SegmentEnds \/ SegmentRaises

ClientStep(s) == Frame(s) \/ Segment(s) \/ Finish(s) \/ Abort(s) \/ Disconnect(s)

HandlerStep(s) ==
    \/ Ingest(s) \/ IngestBlocks(s) \/ IngestTimeout(s) \/ PastDeadline(s)
    \/ SegmentDecodes(s) \/ FinishDecodes(s) \/ CallAdapter(s)
    \/ SegmentReturns(s) \/ FinishReturns(s) \/ AdapterRaises(s)
    \/ ErrorBegins(s) \/ ErrorPasses(s) \/ ErrorLocked(s) \/ ErrorSent(s)
    \/ AbortPasses(s) \/ AbortSent(s) \/ AbortRaises(s) \/ Awaited(s)
    \/ Leave(s) \/ LeavePasses(s) \/ LeaveReleases(s)

OutsideStep(s) == OutsidePasses(s) \/ OutsideReleases(s)

Next ==
    \/ SchedulerStep \/ CloseScheduler
    \/ \E s \in Sessions :
        \/ ClientStep(s) \/ HandlerStep(s) \/ SenderReleases(s)
        \/ OutsideBegins(s) \/ OutsideStep(s)

Spec == Init /\ [][Next]_vars

\* Every task that can run does run: the event loop is fair, adapter calls end
\* (submit has a time-out, the coordinator's own calls do too), and a queued
\* job's deadline wakes the scheduler.  Nothing obliges a client to speak.
FairSpec ==
    /\ Spec
    /\ WF_vars(SchedulerStep)
    /\ \A s \in Sessions :
        WF_vars(HandlerStep(s)) /\ WF_vars(SenderReleases(s)) /\ WF_vars(OutsideStep(s))
-----------------------------------------------------------------------------
\* The shape of the state.
TypeOK ==
    /\ ses \in [Sessions -> SessionType]
    /\ held \in [Sessions -> Nat]
    /\ \A s \in Sessions :
        /\ DOMAIN ctx[s] = DOMAIN NewContext
        /\ ctx[s].lock \in {"free", "handler", "scheduler"}
    /\ sender \in [Sessions -> {"running", "done"}]
    /\ outside \in [Sessions -> {"none", "barrier", "adapter", "done"}]
    /\ queued \in 0 .. MaxQueuedSamples
    /\ Len(queue) <= MaxReadyJobs
    /\ sched.at \in {"scan", "asleep", "submit", "settle", "publish", "segmenting",
                     "repair", "failing", "stopped", "dead"}

\* _queued_samples, which admission is decided by, is the audio in the queue
\* and in the submitted batch, whichever of six paths a job leaves by.
QueueExact ==
    queued = SumSizes(queue) + (IF sched.at = "submit" THEN SumSizes(sched.batch) ELSE 0)

\* "must not abort an adapter session until scheduler ownership ... is safe":
\* the sessions of a submitted batch are open in the adapter.
SubmittedSessionsOpen ==
    sched.at = "submit" => \A j \in Range(sched.batch) : ctx[j.of].backend

\* "One session cannot have two in-flight jobs", across the queue and the
\* submitted batch, and a job of a live session and of its generation owns the
\* reservation until it is settled, so that reject never raises and the
\* scheduler's task never dies.
JobsOwnReservations ==
    LET jobs == queue \o (IF sched.at = "submit" THEN sched.batch ELSE <<>>) IN
    /\ sched.at # "dead"
    /\ \A i, k \in DOMAIN jobs : jobs[i].of = jobs[k].of => i = k
    /\ \A j \in Range(jobs) : IsCurrent(j) => MatchesReservation(ses[j.of], j)

\* A session has one terminal event, whoever ends it first, and nothing is put
\* into its outbound queue behind that: the sender stops there.
TerminalEventIsLast == \A s \in Sessions : ctx[s].last <= 1 /\ ~ctx[s].late

\* A reservation is released again: the job is decoded, rejected or dropped.
JobsSettle == \A s \in Sessions : InFlight(ses[s]) ~> ~InFlight(ses[s])

\* Where a handler can wait for ever: in segment or finish for an idle event that
\* no job in flight will set, the second only after an abort() from outside; and
\* for the sender of a session that has ended without a terminal event.
WaitsForNobody(s) ==
    \/ /\ pc[s] = "segment wait" \/ (pc[s] = "finish wait" /\ outside[s] # "none")
       /\ ~ctx[s].idle
       /\ ~InFlight(ses[s])
    \/ /\ pc[s] = "await"
       /\ sender[s] = "running"
       /\ Ended(s)
       /\ ctx[s].last = 0 /\ ~ctx[s].shut

\* A handler gets back to its socket or returns, or it is in one of the named
\* waits and stays there: there is no other way to wait for ever for idle, the
\* lock, the barrier, a reservation or the sender.
HangsOnlyThen ==
    \A s \in Sessions :
        pc[s] \notin {"receive", "returned"} ~>
            \/ pc[s] \in {"receive", "returned"}
            \/ []WaitsForNobody(s)

\* A command is carried out or refused: the handler gets back to its socket or
\* returns.
HandlerReturns ==
    \A s \in Sessions :
        pc[s] \notin {"receive", "returned"} ~> pc[s] \in {"receive", "returned"}
=============================================================================
