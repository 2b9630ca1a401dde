---------------------------- MODULE WorkerLeases ----------------------------
(***************************************************************************)
(* Who holds what of which worker: BackendRegistry and BackendLease        *)
(* (app/asr_gateway_backends.py), SessionManager                           *)
(* (app/asr_gateway_sessions.py), and the parts of GatewayRuntime and of   *)
(* the WebSocket handler (app/asr_gateway.py) that open, end and release   *)
(* sessions, drain a worker and close the gateway.                         *)
(*                                                                         *)
(* The registry's and a lease's asyncio.Lock are never held across a       *)
(* suspension, so a registry call is part of the step that makes it.       *)
(* Tasks: one handler and one sender per session, one drain_worker per     *)
(* worker, and close().  A step ends where its task can really suspend:    *)
(* in the adapter, at the scheduler's safety barrier, on an event, at the  *)
(* socket.                                                                 *)
(***************************************************************************)
EXTENDS Integers, FiniteSets

CONSTANTS
    Workers,       \* worker ids, ordered as min() orders them
    Sessions,      \* session ids; each connection gets a fresh one
    Gpus,          \* gpu ids the workers may be deployed on
    Capacity,      \* BackendCapabilities.session_capacity
    MaxSessions,   \* SessionManager.max_sessions
    Retiring,      \* the workers an operator drains
    Happens,       \* what the surroundings may do: see HappensAssumption
    NoSession      \* Python's None where a session is expected

ASSUME WorkersAssumption == Workers \subseteq Nat \ {0} /\ IsFiniteSet(Workers)
ASSUME RetiringAssumption == Retiring \subseteq Workers
ASSUME SessionsAssumption == IsFiniteSet(Sessions) /\ NoSession \notin Sessions
ASSUME CapacityAssumption == Capacity \in Nat \ {0}
ASSUME MaxSessionsAssumption == MaxSessions \in Nat \ {0}
\* Calls into the adapter, the VAD factory and the socket that may raise, the
\* scheduler reporting a failed worker, and the gateway being closed.
ASSUME HappensAssumption ==
    Happens \subseteq {"open_fails", "vad_factory_fails", "finish_fails",
                       "abort_fails", "send_fails", "worker_fails", "close"}

NoWorker == 0
Closing == 0                     \* close() sweeps like a drain of everything
Sweepers == Workers \cup {Closing}

VARIABLES
    runtime,          \* "starting", "serving", "closing", "closed", "failed"
    gpu,              \* BackendCapabilities.gpu_id of each worker
    life,             \* BackendSnapshot.lifecycle; "absent" when not registered
    leases,           \* BackendSnapshot.active_leases
    empty,            \* GatewayRuntime._worker_empty, is the event set?
    route,            \* the worker of a session's lease
    lease,            \* "none", "held", "released" (BackendLease._released)
    manager,          \* the sessions in SessionManager._sessions
    contexts,         \* the sessions in GatewayRuntime._contexts
    backend,          \* the sessions in their adapter's own table
    ended,            \* the sessions in a FAILED, ABORTED or SUCCEEDED state
    pc,               \* where a session's handler is
    sender,           \* "none", "running", "terminal" (last envelope queued), "done"
    sweep             \* drain_worker of each worker, and close()

registry == <<gpu, life>>
tables == <<leases, empty, lease, manager, contexts>>
vars == <<runtime, gpu, life, leases, empty, route, lease, manager, contexts,
          backend, ended, pc, sender, sweep>>

Idle == [pc |-> "idle", todo |-> {}, cur |-> NoSession]

Init ==
    /\ runtime = "starting"
    /\ gpu \in [Workers -> Gpus]
    /\ life = [w \in Workers |-> "absent"]
    /\ leases = [w \in Workers |-> 0]
    /\ empty = [w \in Workers |-> TRUE]
    /\ route = [s \in Sessions |-> NoWorker]
    /\ lease = [s \in Sessions |-> "none"]
    /\ manager = {}
    /\ contexts = {}
    /\ backend = {}
    /\ ended = {}
    /\ pc = [s \in Sessions |-> "start"]
    /\ sender = [s \in Sessions |-> "none"]
    /\ sweep = [k \in Sweepers |-> Idle]

-----------------------------------------------------------------------------
\* GatewayRuntime.start: register every adapter, then warm them one by one.

\* BackendRegistry.register refuses a second owner of a GPU.
RegisterAll ==
    /\ runtime = "starting"
    /\ \A w \in Workers : life[w] = "absent"
    /\ IF \A v, w \in Workers : v # w => gpu[v] # gpu[w]
       THEN /\ life' = [w \in Workers |-> "starting"]
            /\ UNCHANGED runtime
       ELSE /\ runtime' = "failed"
            /\ UNCHANGED life
    /\ UNCHANGED <<gpu, tables, route, backend, ended, pc, sender, sweep>>

WarmUp(w) ==
    /\ runtime = "starting"
    /\ life[w] = "starting"
    /\ \A v \in Workers : v < w => life[v] = "ready"
    /\ \/ /\ life' = [life EXCEPT ![w] = "ready"]
          /\ runtime' = IF \A v \in Workers \ {w} : life[v] = "ready"
                        THEN "serving" ELSE runtime
       \/ /\ runtime' = "failed"
          /\ UNCHANGED life
    /\ UNCHANGED <<gpu, tables, route, backend, ended, pc, sender, sweep>>

\* The scheduler's worker_failed hook marks a worker failed, a draining one too.
WorkerFailed(w) ==
    /\ "worker_fails" \in Happens
    /\ life[w] \in {"ready", "draining"}
    /\ \E s \in contexts : route[s] = w
    /\ life' = [life EXCEPT ![w] = "failed"]
    /\ UNCHANGED <<runtime, gpu, tables, route, backend, ended, pc, sender, sweep>>

-----------------------------------------------------------------------------
\* Leases.

\* Mutant of Accepting: one lease too many.
AcceptingOneMore(w) == life[w] = "ready" /\ leases[w] <= Capacity

\* BackendSnapshot.accepting; its in_flight count is never written.
Accepting(w) == life[w] = "ready" /\ leases[w] < Capacity

\* BackendRegistry.acquire takes the accepting worker with the fewest leases,
\* then the smallest id.
Selected(w) ==
    /\ Accepting(w)
    /\ \A v \in Workers : Accepting(v) =>
           leases[w] < leases[v] \/ (leases[w] = leases[v] /\ w <= v)

\* BackendLease.release
ReleaseLease(s) ==
    IF lease[s] = "held"
    THEN /\ lease' = [lease EXCEPT ![s] = "released"]
         /\ leases' = [leases EXCEPT ![route[s]] = @ - 1]
    ELSE UNCHANGED <<lease, leases>>

\* Mutant of ReleaseSession: the event drain_worker waits for is not set.
ReleaseSessionSilently(s) ==
    IF s \in contexts
    THEN /\ contexts' = contexts \ {s}
         /\ manager' = manager \ {s}
         /\ ReleaseLease(s)
         /\ UNCHANGED empty
    ELSE UNCHANGED tables

\* _release_session: a second call finds no context and changes nothing.
ReleaseSession(s) ==
    IF s \in contexts
    THEN /\ contexts' = contexts \ {s}
         /\ manager' = manager \ {s}
         /\ ReleaseLease(s)
         /\ empty' = IF \E t \in contexts \ {s} : route[t] = route[s]
                     THEN empty ELSE [empty EXCEPT ![route[s]] = TRUE]
    ELSE UNCHANGED tables

-----------------------------------------------------------------------------
\* open_session, up to and after the adapter's answer.

\* No worker accepts: the handler answers "overloaded" and returns.
OpenRefused(s) ==
    /\ pc[s] = "start"
    /\ runtime \in {"serving", "closing"}
    /\ \A w \in Workers : ~Accepting(w)
    /\ pc' = [pc EXCEPT ![s] = "returned"]
    /\ UNCHANGED <<runtime, registry, tables, route, backend, ended, sender, sweep>>

\* The lease is taken, the event cleared and the adapter called in one step.
Acquire(s) ==
    /\ pc[s] = "start"
    /\ runtime \in {"serving", "closing"}
    /\ \E w \in Workers :
        /\ Selected(w)
        /\ leases' = [leases EXCEPT ![w] = @ + 1]
        /\ empty' = [empty EXCEPT ![w] = FALSE]
        /\ route' = [route EXCEPT ![s] = w]
    /\ lease' = [lease EXCEPT ![s] = "held"]
    /\ pc' = [pc EXCEPT ![s] = "opening"]
    /\ UNCHANGED <<runtime, registry, manager, contexts, backend, ended, sender, sweep>>

\* open_session's except clause sets the worker's event whatever else is open.
Unopen(s) ==
    /\ ReleaseLease(s)
    /\ empty' = [empty EXCEPT ![route[s]] = TRUE]

\* SessionManager.create refuses; session ids are fresh, so none is a duplicate.
ManagerFull == Cardinality(manager) >= MaxSessions

\* The adapter raises, or SessionManager.create does after the adapter has
\* opened its session: that session stays in the adapter.
OpenFails(s) ==
    /\ pc[s] = "opening"
    /\ \/ /\ "open_fails" \in Happens \/ runtime = "closed"
          /\ UNCHANGED backend
       \/ /\ runtime # "closed"
          /\ ManagerFull
          /\ backend' = backend \cup {s}
    /\ Unopen(s)
    /\ pc' = [pc EXCEPT ![s] = "returned"]
    /\ UNCHANGED <<runtime, registry, route, manager, contexts, ended, sender, sweep>>

\* The VAD factory raises outside the try: no context was made, so the
\* handler's abort() finds nothing to release.
VadFactoryFails(s) ==
    /\ "vad_factory_fails" \in Happens
    /\ pc[s] = "opening"
    /\ runtime # "closed"
    /\ ~ManagerFull
    /\ manager' = manager \cup {s}
    /\ backend' = backend \cup {s}
    /\ pc' = [pc EXCEPT ![s] = "returned"]
    /\ UNCHANGED <<runtime, registry, leases, empty, lease, route, contexts, ended, sender, sweep>>

OpenSucceeds(s) ==
    /\ pc[s] = "opening"
    /\ runtime # "closed"
    /\ ~ManagerFull
    /\ manager' = manager \cup {s}
    /\ contexts' = contexts \cup {s}
    /\ backend' = backend \cup {s}
    /\ pc' = [pc EXCEPT ![s] = "running"]
    /\ sender' = [sender EXCEPT ![s] = "running"]
    /\ UNCHANGED <<runtime, registry, leases, empty, lease, route, ended, sweep>>

-----------------------------------------------------------------------------
\* How a session ends.

\* The terminal envelope is in the outbound queue, if there is a sender left.
Terminate(s) ==
    sender' = [sender EXCEPT ![s] = IF @ = "running" THEN "terminal" ELSE @]

\* _fail_session from the scheduler's result path, the handler untouched.
ResultFails(s) ==
    /\ s \in contexts \ ended
    /\ ended' = ended \cup {s}
    /\ backend' = backend \ {s}
    /\ Terminate(s)
    /\ UNCHANGED <<runtime, registry, tables, route, pc, sweep>>

\* segment: the handler waits for the session to be idle, which no time-out or
\* deadline ends, and for the adapter; it goes back to the socket, or fails.
ClientSegment(s) ==
    /\ pc[s] = "running"
    /\ s \in contexts
    /\ pc' = [pc EXCEPT ![s] = "segmenting"]
    /\ UNCHANGED <<runtime, registry, tables, route, backend, ended, sender, sweep>>

SegmentReturns(s) ==
    /\ pc[s] = "segmenting"
    /\ s \in backend
    /\ pc' = [pc EXCEPT ![s] = "running"]
    /\ UNCHANGED <<runtime, registry, tables, route, backend, ended, sender, sweep>>

\* finish: the handler waits for the session to be idle and for the adapter.
ClientFinish(s) ==
    /\ pc[s] = "running"
    /\ s \in contexts
    /\ pc' = [pc EXCEPT ![s] = "finishing"]
    /\ UNCHANGED <<runtime, registry, tables, route, backend, ended, sender, sweep>>

\* Success: the lease goes back before the final event is sent, the context
\* and the session stay until the sender has delivered it.
FinishSucceeds(s) ==
    /\ pc[s] = "finishing"
    /\ s \in backend
    /\ backend' = backend \ {s}
    /\ ended' = ended \cup {s}
    /\ ReleaseLease(s)
    /\ Terminate(s)
    /\ pc' = [pc EXCEPT ![s] = "awaiting"]
    /\ UNCHANGED <<runtime, registry, empty, manager, contexts, route, sweep>>

\* The handler meets an error (bad input, deadline, idle time-out, adapter
\* failure, or a context that is gone): enqueue_error up to its barrier.
HandlerFails(s) ==
    /\ \/ pc[s] = "running"
       \/ /\ pc[s] \in {"segmenting", "finishing"}
          /\ "finish_fails" \in Happens \/ s \notin backend
    /\ pc' = [pc EXCEPT ![s] = IF s \in contexts THEN "failing" ELSE "leaving"]
    /\ UNCHANGED <<runtime, registry, tables, route, backend, ended, sender, sweep>>

\* enqueue_error behind its barrier: a session that has ended meanwhile gets
\* no further event, and the handler waits for its sender all the same.
EnqueueError(s) ==
    /\ pc[s] = "failing"
    /\ IF s \in ended
       THEN UNCHANGED <<ended, backend, sender>>
       ELSE /\ ended' = ended \cup {s}
            /\ backend' = backend \ {s}
            /\ Terminate(s)
    /\ pc' = [pc EXCEPT ![s] = "awaiting"]
    /\ UNCHANGED <<runtime, registry, tables, route, sweep>>

\* enqueue_abort: if the adapter's abort raises, the close envelope is not
\* queued, and the error path sees an ended session and queues none either.
ClientAbort(s) ==
    /\ pc[s] = "running"
    /\ s \in contexts
    /\ ended' = ended \cup {s}
    /\ backend' = backend \ {s}
    /\ \/ Terminate(s)
       \/ "abort_fails" \in Happens /\ UNCHANGED sender
    /\ pc' = [pc EXCEPT ![s] = "awaiting"]
    /\ UNCHANGED <<runtime, registry, tables, route, sweep>>

\* send_outbound_events delivers the terminal envelope (or fails to), and
\* releases the session either way.
SenderReleases(s) ==
    /\ sender[s] = "terminal"
    /\ ReleaseSession(s)
    /\ sender' = [sender EXCEPT ![s] = "done"]
    /\ UNCHANGED <<runtime, registry, route, backend, ended, pc, sweep>>

\* An earlier send raises: the sender ends and releases nothing.
SenderDies(s) ==
    /\ "send_fails" \in Happens
    /\ sender[s] = "running"
    /\ sender' = [sender EXCEPT ![s] = "done"]
    /\ UNCHANGED <<runtime, registry, tables, route, backend, ended, pc, sweep>>

\* The client disconnects, a control command finds the session's deadline passed,
\* or the sender the handler awaits is done.
Leave(s) ==
    /\ \/ pc[s] = "running"
       \/ pc[s] = "awaiting" /\ sender[s] = "done"
    /\ pc' = [pc EXCEPT ![s] = "leaving"]
    /\ UNCHANGED <<runtime, registry, tables, route, backend, ended, sender, sweep>>

-----------------------------------------------------------------------------
\* abort(), in the handler's finally clause.

\* Mutant of AbortStarts: a session that has ended is taken for a released one.
AbortStartsLive(s) ==
    /\ pc[s] = "leaving"
    /\ sender' = [sender EXCEPT ![s] = "done"]
    /\ pc' = [pc EXCEPT ![s] = IF s \in contexts \ ended THEN "barrier" ELSE "returned"]
    /\ UNCHANGED <<runtime, registry, tables, route, backend, ended, sweep>>

\* The sender is cancelled first.  No context: nothing to do; ended: release.
AbortStarts(s) ==
    /\ pc[s] = "leaving"
    /\ sender' = [sender EXCEPT ![s] = "done"]
    /\ IF s \in contexts \ ended
       THEN /\ pc' = [pc EXCEPT ![s] = "barrier"]
            /\ UNCHANGED tables
       ELSE /\ pc' = [pc EXCEPT ![s] = "returned"]
            /\ ReleaseSession(s)
    /\ UNCHANGED <<runtime, registry, route, backend, ended, sweep>>

AbortPassesBarrier(s) ==
    /\ pc[s] = "barrier"
    /\ ended' = ended \cup {s}
    /\ backend' = backend \ {s}
    /\ pc' = [pc EXCEPT ![s] = "aborted"]
    /\ UNCHANGED <<runtime, registry, tables, route, sender, sweep>>

AbortReleases(s) ==
    /\ pc[s] = "aborted"
    /\ ReleaseSession(s)
    /\ pc' = [pc EXCEPT ![s] = "returned"]
    /\ UNCHANGED <<runtime, registry, route, backend, ended, sender, sweep>>

-----------------------------------------------------------------------------
\* drain_worker and close(): both call abort() for a list of sessions.

BeginDrain(w) ==
    /\ w \in Retiring
    /\ runtime = "serving"
    /\ sweep[w].pc = "idle"
    /\ life[w] # "absent"
    /\ life' = [life EXCEPT ![w] = "draining"]
    /\ sweep' = [sweep EXCEPT ![w].pc = "waiting"]
    /\ UNCHANGED <<runtime, gpu, tables, route, backend, ended, pc, sender>>

DrainTimeout(w) ==
    /\ sweep[w].pc = "waiting"
    /\ ~empty[w]
    /\ sweep' = [sweep EXCEPT ![w].pc = "next",
                              ![w].todo = {s \in contexts : route[s] = w}]
    /\ UNCHANGED <<runtime, registry, tables, route, backend, ended, pc, sender>>

BeginClose ==
    /\ "close" \in Happens
    /\ runtime = "serving"
    /\ runtime' = "closing"
    /\ sweep' = [sweep EXCEPT ![Closing].pc = "next", ![Closing].todo = contexts]
    /\ UNCHANGED <<registry, tables, route, backend, ended, pc, sender>>

\* abort() of the next listed session, up to its barrier
SweepNext(k) ==
    /\ sweep[k].pc = "next"
    /\ \E s \in sweep[k].todo :
        IF s \in contexts \ ended
        THEN /\ sweep' = [sweep EXCEPT ![k] =
                            [pc |-> "barrier", todo |-> @.todo \ {s}, cur |-> s]]
             /\ UNCHANGED tables
        ELSE /\ sweep' = [sweep EXCEPT ![k].todo = @ \ {s}]
             /\ ReleaseSession(s)
    /\ UNCHANGED <<runtime, registry, route, backend, ended, pc, sender>>

SweepPassesBarrier(k) ==
    /\ sweep[k].pc = "barrier"
    /\ ended' = ended \cup {sweep[k].cur}
    /\ backend' = backend \ {sweep[k].cur}
    /\ sweep' = [sweep EXCEPT ![k].pc = "aborted"]
    /\ UNCHANGED <<runtime, registry, tables, route, pc, sender>>

SweepReleases(k) ==
    /\ sweep[k].pc = "aborted"
    /\ ReleaseSession(sweep[k].cur)
    /\ sweep' = [sweep EXCEPT ![k].pc = "next", ![k].cur = NoSession]
    /\ UNCHANGED <<runtime, registry, route, backend, ended, pc, sender>>

\* After the list, drain_worker waits for the event without a time-out.
SweepDone(w) ==
    /\ sweep[w].pc = "next"
    /\ sweep[w].todo = {}
    /\ sweep' = [sweep EXCEPT ![w].pc = "waiting again"]
    /\ UNCHANGED <<runtime, registry, tables, route, backend, ended, pc, sender>>

\* adapter.drain() and registry.remove(), which raises while leases are out.
Unload(w) ==
    /\ sweep[w].pc \in {"waiting", "waiting again"}
    /\ empty[w]
    /\ sweep' = [sweep EXCEPT ![w].pc = "unloaded"]
    /\ life' = IF leases[w] = 0 THEN [life EXCEPT ![w] = "absent"] ELSE life
    /\ UNCHANGED <<runtime, gpu, tables, route, backend, ended, pc, sender>>

\* scheduler.close() and adapter.close(), which aborts what the adapter holds
CloseDone ==
    /\ sweep[Closing].pc = "next"
    /\ sweep[Closing].todo = {}
    /\ runtime' = "closed"
    /\ backend' = {}
    /\ sweep' = [sweep EXCEPT ![Closing].pc = "unloaded"]
    /\ UNCHANGED <<registry, tables, route, ended, pc, sender>>

-----------------------------------------------------------------------------
OpenStep(s) == OpenRefused(s) \/ Acquire(s) \/ OpenFails(s) \/ VadFactoryFails(s) \/ OpenSucceeds(s)
SegmentStep(s) == ClientSegment(s) \/ SegmentReturns(s)
EndStep(s) == FinishSucceeds(s) \/ HandlerFails(s) \/ EnqueueError(s) \/ Leave(s)
AbortStep(s) == AbortStarts(s) \/ AbortPassesBarrier(s) \/ AbortReleases(s)
SweepStep(k) == SweepNext(k) \/ SweepPassesBarrier(k) \/ SweepReleases(k)
DrainStep(w) == DrainTimeout(w) \/ SweepDone(w) \/ Unload(w)

Next ==
    \/ RegisterAll \/ BeginClose \/ CloseDone
    \/ \E w \in Workers : WarmUp(w) \/ WorkerFailed(w) \/ BeginDrain(w) \/ DrainStep(w)
    \/ \E s \in Sessions :
        \/ OpenStep(s) \/ EndStep(s) \/ AbortStep(s)
        \/ ResultFails(s) \/ SegmentStep(s) \/ ClientFinish(s) \/ ClientAbort(s)
        \/ SenderReleases(s) \/ SenderDies(s)
    \/ \E k \in Sweepers : SweepStep(k)

Spec == Init /\ [][Next]_vars

\* A handler at its socket is ended by the idle time-out or by the deadline, which
\* every message is checked against: it cannot go on between the socket and segment
\* for ever.  Behind the socket no clock ends a wait: the end of a segment is not
\* promised, nor that of a finish whose session an abort() has released.
EndsAtSocket(s) == pc[s] = "running" /\ EndStep(s)
EndsBehind(s) ==
    /\ pc[s] \notin {"running", "segmenting"}
    /\ pc[s] = "finishing" => s \in contexts
    /\ EndStep(s)

\* The other tasks run when they can.  Nothing obliges a client to come, segment,
\* finish or abort, or anyone to start a drain.
FairSpec ==
    /\ Spec
    /\ \A s \in Sessions :
        /\ WF_vars(OpenFails(s) \/ VadFactoryFails(s) \/ OpenSucceeds(s))
        /\ SF_vars(EndsAtSocket(s)) /\ WF_vars(EndsBehind(s))
        /\ WF_vars(AbortStep(s)) /\ WF_vars(SenderReleases(s))
    /\ \A k \in Sweepers : WF_vars(SweepStep(k))
    /\ \A w \in Workers : WF_vars(DrainStep(w))
-----------------------------------------------------------------------------
\* The shape of the state.
TypeOK ==
    /\ runtime \in {"starting", "serving", "closing", "closed", "failed"}
    /\ gpu \in [Workers -> Gpus]
    /\ life \in [Workers -> {"absent", "starting", "ready", "failed", "draining"}]
    /\ leases \in [Workers -> Nat]
    /\ empty \in [Workers -> BOOLEAN]
    /\ route \in [Sessions -> Workers \cup {NoWorker}]
    /\ lease \in [Sessions -> {"none", "held", "released"}]
    /\ manager \subseteq Sessions
    /\ contexts \subseteq manager
    /\ backend \subseteq Sessions
    /\ ended \subseteq Sessions
    /\ pc \in [Sessions -> {"start", "opening", "running", "segmenting", "finishing",
                            "failing", "awaiting", "leaving", "barrier", "aborted", "returned"}]
    /\ sender \in [Sessions -> {"none", "running", "terminal", "done"}]
    /\ sweep \in [Sweepers ->
         [pc : {"idle", "waiting", "next", "barrier", "aborted", "waiting again", "unloaded"},
          todo : SUBSET Sessions, cur : Sessions \cup {NoSession}]]

\* The sessions that hold a lease on w.
Holders(w) == {s \in Sessions : lease[s] = "held" /\ route[s] = w}

\* active_leases counts the outstanding leases exactly and never exceeds the
\* capacity, although finish, the sender, the handler's abort, a drain and
\* close() may each release the same session (asr_gateway.py:459, 629,
\* asr_gateway_backends.py:130).  And the worker of a lease is registered:
\* BackendRegistry.release would raise KeyError in the middle of
\* _release_session otherwise.
LeasesExact ==
    \A w \in Workers :
        /\ leases[w] = Cardinality(Holders(w)) /\ leases[w] <= Capacity
        /\ Holders(w) # {} => life[w] # "absent"

\* A handler that has returned left nothing behind in the gateway: no lease,
\* no context, no slot of the session manager.
NothingLeftBehind ==
    \A s \in Sessions : pc[s] = "returned" =>
        lease[s] # "held" /\ s \notin contexts /\ s \notin manager

\* A session on w that nothing ends: its handler is in segment, or waits for the
\* sender of an aborted session that got no terminal event.
Lingering(w) ==
    {s \in contexts : route[s] = w /\
        \/ pc[s] = "segmenting"
        \/ pc[s] = "awaiting" /\ s \in ended /\ sender[s] = "running"}

\* A drain that has begun comes to its end, or it waits without a time-out
\* (asr_gateway.py:659) for a session that was opened behind its sweep and lingers.
DrainEnds ==
    \A w \in Workers :
        sweep[w].pc # "idle" ~>
            \/ sweep[w].pc = "unloaded"
            \/ [](sweep[w].pc = "waiting again" /\ Lingering(w) # {})

\* "Let existing stateful sessions finish": when a drain goes on to unload its
\* worker, no session is open on it.  A failing open sets the event that the drain
\* waits for (asr_gateway.py:168, see the README), so no run checks it.
DrainWaits ==
    [][\A w \in Workers : sweep[w].pc # "unloaded" /\ sweep'[w].pc = "unloaded" =>
           \A s \in contexts \ ended : route[s] # w]_vars

\* "every session, backend session, reservation, and lease is released": a
\* handler that has returned has no session left in the adapter either.  The code
\* does not guarantee it (asr_gateway.py:160, see the README), so no run checks it.
BackendReleased ==
    \A s \in Sessions : pc[s] = "returned" => s \notin backend

\* A session that has ended is released.  The code does not guarantee it when the
\* adapter raises in the client's abort (asr_gateway.py:557, see the README), so no
\* run checks it.
EndedIsReleased ==
    \A s \in Sessions : s \in ended ~> s \notin contexts
=============================================================================
