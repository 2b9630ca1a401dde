------------------------ MODULE GatewayRuntimeProofs ------------------------
(***************************************************************************)
(* The gateway's runtime for every number of sessions, every limit of the  *)
(* scheduler and everything that may go wrong.  First the last event of a  *)
(* session: whoever ends it, its handler or the scheduler, does it under   *)
(* the protocol lock.  Then jobs and reservations: the scheduler's account *)
(* of queued samples, the barrier before a session is closed in the        *)
(* adapter, and the one job that owns a session's reservation.             *)
(***************************************************************************)
EXTENDS GatewayRuntime, GatewayLemmas, TLAPS

CtxFields == {"live", "lock", "idle", "endpoint", "backend", "terminal", "last", "shut", "late"}
SchedFields == {"at", "batch", "failures", "bad", "worker", "due", "closed"}

\* Where a handler has the protocol lock.
Locked == {"blocked", "segment adapter", "finish adapter", "error adapter"}

\* A session's context x, with its handler at w: one terminal event at most and
\* only after the protocol has ended, nothing behind it, the lock where the
\* handler takes it, and no end while the handler is about to send an error.
Sound(x, w) ==
    /\ DOMAIN x = CtxFields
    /\ x.last \in {0, 1}
    /\ x.terminal \in BOOLEAN
    /\ x.late = FALSE
    /\ x.last = 1 => x.terminal
    /\ w \in Locked => x.lock = "handler"
    /\ w = "error adapter" => ~x.terminal

\* The scheduler, in an adapter call of its own, has the session's lock, and the
\* session's protocol goes on.
SchedulerLocks ==
    sched.at \in {"failing", "segmenting"} /\ Current.of \in Sessions =>
        ctx[Current.of].lock = "scheduler" /\ ~ctx[Current.of].terminal

\* The contexts and the handlers are functions on the sessions.
Indexed ==
    /\ DOMAIN ctx = Sessions /\ ctx = [s \in Sessions |-> ctx[s]]
    /\ DOMAIN pc = Sessions /\ pc = [s \in Sessions |-> pc[s]]

IInv ==
    /\ Indexed
    /\ DOMAIN sched = SchedFields
    /\ \A s \in Sessions : Sound(ctx[s], pc[s])
    /\ SchedulerLocks

-----------------------------------------------------------------------------
(* Contexts *)

\* The two agree on the fields the invariant reads.
Same(x, y) ==
    /\ DOMAIN x = CtxFields /\ DOMAIN y = CtxFields
    /\ x.lock = y.lock /\ x.terminal = y.terminal /\ x.last = y.last /\ x.late = y.late

\* y is x with the lock given back, or taken.
Relocked(x, y, lock) ==
    /\ DOMAIN x = CtxFields /\ DOMAIN y = CtxFields
    /\ y.lock = lock /\ x.terminal = y.terminal /\ x.last = y.last /\ x.late = y.late

\* _schedule_next changes nothing of a context but whether it is idle.
LEMMA ScheduleNextSame ==
    ASSUME NEW r, NEW c, DOMAIN c = CtxFields, NEW force
    PROVE  Same(ScheduleNext(r, c, force).c, c)
<1>1. Same(c, c) /\ Same([c EXCEPT !.idle = TRUE], c) /\ Same([c EXCEPT !.idle = FALSE], c)
  BY DEF Same, CtxFields
<1>2. ScheduleNext(r, c, force).c \in {c, [c EXCEPT !.idle = TRUE], [c EXCEPT !.idle = FALSE]}
  BY DEF ScheduleNext
<1> QED BY <1>1, <1>2

\* What an event and a terminal event make of an open context.
LEMMA EventSound ==
    ASSUME NEW c, DOMAIN c = CtxFields, c.last = 0, c.late = FALSE
    PROVE  /\ Same(Event(c), c)
           /\ DOMAIN TerminalEvent(c) = CtxFields
           /\ TerminalEvent(c).terminal = TRUE /\ TerminalEvent(c).last = 1
           /\ TerminalEvent(c).late = FALSE /\ TerminalEvent(c).lock = c.lock
<1>1. (c.late \/ c.last > 0) = FALSE
  OBVIOUS
<1>2. Event(c) = [c EXCEPT !.late = FALSE]
  BY <1>1 DEF Event
<1>3. Same(Event(c), c)
  BY <1>2 DEF Same, CtxFields
<1> HIDE DEF Event
<1>4. TerminalEvent(c) = [Event(c) EXCEPT !.terminal = TRUE, !.last = 1]
  BY <1>3 DEF TerminalEvent, Same, CtxFields
<1> QED BY <1>3, <1>4 DEF Same, CtxFields

\* At the start no session has an event and no lock is held.
LEMMA InitIInv == Init => IInv
<1> SUFFICES ASSUME Init PROVE IInv
  OBVIOUS
<1>1. Sound(NewContext, "receive")
  BY DEF Sound, NewContext, CtxFields, Locked
<1>2. sched.at = "scan" /\ DOMAIN sched = SchedFields
  BY DEF Init, Resting, SchedFields
<1>3. Indexed
  BY DEF Init, Indexed
<1> QED BY <1>1, <1>2, <1>3 DEF Init, IInv, SchedulerLocks

-----------------------------------------------------------------------------
(* One session and its handler, or the scheduler *)

\* A step of session s: the scheduler's locks are left alone.
LEMMA SessionIInv ==
    ASSUME IInv, NEW s \in Sessions, NEW x, NEW w, Sound(x, w),
           ctx' = [ctx EXCEPT ![s] = x], pc' = [pc EXCEPT ![s] = w], sched' = sched,
           ctx[s].lock = "scheduler" => x.lock = "scheduler" /\ x.terminal = ctx[s].terminal
    PROVE  IInv'
<1>1. Indexed' /\ DOMAIN sched' = SchedFields
  BY DEF IInv, Indexed
<1>2. /\ \A t \in Sessions : ctx'[t] = IF t = s THEN x ELSE ctx[t]
      /\ \A t \in Sessions : pc'[t] = IF t = s THEN w ELSE pc[t]
  BY DEF IInv, Indexed
<1>3. \A t \in Sessions : Sound(ctx'[t], pc'[t])
  BY <1>2 DEF IInv
<1>4. SchedulerLocks'
  <2>1. Current' = Current
    BY DEF Current
  <2> QED BY <1>2, <2>1 DEF IInv, SchedulerLocks
<1> QED BY <1>1, <1>3, <1>4 DEF IInv

\* A step of the scheduler with the job of session s, or with none.
LEMMA SchedulerIInv ==
    ASSUME IInv, NEW s, NEW x, s \in Sessions => Sound(x, pc[s]),
           ctx' = [ctx EXCEPT ![s] = x], pc' = pc, DOMAIN sched' = SchedFields,
           sched'.at \in {"failing", "segmenting"} /\ s \in Sessions =>
             x.lock = "scheduler" /\ ~x.terminal,
           sched'.at \in {"failing", "segmenting"} => Current'.of = s
    PROVE  IInv'
<1>1. Indexed'
  BY DEF IInv, Indexed
<1>2. \A t \in Sessions : ctx'[t] = IF t = s THEN x ELSE ctx[t]
  BY DEF IInv, Indexed
<1>3. \A t \in Sessions : Sound(ctx'[t], pc'[t])
  BY <1>2 DEF IInv
<1>4. SchedulerLocks'
  BY <1>2 DEF IInv, SchedulerLocks
<1> QED BY <1>1, <1>3, <1>4 DEF IInv

\* The scheduler does something else: no context changes.
LEMMA SchedulerQuietIInv ==
    ASSUME IInv, UNCHANGED <<ctx, pc>>, DOMAIN sched' = SchedFields,
           \/ sched'.at \notin {"failing", "segmenting"}
           \/ /\ sched'.at = sched.at /\ sched'.batch = sched.batch
              /\ sched'.failures = sched.failures
    PROVE  IInv'
<1>1. sched'.batch = sched.batch /\ sched'.failures = sched.failures => Current' = Current
  BY DEF Current
<1>2. SchedulerLocks'
  BY <1>1 DEF IInv, SchedulerLocks
<1>3. Indexed'
  BY DEF IInv, Indexed
<1> QED BY <1>2, <1>3 DEF IInv

-----------------------------------------------------------------------------
(* The handler, the sender and an abort from outside *)

\* What the invariant says of one session.
LEMMA SessionFacts ==
    ASSUME IInv, NEW s \in Sessions
    PROVE  /\ DOMAIN ctx[s] = CtxFields /\ Sound(ctx[s], pc[s])
           /\ ctx = [ctx EXCEPT ![s] = ctx[s]] /\ pc = [pc EXCEPT ![s] = pc[s]]
           /\ Same(ctx[s], ctx[s])
<1>1. DOMAIN ctx[s] = CtxFields /\ Sound(ctx[s], pc[s])
  BY DEF IInv, Sound
<1>2. ctx = [ctx EXCEPT ![s] = ctx[s]] /\ pc = [pc EXCEPT ![s] = pc[s]]
  BY DEF IInv, Indexed
<1> QED BY <1>1, <1>2 DEF Same

\* A handler goes on without touching lock and protocol.
LEMMA SameIInv ==
    ASSUME IInv, NEW s \in Sessions, NEW x, Same(x, ctx[s]), NEW w, w \notin Locked \/ w = pc[s],
           ctx' = [ctx EXCEPT ![s] = x], pc' = [pc EXCEPT ![s] = w], sched' = sched
    PROVE  IInv'
<1>1. Sound(ctx[s], pc[s])
  BY SessionFacts
<1>2. Sound(x, w)
  BY <1>1 DEF Sound, Same, Locked
<1> QED BY <1>2, SessionIInv DEF Same

\* A handler takes or leaves the lock; the protocol stays as it is.
LEMMA RelockIInv ==
    ASSUME IInv, NEW s \in Sessions, NEW x, NEW lock, Relocked(ctx[s], x, lock),
           ctx[s].lock # "scheduler",
           NEW w, w \in Locked => lock = "handler", w = "error adapter" => ~ctx[s].terminal,
           ctx' = [ctx EXCEPT ![s] = x], pc' = [pc EXCEPT ![s] = w], sched' = sched
    PROVE  IInv'
<1>1. Sound(ctx[s], pc[s])
  BY SessionFacts
<1>2. Sound(x, w)
  BY <1>1 DEF Sound, Relocked
<1> QED BY <1>2, SessionIInv

\* Steps that leave the handler without the lock and the context's fields as
\* they were.
LEMMA PlainIInv ==
    ASSUME IInv, NEW s \in Sessions,
           \/ Frame(s) \/ Segment(s) \/ Finish(s) \/ Disconnect(s) \/ Awaited(s)
           \/ ErrorBegins(s) \/ ErrorPasses(s) \/ PastDeadline(s) \/ AbortRaises(s)
    PROVE  IInv'
<1>1. ctx = [ctx EXCEPT ![s] = ctx[s]] /\ Same(ctx[s], ctx[s])
  BY SessionFacts
<1>2. UNCHANGED <<ctx, sched>>
  BY DEF Frame, Segment, Finish, Disconnect, Awaited, ErrorBegins, ErrorPasses, PastDeadline,
         AbortRaises
<1>3. \E w \in {"ingest", "leave", "error", "segment", "finish", "error barrier", "error lock"} :
        pc' = [pc EXCEPT ![s] = w]
  BY DEF Frame, Segment, Finish, Disconnect, Awaited, ErrorBegins, ErrorPasses, PastDeadline,
         AbortRaises, Raise, Go
<1>4. PICK w : w \notin Locked /\ pc' = [pc EXCEPT ![s] = w]
  BY <1>3 DEF Locked
<1> QED BY <1>1, <1>2, <1>4, SameIInv

\* segment and finish schedule their forced decode.
LEMMA DecodesIInv ==
    ASSUME IInv, NEW s \in Sessions, SegmentDecodes(s) \/ FinishDecodes(s)
    PROVE  IInv'
<1>1. PICK next \in {"segment wait", "finish wait"} : ForceDecode(s, next)
  BY DEF SegmentDecodes, FinishDecodes
<1>2. UNCHANGED sched
  BY DEF SegmentDecodes, FinishDecodes
<1>3. /\ DOMAIN ctx[s] = CtxFields /\ ctx = [ctx EXCEPT ![s] = ctx[s]]
      /\ Same(ctx[s], ctx[s])
  BY SessionFacts
<1> DEFINE n == ScheduleNext(ses[s], ctx[s], TRUE)
           c == IF next = "finish wait" /\ ~n.put /\ Drained(n.r)
                THEN [n.c EXCEPT !.idle = TRUE] ELSE n.c
<1>4. Same(n.c, ctx[s])
  BY <1>3, ScheduleNextSame
<1>5. /\ ctx' = [ctx EXCEPT ![s] = c] \/ ctx' = ctx
      /\ \E w \in {"segment wait", "finish wait", "leave", "error"} : pc' = [pc EXCEPT ![s] = w]
  BY <1>1 DEF ForceDecode, Raise, Go
<1> HIDE DEF n
<1>6. Same(c, ctx[s])
  BY <1>4 DEF Same, CtxFields
<1>7. PICK w : w \notin Locked /\ pc' = [pc EXCEPT ![s] = w]
  BY <1>5 DEF Locked
<1> HIDE DEF c
<1> QED BY <1>2, <1>3, <1>5, <1>6, <1>7, SameIInv

\* _release_session and the abort's body
LEMMA AbortIInv ==
    ASSUME IInv, NEW s \in Sessions, sched' = sched,
           \/ Release(s) \/ AbortBody(s) \/ UNCHANGED ctx
           \/ ctx' = [ctx EXCEPT ![s].shut = TRUE],
           \/ pc' = pc
           \/ \E w : w \notin Locked /\ pc' = [pc EXCEPT ![s] = w]
    PROVE  IInv'
<1>1. /\ DOMAIN ctx[s] = CtxFields /\ Same(ctx[s], ctx[s])
      /\ ctx = [ctx EXCEPT ![s] = ctx[s]] /\ pc = [pc EXCEPT ![s] = pc[s]]
  BY SessionFacts
<1>2. PICK w : (w \notin Locked \/ w = pc[s]) /\ pc' = [pc EXCEPT ![s] = w]
  BY <1>1
<1>3. /\ Same([ctx[s] EXCEPT !.live = FALSE], ctx[s])
      /\ Same([ctx[s] EXCEPT !.backend = FALSE], ctx[s])
      /\ Same([ctx[s] EXCEPT !.shut = TRUE], ctx[s])
  BY <1>1 DEF Same, CtxFields
<1>4. \/ ctx' = [ctx EXCEPT ![s] = ctx[s]]
      \/ ctx' = [ctx EXCEPT ![s] = [ctx[s] EXCEPT !.live = FALSE]]
      \/ ctx' = [ctx EXCEPT ![s] = [ctx[s] EXCEPT !.backend = FALSE]]
      \/ ctx' = [ctx EXCEPT ![s] = [ctx[s] EXCEPT !.shut = TRUE]]
  BY <1>1 DEF Release, AbortBody
<1>5. PICK x : Same(x, ctx[s]) /\ ctx' = [ctx EXCEPT ![s] = x]
  BY <1>1, <1>3, <1>4
<1> QED BY <1>2, <1>5, SameIInv

\* The steps of aborts and of a handler that leaves.
LEMMA LeavingIInv ==
    ASSUME IInv, NEW s \in Sessions,
           \/ Abort(s) \/ AbortPasses(s) \/ AbortSent(s)
           \/ Leave(s) \/ LeavePasses(s) \/ LeaveReleases(s)
           \/ SenderReleases(s) \/ OutsideBegins(s) \/ OutsidePasses(s) \/ OutsideReleases(s)
    PROVE  IInv'
<1> USE DEF Abort, AbortPasses, AbortSent, Leave, LeavePasses, LeaveReleases, SenderReleases,
            OutsideBegins, OutsidePasses, OutsideReleases
<1>1. sched' = sched
  OBVIOUS
<1>2. \/ Release(s) \/ AbortBody(s) \/ UNCHANGED ctx
      \/ ctx' = [ctx EXCEPT ![s].shut = TRUE]
  OBVIOUS
<1>3. \/ pc' = pc
      \/ \E w \in {"leave", "error", "abort barrier", "abort adapter", "await", "returned",
                   "leave barrier", "leave adapter"} : pc' = [pc EXCEPT ![s] = w]
  BY DEF Raise, Go
<1>4. \/ pc' = pc
      \/ \E w : w \notin Locked /\ pc' = [pc EXCEPT ![s] = w]
  BY <1>3 DEF Locked
<1> QED BY <1>1, <1>2, <1>4, AbortIInv

\* Steps that take the protocol lock or give it back.
LEMMA LockIInv ==
    ASSUME IInv, NEW s \in Sessions,
           \/ Ingest(s) \/ IngestBlocks(s) \/ IngestTimeout(s) \/ CallAdapter(s)
           \/ AdapterRaises(s) \/ ErrorLocked(s)
    PROVE  IInv'
<1>1. /\ DOMAIN ctx[s] = CtxFields /\ Sound(ctx[s], pc[s]) /\ Same(ctx[s], ctx[s])
      /\ ctx = [ctx EXCEPT ![s] = ctx[s]]
  BY SessionFacts
<1>2. ctx[s].lock # "scheduler"
  BY <1>1 DEF Ingest, IngestBlocks, IngestTimeout, CallAdapter, AdapterRaises, ErrorLocked,
              LockFree, Sound, Locked
<1>3. UNCHANGED sched
  BY DEF Ingest, IngestBlocks, IngestTimeout, CallAdapter, AdapterRaises, ErrorLocked
<1>4. /\ Relocked(ctx[s], [ctx[s] EXCEPT !.lock = "free"], "free")
      /\ Relocked(ctx[s], [ctx[s] EXCEPT !.lock = "handler"], "handler")
      /\ Relocked(ctx[s], [ctx[s] EXCEPT !.lock = "handler", !.backend = FALSE], "handler")
  BY <1>1 DEF Relocked, CtxFields
<1>5. CASE Ingest(s)
  <2>1. PICK t \in Taken(s) :
          LET c == [ctx[s] EXCEPT !.lock = "free", !.endpoint = @ \/ t.endpoint]
              n == ScheduleNext(t.r, c, t.endpoint)
          IN  /\ IF t.raised THEN ctx' = [ctx EXCEPT ![s].lock = "free"]
                 ELSE ctx' = [ctx EXCEPT ![s] = n.c]
              /\ Go(s, IF t.raised \/ n.raised THEN "error" ELSE "receive")
    BY <1>5 DEF Ingest
  <2> DEFINE c == [ctx[s] EXCEPT !.lock = "free", !.endpoint = @ \/ t.endpoint]
             n == ScheduleNext(t.r, c, t.endpoint)
  <2>2. Relocked(ctx[s], c, "free")
    BY <1>1 DEF Relocked, CtxFields
  <2>3. Same(n.c, c)
    BY <2>2, ScheduleNextSame DEF Relocked
  <2>4. /\ \/ ctx' = [ctx EXCEPT ![s] = [ctx[s] EXCEPT !.lock = "free"]]
           \/ ctx' = [ctx EXCEPT ![s] = n.c]
        /\ \E w \in {"error", "receive"} : pc' = [pc EXCEPT ![s] = w]
    BY <2>1 DEF Go
  <2> HIDE DEF n, c
  <2>5. Relocked(ctx[s], n.c, "free")
    BY <2>2, <2>3 DEF Relocked, Same
  <2>6. PICK w : w \notin Locked /\ pc' = [pc EXCEPT ![s] = w]
    BY <2>4 DEF Locked
  <2>7. w # "error adapter"
    BY <2>6 DEF Locked
  <2> QED BY <1>2, <1>3, <1>4, <2>4, <2>5, <2>6, <2>7, RelockIInv
<1>6. CASE IngestBlocks(s) \/ IngestTimeout(s) \/ AdapterRaises(s)
  <2>1. \/ /\ ctx' = [ctx EXCEPT ![s] = [ctx[s] EXCEPT !.lock = "handler"]]
           /\ pc' = [pc EXCEPT ![s] = "blocked"]
        \/ /\ ctx' = [ctx EXCEPT ![s] = [ctx[s] EXCEPT !.lock = "free"]]
           /\ \E w \in {"error", "leave"} : pc' = [pc EXCEPT ![s] = w]
    BY <1>6 DEF IngestBlocks, IngestTimeout, AdapterRaises, Raise, Go
  <2>2. CASE /\ ctx' = [ctx EXCEPT ![s] = [ctx[s] EXCEPT !.lock = "handler"]]
             /\ pc' = [pc EXCEPT ![s] = "blocked"]
    BY <1>2, <1>3, <1>4, <2>2, RelockIInv
  <2>3. ASSUME ctx' = [ctx EXCEPT ![s] = [ctx[s] EXCEPT !.lock = "free"]],
               NEW w \in {"error", "leave"}, pc' = [pc EXCEPT ![s] = w]
        PROVE  IInv'
    <3>1. w \notin Locked /\ w # "error adapter"
      BY DEF Locked
    <3> QED BY <1>2, <1>3, <1>4, <2>3, <3>1, RelockIInv
  <2> QED BY <2>1, <2>2, <2>3
<1>7. CASE CallAdapter(s)
  <2>1. \/ /\ ctx' = [ctx EXCEPT ![s] = [ctx[s] EXCEPT !.lock = "handler"]]
           /\ \E w \in {"segment adapter", "finish adapter"} : pc' = [pc EXCEPT ![s] = w]
        \/ /\ ctx' = [ctx EXCEPT ![s] = ctx[s]]
           /\ \E w \in {"error", "leave"} : pc' = [pc EXCEPT ![s] = w]
    BY <1>1, <1>7 DEF CallAdapter, Raise, Go
  <2>2. ASSUME ctx' = [ctx EXCEPT ![s] = [ctx[s] EXCEPT !.lock = "handler"]],
               NEW w \in {"segment adapter", "finish adapter"}, pc' = [pc EXCEPT ![s] = w]
        PROVE  IInv'
    <3>1. w # "error adapter"
      OBVIOUS
    <3> QED BY <1>2, <1>3, <1>4, <2>2, <3>1, RelockIInv
  <2>3. ASSUME ctx' = [ctx EXCEPT ![s] = ctx[s]],
               NEW w \in {"error", "leave"}, pc' = [pc EXCEPT ![s] = w]
        PROVE  IInv'
    <3>1. w \notin Locked
      BY DEF Locked
    <3> QED BY <1>1, <1>3, <2>3, <3>1, SameIInv
  <2> QED BY <2>1, <2>2, <2>3
<1>8. CASE ErrorLocked(s)
  <2>1. \/ /\ ctx' = [ctx EXCEPT ![s] = ctx[s]]
           /\ pc' = [pc EXCEPT ![s] = "await"]
        \/ /\ ~ctx[s].terminal
           /\ ctx' = [ctx EXCEPT ![s] = [ctx[s] EXCEPT !.lock = "handler", !.backend = FALSE]]
           /\ pc' = [pc EXCEPT ![s] = "error adapter"]
    BY <1>1, <1>8 DEF ErrorLocked, Go
  <2>2. "await" \notin Locked
    BY DEF Locked
  <2>3. CASE /\ ctx' = [ctx EXCEPT ![s] = ctx[s]]
             /\ pc' = [pc EXCEPT ![s] = "await"]
    BY <1>1, <1>3, <2>2, <2>3, SameIInv
  <2>4. CASE /\ ~ctx[s].terminal
             /\ ctx' = [ctx EXCEPT ![s] = [ctx[s] EXCEPT !.lock = "handler", !.backend = FALSE]]
             /\ pc' = [pc EXCEPT ![s] = "error adapter"]
    BY <1>2, <1>3, <1>4, <2>4, RelockIInv
  <2> QED BY <2>1, <2>3, <2>4
<1> QED BY <1>5, <1>6, <1>7, <1>8

\* Steps that put the handler's events into the outbound queue.
LEMMA EventIInv ==
    ASSUME IInv, NEW s \in Sessions, SegmentReturns(s) \/ FinishReturns(s) \/ ErrorSent(s)
    PROVE  IInv'
<1>1. DOMAIN ctx[s] = CtxFields /\ Sound(ctx[s], pc[s])
  BY SessionFacts
<1>2. /\ pc[s] \in {"segment adapter", "finish adapter", "error adapter"}
      /\ ctx[s].lock = "handler" /\ UNCHANGED sched
  BY <1>1 DEF SegmentReturns, FinishReturns, ErrorSent, Sound, Locked
<1>3. ~ctx[s].terminal => ctx[s].last = 0 /\ ctx[s].late = FALSE
  BY <1>1 DEF Sound
<1>4. CASE SegmentReturns(s)
  <2> DEFINE c == [ctx[s] EXCEPT !.lock = "free"]
  <2>1. Relocked(ctx[s], c, "free")
    BY <1>1 DEF Relocked, CtxFields
  <2>2. \/ c.terminal /\ ctx' = [ctx EXCEPT ![s] = c] /\ pc' = [pc EXCEPT ![s] = "leave"]
        \/ ~c.terminal /\ ctx' = [ctx EXCEPT ![s] = Event(c)] /\ pc' = [pc EXCEPT ![s] = "receive"]
    BY <1>4 DEF SegmentReturns, Raise, Go
  <2> HIDE DEF c
  <2>3. ~c.terminal => Same(Event(c), c)
    BY <1>3, <2>1, EventSound DEF Relocked
  <2>4. Sound(c, "leave") /\ (~c.terminal => Sound(Event(c), "receive"))
    BY <1>1, <2>1, <2>3 DEF Sound, Relocked, Same, Locked
  <2> QED BY <1>2, <2>2, <2>4, SessionIInv
<1>5. CASE FinishReturns(s)
  <2> DEFINE c == [ctx[s] EXCEPT !.lock = "free", !.backend = FALSE]
             x == [c EXCEPT !.terminal = TRUE]
  <2>1. Relocked(ctx[s], c, "free")
    BY <1>1 DEF Relocked, CtxFields
  <2>2. \/ ~c.terminal /\ ctx' = [ctx EXCEPT ![s] = TerminalEvent(c)] /\ pc' = [pc EXCEPT ![s] = "await"]
        \/ ctx' = [ctx EXCEPT ![s] = x] /\ pc' = [pc EXCEPT ![s] = "leave"]
    BY <1>5 DEF FinishReturns, Go
  <2> HIDE DEF c
  <2>3. ~c.terminal => Sound(TerminalEvent(c), "await")
    BY <1>3, <2>1, EventSound DEF Relocked, Sound, Locked
  <2>4. Sound(x, "leave")
    BY <1>1, <2>1 DEF Sound, Relocked, Locked, CtxFields
  <2> HIDE DEF x
  <2> QED BY <1>2, <2>2, <2>3, <2>4, SessionIInv
<1>6. CASE ErrorSent(s)
  <2> DEFINE e == TerminalEvent(ctx[s])
             x == [e EXCEPT !.lock = "free"]
  <2>1. ~ctx[s].terminal
    BY <1>1, <1>6 DEF ErrorSent, Sound
  <2>2. /\ DOMAIN e = CtxFields /\ e.terminal = TRUE /\ e.last = 1 /\ e.late = FALSE
    BY <1>1, <1>3, <2>1, EventSound
  <2>3. ctx' = [ctx EXCEPT ![s] = x] /\ pc' = [pc EXCEPT ![s] = "await"]
    BY <1>6 DEF ErrorSent, Go
  <2> HIDE DEF e
  <2>4. Sound(x, "await")
    BY <2>2 DEF Sound, Locked, CtxFields
  <2> HIDE DEF x
  <2> QED BY <1>2, <2>3, <2>4, SessionIInv
<1> QED BY <1>4, <1>5, <1>6

-----------------------------------------------------------------------------
(* The scheduler *)

\* The scheduler goes on to its next result or back to its scan.
LEMMA DoneFacts ==
    ASSUME IInv, Done
    PROVE  DOMAIN sched' = SchedFields /\ sched'.at \notin {"failing", "segmenting"}
<1>1. DOMAIN sched = SchedFields
  BY DEF IInv
<1>2. ASSUME NEW b, NEW f
      PROVE  /\ DOMAIN NextResult(b, f) = SchedFields
             /\ NextResult(b, f).at \in {"settle", "publish", "scan"}
  BY <1>1 DEF NextResult, SchedFields
<1>3. \E b, f : sched' = NextResult(b, f)
  BY DEF Done
<1> QED BY <1>2, <1>3

\* Steps of the scheduler that touch no context.
LEMMA QuietSchedulerIInv ==
    ASSUME IInv,
           \/ (\E i \in DOMAIN queue : Expire(i)) \/ Dispatch \/ Rest \/ WakeUp \/ Stop
           \/ SubmitReturns \/ SubmitFails \/ Settle \/ CloseScheduler \/ UNCHANGED vars
    PROVE  IInv'
<1>1. DOMAIN sched = SchedFields
  BY DEF IInv
<1>2. UNCHANGED <<ctx, pc>>
  BY DEF Expire, Dispatch, Rest, WakeUp, Stop, SubmitReturns, SubmitFails, Settle,
         CloseScheduler, tasks, vars
<1>3. CASE UNCHANGED vars
  BY <1>1, <1>2, <1>3, SchedulerQuietIInv DEF vars
<1>4. CASE CloseScheduler
  <2>1. /\ DOMAIN sched' = SchedFields /\ sched'.at = sched.at /\ sched'.batch = sched.batch
        /\ sched'.failures = sched.failures
    BY <1>1, <1>4 DEF CloseScheduler, SchedFields
  <2> QED BY <1>2, <2>1, SchedulerQuietIInv
<1>5. CASE Settle
  <2>1. sched' = [sched EXCEPT !.at = "publish"] \/ Done
    BY <1>5 DEF Settle
  <2>2. DOMAIN sched' = SchedFields /\ sched'.at \notin {"failing", "segmenting"}
    BY <1>1, <2>1, DoneFacts DEF SchedFields
  <2> QED BY <1>2, <2>2, SchedulerQuietIInv
<1>6. CASE \/ (\E i \in DOMAIN queue : Expire(i)) \/ Dispatch \/ Rest \/ WakeUp \/ Stop
           \/ SubmitReturns \/ SubmitFails
  <2>1. DOMAIN sched' = SchedFields /\ sched'.at \notin {"failing", "segmenting"}
    <3>1. CASE \E i \in DOMAIN queue : Expire(i)
      BY <1>1, <3>1 DEF Expire, SchedFields
    <3>2. CASE Dispatch
      <4>1. \E b : sched' = [sched EXCEPT !.at = "submit", !.batch = b]
        BY <3>2 DEF Dispatch
      <4> QED BY <1>1, <4>1 DEF SchedFields
    <3>3. CASE Rest \/ WakeUp \/ Stop
      BY <1>1, <3>3 DEF Rest, WakeUp, Stop, SchedFields
    <3>4. CASE SubmitReturns \/ SubmitFails
      BY <1>1, <3>4 DEF SubmitReturns, SubmitFails, SchedFields
    <3> QED BY <1>6, <3>1, <3>2, <3>3, <3>4
  <2> QED BY <1>2, <2>1, SchedulerQuietIInv
<1> QED BY <1>3, <1>4, <1>5, <1>6

\* What is known of the session whose result is published: with the lock free
\* and its protocol not ended, or with the lock in the scheduler's hands.
LEMMA PublishFacts ==
    ASSUME IInv, NEW s \in Sessions, ctx[s].lock \in {"free", "scheduler"}
    PROVE  /\ DOMAIN ctx[s] = CtxFields /\ pc[s] \notin Locked
           /\ ctx[s].last \in {0, 1} /\ ctx[s].late = FALSE /\ ctx[s].terminal \in BOOLEAN
           /\ ~ctx[s].terminal => ctx[s].last = 0
           /\ ctx[s].last = 1 => ctx[s].terminal
BY SessionFacts DEF Sound

\* A protocol that goes on, with its handler not at the lock.
LEMMA OpenSound ==
    ASSUME NEW x, NEW w, DOMAIN x = CtxFields, x.last = 0, x.late = FALSE, x.terminal = FALSE,
           w \notin Locked
    PROVE  Sound(x, w)
<1>1. x.last \in {0, 1} /\ ~(x.last = 1)
  <2>1. 0 \in {0, 1} /\ 0 # 1
    OBVIOUS
  <2> QED BY <2>1
<1>2. x.terminal \in BOOLEAN /\ ~x.terminal
  OBVIOUS
<1>3. w # "error adapter"
  BY Zenon DEF Locked
<1> QED BY <1>1, <1>2, <1>3, Zenon DEF Sound

\* The result of a released or stale session: nothing is published.
LEMMA PublishNothingIInv == ASSUME IInv, PublishNothing PROVE IInv'
<1> DEFINE s == Current.of
           x == [ctx[s] EXCEPT !.idle = TRUE]
<1>1. DOMAIN sched' = SchedFields /\ sched'.at \notin {"failing", "segmenting"}
  BY DoneFacts DEF PublishNothing
<1>2. UNCHANGED pc /\ (UNCHANGED ctx \/ (ctx[s].lock = "free" /\ ctx' = [ctx EXCEPT ![s] = x]))
  BY DEF PublishNothing, tasks, LockFree
<1>3. CASE UNCHANGED ctx
  BY <1>1, <1>2, <1>3, SchedulerQuietIInv
<1>4. CASE ctx[s].lock = "free" /\ ctx' = [ctx EXCEPT ![s] = x]
  <2>1. s \in Sessions => Sound(x, pc[s])
    BY SessionFacts DEF Sound, CtxFields
  <2> HIDE DEF s, x
  <2> QED BY <1>1, <1>2, <1>4, <2>1, SchedulerIInv
<1> QED BY <1>2, <1>3, <1>4

\* A failed job ends its session: the adapter's abort, under the lock.
LEMMA PublishErrorIInv == ASSUME IInv, PublishError PROVE IInv'
<1> DEFINE s == Current.of
           x == [ctx[s] EXCEPT !.lock = "scheduler", !.backend = FALSE]
<1>1. /\ ctx[s].lock = "free" /\ ~ctx[s].terminal /\ UNCHANGED pc
      /\ ctx' = [ctx EXCEPT ![s].lock = "scheduler", ![s].backend = FALSE]
      /\ sched' = [sched EXCEPT !.at = "failing"]
  BY DEF PublishError, Publishes, IsStale, LockFree, tasks
<1>2. ctx' = [ctx EXCEPT ![s] = x]
  <2>1. CASE s \in Sessions
    BY <1>1, <2>1 DEF IInv, Indexed
  <2>2. CASE s \notin Sessions
    BY <1>1, <2>2 DEF IInv, Indexed
  <2> QED BY <2>1, <2>2
<1>3. DOMAIN sched' = SchedFields /\ sched'.batch = sched.batch /\ sched'.failures = sched.failures
  BY <1>1 DEF IInv, SchedFields
<1>4. Current'.of = s
  BY <1>3 DEF Current
<1>5. s \in Sessions => Sound(x, pc[s]) /\ x.lock = "scheduler" /\ ~x.terminal
  <2> SUFFICES ASSUME s \in Sessions
               PROVE  Sound(x, pc[s]) /\ x.lock = "scheduler" /\ ~x.terminal
    OBVIOUS
  <2> HIDE DEF s
  <2>1. /\ DOMAIN ctx[s] = CtxFields /\ pc[s] \notin Locked /\ ctx[s].last \in {0, 1}
        /\ ctx[s].late = FALSE /\ ctx[s].terminal \in BOOLEAN
        /\ ctx[s].last = 1 => ctx[s].terminal
    BY <1>1, PublishFacts
  <2> QED BY <1>1, <2>1 DEF Sound, CtxFields, Locked
<1> HIDE DEF s, x
<1> QED BY <1>1, <1>2, <1>3, <1>4, <1>5, SchedulerIInv

\* The scheduler's error event: the lock kept everybody else from ending the
\* protocol first.
LEMMA ErrorPublishedIInv == ASSUME IInv, ErrorPublished PROVE IInv'
<1> DEFINE s == Current.of
           e == TerminalEvent(ctx[s])
           x == [e EXCEPT !.lock = "free", !.idle = TRUE]
<1>1. UNCHANGED pc /\ ctx' = [ctx EXCEPT ![s] = x] /\ sched.at = "failing"
  BY DEF ErrorPublished, tasks
<1>2. DOMAIN sched' = SchedFields /\ sched'.at \notin {"failing", "segmenting"}
  BY DoneFacts DEF ErrorPublished
<1>3. s \in Sessions => Sound(x, pc[s])
  <2> SUFFICES ASSUME s \in Sessions PROVE Sound(x, pc[s])
    OBVIOUS
  <2>1. ctx[s].lock = "scheduler" /\ ~ctx[s].terminal
    BY <1>1 DEF IInv, SchedulerLocks
  <2> HIDE DEF s
  <2>2. DOMAIN ctx[s] = CtxFields /\ pc[s] \notin Locked /\ ctx[s].last = 0 /\ ctx[s].late = FALSE
    BY <2>1, PublishFacts
  <2>3. DOMAIN e = CtxFields /\ e.terminal = TRUE /\ e.last = 1 /\ e.late = FALSE
    BY <2>2, EventSound
  <2> HIDE DEF e
  <2> QED BY <2>2, <2>3 DEF Sound, Locked, CtxFields
<1> HIDE DEF s, x
<1> QED BY <1>1, <1>2, <1>3, SchedulerIInv

\* An exception of _apply_result leaves the lock.
LEMMA RepairsIInv ==
    ASSUME IInv, NEW s, NEW c, Repairs(s, c), UNCHANGED pc,
           s \in Sessions => Sound([c EXCEPT !.lock = "free"], pc[s])
    PROVE  IInv'
<1>1. ctx' = [ctx EXCEPT ![s] = [c EXCEPT !.lock = "free"]]
  BY DEF Repairs
<1>2. DOMAIN sched' = SchedFields /\ sched'.at \notin {"failing", "segmenting"}
  BY DEF IInv, Repairs, SchedFields
<1> QED BY <1>1, <1>2, SchedulerIInv

\* The end of _apply_result_locked, for a protocol that has not ended.
LEMMA ApplyEndsIInv ==
    ASSUME IInv, NEW s, NEW r, NEW c, NEW force, ApplyEnds(s, r, c, force), UNCHANGED pc,
           s \in Sessions => /\ DOMAIN c = CtxFields /\ pc[s] \notin Locked
                             /\ c.last = 0 /\ c.late = FALSE /\ c.terminal = FALSE
    PROVE  IInv'
<1> DEFINE n == ScheduleNext(r, c, force \/ c.endpoint \/ r.finishReq)
           last == [n.c EXCEPT !.idle = @ \/ (~n.put /\ Drained(n.r)), !.lock = "free"]
<1>1. \/ Repairs(s, n.c)
      \/ ctx' = [ctx EXCEPT ![s] = Event(last)] /\ Done
  BY DEF ApplyEnds
<1>2. s \in Sessions => Same(n.c, c)
  BY ScheduleNextSame
<1> HIDE DEF n
<1>3. s \in Sessions => /\ DOMAIN last = CtxFields /\ last.last = 0 /\ last.late = FALSE
                        /\ last.terminal = FALSE /\ last.lock = "free"
  BY <1>2 DEF Same, CtxFields
<1>4. s \in Sessions => Sound([n.c EXCEPT !.lock = "free"], pc[s])
  <2> DEFINE x == [n.c EXCEPT !.lock = "free"]
  <2>1. s \in Sessions => /\ DOMAIN x = CtxFields /\ x.last = 0 /\ x.late = FALSE
                          /\ x.terminal = FALSE
    BY <1>2 DEF Same, CtxFields
  <2> HIDE DEF x
  <2>2. s \in Sessions => Sound(x, pc[s])
    BY <2>1, OpenSound
  <2> QED BY <2>2 DEF x
<1> HIDE DEF last
<1>5. CASE Repairs(s, n.c)
  BY <1>4, <1>5, RepairsIInv
<1>6. CASE ctx' = [ctx EXCEPT ![s] = Event(last)] /\ Done
  <2>1. s \in Sessions => Same(Event(last), last)
    BY <1>3, EventSound
  <2>2. s \in Sessions => Sound(Event(last), pc[s])
    BY <1>3, <2>1, OpenSound DEF Same
  <2>3. DOMAIN sched' = SchedFields /\ sched'.at \notin {"failing", "segmenting"}
    BY <1>6, DoneFacts
  <2> QED BY <1>6, <2>2, <2>3, SchedulerIInv
<1> QED BY <1>1, <1>5, <1>6

\* A partial result is published.
LEMMA PublishTextIInv == ASSUME IInv, PublishText PROVE IInv'
<1> DEFINE s == Current.of
<1>1. /\ ctx[s].lock = "free" /\ ~ctx[s].terminal /\ UNCHANGED pc
      /\ ApplyEnds(s, ses[s], ctx[s], FALSE)
  BY DEF PublishText, Publishes, IsStale, LockFree, tasks
<1> HIDE DEF s
<1>2. s \in Sessions => /\ DOMAIN ctx[s] = CtxFields /\ pc[s] \notin Locked
                        /\ ctx[s].last = 0 /\ ctx[s].late = FALSE /\ ctx[s].terminal = FALSE
  BY <1>1, PublishFacts
<1> QED BY <1>1, <1>2, ApplyEndsIInv

\* A result that ends a segment, up to the adapter's finish_segment.
LEMMA PublishSegmentIInv == ASSUME IInv, PublishSegment PROVE IInv'
<1> DEFINE s == Current.of
           n == ScheduleNext(ses[s], ctx[s], TRUE)
           x == [ctx[s] EXCEPT !.lock = "scheduler"]
<1>1. /\ ctx[s].lock = "free" /\ ~ctx[s].terminal /\ UNCHANGED pc
      /\ \/ Repairs(s, n.c)
         \/ ctx' = [ctx EXCEPT ![s] = Event(n.c)] /\ Done
         \/ /\ ctx' = [ctx EXCEPT ![s].lock = "scheduler"]
            /\ sched' = [sched EXCEPT !.at = "segmenting"]
  BY DEF PublishSegment, Publishes, IsStale, LockFree, tasks
<1>2. s \in Sessions => /\ DOMAIN ctx[s] = CtxFields /\ pc[s] \notin Locked
                        /\ ctx[s].last = 0 /\ ctx[s].late = FALSE /\ ctx[s].terminal = FALSE
  <2> HIDE DEF s
  <2> QED BY <1>1, PublishFacts
<1>3. s \in Sessions => Same(n.c, ctx[s])
  BY <1>2, ScheduleNextSame
<1> HIDE DEF n
<1>4. CASE Repairs(s, n.c)
  <2> DEFINE y == [n.c EXCEPT !.lock = "free"]
  <2> HIDE DEF s
  <2>0. s \in Sessions => /\ DOMAIN y = CtxFields /\ y.last = 0 /\ y.late = FALSE
                          /\ y.terminal = FALSE
    BY <1>2, <1>3 DEF Same, CtxFields
  <2> HIDE DEF y
  <2>1. s \in Sessions => Sound(y, pc[s])
    BY <1>2, <2>0, OpenSound
  <2> USE DEF y
  <2> QED BY <1>1, <1>4, <2>1, RepairsIInv
<1>5. CASE ctx' = [ctx EXCEPT ![s] = Event(n.c)] /\ Done
  <2> HIDE DEF s
  <2>1. s \in Sessions => Same(Event(n.c), n.c)
    <3>1. s \in Sessions => DOMAIN n.c = CtxFields /\ n.c.last = 0 /\ n.c.late = FALSE
      BY <1>2, <1>3 DEF Same
    <3> QED BY <3>1, EventSound
  <2>2. s \in Sessions => Sound(Event(n.c), pc[s])
    BY <1>2, <1>3, <2>1, OpenSound DEF Same
  <2>3. DOMAIN sched' = SchedFields /\ sched'.at \notin {"failing", "segmenting"}
    BY <1>5, DoneFacts
  <2> QED BY <1>1, <1>5, <2>2, <2>3, SchedulerIInv
<1>6. CASE /\ ctx' = [ctx EXCEPT ![s].lock = "scheduler"]
           /\ sched' = [sched EXCEPT !.at = "segmenting"]
  <2>1. ctx' = [ctx EXCEPT ![s] = x]
    BY <1>6
  <2>2. /\ DOMAIN sched' = SchedFields /\ sched'.batch = sched.batch
        /\ sched'.failures = sched.failures
    BY <1>6 DEF IInv, SchedFields
  <2>3. Current'.of = s
    BY <2>2 DEF Current
  <2> HIDE DEF s
  <2>4. s \in Sessions => /\ DOMAIN x = CtxFields /\ x.last = 0 /\ x.late = FALSE
                          /\ x.terminal = FALSE /\ x.lock = "scheduler"
    BY <1>2 DEF CtxFields
  <2> HIDE DEF x
  <2>5. s \in Sessions => Sound(x, pc[s])
    BY <1>2, <2>4, OpenSound
  <2> QED BY <1>1, <2>1, <2>2, <2>3, <2>4, <2>5, SchedulerIInv
<1> QED BY <1>1, <1>4, <1>5, <1>6

\* The adapter has finished the segment, or has raised.
LEMMA SegmentEndsIInv == ASSUME IInv, SegmentEnds \/ SegmentRaises PROVE IInv'
<1> DEFINE s == Current.of
           c == [ctx[s] EXCEPT !.lock = "free"]
<1>1. sched.at = "segmenting" /\ UNCHANGED pc
  BY DEF SegmentEnds, SegmentRaises, tasks
<1>2. s \in Sessions => ctx[s].lock = "scheduler" /\ ~ctx[s].terminal
  BY <1>1 DEF IInv, SchedulerLocks
<1>3. s \in Sessions => /\ DOMAIN ctx[s] = CtxFields /\ pc[s] \notin Locked
                        /\ ctx[s].last = 0 /\ ctx[s].late = FALSE /\ ctx[s].terminal = FALSE
  <2> HIDE DEF s
  <2> QED BY <1>2, PublishFacts
<1>4. s \in Sessions => /\ DOMAIN c = CtxFields /\ c.last = 0 /\ c.late = FALSE
                        /\ c.terminal = FALSE /\ Sound(c, pc[s])
  <2> HIDE DEF s
  <2>1. s \in Sessions => /\ DOMAIN c = CtxFields /\ c.last = 0 /\ c.late = FALSE
                          /\ c.terminal = FALSE
    BY <1>3 DEF CtxFields
  <2> HIDE DEF c
  <2> QED BY <1>3, <2>1, OpenSound
<1>5. \/ SegmentRaises /\ Repairs(s, ctx[s])
      \/ \E r, force : ApplyEnds(s, r, c, force)
      \/ \E e : Repairs(s, [c EXCEPT !.endpoint = e])
      \/ \E r, force, e : ApplyEnds(s, r, [c EXCEPT !.endpoint = e], force)
  BY DEF SegmentEnds, SegmentRaises
<1>6. CASE Repairs(s, ctx[s])
  <2> HIDE DEF s
  <2> QED BY <1>1, <1>4, <1>6, RepairsIInv
<1> HIDE DEF s, c
<1>7. CASE \E r, force : ApplyEnds(s, r, c, force)
  BY <1>1, <1>3, <1>4, <1>7, ApplyEndsIInv
<1>8. ASSUME NEW e
      PROVE  s \in Sessions =>
               LET x == [c EXCEPT !.endpoint = e] IN
               /\ DOMAIN x = CtxFields /\ x.last = 0 /\ x.late = FALSE /\ x.terminal = FALSE
               /\ Sound([x EXCEPT !.lock = "free"], pc[s])
  BY <1>3, <1>4 DEF CtxFields, Sound, Locked
<1>9. CASE \E e : Repairs(s, [c EXCEPT !.endpoint = e])
  BY <1>1, <1>8, <1>9, RepairsIInv
<1>10. CASE \E r, force, e : ApplyEnds(s, r, [c EXCEPT !.endpoint = e], force)
  BY <1>1, <1>3, <1>8, <1>10, ApplyEndsIInv
<1> QED BY <1>5, <1>6, <1>7, <1>9, <1>10

-----------------------------------------------------------------------------
(* The specification *)

\* Every step preserves the invariant.
LEMMA NextIInv == ASSUME IInv, [Next]_vars PROVE IInv'
<1>1. CASE SchedulerStep \/ CloseScheduler \/ UNCHANGED vars
  BY <1>1, QuietSchedulerIInv, PublishNothingIInv, PublishErrorIInv, ErrorPublishedIInv,
     PublishTextIInv, PublishSegmentIInv, SegmentEndsIInv DEF SchedulerStep
<1>2. ASSUME NEW s \in Sessions,
             \/ ClientStep(s) \/ HandlerStep(s) \/ SenderReleases(s)
             \/ OutsideBegins(s) \/ OutsideStep(s)
      PROVE  IInv'
  BY <1>2, PlainIInv, DecodesIInv, LeavingIInv, LockIInv, EventIInv
     DEF ClientStep, HandlerStep, OutsideStep
<1> QED BY <1>1, <1>2 DEF Next

\* The inductive invariant holds in every state.
LEMMA InductiveInvariant == Spec => []IInv
BY InitIInv, NextIInv, PTL DEF Spec

\* A session gets one terminal event (a final result of finish, an error of the
\* handler or of the scheduler), and nothing is enqueued behind it, however the
\* commands, results, faults and aborts of all sessions interleave: each side
\* looks at protocol.terminal and makes its event inside one critical section of
\* protocol_lock, over the adapter call in between.
THEOREM TerminalIsLast == Spec => []TerminalEventIsLast
<1>1. ASSUME IInv, NEW s \in Sessions PROVE ctx[s].last <= 1 /\ ~ctx[s].late
  <2>1. ctx[s].last \in {0, 1} /\ ctx[s].late = FALSE
    BY <1>1 DEF IInv, Sound
  <2> QED BY <2>1
<1>2. IInv => TerminalEventIsLast
  BY <1>1 DEF TerminalEventIsLast
<1> QED BY <1>2, InductiveInvariant, PTL

-----------------------------------------------------------------------------
(* Jobs and reservations: the invariant *)

\* A job of the first generation: the only one that has jobs, since a session
\* whose generation has changed has no audio any more.
Job ==
    {j \in [of : Sessions, gen : {1}, seq : Nat, start : Nat, end : Nat, final : BOOLEAN] :
        j.seq # 0 /\ j.start < j.end}

\* The session is over: nothing is buffered, reserved or accepted any more.
Over(r) == r.gen # 1 \/ r.state = "succeeded"

\* Where a handler is once finish was requested, and once it gives up its session.
Leaving == {"leave", "leave barrier", "leave adapter", "returned"}
AfterFinish ==
    {"finish", "finish wait", "finish adapter", "error", "error barrier", "error lock",
     "error adapter", "await"} \cup Leaving

\* A reservation is inside the buffer and the session is not idle.
ReservationOK(r, x) ==
    /\ r.res.seq # 0
    /\ r.res.gen = r.gen
    /\ r.res.start < r.res.end
    /\ r.res.end - r.res.start <= r.data
    /\ ~x.idle

\* One session: its record r, its context x, its handler at w, h samples in its
\* VAD and an abort from outside at o.
Owner(r, x, w, h, o) ==
    /\ r \in SessionType /\ h \in Nat /\ r.gen # 0 /\ r.nextSeq # 0
    /\ x.endpoint \in BOOLEAN
    /\ InFlight(r) => ReservationOK(r, x)
    /\ r.finishReq => w \in AfterFinish /\ h = 0
    /\ w \in {"finish", "finish wait", "finish adapter"} => r.finishReq
    /\ r.state \in {"aborted", "failed"} => r.gen # 1
    /\ r.state = "succeeded" => r.finishReq
    /\ ~x.live => r.gen # 1
    /\ Over(r) => /\ r.data = 0 /\ ~InFlight(r) /\ ~x.backend
                  /\ r.state \in EndedStates \/ r.finishReq
    /\ ~x.backend => Over(r) \/ x.terminal
    /\ x.terminal => Over(r) \/ (w \in Leaving /\ ~InFlight(r))
    /\ w \in {"leave adapter", "abort adapter", "error adapter"} => Over(r)
    /\ o = "adapter" \/ x.last = 1 \/ x.shut => Over(r)
    /\ w = "finish adapter" => x.idle

Owners ==
    /\ ses = [s \in Sessions |-> ses[s]]
    /\ held = [s \in Sessions |-> held[s]]
    /\ outside = [s \in Sessions |-> outside[s]]
    /\ \A s \in Sessions : Owner(ses[s], ctx[s], pc[s], held[s], outside[s])

\* The submitted batch has no job of session s.
NotSubmitted(s) == sched.at = "submit" => \A j \in Range(sched.batch) : j.of # s

\* Whoever waits to abort a session has cancelled its jobs, and behind the barrier
\* none of them is in the worker's hands.
Cancelling == {"error barrier", "error lock", "abort barrier", "leave barrier"}
Barriers ==
    \A s \in Sessions :
        /\ pc[s] \in Cancelling \/ outside[s] = "barrier" =>
             ses[s].gen # 1 \/ <<s, 1>> \in cancelled
        /\ pc[s] = "error lock" /\ ses[s].gen = 1 => NotSubmitted(s)

\* The scheduler's own lists, by the place its task is at.
Publishing == {"publish", "repair", "segmenting", "failing"}
SchedulerLists ==
    /\ sched.batch \in Seq(Job) /\ sched.failures \in Seq(Job)
    /\ Unique(sched.batch)
    /\ \A j \in Range(sched.batch) : Key(j) \in accepted
    /\ sched.at \in {"scan", "asleep", "stopped", "submit", "settle"} \cup Publishing
    /\ sched.at \in {"scan", "asleep", "stopped"} => sched.batch = <<>> /\ sched.failures = <<>>
    /\ sched.at \in {"submit", "settle"} => sched.batch # <<>>
    /\ sched.at \in Publishing => sched.batch # <<>> \/ sched.failures # <<>>

FailingOver == sched.at = "failing" => Over(ses[Current.of])

\* The jobs of the batch that are still to be settled.
Unsettled ==
    {sched.batch[k] : k \in {i \in DOMAIN sched.batch : i # 1 \/ sched.at \in {"submit", "settle"}}}

\* No session has two jobs, and each owns the reservation of its session.
OneJobEach ==
    /\ queue \in Seq(Job)
    /\ Unique(queue)
    /\ \A j \in Range(queue), k \in Unsettled : j.of # k.of
    /\ \A j \in Range(queue) \cup Unsettled :
        ses[j.of].gen = 1 => MatchesReservation(ses[j.of], j)

\* A session that is closed in the adapter has cancelled jobs only.
OpenInAdapter ==
    /\ \A j \in Range(queue) : ctx[j.of].backend \/ Key(j) \in cancelled
    /\ sched.at = "submit" => \A j \in Range(sched.batch) : ctx[j.of].backend

JInv ==
    /\ Owners
    /\ Barriers
    /\ SchedulerLists
    /\ FailingOver
    /\ OneJobEach
    /\ OpenInAdapter
    /\ QueueExact

\* What a job is.
LEMMA JobFacts ==
    ASSUME NEW j \in Job
    PROVE  /\ j.of \in Sessions /\ j.gen = 1 /\ j.seq \in Nat \ {0} /\ j.start \in Nat /\ j.end \in Nat
           /\ j.start < j.end /\ Size(j) \in Int /\ Key(j) = <<j.of, 1>>
BY DEF Job, Size, Key

LEMMA JobsSized == Sized(Job)
BY JobFacts DEF Sized

LEMMA InitJInv == Init => JInv
<1> SUFFICES ASSUME Init PROVE JInv
  OBVIOUS
<1>1. Owner(NewSession, NewContext, "receive", 0, "none")
  <2>1. NewSession \in SessionType
    BY DEF NewSession, SessionType, NoReservation, Reservation, LiveStates
  <2> QED BY <2>1 DEF Owner, NewSession, NewContext, InFlight, Over, Leaving
<1>2. Owners /\ Barriers
  BY <1>1 DEF Owners, Barriers, Init, Cancelling
<1>3. sched.batch = <<>> /\ sched.failures = <<>> /\ sched.at = "scan" /\ queue = <<>> /\ queued = 0
  BY DEF Init, Resting
<1>4. <<>> \in Seq(Job) /\ Unique(<<>>) /\ Range(<<>>) = {}
  BY DEF Unique, Range
<1>5. SchedulerLists /\ FailingOver
  BY <1>3, <1>4 DEF SchedulerLists, FailingOver, Publishing
<1>6. Unsettled = {}
  BY <1>3 DEF Unsettled
<1>7. OneJobEach /\ OpenInAdapter
  BY <1>3, <1>4, <1>6 DEF OneJobEach, OpenInAdapter
<1>8. QueueExact
  <2>1. SumSizes(<<>>) = 0
    BY <1>4, SumType, JobsSized
  <2> QED BY <1>3, <2>1 DEF QueueExact
<1> QED BY <1>2, <1>5, <1>7, <1>8 DEF JInv

-----------------------------------------------------------------------------
(* A step of one session *)

\* The jobs that own, or claim, a reservation.
Pending == Range(queue) \cup Unsettled

\* A session with nothing in flight has no pending job of its own generation.
LEMMA NoPending ==
    ASSUME JInv, NEW s \in Sessions, ses[s].gen = 1, ~InFlight(ses[s])
    PROVE  \A j \in Pending : j.of # s
<1> SUFFICES ASSUME NEW j \in Pending, j.of = s PROVE FALSE
  OBVIOUS
<1>1. j \in Job
  BY DEF JInv, OneJobEach, SchedulerLists, Pending, Unsettled, Range
<1>2. MatchesReservation(ses[s], j)
  BY DEF JInv, OneJobEach, Pending
<1>3. ses[s].res.seq = j.seq /\ j.seq # 0
  BY <1>1, <1>2, JobFacts DEF MatchesReservation
<1> QED BY <1>3 DEF InFlight, NoReservation

\* The record becomes r: a job of this generation keeps its reservation, and what
\* is over stays over.
Keeps(s, r) ==
    /\ r.gen = 1 => ses[s].gen = 1 /\ (r.res = ses[s].res \/ ~InFlight(ses[s]))
    /\ Over(ses[s]) => Over(r)

\* The context becomes x: the session is closed in the adapter only when no job
\* of it is submitted or can be.
KeepsOpen(s, x) ==
    /\ cancelled \subseteq cancelled'
    /\ \/ x.backend
       \/ ~ctx[s].backend
       \/ NotSubmitted(s)' /\ <<s, 1>> \in cancelled'
       \/ ses[s].gen = 1 /\ ~InFlight(ses[s])

KeepsBarrier(s, r, w, o) ==
    /\ w \in Cancelling \/ o = "barrier" => r.gen # 1 \/ <<s, 1>> \in cancelled'
    /\ w = "error lock" /\ r.gen = 1 => NotSubmitted(s)'

\* The queue stays, or gets the job of the reservation just made.
Adds(s, r, x) ==
    \/ queue' = queue /\ queued' = queued
    \/ \E j \in Job :
        /\ j.of = s /\ r.gen = 1 /\ ~InFlight(ses[s]) /\ MatchesReservation(r, j) /\ x.backend
        /\ queue' = Append(queue, j) /\ queued' = queued + Size(j)

\* The scheduler goes on with its lists.
SchedulerGoes ==
    /\ SchedulerLists'
    /\ Unsettled' \subseteq Unsettled
    /\ sched'.at = "submit" => sched.at = "submit" /\ sched'.batch = sched.batch
    /\ sched.at = "submit" => sched'.at = "submit"
    /\ sched'.at = "failing" => Over(ses'[Current'.of])

\* One session changes, under those conditions.
LEMMA StepJInv ==
    ASSUME JInv, IInv, NEW s \in Sessions, NEW r, NEW x, NEW w, NEW h, NEW o,
           Owner(r, x, w, h, o),
           ses' = [ses EXCEPT ![s] = r], ctx' = [ctx EXCEPT ![s] = x],
           pc' = [pc EXCEPT ![s] = w], held' = [held EXCEPT ![s] = h],
           outside' = [outside EXCEPT ![s] = o],
           Keeps(s, r), KeepsOpen(s, x), KeepsBarrier(s, r, w, o), Adds(s, r, x), SchedulerGoes
    PROVE  JInv'
<1>1. /\ \A t \in Sessions : ses'[t] = IF t = s THEN r ELSE ses[t]
      /\ \A t \in Sessions : held'[t] = IF t = s THEN h ELSE held[t]
      /\ \A t \in Sessions : outside'[t] = IF t = s THEN o ELSE outside[t]
      /\ ses' = [t \in Sessions |-> ses'[t]]
      /\ held' = [t \in Sessions |-> held'[t]]
      /\ outside' = [t \in Sessions |-> outside'[t]]
  BY DEF JInv, Owners
<1>2. /\ \A t \in Sessions : ctx'[t] = IF t = s THEN x ELSE ctx[t]
      /\ \A t \in Sessions : pc'[t] = IF t = s THEN w ELSE pc[t]
  BY DEF IInv, Indexed
<1>3. Owners'
  BY <1>1, <1>2 DEF JInv, Owners
<1>4. Barriers'
  <2>1. \A t \in Sessions : NotSubmitted(t) => NotSubmitted(t)'
    BY DEF SchedulerGoes, NotSubmitted
  <2>2. ASSUME NEW t \in Sessions
        PROVE  /\ pc'[t] \in Cancelling \/ outside'[t] = "barrier" =>
                    ses'[t].gen # 1 \/ <<t, 1>> \in cancelled'
               /\ pc'[t] = "error lock" /\ ses'[t].gen = 1 => NotSubmitted(t)'
    <3>1. CASE t = s
      <4>1. ses'[t] = r /\ pc'[t] = w /\ outside'[t] = o
        BY <1>1, <1>2, <3>1
      <4> QED BY <3>1, <4>1 DEF KeepsBarrier
    <3>2. CASE t # s
      <4>1. ses'[t] = ses[t] /\ pc'[t] = pc[t] /\ outside'[t] = outside[t]
        BY <1>1, <1>2, <3>2
      <4> QED BY <2>1, <4>1 DEF JInv, Barriers, KeepsOpen
    <3> QED BY <3>1, <3>2
  <2> QED BY <2>2 DEF Barriers
<1>5. FailingOver' /\ SchedulerLists'
  BY DEF SchedulerGoes, FailingOver
<1>6. Range(queue) \subseteq Job /\ Unsettled \subseteq Job /\ queue \in Seq(Job)
  BY DEF JInv, OneJobEach, SchedulerLists, Unsettled, Range
<1>7. ASSUME NEW j \in Pending
      PROVE  /\ j.of \in Sessions
             /\ ses'[j.of].gen = 1 => MatchesReservation(ses'[j.of], j)
  <2>1. j.of \in Sessions
    BY <1>6, JobFacts DEF Pending
  <2>2. CASE j.of # s
    BY <1>1, <2>1, <2>2 DEF JInv, OneJobEach, Pending
  <2>3. CASE j.of = s /\ r.gen = 1
    <3>1. ses[s].gen = 1 /\ MatchesReservation(ses[s], j) /\ InFlight(ses[s])
      BY <2>3, NoPending DEF Keeps, JInv, OneJobEach, Pending
    <3>2. r.res = ses[s].res
      BY <2>3, <3>1 DEF Keeps
    <3> QED BY <1>1, <2>3, <3>1, <3>2 DEF MatchesReservation
  <2> QED BY <1>1, <2>1, <2>2, <2>3
<1>8. OneJobEach'
  <2>1. CASE queue' = queue
    BY <1>6, <1>7, <2>1 DEF JInv, OneJobEach, SchedulerGoes, Pending
  <2>2. ASSUME NEW j \in Job, j.of = s, r.gen = 1, ~InFlight(ses[s]), MatchesReservation(r, j),
               queue' = Append(queue, j)
        PROVE  OneJobEach'
    <3>1. \A k \in Pending : k.of # s
      BY <2>2, NoPending DEF Keeps
    <3>2. queue' \in Seq(Job) /\ Range(queue') = Range(queue) \cup {j}
      BY <1>6, <2>2, RangeAppend
    <3>3. Unique(queue')
      BY <1>6, <2>2, <3>1, UniqueAppend DEF JInv, OneJobEach, Pending
    <3>4. \A y \in Range(queue'), k \in Unsettled' : y.of # k.of
      BY <2>2, <3>1, <3>2 DEF JInv, OneJobEach, SchedulerGoes, Pending
    <3>5. \A k \in Range(queue') \cup Unsettled' : k \in Pending \/ k = j
      BY <3>2 DEF SchedulerGoes, Pending
    <3>6. ses'[j.of].gen = 1 => MatchesReservation(ses'[j.of], j)
      BY <1>1, <2>2
    <3> QED BY <1>7, <3>2, <3>3, <3>4, <3>5, <3>6 DEF OneJobEach
  <2> QED BY <2>1, <2>2 DEF Adds
<1>9. OpenInAdapter'
  <2>1. ASSUME NEW j \in Range(queue) PROVE ctx'[j.of].backend \/ Key(j) \in cancelled'
    <3>1. j.of \in Sessions /\ Key(j) = <<j.of, 1>>
      BY <1>6, JobFacts
    <3>2. CASE j.of # s
      BY <1>2, <3>1, <3>2 DEF JInv, OpenInAdapter, KeepsOpen
    <3>3. CASE j.of = s
      <4>1. ~(ses[s].gen = 1 /\ ~InFlight(ses[s]))
        BY <3>3, NoPending DEF Pending
      <4> QED BY <1>2, <3>1, <3>3, <4>1 DEF JInv, OpenInAdapter, KeepsOpen
    <3> QED BY <3>2, <3>3
  <2>2. \A j \in Range(queue') : ctx'[j.of].backend \/ Key(j) \in cancelled'
    <3>1. CASE queue' = queue
      BY <2>1, <3>1
    <3>2. ASSUME NEW j \in Job, j.of = s, x.backend, queue' = Append(queue, j)
          PROVE  \A k \in Range(queue') : ctx'[k.of].backend \/ Key(k) \in cancelled'
      <4>1. Range(queue') = Range(queue) \cup {j}
        BY <1>6, <3>2, RangeAppend
      <4> QED BY <1>2, <2>1, <3>2, <4>1
    <3> QED BY <3>1, <3>2 DEF Adds
  <2>3. ASSUME sched'.at = "submit", NEW j \in Range(sched'.batch) PROVE ctx'[j.of].backend
    <3>1. sched.at = "submit" /\ j \in Range(sched.batch) /\ j \in Unsettled
      BY <2>3 DEF SchedulerGoes, Unsettled, Range
    <3>2. j.of \in Sessions /\ ctx[j.of].backend
      BY <1>6, <3>1, JobFacts DEF JInv, OpenInAdapter
    <3>3. CASE j.of # s
      BY <1>2, <3>2, <3>3
    <3>4. CASE j.of = s
      <4>1. ~(ses[s].gen = 1 /\ ~InFlight(ses[s]))
        BY <3>1, <3>4, NoPending DEF Pending
      <4>2. ~NotSubmitted(s)'
        BY <2>3, <3>4 DEF NotSubmitted
      <4> QED BY <1>2, <3>2, <3>4, <4>1, <4>2 DEF KeepsOpen
    <3> QED BY <3>3, <3>4
  <2> QED BY <2>2, <2>3 DEF OpenInAdapter
<1>10. QueueExact'
  <2> DEFINE b == IF sched.at = "submit" THEN SumSizes(sched.batch) ELSE 0
  <2>1. b = IF sched'.at = "submit" THEN SumSizes(sched'.batch) ELSE 0
    BY DEF SchedulerGoes
  <2>2. queued = SumSizes(queue) + b /\ b \in Int /\ SumSizes(queue) \in Int
    BY <1>6, SumType, JobsSized DEF JInv, QueueExact, SchedulerLists
  <2> HIDE DEF b
  <2>3. queued' = SumSizes(queue') + b
    <3>1. CASE queue' = queue /\ queued' = queued
      BY <2>2, <3>1
    <3>2. ASSUME NEW j \in Job, queue' = Append(queue, j), queued' = queued + Size(j)
          PROVE  queued' = SumSizes(queue') + b
      <4>1. SumSizes(queue') = SumSizes(queue) + Size(j) /\ Size(j) \in Int
        BY <1>6, <3>2, SumAppend, JobsSized, JobFacts
      <4> QED BY <2>2, <3>2, <4>1
    <3> QED BY <3>1, <3>2 DEF Adds
  <2> QED BY <2>1, <2>3 DEF QueueExact
<1> QED BY <1>3, <1>4, <1>5, <1>8, <1>9, <1>10 DEF JInv

\* What the invariant says of one session.
LEMMA OwnerOf ==
    ASSUME JInv, IInv, NEW s \in Sessions
    PROVE  /\ Owner(ses[s], ctx[s], pc[s], held[s], outside[s])
           /\ DOMAIN ctx[s] = CtxFields
           /\ ses = [ses EXCEPT ![s] = ses[s]] /\ ctx = [ctx EXCEPT ![s] = ctx[s]]
           /\ pc = [pc EXCEPT ![s] = pc[s]] /\ held = [held EXCEPT ![s] = held[s]]
           /\ outside = [outside EXCEPT ![s] = outside[s]]
<1>1. ses = [ses EXCEPT ![s] = ses[s]] /\ held = [held EXCEPT ![s] = held[s]]
      /\ outside = [outside EXCEPT ![s] = outside[s]]
  BY DEF JInv, Owners
<1>2. DOMAIN ctx[s] = CtxFields /\ ctx = [ctx EXCEPT ![s] = ctx[s]] /\ pc = [pc EXCEPT ![s] = pc[s]]
  BY SessionFacts
<1> QED BY <1>1, <1>2 DEF JInv, Owners

\* The scheduler does nothing that matters here.
SchedulerStays ==
    /\ sched'.at = sched.at /\ sched'.batch = sched.batch /\ sched'.failures = sched.failures
    /\ accepted' = accepted

LEMMA StaysGoes ==
    ASSUME JInv, SchedulerStays, \A t \in Sessions : Over(ses[t]) => Over(ses'[t])
    PROVE  SchedulerGoes
<1>1. Current' = Current /\ Unsettled' = Unsettled /\ SchedulerLists'
  BY DEF SchedulerStays, Current, Unsettled, JInv, SchedulerLists
<1>2. sched'.at = "failing" => Current.of \in Sessions /\ Over(ses[Current.of])
  <2> SUFFICES ASSUME sched'.at = "failing" PROVE Current.of \in Sessions /\ Over(ses[Current.of])
    OBVIOUS
  <2>1. Current \in Job
    BY DEF SchedulerStays, JInv, SchedulerLists, Publishing, Current
  <2> QED BY <2>1, JobFacts DEF SchedulerStays, JInv, FailingOver
<1> QED BY <1>1, <1>2 DEF SchedulerGoes, SchedulerStays

\* A step of a session alone.
LEMMA SessionJInv ==
    ASSUME JInv, IInv, NEW s \in Sessions, NEW r, NEW x, NEW w, NEW h, NEW o,
           Owner(r, x, w, h, o),
           ses' = [ses EXCEPT ![s] = r], ctx' = [ctx EXCEPT ![s] = x],
           pc' = [pc EXCEPT ![s] = w], held' = [held EXCEPT ![s] = h],
           outside' = [outside EXCEPT ![s] = o],
           Keeps(s, r), KeepsOpen(s, x), KeepsBarrier(s, r, w, o), Adds(s, r, x), SchedulerStays
    PROVE  JInv'
<1>1. \A t \in Sessions : Over(ses[t]) => Over(ses'[t])
  BY DEF JInv, Owners, Keeps
<1>2. SchedulerGoes
  BY <1>1, StaysGoes
<1> QED BY <1>2, StepJInv

\* Nothing that matters changes.
LEMMA QuietJInv ==
    ASSUME JInv, UNCHANGED <<ses, held, ctx, tasks, queue, queued, cancelled>>, SchedulerStays
    PROVE  JInv'
<1>1. Owners' /\ Barriers' /\ OpenInAdapter' /\ QueueExact'
  BY DEF JInv, Owners, Barriers, NotSubmitted, OpenInAdapter, QueueExact, SchedulerStays, tasks
<1>2. SchedulerLists' /\ Unsettled' = Unsettled /\ Current' = Current
  BY DEF JInv, SchedulerLists, Unsettled, Current, SchedulerStays
<1>3. FailingOver' /\ OneJobEach'
  BY <1>2 DEF JInv, FailingOver, OneJobEach, SchedulerStays
<1> QED BY <1>1, <1>2, <1>3 DEF JInv

\* The record stays and the handler moves.
LEMMA MoveJInv ==
    ASSUME JInv, IInv, NEW s \in Sessions, NEW x, NEW w,
           Owner(ses[s], x, w, held[s], outside[s]), x.backend = ctx[s].backend,
           ctx' = [ctx EXCEPT ![s] = x], pc' = [pc EXCEPT ![s] = w],
           UNCHANGED <<ses, held, outside, queue, queued, accepted, sched>>,
           cancelled \subseteq cancelled',
           w \in Cancelling => ses[s].gen # 1 \/ <<s, 1>> \in cancelled',
           w = "error lock" /\ ses[s].gen = 1 => NotSubmitted(s)
    PROVE  JInv'
<1>1. /\ ses' = [ses EXCEPT ![s] = ses[s]] /\ held' = [held EXCEPT ![s] = held[s]]
      /\ outside' = [outside EXCEPT ![s] = outside[s]]
  BY OwnerOf
<1>2. SchedulerStays /\ (NotSubmitted(s) => NotSubmitted(s)')
  BY DEF SchedulerStays, NotSubmitted
<1>3. Keeps(s, ses[s]) /\ KeepsOpen(s, x) /\ Adds(s, ses[s], x)
  BY DEF Keeps, KeepsOpen, Adds
<1>4. KeepsBarrier(s, ses[s], w, outside[s])
  BY <1>2 DEF KeepsBarrier, JInv, Barriers
<1> QED BY <1>1, <1>2, <1>3, <1>4, SessionJInv

\* The two contexts agree on what the invariant reads.
Reads(x, y) ==
    /\ x.endpoint = y.endpoint /\ x.idle = y.idle /\ x.live = y.live /\ x.backend = y.backend
    /\ x.terminal = y.terminal /\ x.last = y.last /\ x.shut = y.shut

\* A handler gets from w to v without an adapter call that finishes or aborts.
Onward(w, v) ==
    /\ w \in AfterFinish => v \in AfterFinish
    /\ w \in Leaving => v \in Leaving
    /\ v \notin {"finish", "finish wait", "finish adapter", "leave adapter", "abort adapter",
                 "error adapter"}

LEMMA OnwardOwner ==
    ASSUME NEW r, NEW x, NEW y, NEW w, NEW v, NEW h, NEW o, Owner(r, x, w, h, o), Reads(y, x),
           Onward(w, v)
    PROVE  Owner(r, y, v, h, o)
BY DEF Owner, Reads, Onward, ReservationOK

\* Steps of a handler that touch neither record nor adapter.
LEMMA PlainJInv ==
    ASSUME JInv, IInv, NEW s \in Sessions,
           \/ Frame(s) \/ Segment(s) \/ Disconnect(s) \/ Awaited(s) \/ IngestBlocks(s)
           \/ IngestTimeout(s) \/ SegmentReturns(s) \/ AdapterRaises(s)
           \/ PastDeadline(s) \/ AbortRaises(s)
    PROVE  JInv'
<1> USE DEF Frame, Segment, Disconnect, Awaited, IngestBlocks, IngestTimeout, SegmentReturns,
            AdapterRaises, PastDeadline, AbortRaises
<1>1. /\ Owner(ses[s], ctx[s], pc[s], held[s], outside[s]) /\ DOMAIN ctx[s] = CtxFields
      /\ ctx = [ctx EXCEPT ![s] = ctx[s]]
  BY OwnerOf
<1>2. UNCHANGED <<ses, held, outside, queue, queued, accepted, sched, cancelled>>
  BY DEF ready
<1>3. \E v \in {"ingest", "segment", "blocked", "receive", "leave", "error"} :
        /\ pc' = [pc EXCEPT ![s] = v]
        /\ v \in {"leave", "error"} \/ pc[s] \notin AfterFinish
        /\ v = "leave" \/ pc[s] \notin Leaving
  BY DEF Raise, Go, AfterFinish, Leaving
<1>4. PICK v : /\ v \in {"ingest", "segment", "blocked", "receive", "leave", "error"}
               /\ pc' = [pc EXCEPT ![s] = v] /\ Onward(pc[s], v)
  <2>1. PICK v \in {"ingest", "segment", "blocked", "receive", "leave", "error"} :
          /\ pc' = [pc EXCEPT ![s] = v]
          /\ v \in {"leave", "error"} \/ pc[s] \notin AfterFinish
          /\ v = "leave" \/ pc[s] \notin Leaving
    BY <1>3
  <2>2. Onward(pc[s], v)
    BY <2>1 DEF Onward, AfterFinish, Leaving
  <2> QED BY <2>1, <2>2
<1>5. PICK x : ctx' = [ctx EXCEPT ![s] = x] /\ Reads(x, ctx[s])
  <2>1. ASSUME NEW l PROVE Reads([ctx[s] EXCEPT !.lock = l], ctx[s])
    BY <1>1 DEF Reads, CtxFields
  <2>2. Reads(Event([ctx[s] EXCEPT !.lock = "free"]), ctx[s])
    BY <1>1 DEF Reads, CtxFields, Event
  <2>3. Reads(ctx[s], ctx[s])
    BY DEF Reads
  <2>4. \/ ctx' = ctx \/ (\E l : ctx' = [ctx EXCEPT ![s] = [ctx[s] EXCEPT !.lock = l]])
        \/ ctx' = [ctx EXCEPT ![s] = Event([ctx[s] EXCEPT !.lock = "free"])]
    OBVIOUS
  <2> QED BY <1>1, <2>1, <2>2, <2>3, <2>4
<1>6. Owner(ses[s], x, v, held[s], outside[s])
  BY <1>1, <1>4, <1>5, OnwardOwner
<1>7. x.backend = ctx[s].backend /\ v \notin Cancelling /\ v # "error lock"
  BY <1>4, <1>5 DEF Reads, Cancelling
<1> HIDE DEF Frame, Segment, Disconnect, Awaited, IngestBlocks, IngestTimeout, SegmentReturns,
             AdapterRaises, PastDeadline, AbortRaises
<1>8. cancelled \subseteq cancelled'
  BY <1>2
<1> QED BY <1>2, <1>4, <1>5, <1>6, <1>7, <1>8, MoveJInv

\* segment and finish call the adapter; finish does so with nothing in flight.
LEMMA CallAdapterJInv == ASSUME JInv, IInv, NEW s \in Sessions, CallAdapter(s) PROVE JInv'
<1>1. /\ Owner(ses[s], ctx[s], pc[s], held[s], outside[s]) /\ DOMAIN ctx[s] = CtxFields
      /\ ctx = [ctx EXCEPT ![s] = ctx[s]]
  BY OwnerOf
<1> DEFINE x == [ctx[s] EXCEPT !.lock = "handler"]
<1>2. Reads(x, ctx[s]) /\ Reads(ctx[s], ctx[s])
  BY <1>1 DEF Reads, CtxFields
<1>3. /\ UNCHANGED <<ses, held, outside, queue, queued, accepted, sched, cancelled>>
      /\ pc[s] \in {"segment wait", "finish wait"} /\ ctx[s].idle
  BY DEF CallAdapter, ready
<1>4. \/ /\ ctx' = [ctx EXCEPT ![s] = x]
         /\ \/ pc[s] = "segment wait" /\ pc' = [pc EXCEPT ![s] = "segment adapter"]
            \/ pc[s] = "finish wait" /\ pc' = [pc EXCEPT ![s] = "finish adapter"]
      \/ /\ ctx' = [ctx EXCEPT ![s] = ctx[s]]
         /\ pc' = [pc EXCEPT ![s] = "leave"] \/ pc' = [pc EXCEPT ![s] = "error"]
  BY <1>1 DEF CallAdapter, Raise, Go
<1> HIDE DEF x
<1>5. PICK y, v : /\ ctx' = [ctx EXCEPT ![s] = y] /\ pc' = [pc EXCEPT ![s] = v] /\ Reads(y, ctx[s])
                  /\ \/ v = "segment adapter" /\ pc[s] = "segment wait"
                     \/ v = "finish adapter" /\ pc[s] = "finish wait"
                     \/ v \in {"leave", "error"}
  BY <1>2, <1>4
<1>6. Owner(ses[s], y, v, held[s], outside[s])
  <2>1. CASE v # "finish adapter"
    <3>1. Onward(pc[s], v)
      BY <1>3, <1>5, <2>1 DEF Onward, AfterFinish, Leaving
    <3> QED BY <1>1, <1>5, <3>1, OnwardOwner
  <2>2. CASE v = "finish adapter"
    <3>1. pc[s] = "finish wait" /\ v \in AfterFinish /\ pc[s] \notin Leaving
      BY <1>5, <2>2 DEF AfterFinish, Leaving
    <3> QED BY <1>1, <1>3, <1>5, <2>2, <3>1 DEF Owner, Reads, ReservationOK
  <2> QED BY <2>1, <2>2
<1>7. y.backend = ctx[s].backend /\ v \notin Cancelling /\ v # "error lock" /\ cancelled \subseteq cancelled'
  BY <1>3, <1>5 DEF Reads, Cancelling
<1> QED BY <1>3, <1>5, <1>6, <1>7, MoveJInv

\* The answers of an abort and of an error: the session is over.
LEMMA SentJInv == ASSUME JInv, IInv, NEW s \in Sessions, AbortSent(s) \/ ErrorSent(s) PROVE JInv'
<1>1. /\ Owner(ses[s], ctx[s], pc[s], held[s], outside[s]) /\ DOMAIN ctx[s] = CtxFields
      /\ ctx = [ctx EXCEPT ![s] = ctx[s]]
  BY OwnerOf
<1>2. UNCHANGED <<ses, held, outside, queue, queued, accepted, sched, cancelled>>
  BY DEF AbortSent, ErrorSent, ready
<1>3. Over(ses[s]) /\ pc[s] \notin Leaving
  BY <1>1 DEF AbortSent, ErrorSent, Owner, Leaving
<1> DEFINE a == [ctx[s] EXCEPT !.shut = TRUE]
           e == [TerminalEvent(ctx[s]) EXCEPT !.lock = "free"]
           Like(x) == /\ x.endpoint = ctx[s].endpoint /\ x.idle = ctx[s].idle
                      /\ x.live = ctx[s].live /\ x.backend = ctx[s].backend
<1>4. Like(a) /\ Like(ctx[s])
  BY <1>1 DEF CtxFields
<1>5. Like(e)
  BY <1>1 DEF CtxFields, TerminalEvent, Event
<1>6. \/ /\ ctx' = [ctx EXCEPT ![s] = a] \/ ctx' = [ctx EXCEPT ![s] = e]
         /\ pc' = [pc EXCEPT ![s] = "await"]
      \/ /\ ctx' = [ctx EXCEPT ![s] = ctx[s]]
         /\ pc' = [pc EXCEPT ![s] = "leave"] \/ pc' = [pc EXCEPT ![s] = "error"]
  BY <1>1 DEF AbortSent, ErrorSent, Raise, Go
<1> HIDE DEF a, e
<1>7. PICK x, v : /\ ctx' = [ctx EXCEPT ![s] = x] /\ pc' = [pc EXCEPT ![s] = v]
                  /\ Like(x) /\ v \in {"await", "leave", "error"}
  BY <1>4, <1>5, <1>6
<1>8. Owner(ses[s], x, v, held[s], outside[s])
  <2>1. v \in AfterFinish
    BY <1>7 DEF AfterFinish, Leaving
  <2> QED BY <1>1, <1>3, <1>7, <2>1 DEF Owner, ReservationOK
<1>9. v \notin Cancelling /\ v # "error lock" /\ cancelled \subseteq cancelled'
  BY <1>2, <1>7 DEF Cancelling
<1> QED BY <1>2, <1>7, <1>8, <1>9, MoveJInv

\* What the barrier says of the jobs in the worker's hands.
LEMMA BarrierFacts ==
    ASSUME JInv, NEW s \in Sessions
    PROVE  Passed(s) \/ (ses[s].gen = 1 /\ ~MustWait(s)) => NotSubmitted(s)
<1>1. ASSUME NEW j \in Range(sched.batch) PROVE <<j.of, 1>> \in accepted
  <2>1. j \in Job
    BY DEF JInv, SchedulerLists, Range
  <2> QED BY <2>1, JobFacts DEF JInv, SchedulerLists
<1> QED BY <1>1 DEF Passed, MustWait, Now, NotSubmitted

\* enqueue_error, up to the lock.
LEMMA ErrorWaitsJInv == ASSUME JInv, IInv, NEW s \in Sessions, ErrorBegins(s) \/ ErrorPasses(s) PROVE JInv'
<1>1. /\ Owner(ses[s], ctx[s], pc[s], held[s], outside[s])
      /\ ctx = [ctx EXCEPT ![s] = ctx[s]]
  BY OwnerOf
<1>2. /\ UNCHANGED <<ses, ctx, held, outside, queue, queued, accepted, sched>>
      /\ cancelled' = cancelled \/ cancelled' = cancelled \cup {Now(s)}
  BY DEF ErrorBegins, ErrorPasses, ready, Cancel
<1>3. PICK v \in {"error barrier", "error lock", "leave"} :
        /\ pc' = [pc EXCEPT ![s] = v]
        /\ v = "leave" \/ Now(s) \in cancelled' \/ (pc[s] = "error barrier" /\ Passed(s))
        /\ v = "error lock" => Passed(s) \/ ~MustWait(s)
        /\ pc[s] \in {"error", "error barrier"}
  BY DEF ErrorBegins, ErrorPasses, Go, Cancel
<1>4. Onward(pc[s], v)
  BY <1>3 DEF Onward, AfterFinish, Leaving
<1>5. Reads(ctx[s], ctx[s])
  BY DEF Reads
<1>6. Owner(ses[s], ctx[s], v, held[s], outside[s])
  BY <1>1, <1>4, <1>5, OnwardOwner
<1>7. v \in Cancelling => ses[s].gen # 1 \/ <<s, 1>> \in cancelled'
  BY <1>2, <1>3 DEF Now, Cancelling, JInv, Barriers
<1>8. v = "error lock" /\ ses[s].gen = 1 => NotSubmitted(s)
  BY <1>3, BarrierFacts
<1>9. ctx' = [ctx EXCEPT ![s] = ctx[s]] /\ cancelled \subseteq cancelled'
  BY <1>1, <1>2
<1> QED BY <1>2, <1>3, <1>6, <1>7, <1>8, <1>9, MoveJInv

-----------------------------------------------------------------------------
(* The end of a session *)

\* x is y with the adapter's session closed.
Closes(x, y) ==
    /\ x.endpoint = y.endpoint /\ x.idle = y.idle /\ x.live = y.live /\ x.backend = FALSE
    /\ x.terminal = y.terminal /\ x.last = y.last /\ x.shut = y.shut

\* abort and fail: the buffer is empty, nothing is reserved, the generation is new.
LEMMA EndedFacts ==
    ASSUME NEW r, NEW x, NEW w, NEW h, NEW o, Owner(r, x, w, h, o),
           NEW t \in {AbortSession(r), FailSession(r)}
    PROVE  /\ t \in SessionType /\ t.gen \notin {0, 1} /\ t.data = 0 /\ ~InFlight(t)
           /\ t.state \in {"aborted", "failed"} /\ t.finishReq = r.finishReq
           /\ t.nextSeq = r.nextSeq
<1> DEFINE a == AbortSession(r)
<1>1. r \in SessionType /\ r.gen \in Nat
  BY DEF Owner, SessionType
<1>2. /\ a \in SessionType /\ a.gen \notin {0, 1} /\ a.data = 0 /\ ~InFlight(a)
      /\ a.state \in {"aborted", "failed"} /\ a.finishReq = r.finishReq /\ a.nextSeq = r.nextSeq
  <2>1. CASE r.state \in {"aborted", "failed"}
    <3>1. a = r
      BY <2>1 DEF AbortSession
    <3> HIDE DEF a
    <3> QED BY <1>1, <2>1, <3>1 DEF Owner, Over
  <2>2. CASE r.state \notin {"aborted", "failed"}
    <3>1. /\ a \in SessionType /\ a.data = 0 /\ a.gen = r.gen + 1 /\ a.state = "aborted"
          /\ a.res = NoReservation /\ a.finishReq = r.finishReq /\ a.nextSeq = r.nextSeq
      BY <1>1, <2>2, AbortFacts
    <3> HIDE DEF a
    <3>2. r.gen # 0
      BY DEF Owner
    <3> QED BY <1>1, <3>1, <3>2 DEF InFlight
  <2> QED BY <2>1, <2>2
<1> HIDE DEF a
<1> DEFINE f == [a EXCEPT !.state = "failed"]
<1>3. /\ f \in SessionType /\ f.gen = a.gen /\ f.data = a.data /\ f.res = a.res
      /\ f.state = "failed" /\ f.finishReq = a.finishReq /\ f.nextSeq = a.nextSeq
  BY <1>2, StateFacts DEF EndedStates
<1>4. t = a \/ t = f
  BY DEF FailSession, a
<1> HIDE DEF f
<1> QED BY <1>2, <1>3, <1>4 DEF InFlight

\* The record, the context, the handler's place and the VAD's samples, before and
\* after a session has been aborted or has failed.
Ends(r, x, w, h, t, y, v, g) ==
    /\ t = AbortSession(r) \/ t = FailSession(r)
    /\ Closes(y, x)
    /\ w \in AfterFinish => v \in AfterFinish
    /\ v \in {"finish", "finish wait", "finish adapter"} => v = w
    /\ g = 0 \/ g = h

LEMMA EndedOwner ==
    ASSUME NEW r, NEW x, NEW w, NEW h, NEW o, NEW t, NEW y, NEW v, NEW g, NEW p,
           Owner(r, x, w, h, o), Ends(r, x, w, h, t, y, v, g)
    PROVE  Owner(t, y, v, g, p) /\ Over(t) /\ t.gen # 1
<1> USE DEF Ends
<1>1. /\ t \in SessionType /\ t.gen \notin {0, 1} /\ t.data = 0 /\ ~InFlight(t)
      /\ t.state \in {"aborted", "failed"} /\ t.finishReq = r.finishReq /\ t.nextSeq = r.nextSeq
  BY EndedFacts
<1>2. Over(t) /\ t.state \in EndedStates /\ t.state # "succeeded"
  BY <1>1 DEF Over, EndedStates
<1>3. g \in Nat /\ (h = 0 => g = 0) /\ h \in Nat
  <2>1. h \in Nat
    BY DEF Owner
  <2>2. g = 0 \/ g = h
    OBVIOUS
  <2>3. h = 0 => g = 0
    BY <2>2, Zenon
  <2>4. g \in Nat
    <3>1. 0 \in Nat
      OBVIOUS
    <3> QED BY <2>1, <2>2, <3>1, Zenon
  <2> QED BY <2>1, <2>3, <2>4, Zenon
<1>4. y.endpoint \in BOOLEAN /\ ~y.backend
  BY DEF Closes, Owner
<1>5. t.finishReq => v \in AfterFinish /\ g = 0
  BY <1>1, <1>3 DEF Owner
<1>6. t.nextSeq # 0
  BY <1>1 DEF Owner
<1>7. /\ v \in {"finish", "finish wait", "finish adapter"} => t.finishReq
      /\ v = "finish adapter" => y.idle
  BY <1>1 DEF Owner, Closes
<1> QED BY <1>1, <1>2, <1>3, <1>4, <1>5, <1>6, <1>7 DEF Owner

\* A session ends behind its barrier.
LEMMA EndJInv ==
    ASSUME JInv, IInv, NEW s \in Sessions, NEW t, NEW x, NEW v, NEW h, NEW o,
           Ends(ses[s], ctx[s], pc[s], held[s], t, x, v, h),
           ses' = [ses EXCEPT ![s] = t], ctx' = [ctx EXCEPT ![s] = x],
           pc' = [pc EXCEPT ![s] = v], held' = [held EXCEPT ![s] = h],
           outside' = [outside EXCEPT ![s] = o],
           UNCHANGED <<queue, queued, accepted, sched>>, cancelled \subseteq cancelled',
           ses[s].gen = 1 => NotSubmitted(s) /\ <<s, 1>> \in cancelled'
    PROVE  JInv'
<1>1. Owner(ses[s], ctx[s], pc[s], held[s], outside[s])
  BY OwnerOf
<1>2. Owner(t, x, v, h, o) /\ Over(t) /\ t.gen # 1
  BY <1>1, EndedOwner
<1>3. Keeps(s, t) /\ KeepsBarrier(s, t, v, o)
  BY <1>2 DEF Keeps, KeepsBarrier
<1>4. KeepsOpen(s, x)
  <2>1. NotSubmitted(s) => NotSubmitted(s)'
    BY DEF NotSubmitted
  <2>2. ses[s].gen # 1 => ~ctx[s].backend
    BY <1>1 DEF Owner, Over
  <2> QED BY <2>1, <2>2 DEF KeepsOpen
<1>5. Adds(s, t, x) /\ SchedulerStays
  BY DEF Adds, SchedulerStays
<1> QED BY <1>2, <1>3, <1>4, <1>5, SessionJInv

\* A barrier that is passed, or was not needed, and the cancellation before it.
LEMMA BehindBarrier ==
    ASSUME JInv, NEW s \in Sessions, cancelled \subseteq cancelled',
           \/ Passed(s) /\ (pc[s] \in Cancelling \/ outside[s] = "barrier")
           \/ ~MustWait(s) /\ Now(s) \in cancelled'
    PROVE  ses[s].gen = 1 => NotSubmitted(s) /\ <<s, 1>> \in cancelled'
BY BarrierFacts DEF JInv, Barriers, Now

\* The steps that end a session: abort and its variants, and an error.
LEMMA EndsJInv ==
    ASSUME JInv, IInv, NEW s \in Sessions,
           \/ AbortPasses(s) \/ LeavePasses(s) \/ OutsidePasses(s)
           \/ AbortBody(s) /\ (Abort(s) \/ Leave(s) \/ OutsideBegins(s)) /\ ~MustWait(s) /\ Cancel(s)
    PROVE  JInv'
<1> USE DEF AbortPasses, LeavePasses, OutsidePasses, Abort, Leave, OutsideBegins
<1>1. /\ Owner(ses[s], ctx[s], pc[s], held[s], outside[s]) /\ DOMAIN ctx[s] = CtxFields
      /\ pc = [pc EXCEPT ![s] = pc[s]] /\ outside = [outside EXCEPT ![s] = outside[s]]
  BY OwnerOf
<1>2. AbortBody(s) /\ UNCHANGED <<queue, queued, accepted, sched>> /\ cancelled \subseteq cancelled'
  BY DEF ready, Cancel
<1>3. \/ Passed(s) /\ (pc[s] \in Cancelling \/ outside[s] = "barrier")
      \/ ~MustWait(s) /\ Now(s) \in cancelled'
  BY DEF Cancel, Cancelling
<1>4. ses[s].gen = 1 => NotSubmitted(s) /\ <<s, 1>> \in cancelled'
  BY <1>2, <1>3, BehindBarrier
<1>5. PICK v, o : /\ pc' = [pc EXCEPT ![s] = v] /\ outside' = [outside EXCEPT ![s] = o]
                  /\ pc[s] \in AfterFinish => v \in AfterFinish
                  /\ v \in {"finish", "finish wait", "finish adapter"} => v = pc[s]
  <2>1. CASE AbortPasses(s) \/ Abort(s)
    <3>1. /\ outside' = outside /\ pc[s] \in {"receive", "abort barrier"}
          /\ \E v \in {"abort adapter", "abort barrier", "leave", "error"} : pc' = [pc EXCEPT ![s] = v]
      BY <2>1 DEF Go, Raise
    <3>2. pc[s] \notin AfterFinish
      BY <3>1 DEF AfterFinish, Leaving
    <3> QED BY <1>1, <3>1, <3>2
  <2>2. CASE LeavePasses(s) \/ Leave(s)
    <3>1. /\ outside' = outside
          /\ \E v \in {"leave adapter", "leave barrier", "returned"} : pc' = [pc EXCEPT ![s] = v]
      BY <2>2 DEF Go
    <3> QED BY <1>1, <3>1 DEF AfterFinish, Leaving
  <2>3. CASE OutsidePasses(s) \/ OutsideBegins(s)
    <3>1. pc' = pc /\ \E o : outside' = [outside EXCEPT ![s] = o]
      BY <2>3
    <3> QED BY <1>1, <3>1
  <2> QED BY <2>1, <2>2, <2>3
<1> HIDE DEF AbortPasses, LeavePasses, OutsidePasses, Abort, Leave, OutsideBegins
<1> DEFINE x == [ctx[s] EXCEPT !.backend = FALSE]
           t == AbortSession(ses[s])
<1>6. Closes(x, ctx[s])
  BY <1>1 DEF Closes, CtxFields
<1>7. ses' = [ses EXCEPT ![s] = t] /\ ctx' = [ctx EXCEPT ![s] = x] /\ held' = [held EXCEPT ![s] = 0]
  BY <1>2 DEF AbortBody
<1>8. Ends(ses[s], ctx[s], pc[s], held[s], t, x, v, 0)
  BY <1>5, <1>6 DEF Ends
<1> HIDE DEF x, t
<1> QED BY <1>2, <1>4, <1>5, <1>7, <1>8, EndJInv

\* enqueue_error under the lock.
LEMMA ErrorLockedJInv == ASSUME JInv, IInv, NEW s \in Sessions, ErrorLocked(s) PROVE JInv'
<1>1. /\ Owner(ses[s], ctx[s], pc[s], held[s], outside[s]) /\ DOMAIN ctx[s] = CtxFields
      /\ ctx = [ctx EXCEPT ![s] = ctx[s]] /\ ses = [ses EXCEPT ![s] = ses[s]]
      /\ held = [held EXCEPT ![s] = held[s]] /\ outside = [outside EXCEPT ![s] = outside[s]]
  BY OwnerOf
<1>2. UNCHANGED <<held, outside, queue, queued, accepted, sched>> /\ pc[s] = "error lock"
  BY DEF ErrorLocked, ready
<1>3. CASE UNCHANGED <<ses, ctx, cancelled>> /\ pc' = [pc EXCEPT ![s] = "await"]
  <2>1. Onward(pc[s], "await") /\ Reads(ctx[s], ctx[s]) /\ "await" \notin Cancelling
    BY <1>2 DEF Onward, AfterFinish, Leaving, Reads, Cancelling
  <2>2. Owner(ses[s], ctx[s], "await", held[s], outside[s])
    BY <1>1, <2>1, OnwardOwner
  <2>3. "await" # "error lock" /\ cancelled \subseteq cancelled'
    BY <1>3
  <2> QED BY <1>1, <1>2, <1>3, <2>1, <2>2, <2>3, MoveJInv
<1>4. CASE /\ ses' = [ses EXCEPT ![s] = FailSession(@)] /\ Cancel(s)
           /\ ctx' = [ctx EXCEPT ![s].lock = "handler", ![s].backend = FALSE]
           /\ pc' = [pc EXCEPT ![s] = "error adapter"]
  <2> DEFINE t == FailSession(ses[s])
             x == [ctx[s] EXCEPT !.lock = "handler", !.backend = FALSE]
  <2>1. ses' = [ses EXCEPT ![s] = t] /\ ctx' = [ctx EXCEPT ![s] = x] /\ cancelled \subseteq cancelled'
    <3>1. ctx' = [ctx EXCEPT ![s] = x]
      BY <1>1, <1>4 DEF IInv, Indexed
    <3> QED BY <1>4, <3>1 DEF Cancel
  <2>2. Ends(ses[s], ctx[s], pc[s], held[s], t, x, "error adapter", held[s])
    <3>1. "error adapter" \in AfterFinish /\ "error adapter" \notin {"finish", "finish wait", "finish adapter"}
      BY DEF AfterFinish
    <3>2. Closes(x, ctx[s])
      BY <1>1 DEF Closes, CtxFields
    <3> HIDE DEF x
    <3> QED BY <3>1, <3>2 DEF Ends
  <2>3. ses[s].gen = 1 => NotSubmitted(s) /\ <<s, 1>> \in cancelled'
    BY <1>2, <1>4 DEF JInv, Barriers, Cancel, Now
  <2> HIDE DEF t, x
  <2>4. PICK v, h : /\ pc' = [pc EXCEPT ![s] = v] /\ held' = [held EXCEPT ![s] = h]
                    /\ Ends(ses[s], ctx[s], pc[s], held[s], t, x, v, h)
    BY <1>1, <1>2, <1>4, <2>2
  <2>5. outside' = [outside EXCEPT ![s] = outside[s]]
    BY <1>1, <1>2
  <2> QED BY <1>2, <2>1, <2>3, <2>4, <2>5, EndJInv
<1> QED BY <1>3, <1>4 DEF ErrorLocked, Go

\* The steps that cancel a session's jobs and wait for the barrier, and the command
\* that meets a released session.
LEMMA WaitsJInv ==
    ASSUME JInv, IInv, NEW s \in Sessions,
           UNCHANGED <<ses, ctx, held, queue, queued, accepted, sched>>,
           \/ /\ pc[s] = "receive" /\ outside' = outside /\ cancelled' = cancelled
              /\ pc' = [pc EXCEPT ![s] = "leave"] \/ pc' = [pc EXCEPT ![s] = "error"]
           \/ /\ pc[s] = "receive" /\ outside' = outside /\ Cancel(s)
              /\ pc' = [pc EXCEPT ![s] = "abort barrier"]
           \/ /\ pc[s] = "leave" /\ outside' = outside /\ Cancel(s)
              /\ pc' = [pc EXCEPT ![s] = "leave barrier"]
           \/ outside[s] = "none" /\ outside' = [outside EXCEPT ![s] = "barrier"] /\ Cancel(s) /\ pc' = pc
    PROVE  JInv'
<1>1. /\ Owner(ses[s], ctx[s], pc[s], held[s], outside[s])
      /\ ctx' = [ctx EXCEPT ![s] = ctx[s]] /\ ses' = [ses EXCEPT ![s] = ses[s]]
      /\ held' = [held EXCEPT ![s] = held[s]] /\ outside = [outside EXCEPT ![s] = outside[s]]
      /\ pc = [pc EXCEPT ![s] = pc[s]]
  BY OwnerOf
<1>2. PICK v, o : /\ pc' = [pc EXCEPT ![s] = v] /\ outside' = [outside EXCEPT ![s] = o]
                  /\ v = pc[s] \/ Onward(pc[s], v)
                  /\ o = outside[s] \/ o = "barrier"
                  /\ v = "error lock" => v = pc[s]
                  /\ \/ Cancel(s)
                     \/ cancelled' = cancelled /\ v \notin Cancelling /\ o = outside[s]
  <2>1. /\ pc[s] = "receive" => Onward(pc[s], "leave") /\ Onward(pc[s], "error")
                                  /\ Onward(pc[s], "abort barrier")
        /\ pc[s] = "leave" => Onward(pc[s], "leave barrier")
        /\ "leave" \notin Cancelling /\ "error" \notin Cancelling
    BY DEF Onward, AfterFinish, Leaving, Cancelling
  <2>2. /\ "leave" # "error lock" /\ "error" # "error lock"
        /\ "abort barrier" # "error lock" /\ "leave barrier" # "error lock"
    OBVIOUS
  <2>3. CASE /\ pc[s] = "receive" /\ outside' = outside /\ cancelled' = cancelled
             /\ pc' = [pc EXCEPT ![s] = "leave"] \/ pc' = [pc EXCEPT ![s] = "error"]
    <3>1. CASE pc' = [pc EXCEPT ![s] = "leave"]
      BY <1>1, <2>1, <2>2, <2>3, <3>1, Zenon
    <3>2. CASE pc' = [pc EXCEPT ![s] = "error"]
      BY <1>1, <2>1, <2>2, <2>3, <3>2, Zenon
    <3> QED BY <2>3, <3>1, <3>2, Zenon
  <2>4. CASE /\ pc[s] = "receive" /\ outside' = outside /\ Cancel(s)
             /\ pc' = [pc EXCEPT ![s] = "abort barrier"]
    BY <1>1, <2>1, <2>2, <2>4, Zenon
  <2>5. CASE /\ pc[s] = "leave" /\ outside' = outside /\ Cancel(s)
             /\ pc' = [pc EXCEPT ![s] = "leave barrier"]
    BY <1>1, <2>1, <2>2, <2>5, Zenon
  <2>6. CASE /\ outside[s] = "none" /\ outside' = [outside EXCEPT ![s] = "barrier"]
             /\ Cancel(s) /\ pc' = pc
    BY <1>1, <2>6, Zenon
  <2> QED BY <2>3, <2>4, <2>5, <2>6, Zenon
<1>3. Reads(ctx[s], ctx[s])
  BY DEF Reads
<1>4. Owner(ses[s], ctx[s], v, held[s], outside[s])
  BY <1>1, <1>2, <1>3, OnwardOwner
<1>5. Owner(ses[s], ctx[s], v, held[s], o)
  BY <1>2, <1>4 DEF Owner
<1>6. cancelled \subseteq cancelled'
  BY <1>2 DEF Cancel
<1>7. KeepsBarrier(s, ses[s], v, o)
  <2>1. NotSubmitted(s) => NotSubmitted(s)'
    BY DEF NotSubmitted
  <2>2. v = "error lock" /\ ses[s].gen = 1 => NotSubmitted(s)'
    BY <1>2, <2>1 DEF JInv, Barriers
  <2>3. CASE Cancel(s)
    BY <2>2, <2>3 DEF Cancel, Now, KeepsBarrier
  <2>4. CASE cancelled' = cancelled /\ v \notin Cancelling /\ o = outside[s]
    BY <2>2, <2>4 DEF KeepsBarrier, JInv, Barriers
  <2> QED BY <1>2, <2>3, <2>4
<1>8. /\ Keeps(s, ses[s]) /\ KeepsOpen(s, ctx[s]) /\ Adds(s, ses[s], ctx[s]) /\ SchedulerStays
  BY <1>6 DEF Keeps, KeepsOpen, Adds, SchedulerStays
<1> QED BY <1>1, <1>2, <1>5, <1>7, <1>8, SessionJInv

\* close() of a session that is over.
LEMMA ReleasedOwner ==
    ASSUME NEW r, NEW x, NEW w, NEW h, NEW o, Owner(r, x, w, h, o), Over(r), DOMAIN x = CtxFields
    PROVE  LET t == CloseSession(r)
               y == [x EXCEPT !.live = FALSE]
           IN  Owner(t, y, w, h, o) /\ Over(t) /\ t.gen # 1 /\ ~y.backend
<1> DEFINE t == CloseSession(r)
           y == [x EXCEPT !.live = FALSE]
           g == [r EXCEPT !.gen = @ + 1]
<1>1. r \in SessionType /\ r.gen \in Nat /\ r.gen # 0
  BY DEF Owner, SessionType
<1>2. /\ y.endpoint = x.endpoint /\ y.idle = x.idle /\ y.live = FALSE /\ y.backend = x.backend
      /\ y.terminal = x.terminal /\ y.last = x.last /\ y.shut = x.shut
  BY DEF CtxFields
<1>3. /\ t \in SessionType /\ t.gen \notin {0, 1} /\ t.data = r.data /\ t.res = r.res
      /\ t.state = r.state /\ t.finishReq = r.finishReq /\ t.nextSeq = r.nextSeq
  <2>1. /\ g \in SessionType /\ g.gen = r.gen + 1 /\ g.data = r.data /\ g.res = r.res
        /\ g.state = r.state /\ g.finishReq = r.finishReq /\ g.nextSeq = r.nextSeq
    BY <1>1, GenerationFacts
  <2>2. CASE r.state \in {"aborted", "failed"}
    <3>1. t = r
      BY <2>2 DEF CloseSession
    <3> HIDE DEF t
    <3> QED BY <1>1, <2>2, <3>1 DEF Owner
  <2>3. CASE r.state \notin {"aborted", "failed"}
    <3>1. t = g
      BY <2>3 DEF CloseSession
    <3> HIDE DEF t, g
    <3> QED BY <1>1, <2>1, <3>1
  <2> QED BY <2>2, <2>3
<1> HIDE DEF t, y
<1>4. Over(t) /\ ~InFlight(t)
  BY <1>3 DEF Over, Owner, InFlight
<1>5. Owner(t, y, w, h, o)
  BY <1>2, <1>3, <1>4 DEF Owner
<1>6. ~y.backend
  BY <1>2 DEF Owner
<1> QED BY <1>3, <1>4, <1>5, <1>6 DEF t, y

\* _release_session, of a session that is over or was released before.
LEMMA ReleaseJInv ==
    ASSUME JInv, IInv, NEW s \in Sessions, Release(s), Over(ses[s]),
           UNCHANGED <<held, queue, queued, cancelled, accepted, sched>>,
           \/ pc' = pc \/ (pc[s] # "finish adapter" /\ pc' = [pc EXCEPT ![s] = "returned"]),
           outside' = outside \/ outside' = [outside EXCEPT ![s] = "done"]
    PROVE  JInv'
<1>1. /\ Owner(ses[s], ctx[s], pc[s], held[s], outside[s]) /\ DOMAIN ctx[s] = CtxFields
      /\ ctx = [ctx EXCEPT ![s] = ctx[s]] /\ ses = [ses EXCEPT ![s] = ses[s]]
      /\ held' = [held EXCEPT ![s] = held[s]] /\ outside = [outside EXCEPT ![s] = outside[s]]
      /\ pc = [pc EXCEPT ![s] = pc[s]]
  BY OwnerOf
<1>2. PICK t, x : /\ ses' = [ses EXCEPT ![s] = t] /\ ctx' = [ctx EXCEPT ![s] = x]
                  /\ Owner(t, x, pc[s], held[s], outside[s]) /\ Over(t) /\ t.gen # 1 /\ ~x.backend
  <2>1. CASE ctx[s].live
    <3>1. /\ ses' = [ses EXCEPT ![s] = CloseSession(ses[s])]
          /\ ctx' = [ctx EXCEPT ![s] = [ctx[s] EXCEPT !.live = FALSE]]
      BY <1>1, <2>1 DEF Release
    <3> QED BY <1>1, <3>1, ReleasedOwner
  <2>2. CASE ~ctx[s].live
    <3>1. UNCHANGED <<ctx, ses>> /\ ses[s].gen # 1 /\ ~ctx[s].backend
      BY <1>1, <2>2 DEF Release, Owner
    <3> QED BY <1>1, <3>1
  <2> QED BY <2>1, <2>2
<1>3. PICK v : pc' = [pc EXCEPT ![s] = v] /\ (v = pc[s] \/ Onward(pc[s], v))
  <2>1. Onward(pc[s], "returned")
    BY DEF Onward, AfterFinish, Leaving
  <2> QED BY <1>1, <2>1
<1>4. PICK o : outside' = [outside EXCEPT ![s] = o] /\ (o = outside[s] \/ o = "done")
  BY <1>1
<1>5. Owner(t, x, v, held[s], o)
  <2>1. Reads(x, x)
    BY DEF Reads
  <2>2. Owner(t, x, v, held[s], outside[s])
    BY <1>2, <1>3, <2>1, OnwardOwner
  <2> QED BY <1>4, <2>2 DEF Owner
<1>6. Keeps(s, t) /\ KeepsOpen(s, x) /\ KeepsBarrier(s, t, v, o) /\ Adds(s, t, x) /\ SchedulerStays
  <2>1. ~ctx[s].backend
    BY <1>1 DEF Owner
  <2> QED BY <1>2, <2>1 DEF Keeps, KeepsOpen, KeepsBarrier, Adds, SchedulerStays
<1> QED BY <1>1, <1>2, <1>3, <1>4, <1>5, <1>6, SessionJInv

\* Aborts from every side, and releases.
LEMMA LeavesJInv ==
    ASSUME JInv, IInv, NEW s \in Sessions,
           \/ Abort(s) \/ AbortPasses(s) \/ Leave(s) \/ LeavePasses(s) \/ LeaveReleases(s)
           \/ SenderReleases(s) \/ OutsideBegins(s) \/ OutsidePasses(s) \/ OutsideReleases(s)
    PROVE  JInv'
<1>1. Owner(ses[s], ctx[s], pc[s], held[s], outside[s])
  BY OwnerOf
<1>2. ~ctx[s].live \/ Ended(s) => Over(ses[s])
  BY <1>1 DEF Owner, Ended, EndedStates, Over
<1>3. CASE AbortPasses(s) \/ LeavePasses(s) \/ OutsidePasses(s)
  BY <1>3, EndsJInv
<1>4. CASE Abort(s)
  <2>1. CASE AbortBody(s) /\ ~MustWait(s) /\ Cancel(s)
    BY <1>4, <2>1, EndsJInv
  <2>2. CASE ~(AbortBody(s) /\ ~MustWait(s) /\ Cancel(s))
    BY <1>4, <2>2, WaitsJInv DEF Abort, Raise, Go, ready
  <2> QED BY <2>1, <2>2
<1>5. CASE Leave(s)
  <2>1. CASE AbortBody(s) /\ ~MustWait(s) /\ Cancel(s)
    BY <1>5, <2>1, EndsJInv
  <2>2. CASE ~ctx[s].live \/ Ended(s)
    BY <1>2, <1>5, <2>2, ReleaseJInv DEF Leave, Go, ready
  <2>3. CASE ~(AbortBody(s) /\ ~MustWait(s) /\ Cancel(s)) /\ ~(~ctx[s].live \/ Ended(s))
    BY <1>5, <2>3, WaitsJInv DEF Leave, Go, ready
  <2> QED BY <2>1, <2>2, <2>3
<1>6. CASE OutsideBegins(s)
  <2>1. CASE AbortBody(s) /\ ~MustWait(s) /\ Cancel(s)
    BY <1>6, <2>1, EndsJInv
  <2>2. CASE Ended(s)
    BY <1>2, <1>6, <2>2, ReleaseJInv DEF OutsideBegins, ready
  <2>3. CASE ~(AbortBody(s) /\ ~MustWait(s) /\ Cancel(s)) /\ ~Ended(s)
    BY <1>6, <2>3, WaitsJInv DEF OutsideBegins, ready
  <2> QED BY <2>1, <2>2, <2>3
<1>7. CASE LeaveReleases(s) \/ SenderReleases(s) \/ OutsideReleases(s)
  <2>1. Over(ses[s])
    <3>1. ctx[s].last \in {0, 1}
      BY SessionFacts DEF Sound
    <3>2. ctx[s].last > 0 => ctx[s].last = 1
      BY <3>1
    <3>3. \/ pc[s] = "leave adapter" \/ outside[s] = "adapter"
          \/ ctx[s].last = 1 \/ ctx[s].shut
      BY <1>7, <3>2, Zenon DEF LeaveReleases, SenderReleases, OutsideReleases
    <3> QED BY <1>1, <3>3 DEF Owner
  <2>2. /\ Release(s) /\ UNCHANGED <<held, queue, queued, cancelled, accepted, sched>>
        /\ \/ pc' = pc \/ (pc[s] # "finish adapter" /\ pc' = [pc EXCEPT ![s] = "returned"])
        /\ outside' = outside \/ outside' = [outside EXCEPT ![s] = "done"]
    BY <1>7 DEF LeaveReleases, SenderReleases, OutsideReleases, Go, ready
  <2> QED BY <2>1, <2>2, ReleaseJInv
<1> QED BY <1>3, <1>4, <1>5, <1>6, <1>7

-----------------------------------------------------------------------------
(* Scheduling *)

\* What _schedule_next makes of a record r and a context c: n, with a new job of
\* session s if it put one into the queue.
Scheduled(s, r, c, n) ==
    /\ n.r \in SessionType /\ n.r.gen = r.gen /\ n.r.state = r.state /\ n.r.finishReq = r.finishReq
    /\ n.r.data = r.data
    /\ n.r.res = r.res \/ ~InFlight(r)
    /\ ~n.put => n.r.res = r.res \/ n.r.res = NoReservation
    /\ n.c.endpoint = c.endpoint /\ n.c.live = c.live /\ n.c.backend = c.backend
    /\ n.c.terminal = c.terminal /\ n.c.last = c.last /\ n.c.shut = c.shut
    /\ DOMAIN n.c = CtxFields
    /\ n.put \in BOOLEAN /\ n.raised \in BOOLEAN
    /\ n.put => /\ ~InFlight(r) /\ r.gen = 1 /\ c.backend
                /\ JobOf(s, n.r) \in Job /\ MatchesReservation(n.r, JobOf(s, n.r))

\* How many samples a job takes.
LEMMA ReadyFacts ==
    ASSUME NEW r \in SessionType, NEW force
    PROVE  /\ Ready(r, force) # 0 => ~InFlight(r) /\ Ready(r, force) <= r.data
           /\ Ready(r, force) \in Int
           /\ InFlight(r) \/ r.data = 0 => Ready(r, force) = 0
           /\ Ready(r, force) < 0 => InFlight(r)
<1>1. r.data \in Nat /\ Preferred \in Nat \ {0}
  BY RuntimeAssumption DEF SessionType
<1>2. ~InFlight(r) => Buffered(r) = r.data
  <2>1. ~InFlight(r) => Reserved(r) = 0
    BY DEF InFlight, Reserved, NoReservation
  <2> QED BY <1>1, <2>1 DEF Buffered
<1> QED BY <1>1, <1>2 DEF Ready

\* Who may call it: a handler that is not in the adapter nor on its way out, or
\* the scheduler while the protocol goes on.
MaySchedule(c, w) ==
    DOMAIN c = CtxFields /\ w # "finish adapter" /\ (w \notin Leaving \/ ~c.terminal)

LEMMA ScheduleFacts ==
    ASSUME NEW s \in Sessions, NEW r, NEW c, NEW w, NEW h, NEW o, NEW force, Owner(r, c, w, h, o),
           MaySchedule(c, w)
    PROVE  LET n == ScheduleNext(r, c, force)
           IN  Owner(n.r, n.c, w, h, o) /\ Scheduled(s, r, c, n)
<1> DEFINE k == Ready(r, force)
           f == r.finishReq \/ c.endpoint
           t == Reserve(r, k, f)
           b == Rollback(t)
           x == [c EXCEPT !.idle = FALSE]
           y == [c EXCEPT !.idle = TRUE]
           n == ScheduleNext(r, c, force)
<1>1. r \in SessionType /\ r.data \in Nat /\ r.nextSeq \in Nat \ {0} /\ r.base \in Nat /\ r.gen \in Nat
  BY DEF Owner, SessionType
<1>2. /\ k # 0 => ~InFlight(r) /\ k <= r.data
      /\ k \in Int /\ (InFlight(r) \/ r.data = 0 => k = 0)
      /\ k < 0 => InFlight(r)
  BY <1>1, ReadyFacts
<1> HIDE DEF k
<1>3. CASE k = 0
  <2>1. n.r = r /\ n.c = c /\ n.raised = FALSE /\ n.put = FALSE
    BY <1>3 DEF ScheduleNext, k
  <2> HIDE DEF n
  <2> QED BY <1>1, <2>1 DEF Scheduled, n, MaySchedule
<1>4. CASE k # 0
  <2>1. k \in Nat \ {0} /\ k <= r.data /\ ~InFlight(r) /\ r.data # 0
    BY <1>1, <1>2, <1>4
  <2>2. ~Over(r) /\ r.gen = 1 /\ r.state \notin EndedStates /\ ~c.terminal /\ c.backend
    <3>1. ~Over(r)
      BY <2>1 DEF Owner
    <3>2. r.gen = 1 /\ r.state \notin EndedStates
      BY <3>1 DEF Owner, Over, EndedStates
    <3> QED BY <3>1, <3>2 DEF Owner, MaySchedule
  <2>3. f \in BOOLEAN
    BY <1>1 DEF Owner, SessionType
  <2> HIDE DEF f
  <2>4. /\ t \in SessionType /\ t.res = NewReservation(r, k, f) /\ t.nextSeq = r.nextSeq + 1
        /\ t.data = r.data /\ t.gen = r.gen /\ t.state = r.state /\ t.finishReq = r.finishReq
    BY <1>1, <2>1, <2>3, ReserveFacts
  <2> HIDE DEF t
  <2>5. /\ b \in SessionType /\ b.res = NoReservation /\ b.nextSeq = t.nextSeq
        /\ b.data = t.data /\ b.gen = t.gen /\ b.state = t.state /\ b.finishReq = t.finishReq
    BY <2>4, RollbackFacts
  <2> HIDE DEF b
  <2>6. /\ t.res.seq = r.nextSeq /\ t.res.gen = r.gen /\ t.res.start = r.base
        /\ t.res.end = r.base + k /\ t.res.final = f
    BY <2>4 DEF NewReservation
  <2>7. /\ x.idle = FALSE /\ x.endpoint = c.endpoint /\ x.live = c.live /\ x.backend = c.backend
        /\ x.terminal = c.terminal /\ x.last = c.last /\ x.shut = c.shut /\ DOMAIN x = CtxFields
        /\ y.idle = TRUE /\ y.endpoint = c.endpoint /\ y.live = c.live /\ y.backend = c.backend
        /\ y.terminal = c.terminal /\ y.last = c.last /\ y.shut = c.shut /\ DOMAIN y = CtxFields
    BY DEF CtxFields, MaySchedule
  <2> HIDE DEF x, y
  <2>8. CASE n.r = t /\ n.c = x /\ n.raised = FALSE /\ n.put = TRUE
    <3> HIDE DEF n
    <3>1. ReservationOK(t, x)
      BY <1>1, <2>1, <2>4, <2>6, <2>7 DEF ReservationOK
    <3>2. t.nextSeq # 0 /\ ~Over(t)
      BY <1>1, <2>2, <2>4 DEF Over, EndedStates
    <3>3. Owner(t, x, w, h, o)
      BY <2>2, <2>4, <2>7, <3>1, <3>2 DEF Owner, MaySchedule
    <3>4. JobOf(s, t) \in Job /\ MatchesReservation(t, JobOf(s, t))
      <4>1. /\ t.res.seq \in Nat \ {0} /\ t.res.start \in Nat /\ t.res.end \in Nat
            /\ t.res.start < t.res.end /\ t.res.final \in BOOLEAN /\ t.gen = 1
        BY <1>1, <2>1, <2>2, <2>3, <2>4, <2>6
      <4>2. JobOf(s, t) \in Job
        BY <4>1 DEF JobOf, Job
      <4> QED BY <2>4, <2>6, <4>2 DEF JobOf, MatchesReservation
    <3> QED BY <2>1, <2>2, <2>4, <2>7, <2>8, <3>3, <3>4 DEF Scheduled, n
  <2>9. CASE n.r = b /\ n.c = y /\ n.raised = TRUE /\ n.put = FALSE
    <3> HIDE DEF n
    <3>1. b.nextSeq # 0 /\ ~Over(b) /\ ~InFlight(b)
      BY <1>1, <2>2, <2>4, <2>5 DEF Over, EndedStates, InFlight
    <3>2. Owner(b, y, w, h, o)
      BY <2>2, <2>4, <2>5, <2>7, <3>1 DEF Owner, MaySchedule
    <3> QED BY <2>1, <2>4, <2>5, <2>7, <2>9, <3>2 DEF Scheduled, n
  <2>10. \/ n.r = t /\ n.c = x /\ n.raised = FALSE /\ n.put = TRUE
         \/ n.r = b /\ n.c = y /\ n.raised = TRUE /\ n.put = FALSE
    BY <1>4 DEF ScheduleNext, n, t, b, x, y, k, f
  <2> QED BY <2>8, <2>9, <2>10
<1> QED BY <1>3, <1>4

\* The job, if there is one, goes to the end of the queue.
LEMMA EnqueueAdds ==
    ASSUME NEW s \in Sessions, NEW r, NEW c, NEW n, NEW x, Scheduled(s, r, c, n), Enqueue(s, n),
           x.backend = n.c.backend, ~InFlight(r) => ~InFlight(ses[s])
    PROVE  Adds(s, n.r, x)
<1>1. CASE n.put
  <2> DEFINE j == JobOf(s, n.r)
  <2>1. j.of = s /\ Size(j) = Reserved(n.r)
    BY DEF JobOf, Size, Reserved
  <2>2. queue' = Append(queue, j) /\ queued' = queued + Size(j)
    BY <1>1, <2>1 DEF Enqueue
  <2>3. j \in Job /\ n.r.gen = 1 /\ ~InFlight(ses[s]) /\ MatchesReservation(n.r, j) /\ x.backend
    BY <1>1 DEF Scheduled
  <2> HIDE DEF j
  <2> QED BY <2>1, <2>2, <2>3 DEF Adds
<1>2. CASE ~n.put
  BY <1>2 DEF Enqueue, Adds, ready
<1> QED BY <1>1, <1>2

\* x is y, but that the session may have become idle with nothing in flight in r.
Unlocks(x, y, r) ==
    /\ x.endpoint = y.endpoint /\ x.live = y.live /\ x.backend = y.backend
    /\ x.terminal = y.terminal /\ x.last = y.last /\ x.shut = y.shut
    /\ x.idle => y.idle \/ ~InFlight(r)
    /\ y.idle => x.idle

\* Where a handler may go while a job is scheduled.
Passes(w, v) ==
    \/ v = w
    \/ Onward(w, v) /\ v \notin Cancelling
    \/ w = "finish" /\ v = "finish wait"

LEMMA UnlocksOwner ==
    ASSUME NEW r, NEW y, NEW x, NEW w, NEW v, NEW h, NEW o, Owner(r, y, w, h, o), Unlocks(x, y, r),
           Passes(w, v)
    PROVE  Owner(r, x, v, h, o)
<1>1. Owner(r, x, w, h, o)
  BY DEF Owner, Unlocks, ReservationOK
<1>2. CASE Onward(w, v)
  <2>1. Reads(x, x)
    BY DEF Reads
  <2> QED BY <1>1, <1>2, <2>1, OnwardOwner
<1>3. CASE w = "finish" /\ v = "finish wait"
  <2>1. v \in AfterFinish /\ w \notin Leaving
    BY <1>3 DEF AfterFinish, Leaving
  <2> QED BY <1>1, <1>3, <2>1 DEF Owner
<1> QED BY <1>1, <1>2, <1>3 DEF Passes

\* The session's record before and after it took some audio.
Grows(r, t) == t.gen = r.gen /\ t.res = r.res /\ t.state = r.state

\* Audio is taken and a job scheduled, or not, by the handler or by the scheduler.
LEMMA ScheduledJInv ==
    ASSUME JInv, IInv, NEW s \in Sessions, NEW r, NEW c, NEW n, NEW x, NEW v, NEW h,
           Owner(n.r, n.c, pc[s], h, outside[s]), Scheduled(s, r, c, n), Enqueue(s, n),
           Grows(ses[s], r), c.backend = ctx[s].backend,
           Unlocks(x, n.c, n.r), Passes(pc[s], v),
           ses' = [ses EXCEPT ![s] = n.r], ctx' = [ctx EXCEPT ![s] = x],
           pc' = [pc EXCEPT ![s] = v], held' = [held EXCEPT ![s] = h],
           UNCHANGED <<outside, cancelled>>,
           SchedulerStays \/ SchedulerGoes
    PROVE  JInv'
<1>1. Owner(n.r, x, v, h, outside[s])
  BY UnlocksOwner
<1>2. outside' = [outside EXCEPT ![s] = outside[s]]
  BY OwnerOf
<1>3. Over(ses[s]) => Over(n.r)
  BY DEF Scheduled, Grows, Over
<1>4. Keeps(s, n.r)
  BY <1>3 DEF Keeps, Scheduled, Grows, InFlight
<1>5. KeepsOpen(s, x)
  BY DEF KeepsOpen, Unlocks, Scheduled
<1>6. Adds(s, n.r, x)
  <2>1. ~InFlight(r) => ~InFlight(ses[s])
    BY DEF Grows, InFlight
  <2> QED BY <2>1, EnqueueAdds DEF Unlocks
<1>7. SchedulerGoes
  <2>1. \A t \in Sessions : Over(ses[t]) => Over(ses'[t])
    BY <1>3 DEF JInv, Owners
  <2> QED BY <2>1, StaysGoes
<1>8. KeepsBarrier(s, n.r, v, outside[s])
  <2>1. NotSubmitted(s) => NotSubmitted(s)'
    BY <1>7 DEF SchedulerGoes, NotSubmitted
  <2>2. v \in Cancelling => v = pc[s]
    BY DEF Passes, Cancelling
  <2>3. "error lock" \in Cancelling /\ n.r.gen = ses[s].gen
    BY DEF Cancelling, Scheduled, Grows
  <2> QED BY <2>1, <2>2, <2>3 DEF KeepsBarrier, JInv, Barriers
<1> QED BY <1>1, <1>2, <1>4, <1>5, <1>6, <1>7, <1>8, StepJInv

\* The first half of segment and finish.
LEMMA DecodesJInv ==
    ASSUME JInv, IInv, NEW s \in Sessions, SegmentDecodes(s) \/ FinishDecodes(s)
    PROVE  JInv'
<1>1. /\ Owner(ses[s], ctx[s], pc[s], held[s], outside[s]) /\ DOMAIN ctx[s] = CtxFields
      /\ ctx = [ctx EXCEPT ![s] = ctx[s]] /\ held = [held EXCEPT ![s] = held[s]]
  BY OwnerOf
<1>2. PICK next : /\ \/ pc[s] = "segment" /\ next = "segment wait"
                     \/ pc[s] = "finish" /\ next = "finish wait"
                  /\ ForceDecode(s, next)
  BY DEF SegmentDecodes, FinishDecodes
<1>3. UNCHANGED <<held, outside, accepted, sched, cancelled>>
  BY DEF SegmentDecodes, FinishDecodes
<1> DEFINE n == ScheduleNext(ses[s], ctx[s], TRUE)
           y == [n.c EXCEPT !.idle = TRUE]
<1>4. Passes(pc[s], next) /\ Onward(pc[s], "leave") /\ Onward(pc[s], "error")
      /\ Passes(pc[s], "leave") /\ Passes(pc[s], "error")
  BY <1>2 DEF Passes, Onward, AfterFinish, Leaving, Cancelling
<1>5. MaySchedule(ctx[s], pc[s])
  BY <1>1, <1>2 DEF MaySchedule, Leaving
<1>6. Owner(n.r, n.c, pc[s], held[s], outside[s]) /\ Scheduled(s, ses[s], ctx[s], n)
  BY <1>1, <1>5, ScheduleFacts
<1>7. CASE ctx[s].live
  <2>1. /\ ses' = [ses EXCEPT ![s] = n.r] /\ Enqueue(s, n)
        /\ \/ ctx' = [ctx EXCEPT ![s] = n.c]
           \/ ~n.put /\ Drained(n.r) /\ ctx' = [ctx EXCEPT ![s] = y]
        /\ \E v \in {"leave", "error", next} : pc' = [pc EXCEPT ![s] = v]
    BY <1>2, <1>7 DEF ForceDecode, Raise, Go
  <2> HIDE DEF n
  <2>2. Unlocks(n.c, n.c, n.r)
    BY DEF Unlocks
  <2>3. Drained(n.r) => Unlocks(y, n.c, n.r)
    BY <1>6 DEF Unlocks, Drained, Scheduled, CtxFields
  <2> HIDE DEF y
  <2>4. PICK x : ctx' = [ctx EXCEPT ![s] = x] /\ Unlocks(x, n.c, n.r)
    BY <2>1, <2>2, <2>3
  <2>5. PICK v : pc' = [pc EXCEPT ![s] = v] /\ Passes(pc[s], v)
    BY <1>4, <2>1
  <2>6. Grows(ses[s], ses[s]) /\ SchedulerStays
    BY <1>3 DEF Grows, SchedulerStays
  <2>7. held' = [held EXCEPT ![s] = held[s]]
    BY <1>1, <1>3
  <2> QED BY <1>3, <1>6, <2>1, <2>4, <2>5, <2>6, <2>7, ScheduledJInv
<1>8. CASE ~ctx[s].live
  <2>1. /\ UNCHANGED <<ses, queue, queued>> /\ ctx' = [ctx EXCEPT ![s] = ctx[s]]
        /\ pc' = [pc EXCEPT ![s] = "leave"] \/ pc' = [pc EXCEPT ![s] = "error"]
    BY <1>1, <1>2, <1>8 DEF ForceDecode, Raise, Go, ready
  <2>2. Reads(ctx[s], ctx[s])
    BY DEF Reads
  <2>3. Owner(ses[s], ctx[s], "leave", held[s], outside[s]) /\ Owner(ses[s], ctx[s], "error", held[s], outside[s])
    BY <1>1, <1>4, <2>2, OnwardOwner
  <2>4. PICK v : /\ pc' = [pc EXCEPT ![s] = v] /\ Owner(ses[s], ctx[s], v, held[s], outside[s])
                 /\ v \notin Cancelling /\ v # "error lock"
    BY <2>1, <2>3 DEF Cancelling
  <2>5. cancelled \subseteq cancelled'
    BY <1>3
  <2> QED BY <1>3, <2>1, <2>4, <2>5, MoveJInv
<1> QED BY <1>7, <1>8

\* The record t after record r took some audio, none if it is over.
TookAudio(r, t) ==
    /\ t \in SessionType /\ Grows(r, t) /\ t.nextSeq = r.nextSeq /\ t.finishReq = r.finishReq
    /\ t.data >= r.data
    /\ Over(r) => t.data = r.data

LEMMA TookOwner ==
    ASSUME NEW r, NEW x, NEW w, NEW h, NEW o, Owner(r, x, w, h, o), NEW t, TookAudio(r, t),
           NEW y, Reads([y EXCEPT !.endpoint = FALSE], [x EXCEPT !.endpoint = FALSE]),
           DOMAIN x = CtxFields, DOMAIN y = CtxFields, y.endpoint \in BOOLEAN,
           NEW g \in Nat, r.finishReq => g = 0
    PROVE  Owner(t, y, w, g, o)
<1>1. /\ y.idle = x.idle /\ y.live = x.live /\ y.backend = x.backend
      /\ y.terminal = x.terminal /\ y.last = x.last /\ y.shut = x.shut
  BY DEF Reads, CtxFields
<1>2. InFlight(t) <=> InFlight(r)
  BY DEF TookAudio, Grows, InFlight
<1>3. Over(t) <=> Over(r)
  BY DEF TookAudio, Grows, Over
<1>4. ReservationOK(r, x) => ReservationOK(t, y)
  <2>1. t.res = r.res /\ t.gen = r.gen /\ t.data >= r.data
    BY DEF TookAudio, Grows
  <2>2. r \in SessionType /\ t \in SessionType
    BY DEF TookAudio, Owner
  <2>3. t.data \in Int /\ r.data \in Int /\ r.res.end \in Int /\ r.res.start \in Int
    BY <2>2 DEF SessionType, Reservation
  <2> QED BY <1>1, <2>1, <2>3 DEF ReservationOK
<1>5. t \in SessionType /\ t.gen = r.gen /\ t.state = r.state /\ t.nextSeq = r.nextSeq
      /\ t.finishReq = r.finishReq /\ (Over(r) => t.data = r.data)
  BY DEF TookAudio, Grows
<1> QED BY <1>1, <1>2, <1>3, <1>4, <1>5 DEF Owner

\* What handing over, accepting and discarding do.
LEMMA HandedTook ==
    ASSUME NEW r \in SessionType, NEW audio \in Nat, NEW dropped \in Nat,
           Over(r) => audio = 0
    PROVE  TookAudio(r, RecordDiscarded(HandOver(r, audio), dropped))
<1> DEFINE a == HandOver(r, audio)
           d == RecordDiscarded(a, dropped)
<1>1. /\ a \in SessionType /\ a.data = r.data + audio /\ a.res = r.res /\ a.nextSeq = r.nextSeq
      /\ a.gen = r.gen /\ a.state = r.state /\ a.finishReq = r.finishReq
  BY HandOverFacts
<1> HIDE DEF a
<1>2. /\ d \in SessionType /\ d.data = a.data /\ d.res = a.res /\ d.nextSeq = a.nextSeq
      /\ d.gen = a.gen /\ d.state = a.state /\ d.finishReq = a.finishReq
  BY <1>1, RecordDiscardedFacts
<1> HIDE DEF d
<1>3. r.data \in Nat
  BY DEF SessionType
<1> QED BY <1>1, <1>2, <1>3 DEF TookAudio, Grows, d, a

\* Counting alone.
LEMMA AcceptTook ==
    ASSUME NEW r \in SessionType
    PROVE  TookAudio(r, AcceptVad(r, 1)) /\ AcceptVad(r, 1) \in SessionType
           /\ (Over(AcceptVad(r, 1)) <=> Over(r))
<1> DEFINE a == AcceptVad(r, 1)
<1>1. /\ a \in SessionType /\ a.data = r.data /\ a.res = r.res /\ a.nextSeq = r.nextSeq
      /\ a.gen = r.gen /\ a.state = r.state /\ a.finishReq = r.finishReq
  BY AcceptVadFacts
<1>2. r.data \in Nat
  BY DEF SessionType
<1> HIDE DEF a
<1> QED BY <1>1, <1>2 DEF TookAudio, Grows, a, Over

LEMMA TookTwice ==
    ASSUME NEW r, NEW a, NEW b, TookAudio(r, a), TookAudio(a, b), r \in SessionType
    PROVE  TookAudio(r, b)
<1>1. r.data \in Nat /\ a.data \in Nat /\ b.data \in Nat
  BY DEF TookAudio, SessionType
<1>2. Over(r) => Over(a)
  BY DEF TookAudio, Grows, Over
<1> QED BY <1>1, <1>2 DEF TookAudio, Grows

\* The outcomes of _ingest_locked.
LEMMA TakenFacts ==
    ASSUME JInv, IInv, NEW s \in Sessions, pc[s] \in {"ingest", "blocked"}, Fits(ses[s]),
           NEW t \in Taken(s), t.held >= 0
    PROVE  /\ TookAudio(ses[s], t.r) /\ t.held \in Nat /\ t.endpoint \in BOOLEAN
           /\ ~ses[s].finishReq
<1> DEFINE r == ses[s]
           a == AcceptVad(r, 1)
<1>1. Owner(r, ctx[s], pc[s], held[s], outside[s])
  BY OwnerOf
<1>2. r \in SessionType /\ held[s] \in Nat /\ ~r.finishReq /\ (Over(r) => r.state \in EndedStates)
  <2>1. pc[s] \notin AfterFinish
    BY DEF AfterFinish, Leaving
  <2> QED BY <1>1, <2>1 DEF Owner
<1>3. r.state \in LiveStates => ~Over(r)
  BY <1>2 DEF LiveStates, EndedStates
<1>4. CASE ~GatewayVad
  <2>1. t = [r |-> AppendPcm(r, 1), held |-> 0, endpoint |-> FALSE, raised |-> FALSE]
    BY <1>4 DEF Taken
  <2>2. ~Over(r)
    BY <1>3, <1>4 DEF Fits, CanAppend
  <2> DEFINE b == HandOver(r, 1)
             e == AcceptVad(b, 1)
  <2>3. /\ b \in SessionType /\ b.data = r.data + 1 /\ b.res = r.res /\ b.nextSeq = r.nextSeq
        /\ b.gen = r.gen /\ b.state = r.state /\ b.finishReq = r.finishReq
    <3>1. r \in SessionType /\ 1 \in Nat
      BY <1>2
    <3> HIDE DEF r
    <3> QED BY ONLY <3>1, HandOverFacts
  <2>4. AppendPcm(r, 1) = e
    BY <1>2, AppendFacts
  <2> HIDE DEF b
  <2>5. /\ e \in SessionType /\ e.data = b.data /\ e.res = b.res /\ e.nextSeq = b.nextSeq
        /\ e.gen = b.gen /\ e.state = b.state /\ e.finishReq = b.finishReq
    BY <2>3, AcceptVadFacts
  <2> HIDE DEF e
  <2>6. r.data \in Nat
    BY <1>2 DEF SessionType
  <2>7. TookAudio(r, e)
    BY <2>2, <2>3, <2>5, <2>6 DEF TookAudio, Grows
  <2> QED BY <1>2, <2>1, <2>4, <2>7
<1>5. CASE GatewayVad
  <2>1. PICK audio \in 0 .. held[s] + 1, dropped \in 0 .. held[s] + 1, e \in BOOLEAN :
          t = [r |-> IF audio > 0 /\ ~CanAppend(a, audio) THEN a
                     ELSE RecordDiscarded(HandOver(a, audio), dropped),
               held |-> held[s] + 1 - audio - dropped,
               endpoint |-> e,
               raised |-> \/ audio > 0 /\ ~CanAppend(a, audio)
                          \/ ~CanRecordDiscarded(HandOver(a, audio), dropped)]
    BY <1>5 DEF Taken
  <2>2. audio \in Nat /\ dropped \in Nat /\ held[s] + 1 - audio - dropped \in Int
    BY <1>2
  <2>3. TookAudio(r, a) /\ a \in SessionType /\ (Over(a) <=> Over(r)) /\ a.state = r.state
    BY <1>2, AcceptTook DEF TookAudio, Grows
  <2> HIDE DEF a, r
  <2>4. t.held \in Nat /\ t.endpoint \in BOOLEAN
    BY <2>1, <2>2
  <2>5. CASE audio > 0 /\ ~CanAppend(a, audio)
    <3>1. t.r = a
      BY <2>1, <2>5
    <3> QED BY <1>2, <2>3, <2>4, <3>1 DEF r
  <2>6. CASE ~(audio > 0 /\ ~CanAppend(a, audio))
    <3>1. t.r = RecordDiscarded(HandOver(a, audio), dropped)
      BY <2>1, <2>6
    <3>2. Over(a) => audio = 0
      <4>1. audio > 0 => a.state \in LiveStates
        BY <2>6 DEF CanAppend
      <4> QED BY <1>3, <2>2, <2>3, <4>1
    <3>3. TookAudio(a, t.r)
      BY <2>2, <2>3, <3>1, <3>2, HandedTook
    <3>4. TookAudio(r, t.r)
      BY <1>2, <2>3, <3>3, TookTwice
    <3> QED BY <1>2, <2>4, <3>4 DEF r
  <2> QED BY <2>5, <2>6
<1> QED BY <1>4, <1>5

\* A frame of audio.
LEMMA IngestJInv == ASSUME JInv, IInv, NEW s \in Sessions, Ingest(s) PROVE JInv'
<1>1. /\ Owner(ses[s], ctx[s], pc[s], held[s], outside[s]) /\ DOMAIN ctx[s] = CtxFields
      /\ ctx = [ctx EXCEPT ![s] = ctx[s]]
  BY OwnerOf
<1>2. /\ UNCHANGED <<outside, accepted, sched, cancelled>> /\ pc[s] \in {"ingest", "blocked"}
      /\ Fits(ses[s])
  BY DEF Ingest
<1> DEFINE C(t) == [ctx[s] EXCEPT !.lock = "free", !.endpoint = @ \/ t.endpoint]
           N(t) == ScheduleNext(t.r, C(t), t.endpoint)
           y == [ctx[s] EXCEPT !.lock = "free"]
<1>3. PICK t \in Taken(s) :
        /\ t.held >= 0
        /\ held' = [held EXCEPT ![s] = t.held]
        /\ pc' = [pc EXCEPT ![s] = "error"] \/ pc' = [pc EXCEPT ![s] = "receive"]
        /\ \/ ses' = [ses EXCEPT ![s] = t.r] /\ ctx' = [ctx EXCEPT ![s].lock = "free"] /\ UNCHANGED ready
           \/ /\ ses' = [ses EXCEPT ![s] = N(t).r] /\ ctx' = [ctx EXCEPT ![s] = N(t).c]
              /\ Enqueue(s, N(t))
  BY Zenon DEF Ingest, Go
<1> DEFINE c == C(t)
           n == N(t)
<1>4. TookAudio(ses[s], t.r) /\ t.held \in Nat /\ t.endpoint \in BOOLEAN /\ ~ses[s].finishReq
  BY <1>2, <1>3, TakenFacts
<1>5. ctx[s].endpoint \in BOOLEAN
  BY <1>1 DEF Owner
<1>6. /\ DOMAIN c = CtxFields /\ c.endpoint \in BOOLEAN /\ c.backend = ctx[s].backend
      /\ Reads([c EXCEPT !.endpoint = FALSE], [ctx[s] EXCEPT !.endpoint = FALSE])
      /\ c.terminal = ctx[s].terminal
  BY <1>1, <1>4, <1>5 DEF CtxFields, Reads
<1>7. /\ DOMAIN y = CtxFields /\ y.endpoint \in BOOLEAN /\ y.backend = ctx[s].backend
      /\ Reads([y EXCEPT !.endpoint = FALSE], [ctx[s] EXCEPT !.endpoint = FALSE])
  BY <1>1, <1>5 DEF CtxFields, Reads
<1>8. Passes(pc[s], "error") /\ Passes(pc[s], "receive") /\ MaySchedule(c, pc[s])
  BY <1>2, <1>6 DEF Passes, Onward, AfterFinish, Leaving, Cancelling, MaySchedule
<1>9. PICK v : pc' = [pc EXCEPT ![s] = v] /\ Passes(pc[s], v)
  BY <1>3, <1>8
<1>10. Grows(ses[s], t.r) /\ t.r \in SessionType /\ SchedulerStays
  BY <1>2, <1>4 DEF TookAudio, SchedulerStays
<1>11. CASE ses' = [ses EXCEPT ![s] = t.r] /\ ctx' = [ctx EXCEPT ![s].lock = "free"] /\ UNCHANGED ready
  <2> DEFINE m == [r |-> t.r, c |-> y, raised |-> FALSE, put |-> FALSE]
  <2>1. ctx' = [ctx EXCEPT ![s] = y]
    BY <1>1, <1>11 DEF IInv, Indexed
  <2> HIDE DEF y, c, n
  <2>2. m.r = t.r /\ m.c = y /\ m.raised = FALSE /\ m.put = FALSE
    OBVIOUS
  <2> HIDE DEF m
  <2>3. Owner(m.r, m.c, pc[s], t.held, outside[s])
    BY <1>1, <1>4, <1>7, <2>2, TookOwner
  <2>4. Scheduled(s, t.r, y, m)
    BY <1>7, <1>10, <2>2 DEF Scheduled
  <2>5. Enqueue(s, m)
    BY <1>11, <2>2 DEF Enqueue
  <2>6. Unlocks(y, m.c, m.r)
    BY <2>2 DEF Unlocks
  <2>7. ses' = [ses EXCEPT ![s] = m.r]
    BY <1>11, <2>2
  <2> QED BY <1>2, <1>3, <1>7, <1>9, <1>10, <2>1, <2>3, <2>4, <2>5, <2>6, <2>7, ScheduledJInv
<1>12. CASE /\ ses' = [ses EXCEPT ![s] = n.r] /\ ctx' = [ctx EXCEPT ![s] = n.c]
            /\ Enqueue(s, n)
  <2> HIDE DEF c, y
  <2>1. Owner(t.r, c, pc[s], t.held, outside[s])
    BY <1>1, <1>4, <1>6, TookOwner
  <2>2. Owner(n.r, n.c, pc[s], t.held, outside[s]) /\ Scheduled(s, t.r, c, n)
    BY <1>8, <2>1, ScheduleFacts DEF c
  <2> HIDE DEF n
  <2>3. Unlocks(n.c, n.c, n.r)
    BY DEF Unlocks
  <2> QED BY <1>2, <1>3, <1>6, <1>9, <1>10, <1>12, <2>2, <2>3, ScheduledJInv
<1> QED BY <1>3, <1>11, <1>12

\* finish, up to request_finish.
LEMMA FinishJInv == ASSUME JInv, IInv, NEW s \in Sessions, Finish(s) PROVE JInv'
<1>1. /\ Owner(ses[s], ctx[s], pc[s], held[s], outside[s])
      /\ ctx = [ctx EXCEPT ![s] = ctx[s]] /\ held = [held EXCEPT ![s] = held[s]]
      /\ ses = [ses EXCEPT ![s] = ses[s]] /\ outside = [outside EXCEPT ![s] = outside[s]]
  BY OwnerOf
<1>2. UNCHANGED <<ctx, outside, queue, queued, accepted, sched, cancelled>> /\ pc[s] = "receive"
  BY DEF Finish, ready
<1>3. pc[s] \notin AfterFinish /\ ~ses[s].finishReq
  BY <1>1, <1>2 DEF AfterFinish, Leaving, Owner
<1> DEFINE R(audio) == RequestFinish(RecordDiscarded(HandOver(ses[s], audio), held[s] - audio))
<1>4. PICK h : /\ held' = [held EXCEPT ![s] = h]
               /\ h = 0 \/ h = held[s]
               /\ \/ /\ ses' = [ses EXCEPT ![s] = ses[s]]
                     /\ pc' = [pc EXCEPT ![s] = "leave"] \/ pc' = [pc EXCEPT ![s] = "error"]
                  \/ /\ h = 0 /\ pc' = [pc EXCEPT ![s] = "finish"]
                     /\ \E audio \in 0 .. held[s] :
                          /\ ~(audio > 0 /\ ~CanAppend(ses[s], audio))
                          /\ ses' = [ses EXCEPT ![s] = R(audio)]
  BY <1>1 DEF Finish, Raise, Go
<1> HIDE DEF R
<1>5. SchedulerStays /\ KeepsOpen(s, ctx[s])
  BY <1>2 DEF SchedulerStays, KeepsOpen
<1>6. NotSubmitted(s) => NotSubmitted(s)'
  BY <1>2 DEF NotSubmitted
<1>7. CASE /\ ses' = [ses EXCEPT ![s] = ses[s]]
           /\ pc' = [pc EXCEPT ![s] = "leave"] \/ pc' = [pc EXCEPT ![s] = "error"]
  <2>1. Reads(ctx[s], ctx[s]) /\ Onward(pc[s], "leave") /\ Onward(pc[s], "error")
    BY <1>2 DEF Reads, Onward, AfterFinish, Leaving
  <2>2. PICK v \in {"leave", "error"} : /\ pc' = [pc EXCEPT ![s] = v]
                                       /\ Owner(ses[s], ctx[s], v, held[s], outside[s])
    BY <1>1, <1>7, <2>1, OnwardOwner
  <2>3. Owner(ses[s], ctx[s], v, h, outside[s])
    <3>1. held[s] \in Nat
      BY <1>1 DEF Owner
    <3>2. h \in Nat
      BY <1>4, <3>1
    <3> QED BY <1>3, <2>2, <3>2 DEF Owner
  <2>4. Keeps(s, ses[s]) /\ Adds(s, ses[s], ctx[s]) /\ KeepsBarrier(s, ses[s], v, outside[s])
    BY <1>2 DEF Keeps, Adds, KeepsBarrier, Cancelling, JInv, Barriers
  <2>5. ctx' = [ctx EXCEPT ![s] = ctx[s]] /\ outside' = [outside EXCEPT ![s] = outside[s]]
    BY <1>1, <1>2
  <2> QED BY <1>4, <1>5, <1>7, <2>2, <2>3, <2>4, <2>5, SessionJInv
<1>8. ASSUME h = 0, pc' = [pc EXCEPT ![s] = "finish"],
             NEW audio \in 0 .. held[s], ~(audio > 0 /\ ~CanAppend(ses[s], audio)),
             ses' = [ses EXCEPT ![s] = R(audio)]
      PROVE  JInv'
  <2> DEFINE d == RecordDiscarded(HandOver(ses[s], audio), held[s] - audio)
             t == R(audio)
  <2>1. ses[s] \in SessionType /\ held[s] \in Nat /\ audio \in Nat /\ held[s] - audio \in Nat
    <3>1. ses[s] \in SessionType /\ held[s] \in Nat
      BY <1>1 DEF Owner
    <3> QED BY <3>1
  <2>2. Over(ses[s]) => audio = 0
    <3>1. audio > 0 => ses[s].state \in LiveStates
      BY <1>8 DEF CanAppend
    <3>2. ses[s].state \in LiveStates => ~Over(ses[s])
      BY <1>1, <1>3 DEF Owner, LiveStates, EndedStates
    <3> QED BY <2>1, <3>1, <3>2
  <2>3. TookAudio(ses[s], d)
    BY <2>1, <2>2, HandedTook
  <2>4. Reads([ctx[s] EXCEPT !.endpoint = FALSE], [ctx[s] EXCEPT !.endpoint = FALSE])
        /\ DOMAIN ctx[s] = CtxFields /\ ctx[s].endpoint \in BOOLEAN
    BY <1>1, OwnerOf DEF Reads, Owner
  <2>5. Owner(d, ctx[s], pc[s], 0, outside[s])
    BY <1>1, <2>3, <2>4, TookOwner
  <2>6. ~d.finishReq /\ d \in SessionType /\ t = RequestFinish(d)
    BY <1>3, <2>3 DEF TookAudio, R
  <2> HIDE DEF d, t
  <2>7. /\ t \in SessionType /\ t.state = "finishing" /\ t.data = d.data /\ t.res = d.res
        /\ t.nextSeq = d.nextSeq /\ t.gen = d.gen
    BY <2>6, RequestFinishFacts
  <2>8. t.finishReq = TRUE
    BY <2>6 DEF RequestFinish, SessionType
  <2>9. Over(t) <=> Over(d)
    BY <2>5, <2>6, <2>7 DEF Over, Owner
  <2>10. Owner(t, ctx[s], "finish", 0, outside[s])
    <3>1. "finish" \in AfterFinish /\ pc[s] \notin Leaving /\ "finish" \notin Leaving
      BY <1>2 DEF AfterFinish, Leaving
    <3>2. t.state \notin {"aborted", "failed", "succeeded"}
      BY <2>7
    <3>3. InFlight(t) <=> InFlight(d)
      BY <2>7 DEF InFlight
    <3>4. ReservationOK(d, ctx[s]) => ReservationOK(t, ctx[s])
      BY <2>7 DEF ReservationOK
    <3> QED BY <2>5, <2>7, <2>8, <2>9, <3>1, <3>2, <3>3, <3>4 DEF Owner
  <2>11. Keeps(s, t) /\ Adds(s, t, ctx[s]) /\ KeepsBarrier(s, t, "finish", outside[s])
    <3>1. t.gen = ses[s].gen /\ t.res = ses[s].res /\ (Over(ses[s]) => Over(t))
      BY <2>3, <2>7, <2>9 DEF TookAudio, Grows, Over
    <3> QED BY <1>2, <3>1 DEF Keeps, Adds, KeepsBarrier, Cancelling, JInv, Barriers
  <2>12. ctx' = [ctx EXCEPT ![s] = ctx[s]] /\ outside' = [outside EXCEPT ![s] = outside[s]]
         /\ held' = [held EXCEPT ![s] = 0] /\ ses' = [ses EXCEPT ![s] = t]
    BY <1>1, <1>2, <1>4, <1>8 DEF t
  <2> QED BY <1>5, <1>8, <2>10, <2>11, <2>12, SessionJInv
<1> QED BY <1>4, <1>7, <1>8

\* The adapter's answer to finish.
LEMMA FinishReturnsJInv == ASSUME JInv, IInv, NEW s \in Sessions, FinishReturns(s) PROVE JInv'
<1>1. /\ Owner(ses[s], ctx[s], pc[s], held[s], outside[s]) /\ DOMAIN ctx[s] = CtxFields
      /\ held = [held EXCEPT ![s] = held[s]]
      /\ ses = [ses EXCEPT ![s] = ses[s]] /\ outside = [outside EXCEPT ![s] = outside[s]]
  BY OwnerOf
<1>2. /\ UNCHANGED <<held, outside, queue, queued, accepted, sched, cancelled>>
      /\ pc[s] = "finish adapter"
  BY DEF FinishReturns, ready
<1>3. ~InFlight(ses[s]) /\ ses[s].finishReq /\ ses[s] \in SessionType
  BY <1>1, <1>2 DEF Owner, ReservationOK
<1> DEFINE c == [ctx[s] EXCEPT !.lock = "free", !.backend = FALSE]
           e == TerminalEvent(c)
           z == [c EXCEPT !.terminal = TRUE]
           t == Succeed(ses[s])
<1>4. /\ c.endpoint = ctx[s].endpoint /\ c.idle = ctx[s].idle /\ c.live = ctx[s].live
      /\ c.backend = FALSE /\ c.terminal = ctx[s].terminal /\ c.last = ctx[s].last
      /\ c.shut = ctx[s].shut /\ DOMAIN c = CtxFields
  BY <1>1 DEF CtxFields
<1> HIDE DEF c
<1>5. /\ e.endpoint = c.endpoint /\ e.idle = c.idle /\ e.live = c.live /\ e.backend = c.backend
  BY <1>4 DEF TerminalEvent, Event, CtxFields
<1>6. /\ z.endpoint = c.endpoint /\ z.idle = c.idle /\ z.live = c.live /\ z.backend = c.backend
      /\ z.terminal = TRUE /\ z.last = c.last /\ z.shut = c.shut
  BY <1>4 DEF CtxFields
<1>7. \/ /\ CanSucceed(ses[s]) /\ ses' = [ses EXCEPT ![s] = t] /\ ctx' = [ctx EXCEPT ![s] = e]
         /\ pc' = [pc EXCEPT ![s] = "await"]
      \/ /\ ses' = [ses EXCEPT ![s] = ses[s]] /\ ctx' = [ctx EXCEPT ![s] = z]
         /\ pc' = [pc EXCEPT ![s] = "leave"]
  BY <1>1 DEF FinishReturns, Go, c
<1> HIDE DEF e, z
<1>8. PICK r, x, v : /\ ses' = [ses EXCEPT ![s] = r] /\ ctx' = [ctx EXCEPT ![s] = x]
                     /\ pc' = [pc EXCEPT ![s] = v] /\ v \notin Cancelling
                     /\ Owner(r, x, v, held[s], outside[s])
                     /\ r.gen = ses[s].gen /\ r.res = ses[s].res
                     /\ Over(ses[s]) => Over(r)
  <2>1. CASE CanSucceed(ses[s])
    <3>1. /\ t \in SessionType /\ t.state = "succeeded" /\ t.data = ses[s].data /\ t.res = ses[s].res
          /\ t.nextSeq = ses[s].nextSeq /\ t.gen = ses[s].gen /\ t.finishReq = ses[s].finishReq
      BY <1>3, StateFacts DEF Succeed, EndedStates
    <3>2. ses[s].data = 0
      <4>1. ses[s].data \in Nat
        BY <1>3 DEF SessionType
      <4> QED BY <2>1, <4>1 DEF CanSucceed, Buffered, Reserved
    <3> HIDE DEF t
    <3>3. Over(t) /\ ~InFlight(t) /\ t.state \in EndedStates /\ t.state \notin {"aborted", "failed"}
      BY <1>3, <3>1 DEF Over, InFlight, EndedStates
    <3>4. "await" \in AfterFinish /\ "await" \notin Cancelling
      BY DEF AfterFinish, Cancelling
    <3>5. Owner(t, e, "await", held[s], outside[s])
      BY <1>1, <1>2, <1>3, <1>4, <1>5, <3>1, <3>2, <3>3, <3>4 DEF Owner
    <3>6. "leave" \in AfterFinish /\ "leave" \in Leaving /\ "leave" \notin Cancelling
      BY DEF AfterFinish, Leaving, Cancelling
    <3>7. Owner(ses[s], z, "leave", held[s], outside[s])
      BY <1>1, <1>2, <1>3, <1>4, <1>6, <3>6 DEF Owner
    <3> QED BY <1>7, <3>1, <3>3, <3>4, <3>5, <3>6, <3>7
  <2>2. CASE ~CanSucceed(ses[s])
    <3>1. "leave" \in AfterFinish /\ "leave" \in Leaving /\ "leave" \notin Cancelling
      BY DEF AfterFinish, Leaving, Cancelling
    <3>2. Owner(ses[s], z, "leave", held[s], outside[s])
      BY <1>1, <1>2, <1>3, <1>4, <1>6, <3>1 DEF Owner
    <3> QED BY <1>7, <2>2, <3>1, <3>2
  <2> QED BY <2>1, <2>2
<1>9. KeepsOpen(s, x)
  <2>1. ses[s].gen = 1 \/ ~ctx[s].backend
    BY <1>1 DEF Owner, Over
  <2> QED BY <1>2, <1>3, <2>1 DEF KeepsOpen
<1>10. Keeps(s, r) /\ Adds(s, r, x) /\ SchedulerStays
  BY <1>2, <1>8 DEF Keeps, Adds, SchedulerStays
<1>11. KeepsBarrier(s, r, v, outside[s])
  <2>1. "error lock" \in Cancelling
    BY DEF Cancelling
  <2> QED BY <1>2, <1>8, <2>1 DEF KeepsBarrier, JInv, Barriers
<1>12. held' = [held EXCEPT ![s] = held[s]] /\ outside' = [outside EXCEPT ![s] = outside[s]]
  BY <1>1, <1>2
<1> QED BY <1>8, <1>9, <1>10, <1>11, <1>12, SessionJInv

-----------------------------------------------------------------------------
(* The scheduler: the queue *)

\* A list of jobs and the two it is split into.
LEMMA SplitFacts ==
    ASSUME NEW q \in Seq(Job), Unique(q), NEW P
    PROVE  LET a == Only(q, P)
               b == Only(q, DOMAIN q \ P)
           IN  /\ a \in Seq(Job) /\ b \in Seq(Job) /\ Unique(a) /\ Unique(b)
               /\ Range(a) = {q[i] : i \in P \cap DOMAIN q} /\ Range(b) = {q[i] : i \in DOMAIN q \ P}
               /\ Range(a) \subseteq Range(q) /\ Range(b) \subseteq Range(q)
               /\ \A x \in Range(a), y \in Range(b) : x.of # y.of
               /\ SumSizes(q) = SumSizes(a) + SumSizes(b)
               /\ SumSizes(a) \in Int /\ SumSizes(b) \in Int
<1> DEFINE a == Only(q, P)
           b == Only(q, DOMAIN q \ P)
<1>1. /\ a \in Seq(Job) /\ b \in Seq(Job)
      /\ Range(a) = {q[i] : i \in P \cap DOMAIN q}
      /\ Range(b) = {q[i] : i \in (DOMAIN q \ P) \cap DOMAIN q}
  BY OnlyRange
<1>2. Unique(a) /\ Unique(b)
  BY UniqueOnly
<1>3. SumSizes(q) = SumSizes(a) + SumSizes(b)
  BY SumOnly, JobsSized
<1> HIDE DEF a, b
<1>4. SumSizes(a) \in Int /\ SumSizes(b) \in Int
  BY <1>1, SumType, JobsSized
<1>5. \A x \in Range(a), y \in Range(b) : x.of # y.of
  BY <1>1 DEF Unique
<1>6. Range(a) \subseteq Range(q) /\ Range(b) \subseteq Range(q)
  BY <1>1 DEF Range
<1>7. Range(b) = {q[i] : i \in DOMAIN q \ P}
  BY <1>1
<1> QED BY <1>1, <1>2, <1>3, <1>4, <1>5, <1>6, <1>7 DEF a, b

\* No job in the queue has lost the reservation of its session.
LEMMA NoRejectRaises == ASSUME JInv, NEW j \in Range(queue) PROVE ~RejectRaises(j)
<1>1. j \in Job
  BY DEF JInv, OneJobEach, Range
<1>2. ses[j.of].gen = 1 => ses[j.of].res.seq = j.seq
  BY DEF JInv, OneJobEach, MatchesReservation
<1> QED BY <1>1, <1>2, JobFacts DEF RejectRaises, IsCurrent

\* rollback of a session that had a job in the queue.
LEMMA RollbackOwner ==
    ASSUME NEW r, NEW x, NEW w, NEW h, NEW o, Owner(r, x, w, h, o)
    PROVE  Owner(Rollback(r), x, w, h, o) /\ Rollback(r).gen = r.gen
<1> DEFINE t == Rollback(r)
<1>1. /\ t \in SessionType /\ t.res = NoReservation /\ t.data = r.data /\ t.nextSeq = r.nextSeq
      /\ t.gen = r.gen /\ t.state = r.state /\ t.finishReq = r.finishReq
  BY RollbackFacts DEF Owner
<1> HIDE DEF t
<1>2. ~InFlight(t) /\ (Over(t) <=> Over(r))
  BY <1>1 DEF InFlight, Over
<1>3. Owner(t, x, w, h, o)
  BY <1>1, <1>2 DEF Owner
<1> QED BY <1>1, <1>3 DEF t

\* Jobs leave the queue: js are rejected, the others stay or are submitted.
LEMMA QueueJInv ==
    ASSUME JInv, NEW js \in SUBSET Range(queue), ses' = Rejected(js),
           UNCHANGED <<held, ctx, tasks, cancelled>>,
           queue' \in Seq(Job), Unique(queue'), Range(queue') \cup Unsettled' \subseteq Pending,
           \A j \in Range(queue'), k \in Unsettled' : j.of # k.of,
           \A j \in js, k \in Range(queue') \cup Unsettled' : j.of # k.of,
           SchedulerLists', sched'.at # "failing",
           sched'.at = "submit" =>
             \A j \in Range(sched'.batch) : j \in Range(queue) /\ ~IsCancelled(j),
           Range(queue') \subseteq Range(queue),
           QueueExact'
    PROVE  JInv'
<1>1. /\ Range(queue) \subseteq Job /\ Unsettled \subseteq Job
  BY DEF JInv, OneJobEach, SchedulerLists, Unsettled, Range
<1>2. \A s \in Sessions : \/ ses'[s] = ses[s]
                          \/ ses'[s] = Rollback(ses[s]) /\ \E j \in js : j.of = s
  BY DEF Rejected
<1>3. ses' = [s \in Sessions |-> ses'[s]]
  BY DEF Rejected
<1>4. \A s \in Sessions : Owner(ses'[s], ctx[s], pc[s], held[s], outside[s]) /\ ses'[s].gen = ses[s].gen
  <2> SUFFICES ASSUME NEW s \in Sessions
               PROVE  /\ Owner(ses'[s], ctx[s], pc[s], held[s], outside[s])
                      /\ ses'[s].gen = ses[s].gen
    OBVIOUS
  <2>1. Owner(ses[s], ctx[s], pc[s], held[s], outside[s])
    BY DEF JInv, Owners
  <2>2. /\ Owner(Rollback(ses[s]), ctx[s], pc[s], held[s], outside[s])
        /\ Rollback(ses[s]).gen = ses[s].gen
    BY <2>1, RollbackOwner
  <2> QED BY <1>2, <2>1, <2>2
<1>5. Owners'
  BY <1>3, <1>4 DEF JInv, Owners, tasks
<1>6. Barriers'
  <2>1. ASSUME NEW s \in Sessions, pc[s] = "error lock", ses[s].gen = 1 PROVE NotSubmitted(s)'
    <3>1. <<s, 1>> \in cancelled
      BY <2>1 DEF JInv, Barriers, Cancelling
    <3>2. ASSUME sched'.at = "submit", NEW j \in Range(sched'.batch) PROVE j.of # s
      <4>1. j \in Range(queue) /\ Key(j) \notin cancelled
        BY <3>2 DEF IsCancelled
      <4>2. j \in Job
        BY <1>1, <4>1
      <4> QED BY <3>1, <4>1, <4>2, JobFacts
    <3> QED BY <3>2 DEF NotSubmitted
  <2> QED BY <1>4, <2>1 DEF JInv, Barriers, tasks
<1>7. OneJobEach'
  <2>1. ASSUME NEW j \in Range(queue') \cup Unsettled', ses'[j.of].gen = 1
        PROVE  MatchesReservation(ses'[j.of], j)
    <3>1. j \in Pending /\ j.of \in Sessions
      BY <1>1, JobFacts DEF Pending
    <3>2. ses'[j.of] = ses[j.of]
      BY <1>2, <3>1
    <3> QED BY <2>1, <3>1, <3>2 DEF JInv, OneJobEach, Pending
  <2> QED BY <2>1 DEF OneJobEach
<1>8. OpenInAdapter'
  <2>1. \A j \in Range(queue') : ctx'[j.of].backend \/ Key(j) \in cancelled'
    BY DEF JInv, OpenInAdapter
  <2>2. sched'.at = "submit" => \A j \in Range(sched'.batch) : ctx'[j.of].backend
    BY DEF JInv, OpenInAdapter, IsCancelled
  <2> QED BY <2>1, <2>2 DEF OpenInAdapter
<1>9. FailingOver'
  BY DEF FailingOver
<1> QED BY <1>5, <1>6, <1>7, <1>8, <1>9 DEF JInv

\* The lists while the task looks at its queue.
LEMMA ScanFacts ==
    ASSUME JInv
    PROVE  /\ queue \in Seq(Job) /\ Unique(queue) /\ Range(queue) \subseteq Job
           /\ SumSizes(queue) \in Int
           /\ sched.at = "scan" => /\ sched.batch = <<>> /\ sched.failures = <<>> /\ Unsettled = {}
                                   /\ queued = SumSizes(queue)
<1>1. queue \in Seq(Job) /\ Unique(queue) /\ Range(queue) \subseteq Job
  BY DEF JInv, OneJobEach, Range
<1>2. SumSizes(queue) \in Int
  BY <1>1, SumType, JobsSized
<1>3. sched.at = "scan" => sched.batch = <<>> /\ sched.failures = <<>>
  BY DEF JInv, SchedulerLists
<1>4. sched.at = "scan" => Unsettled = {}
  BY <1>3 DEF Unsettled
<1>5. sched.at = "scan" => queued = SumSizes(queue)
  BY <1>2 DEF JInv, QueueExact
<1> QED BY <1>1, <1>2, <1>3, <1>4, <1>5

\* A job is too old.
LEMMA ExpireJInv == ASSUME JInv, IInv, NEW i \in DOMAIN queue, Expire(i) PROVE JInv'
<1>1. /\ queue \in Seq(Job) /\ Unique(queue) /\ Range(queue) \subseteq Job
      /\ SumSizes(queue) \in Int /\ sched.at = "scan"
      /\ sched.batch = <<>> /\ sched.failures = <<>> /\ queued = SumSizes(queue)
      /\ DOMAIN sched = SchedFields
  BY ScanFacts DEF Expire, IInv
<1> DEFINE j == queue[i]
           a == Only(queue, {i})
           b == Only(queue, DOMAIN queue \ {i})
<1>2. /\ a \in Seq(Job) /\ b \in Seq(Job) /\ Unique(b) /\ Range(b) \subseteq Range(queue)
      /\ Range(a) = {queue[k] : k \in {i} \cap DOMAIN queue}
      /\ \A x \in Range(a), y \in Range(b) : x.of # y.of
      /\ SumSizes(queue) = SumSizes(a) + SumSizes(b) /\ SumSizes(a) \in Int /\ SumSizes(b) \in Int
  BY <1>1, SplitFacts
<1>3. SumSizes(a) = Size(j)
  BY <1>1, SumOne, JobsSized
<1>4. Range(a) = {j} /\ j \in Range(queue) /\ j \in Job
  BY <1>1, <1>2 DEF Range
<1>5. ~RejectRaises(j)
  BY <1>4, NoRejectRaises
<1>6. /\ queue' = b /\ queued' = queued - Size(j) /\ ses' = Rejected({j})
      /\ sched' = [sched EXCEPT !.at = "publish", !.failures = <<j>>, !.bad = TRUE]
      /\ UNCHANGED <<held, ctx, tasks, accepted, cancelled>>
  BY <1>5 DEF Expire
<1> HIDE DEF a, b, j
<1>7. sched'.at = "publish" /\ sched'.batch = <<>> /\ sched'.failures = <<j>>
  BY <1>1, <1>6 DEF SchedFields
<1>8. SchedulerLists'
  <2>1. <<>> \in Seq(Job) /\ <<j>> \in Seq(Job) /\ <<j>> # <<>> /\ Unique(<<>>) /\ Range(<<>>) = {}
    BY <1>4 DEF Unique, Range
  <2> QED BY <1>7, <2>1 DEF SchedulerLists, Publishing
<1>9. Unsettled' = {}
  BY <1>7 DEF Unsettled
<1>10. QueueExact'
  BY <1>1, <1>2, <1>3, <1>6, <1>7 DEF QueueExact
<1>11. sched'.at # "failing" /\ sched'.at # "submit"
  BY <1>7
<1>12. {j} \in SUBSET Range(queue)
  BY <1>4
<1>13. /\ queue' \in Seq(Job) /\ Unique(queue') /\ Range(queue') \cup Unsettled' \subseteq Pending
       /\ \A x \in {j}, k \in Range(queue') \cup Unsettled' : x.of # k.of
       /\ Range(queue') \subseteq Range(queue)
  BY <1>2, <1>4, <1>6, <1>9 DEF Pending
<1> QED BY <1>6, <1>8, <1>9, <1>10, <1>11, <1>12, <1>13, QueueJInv

\* The jobs whose session was cancelled leave.
LEMMA KeptFacts ==
    ASSUME JInv
    PROVE  /\ Kept \in Seq(Job) /\ Unique(Kept) /\ Range(Kept) \subseteq Range(queue)
           /\ Range(Dropped) \subseteq Range(queue)
           /\ \A x \in Range(Dropped), y \in Range(Kept) : x.of # y.of
           /\ \A y \in Range(Kept) : ~IsCancelled(y)
           /\ SumSizes(queue) = SumSizes(Dropped) + SumSizes(Kept)
           /\ SumSizes(Dropped) \in Int /\ SumSizes(Kept) \in Int
<1>1. queue \in Seq(Job) /\ Unique(queue)
  BY ScanFacts
<1>2. /\ Kept \in Seq(Job) /\ Unique(Kept) /\ Range(Kept) \subseteq Range(queue)
      /\ Range(Kept) = {queue[i] : i \in DOMAIN queue \ CancelledAt}
      /\ Range(Dropped) \subseteq Range(queue)
      /\ \A x \in Range(Dropped), y \in Range(Kept) : x.of # y.of
      /\ SumSizes(queue) = SumSizes(Dropped) + SumSizes(Kept)
      /\ SumSizes(Dropped) \in Int /\ SumSizes(Kept) \in Int
  BY <1>1, SplitFacts DEF Kept, Dropped
<1>3. \A y \in Range(Kept) : ~IsCancelled(y)
  BY <1>2 DEF CancelledAt
<1> QED BY <1>2, <1>3

\* Nothing is due.
LEMMA RestJInv == ASSUME JInv, IInv, Rest PROVE JInv'
<1>1. /\ sched.at = "scan" /\ sched.batch = <<>> /\ sched.failures = <<>>
      /\ queued = SumSizes(queue) /\ DOMAIN sched = SchedFields
  BY ScanFacts DEF Rest, IInv
<1>2. /\ Kept \in Seq(Job) /\ Unique(Kept) /\ Range(Kept) \subseteq Range(queue)
      /\ Range(Dropped) \subseteq Range(queue)
      /\ \A x \in Range(Dropped), y \in Range(Kept) : x.of # y.of
      /\ SumSizes(queue) = SumSizes(Dropped) + SumSizes(Kept)
      /\ SumSizes(Dropped) \in Int /\ SumSizes(Kept) \in Int
  BY KeptFacts
<1>3. /\ queue' = Kept /\ queued' = queued - SumSizes(Dropped) /\ ses' = Rejected(Range(Dropped))
      /\ sched' = [sched EXCEPT !.at = "asleep", !.due = FALSE]
      /\ UNCHANGED <<held, ctx, tasks, accepted, cancelled>>
  BY DEF Rest
<1>4. sched'.at = "asleep" /\ sched'.batch = <<>> /\ sched'.failures = <<>>
  BY <1>1, <1>3 DEF SchedFields
<1>5. SchedulerLists'
  <2>1. <<>> \in Seq(Job) /\ Unique(<<>>) /\ Range(<<>>) = {}
    BY DEF Unique, Range
  <2> QED BY <1>4, <2>1 DEF SchedulerLists, Publishing
<1>6. Unsettled' = {}
  BY <1>4 DEF Unsettled
<1>7. QueueExact'
  BY <1>1, <1>2, <1>3, <1>4 DEF QueueExact
<1>8. sched'.at # "failing" /\ sched'.at # "submit"
  BY <1>4
<1>9. /\ queue' \in Seq(Job) /\ Unique(queue') /\ Range(queue') \cup Unsettled' \subseteq Pending
      /\ \A x \in Range(Dropped), k \in Range(queue') \cup Unsettled' : x.of # k.of
      /\ Range(queue') \subseteq Range(queue)
  BY <1>2, <1>3, <1>6 DEF Pending
<1> QED BY <1>2, <1>3, <1>5, <1>6, <1>7, <1>8, <1>9, QueueJInv

\* A batch is given to the adapter.
LEMMA DispatchJInv == ASSUME JInv, IInv, Dispatch PROVE JInv'
<1>1. /\ sched.at = "scan" /\ sched.batch = <<>> /\ sched.failures = <<>>
      /\ queued = SumSizes(queue) /\ DOMAIN sched = SchedFields
  BY ScanFacts DEF Dispatch, IInv
<1>2. /\ Kept \in Seq(Job) /\ Unique(Kept) /\ Range(Kept) \subseteq Range(queue)
      /\ Range(Dropped) \subseteq Range(queue)
      /\ \A x \in Range(Dropped), y \in Range(Kept) : x.of # y.of
      /\ \A y \in Range(Kept) : ~IsCancelled(y)
      /\ SumSizes(queue) = SumSizes(Dropped) + SumSizes(Kept)
      /\ SumSizes(Dropped) \in Int /\ SumSizes(Kept) \in Int
  BY KeptFacts
<1>3. PICK chosen :
        /\ Len(Only(Kept, chosen)) \in 1 .. BatchLimit
        /\ sched' = [sched EXCEPT !.at = "submit", !.batch = Only(Kept, chosen)]
        /\ accepted' = accepted \cup {Key(j) : j \in Range(Only(Kept, chosen))}
        /\ queue' = Only(Kept, DOMAIN Kept \ chosen)
  BY DEF Dispatch
<1>4. /\ queued' = queued - SumSizes(Dropped) /\ ses' = Rejected(Range(Dropped))
      /\ UNCHANGED <<held, ctx, tasks, cancelled>>
  BY DEF Dispatch
<1> DEFINE b == Only(Kept, chosen)
           q == Only(Kept, DOMAIN Kept \ chosen)
<1>5. /\ b \in Seq(Job) /\ q \in Seq(Job) /\ Unique(b) /\ Unique(q)
      /\ Range(b) \subseteq Range(Kept) /\ Range(q) \subseteq Range(Kept)
      /\ \A x \in Range(b), y \in Range(q) : x.of # y.of
      /\ SumSizes(Kept) = SumSizes(b) + SumSizes(q)
      /\ SumSizes(b) \in Int /\ SumSizes(q) \in Int
  BY <1>2, SplitFacts
<1>6. /\ Len(b) \in 1 .. BatchLimit /\ queue' = q
      /\ sched' = [sched EXCEPT !.at = "submit", !.batch = b]
      /\ accepted' = accepted \cup {Key(j) : j \in Range(b)}
  BY <1>3
<1> HIDE DEF b, q
<1>7. sched'.at = "submit" /\ sched'.batch = b /\ sched'.failures = <<>>
  BY <1>1, <1>6 DEF SchedFields
<1>8. SchedulerLists'
  <2>1. b # <<>> /\ <<>> \in Seq(Job)
    BY <1>5, <1>6
  <2>2. \A j \in Range(b) : Key(j) \in accepted'
    BY <1>6
  <2> QED BY <1>5, <1>7, <2>1, <2>2 DEF SchedulerLists, Publishing
<1>9. Unsettled' = Range(b)
  BY <1>7 DEF Unsettled, Range
<1>10. QueueExact'
  BY <1>1, <1>2, <1>4, <1>5, <1>6, <1>7 DEF QueueExact
<1>11. sched'.at # "failing" /\ (sched'.at = "submit" =>
         \A j \in Range(sched'.batch) : j \in Range(queue) /\ ~IsCancelled(j))
  BY <1>2, <1>5, <1>7
<1>12. /\ queue' \in Seq(Job) /\ Unique(queue') /\ Range(queue') \cup Unsettled' \subseteq Pending
       /\ \A j \in Range(queue'), k \in Unsettled' : j.of # k.of
       /\ \A x \in Range(Dropped), k \in Range(queue') \cup Unsettled' : x.of # k.of
       /\ Range(queue') \subseteq Range(queue)
  BY <1>2, <1>5, <1>6, <1>9 DEF Pending
<1> QED BY <1>2, <1>4, <1>8, <1>10, <1>11, <1>12, QueueJInv

\* The adapter raises: the queue is drained.
LEMMA SubmitFailsJInv == ASSUME JInv, IInv, SubmitFails PROVE JInv'
<1>1. /\ sched.at = "submit" /\ DOMAIN sched = SchedFields /\ sched.batch \in Seq(Job)
      /\ Unique(sched.batch) /\ sched.batch # <<>>
      /\ \A j \in Range(sched.batch) : Key(j) \in accepted
  BY DEF SubmitFails, IInv, JInv, SchedulerLists
<1>2. queue \in Seq(Job) /\ Unique(queue) /\ SumSizes(queue) \in Int
  BY ScanFacts
<1>3. SumSizes(sched.batch) \in Int /\ SumSizes(<<>>) = 0
  BY <1>1, SumType, JobsSized
<1>4. /\ queue' = <<>> /\ queued' = queued - SumSizes(queue) - SumSizes(sched.batch)
      /\ ses' = Rejected(Range(queue))
      /\ sched' = [sched EXCEPT !.at = "settle", !.due = FALSE, !.bad = TRUE, !.worker = "failed",
                                !.failures = DrainedFailures]
      /\ UNCHANGED <<held, ctx, tasks, accepted, cancelled>>
  BY DEF SubmitFails
<1>5. DrainedFailures \in Seq(Job)
  BY <1>2, OnlyRange DEF DrainedFailures
<1>6. sched'.at = "settle" /\ sched'.batch = sched.batch /\ sched'.failures = DrainedFailures
  BY <1>1, <1>4 DEF SchedFields
<1>7. SchedulerLists'
  BY <1>1, <1>4, <1>5, <1>6 DEF SchedulerLists, Publishing
<1>8. Unsettled' = Unsettled
  BY <1>1, <1>6 DEF Unsettled
<1>9. QueueExact'
  <2>1. queued = SumSizes(queue) + SumSizes(sched.batch)
    BY <1>1 DEF JInv, QueueExact
  <2> QED BY <1>2, <1>3, <1>4, <1>6, <2>1 DEF QueueExact
<1>10. sched'.at # "failing" /\ sched'.at # "submit"
  BY <1>6
<1>11. <<>> \in Seq(Job) /\ Unique(<<>>) /\ Range(<<>>) = {}
  BY DEF Unique, Range
<1>12. /\ queue' \in Seq(Job) /\ Unique(queue') /\ Range(queue') \cup Unsettled' \subseteq Pending
       /\ \A j \in Range(queue'), k \in Unsettled' : j.of # k.of
       /\ Range(queue') \subseteq Range(queue)
  BY <1>4, <1>8, <1>11 DEF Pending
<1>13. \A x \in Range(queue), k \in Range(queue') \cup Unsettled' : x.of # k.of
  BY <1>4, <1>8, <1>11 DEF JInv, OneJobEach
<1> QED BY <1>4, <1>7, <1>9, <1>10, <1>12, <1>13, QueueJInv

\* The adapter answers.
LEMMA SubmitReturnsJInv == ASSUME JInv, IInv, SubmitReturns PROVE JInv'
<1>1. /\ sched.at = "submit" /\ DOMAIN sched = SchedFields /\ sched.batch \in Seq(Job)
  BY DEF SubmitReturns, IInv, JInv, SchedulerLists
<1>2. /\ queued' = queued - SumSizes(sched.batch)
      /\ sched' = [sched EXCEPT !.at = "settle", !.due = FALSE]
      /\ UNCHANGED <<ses, held, ctx, tasks, queue, cancelled, accepted>>
  BY DEF SubmitReturns
<1>3. sched'.at = "settle" /\ sched'.batch = sched.batch /\ sched'.failures = sched.failures
  BY <1>1, <1>2 DEF SchedFields
<1>4. SumSizes(sched.batch) \in Int /\ SumSizes(queue) \in Int
  BY <1>1, ScanFacts, SumType, JobsSized
<1>5. QueueExact'
  BY <1>1, <1>2, <1>3, <1>4 DEF QueueExact, JInv
<1>6. SchedulerLists' /\ Unsettled' = Unsettled
  BY <1>1, <1>2, <1>3 DEF SchedulerLists, Unsettled, JInv, Publishing
<1>7. Owners' /\ Barriers' /\ OneJobEach' /\ OpenInAdapter' /\ FailingOver'
  BY <1>2, <1>3, <1>6 DEF JInv, Owners, Barriers, NotSubmitted, OneJobEach, OpenInAdapter,
                          FailingOver, tasks
<1> QED BY <1>5, <1>6, <1>7 DEF JInv

\* WakeUp, Stop and the close of the scheduler: nothing is in the worker's hands.
LEMMA IdleJInv == ASSUME JInv, IInv, WakeUp \/ Stop \/ CloseScheduler PROVE JInv'
<1>1. DOMAIN sched = SchedFields
  BY DEF IInv
<1>2. UNCHANGED <<ses, held, ctx, tasks, queue, queued, cancelled, accepted>>
  BY DEF WakeUp, Stop, CloseScheduler, ready
<1>3. /\ sched'.batch = sched.batch /\ sched'.failures = sched.failures
      /\ \/ sched'.at = sched.at
         \/ sched.at \in {"scan", "asleep"} /\ sched'.at \in {"scan", "stopped"}
  BY <1>1 DEF WakeUp, Stop, CloseScheduler, SchedFields
<1>4. CASE sched'.at = sched.at
  BY <1>2, <1>3, <1>4, QuietJInv DEF SchedulerStays
<1>5. CASE sched.at \in {"scan", "asleep"} /\ sched'.at \in {"scan", "stopped"}
  <2>1. SchedulerLists' /\ Unsettled' = {} /\ Unsettled = {}
    BY <1>2, <1>3, <1>5 DEF JInv, SchedulerLists, Publishing, Unsettled
  <2>2. Owners' /\ Barriers' /\ OneJobEach' /\ OpenInAdapter' /\ FailingOver' /\ QueueExact'
    BY <1>2, <1>3, <1>5, <2>1 DEF JInv, Owners, Barriers, NotSubmitted, OneJobEach,
         OpenInAdapter, FailingOver, QueueExact, tasks
  <2> QED BY <2>1, <2>2 DEF JInv
<1> QED BY <1>3, <1>4, <1>5

-----------------------------------------------------------------------------
(* The scheduler: results *)

\* The job at hand.
LEMMA CurrentFacts ==
    ASSUME JInv, IInv, sched.at \in {"settle"} \cup Publishing
    PROVE  /\ Current \in Job /\ Current.of \in Sessions /\ Current.gen = 1
           /\ DOMAIN sched = SchedFields
           /\ sched.at = "settle" => Current \in Unsettled
           /\ sched.at \notin {"scan", "asleep", "stopped", "submit"}
<1>1. sched.batch \in Seq(Job) /\ sched.failures \in Seq(Job)
  BY DEF JInv, SchedulerLists
<1>2. sched.batch # <<>> \/ sched.failures # <<>>
  BY DEF JInv, SchedulerLists
<1>3. Current \in Job
  BY <1>1, <1>2 DEF Current
<1>4. sched.at = "settle" => Current \in Unsettled
  <2>1. sched.at = "settle" => sched.batch # <<>>
    BY DEF JInv, SchedulerLists
  <2>2. sched.batch # <<>> => 1 \in DOMAIN sched.batch /\ Current = sched.batch[1]
    BY <1>1 DEF Current
  <2> QED BY <2>1, <2>2 DEF Unsettled
<1>5. sched.at \notin {"scan", "asleep", "stopped", "submit"} /\ DOMAIN sched = SchedFields
  BY DEF Publishing, IInv
<1> QED BY <1>3, <1>4, <1>5, JobFacts

\* The task goes to another place with the same job.
LEMMA MoveGoes ==
    ASSUME JInv, IInv, sched.at \in {"settle"} \cup Publishing, NEW a \in Publishing,
           sched' = [sched EXCEPT !.at = a], UNCHANGED accepted,
           a = "failing" => Over(ses'[Current.of])
    PROVE  SchedulerGoes
<1>1. /\ DOMAIN sched = SchedFields /\ sched.at \notin {"scan", "asleep", "stopped", "submit"}
  BY CurrentFacts
<1>2. sched'.at = a /\ sched'.batch = sched.batch /\ sched'.failures = sched.failures
  BY <1>1 DEF SchedFields
<1>3. a \notin {"scan", "asleep", "stopped", "submit", "settle"}
  BY DEF Publishing
<1>4. SchedulerLists'
  BY <1>1, <1>2, <1>3 DEF JInv, SchedulerLists
<1>5. Unsettled' \subseteq Unsettled /\ Current' = Current
  BY <1>2, <1>3 DEF Unsettled, Current
<1> QED BY <1>1, <1>2, <1>3, <1>4, <1>5 DEF SchedulerGoes

\* The job at hand is done with: the next one, of another session, is settled.
LEMMA DoneGoes ==
    ASSUME JInv, IInv, sched.at \in {"settle"} \cup Publishing, Done
    PROVE  /\ SchedulerGoes /\ sched'.at \notin {"submit", "failing"}
           /\ sched.at = "settle" => \A k \in Unsettled' : k.of # Current.of
<1> DEFINE b == sched.batch
           f == sched.failures
<1>1. /\ DOMAIN sched = SchedFields /\ sched.at \notin {"scan", "asleep", "stopped", "submit"}
      /\ b \in Seq(Job) /\ f \in Seq(Job) /\ Unique(b) /\ \A j \in Range(b) : Key(j) \in accepted
      /\ b # <<>> \/ f # <<>>
      /\ sched.at = "settle" => b # <<>>
  BY CurrentFacts DEF JInv, SchedulerLists
<1>2. CASE b # <<>>
  <2> DEFINE t == Tail(b)
  <2>1. /\ t \in Seq(Job) /\ DOMAIN t = 1 .. Len(b) - 1 /\ \A i \in DOMAIN t : t[i] = b[i + 1]
        /\ \A i \in DOMAIN t : i + 1 \in DOMAIN b /\ i + 1 # 1
        /\ 1 \in DOMAIN b /\ Current = b[1]
    BY <1>1, <1>2 DEF Current
  <2>2. sched' = NextResult(t, f) /\ accepted' = accepted \ {Key(Current)}
    BY <1>2 DEF Done
  <2> HIDE DEF t, b, f
  <2>3. Unique(t)
    <3>1. ASSUME NEW i \in DOMAIN t, NEW k \in DOMAIN t, t[i].of = t[k].of PROVE i = k
      <4>1. i + 1 = k + 1
        BY <1>1, <2>1, <3>1 DEF Unique
      <4>2. i \in Int /\ k \in Int
        BY <1>1, <2>1 DEF b
      <4> QED BY <4>1, <4>2
    <3> QED BY <3>1 DEF Unique
  <2>4. \A j \in Range(t) : j \in Range(b) /\ j.of # Current.of /\ j \in {b[k] : k \in DOMAIN b \ {1}}
    <3>1. ASSUME NEW i \in DOMAIN t
          PROVE  t[i] \in Range(b) /\ t[i].of # Current.of /\ t[i] \in {b[k] : k \in DOMAIN b \ {1}}
      <4>1. t[i] = b[i + 1] /\ i + 1 \in DOMAIN b \ {1}
        BY <2>1
      <4> QED BY <1>1, <2>1, <4>1 DEF Unique, Range
    <3> QED BY <3>1 DEF Range
  <2>5. \A j \in Range(t) : Key(j) \in accepted'
    <3>1. \A j \in Range(b) : j \in Job
      BY <1>1 DEF Range, b
    <3>2. \A j \in Range(t) : Key(j) # Key(Current)
      BY <2>4 DEF Key
    <3> QED BY <1>1, <2>2, <2>4, <3>2
  <2>6. /\ sched'.batch = t /\ sched'.failures = f
        /\ sched'.at = IF t # <<>> THEN "settle" ELSE IF f # <<>> THEN "publish" ELSE "scan"
    BY <1>1, <2>2 DEF NextResult, SchedFields
  <2>7. SchedulerLists'
    <3>1. t = <<>> => f = f
      OBVIOUS
    <3> QED BY <1>1, <2>1, <2>3, <2>5, <2>6 DEF SchedulerLists, Publishing
  <2>8. Unsettled' \subseteq Range(t)
    BY <2>6 DEF Unsettled, Range
  <2>9. {b[k] : k \in DOMAIN b \ {1}} \subseteq Unsettled
    BY DEF Unsettled, b
  <2>10. sched'.at \notin {"submit", "failing"}
    BY <2>6
  <2>11. Unsettled' \subseteq Unsettled /\ \A k \in Unsettled' : k.of # Current.of
    BY <2>4, <2>8, <2>9
  <2> QED BY <1>1, <2>7, <2>10, <2>11 DEF SchedulerGoes
<1>3. CASE b = <<>>
  <2> DEFINE t == Tail(f)
  <2>1. sched' = NextResult(<<>>, t) /\ accepted' = accepted /\ t \in Seq(Job)
    BY <1>1, <1>3 DEF Done
  <2> HIDE DEF t, b, f
  <2>2. /\ sched'.batch = <<>> /\ sched'.failures = t
        /\ sched'.at = IF t # <<>> THEN "publish" ELSE "scan"
    BY <1>1, <2>1 DEF NextResult, SchedFields
  <2>3. <<>> \in Seq(Job) /\ Unique(<<>>) /\ Range(<<>>) = {}
    BY DEF Unique, Range
  <2>4. SchedulerLists'
    BY <2>1, <2>2, <2>3 DEF SchedulerLists, Publishing
  <2>5. Unsettled' = {} /\ sched'.at \notin {"submit", "failing"}
    BY <2>2 DEF Unsettled
  <2> QED BY <1>1, <1>3, <2>4, <2>5 DEF SchedulerGoes
<1> QED BY <1>2, <1>3

\* The reservation is acknowledged.
LEMMA AcknowledgeOwner ==
    ASSUME NEW r, NEW x, NEW w, NEW h, NEW o, Owner(r, x, w, h, o), InFlight(r)
    PROVE  Owner(Acknowledge(r), x, w, h, o) /\ Acknowledge(r).gen = r.gen
<1> DEFINE t == Acknowledge(r)
<1>1. r \in SessionType /\ ReservationOK(r, x) /\ ~Over(r)
  BY DEF Owner
<1>2. r.res.start <= r.res.end /\ r.res.end - r.res.start <= r.data
  <2>1. r.res.start \in Nat /\ r.res.end \in Nat
    BY <1>1 DEF SessionType, Reservation
  <2> QED BY <1>1, <2>1 DEF ReservationOK
<1>3. /\ t \in SessionType /\ t.res = NoReservation /\ t.nextSeq = r.nextSeq
      /\ t.gen = r.gen /\ t.state = r.state /\ t.finishReq = r.finishReq
  BY <1>1, <1>2, AcknowledgeFacts
<1> HIDE DEF t
<1>4. ~InFlight(t) /\ ~Over(t)
  BY <1>1, <1>3 DEF InFlight, Over
<1>5. Owner(t, x, w, h, o)
  BY <1>1, <1>3, <1>4 DEF Owner
<1> QED BY <1>3, <1>5 DEF t

\* A job of a batch is settled.
LEMMA SettleJInv == ASSUME JInv, IInv, Settle PROVE JInv'
<1> DEFINE j == Current
<1>1. /\ j \in Job /\ j.of \in Sessions /\ j \in Unsettled /\ sched.at = "settle"
      /\ DOMAIN sched = SchedFields
  BY CurrentFacts DEF Settle
<1>2. /\ ses' = IF Owns(j) THEN [ses EXCEPT ![j.of] = Acknowledge(@)] ELSE ses
      /\ \/ sched' = [sched EXCEPT !.at = "publish"] /\ UNCHANGED accepted
         \/ Done
      /\ UNCHANGED <<held, ctx, tasks, queue, queued, cancelled>>
  BY DEF Settle, ready
<1>3. /\ SchedulerGoes /\ sched'.at \notin {"submit", "failing"}
      /\ \A k \in Unsettled' : k.of # j.of
  <2>1. CASE sched' = [sched EXCEPT !.at = "publish"] /\ UNCHANGED accepted
    <3>1. SchedulerGoes
      BY <1>1, <2>1, MoveGoes DEF Publishing
    <3>2. sched'.at = "publish" /\ sched'.batch = sched.batch
      BY <1>1, <2>1 DEF SchedFields
    <3>3. ASSUME NEW i \in DOMAIN sched.batch, i # 1 PROVE sched.batch[i].of # j.of
      <4>1. sched.batch \in Seq(Job) /\ Unique(sched.batch)
        BY DEF JInv, SchedulerLists
      <4>2. j = sched.batch[1] /\ 1 \in DOMAIN sched.batch
        BY <3>3, <4>1 DEF Current
      <4> QED BY <3>3, <4>1, <4>2 DEF Unique
    <3> HIDE DEF j
    <3> QED BY <3>1, <3>2, <3>3 DEF Unsettled
  <2>2. CASE Done
    BY <1>1, <2>2, DoneGoes
  <2> QED BY <1>2, <2>1, <2>2
<1> HIDE DEF j
<1>4. Owns(j) => InFlight(ses[j.of])
  <2>1. j.seq # 0
    BY <1>1, JobFacts
  <2> QED BY <2>1 DEF Owns, MatchesReservation, InFlight, NoReservation
<1>5. \A s \in Sessions : ses'[s] = IF Owns(j) /\ s = j.of THEN Acknowledge(ses[s]) ELSE ses[s]
  BY <1>1, <1>2 DEF JInv, Owners
<1>6. ses' = [s \in Sessions |-> ses'[s]]
  BY <1>1, <1>2 DEF JInv, Owners
<1>7. ASSUME NEW s \in Sessions
      PROVE  Owner(ses'[s], ctx[s], pc[s], held[s], outside[s]) /\ ses'[s].gen = ses[s].gen
  <2>1. Owner(ses[s], ctx[s], pc[s], held[s], outside[s])
    BY DEF JInv, Owners
  <2>2. Owns(j) /\ s = j.of =>
          /\ Owner(Acknowledge(ses[s]), ctx[s], pc[s], held[s], outside[s])
          /\ Acknowledge(ses[s]).gen = ses[s].gen
    BY <1>4, <2>1, AcknowledgeOwner
  <2> QED BY <1>5, <2>1, <2>2
<1>8. Owners'
  BY <1>2, <1>6, <1>7 DEF JInv, Owners, tasks
<1>9. Barriers'
  <2>1. \A s \in Sessions : NotSubmitted(s)'
    BY <1>3 DEF NotSubmitted
  <2> QED BY <1>2, <1>7, <2>1 DEF JInv, Barriers, tasks
<1>10. OneJobEach'
  <2>1. \A k \in Range(queue) : k.of # j.of
    BY <1>1 DEF JInv, OneJobEach
  <2>2. ASSUME NEW k \in Range(queue) \cup Unsettled', ses'[k.of].gen = 1
        PROVE  MatchesReservation(ses'[k.of], k)
    <3>1. k \in Pending /\ k.of # j.of
      BY <1>3, <2>1 DEF Pending, SchedulerGoes
    <3>2. k.of \in Sessions
      BY <3>1, JobFacts DEF Pending, JInv, OneJobEach, SchedulerLists, Unsettled, Range
    <3>3. ses'[k.of] = ses[k.of]
      BY <1>5, <3>1, <3>2
    <3> QED BY <2>2, <3>1, <3>3 DEF JInv, OneJobEach, Pending
  <2> QED BY <1>2, <1>3, <2>2 DEF JInv, OneJobEach, SchedulerGoes
<1>11. OpenInAdapter' /\ QueueExact' /\ SchedulerLists' /\ FailingOver'
  BY <1>1, <1>2, <1>3 DEF JInv, OpenInAdapter, QueueExact, SchedulerGoes, FailingOver
<1> QED BY <1>8, <1>9, <1>10, <1>11 DEF JInv

\* Audio is taken, or nothing is, and no job scheduled.
LEMMA UnscheduledJInv ==
    ASSUME JInv, IInv, NEW s \in Sessions, NEW r, NEW c, NEW x, NEW v, NEW h,
           Owner(r, c, pc[s], h, outside[s]), DOMAIN c = CtxFields, Grows(ses[s], r),
           c.backend = ctx[s].backend, Unlocks(x, c, r), Passes(pc[s], v),
           ses' = [ses EXCEPT ![s] = r], ctx' = [ctx EXCEPT ![s] = x],
           pc' = [pc EXCEPT ![s] = v], held' = [held EXCEPT ![s] = h],
           UNCHANGED <<outside, cancelled, ready>>,
           SchedulerStays \/ SchedulerGoes
    PROVE  JInv'
<1> DEFINE m == [r |-> r, c |-> c, raised |-> FALSE, put |-> FALSE]
<1>1. m.r = r /\ m.c = c /\ m.raised = FALSE /\ m.put = FALSE
  OBVIOUS
<1> HIDE DEF m
<1>2. r \in SessionType
  BY DEF Owner
<1>3. Owner(m.r, m.c, pc[s], h, outside[s]) /\ Scheduled(s, r, c, m) /\ Unlocks(x, m.c, m.r)
  BY <1>1, <1>2 DEF Scheduled
<1>4. Enqueue(s, m)
  BY <1>1 DEF Enqueue
<1>5. ses' = [ses EXCEPT ![s] = m.r] /\ UNCHANGED <<outside, cancelled>>
  BY <1>1
<1> QED BY <1>3, <1>4, <1>5, ScheduledJInv

\* A step of the scheduler that changes one context only.
LEMMA ResultJInv ==
    ASSUME JInv, IInv, NEW s \in Sessions, NEW x, Owner(ses[s], x, pc[s], held[s], outside[s]),
           x.backend = ctx[s].backend, ctx' = [ctx EXCEPT ![s] = x],
           UNCHANGED <<ses, held, tasks, ready, cancelled>>, SchedulerGoes
    PROVE  JInv'
<1>1. /\ ses' = [ses EXCEPT ![s] = ses[s]] /\ held' = [held EXCEPT ![s] = held[s]]
      /\ outside' = [outside EXCEPT ![s] = outside[s]] /\ pc' = [pc EXCEPT ![s] = pc[s]]
  BY OwnerOf DEF tasks
<1>2. Keeps(s, ses[s]) /\ KeepsOpen(s, x) /\ Adds(s, ses[s], x)
  BY DEF Keeps, KeepsOpen, Adds, ready
<1>3. KeepsBarrier(s, ses[s], pc[s], outside[s])
  BY DEF KeepsBarrier, JInv, Barriers, SchedulerGoes, NotSubmitted
<1> QED BY <1>1, <1>2, <1>3, StepJInv

\* A released or stale session.
LEMMA PublishNothingJInv == ASSUME JInv, IInv, PublishNothing PROVE JInv'
<1> DEFINE s == Current.of
           x == [ctx[s] EXCEPT !.idle = TRUE]
<1>1. sched.at \in {"settle"} \cup Publishing
  BY DEF PublishNothing, Publishing
<1>2. s \in Sessions /\ Current.gen = 1
  BY <1>1, CurrentFacts
<1>3. SchedulerGoes /\ UNCHANGED <<ses, held, tasks, ready, cancelled>>
  BY <1>1, DoneGoes DEF PublishNothing
<1>4. /\ Owner(ses[s], ctx[s], pc[s], held[s], outside[s]) /\ DOMAIN ctx[s] = CtxFields
      /\ ctx = [ctx EXCEPT ![s] = ctx[s]]
  BY <1>2, OwnerOf
<1>5. CASE ctx' = ctx
  BY <1>2, <1>3, <1>4, <1>5, ResultJInv
<1>6. CASE IsStale(Current) /\ ctx' = [ctx EXCEPT ![s].idle = TRUE]
  <2>1. ~InFlight(ses[s])
    BY <1>2, <1>4, <1>6 DEF IsStale, Ended, EndedStates, Owner, Over
  <2>2. Unlocks(x, ctx[s], ses[s]) /\ Passes(pc[s], pc[s])
    BY <1>4, <2>1 DEF Unlocks, CtxFields, Passes
  <2>3. ctx' = [ctx EXCEPT ![s] = x] /\ x.backend = ctx[s].backend
    BY <1>2, <1>4, <1>6 DEF IInv, Indexed, CtxFields
  <2> HIDE DEF x, s
  <2>4. Owner(ses[s], x, pc[s], held[s], outside[s])
    BY <1>4, <2>2, UnlocksOwner
  <2> QED BY <1>2, <1>3, <2>3, <2>4, ResultJInv
<1> QED BY <1>5, <1>6 DEF PublishNothing

\* What publishing finds.
LEMMA PublishesFacts ==
    ASSUME JInv, IInv, sched.at \in Publishing, Publishes(Current) \/ sched.at = "segmenting"
    PROVE  LET s == Current.of
           IN  /\ s \in Sessions /\ MaySchedule(ctx[s], pc[s]) /\ DOMAIN ctx[s] = CtxFields
               /\ Publishes(Current) => ses[s].gen = 1
               /\ Owner(ses[s], ctx[s], pc[s], held[s], outside[s])
<1> DEFINE s == Current.of
<1>1. Current.of \in Sessions /\ Current.gen = 1
  BY CurrentFacts
<1>2. ctx[s].lock \in {"free", "scheduler"} /\ ~ctx[s].terminal
  BY <1>1 DEF Publishes, LockFree, IsStale, IInv, SchedulerLocks
<1>3. DOMAIN ctx[s] = CtxFields /\ pc[s] \notin Locked
  BY <1>1, <1>2, PublishFacts
<1>4. MaySchedule(ctx[s], pc[s])
  BY <1>2, <1>3 DEF MaySchedule, Locked
<1>5. Publishes(Current) => ses[s].gen = 1
  BY <1>1 DEF Publishes, IsStale
<1>6. Owner(ses[s], ctx[s], pc[s], held[s], outside[s])
  BY <1>1, OwnerOf
<1> QED BY <1>1, <1>3, <1>4, <1>5, <1>6

\* _fail_session by the scheduler, under the lock.
LEMMA PublishErrorJInv == ASSUME JInv, IInv, PublishError PROVE JInv'
<1> DEFINE s == Current.of
           t == FailSession(ses[s])
           x == [ctx[s] EXCEPT !.lock = "scheduler", !.backend = FALSE]
<1>1. sched.at \in Publishing /\ Publishes(Current)
  BY DEF PublishError, Publishing
<1>2. /\ s \in Sessions /\ DOMAIN ctx[s] = CtxFields /\ ses[s].gen = 1
      /\ Owner(ses[s], ctx[s], pc[s], held[s], outside[s])
  BY <1>1, PublishesFacts
<1>3. /\ Cancel(s) /\ ses' = [ses EXCEPT ![s] = t] /\ ctx' = [ctx EXCEPT ![s] = x]
      /\ sched' = [sched EXCEPT !.at = "failing"]
      /\ UNCHANGED <<held, tasks, ready, accepted>>
  BY <1>2 DEF PublishError, IInv, Indexed
<1>4. Closes(x, ctx[s])
  BY <1>2 DEF Closes, CtxFields
<1> HIDE DEF x
<1>5. Ends(ses[s], ctx[s], pc[s], held[s], t, x, pc[s], held[s])
  BY <1>4 DEF Ends
<1> HIDE DEF t
<1>6. Owner(t, x, pc[s], held[s], outside[s]) /\ Over(t) /\ t.gen # 1
  BY <1>2, <1>5, EndedOwner
<1>7. ses'[s] = t
  BY <1>2, <1>3 DEF JInv, Owners
<1>8. SchedulerGoes
  BY <1>1, <1>3, <1>6, <1>7, MoveGoes DEF Publishing
<1>9. sched'.at = "failing"
  BY <1>3 DEF IInv, SchedFields
<1>10. KeepsOpen(s, x)
  BY <1>2, <1>3, <1>9 DEF KeepsOpen, Cancel, Now, NotSubmitted
<1>11. Keeps(s, t) /\ KeepsBarrier(s, t, pc[s], outside[s]) /\ Adds(s, t, x)
  BY <1>3, <1>6 DEF Keeps, KeepsBarrier, Adds, ready
<1>12. /\ held' = [held EXCEPT ![s] = held[s]]
       /\ outside' = [outside EXCEPT ![s] = outside[s]] /\ pc' = [pc EXCEPT ![s] = pc[s]]
  BY <1>2, <1>3, OwnerOf DEF tasks
<1> HIDE DEF s
<1> QED BY <1>2, <1>3, <1>6, <1>8, <1>10, <1>11, <1>12, StepJInv

\* The error's event.
LEMMA ErrorPublishedJInv == ASSUME JInv, IInv, ErrorPublished PROVE JInv'
<1> DEFINE s == Current.of
           e == TerminalEvent(ctx[s])
           x == [e EXCEPT !.lock = "free", !.idle = TRUE]
<1>1. sched.at \in {"settle"} \cup Publishing /\ sched.at = "failing"
  BY DEF ErrorPublished, Publishing
<1>2. s \in Sessions
  BY <1>1, CurrentFacts
<1>3. SchedulerGoes /\ UNCHANGED <<ses, held, tasks, ready, cancelled>>
  BY <1>1, DoneGoes DEF ErrorPublished
<1>4. /\ Owner(ses[s], ctx[s], pc[s], held[s], outside[s]) /\ DOMAIN ctx[s] = CtxFields
      /\ Over(ses[s])
  BY <1>1, <1>2, OwnerOf DEF JInv, FailingOver
<1>5. /\ DOMAIN e = CtxFields /\ e.endpoint = ctx[s].endpoint /\ e.live = ctx[s].live
      /\ e.backend = ctx[s].backend
  BY <1>4 DEF TerminalEvent, Event, CtxFields
<1>6. ctx' = [ctx EXCEPT ![s] = x]
  BY <1>2 DEF ErrorPublished, IInv, Indexed
<1> HIDE DEF e
<1>7. x.endpoint = e.endpoint /\ x.live = e.live /\ x.backend = e.backend /\ x.idle = TRUE
  BY <1>5 DEF CtxFields
<1> HIDE DEF x
<1>8. Owner(ses[s], x, pc[s], held[s], outside[s])
  BY <1>4, <1>5, <1>7 DEF Owner
<1> HIDE DEF s
<1> QED BY <1>2, <1>3, <1>5, <1>6, <1>7, <1>8, ResultJInv

\* The end of _apply_result_locked.
LEMMA ApplyEndsJInv ==
    ASSUME JInv, IInv, sched.at \in Publishing, NEW s \in Sessions,
           NEW r, NEW c, NEW force, NEW h, Owner(r, c, pc[s], h, outside[s]),
           MaySchedule(c, pc[s]), Grows(ses[s], r), c.backend = ctx[s].backend,
           ApplyEnds(s, r, c, force), held' = [held EXCEPT ![s] = h],
           UNCHANGED <<tasks, cancelled>>
    PROVE  JInv'
<1> DEFINE F == force \/ c.endpoint \/ r.finishReq
           n == ScheduleNext(r, c, F)
           y == [n.c EXCEPT !.lock = "free"]
           last == [n.c EXCEPT !.idle = @ \/ (~n.put /\ Drained(n.r)), !.lock = "free"]
           z == Event(last)
<1>1. /\ ses' = [ses EXCEPT ![s] = n.r] /\ Enqueue(s, n)
      /\ \/ Repairs(s, n.c)
         \/ ctx' = [ctx EXCEPT ![s] = z] /\ Done
  BY DEF ApplyEnds
<1>2. Owner(n.r, n.c, pc[s], h, outside[s]) /\ Scheduled(s, r, c, n)
  BY ScheduleFacts
<1> HIDE DEF F, n
<1>3. DOMAIN n.c = CtxFields
  BY <1>2 DEF Scheduled
<1>4. Unlocks(y, n.c, n.r)
  BY <1>3 DEF Unlocks, CtxFields
<1>5. Unlocks(z, n.c, n.r)
  <2>1. /\ DOMAIN last = CtxFields /\ last.endpoint = n.c.endpoint /\ last.live = n.c.live
        /\ last.backend = n.c.backend /\ last.terminal = n.c.terminal /\ last.last = n.c.last
        /\ last.shut = n.c.shut /\ last.idle = (n.c.idle \/ (~n.put /\ Drained(n.r)))
    BY <1>3 DEF CtxFields
  <2>2. Drained(n.r) => ~InFlight(n.r)
    BY DEF Drained
  <2> HIDE DEF last
  <2>3. /\ z.endpoint = last.endpoint /\ z.live = last.live /\ z.backend = last.backend
        /\ z.terminal = last.terminal /\ z.last = last.last /\ z.shut = last.shut
        /\ z.idle = last.idle
    BY <2>1 DEF Event, CtxFields
  <2> HIDE DEF z
  <2> QED BY <2>1, <2>2, <2>3 DEF Unlocks
<1> HIDE DEF y, z
<1>6. PICK x : ctx' = [ctx EXCEPT ![s] = x] /\ Unlocks(x, n.c, n.r) /\ SchedulerGoes
  <2>1. CASE Repairs(s, n.c)
    <3>1. ctx' = [ctx EXCEPT ![s] = y] /\ sched' = [sched EXCEPT !.at = "repair"] /\ UNCHANGED accepted
      BY <2>1 DEF Repairs, y
    <3>2. SchedulerGoes
      BY <3>1, MoveGoes DEF Publishing
    <3> QED BY <1>4, <3>1, <3>2
  <2>2. CASE ctx' = [ctx EXCEPT ![s] = z] /\ Done
    <3>1. SchedulerGoes
      BY <2>2, DoneGoes
    <3> QED BY <1>5, <2>2, <3>1
  <2> QED BY <1>1, <2>1, <2>2
<1>7. pc' = [pc EXCEPT ![s] = pc[s]] /\ UNCHANGED <<outside, cancelled>> /\ Passes(pc[s], pc[s])
  BY OwnerOf DEF tasks, Passes
<1> QED BY <1>1, <1>2, <1>6, <1>7, ScheduledJInv

\* A good result that ends no segment.
LEMMA PublishTextJInv == ASSUME JInv, IInv, PublishText PROVE JInv'
<1> DEFINE s == Current.of
<1>1. sched.at \in Publishing /\ Publishes(Current)
  BY DEF PublishText, Publishing
<1>2. /\ s \in Sessions /\ MaySchedule(ctx[s], pc[s])
      /\ Owner(ses[s], ctx[s], pc[s], held[s], outside[s])
  BY <1>1, PublishesFacts
<1>3. ApplyEnds(s, ses[s], ctx[s], FALSE) /\ UNCHANGED <<held, tasks, cancelled>>
  BY DEF PublishText
<1>4. held' = [held EXCEPT ![s] = held[s]] /\ Grows(ses[s], ses[s])
  BY <1>2, <1>3, OwnerOf DEF Grows
<1> HIDE DEF s
<1> QED BY <1>1, <1>2, <1>3, <1>4, ApplyEndsJInv

\* A good result that ends the segment or meets an endpoint.
LEMMA PublishSegmentJInv == ASSUME JInv, IInv, PublishSegment PROVE JInv'
<1> DEFINE s == Current.of
           n == ScheduleNext(ses[s], ctx[s], TRUE)
           x == [ctx[s] EXCEPT !.lock = "scheduler"]
           y == [n.c EXCEPT !.lock = "free"]
           z == Event(n.c)
<1>1. sched.at \in Publishing /\ Publishes(Current)
  BY DEF PublishSegment, Publishing
<1>2. /\ s \in Sessions /\ MaySchedule(ctx[s], pc[s]) /\ DOMAIN ctx[s] = CtxFields
      /\ Owner(ses[s], ctx[s], pc[s], held[s], outside[s])
  BY <1>1, PublishesFacts
<1>3. Owner(n.r, n.c, pc[s], held[s], outside[s]) /\ Scheduled(s, ses[s], ctx[s], n)
  BY <1>2, ScheduleFacts
<1>4. /\ UNCHANGED <<held, tasks, cancelled>>
      /\ \/ ses' = [ses EXCEPT ![s] = n.r] /\ Enqueue(s, n) /\ Repairs(s, n.c)
         \/ /\ ses' = [ses EXCEPT ![s] = n.r] /\ Enqueue(s, n)
            /\ ctx' = [ctx EXCEPT ![s] = z] /\ Done
         \/ /\ ses' = ses /\ UNCHANGED ready
            /\ ctx' = [ctx EXCEPT ![s] = x]
            /\ sched' = [sched EXCEPT !.at = "segmenting"] /\ UNCHANGED accepted
  <2>1. [ctx EXCEPT ![s].lock = "scheduler"] = [ctx EXCEPT ![s] = x]
    BY <1>2 DEF IInv, Indexed
  <2>2. ~n.put /\ ~n.raised => n.r = ses[s]
    BY DEF ScheduleNext
  <2>3. ~n.put /\ Enqueue(s, n) => UNCHANGED ready
    BY DEF Enqueue
  <2>4. ses = [ses EXCEPT ![s] = ses[s]]
    BY <1>2, OwnerOf
  <2> HIDE DEF x
  <2> QED BY <2>1, <2>2, <2>3, <2>4 DEF PublishSegment
<1> HIDE DEF n
<1>5. DOMAIN n.c = CtxFields
  BY <1>3 DEF Scheduled
<1>6. Unlocks(y, n.c, n.r) /\ Unlocks(z, n.c, n.r) /\ Unlocks(x, ctx[s], ses[s])
  <2>1. Unlocks(y, n.c, n.r)
    BY <1>5 DEF Unlocks, CtxFields
  <2>2. Unlocks(z, n.c, n.r)
    BY <1>5 DEF Unlocks, CtxFields, Event
  <2>3. Unlocks(x, ctx[s], ses[s])
    BY <1>2 DEF Unlocks, CtxFields
  <2> QED BY <2>1, <2>2, <2>3
<1>7. /\ pc' = [pc EXCEPT ![s] = pc[s]] /\ held' = [held EXCEPT ![s] = held[s]]
      /\ UNCHANGED <<outside, cancelled>>
      /\ Passes(pc[s], pc[s]) /\ Grows(ses[s], ses[s]) /\ ses = [ses EXCEPT ![s] = ses[s]]
  BY <1>2, <1>4, OwnerOf DEF tasks, Passes, Grows
<1>8. CASE ses' = [ses EXCEPT ![s] = n.r] /\ Enqueue(s, n) /\ Repairs(s, n.c)
  <2>1. ctx' = [ctx EXCEPT ![s] = y] /\ sched' = [sched EXCEPT !.at = "repair"] /\ UNCHANGED accepted
    BY <1>8 DEF Repairs
  <2>2. SchedulerGoes
    BY <1>1, <2>1, MoveGoes DEF Publishing
  <2> HIDE DEF y, s
  <2> QED BY <1>2, <1>3, <1>6, <1>7, <1>8, <2>1, <2>2, ScheduledJInv
<1>9. CASE /\ ses' = [ses EXCEPT ![s] = n.r] /\ Enqueue(s, n)
           /\ ctx' = [ctx EXCEPT ![s] = z] /\ Done
  <2>1. SchedulerGoes
    BY <1>1, <1>9, DoneGoes
  <2> HIDE DEF z, s
  <2> QED BY <1>2, <1>3, <1>6, <1>7, <1>9, <2>1, ScheduledJInv
<1>10. CASE /\ ses' = ses /\ UNCHANGED ready
            /\ ctx' = [ctx EXCEPT ![s] = x]
            /\ sched' = [sched EXCEPT !.at = "segmenting"] /\ UNCHANGED accepted
  <2>1. SchedulerGoes
    BY <1>1, <1>10, MoveGoes DEF Publishing
  <2>2. Owner(ses[s], x, pc[s], held[s], outside[s]) /\ x.backend = ctx[s].backend
    BY <1>2, <1>6, <1>7, UnlocksOwner DEF Unlocks
  <2>3. UNCHANGED <<ses, held, tasks, ready, cancelled>>
    BY <1>4, <1>10
  <2> HIDE DEF x, s
  <2> QED BY <1>2, <1>10, <2>1, <2>2, <2>3, ResultJInv
<1> QED BY <1>4, <1>8, <1>9, <1>10

\* The adapter has finished the segment, or has failed to.
LEMMA SegmentJInv == ASSUME JInv, IInv, SegmentEnds \/ SegmentRaises PROVE JInv'
<1> DEFINE s == Current.of
           c == [ctx[s] EXCEPT !.lock = "free"]
           E(e) == [c EXCEPT !.endpoint = e]
           G(audio, dropped) == held[s] - audio - dropped
           R(audio, dropped) == RecordDiscarded(HandOver(ses[s], audio), dropped)
<1>1. sched.at \in Publishing /\ sched.at = "segmenting"
  BY DEF SegmentEnds, SegmentRaises, Publishing
<1>2. /\ s \in Sessions /\ MaySchedule(ctx[s], pc[s]) /\ DOMAIN ctx[s] = CtxFields
      /\ Owner(ses[s], ctx[s], pc[s], held[s], outside[s])
  BY <1>1, PublishesFacts
<1>3. UNCHANGED <<tasks, cancelled>>
  BY DEF SegmentEnds, SegmentRaises
<1>4. /\ c.endpoint = ctx[s].endpoint /\ c.idle = ctx[s].idle /\ c.live = ctx[s].live
      /\ c.backend = ctx[s].backend /\ c.terminal = ctx[s].terminal /\ c.last = ctx[s].last
      /\ c.shut = ctx[s].shut /\ DOMAIN c = CtxFields
  BY <1>2 DEF CtxFields
<1>5. /\ ses[s] \in SessionType /\ held[s] \in Nat /\ ctx[s].endpoint \in BOOLEAN
      /\ ses[s].finishReq => held[s] = 0
      /\ Over(ses[s]) => ses[s].state \notin LiveStates \/ held[s] = 0
  BY <1>2 DEF Owner, EndedStates, LiveStates
<1>6. /\ pc' = [pc EXCEPT ![s] = pc[s]] /\ UNCHANGED <<outside, cancelled>>
      /\ Passes(pc[s], pc[s]) /\ Grows(ses[s], ses[s]) /\ ses = [ses EXCEPT ![s] = ses[s]]
      /\ held = [held EXCEPT ![s] = held[s]]
  BY <1>2, <1>3, OwnerOf DEF tasks, Passes, Grows
<1>7. CASE SegmentRaises
  <2>1. Repairs(s, ctx[s]) /\ UNCHANGED <<ses, held, tasks, ready, cancelled>>
    BY <1>7 DEF SegmentRaises
  <2>2. ctx' = [ctx EXCEPT ![s] = c] /\ sched' = [sched EXCEPT !.at = "repair"] /\ UNCHANGED accepted
    BY <2>1 DEF Repairs
  <2>3. SchedulerGoes
    BY <1>1, <2>2, MoveGoes DEF Publishing
  <2> HIDE DEF c, s
  <2>4. Owner(ses[s], c, pc[s], held[s], outside[s]) /\ c.backend = ctx[s].backend
    BY <1>2, <1>4 DEF Owner, ReservationOK
  <2> QED BY <1>2, <2>1, <2>2, <2>3, <2>4, ResultJInv
<1>8. MaySchedule(c, pc[s])
  BY <1>2, <1>4 DEF MaySchedule
<1>9. CASE ApplyEnds(s, ses[s], c, Buffered(ses[s]) > 0) /\ UNCHANGED held
  <2>1. c.backend = ctx[s].backend
    BY <1>4
  <2>2. held' = [held EXCEPT ![s] = held[s]]
    BY <1>6, <1>9
  <2> HIDE DEF c, s
  <2>3. Owner(ses[s], c, pc[s], held[s], outside[s])
    BY <1>2, <1>4 DEF Owner, ReservationOK
  <2> QED BY <1>1, <1>2, <1>3, <1>6, <1>8, <1>9, <2>1, <2>2, <2>3, ApplyEndsJInv
<1>10. ASSUME NEW audio \in 0 .. held[s], NEW dropped \in 0 .. held[s], NEW e \in BOOLEAN,
              audio + dropped <= held[s],
              held' = [held EXCEPT ![s] = G(audio, dropped)],
              \/ /\ Repairs(s, E(FALSE)) /\ UNCHANGED <<ses, ready>>
              \/ /\ ~(audio > 0 /\ ~CanAppend(ses[s], audio))
                 /\ ApplyEnds(s, R(audio, dropped), E(e), Buffered(HandOver(ses[s], audio)) > 0)
       PROVE  JInv'
  <2> DEFINE g == G(audio, dropped)
             t == R(audio, dropped)
             x == E(e)
             f == E(FALSE)
  <2>1. audio \in Nat /\ dropped \in Nat /\ g \in Nat /\ (ses[s].finishReq => g = 0)
        /\ (held[s] = 0 => audio = 0)
    BY <1>5, <1>10
  <2>2. /\ DOMAIN x = CtxFields /\ x.endpoint \in BOOLEAN /\ x.backend = ctx[s].backend
        /\ x.terminal = ctx[s].terminal
        /\ Reads([x EXCEPT !.endpoint = FALSE], [ctx[s] EXCEPT !.endpoint = FALSE])
    BY <1>2, <1>4 DEF CtxFields, Reads
  <2>3. /\ DOMAIN f = CtxFields /\ f.endpoint \in BOOLEAN /\ f.backend = ctx[s].backend
        /\ Reads([f EXCEPT !.endpoint = FALSE], [ctx[s] EXCEPT !.endpoint = FALSE])
    BY <1>2, <1>4 DEF CtxFields, Reads
  <2>4. MaySchedule(x, pc[s])
    BY <1>2, <2>2 DEF MaySchedule
  <2>5. CASE Repairs(s, f) /\ UNCHANGED <<ses, ready>>
    <3> DEFINE y == [f EXCEPT !.lock = "free"]
    <3>1. ctx' = [ctx EXCEPT ![s] = y] /\ sched' = [sched EXCEPT !.at = "repair"] /\ UNCHANGED accepted
      BY <2>5 DEF Repairs
    <3>2. SchedulerGoes
      BY <1>1, <3>1, MoveGoes DEF Publishing
    <3> HIDE DEF f
    <3>3. Unlocks(y, f, ses[s])
      BY <2>3 DEF Unlocks, CtxFields
    <3> HIDE DEF y
    <3>4. TookAudio(ses[s], ses[s])
      <4>1. ses[s].data \in Nat
        BY <1>5 DEF SessionType
      <4> QED BY <1>5, <4>1 DEF TookAudio, Grows
    <3> HIDE DEF g, s
    <3>5. Owner(ses[s], f, pc[s], g, outside[s])
      BY <1>2, <2>1, <2>3, <3>4, TookOwner
    <3>6. ses' = [ses EXCEPT ![s] = ses[s]] /\ UNCHANGED <<outside, cancelled, ready>>
      BY <1>3, <1>6, <2>5
    <3>7. held' = [held EXCEPT ![s] = g]
      BY <1>10 DEF g
    <3> QED BY <1>2, <1>6, <2>3, <3>1, <3>2, <3>3, <3>5, <3>6, <3>7, UnscheduledJInv
  <2>6. CASE /\ ~(audio > 0 /\ ~CanAppend(ses[s], audio))
             /\ ApplyEnds(s, t, x, Buffered(HandOver(ses[s], audio)) > 0)
    <3>1. Over(ses[s]) => audio = 0
      <4>1. audio > 0 => ses[s].state \in LiveStates
        BY <2>6 DEF CanAppend
      <4> QED BY <1>5, <2>1, <4>1
    <3>2. TookAudio(ses[s], t)
      BY <1>5, <2>1, <3>1, HandedTook
    <3> HIDE DEF x, t, g, s
    <3>3. Owner(t, x, pc[s], g, outside[s])
      BY <1>2, <2>1, <2>2, <3>2, TookOwner
    <3>4. Grows(ses[s], t) /\ x.backend = ctx[s].backend
      BY <2>2, <3>2 DEF TookAudio
    <3>5. held' = [held EXCEPT ![s] = g]
      BY <1>10 DEF g
    <3> QED BY <1>1, <1>2, <1>3, <2>4, <2>6, <3>3, <3>4, <3>5, ApplyEndsJInv
  <2> QED BY <1>10, <2>5, <2>6
<1>11. CASE SegmentEnds
  <2>1. \/ ApplyEnds(s, ses[s], c, Buffered(ses[s]) > 0) /\ UNCHANGED held
        \/ \E audio \in 0 .. held[s], dropped \in 0 .. held[s], e \in BOOLEAN :
             /\ audio + dropped <= held[s]
             /\ held' = [held EXCEPT ![s] = G(audio, dropped)]
             /\ \/ /\ Repairs(s, E(FALSE)) /\ UNCHANGED <<ses, ready>>
                \/ /\ ~(audio > 0 /\ ~CanAppend(ses[s], audio))
                   /\ ApplyEnds(s, R(audio, dropped), E(e), Buffered(HandOver(ses[s], audio)) > 0)
    BY <1>11, Zenon DEF SegmentEnds
  <2> HIDE DEF c, s, E, G, R
  <2> QED BY <1>9, <1>10, <2>1
<1> QED BY <1>7, <1>11

-----------------------------------------------------------------------------
(* All of it *)

LEMMA NextJInv == ASSUME JInv, IInv, [Next]_vars PROVE JInv'
<1>1. CASE SchedulerStep \/ CloseScheduler
  BY <1>1, ExpireJInv, DispatchJInv, RestJInv, IdleJInv, SubmitReturnsJInv, SubmitFailsJInv,
     SettleJInv, PublishNothingJInv, PublishErrorJInv, ErrorPublishedJInv, PublishTextJInv,
     PublishSegmentJInv, SegmentJInv DEF SchedulerStep
<1>2. ASSUME NEW s \in Sessions,
             \/ ClientStep(s) \/ HandlerStep(s) \/ SenderReleases(s)
             \/ OutsideBegins(s) \/ OutsideStep(s)
      PROVE  JInv'
  BY <1>2, PlainJInv, CallAdapterJInv, SentJInv, ErrorWaitsJInv, ErrorLockedJInv, LeavesJInv,
     DecodesJInv, IngestJInv, FinishJInv, FinishReturnsJInv
     DEF ClientStep, HandlerStep, OutsideStep
<1>3. CASE UNCHANGED vars
  <2>1. UNCHANGED <<ses, held, ctx, tasks, queue, queued, cancelled>> /\ SchedulerStays
    BY <1>3 DEF vars, ready, SchedulerStays
  <2> QED BY <2>1, QuietJInv
<1> QED BY <1>1, <1>2, <1>3 DEF Next

LEMMA JobsInvariant == Spec => [](IInv /\ JInv)
<1>1. Init => IInv /\ JInv
  BY InitIInv, InitJInv
<1>2. IInv /\ JInv /\ [Next]_vars => (IInv /\ JInv)'
  BY NextIInv, NextJInv
<1> QED BY <1>1, <1>2, PTL DEF Spec

\* The account of the scheduler, _queued_samples, from which enqueue decides
\* whether it refuses a job, is the audio of the jobs in the queue and in the
\* submitted batch, whichever way a job leaves the queue.
THEOREM AccountExact == Spec => []QueueExact
<1>1. JInv => QueueExact
  BY DEF JInv
<1> QED BY <1>1, JobsInvariant, PTL

\* No session is closed in the adapter while the worker has one of its jobs: the
\* barrier of abort, of the error path and of drain_worker holds against every
\* interleaving with the scheduler.
THEOREM SubmittedStayOpen == Spec => []SubmittedSessionsOpen
<1>1. JInv => SubmittedSessionsOpen
  BY DEF JInv, OpenInAdapter, SubmittedSessionsOpen
<1> QED BY <1>1, JobsInvariant, PTL

\* No session has two jobs in the queue and the submitted batch, each owns the
\* reservation of its session, and the scheduler's task never dies of a job that
\* lost it.
THEOREM JobsOwn == Spec => []JobsOwnReservations
<1>1. ASSUME JInv PROVE JobsOwnReservations
  <2> DEFINE b == IF sched.at = "submit" THEN sched.batch ELSE <<>>
             jobs == queue \o b
  <2>1. /\ queue \in Seq(Job) /\ b \in Seq(Job) /\ Unique(queue) /\ Unique(b)
        /\ \A i \in DOMAIN b : b[i] \in Unsettled
        /\ \A j \in Range(queue) \cup Unsettled :
             ses[j.of].gen = 1 => MatchesReservation(ses[j.of], j)
        /\ \A j \in Range(queue), k \in Unsettled : j.of # k.of
    <3>1. CASE sched.at = "submit"
      BY <1>1, <3>1 DEF JInv, OneJobEach, SchedulerLists, Unsettled
    <3>2. CASE sched.at # "submit"
      <4>1. b = <<>> /\ Unique(b) /\ b \in Seq(Job) /\ DOMAIN b = {}
        BY <3>2 DEF Unique
      <4> QED BY <1>1, <4>1 DEF JInv, OneJobEach
    <3> QED BY <3>1, <3>2
  <2> HIDE DEF b
  <2>2. /\ Len(queue) \in Nat /\ Len(b) \in Nat /\ DOMAIN jobs = 1 .. Len(queue) + Len(b)
        /\ \A i \in DOMAIN jobs :
             \/ i \in DOMAIN queue /\ jobs[i] = queue[i]
             \/ i - Len(queue) \in DOMAIN b /\ jobs[i] = b[i - Len(queue)]
        /\ DOMAIN queue = 1 .. Len(queue) /\ DOMAIN b = 1 .. Len(b)
    BY <2>1
  <2> HIDE DEF jobs
  <2>3. \A i \in DOMAIN queue : queue[i] \in Range(queue) /\ queue[i] \in Job
    BY <2>1 DEF Range
  <2>4. \A i \in DOMAIN b : b[i] \in Job
    BY <2>1
  <2>5. ASSUME NEW i \in DOMAIN jobs, NEW k \in DOMAIN jobs, jobs[i].of = jobs[k].of
        PROVE  i = k
    <3>1. CASE i \in DOMAIN queue /\ jobs[i] = queue[i] /\ k \in DOMAIN queue /\ jobs[k] = queue[k]
      BY <2>1, <2>5, <3>1 DEF Unique
    <3>2. CASE /\ i - Len(queue) \in DOMAIN b /\ jobs[i] = b[i - Len(queue)]
               /\ k - Len(queue) \in DOMAIN b /\ jobs[k] = b[k - Len(queue)]
      <4>1. i - Len(queue) = k - Len(queue)
        BY <2>1, <2>5, <3>2 DEF Unique
      <4>2. i \in Int /\ k \in Int /\ Len(queue) \in Int
        BY <2>2
      <4> QED BY <4>1, <4>2
    <3>3. CASE /\ i \in DOMAIN queue /\ jobs[i] = queue[i]
               /\ k - Len(queue) \in DOMAIN b /\ jobs[k] = b[k - Len(queue)]
      BY <2>1, <2>3, <2>5, <3>3
    <3>4. CASE /\ k \in DOMAIN queue /\ jobs[k] = queue[k]
               /\ i - Len(queue) \in DOMAIN b /\ jobs[i] = b[i - Len(queue)]
      BY <2>1, <2>3, <2>5, <3>4
    <3> QED BY <2>2, <3>1, <3>2, <3>3, <3>4
  <2>6. ASSUME NEW j \in Range(jobs), IsCurrent(j) PROVE MatchesReservation(ses[j.of], j)
    <3>1. j \in Job /\ (j \in Range(queue) \/ j \in Unsettled)
      BY <2>1, <2>2, <2>3, <2>4 DEF Range
    <3> QED BY <2>1, <2>6, <3>1, JobFacts DEF IsCurrent
  <2>7. sched.at # "dead"
    BY <1>1 DEF JInv, SchedulerLists, Publishing
  <2> HIDE DEF IsCurrent, MatchesReservation
  <2> QED BY <2>5, <2>6, <2>7 DEF JobsOwnReservations, jobs, b
<1> QED BY <1>1, JobsInvariant, PTL
=============================================================================
