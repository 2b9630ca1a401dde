------------------------ MODULE WorkerLeasesProofs ------------------------
(***************************************************************************)
(* Leases, contexts and manager slots for every number of workers and      *)
(* sessions, every capacity and every choice of what may go wrong: the     *)
(* lease count is exact, and a handler that has returned left nothing      *)
(* behind unless the VAD factory raises.                                   *)
(***************************************************************************)
EXTENDS WorkerLeases, FiniteSetTheorems, TLAPS

\* A held lease has its worker, a handler that has not started has none, and a
\* sweep past its barrier names a session.
Placed ==
    /\ \A s \in Sessions : lease[s] = "held" => route[s] \in Workers
    /\ \A s \in Sessions : pc[s] = "start" => lease[s] = "none"
    /\ \A k \in Sweepers : sweep[k].pc \in {"barrier", "aborted"} => sweep[k].cur \in Sessions

\* While the VAD factory does not raise: manager and contexts agree, and a session
\* without a context holds no lease except while the adapter opens it.
Settled ==
    /\ manager = contexts
    /\ \A s \in Sessions : pc[s] \in {"start", "opening", "returned"} => s \notin contexts
    /\ \A s \in Sessions \ contexts : pc[s] # "opening" => lease[s] # "held"

IInv == TypeOK /\ Placed /\ LeasesExact

-----------------------------------------------------------------------------
(* The lease accounts *)

\* At the start no session holds a lease.
LEMMA InitIInv == Init => IInv
<1> SUFFICES ASSUME Init PROVE IInv
  OBVIOUS
<1>1. TypeOK
  <2>1. Idle \in [pc : {"idle", "waiting", "next", "barrier", "aborted", "waiting again",
                         "unloaded"},
                  todo : SUBSET Sessions, cur : Sessions \cup {NoSession}]
    BY DEF Idle
  <2>2. sweep \in [Sweepers ->
         [pc : {"idle", "waiting", "next", "barrier", "aborted", "waiting again", "unloaded"},
          todo : SUBSET Sessions, cur : Sessions \cup {NoSession}]]
    BY <2>1 DEF Init
  <2>3. empty \in [Workers -> BOOLEAN]
    BY Zenon DEF Init
  <2> QED BY <2>2, <2>3 DEF Init, TypeOK
<1>2. Placed
  BY DEF Init, Placed, Idle
<1>3. LeasesExact
  <2>1. \A w \in Workers : Holders(w) = {}
    BY DEF Init, Holders
  <2> QED BY <2>1, FS_EmptySet, CapacityAssumption DEF Init, LeasesExact
<1> QED BY <1>1, <1>2, <1>3 DEF IInv

\* The holders of a worker's leases can be counted.
LEMMA HoldersFinite ==
    ASSUME NEW w PROVE IsFiniteSet(Holders(w)) /\ Cardinality(Holders(w)) \in Nat
BY SessionsAssumption, FS_Subset, FS_CardinalityType DEF Holders

\* Leases, routes and the set of registered workers stay, or workers are added.
LEMMA FrameLeases ==
    ASSUME LeasesExact, UNCHANGED <<leases, lease, route>>,
           \A w \in Workers : life[w] # "absent" => life'[w] # "absent"
    PROVE  LeasesExact'
<1>1. \A w \in Workers : Holders(w)' = Holders(w)
  BY DEF Holders
<1> QED BY <1>1 DEF LeasesExact

\* BackendLease.release counts the lease down with the flag it sets.
LEMMA ReleaseLeaseExact ==
    ASSUME IInv, NEW s \in Sessions, ReleaseLease(s), UNCHANGED <<route, life>>
    PROVE  /\ LeasesExact' /\ leases' \in [Workers -> Nat]
           /\ lease' \in [Sessions -> {"none", "held", "released"}]
           /\ lease'[s] # "held"
           /\ \A t \in Sessions : lease'[t] = "held" => lease[t] = "held"
           /\ \A t \in Sessions : lease[t] = "none" => lease'[t] = "none"
<1> USE DEF ReleaseLease
<1>1. CASE lease[s] # "held"
  BY <1>1, FrameLeases DEF IInv, TypeOK
<1>2. CASE lease[s] = "held"
  <2>0. PICK r \in Workers : r = route[s]
    BY <1>2 DEF IInv, Placed
  <2>1. /\ route[s] = r /\ lease' = [lease EXCEPT ![s] = "released"]
        /\ leases' = [leases EXCEPT ![r] = @ - 1]
    BY <1>2, <2>0
  <2>a. /\ lease'[s] = "released" /\ \A t \in Sessions \ {s} : lease'[t] = lease[t]
        /\ route' = route
    BY <2>1 DEF IInv, TypeOK
  <2>2. s \in Holders(r) /\ Holders(r)' = Holders(r) \ {s}
    BY <1>2, <2>1, <2>a DEF Holders
  <2>3. \A w \in Workers \ {r} : Holders(w)' = Holders(w)
    BY <2>1, <2>a DEF Holders
  <2>4. Cardinality(Holders(r)') = Cardinality(Holders(r)) - 1
    BY <2>2, HoldersFinite, FS_RemoveElement
  <2>5. Cardinality(Holders(r)') \in Nat
    BY <2>2, HoldersFinite, FS_RemoveElement, FS_CardinalityType
  <2>6. leases'[r] = leases[r] - 1 /\ leases[r] = Cardinality(Holders(r))
        /\ leases[r] <= Capacity
        /\ \A w \in Workers \ {r} : leases'[w] = leases[w]
    BY <2>1 DEF IInv, TypeOK, LeasesExact
  <2>7. leases' \in [Workers -> Nat]
    <3>1. leases'[r] \in Nat
      BY <2>4, <2>5, <2>6, HoldersFinite
    <3>2. leases \in [Workers -> Nat]
      BY DEF IInv, TypeOK
    <3> QED BY <2>1, <3>1, <3>2
  <2>8. LeasesExact'
    <3> SUFFICES ASSUME NEW w \in Workers
                 PROVE  /\ leases'[w] = Cardinality(Holders(w)') /\ leases'[w] <= Capacity
                        /\ Holders(w)' # {} => life'[w] # "absent"
      BY DEF LeasesExact
    <3>1. CASE w = r
      <4>1. leases'[r] = Cardinality(Holders(r)') /\ leases'[r] <= Capacity
        BY <2>4, <2>5, <2>6, HoldersFinite, CapacityAssumption
      <4> QED BY <2>2, <3>1, <4>1 DEF IInv, LeasesExact
    <3>2. CASE w # r
      BY <2>3, <2>6, <3>2 DEF IInv, LeasesExact
    <3> QED BY <3>1, <3>2
  <2> QED BY <1>2, <2>1, <2>7, <2>8 DEF IInv, TypeOK
<1> QED BY <1>1, <1>2

\* _release_session, called once more or for the first time.
LEMMA ReleaseSessionIInv ==
    ASSUME IInv, NEW s \in Sessions, ReleaseSession(s), UNCHANGED <<route, life>>
    PROVE  /\ LeasesExact' /\ leases' \in [Workers -> Nat]
           /\ lease' \in [Sessions -> {"none", "held", "released"}]
           /\ empty' \in [Workers -> BOOLEAN]
           /\ manager' \subseteq manager /\ contexts' \subseteq manager'
           /\ contexts' = contexts \ {s}
           /\ s \in contexts => lease'[s] # "held" /\ manager' = manager \ {s}
           /\ s \notin contexts => manager' = manager
           /\ \A t \in Sessions : lease'[t] = "held" => lease[t] = "held"
           /\ \A t \in Sessions : lease[t] = "none" => lease'[t] = "none"
<1>1. CASE s \notin contexts
  <2>1. UNCHANGED <<leases, empty, lease, manager, contexts>>
    BY <1>1 DEF ReleaseSession, tables
  <2>2. LeasesExact'
    BY <2>1, FrameLeases DEF IInv
  <2> QED BY <1>1, <2>1, <2>2 DEF IInv, TypeOK
<1>2. CASE s \in contexts
  <2>1. /\ contexts' = contexts \ {s} /\ manager' = manager \ {s} /\ ReleaseLease(s)
        /\ empty' = IF \E t \in contexts \ {s} : route[t] = route[s]
                     THEN empty ELSE [empty EXCEPT ![route[s]] = TRUE]
    BY <1>2 DEF ReleaseSession
  <2>2. empty' \in [Workers -> BOOLEAN]
    <3>1. CASE empty' = empty
      BY <3>1 DEF IInv, TypeOK
    <3>2. CASE empty' = [empty EXCEPT ![route[s]] = TRUE]
      BY <3>2 DEF IInv, TypeOK
    <3> QED BY <2>1, <3>1, <3>2
  <2>3. /\ LeasesExact' /\ leases' \in [Workers -> Nat]
        /\ lease' \in [Sessions -> {"none", "held", "released"}]
        /\ lease'[s] # "held"
        /\ \A t \in Sessions : lease'[t] = "held" => lease[t] = "held"
        /\ \A t \in Sessions : lease[t] = "none" => lease'[t] = "none"
    BY <2>1, ReleaseLeaseExact
  <2>4. contexts \subseteq manager
    BY DEF IInv, TypeOK
  <2> QED BY <1>2, <2>1, <2>2, <2>3, <2>4
<1> QED BY <1>1, <1>2

Lives == {"absent", "starting", "ready", "failed", "draining"}
Sweeps == [pc : {"idle", "waiting", "next", "barrier", "aborted", "waiting again",
                 "unloaded"},
           todo : SUBSET Sessions, cur : Sessions \cup {NoSession}]

\* A step that moves no lease and removes no worker that has one.
Quiet ==
    /\ UNCHANGED <<gpu, tables, route, ended, pc, sender>>
    /\ backend' \in {backend, {}}
    /\ runtime' \in {"starting", "serving", "closing", "closed", "failed"}
    /\ life' \in [Workers -> Lives]
    /\ sweep' \in [Sweepers -> Sweeps]
    /\ \A k \in Sweepers : sweep'[k].pc \in {"barrier", "aborted"} => sweep'[k] = sweep[k]
    /\ \A w \in Workers : life[w] # "absent" => leases[w] = 0 \/ life'[w] # "absent"

\* The gateway starts, drains a worker or closes: no lease moves, and a worker
\* is removed only when it has none.
LEMMA GatewayIInv ==
    ASSUME IInv,
           \/ RegisterAll \/ BeginClose \/ CloseDone
           \/ \E w \in Workers : WarmUp(w) \/ WorkerFailed(w) \/ BeginDrain(w) \/ DrainStep(w)
    PROVE  Quiet /\ IInv'
<1> USE DEF tables, registry
<1>1. /\ life \in [Workers -> Lives] /\ sweep \in [Sweepers -> Sweeps]
      /\ runtime \in {"starting", "serving", "closing", "closed", "failed"}
      /\ contexts \subseteq Sessions /\ Workers \subseteq Sweepers /\ Closing \in Sweepers
  BY DEF IInv, TypeOK, Sweepers, Lives, Sweeps
<1>2. Quiet
  <2> USE DEF Quiet, Lives, Sweeps
  <2> HIDE DEF Closing
  <2>1. CASE RegisterAll
    BY <1>1, <2>1 DEF RegisterAll
  <2>2. CASE BeginClose
    BY <1>1, <2>2 DEF BeginClose
  <2>3. CASE CloseDone
    BY <1>1, <2>3 DEF CloseDone
  <2>4. ASSUME NEW w \in Workers, WarmUp(w) \/ WorkerFailed(w) \/ BeginDrain(w)
        PROVE  Quiet
    <3>1. CASE WarmUp(w)
      BY <1>1, <3>1 DEF WarmUp
    <3>2. CASE WorkerFailed(w)
      BY <1>1, <3>2 DEF WorkerFailed
    <3>3. CASE BeginDrain(w)
      BY <1>1, <3>3 DEF BeginDrain
    <3> QED BY <2>4, <3>1, <3>2, <3>3
  <2>5. ASSUME NEW w \in Workers, DrainStep(w)
        PROVE  Quiet
    <3>1. sweep[w] \in Sweeps
      BY <1>1
    <3>2. CASE DrainTimeout(w)
      <4>1. {s \in contexts : route[s] = w} \in SUBSET Sessions
        BY <1>1
      <4> QED BY <1>1, <3>1, <3>2, <4>1 DEF DrainTimeout
    <3>3. CASE SweepDone(w)
      BY <1>1, <3>1, <3>3 DEF SweepDone
    <3>4. CASE Unload(w)
      BY <1>1, <3>1, <3>4 DEF Unload
    <3> QED BY <2>5, <3>2, <3>3, <3>4 DEF DrainStep
  <2> QED BY <2>1, <2>2, <2>3, <2>4, <2>5
<1>3. TypeOK'
  BY <1>2 DEF IInv, TypeOK, Quiet, Lives, Sweeps
<1>4. Placed'
  BY <1>2 DEF IInv, Placed, Quiet, tables
<1>5. LeasesExact'
  <2>1. UNCHANGED <<leases, lease, route>>
    BY <1>2 DEF Quiet
  <2>2. \A w \in Workers : Holders(w)' = Holders(w)
    BY <2>1 DEF Holders
  <2>3. \A w \in Workers : leases[w] = 0 => Holders(w) = {}
    BY HoldersFinite, FS_EmptySet DEF IInv, LeasesExact
  <2> QED BY <1>2, <2>1, <2>2, <2>3 DEF IInv, LeasesExact, Quiet
<1> QED BY <1>2, <1>3, <1>4, <1>5 DEF IInv

NoVadFault == "vad_factory_fails" \notin Happens

-----------------------------------------------------------------------------
(* The sessions *)

\* A handler, a sender or a sweep goes on without touching a table.
LEMMA StayIInv ==
    ASSUME IInv, UNCHANGED <<runtime, registry, tables, route>>,
           backend' \subseteq Sessions, ended' \subseteq Sessions,
           pc' \in [Sessions -> {"start", "opening", "running", "segmenting", "finishing",
                                 "failing", "awaiting", "leaving", "barrier", "aborted", "returned"}],
           sender' \in [Sessions -> {"none", "running", "terminal", "done"}],
           sweep' \in [Sweepers -> Sweeps],
           \A k \in Sweepers :
             sweep'[k].pc \in {"barrier", "aborted"} => sweep'[k].cur \in Sessions,
           \A s \in Sessions : pc'[s] = "start" => pc[s] = "start"
    PROVE  IInv'
<1> USE DEF registry, tables
<1>1. TypeOK'
  BY DEF IInv, TypeOK, Sweeps
<1>2. Placed'
  BY DEF IInv, Placed
<1>3. LeasesExact'
  BY FrameLeases DEF IInv
<1> QED BY <1>1, <1>2, <1>3 DEF IInv

\* Steps of a handler that touch neither leases nor tables.
LEMMA HandlerIInv ==
    ASSUME IInv, NEW s \in Sessions,
           \/ OpenRefused(s) \/ ResultFails(s) \/ ClientFinish(s) \/ HandlerFails(s)
           \/ EnqueueError(s) \/ ClientAbort(s) \/ SenderDies(s) \/ Leave(s)
           \/ AbortPassesBarrier(s) \/ ClientSegment(s) \/ SegmentReturns(s)
    PROVE  IInv' /\ (Settled => Settled')
<1> USE DEF Terminate
<1>1. /\ backend \subseteq Sessions /\ ended \subseteq Sessions /\ s \in Sessions
      /\ pc \in [Sessions -> {"start", "opening", "running", "segmenting", "finishing",
                              "failing", "awaiting", "leaving", "barrier", "aborted", "returned"}]
      /\ sender \in [Sessions -> {"none", "running", "terminal", "done"}]
      /\ sweep \in [Sweepers -> Sweeps]
  BY DEF IInv, TypeOK, Sweeps
<1>2. UNCHANGED <<runtime, registry, tables, route, sweep>>
  BY DEF OpenRefused, ResultFails, ClientFinish, HandlerFails, EnqueueError, ClientAbort,
         SenderDies, Leave, AbortPassesBarrier, ClientSegment, SegmentReturns
<1>3. backend' \subseteq Sessions /\ ended' \subseteq Sessions
  BY <1>1 DEF OpenRefused, ResultFails, ClientFinish, HandlerFails, EnqueueError, ClientAbort,
         SenderDies, Leave, AbortPassesBarrier, ClientSegment, SegmentReturns
<1>4. sender' \in [Sessions -> {"none", "running", "terminal", "done"}]
  BY <1>1 DEF OpenRefused, ResultFails, ClientFinish, HandlerFails, EnqueueError, ClientAbort,
         SenderDies, Leave, AbortPassesBarrier, ClientSegment, SegmentReturns
<1>5. \/ pc' = pc
      \/ pc[s] = "start" /\ pc' = [pc EXCEPT ![s] = "returned"]
      \/ /\ pc[s] \in {"running", "segmenting", "finishing", "failing", "awaiting", "barrier"}
         /\ \E p \in {"running", "segmenting", "finishing", "failing", "leaving", "awaiting",
                     "aborted"} :
              pc' = [pc EXCEPT ![s] = p]
  BY DEF OpenRefused, ResultFails, ClientFinish, HandlerFails, EnqueueError, ClientAbort,
         SenderDies, Leave, AbortPassesBarrier, ClientSegment, SegmentReturns
<1>6. /\ pc' \in [Sessions -> {"start", "opening", "running", "segmenting", "finishing",
                               "failing", "awaiting", "leaving", "barrier", "aborted", "returned"}]
      /\ \A t \in Sessions : pc'[t] = "start" => pc[t] = "start"
      /\ \A t \in Sessions : pc'[t] \in {"start", "opening", "returned"} =>
           pc[t] \in {"start", "opening", "returned"}
      /\ \A t \in Sessions : pc[t] = "opening" => pc'[t] = "opening"
  BY <1>1, <1>5
<1>7. \A k \in Sweepers :
        sweep'[k].pc \in {"barrier", "aborted"} => sweep'[k].cur \in Sessions
  BY <1>2 DEF IInv, Placed
<1>8. IInv'
  BY <1>1, <1>2, <1>3, <1>4, <1>6, <1>7, StayIInv
<1>9. Settled => Settled'
  BY <1>2, <1>6 DEF Settled, tables
<1> QED BY <1>8, <1>9

\* A sweep ends a session inside the barrier.
LEMMA SweepPassesBarrierIInv ==
    ASSUME IInv, NEW k \in Sweepers, SweepPassesBarrier(k)
    PROVE  IInv' /\ (Settled => Settled')
<1>1. /\ sweep[k].pc = "barrier" /\ sweep' = [sweep EXCEPT ![k].pc = "aborted"]
      /\ UNCHANGED <<runtime, registry, tables, route, pc, sender>>
      /\ ended' = ended \cup {sweep[k].cur} /\ backend' = backend \ {sweep[k].cur}
  BY DEF SweepPassesBarrier
<1>2. sweep \in [Sweepers -> Sweeps] /\ sweep[k] \in Sweeps
  BY DEF IInv, TypeOK, Sweeps
<1>3. sweep[k].cur \in Sessions
  BY <1>1 DEF IInv, Placed
<1>4. sweep' \in [Sweepers -> Sweeps]
  BY <1>1, <1>2 DEF Sweeps
<1>5. \A j \in Sweepers :
        sweep'[j].pc \in {"barrier", "aborted"} => sweep'[j].cur \in Sessions
  <2>1. sweep'[k].cur = sweep[k].cur
    BY <1>1, <1>2 DEF Sweeps
  <2>2. \A j \in Sweepers \ {k} : sweep'[j] = sweep[j]
    BY <1>1, <1>2
  <2> QED BY <1>3, <2>1, <2>2 DEF IInv, Placed
<1>6. IInv'
  <2>1. backend' \subseteq Sessions /\ ended' \subseteq Sessions
    BY <1>1, <1>3 DEF IInv, TypeOK
  <2>2. /\ pc' \in [Sessions -> {"start", "opening", "running", "segmenting", "finishing",
                                 "failing", "awaiting", "leaving", "barrier", "aborted", "returned"}]
        /\ sender' \in [Sessions -> {"none", "running", "terminal", "done"}]
    BY <1>1 DEF IInv, TypeOK
  <2> QED BY <1>1, <1>4, <1>5, <2>1, <2>2, StayIInv
<1>7. Settled => Settled'
  BY <1>1 DEF Settled, tables
<1> QED BY <1>6, <1>7

\* acquire: a free place of a registered worker becomes a lease.
LEMMA AcquireIInv ==
    ASSUME IInv, NEW s \in Sessions, Acquire(s)
    PROVE  IInv' /\ (Settled => Settled')
<1>1. PICK w \in Workers :
        /\ Selected(w) /\ leases' = [leases EXCEPT ![w] = @ + 1]
        /\ empty' = [empty EXCEPT ![w] = FALSE] /\ route' = [route EXCEPT ![s] = w]
  BY DEF Acquire
<1>2. /\ pc[s] = "start" /\ lease' = [lease EXCEPT ![s] = "held"]
      /\ pc' = [pc EXCEPT ![s] = "opening"]
      /\ UNCHANGED <<runtime, registry, manager, contexts, backend, ended, sender, sweep>>
  BY DEF Acquire
<1>3. lease[s] = "none" /\ leases[w] < Capacity /\ life[w] = "ready"
  BY <1>1, <1>2 DEF IInv, Placed, Selected, Accepting
<1>4. TypeOK'
  <2>1. empty' \in [Workers -> BOOLEAN]
    BY <1>1 DEF IInv, TypeOK
  <2>2. leases' \in [Workers -> Nat]
    <3>1. leases \in [Workers -> Nat]
      BY DEF IInv, TypeOK
    <3>2. leases[w] + 1 \in Nat
      BY <3>1
    <3> QED BY <1>1, <3>1, <3>2
  <2> QED BY <1>1, <1>2, <2>1, <2>2 DEF IInv, TypeOK, registry
<1>5. Placed'
  BY <1>1, <1>2 DEF IInv, TypeOK, Placed
<1>6. LeasesExact'
  <2>1. Holders(w)' = Holders(w) \cup {s} /\ s \notin Holders(w)
    BY <1>1, <1>2, <1>3 DEF IInv, TypeOK, Holders
  <2>2. \A v \in Workers \ {w} : Holders(v)' = Holders(v)
    BY <1>1, <1>2, <1>3 DEF IInv, TypeOK, Holders
  <2>3. Cardinality(Holders(w)') = Cardinality(Holders(w)) + 1
    BY <2>1, HoldersFinite, FS_AddElement
  <2>4. /\ leases'[w] = leases[w] + 1 /\ leases[w] = Cardinality(Holders(w))
        /\ \A v \in Workers \ {w} : leases'[v] = leases[v]
    BY <1>1 DEF IInv, TypeOK, LeasesExact
  <2> SUFFICES ASSUME NEW v \in Workers
               PROVE  /\ leases'[v] = Cardinality(Holders(v)') /\ leases'[v] <= Capacity
                      /\ Holders(v)' # {} => life'[v] # "absent"
    BY DEF LeasesExact
  <2>5. CASE v = w
    <3>1. leases'[w] = Cardinality(Holders(w)') /\ leases'[w] <= Capacity
      BY <1>3, <2>3, <2>4, HoldersFinite, CapacityAssumption
    <3> QED BY <1>2, <1>3, <2>5, <3>1 DEF registry
  <2>6. CASE v # w
    BY <1>2, <2>2, <2>4, <2>6 DEF IInv, LeasesExact, registry
  <2> QED BY <2>5, <2>6
<1>7. Settled => Settled'
  BY <1>2 DEF IInv, TypeOK, Settled
<1> QED BY <1>4, <1>5, <1>6, <1>7 DEF IInv

\* One handler goes on, and its session's context and lease go together.
LEMMA SettledStep ==
    ASSUME Settled, NEW s \in Sessions, NEW p, DOMAIN pc = Sessions,
           pc' = [pc EXCEPT ![s] = p], manager' = contexts',
           \A t \in Sessions \ {s} : /\ t \in contexts' <=> t \in contexts
                                     /\ lease'[t] = "held" => lease[t] = "held",
           p \in {"start", "opening", "returned"} => s \notin contexts',
           s \notin contexts' /\ p # "opening" => lease'[s] # "held"
    PROVE  Settled'
<1>1. pc'[s] = p /\ \A t \in Sessions \ {s} : pc'[t] = pc[t]
  OBVIOUS
<1>2. \A t \in Sessions : pc'[t] \in {"start", "opening", "returned"} => t \notin contexts'
  BY <1>1 DEF Settled
<1>3. \A t \in Sessions \ contexts' : pc'[t] # "opening" => lease'[t] # "held"
  BY <1>1 DEF Settled
<1> QED BY <1>2, <1>3 DEF Settled

\* The three ways open_session goes on once it has its lease.
LEMMA OpeningIInv ==
    ASSUME IInv, NEW s \in Sessions, OpenFails(s) \/ VadFactoryFails(s) \/ OpenSucceeds(s)
    PROVE  IInv' /\ (NoVadFault /\ Settled => Settled')
<1> USE DEF registry
<1>1. CASE OpenFails(s)
  <2>1. /\ pc[s] = "opening" /\ ReleaseLease(s) /\ empty' = [empty EXCEPT ![route[s]] = TRUE]
        /\ pc' = [pc EXCEPT ![s] = "returned"] /\ backend' \in {backend, backend \cup {s}}
        /\ UNCHANGED <<runtime, registry, route, manager, contexts, ended, sender, sweep>>
    BY <1>1 DEF OpenFails, Unopen
  <2>2. /\ LeasesExact' /\ leases' \in [Workers -> Nat]
        /\ lease' \in [Sessions -> {"none", "held", "released"}]
        /\ lease'[s] # "held"
        /\ \A t \in Sessions : lease'[t] = "held" => lease[t] = "held"
        /\ \A t \in Sessions : lease[t] = "none" => lease'[t] = "none"
    BY <2>1, ReleaseLeaseExact
  <2>3. TypeOK'
    <3>1. empty' \in [Workers -> BOOLEAN]
      BY <2>1 DEF IInv, TypeOK
    <3> QED BY <2>1, <2>2, <3>1 DEF IInv, TypeOK
  <2>4. Placed'
    BY <2>1, <2>2 DEF IInv, TypeOK, Placed
  <2>5. Settled => Settled'
    <3> SUFFICES ASSUME Settled PROVE Settled'
      OBVIOUS
    <3>1. DOMAIN pc = Sessions /\ manager' = contexts' /\ contexts' = contexts
      BY <2>1 DEF IInv, TypeOK, Settled
    <3>2. s \notin contexts'
      BY <2>1, <3>1 DEF Settled
    <3> QED BY <2>1, <2>2, <3>1, <3>2, SettledStep
  <2> QED BY <2>2, <2>3, <2>4, <2>5 DEF IInv
<1>2. CASE VadFactoryFails(s) \/ OpenSucceeds(s)
  <2>1. /\ pc[s] = "opening" /\ manager' = manager \cup {s} /\ backend' = backend \cup {s}
        /\ contexts' \in {contexts, contexts \cup {s}}
        /\ \E p \in {"returned", "running"} : pc' = [pc EXCEPT ![s] = p]
        /\ sender' \in {sender, [sender EXCEPT ![s] = "running"]}
        /\ UNCHANGED <<runtime, registry, leases, empty, lease, route, ended, sweep>>
    BY <1>2 DEF VadFactoryFails, OpenSucceeds
  <2>2. TypeOK'
    <3>1. /\ manager' \subseteq Sessions /\ contexts' \subseteq manager'
          /\ backend' \subseteq Sessions
      BY <2>1 DEF IInv, TypeOK
    <3>2. pc' \in [Sessions -> {"start", "opening", "running", "segmenting", "finishing",
                               "failing", "awaiting", "leaving", "barrier", "aborted", "returned"}]
      <4>1. PICK p \in {"returned", "running"} : pc' = [pc EXCEPT ![s] = p]
        BY <2>1
      <4> QED BY <4>1 DEF IInv, TypeOK
    <3>3. sender' \in [Sessions -> {"none", "running", "terminal", "done"}]
      BY <2>1 DEF IInv, TypeOK
    <3> QED BY <2>1, <3>1, <3>2, <3>3 DEF IInv, TypeOK
  <2>3. Placed'
    BY <2>1 DEF IInv, TypeOK, Placed
  <2>4. LeasesExact'
    BY <2>1, FrameLeases DEF IInv
  <2>5. NoVadFault /\ Settled => Settled'
    <3> SUFFICES ASSUME NoVadFault, Settled PROVE Settled'
      OBVIOUS
    <3>1. contexts' = contexts \cup {s} /\ pc' = [pc EXCEPT ![s] = "running"]
      BY <1>2 DEF NoVadFault, VadFactoryFails, OpenSucceeds
    <3>2. DOMAIN pc = Sessions /\ manager' = contexts' /\ lease' = lease
      BY <2>1, <3>1 DEF IInv, TypeOK, Settled
    <3> QED BY <3>1, <3>2, SettledStep
  <2> QED BY <2>2, <2>3, <2>4, <2>5 DEF IInv
<1> QED BY <1>1, <1>2

\* The session's lease goes back before its final event is delivered.
LEMMA FinishIInv ==
    ASSUME IInv, NEW s \in Sessions, FinishSucceeds(s)
    PROVE  IInv' /\ (Settled => Settled')
<1> USE DEF registry
<1>1. /\ pc[s] = "finishing" /\ ReleaseLease(s) /\ backend' = backend \ {s}
      /\ ended' = ended \cup {s} /\ Terminate(s) /\ pc' = [pc EXCEPT ![s] = "awaiting"]
      /\ UNCHANGED <<runtime, registry, empty, manager, contexts, route, sweep>>
  BY DEF FinishSucceeds
<1>2. /\ LeasesExact' /\ leases' \in [Workers -> Nat]
      /\ lease' \in [Sessions -> {"none", "held", "released"}]
      /\ lease'[s] # "held"
      /\ \A t \in Sessions : lease'[t] = "held" => lease[t] = "held"
      /\ \A t \in Sessions : lease[t] = "none" => lease'[t] = "none"
  BY <1>1, ReleaseLeaseExact
<1>3. TypeOK'
  <2>1. sender' \in [Sessions -> {"none", "running", "terminal", "done"}]
    BY <1>1 DEF IInv, TypeOK, Terminate
  <2> QED BY <1>1, <1>2, <2>1 DEF IInv, TypeOK
<1>4. Placed'
  BY <1>1, <1>2 DEF IInv, TypeOK, Placed
<1>5. Settled => Settled'
  <2> SUFFICES ASSUME Settled PROVE Settled'
    OBVIOUS
  <2>1. DOMAIN pc = Sessions /\ manager' = contexts' /\ contexts' = contexts
    BY <1>1 DEF IInv, TypeOK, Settled
  <2> QED BY <1>1, <1>2, <2>1, SettledStep
<1> QED BY <1>2, <1>3, <1>4, <1>5 DEF IInv

\* The sender, the handler's abort, a drain and close() all end in
\* _release_session.
LEMMA ReleasingIInv ==
    ASSUME IInv, NEW s \in Sessions, ReleaseSession(s),
           UNCHANGED <<runtime, registry, route, backend, ended>>,
           pc' \in [Sessions -> {"start", "opening", "running", "segmenting", "finishing",
                                 "failing", "awaiting", "leaving", "barrier", "aborted", "returned"}],
           sender' \in [Sessions -> {"none", "running", "terminal", "done"}],
           sweep' \in [Sweepers -> Sweeps],
           \A k \in Sweepers :
             sweep'[k].pc \in {"barrier", "aborted"} => sweep'[k].cur \in Sessions,
           \A t \in Sessions \ {s} : pc'[t] = pc[t],
           pc'[s] = pc[s] \/ (pc[s] \in {"leaving", "aborted"} /\ pc'[s] = "returned")
    PROVE  IInv' /\ (Settled => Settled')
<1> USE DEF registry
<1>1. /\ LeasesExact' /\ leases' \in [Workers -> Nat]
      /\ lease' \in [Sessions -> {"none", "held", "released"}]
      /\ empty' \in [Workers -> BOOLEAN]
      /\ manager' \subseteq manager /\ contexts' \subseteq manager'
      /\ contexts' = contexts \ {s}
      /\ s \in contexts => lease'[s] # "held" /\ manager' = manager \ {s}
      /\ s \notin contexts => manager' = manager
      /\ \A t \in Sessions : lease'[t] = "held" => lease[t] = "held"
      /\ \A t \in Sessions : lease[t] = "none" => lease'[t] = "none"
  BY ReleaseSessionIInv
<1>2. TypeOK'
  <2>1. manager' \subseteq Sessions
    BY <1>1 DEF IInv, TypeOK
  <2> QED BY <1>1, <2>1 DEF IInv, TypeOK, Sweeps
<1>3. Placed'
  BY <1>1 DEF IInv, Placed
<1>4. Settled => Settled'
  <2> SUFFICES ASSUME Settled PROVE Settled'
    OBVIOUS
  <2>1. manager' = contexts'
    BY <1>1 DEF Settled
  <2>2. \A t \in Sessions : pc'[t] \in {"start", "opening", "returned"} => t \notin contexts'
    BY <1>1 DEF Settled
  <2>3. \A t \in Sessions \ contexts' : pc'[t] # "opening" => lease'[t] # "held"
    <3> SUFFICES ASSUME NEW t \in Sessions, t \notin contexts', pc'[t] # "opening",
                        lease'[t] = "held"
                 PROVE  FALSE
      OBVIOUS
    <3>1. lease[t] = "held" /\ ~(t = s /\ s \in contexts) /\ t \notin contexts
      BY <1>1
    <3>2. pc[t] = "opening"
      BY <3>1 DEF Settled
    <3>3. pc'[t] = pc[t]
      BY <3>2
    <3> QED BY <3>2, <3>3
  <2> QED BY <2>1, <2>2, <2>3 DEF Settled
<1> QED BY <1>1, <1>2, <1>3, <1>4 DEF IInv

\* release_session by a session's own sender or abort.
LEMMA SessionReleasesIInv ==
    ASSUME IInv, NEW s \in Sessions, SenderReleases(s) \/ AbortStarts(s) \/ AbortReleases(s)
    PROVE  IInv' /\ (Settled => Settled')
<1> DEFINE Pcs == {"start", "opening", "running", "segmenting", "finishing", "failing", "awaiting",
                   "leaving", "barrier", "aborted", "returned"}
<1>1. /\ pc \in [Sessions -> Pcs]
      /\ sender \in [Sessions -> {"none", "running", "terminal", "done"}]
      /\ sweep \in [Sweepers -> Sweeps]
      /\ \A k \in Sweepers : sweep[k].pc \in {"barrier", "aborted"} => sweep[k].cur \in Sessions
  BY DEF IInv, TypeOK, Placed, Sweeps
<1>2. /\ UNCHANGED <<runtime, registry, route, backend, ended, sweep>>
      /\ sender' \in {sender, [sender EXCEPT ![s] = "done"]}
      /\ \/ ReleaseSession(s) /\ pc' = pc
         \/ /\ ReleaseSession(s) /\ pc[s] \in {"leaving", "aborted"}
            /\ pc' = [pc EXCEPT ![s] = "returned"]
         \/ pc[s] = "leaving" /\ pc' = [pc EXCEPT ![s] = "barrier"] /\ UNCHANGED tables
  BY DEF SenderReleases, AbortStarts, AbortReleases
<1>3. sender' \in [Sessions -> {"none", "running", "terminal", "done"}]
  BY <1>1, <1>2
<1>4. pc' \in [Sessions -> Pcs]
  BY <1>1, <1>2
<1>5. CASE ReleaseSession(s) /\ pc' = pc
  BY <1>1, <1>2, <1>3, <1>5, ReleasingIInv
<1>6. CASE ReleaseSession(s) /\ pc[s] \in {"leaving", "aborted"}
            /\ pc' = [pc EXCEPT ![s] = "returned"]
  <2>1. pc'[s] = "returned" /\ \A t \in Sessions \ {s} : pc'[t] = pc[t]
    BY <1>1, <1>6
  <2> QED BY <1>1, <1>2, <1>3, <1>4, <1>6, <2>1, ReleasingIInv
<1>7. CASE pc[s] = "leaving" /\ pc' = [pc EXCEPT ![s] = "barrier"] /\ UNCHANGED tables
  <2>1. /\ \A t \in Sessions : pc'[t] = "start" => pc[t] = "start"
        /\ \A t \in Sessions : pc'[t] \in {"start", "opening", "returned"} =>
             pc[t] \in {"start", "opening", "returned"}
        /\ \A t \in Sessions : pc[t] = "opening" => pc'[t] = "opening"
    BY <1>1, <1>7
  <2>2. backend' \subseteq Sessions /\ ended' \subseteq Sessions
    BY <1>2 DEF IInv, TypeOK
  <2>3. IInv'
    BY <1>1, <1>2, <1>3, <1>4, <1>7, <2>1, <2>2, StayIInv
  <2>4. Settled => Settled'
    BY <1>7, <2>1 DEF Settled, tables
  <2> QED BY <2>3, <2>4
<1> QED BY <1>2, <1>5, <1>6, <1>7

\* Steps of a sweep between sessions, release_session included.
LEMMA SweepIInv ==
    ASSUME IInv, NEW k \in Sweepers, SweepNext(k) \/ SweepReleases(k)
    PROVE  IInv' /\ (Settled => Settled')
<1>1. /\ sweep \in [Sweepers -> Sweeps] /\ sweep[k] \in Sweeps
      /\ \A j \in Sweepers : sweep[j].pc \in {"barrier", "aborted"} => sweep[j].cur \in Sessions
      /\ pc \in [Sessions -> {"start", "opening", "running", "segmenting", "finishing",
                              "failing", "awaiting", "leaving", "barrier", "aborted", "returned"}]
      /\ sender \in [Sessions -> {"none", "running", "terminal", "done"}]
      /\ backend \subseteq Sessions /\ ended \subseteq Sessions
  BY DEF IInv, TypeOK, Placed, Sweeps
<1>2. UNCHANGED <<runtime, registry, route, backend, ended, pc, sender>>
  BY DEF SweepNext, SweepReleases
<1>3. PICK s \in Sessions :
        \/ ReleaseSession(s) /\ sweep' = [sweep EXCEPT ![k].todo = @ \ {s}]
             /\ sweep[k].pc = "next"
        \/ ReleaseSession(s) /\ sweep' = [sweep EXCEPT ![k].pc = "next", ![k].cur = NoSession]
        \/ UNCHANGED tables /\ sweep' = [sweep EXCEPT ![k] =
             [pc |-> "barrier", todo |-> @.todo \ {s}, cur |-> s]]
  <2>1. CASE SweepNext(k)
    <3>1. sweep[k].todo \subseteq Sessions
      BY <1>1 DEF Sweeps
    <3> QED BY <2>1, <3>1 DEF SweepNext
  <2>2. CASE SweepReleases(k)
    <3>1. sweep[k].cur \in Sessions
      BY <1>1, <2>2 DEF SweepReleases
    <3> QED BY <2>2, <3>1 DEF SweepReleases
  <2> QED BY <2>1, <2>2
<1>4. /\ sweep' \in [Sweepers -> Sweeps]
      /\ \A j \in Sweepers : sweep'[j].pc \in {"barrier", "aborted"} => sweep'[j].cur \in Sessions
  <2>1. sweep[k].todo \ {s} \in SUBSET Sessions
    BY <1>1 DEF Sweeps
  <2>2. CASE sweep' = [sweep EXCEPT ![k].todo = @ \ {s}] /\ sweep[k].pc = "next"
    <3>1. sweep' \in [Sweepers -> Sweeps]
      BY <1>1, <2>1, <2>2 DEF Sweeps
    <3>2. sweep'[k].pc = "next" /\ \A j \in Sweepers \ {k} : sweep'[j] = sweep[j]
      BY <1>1, <2>2 DEF Sweeps
    <3> QED BY <1>1, <3>1, <3>2
  <2>3. CASE sweep' = [sweep EXCEPT ![k].pc = "next", ![k].cur = NoSession]
    <3>1. sweep' \in [Sweepers -> Sweeps]
      BY <1>1, <2>3 DEF Sweeps
    <3>2. sweep'[k].pc = "next" /\ \A j \in Sweepers \ {k} : sweep'[j] = sweep[j]
      BY <1>1, <2>3 DEF Sweeps
    <3> QED BY <1>1, <3>1, <3>2
  <2>4. CASE sweep' = [sweep EXCEPT ![k] =
             [pc |-> "barrier", todo |-> @.todo \ {s}, cur |-> s]]
    <3>1. sweep' \in [Sweepers -> Sweeps]
      BY <1>1, <2>1, <2>4 DEF Sweeps
    <3>2. sweep'[k].cur = s /\ \A j \in Sweepers \ {k} : sweep'[j] = sweep[j]
      BY <1>1, <2>4
    <3> QED BY <1>1, <3>1, <3>2
  <2> QED BY <1>3, <2>2, <2>3, <2>4
<1>5. CASE ReleaseSession(s)
  BY <1>1, <1>2, <1>4, <1>5, ReleasingIInv
<1>6. CASE UNCHANGED tables
  <2>1. IInv'
    BY <1>1, <1>2, <1>4, <1>6, StayIInv
  <2>2. Settled => Settled'
    BY <1>2, <1>6 DEF Settled, tables
  <2> QED BY <2>1, <2>2
<1> QED BY <1>3, <1>5, <1>6

\* Every step preserves the invariant.
LEMMA NextIInv ==
    ASSUME IInv, [Next]_vars
    PROVE  IInv' /\ (NoVadFault /\ Settled => Settled')
<1>1. CASE \/ RegisterAll \/ BeginClose \/ CloseDone
           \/ \E w \in Workers : WarmUp(w) \/ WorkerFailed(w) \/ BeginDrain(w) \/ DrainStep(w)
  <2>1. Quiet /\ IInv'
    BY <1>1, GatewayIInv
  <2>2. Settled => Settled'
    BY <2>1 DEF Quiet, Settled, tables
  <2> QED BY <2>1, <2>2
<1>2. ASSUME NEW s \in Sessions,
             \/ OpenStep(s) \/ EndStep(s) \/ AbortStep(s)
             \/ ResultFails(s) \/ SegmentStep(s) \/ ClientFinish(s) \/ ClientAbort(s)
             \/ SenderReleases(s) \/ SenderDies(s)
      PROVE  IInv' /\ (NoVadFault /\ Settled => Settled')
  BY <1>2, HandlerIInv, AcquireIInv, OpeningIInv, FinishIInv, SessionReleasesIInv, Zenon
  DEF OpenStep, EndStep, AbortStep, SegmentStep
<1>3. ASSUME NEW k \in Sweepers, SweepStep(k)
      PROVE  IInv' /\ (NoVadFault /\ Settled => Settled')
  BY <1>3, SweepIInv, SweepPassesBarrierIInv, Zenon DEF SweepStep
<1>4. CASE UNCHANGED vars
  <2> USE <1>4 DEF vars
  <2>1. TypeOK' /\ Placed' /\ LeasesExact'
    BY FrameLeases DEF IInv, TypeOK, Placed
  <2>2. Settled => Settled'
    BY DEF Settled
  <2> QED BY <2>1, <2>2 DEF IInv
<1> QED BY <1>1, <1>2, <1>3, <1>4 DEF Next

-----------------------------------------------------------------------------
(* What the leases and tables keep *)

\* The inductive invariant holds in every state.
LEMMA InductiveInvariant == Spec => []IInv
<1> QED BY InitIInv, NextIInv, PTL DEF Spec

\* Every variable keeps its type; a context is always in the session manager,
\* and a sweep past its barrier names a session.
THEOREM TypeCorrect == Spec => []TypeOK
<1>1. IInv => TypeOK
  BY DEF IInv
<1> QED BY <1>1, InductiveInvariant, PTL

\* active_leases is exact and within the capacity, and a leased worker is
\* registered, whatever fails and whoever releases a session twice.
THEOREM LeasesAreExact == Spec => []LeasesExact
<1>1. IInv => LeasesExact
  BY DEF IInv
<1> QED BY <1>1, InductiveInvariant, PTL

\* Where the VAD factory does not raise, a handler that has returned left no
\* lease, context or manager slot behind, whatever else fails.  (The factory is
\* called outside open_session's try: what it leaves behind nobody releases.)
THEOREM HandlersLeaveNothing ==
    ASSUME "vad_factory_fails" \notin Happens
    PROVE  Spec => []NothingLeftBehind
<1>1. NoVadFault
  BY DEF NoVadFault
<1>2. Init => Settled
  BY DEF Init, Settled
<1>3. IInv /\ Settled /\ [Next]_vars => Settled'
  BY <1>1, NextIInv
<1>4. IInv /\ Settled => NothingLeftBehind
  BY DEF Settled, NothingLeftBehind
<1> QED BY <1>2, <1>3, <1>4, InductiveInvariant, PTL DEF Spec
=============================================================================
