--------------------- MODULE InferenceCoordinatorProofs ---------------------
(***************************************************************************)
(* The coordinator's admission accounts, for every number of sessions,     *)
(* every limit and every mixture of operations: the stream limit, the      *)
(* queue's accounts, one operation per session at a time, and operations   *)
(* that find their session.                                                *)
(***************************************************************************)
EXTENDS InferenceCoordinator, FiniteSetTheorems, TLAPS

\* Where the owner thread holds a job: before it runs it, and until it has
\* settled its futures.
BeforeRun == {"check", "warm", "claim", "execute"}
Holding == BeforeRun \cup {"transcribe", "cleanup", "purge", "release"}

\* The jobs not settled yet, and those among them that have not run.
Unsettled == queue \cup (IF pc \in Holding \cup {"resolve"} THEN {job} ELSE {})
Unrun == queue \cup (IF pc \in BeforeRun THEN {job} ELSE {})

\* Jobs are numbered as they are made; a result reaches a caller only from the
\* owner thread's last step with the job, and a session is created by one job.
JobsInOrder ==
    /\ \A j \in JobIds :
         IF j > issued THEN jobs[j] = NoJobRecord
         ELSE /\ jobs[j].action \in Actions
              /\ jobs[j].action # "transcribe_file" => jobs[j].sid \in Sessions
              /\ jobs[j].action = "transcribe_file" => jobs[j].sid = NoSession
              /\ jobs[j].caller = "returned" => jobs[j].result = "value"
    /\ \A i, j \in 1..issued :
         jobs[i].action \in Creates /\ jobs[j].action \in Creates
         /\ jobs[i].sid = jobs[j].sid => i = j
    /\ queue \subseteq 1..issued
    /\ pc \in Holding \cup {"resolve"} => job \in (1..issued) \ queue
    /\ \A j \in Unsettled : jobs[j].result \in {"pending", "cancelled"}
    /\ \/ pc \in {"execute", "transcribe"}
       \/ pc \in {"cleanup", "purge", "release", "resolve"} /\ outcome = "value"
       => jobs[job].started # "pending"

\* What a job that is still to run may rely on.  A create is the only job of its
\* session, which has its reservation and is not active; an operation's session
\* is active, and nothing else of that session is under way.
Promised ==
    /\ active \subseteq Used
    /\ \A j \in 1..issued :
         jobs[j].holdsStream => jobs[j].action \in Creates /\ jobs[j].sid \notin active
    /\ \A j \in Unrun : jobs[j].action \in Creates =>
         /\ jobs[j].holdsStream /\ jobs[j].sid \in reservations
         /\ \A i \in 1..issued : jobs[i].sid = jobs[j].sid => i = j
    /\ \A j \in Unrun : jobs[j].action \in SessionActions \ {"abort_stream"} =>
         /\ jobs[j].sid \in active
         /\ \A i \in queue \cup Held : jobs[i].sid = jobs[j].sid => i = j

\* A session with an operation under way is busy, or has been dropped for good.
Guarded ==
    \A j \in queue \cup Held :
        HoldsSession(j) => jobs[j].sid \in busy \/ jobs[j].sid \notin active

IInv ==
    /\ TypeOK
    /\ JobsInOrder
    /\ Promised
    /\ Guarded
    /\ active = sessions
    /\ CapacityBound
    /\ QueueAccounting
    /\ OneOperationPerSession

-----------------------------------------------------------------------------
(* Steps that leave the accounts alone *)

\* Before the lifespan starts there is no job and no session.
LEMMA InitIInv == Init => IInv
<1> SUFFICES ASSUME Init PROVE IInv
  OBVIOUS
<1> USE CoordinatorAssumption DEF CoordinatorAssumption
<1>1. TypeOK
  <2>1. NoJobRecord \in JobType
    BY DEF NoJobRecord, JobType
  <2>2. jobs \in [JobIds -> JobType]
    BY <2>1 DEF Init
  <2>3. queuedJobs \in 0..QueueSize /\ queuedAudio \in 0..MaxQueuedAudio /\ issued \in 0..MaxJobs
    BY DEF Init
  <2> QED BY <2>2, <2>3, Zenon DEF Init, TypeOK
<1>2. Held = {} /\ queue = {} /\ Unrun = {} /\ Unsettled = {}
  BY DEF Init, Held, Unrun, Unsettled, BeforeRun, Holding
<1>3. JobsInOrder
  BY <1>2 DEF Init, JobsInOrder, JobIds, Holding, BeforeRun
<1>5. CapacityBound
  BY FS_EmptySet DEF Init, CapacityBound
<1>6. QueueAccounting
  <2>1. {j \in queue \cup Held : jobs[j].action \in Chunks} = {}
    BY <1>2
  <2> QED BY <1>2, <2>1, FS_EmptySet DEF Init, QueueAccounting
<1>7. Promised /\ Guarded /\ OneOperationPerSession
  BY <1>2 DEF Init, Promised, Guarded, OneOperationPerSession
<1> QED BY <1>1, <1>3, <1>5, <1>6, <1>7 DEF IInv, Init

\* Where the jobs of the queue and of the owner thread are numbered.
LEMMA Ranges ==
    ASSUME IInv
    PROVE  /\ issued \in Nat /\ 1..issued \subseteq JobIds
           /\ queue \subseteq 1..issued /\ Held \subseteq 1..issued
           /\ Unrun \subseteq queue \cup Held
           /\ queue \cup Held \subseteq Unsettled
           /\ Unsettled \subseteq 1..issued
           /\ job \in Held => job \notin queue
<1>1. issued \in 0..MaxJobs /\ queue \subseteq 1..issued
  BY DEF IInv, TypeOK, JobsInOrder
<1>2. pc \in Holding \cup {"resolve"} => job \in (1..issued) \ queue
  BY DEF IInv, JobsInOrder
<1>3. issued \in Nat /\ 1..issued \subseteq JobIds
  BY <1>1, CoordinatorAssumption DEF CoordinatorAssumption, JobIds
<1>4. CASE pc \in Holding
  BY <1>1, <1>2, <1>3, <1>4 DEF Held, Unrun, Unsettled, Holding, BeforeRun
<1>5. CASE pc \notin Holding
  BY <1>1, <1>2, <1>3, <1>5 DEF Held, Unrun, Unsettled, Holding, BeforeRun
<1> QED BY <1>4, <1>5

\* A step that moves neither a job nor a session between the tables.
LEMMA FrameIInv ==
    ASSUME IInv, TypeOK', JobsInOrder',
           UNCHANGED <<queue, queuedJobs, queuedAudio, active, reservations,
                       busy, issued, sessions, Held>>,
           Unrun' \subseteq Unrun,
           \A j \in JobIds : /\ jobs'[j].action = jobs[j].action
                              /\ jobs'[j].sid = jobs[j].sid
                              /\ jobs'[j].holdsStream = jobs[j].holdsStream
    PROVE  IInv'
<1>1. queue \cup Held \subseteq JobIds /\ Unrun \subseteq JobIds /\ 1..issued \subseteq JobIds
  BY Ranges, Zenon
<1>2. {j \in queue \cup Held : jobs[j].action \in Chunks}' =
        {j \in queue \cup Held : jobs[j].action \in Chunks}
  BY <1>1
<1>3. QueueAccounting' /\ CapacityBound'
  BY <1>2 DEF IInv, QueueAccounting, CapacityBound
<1>4. Promised'
  <2>1. Used' = Used
    BY <1>1 DEF Used
  <2> QED BY <1>1, <2>1 DEF IInv, Promised
<1>5. Guarded' /\ OneOperationPerSession'
  BY <1>1 DEF IInv, Guarded, OneOperationPerSession, HoldsSession
<1> QED BY <1>3, <1>4, <1>5 DEF IInv

\* Steps of the lifespan and of the owner thread that touch no job and no registry.
LEMMA QuietIInv ==
    ASSUME IInv,
           \/ Start \/ Stop \/ Load \/ GetShutdown \/ PassCheck \/ Warmup
           \/ CheckPoison \/ DrainShutdown \/ TranscribeEnds
    PROVE  IInv'
<1> USE DEF vars, lifecycle, admission, registries, batch, worker, WorkerLeaves
<1>1. /\ UNCHANGED <<queue, queuedJobs, queuedAudio, active, reservations, busy,
                     issued, sessions, jobs, job>>
      /\ pc \in Holding <=> pc' \in Holding
      /\ pc' \in BeforeRun => pc \in BeforeRun
      /\ pc' = "resolve" => pc = "resolve"
      /\ pc' \in {"execute", "transcribe"} => pc \in {"execute", "transcribe"} 
      /\ pc' \in {"cleanup", "purge", "release", "resolve"} /\ outcome' = "value" =>
           \/ pc = "transcribe"
           \/ pc \in {"cleanup", "purge", "release", "resolve"} /\ outcome = "value"
  BY DEF Start, Stop, Load, GetShutdown, PassCheck, Warmup, CheckPoison,
         DrainShutdown, TranscribeEnds, Holding, BeforeRun, ThreadAlive
<1>2. TypeOK'
  <2> USE DEF IInv, TypeOK
  <2>1. CASE Start
    BY <2>1 DEF Start
  <2>6. CASE Stop
    <3>1. accepting' \in BOOLEAN /\ control' \in BOOLEAN /\ shutdown' \in BOOLEAN
      BY <2>6, Zenon DEF Stop
    <3> QED BY <2>6, <3>1 DEF Stop
  <2>2. CASE Load
    BY <2>2, CoordinatorAssumption DEF CoordinatorAssumption, Load
  <2>3. CASE GetShutdown \/ PassCheck \/ CheckPoison
    BY <2>3, ZenonT(30) DEF GetShutdown, PassCheck, CheckPoison
  <2>4. CASE Warmup
    BY <2>4 DEF Warmup
  <2>5. CASE DrainShutdown \/ TranscribeEnds
    BY <2>5 DEF DrainShutdown, TranscribeEnds
  <2> QED BY <2>1, <2>2, <2>3, <2>4, <2>5, <2>6
<1>3. Held' = Held /\ Unrun' \subseteq Unrun /\ Unsettled' \subseteq Unsettled
  BY <1>1 DEF Held, Unrun, Unsettled, Holding, BeforeRun
<1>4. JobsInOrder'
  BY <1>1, <1>3 DEF IInv, JobsInOrder, Holding, BeforeRun
<1> QED BY <1>1, <1>2, <1>3, <1>4, FrameIInv

-----------------------------------------------------------------------------
(* The callers *)

\* A coroutine goes on: its job's futures and its own place may change, and
\* sessions may be poisoned.
LEMMA CallerIInv ==
    ASSUME IInv, NEW j \in JobIds, jobs[j].caller # "none",
           jobs' \in [JobIds -> JobType],
           \A i \in JobIds \ {j} : jobs'[i] = jobs[i],
           jobs'[j].action = jobs[j].action, jobs'[j].sid = jobs[j].sid,
           jobs'[j].holdsStream = jobs[j].holdsStream,
           jobs'[j].started = "pending" => jobs[j].started = "pending",
           jobs[j].result \in {"pending", "cancelled"} =>
             jobs'[j].result \in {"pending", "cancelled"},
           jobs'[j].caller = "returned" => jobs'[j].result = "value",
           poisoned' \subseteq Sessions, batchPending' \in BOOLEAN,
           UNCHANGED <<lifecycle, admission, active, reservations, busy,
                       batchRunning, issued, worker>>
    PROVE  IInv'
<1> USE DEF lifecycle, admission, worker
<1>1. TypeOK'
  BY DEF IInv, TypeOK
<1>2. Held' = Held /\ Unrun' = Unrun /\ Unsettled' = Unsettled
  BY DEF Held, Unrun, Unsettled
<1>3. j \in 1..issued
  BY DEF IInv, TypeOK, JobsInOrder, NoJobRecord, JobIds
<1>4. JobsInOrder'
  <2>1. issued \in Nat /\ 1..issued \subseteq JobIds /\ Unsettled \subseteq 1..issued
    BY Ranges, Zenon
  <2>2. \A i \in JobIds : i > issued => jobs'[i] = NoJobRecord
    BY <1>3, <2>1 DEF IInv, JobsInOrder, JobIds
  <2>3. \A i \in 1..issued :
          /\ jobs'[i].action = jobs[i].action /\ jobs'[i].sid = jobs[i].sid
          /\ jobs'[i].started = "pending" => jobs[i].started = "pending"
          /\ jobs[i].result \in {"pending", "cancelled"} =>
               jobs'[i].result \in {"pending", "cancelled"}
          /\ jobs'[i].caller = "returned" => jobs'[i].result = "value"
    BY <2>1 DEF IInv, JobsInOrder, JobIds
  <2>4. pc \in Holding \cup {"resolve"} => job \in 1..issued
    BY DEF IInv, JobsInOrder
  <2> QED BY <1>2, <2>1, <2>2, <2>3, <2>4 DEF IInv, JobsInOrder, Holding, BeforeRun, JobIds
<1>6. \A i \in JobIds : /\ jobs'[i].action = jobs[i].action
                        /\ jobs'[i].sid = jobs[i].sid
                        /\ jobs'[i].holdsStream = jobs[i].holdsStream
  OBVIOUS
<1> QED BY <1>1, <1>2, <1>4, <1>6, FrameIInv, Zenon

\* A caller stops waiting, with its futures as they were or cancelled.
LEMMA EndCallerIInv ==
    ASSUME IInv, NEW j \in JobIds, jobs[j].caller # "none",
           NEW end \in Waiting \cup Ended, NEW started, NEW result, NEW poison,
           EndCaller(j, end, started, result, poison),
           \/ started = jobs[j].started /\ result = jobs[j].result
           \/ started = "cancelled" /\ result = "cancelled",
           end = "returned" => result = "value",
           end # "unpoisoned"
    PROVE  IInv'
<1> USE DEF EndCaller
<1>1. jobs[j] \in JobType /\ DOMAIN jobs = JobIds
  BY DEF IInv, TypeOK
<1>2. jobs'[j] \in JobType /\ jobs' \in [JobIds -> JobType]
  BY <1>1 DEF IInv, TypeOK, JobType
<1>3. /\ jobs'[j].action = jobs[j].action /\ jobs'[j].sid = jobs[j].sid
      /\ jobs'[j].holdsStream = jobs[j].holdsStream
      /\ jobs'[j].started = started /\ jobs'[j].result = result
      /\ jobs'[j].caller = end
      /\ \A i \in JobIds \ {j} : jobs'[i] = jobs[i]
  BY <1>1 DEF JobType
<1>4. poisoned' \subseteq Sessions
  BY <1>1 DEF SidOf, IInv, TypeOK, JobType
<1>5. batchPending' \in BOOLEAN
  BY Zenon DEF EndCaller
<1>6. jobs[j].result \in {"pending", "cancelled"} => result \in {"pending", "cancelled"}
  BY Zenon
<1>7. started = "pending" => jobs[j].started = "pending"
  OBVIOUS
<1> QED BY <1>2, <1>3, <1>4, <1>5, <1>6, <1>7, CallerIInv, ZenonT(30)

\* Every way a wait of a caller ends: result, timeout or cancellation.
LEMMA WaitingIInv ==
    ASSUME IInv, NEW j \in JobIds,
           \/ SeeStarted(j) \/ QueueTimeout(j) \/ SeeResult(j)
           \/ InferenceTimeout(j) \/ CancelCaller(j)
    PROVE  IInv'
<1> USE DEF Waiting, Ended
<1>1. jobs[j] \in JobType /\ DOMAIN jobs = JobIds
  BY DEF IInv, TypeOK
<1>2. CASE SeeStarted(j) /\ jobs[j].started = "set"
  <2>1. /\ jobs' = [jobs EXCEPT ![j].caller = "result"] /\ jobs[j].caller = "started"
        /\ UNCHANGED <<lifecycle, admission, registries, batch, issued, worker>>
    BY <1>2 DEF SeeStarted
  <2>2. jobs' \in [JobIds -> JobType]
    BY <1>1, <2>1 DEF IInv, TypeOK, JobType
  <2>3. /\ jobs'[j].action = jobs[j].action /\ jobs'[j].sid = jobs[j].sid
        /\ jobs'[j].holdsStream = jobs[j].holdsStream
        /\ jobs'[j].started = jobs[j].started /\ jobs'[j].result = jobs[j].result
        /\ jobs'[j].caller = "result"
        /\ \A i \in JobIds \ {j} : jobs'[i] = jobs[i]
    BY <1>1, <2>1 DEF JobType
  <2>4. /\ poisoned' \subseteq Sessions /\ batchPending' \in BOOLEAN
        /\ UNCHANGED <<lifecycle, admission, active, reservations, busy,
                       batchRunning, issued, worker>>
    BY <2>1 DEF registries, batch, IInv, TypeOK
  <2> QED BY <2>1, <2>2, <2>3, <2>4, CallerIInv
<1>3. CASE SeeStarted(j) /\ jobs[j].started # "set"
  BY <1>3, EndCallerIInv DEF SeeStarted
<1>4. CASE QueueTimeout(j)
  BY <1>4, EndCallerIInv DEF QueueTimeout
<1>5. CASE SeeResult(j)
  <2>1. CASE jobs[j].result = "value"
    BY <1>5, <2>1, EndCallerIInv DEF SeeResult
  <2>2. CASE jobs[j].result # "value"
    BY <1>5, <2>2, EndCallerIInv DEF SeeResult
  <2> QED BY <2>1, <2>2
<1>6. CASE InferenceTimeout(j)
  <2>1. /\ jobs[j].caller # "none" /\ "raised" \in Waiting \cup Ended
        /\ EndCaller(j, "raised", jobs[j].started, jobs[j].result, TRUE)
    BY <1>6 DEF InferenceTimeout
  <2> QED BY <2>1, EndCallerIInv, Zenon
<1>7. CASE CancelCaller(j)
  <2>1. CASE jobs[j].caller = "started" /\ jobs[j].started = "pending"
    <3>1. /\ jobs[j].caller # "none" /\ "gave_up" \in Waiting \cup Ended
          /\ EndCaller(j, "gave_up", "cancelled", "cancelled", FALSE)
      BY <1>7, <2>1 DEF CancelCaller
    <3> QED BY <3>1, EndCallerIInv, Zenon
  <2>2. CASE jobs[j].caller = "cleanup"
    <3>1. /\ jobs[j].caller # "none" /\ "raised" \in Waiting \cup Ended
          /\ EndCaller(j, "raised", jobs[j].started, jobs[j].result, FALSE)
      BY <1>7, <2>2 DEF CancelCaller
    <3> QED BY <3>1, EndCallerIInv, Zenon
  <2>3. CASE /\ jobs[j].caller \in {"started", "result"}
             /\ ~(jobs[j].caller = "started" /\ jobs[j].started = "pending")
    <3> DEFINE end == IF SidOf(j) = {} THEN "raised" ELSE "cleanup"
    <3>1. EndCaller(j, end, jobs[j].started, jobs[j].result, TRUE)
      BY <1>7, <2>3 DEF CancelCaller
    <3>2. end \in Waiting \cup Ended /\ end # "returned" /\ end # "unpoisoned"
      OBVIOUS
    <3>3. jobs[j].caller # "none"
      BY <2>3
    <3> HIDE DEF end
    <3> QED BY <3>1, <3>2, <3>3, EndCallerIInv
  <2> QED BY <1>7, <2>1, <2>2, <2>3 DEF CancelCaller
<1> QED BY <1>2, <1>3, <1>4, <1>5, <1>6, <1>7

\* The cleanup of a cancelled caller has its result, or waited long enough.
LEMMA CleanupWaitedIInv ==
    ASSUME IInv, NEW j \in JobIds, CleanupWaited(j)
    PROVE  IInv'
<1>1. jobs[j] \in JobType /\ DOMAIN jobs = JobIds /\ poisoned \subseteq Sessions
      /\ batchPending \in BOOLEAN
  BY DEF IInv, TypeOK
<1>2. PICK end \in {"unpoisoned", "raised"} : jobs' = [jobs EXCEPT ![j].caller = end]
  BY DEF CleanupWaited
<1>3. /\ jobs[j].caller = "cleanup" /\ poisoned' \subseteq Sessions
      /\ batchPending' \in BOOLEAN
      /\ UNCHANGED <<lifecycle, admission, active, reservations, busy,
                     batchRunning, issued, worker>>
  BY <1>1 DEF CleanupWaited, batch
<1>4. jobs' \in [JobIds -> JobType]
  BY <1>1, <1>2 DEF IInv, TypeOK, JobType, Waiting, Ended
<1>5. /\ jobs'[j].action = jobs[j].action /\ jobs'[j].sid = jobs[j].sid
      /\ jobs'[j].holdsStream = jobs[j].holdsStream
      /\ jobs'[j].started = jobs[j].started /\ jobs'[j].result = jobs[j].result
      /\ jobs'[j].caller = end
      /\ \A i \in JobIds \ {j} : jobs'[i] = jobs[i]
  BY <1>1, <1>2 DEF JobType
<1> QED BY <1>2, <1>3, <1>4, <1>5, CallerIInv

-----------------------------------------------------------------------------
(* Submissions *)

\* A job joins the queue.  earlier is jobs, or jobs with one coroutine gone on.
LEMMA EnqueueIInv ==
    ASSUME IInv, NEW earlier \in [JobIds -> JobType], NEW action \in Actions,
           NEW sid \in Sessions \cup {NoSession}, NEW byCleanup \in BOOLEAN,
           \A i \in JobIds :
             /\ earlier[i].action = jobs[i].action /\ earlier[i].sid = jobs[i].sid
             /\ earlier[i].started = jobs[i].started
             /\ earlier[i].result = jobs[i].result
             /\ earlier[i].holdsStream = jobs[i].holdsStream
             /\ earlier[i].caller = "returned" => jobs[i].caller = "returned",
           \A i \in JobIds : i > issued => earlier[i] = NoJobRecord,
           QueueAdmits(action),
           Enqueue(earlier, action, sid, byCleanup),
           action = "transcribe_file" <=> sid = NoSession,
           IF action \in Creates
             THEN /\ sid \notin Used /\ reservations' = reservations \cup {sid}
                  /\ Cardinality(reservations) < MaxActiveStreams
             ELSE reservations' = reservations,
           IF action \in SessionActions
             THEN sid \in active \ busy /\ busy' = busy \cup {sid}
             ELSE busy' = busy,
           action \in SessionActions \ {"abort_stream"} => sid \in Known,
           batchPending' \in BOOLEAN,
           UNCHANGED <<lifecycle, active, poisoned, batchRunning, worker>>
    PROVE  IInv'
<1> DEFINE new == issued + 1
<1> USE DEF lifecycle, worker
<1>0. issued < MaxJobs
  BY DEF Enqueue
<1>1. /\ issued \in Nat /\ 1..issued \subseteq JobIds /\ new \in JobIds
      /\ new \notin 1..issued /\ 1..new = 1..issued \cup {new} /\ issued' = new
      /\ queue' = queue \cup {new}
  BY <1>0, Ranges, CoordinatorAssumption DEF CoordinatorAssumption, JobIds, Enqueue
<1>2. /\ queue \subseteq 1..issued /\ Held \subseteq 1..issued /\ Unsettled \subseteq 1..issued
      /\ Unrun \subseteq queue \cup Held /\ queue \cup Held \subseteq Unsettled
  BY Ranges, Zenon
<1>3. /\ Held' = Held /\ Unrun' = Unrun \cup {new} /\ Unsettled' = Unsettled \cup {new}
  BY <1>1 DEF Held, Unrun, Unsettled
<1>4. /\ jobs'[new] = NewJob(action, sid, byCleanup)
      /\ \A i \in JobIds \ {new} : jobs'[i] = earlier[i]
  BY <1>1 DEF Enqueue
<1>5. /\ jobs'[new].action = action /\ jobs'[new].sid = sid
      /\ jobs'[new].result = "pending" /\ jobs'[new].caller = "started"
      /\ jobs'[new].holdsStream <=> action \in Creates
  BY <1>4 DEF NewJob, NoJobRecord
<1>6. \A i \in 1..issued :
        /\ jobs'[i].action = jobs[i].action /\ jobs'[i].sid = jobs[i].sid
        /\ jobs'[i].started = jobs[i].started /\ jobs'[i].result = jobs[i].result
        /\ jobs'[i].holdsStream = jobs[i].holdsStream
        /\ jobs'[i].caller = "returned" => jobs[i].caller = "returned"
  BY <1>1, <1>4
<1>7. jobs' \in [JobIds -> JobType]
  <2>1. NewJob(action, sid, byCleanup) \in JobType
    <3> DEFINE holds == action \in Creates
    <3>1. holds \in BOOLEAN
      BY SMT
    <3>2. NewJob(action, sid, byCleanup) =
            [NoJobRecord EXCEPT !.action = action, !.sid = sid, !.holdsStream = holds,
                                !.cleanup = byCleanup, !.caller = "started"]
      BY DEF NewJob
    <3> HIDE DEF holds
    <3> QED BY <3>1, <3>2 DEF NoJobRecord, JobType, Waiting, Ended
  <2> QED BY <1>1, <2>1 DEF Enqueue
<1> HIDE DEF new
<1>8. TypeOK'
  <2>1. queuedJobs' \in 0..QueueSize /\ queuedAudio' \in 0..MaxQueuedAudio
    BY CoordinatorAssumption
    DEF CoordinatorAssumption, Enqueue, QueueAdmits, AudioOf, IInv, TypeOK
  <2>2. issued' \in 0..MaxJobs
    BY <1>0, <1>1, CoordinatorAssumption DEF CoordinatorAssumption, new
  <2>3. /\ queue' \subseteq JobIds /\ active' \subseteq Sessions
        /\ reservations' \subseteq Sessions /\ busy' \subseteq Sessions
    BY <1>1, <1>2 DEF IInv, TypeOK, Creates, SessionActions, Chunks
  <2> QED BY <1>7, <2>1, <2>2, <2>3 DEF IInv, TypeOK
<1>9. sid \in Known => \A i \in Unsettled : jobs[i].action \in Creates => jobs[i].sid # sid
  <2> SUFFICES ASSUME sid \in Known, NEW i \in Unsettled,
                      jobs[i].action \in Creates, jobs[i].sid = sid
               PROVE  FALSE
    OBVIOUS
  <2>1. PICK k \in 1..issued : /\ jobs[k].action \in Creates /\ jobs[k].sid = sid
                               /\ jobs[k].caller = "returned"
    BY DEF Known
  <2>2. k = i
    BY <1>2, <2>1 DEF IInv, JobsInOrder
  <2>3. jobs[k].result = "value"
    BY <1>1, <2>1 DEF IInv, JobsInOrder
  <2> QED BY <2>2, <2>3 DEF IInv, JobsInOrder
<1>10. \A i \in queue \cup Held : HoldsSession(i) =>
         ~(action \in SessionActions /\ jobs[i].sid = sid)
  BY DEF IInv, Guarded
<1>11. action \in Creates => \A i \in 1..issued : jobs[i].sid # sid
  BY DEF Used
<1>12. JobsInOrder'
  <2>1. \A i \in JobIds : i > issued' => jobs'[i] = NoJobRecord
    BY <1>1, <1>4 DEF new, JobIds
  <2>2. \A i \in 1..issued' :
          /\ jobs'[i].action \in Actions
          /\ jobs'[i].action # "transcribe_file" => jobs'[i].sid \in Sessions
          /\ jobs'[i].action = "transcribe_file" => jobs'[i].sid = NoSession
          /\ jobs'[i].caller = "returned" => jobs'[i].result = "value"
    BY <1>1, <1>5, <1>6 DEF IInv, JobsInOrder
  <2>3. \A i, j \in 1..issued' :
          jobs'[i].action \in Creates /\ jobs'[j].action \in Creates
          /\ jobs'[i].sid = jobs'[j].sid => i = j
    BY <1>1, <1>5, <1>6, <1>11 DEF IInv, JobsInOrder
  <2>4. \A i \in Unsettled' : jobs'[i].result \in {"pending", "cancelled"}
    BY <1>2, <1>3, <1>5, <1>6 DEF IInv, JobsInOrder
  <2>5. /\ queue' \subseteq 1..issued'
        /\ pc' \in Holding \cup {"resolve"} => job' \in (1..issued') \ queue'
        /\ \/ pc' \in {"execute", "transcribe"}
           \/ pc' \in {"cleanup", "purge", "release", "resolve"} /\ outcome' = "value"
           => jobs'[job'].started # "pending"
    BY <1>1, <1>2, <1>6 DEF IInv, JobsInOrder, Holding, BeforeRun
  <2>6. \A i \in JobIds : ~(i > issued') => i \in 1..issued'
    BY <1>1 DEF JobIds, new
  <2> QED BY <2>1, <2>2, <2>3, <2>4, <2>5, <2>6 DEF JobsInOrder
<1>13. CapacityBound'
  <2>1. CASE action \in Creates
    <3>1. IsFiniteSet(reservations)
      BY CoordinatorAssumption, FS_Subset DEF CoordinatorAssumption, IInv, TypeOK
    <3>2. Cardinality(reservations') <= Cardinality(reservations) + 1
      <4>1. CASE sid \in reservations
        <5>1. reservations' = reservations
          BY <2>1, <4>1
        <5> QED BY <3>1, <5>1, FS_CardinalityType
      <4>2. CASE sid \notin reservations
        <5>1. reservations' = reservations \cup {sid}
          BY <2>1
        <5>2. Cardinality(reservations') = Cardinality(reservations) + 1
          BY <3>1, <4>2, <5>1, FS_AddElement
        <5> QED BY <3>1, <5>2, FS_CardinalityType
      <4> QED BY <4>1, <4>2
    <3> QED BY <2>1, <3>1, <3>2, FS_CardinalityType, FS_AddElement, CoordinatorAssumption
            DEF CoordinatorAssumption, IInv, CapacityBound
  <2>2. CASE action \notin Creates
    BY <2>2 DEF IInv, CapacityBound
  <2> QED BY <2>1, <2>2
<1>14. QueueAccounting'
  <2> DEFINE Audio == {j \in queue \cup Held : jobs[j].action \in Chunks}
  <2>1. IsFiniteSet(JobIds)
    BY CoordinatorAssumption, FS_Interval DEF CoordinatorAssumption, JobIds
  <2>2. IsFiniteSet(queue) /\ IsFiniteSet(Audio)
    BY <1>1, <1>2, <2>1, FS_Subset
  <2>3. new \notin queue /\ new \notin Audio
    BY <1>1, <1>2
  <2>4. Audio' = IF action \in Chunks THEN Audio \cup {new} ELSE Audio
    <3>1. (queue \cup Held)' = queue \cup Held \cup {new}
      BY <1>1, <1>3
    <3>2. \A i \in queue \cup Held : jobs'[i].action = jobs[i].action
      BY <1>2, <1>6
    <3> QED BY <1>5, <3>1, <3>2
  <2> HIDE DEF Audio
  <2>5. queuedJobs' = Cardinality(queue')
    BY <1>1, <2>2, <2>3, FS_AddElement, ZenonT(30) DEF IInv, QueueAccounting, Enqueue
  <2>6. queuedAudio' = Cardinality(Audio')
    <3>1. queuedAudio = Cardinality(Audio)
      BY DEF IInv, QueueAccounting, Audio
    <3>2. Cardinality(Audio) \in Nat
      BY <2>2, FS_CardinalityType
    <3>3. CASE action \in Chunks
      BY <2>2, <2>3, <2>4, <3>1, <3>2, <3>3, FS_AddElement DEF Enqueue, AudioOf
    <3>4. CASE action \notin Chunks
      BY <2>4, <3>1, <3>2, <3>4 DEF Enqueue, AudioOf
    <3> QED BY <3>3, <3>4
  <2> QED BY <2>5, <2>6 DEF QueueAccounting, Audio
<1>15. Promised'
  <2>1. active' \subseteq Used'
    BY <1>1, <1>6 DEF IInv, Promised, Used
  <2>2. \A j \in 1..issued' :
          jobs'[j].holdsStream => jobs'[j].action \in Creates /\ jobs'[j].sid \notin active'
    <3>1. action \in Creates => sid \notin active
      BY DEF IInv, Promised
    <3> QED BY <1>1, <1>5, <1>6, <3>1 DEF IInv, Promised
  <2>3. \A j \in Unrun' : jobs'[j].action \in Creates =>
         /\ jobs'[j].holdsStream /\ jobs'[j].sid \in reservations'
         /\ \A i \in 1..issued' : jobs'[i].sid = jobs'[j].sid => i = j
    <3> SUFFICES ASSUME NEW j \in Unrun', jobs'[j].action \in Creates
                 PROVE  /\ jobs'[j].holdsStream /\ jobs'[j].sid \in reservations'
                        /\ \A i \in 1..issued' : jobs'[i].sid = jobs'[j].sid => i = j
      OBVIOUS
    <3>1. CASE j = new
      BY <1>1, <1>5, <1>6, <1>11, <3>1
    <3>2. CASE j # new
      <4>1. j \in Unrun /\ j \in 1..issued /\ jobs[j].action \in Creates
        BY <1>2, <1>3, <1>6, <3>2
      <4>2. /\ jobs[j].holdsStream /\ jobs[j].sid \in reservations
            /\ \A i \in 1..issued : jobs[i].sid = jobs[j].sid => i = j
        BY <4>1 DEF IInv, Promised
      <4>3. jobs[j].sid \notin active /\ jobs[j].sid \in Sessions
        BY <4>1, <4>2, <1>1 DEF IInv, Promised, JobsInOrder, Creates
      <4>4. jobs[j].sid # sid
        <5>1. CASE action \in Creates
          BY <4>1, <1>11, <5>1
        <5>2. CASE action \in SessionActions
          BY <4>3, <5>2
        <5>3. CASE action = "transcribe_file"
          BY <4>3, <5>3, CoordinatorAssumption DEF CoordinatorAssumption
        <5> QED BY <5>1, <5>2, <5>3 DEF Actions
      <4>5. reservations \subseteq reservations'
        OBVIOUS
      <4> QED BY <1>1, <1>5, <1>6, <4>1, <4>2, <4>4, <4>5
    <3> QED BY <3>1, <3>2
  <2>4. \A j \in Unrun' : jobs'[j].action \in SessionActions \ {"abort_stream"} =>
         /\ jobs'[j].sid \in active'
         /\ \A i \in (queue \cup Held)' : jobs'[i].sid = jobs'[j].sid => i = j
    <3> SUFFICES ASSUME NEW j \in Unrun',
                        jobs'[j].action \in SessionActions \ {"abort_stream"}
                 PROVE  /\ jobs'[j].sid \in active'
                        /\ \A i \in queue \cup Held \cup {new} :
                             jobs'[i].sid = jobs'[j].sid => i = j
      BY <1>1, <1>3
    <3>1. CASE j = new
      <4>1. action \in SessionActions \ {"abort_stream"} /\ sid \in Known
        BY <1>5, <3>1
      <4>2. \A i \in queue \cup Held : jobs[i].sid # sid
        <5> SUFFICES ASSUME NEW i \in queue \cup Held, jobs[i].sid = sid PROVE FALSE
          OBVIOUS
        <5>1. jobs[i].action \notin Creates
          BY <1>2, <1>9, <4>1
        <5>2. jobs[i].action \notin SessionActions
          BY <1>10, <4>1 DEF HoldsSession
        <5>3. jobs[i].action \in Actions /\ i \in JobIds /\ i \in 1..issued
          BY <1>1, <1>2 DEF IInv, JobsInOrder
        <5>4. jobs[i].action = "transcribe_file"
          BY <5>1, <5>2, <5>3 DEF Actions
        <5>5. jobs[i].sid = NoSession
          BY <1>1, <5>3, <5>4 DEF IInv, JobsInOrder
        <5> QED BY <4>1, <5>5 DEF SessionActions, Chunks
      <4>3. sid \in active
        BY <4>1
      <4> QED BY <1>2, <1>5, <1>6, <3>1, <4>2, <4>3
    <3>2. CASE j # new
      <4>1. j \in Unrun /\ j \in 1..issued /\ j \in queue \cup Held
            /\ jobs[j].action \in SessionActions \ {"abort_stream"}
        BY <1>2, <1>3, <1>6, <3>2
      <4>2. /\ jobs[j].sid \in active
            /\ \A i \in queue \cup Held : jobs[i].sid = jobs[j].sid => i = j
        BY <4>1 DEF IInv, Promised
      <4>3. jobs[j].sid # sid
        <5>1. CASE action \in Creates
          BY <4>1, <1>11, <5>1
        <5>2. CASE action \in SessionActions
          BY <4>1, <1>10, <5>2 DEF HoldsSession
        <5>3. CASE action = "transcribe_file"
          BY <4>2, <5>3, CoordinatorAssumption DEF CoordinatorAssumption, IInv, TypeOK
        <5> QED BY <5>1, <5>2, <5>3 DEF Actions
      <4>4. \A i \in queue \cup Held : jobs'[i].sid = jobs[i].sid
        BY <1>2, <1>6
      <4>5. jobs'[new].sid = sid /\ active' = active /\ jobs'[j].sid = jobs[j].sid
        BY <1>5, <4>1, <4>4
      <4> QED BY <4>2, <4>3, <4>4, <4>5
    <3> QED BY <3>1, <3>2
  <2> QED BY <2>1, <2>2, <2>3, <2>4 DEF Promised
<1>16. Guarded'
  <2>1. (queue \cup Held)' = queue \cup Held \cup {new}
    BY <1>1, <1>3
  <2> SUFFICES ASSUME NEW j \in queue \cup Held \cup {new}, HoldsSession(j)'
               PROVE  jobs'[j].sid \in busy' \/ jobs'[j].sid \notin active'
    BY <2>1 DEF Guarded
  <2>2. CASE j = new
    BY <1>5, <2>2 DEF HoldsSession
  <2>3. CASE j # new
    BY <1>2, <1>6, <2>3 DEF IInv, Guarded, HoldsSession
  <2> QED BY <2>2, <2>3
<1>17. OneOperationPerSession'
  <2>1. (queue \cup Held)' = queue \cup Held \cup {new}
    BY <1>1, <1>3
  <2>2. \A i \in queue \cup Held : /\ jobs'[i].action = jobs[i].action
                                   /\ jobs'[i].sid = jobs[i].sid
    BY <1>2, <1>6
  <2>3. \A i, j \in queue \cup Held :
          HoldsSession(i) /\ HoldsSession(j) /\ jobs[i].sid = jobs[j].sid => i = j
    BY DEF IInv, OneOperationPerSession
  <2> QED BY <1>5, <1>10, <2>1, <2>2, <2>3 DEF OneOperationPerSession, HoldsSession
<1> QED BY <1>8, <1>12, <1>13, <1>14, <1>15, <1>16, <1>17 DEF IInv

\* An admitted submission of a client.
LEMMA SubmitIInv ==
    ASSUME IInv, NEW action \in Actions, NEW sid \in Sessions \cup {NoSession},
           QueueAdmits(action), Enqueue(jobs, action, sid, FALSE),
           action = "transcribe_file" <=> sid = NoSession,
           IF action \in Creates
             THEN /\ sid \notin Used /\ reservations' = reservations \cup {sid}
                  /\ Cardinality(reservations) < MaxActiveStreams
             ELSE reservations' = reservations,
           IF action \in SessionActions
             THEN sid \in active \ busy /\ busy' = busy \cup {sid}
             ELSE busy' = busy,
           action \in SessionActions \ {"abort_stream"} => sid \in Known,
           batchPending' \in BOOLEAN,
           UNCHANGED <<lifecycle, active, poisoned, batchRunning, worker>>
    PROVE  IInv'
<1>2. jobs \in [JobIds -> JobType] /\ FALSE \in BOOLEAN
  BY DEF IInv, TypeOK
<1>3. \A i \in JobIds : i > issued => jobs[i] = NoJobRecord
  BY DEF IInv, JobsInOrder
<1> QED BY <1>2, <1>3, EnqueueIInv, Zenon

\* What abort_stream of a client does.
AbortPoisons(sid) ==
    /\ AbortBusy(sid)
    /\ UNCHANGED <<lifecycle, admission, active, reservations, busy, batch, jobs, issued, worker>>

AbortQueued(sid) ==
    /\ AbortIdle(jobs, sid, FALSE)
    /\ UNCHANGED <<lifecycle, active, reservations, poisoned, batch, worker>>

\* The submissions of the clients.
LEMMA ClientIInv ==
    ASSUME IInv,
           \/ \E sid \in Sessions :
                \/ \E action \in Creates : CreateStream(action, sid)
                \/ \E action \in SessionActions : SubmitOperation(action, sid)
                \/ AbortPoisons(sid)
                \/ AbortQueued(sid)
           \/ PostTranscribe
    PROVE  IInv'
<1> USE DEF Actions, Creates, SessionActions, Chunks
<1>1. NoSession \notin Sessions /\ batchPending \in BOOLEAN
  BY CoordinatorAssumption DEF CoordinatorAssumption, IInv, TypeOK
<1>2. ASSUME NEW sid \in Sessions, NEW action \in Creates, CreateStream(action, sid)
      PROVE  IInv'
  <2>1. /\ QueueAdmits(action) /\ Enqueue(jobs, action, sid, FALSE)
        /\ sid \notin Used /\ reservations' = reservations \cup {sid}
        /\ Cardinality(reservations) < MaxActiveStreams /\ busy' = busy
        /\ batchPending' \in BOOLEAN
        /\ UNCHANGED <<lifecycle, active, poisoned, batchRunning, worker>>
    BY <1>1, <1>2 DEF CreateStream, CreateAdmitted, batch
  <2>2. /\ action \in Actions /\ action # "transcribe_file" /\ sid # NoSession
        /\ action \notin SessionActions
    BY <1>1
  <2> QED BY <1>2, <2>1, <2>2, SubmitIInv
<1>3. ASSUME NEW sid \in Sessions, NEW action \in SessionActions, SubmitOperation(action, sid)
      PROVE  IInv'
  <2>1. /\ QueueAdmits(action) /\ Enqueue(jobs, action, sid, FALSE)
        /\ reservations' = reservations /\ busy' = busy \cup {sid}
        /\ sid \in active \ busy /\ sid \in Known /\ batchPending' \in BOOLEAN
        /\ UNCHANGED <<lifecycle, active, poisoned, batchRunning, worker>>
    BY <1>1, <1>3 DEF SubmitOperation, OperationAdmitted, Admissible, batch
  <2>2. /\ action \in Actions /\ action # "transcribe_file" /\ sid # NoSession
        /\ action \notin Creates
    BY <1>1
  <2> QED BY <1>3, <2>1, <2>2, SubmitIInv
<1>4. ASSUME NEW sid \in Sessions, AbortPoisons(sid)
      PROVE  IInv'
  <2> USE <1>4 DEF AbortPoisons, lifecycle, admission, batch, worker
  <2>1. TypeOK'
    BY DEF IInv, TypeOK, AbortBusy
  <2>2. Held' = Held /\ Unrun' = Unrun /\ Unsettled' = Unsettled
    BY DEF Held, Unrun, Unsettled
  <2>3. JobsInOrder'
    BY <2>2 DEF IInv, JobsInOrder
  <2>4. UNCHANGED <<queue, queuedJobs, queuedAudio, active, reservations, busy,
                    issued, sessions, Held, jobs>>
    BY <2>2
  <2> QED BY <2>1, <2>2, <2>3, <2>4, FrameIInv
<1>6. ASSUME NEW sid \in Sessions, AbortQueued(sid)
      PROVE  IInv'
  <2>1. /\ QueueAdmits("abort_stream") /\ Enqueue(jobs, "abort_stream", sid, FALSE)
        /\ reservations' = reservations /\ busy' = busy \cup {sid}
        /\ sid \in active \ busy /\ batchPending' \in BOOLEAN
        /\ UNCHANGED <<lifecycle, active, poisoned, batchRunning, worker>>
    BY <1>1, <1>6 DEF AbortQueued, AbortIdle, OperationAdmitted, Admissible, batch
  <2>2. "abort_stream" \in Actions /\ sid # NoSession
    BY <1>1
  <2> QED BY <2>1, <2>2, SubmitIInv
<1>5. CASE PostTranscribe
  <2>1. /\ QueueAdmits("transcribe_file")
        /\ Enqueue(jobs, "transcribe_file", NoSession, FALSE)
        /\ reservations' = reservations /\ busy' = busy /\ batchPending' \in BOOLEAN
        /\ UNCHANGED <<lifecycle, active, poisoned, batchRunning, worker>>
    BY <1>5 DEF PostTranscribe, TranscribeFile, FileAdmitted, registries
  <2> QED BY <2>1, SubmitIInv
<1> QED BY <1>2, <1>3, <1>4, <1>5, <1>6

\* The cleanup aborts the session, or poisons it when the abort is refused.
LEMMA CleanupAbortsIInv ==
    ASSUME IInv, NEW j \in JobIds, CleanupAborts(j)
    PROVE  IInv'
<1> DEFINE sid == jobs[j].sid
           left == [jobs EXCEPT ![j].caller = "raised"]
<1>1. jobs[j] \in JobType /\ DOMAIN jobs = JobIds /\ poisoned \subseteq Sessions
      /\ batchPending \in BOOLEAN /\ jobs[j].caller = "unpoisoned"
  BY DEF IInv, TypeOK, CleanupAborts
<1>2. left \in [JobIds -> JobType]
  BY <1>1 DEF IInv, TypeOK, JobType, Waiting, Ended
<1>3. /\ left[j].action = jobs[j].action /\ left[j].sid = jobs[j].sid
      /\ left[j].holdsStream = jobs[j].holdsStream
      /\ left[j].started = jobs[j].started /\ left[j].result = jobs[j].result
      /\ left[j].caller = "raised"
      /\ \A i \in JobIds \ {j} : left[i] = jobs[i]
  BY <1>1 DEF JobType
<1>4. j \in 1..issued /\ sid \in Sessions \cup {NoSession}
  BY <1>1 DEF IInv, TypeOK, JobsInOrder, NoJobRecord, JobIds, JobType
<1>5. CASE jobs' = left /\ UNCHANGED <<admission, issued, busy>>
            /\ poisoned' \in {poisoned, poisoned \cup {sid}} /\ poisoned' \subseteq Sessions
  <2>1. /\ batchPending' \in BOOLEAN
        /\ UNCHANGED <<lifecycle, admission, active, reservations, busy,
                       batchRunning, issued, worker>>
    BY <1>1, <1>5 DEF CleanupAborts, batch
  <2> QED BY <1>1, <1>2, <1>3, <1>5, <2>1, CallerIInv
<1>6. CASE AbortIdle(left, sid, TRUE) /\ UNCHANGED poisoned
  <2>1. /\ QueueAdmits("abort_stream") /\ Enqueue(left, "abort_stream", sid, TRUE)
        /\ reservations' = reservations /\ busy' = busy \cup {sid}
        /\ sid \in active \ busy /\ batchPending' \in BOOLEAN
        /\ UNCHANGED <<lifecycle, active, poisoned, batchRunning, worker>>
    BY <1>1, <1>6 DEF CleanupAborts, AbortIdle, OperationAdmitted, Admissible, batch
  <2>2. sid # NoSession
    BY <2>1, CoordinatorAssumption DEF CoordinatorAssumption, IInv, TypeOK
  <2>3. issued \in Nat
    BY Ranges
  <2>10. \A i \in JobIds :
           /\ left[i].action = jobs[i].action /\ left[i].sid = jobs[i].sid
           /\ left[i].started = jobs[i].started /\ left[i].result = jobs[i].result
           /\ left[i].holdsStream = jobs[i].holdsStream
           /\ left[i].caller = "returned" => jobs[i].caller = "returned"
    BY <1>3
  <2>11. \A i \in JobIds : i > issued => left[i] = NoJobRecord
    BY <1>3, <1>4, <2>3 DEF IInv, JobsInOrder
  <2>12. /\ "abort_stream" \in Actions /\ "abort_stream" \in SessionActions
         /\ "abort_stream" \notin Creates /\ TRUE \in BOOLEAN
    BY DEF Actions, SessionActions, Creates
  <2> HIDE DEF left, sid
  <2> QED BY <1>2, <1>4, <2>1, <2>2, <2>10, <2>11, <2>12, EnqueueIInv
<1> QED
  <2>1. sid \in active => sid \in Sessions
    BY DEF IInv, TypeOK
  <2> QED BY <1>1, <1>5, <1>6, <2>1 DEF CleanupAborts

-----------------------------------------------------------------------------
(* The owner thread *)

\* A step that settles futures of the job in hand, or none, and moves no session.
LEMMA FuturesIInv ==
    ASSUME IInv, TypeOK', pc \in Holding \cup {"resolve"},
           \A i \in JobIds \ {job} : jobs'[i] = jobs[i],
           jobs'[job].action = jobs[job].action, jobs'[job].sid = jobs[job].sid,
           jobs'[job].holdsStream = jobs[job].holdsStream,
           jobs'[job].caller = jobs[job].caller,
           pc' \in Holding \cup {"resolve"} =>
             job' = job /\ jobs'[job].result \in {"pending", "cancelled"},
           \/ pc' \in {"execute", "transcribe"}
           \/ pc' \in {"cleanup", "purge", "release", "resolve"} /\ outcome' = "value"
           => jobs'[job].started # "pending",
           Held' = Held, Unrun' \subseteq Unrun,
           UNCHANGED <<admission, active, reservations, busy, issued, sessions>>
    PROVE  IInv'
<1> USE DEF admission
<1>1. /\ issued \in Nat /\ 1..issued \subseteq JobIds /\ Unsettled \subseteq 1..issued
  BY Ranges, Zenon
<1>2. job \in (1..issued) \ queue /\ job \in Unsettled
  BY DEF IInv, JobsInOrder, Unsettled
<1>3. \A i \in JobIds : /\ jobs'[i].action = jobs[i].action /\ jobs'[i].sid = jobs[i].sid
                        /\ jobs'[i].holdsStream = jobs[i].holdsStream
                        /\ jobs'[i].caller = jobs[i].caller
  OBVIOUS
<1>4. Unsettled' \subseteq Unsettled /\ (job \in Unsettled' => pc' \in Holding \cup {"resolve"})
  BY <1>2 DEF Unsettled
<1>5. JobsInOrder'
  <2>1. \A i \in JobIds : i > issued => jobs'[i] = NoJobRecord
    BY <1>1, <1>2 DEF IInv, JobsInOrder
  <2>2. jobs[job].caller # "returned"
    BY <1>1, <1>2 DEF IInv, JobsInOrder
  <2>3. \A i \in 1..issued :
          /\ jobs'[i].action \in Actions
          /\ jobs'[i].action # "transcribe_file" => jobs'[i].sid \in Sessions
          /\ jobs'[i].action = "transcribe_file" => jobs'[i].sid = NoSession
          /\ jobs'[i].caller = "returned" => jobs'[i].result = "value"
    BY <1>1, <1>3, <2>2 DEF IInv, JobsInOrder
  <2>4. \A i, j \in 1..issued :
          jobs'[i].action \in Creates /\ jobs'[j].action \in Creates
          /\ jobs'[i].sid = jobs'[j].sid => i = j
    BY <1>1, <1>3 DEF IInv, JobsInOrder
  <2>5. \A i \in Unsettled' : jobs'[i].result \in {"pending", "cancelled"}
    BY <1>1, <1>4 DEF IInv, JobsInOrder
  <2>6. \A i \in JobIds : ~(i > issued) => i \in 1..issued
    BY <1>1 DEF JobIds
  <2>7. queue \subseteq 1..issued
    BY DEF IInv, JobsInOrder
  <2>8. pc' \in {"execute", "transcribe"} \cup {"cleanup", "purge", "release", "resolve"}
          => job' = job
    BY DEF Holding, BeforeRun
  <2>9. /\ queue' \subseteq 1..issued' /\ issued' = issued
        /\ pc' \in Holding \cup {"resolve"} => job' \in (1..issued') \ queue'
        /\ \/ pc' \in {"execute", "transcribe"}
           \/ pc' \in {"cleanup", "purge", "release", "resolve"} /\ outcome' = "value"
           => jobs'[job'].started # "pending"
    BY <1>2, <2>7, <2>8
  <2> QED BY <2>1, <2>3, <2>4, <2>5, <2>6, <2>9 DEF JobsInOrder
<1> QED BY <1>3, <1>5, FrameIInv

\* The owner thread takes a job out of the queue.
LEMMA GetJobIInv == ASSUME IInv, GetJob PROVE IInv'
<1> USE DEF lifecycle, registries, batch
<1>1. PICK j \in queue : Dequeue(j) /\ job' = j
  BY DEF GetJob
<1>2. /\ pc = "get" /\ pc' = "check" /\ queue' = queue \ {j} /\ queuedJobs' = queuedJobs - 1
      /\ UNCHANGED <<lifecycle, queuedAudio, registries, batch, jobs, issued,
                     outcome, warmed, sessions>>
  BY <1>1 DEF GetJob, Dequeue
<1>3. (queue \cup Held)' = queue \cup Held /\ Unrun' = Unrun /\ Unsettled' = Unsettled
  BY <1>1, <1>2 DEF Held, Unrun, Unsettled, Holding, BeforeRun
<1>4. /\ issued \in Nat /\ 1..issued \subseteq JobIds /\ queue \subseteq 1..issued
  BY Ranges, Zenon
<1>5. IsFiniteSet(queue) /\ queuedJobs = Cardinality(queue)
  <2>1. IsFiniteSet(JobIds)
    BY CoordinatorAssumption, FS_Interval DEF CoordinatorAssumption, JobIds
  <2> QED BY <1>4, <2>1, FS_Subset DEF IInv, QueueAccounting
<1>6. queuedJobs' = Cardinality(queue') /\ queuedJobs' \in Nat
  BY <1>2, <1>5, FS_RemoveElement, FS_CardinalityType
<1>7. TypeOK'
  <2>1. queuedJobs' \in 0..QueueSize
    BY <1>2, <1>6, CoordinatorAssumption DEF CoordinatorAssumption, IInv, TypeOK
  <2> QED BY <1>1, <1>2, <2>1 DEF IInv, TypeOK
<1>8. JobsInOrder'
  BY <1>1, <1>2, <1>3, <1>4 DEF IInv, JobsInOrder, Holding, BeforeRun
<1>9. CapacityBound'
  BY <1>2 DEF IInv, CapacityBound
<1>10. QueueAccounting'
  <2>1. {i \in queue \cup Held : jobs[i].action \in Chunks}' =
          {i \in queue \cup Held : jobs[i].action \in Chunks}
    BY <1>2, <1>3
  <2> QED BY <1>2, <1>6, <2>1 DEF IInv, QueueAccounting
<1>11. Promised'
  BY <1>2, <1>3 DEF IInv, Promised, Used
<1>12. Guarded' /\ OneOperationPerSession'
  BY <1>2, <1>3 DEF IInv, Guarded, OneOperationPerSession, HoldsSession
<1> QED BY <1>2, <1>7, <1>8, <1>9, <1>10, <1>11, <1>12 DEF IInv

\* The owner thread settles a job's futures.
LEMMA SettlingIInv == ASSUME IInv, Claim \/ Expire \/ Resolve PROVE IInv'
<1> USE DEF WorkerLeaves, lifecycle, admission, registries, batch
<1>1. /\ pc \in Holding \cup {"resolve"} /\ issued \in Nat /\ 1..issued \subseteq JobIds
  BY Ranges DEF Claim, Expire, Resolve, Holding, BeforeRun
<1>2. job \in 1..issued /\ job \in JobIds /\ job \in Unsettled
  BY <1>1 DEF IInv, JobsInOrder, Unsettled
<1>3. jobs[job] \in JobType /\ DOMAIN jobs = JobIds
  BY <1>2 DEF IInv, TypeOK
<1>4. jobs[job].result \in {"pending", "cancelled"}
  BY <1>2 DEF IInv, JobsInOrder
<1>5. CASE Claim
  <2>1. jobs' = [jobs EXCEPT ![job].started = "set"] /\ pc = "claim" /\ pc' = "execute"
    BY <1>5 DEF Claim
  <2>2. jobs' \in [JobIds -> JobType]
    BY <1>2, <1>3, <2>1 DEF IInv, TypeOK, JobType
  <2>3. /\ \A i \in JobIds \ {job} : jobs'[i] = jobs[i]
        /\ jobs'[job].action = jobs[job].action /\ jobs'[job].sid = jobs[job].sid
        /\ jobs'[job].holdsStream = jobs[job].holdsStream
        /\ jobs'[job].caller = jobs[job].caller /\ jobs'[job].started = "set"
        /\ jobs'[job].result = jobs[job].result
    BY <1>2, <1>3, <2>1 DEF JobType
  <2>4. TypeOK'
    BY <1>5, <2>2 DEF Claim, IInv, TypeOK
  <2>5. /\ Held' = Held /\ Unrun' \subseteq Unrun /\ job' = job
        /\ UNCHANGED <<admission, active, reservations, busy, issued, sessions>>
    BY <1>5 DEF Claim, Held, Unrun, BeforeRun
  <2> QED BY <1>1, <1>4, <2>1, <2>3, <2>4, <2>5, FuturesIInv
<1>6. CASE Expire
  <2>1. /\ jobs' = Rejected(job) /\ pc \in {"check", "claim"} /\ pc' = "cleanup"
        /\ outcome' = "skip"
    BY <1>6 DEF Expire
  <2>2. jobs' \in [JobIds -> JobType]
    BY <1>2, <1>3, <2>1 DEF IInv, TypeOK, JobType, Rejected
  <2>3. /\ \A i \in JobIds \ {job} : jobs'[i] = jobs[i]
        /\ jobs'[job].action = jobs[job].action /\ jobs'[job].sid = jobs[job].sid
        /\ jobs'[job].holdsStream = jobs[job].holdsStream
        /\ jobs'[job].caller = jobs[job].caller
        /\ jobs'[job].result = IF jobs[job].result = "pending" THEN "cancelled"
                               ELSE jobs[job].result
    BY <1>2, <1>3, <2>1 DEF JobType, Rejected
  <2>4. TypeOK'
    BY <1>6, <2>2 DEF Expire, IInv, TypeOK
  <2>5. /\ Held' = Held /\ Unrun' \subseteq Unrun /\ job' = job
        /\ UNCHANGED <<admission, active, reservations, busy, issued, sessions>>
    BY <1>6 DEF Expire, Held, Unrun, BeforeRun
  <2> QED BY <1>1, <1>4, <2>1, <2>3, <2>4, <2>5, FuturesIInv
<1>7. CASE Resolve
  <2> DEFINE settled == [value |-> "value", error |-> "error", fatal |-> "not_ready"]
             early == [error |-> "set", fatal |-> "error"]
  <2>1. /\ pc = "resolve" /\ pc' \in {"draining", "get"} /\ outcome' = "skip" /\ job' = 0
        /\ accepting' \in BOOLEAN
        /\ UNCHANGED <<shutdown, control, admission, registries, batch, issued,
                       warmed, sessions>>
    BY <1>7 DEF Resolve, IInv, TypeOK
  <2>2. /\ jobs' \in [JobIds -> JobType]
        /\ \A i \in JobIds \ {job} : jobs'[i] = jobs[i]
        /\ jobs'[job].action = jobs[job].action /\ jobs'[job].sid = jobs[job].sid
        /\ jobs'[job].holdsStream = jobs[job].holdsStream
        /\ jobs'[job].caller = jobs[job].caller
    <3>1. CASE outcome = "skip"
      BY <1>7, <3>1 DEF Resolve, IInv, TypeOK
    <3>2. CASE outcome # "skip"
      <4>1. jobs' = [jobs EXCEPT
                 ![job].started = IF @ = "pending" THEN early[outcome] ELSE @,
                 ![job].result = IF @ = "pending" THEN settled[outcome] ELSE @]
        BY <1>7, <3>2 DEF Resolve
      <4>2. outcome \in {"value", "error", "fatal"}
        BY <3>2 DEF IInv, TypeOK
      <4>3. settled[outcome] \in {"value", "error", "not_ready"}
        BY <4>2
      <4>4. jobs[job].started = "pending" => early[outcome] \in {"set", "error"}
        <5>1. outcome = "value" => jobs[job].started # "pending"
          BY <2>1 DEF IInv, JobsInOrder
        <5> QED BY <4>2, <5>1
      <4> HIDE DEF settled, early
      <4>5. jobs' \in [JobIds -> JobType]
        BY <1>2, <1>3, <4>1, <4>3, <4>4, ZenonT(30) DEF IInv, TypeOK, JobType
      <4> QED BY <1>2, <1>3, <4>1, <4>5 DEF JobType
    <3> QED BY <3>1, <3>2
  <2>3. TypeOK'
    BY <2>1, <2>2 DEF IInv, TypeOK
  <2>4. Held' = Held /\ Unrun' \subseteq Unrun
    BY <2>1 DEF Held, Unrun, BeforeRun
  <2>5. pc' \notin Holding \cup {"resolve"}
    BY <2>1 DEF Holding, BeforeRun
  <2>6. UNCHANGED <<active, reservations, busy>>
    BY <2>1
  <2> QED BY <1>1, <2>1, <2>2, <2>3, <2>4, <2>5, <2>6, FuturesIInv
<1> QED BY <1>5, <1>6, <1>7

\* The session of the job in hand is dropped: nothing queued relies on it.
LEMMA DropIInv ==
    ASSUME IInv, TypeOK', pc \in Holding, pc' \in {"cleanup", "release"},
           active' = active \ {jobs[job].sid}, sessions' = sessions \ {jobs[job].sid},
           reservations' = reservations \ {jobs[job].sid},
           busy' \in {busy, busy \ {jobs[job].sid}},
           pc = "execute" \/ (outcome' = "value" => outcome = "value"),
           pc \in {"execute", "purge"},
           UNCHANGED <<admission, jobs, issued, job>>
    PROVE  IInv'
<1> USE DEF admission
<1> DEFINE sid == jobs[job].sid
<1>1. /\ issued \in Nat /\ 1..issued \subseteq JobIds /\ queue \subseteq 1..issued
      /\ Unrun \subseteq queue \cup Held /\ queue \cup Held \subseteq 1..issued
  BY Ranges, Zenon
<1>2. job \in (1..issued) \ queue
  BY DEF IInv, JobsInOrder
<1>3. Held = {job} /\ Held' = {job} /\ Unrun' = queue /\ queue \subseteq Unrun
      /\ Unsettled' = Unsettled
  BY DEF Held, Unrun, Unsettled, Holding, BeforeRun
<1>4. JobsInOrder'
  BY <1>2, <1>3 DEF IInv, JobsInOrder, Holding, BeforeRun
<1>6. CapacityBound'
  <2>1. IsFiniteSet(reservations)
    BY CoordinatorAssumption, FS_Subset DEF CoordinatorAssumption, IInv, TypeOK
  <2>2. Cardinality(reservations') <= Cardinality(reservations) /\ IsFiniteSet(reservations')
    BY <2>1, FS_Subset
  <2> QED BY <2>1, <2>2, FS_CardinalityType, CoordinatorAssumption
          DEF CoordinatorAssumption, IInv, CapacityBound
<1>7. QueueAccounting'
  <2>1. {i \in queue \cup Held : jobs[i].action \in Chunks}' =
          {i \in queue \cup Held : jobs[i].action \in Chunks}
    BY <1>3
  <2> QED BY <2>1 DEF IInv, QueueAccounting
<1>8. Promised'
  <2>1. \A j \in queue : jobs[j].action \in Creates => jobs[j].sid # sid
    BY <1>2, <1>3 DEF IInv, Promised
  <2>2. \A j \in queue : jobs[j].action \in SessionActions \ {"abort_stream"} =>
          jobs[j].sid # sid
    BY <1>2, <1>3 DEF IInv, Promised
  <2>3. (queue \cup Held)' = queue \cup Held /\ Used' = Used
    BY <1>3 DEF Used
  <2> QED BY <1>3, <2>1, <2>2, <2>3 DEF IInv, Promised
<1>9. Guarded'
  BY <1>3 DEF IInv, Guarded, HoldsSession
<1>10. OneOperationPerSession'
  BY <1>3 DEF IInv, OneOperationPerSession, HoldsSession
<1> QED BY <1>4, <1>6, <1>7, <1>8, <1>9, <1>10 DEF IInv

\* A created session takes over its job's reservation.
LEMMA ExecuteCreateIInv ==
    ASSUME IInv, pc = "execute", jobs[job].action \in Creates,
           sessions' = sessions \cup {jobs[job].sid},
           active' = active \cup {jobs[job].sid},
           jobs' = [jobs EXCEPT ![job].holdsStream = FALSE],
           outcome' = "value", pc' = "cleanup",
           UNCHANGED <<lifecycle, admission, reservations, poisoned, busy, batch,
                       issued, job, warmed>>
    PROVE  IInv'
<1> USE DEF lifecycle, admission, batch
<1> DEFINE sid == jobs[job].sid
<1>1. /\ issued \in Nat /\ 1..issued \subseteq JobIds /\ queue \subseteq 1..issued
      /\ Unrun \subseteq queue \cup Held /\ queue \cup Held \subseteq 1..issued
      /\ Unsettled \subseteq 1..issued
  BY Ranges, Zenon
<1>2. job \in (1..issued) \ queue /\ job \in JobIds
  BY <1>1 DEF IInv, JobsInOrder, Holding, BeforeRun
<1>3. Held = {job} /\ Held' = {job} /\ Unrun' = queue /\ Unrun = queue \cup {job}
      /\ Unsettled' = Unsettled
  BY DEF Held, Unrun, Unsettled, Holding, BeforeRun
<1>4. jobs[job] \in JobType /\ DOMAIN jobs = JobIds
  BY <1>2 DEF IInv, TypeOK
<1>5. /\ jobs' \in [JobIds -> JobType]
      /\ \A i \in JobIds \ {job} : jobs'[i] = jobs[i]
      /\ ~jobs'[job].holdsStream
      /\ \A i \in JobIds : /\ jobs'[i].action = jobs[i].action
                           /\ jobs'[i].sid = jobs[i].sid
                           /\ jobs'[i].started = jobs[i].started
                           /\ jobs'[i].result = jobs[i].result
                           /\ jobs'[i].caller = jobs[i].caller
  <2>1. jobs' \in [JobIds -> JobType]
    BY <1>2, <1>4 DEF IInv, TypeOK, JobType
  <2>2. \A i \in JobIds \ {job} : jobs'[i] = jobs[i]
    BY <1>2, <1>4
  <2>3. /\ ~jobs'[job].holdsStream
        /\ jobs'[job].action = jobs[job].action /\ jobs'[job].sid = jobs[job].sid
        /\ jobs'[job].started = jobs[job].started /\ jobs'[job].result = jobs[job].result
        /\ jobs'[job].caller = jobs[job].caller
    BY <1>2, <1>4 DEF JobType
  <2> QED BY <2>1, <2>2, <2>3
<1>6. /\ sid \in reservations /\ sid \in Sessions
      /\ \A i \in 1..issued : jobs[i].sid = sid => i = job
  <2>1. /\ sid \in reservations
        /\ \A i \in 1..issued : jobs[i].sid = sid => i = job
    BY <1>3 DEF IInv, Promised
  <2> QED BY <2>1 DEF IInv, TypeOK
<1>7. TypeOK'
  BY <1>5, <1>6 DEF IInv, TypeOK
<1>8. JobsInOrder'
  <2>1. \A i \in JobIds : i > issued => jobs'[i] = NoJobRecord
    BY <1>1, <1>2, <1>5 DEF IInv, JobsInOrder
  <2>2. \A i \in JobIds : ~(i > issued) =>
          /\ jobs'[i].action \in Actions
          /\ jobs'[i].action # "transcribe_file" => jobs'[i].sid \in Sessions
          /\ jobs'[i].action = "transcribe_file" => jobs'[i].sid = NoSession
          /\ jobs'[i].caller = "returned" => jobs'[i].result = "value"
    BY <1>5 DEF IInv, JobsInOrder
  <2>3. \A i, j \in 1..issued :
          jobs'[i].action \in Creates /\ jobs'[j].action \in Creates
          /\ jobs'[i].sid = jobs'[j].sid => i = j
    BY <1>1, <1>5 DEF IInv, JobsInOrder
  <2>4. \A i \in Unsettled' : jobs'[i].result \in {"pending", "cancelled"}
    BY <1>1, <1>3, <1>5 DEF IInv, JobsInOrder
  <2>5. jobs'[job].started # "pending"
    BY <1>2, <1>5 DEF IInv, JobsInOrder
  <2> QED BY <1>1, <1>2, <2>1, <2>2, <2>3, <2>4, <2>5 DEF JobsInOrder
<1>10. CapacityBound'
  BY <1>6 DEF IInv, CapacityBound
<1>11. (queue \cup Held)' = queue \cup Held
  BY <1>3
<1>12. QueueAccounting'
  <2>1. {i \in queue \cup Held : jobs[i].action \in Chunks}' =
          {i \in queue \cup Held : jobs[i].action \in Chunks}
    BY <1>1, <1>5, <1>11
  <2> QED BY <2>1 DEF IInv, QueueAccounting
<1>13. Promised'
  <2>1. active' \subseteq Used'
    BY <1>1, <1>2, <1>5 DEF IInv, Promised, Used
  <2>2. \A j \in 1..issued' :
          jobs'[j].holdsStream => jobs'[j].action \in Creates /\ jobs'[j].sid \notin active'
    BY <1>1, <1>5, <1>6 DEF IInv, Promised
  <2>3. \A j \in Unrun' : jobs'[j].action \in Creates =>
         /\ jobs'[j].holdsStream /\ jobs'[j].sid \in reservations'
         /\ \A i \in 1..issued' : jobs'[i].sid = jobs'[j].sid => i = j
    BY <1>1, <1>2, <1>3, <1>5 DEF IInv, Promised
  <2>4. \A j \in Unrun' : jobs'[j].action \in SessionActions \ {"abort_stream"} =>
         /\ jobs'[j].sid \in active'
         /\ \A i \in (queue \cup Held)' : jobs'[i].sid = jobs'[j].sid => i = j
    BY <1>1, <1>2, <1>3, <1>5, <1>11 DEF IInv, Promised
  <2> QED BY <2>1, <2>2, <2>3, <2>4 DEF Promised
<1>14. Guarded'
  <2>1. jobs[job].action \notin SessionActions
    BY DEF Creates, SessionActions, Chunks
  <2> QED BY <1>1, <1>5, <1>6, <1>11, <2>1 DEF IInv, Guarded, HoldsSession
<1>15. OneOperationPerSession'
  BY <1>1, <1>5, <1>11 DEF IInv, OneOperationPerSession, HoldsSession
<1> QED BY <1>7, <1>8, <1>10, <1>12, <1>13, <1>14, <1>15 DEF IInv

\* The reservations of job i, the one in hand or one off the queue, are given back.
LEMMA ReleaseJobIInv ==
    ASSUME IInv, NEW i \in queue \cup Held, NEW current \in [JobIds -> JobType],
           \A k \in JobIds :
             /\ current[k].action = jobs[k].action /\ current[k].sid = jobs[k].sid
             /\ current[k].holdsStream = jobs[k].holdsStream
             /\ current[k].caller = jobs[k].caller,
           ReleaseJob(i, current), JobsInOrder',
           (queue \cup Held)' = (queue \cup Held) \ {i},
           Unrun' = Unrun \ {i},
           queue' \subseteq queue, queuedJobs' = Cardinality(queue'),
           pc' \in {"resolve", "draining"},
           UNCHANGED <<lifecycle, active, poisoned, batch, issued, job, outcome,
                       warmed, sessions>>
    PROVE  IInv'
<1> USE DEF lifecycle, batch
<1> DEFINE sid == jobs[i].sid
           Audio == {j \in queue \cup Held : jobs[j].action \in Chunks}
<1>1. /\ issued \in Nat /\ 1..issued \subseteq JobIds /\ queue \subseteq 1..issued
      /\ Unrun \subseteq queue \cup Held /\ queue \cup Held \subseteq 1..issued
  BY Ranges, Zenon
<1>2. i \in JobIds /\ i \in 1..issued /\ current[i] \in JobType
  BY <1>1
<1>3. /\ jobs' \in [JobIds -> JobType]
      /\ \A k \in JobIds : /\ jobs'[k].action = jobs[k].action
                           /\ jobs'[k].sid = jobs[k].sid
                           /\ jobs'[k].caller = jobs[k].caller
      /\ \A k \in JobIds \ {i} : jobs'[k].holdsStream = jobs[k].holdsStream
      /\ jobs'[i].holdsStream => jobs[i].holdsStream
  <2>1. CASE jobs[i].holdsStream
    <3>1. jobs' = [current EXCEPT ![i].holdsStream = FALSE]
      BY <2>1 DEF ReleaseJob
    <3>2. jobs' \in [JobIds -> JobType]
      BY <1>2, <3>1 DEF JobType
    <3>3. \A k \in JobIds \ {i} : jobs'[k] = current[k]
      BY <1>2, <3>1
    <3>4. /\ jobs'[i].action = current[i].action /\ jobs'[i].sid = current[i].sid
          /\ jobs'[i].caller = current[i].caller
      BY <1>2, <3>1 DEF JobType
    <3> QED BY <1>2, <2>1, <3>2, <3>3, <3>4
  <2>2. CASE ~jobs[i].holdsStream
    <3>1. jobs' = current
      BY <2>2 DEF ReleaseJob
    <3> QED BY <1>2, <3>1
  <2> QED BY <2>1, <2>2
<1>4. IsFiniteSet(JobIds) /\ IsFiniteSet(reservations)
  BY CoordinatorAssumption, FS_Interval, FS_Subset
  DEF CoordinatorAssumption, JobIds, IInv, TypeOK
<1>5. IsFiniteSet(queue) /\ IsFiniteSet(queue') /\ IsFiniteSet(Audio)
  BY <1>1, <1>4, FS_Subset
<1>6. queuedAudio = Cardinality(Audio) /\ queuedJobs = Cardinality(queue)
  BY DEF IInv, QueueAccounting
<1>7. Audio' = Audio \ {i}
  BY <1>1, <1>3
<1>8. queuedAudio' = Cardinality(Audio') /\ queuedAudio' <= queuedAudio /\ queuedAudio' \in Nat
  <2>1. CASE jobs[i].action \in Chunks
    <3>1. i \in Audio
      BY <2>1
    <3>2. queuedAudio' = queuedAudio - 1
      BY <2>1 DEF ReleaseJob, AudioOf
    <3>3. Cardinality(Audio \ {i}) = Cardinality(Audio) - 1
      BY <1>5, <3>1, FS_RemoveElement
    <3>4. IsFiniteSet(Audio \ {i})
      BY <1>5, FS_Subset
    <3> HIDE DEF Audio
    <3> QED BY <1>5, <1>6, <1>7, <3>2, <3>3, <3>4, FS_CardinalityType
  <2>2. CASE jobs[i].action \notin Chunks
    <3>1. Audio' = Audio
      BY <1>7, <2>2
    <3>2. queuedAudio' = queuedAudio
      BY <2>2 DEF ReleaseJob, AudioOf, IInv, TypeOK
    <3> HIDE DEF Audio
    <3> QED BY <1>5, <1>6, <3>1, <3>2, FS_CardinalityType
  <2> QED BY <2>1, <2>2
<1>9. QueueAccounting'
  BY <1>8 DEF QueueAccounting
<1> HIDE DEF Audio
<1>10. reservations' \subseteq reservations /\ reservations \ {sid} \subseteq reservations'
       /\ busy \ {sid} \subseteq busy' /\ busy' \subseteq busy
  BY DEF ReleaseJob
<1>11. TypeOK'
  <2>1. queuedJobs' \in 0..QueueSize
    <3>1. Cardinality(queue') <= Cardinality(queue)
      BY <1>5, FS_Subset
    <3> QED BY <1>5, <1>6, <3>1, FS_CardinalityType, CoordinatorAssumption
            DEF CoordinatorAssumption, IInv, TypeOK
  <2>2. queuedAudio' \in 0..MaxQueuedAudio
    BY <1>8, CoordinatorAssumption DEF CoordinatorAssumption, IInv, TypeOK
  <2>3. /\ queue' \subseteq JobIds /\ reservations' \subseteq Sessions
        /\ busy' \subseteq Sessions
    BY <1>1, <1>10 DEF IInv, TypeOK
  <2>4. pc' \in {"resolve", "draining"} /\ jobs' \in [JobIds -> JobType]
    BY <1>3
  <2> QED BY <2>1, <2>2, <2>3, <2>4 DEF IInv, TypeOK
<1>13. CapacityBound'
  <2>1. active' \subseteq reservations'
    BY <1>2 DEF IInv, Promised, CapacityBound, ReleaseJob
  <2>2. Cardinality(reservations') <= Cardinality(reservations) /\ IsFiniteSet(reservations')
    BY <1>4, <1>10, FS_Subset
  <2> QED BY <1>4, <2>1, <2>2, FS_CardinalityType, CoordinatorAssumption
          DEF CoordinatorAssumption, IInv, CapacityBound
<1>14. Promised'
  <2>1. active' \subseteq Used'
    BY <1>1, <1>3 DEF IInv, Promised, Used
  <2>2. \A j \in 1..issued' :
          jobs'[j].holdsStream => jobs'[j].action \in Creates /\ jobs'[j].sid \notin active'
    BY <1>1, <1>3 DEF IInv, Promised
  <2>3. \A j \in Unrun' : jobs'[j].action \in Creates =>
         /\ jobs'[j].holdsStream /\ jobs'[j].sid \in reservations'
         /\ \A k \in 1..issued' : jobs'[k].sid = jobs'[j].sid => k = j
    <3> SUFFICES ASSUME NEW j \in Unrun \ {i}, jobs'[j].action \in Creates
                 PROVE  /\ jobs'[j].holdsStream /\ jobs'[j].sid \in reservations'
                        /\ \A k \in 1..issued : jobs'[k].sid = jobs'[j].sid => k = j
      OBVIOUS
    <3>1. j \in 1..issued /\ j \in JobIds /\ jobs[j].action \in Creates
      BY <1>1, <1>3
    <3>2. /\ jobs[j].holdsStream /\ jobs[j].sid \in reservations
          /\ \A k \in 1..issued : jobs[k].sid = jobs[j].sid => k = j
      BY <3>1 DEF IInv, Promised
    <3>3. jobs[j].sid # sid
      BY <1>2, <3>2
    <3> QED BY <1>1, <1>3, <1>10, <3>1, <3>2, <3>3
  <2>4. \A j \in Unrun' : jobs'[j].action \in SessionActions \ {"abort_stream"} =>
         /\ jobs'[j].sid \in active'
         /\ \A k \in (queue \cup Held)' : jobs'[k].sid = jobs'[j].sid => k = j
    BY <1>1, <1>3 DEF IInv, Promised
  <2> QED BY <2>1, <2>2, <2>3, <2>4 DEF Promised
<1>15. Guarded'
  <2> SUFFICES ASSUME NEW j \in (queue \cup Held) \ {i}, HoldsSession(j)'
               PROVE  jobs'[j].sid \in busy' \/ jobs'[j].sid \notin active'
    BY DEF Guarded
  <2>1. j \in JobIds /\ HoldsSession(j) /\ jobs'[j].sid = jobs[j].sid
    BY <1>1, <1>3 DEF HoldsSession
  <2>2. jobs[j].sid \in busy \/ jobs[j].sid \notin active
    BY <2>1 DEF IInv, Guarded
  <2>3. HoldsSession(i) => jobs[j].sid # sid
    BY <2>1 DEF IInv, OneOperationPerSession
  <2>4. ~HoldsSession(i) => busy' = busy
    BY DEF ReleaseJob
  <2> QED BY <1>10, <2>1, <2>2, <2>3, <2>4
<1>16. OneOperationPerSession'
  BY <1>1, <1>3 DEF IInv, OneOperationPerSession, HoldsSession
<1> QED BY <1>9, <1>11, <1>13, <1>14, <1>15, <1>16 DEF IInv

\* The owner thread runs a job.
LEMMA ExecuteIInv == ASSUME IInv, Execute PROVE IInv'
<1> USE DEF lifecycle, admission, batch
<1>1. /\ pc = "execute" /\ pc \in Holding \cup {"resolve"}
      /\ UNCHANGED <<lifecycle, admission, poisoned, busy, batchPending, issued, job, warmed>>
  BY DEF Execute, Holding, BeforeRun
<1>2. job \in 1..issued /\ job \in Unsettled
  BY <1>1 DEF IInv, JobsInOrder, Unsettled
<1>3. jobs[job].result \in {"pending", "cancelled"} /\ jobs[job].started # "pending"
  BY <1>1, <1>2 DEF IInv, JobsInOrder
<1>4. CASE /\ UNCHANGED <<sessions, active, reservations, jobs>>
           /\ pc' \in {"cleanup", "transcribe"} /\ batchRunning' \in BOOLEAN
           /\ outcome' \in {"skip", "value", "error", "fatal"}
  <2>1. TypeOK'
    BY <1>1, <1>4 DEF IInv, TypeOK
  <2>2. Held' = Held /\ Unrun' \subseteq Unrun
    BY <1>1, <1>4 DEF Held, Unrun, BeforeRun
  <2> QED BY <1>1, <1>3, <1>4, <2>1, <2>2, FuturesIInv
<1>5. CASE /\ active' = active \ {jobs[job].sid} /\ sessions' = sessions \ {jobs[job].sid}
           /\ reservations' = reservations \ {jobs[job].sid}
           /\ pc' = "cleanup" /\ outcome' \in {"value", "error", "fatal"}
           /\ UNCHANGED <<jobs, batchRunning>>
  <2>1. TypeOK'
    BY <1>1, <1>5 DEF IInv, TypeOK
  <2>2. pc \in Holding /\ busy' \in {busy, busy \ {jobs[job].sid}}
    BY <1>1 DEF Holding, BeforeRun
  <2> QED BY <1>1, <1>5, <2>1, <2>2, DropIInv
<1>6. CASE ExecuteCreate /\ active' # active
  BY <1>1, <1>6, ExecuteCreateIInv DEF ExecuteCreate
<1>7. CASE ExecuteCreate /\ active' = active
  <2>1. CASE jobs' = jobs /\ sessions' = sessions
    BY <1>4, <1>7, <2>1 DEF ExecuteCreate, IInv, TypeOK
  <2>2. CASE ~(jobs' = jobs /\ sessions' = sessions)
    BY <1>1, <1>7, <2>2, ExecuteCreateIInv DEF ExecuteCreate
  <2> QED BY <2>1, <2>2
<1>8. CASE ExecuteAudio
  BY <1>4, <1>8 DEF ExecuteAudio, IInv, TypeOK
<1>9. CASE ExecuteEnd
  <2>1. CASE UNCHANGED <<sessions, active, reservations>>
    BY <1>4, <1>9, <2>1 DEF ExecuteEnd, IInv, TypeOK
  <2>2. CASE ~UNCHANGED <<sessions, active, reservations>>
    BY <1>5, <1>9, <2>2 DEF ExecuteEnd
  <2> QED BY <2>1, <2>2
<1>10. CASE ExecuteFile
  BY <1>4, <1>10 DEF ExecuteFile, IInv, TypeOK
<1>11. CASE ExecuteDies
  <2>1. CASE UNCHANGED <<sessions, active, reservations>>
    BY <1>4, <1>11, <2>1 DEF ExecuteDies, IInv, TypeOK
  <2>2. CASE ~UNCHANGED <<sessions, active, reservations>>
    BY <1>5, <1>11, <2>2 DEF ExecuteDies
  <2> QED BY <2>1, <2>2
<1> QED BY <1>6, <1>7, <1>8, <1>9, <1>10, <1>11 DEF Execute

\* A poisoned session is removed behind the job that was running.
LEMMA PurgeIInv == ASSUME IInv, Purge PROVE IInv'
<1> USE DEF lifecycle, admission, batch
<1>1. /\ pc = "purge" /\ pc \in Holding /\ pc' = "release"
      /\ outcome' = outcome \/ outcome' = "fatal"
      /\ active' = active \ {jobs[job].sid} /\ sessions' = sessions \ {jobs[job].sid}
      /\ reservations' = reservations \ {jobs[job].sid}
      /\ poisoned' = poisoned \ {jobs[job].sid} /\ busy' = busy \ {jobs[job].sid}
      /\ UNCHANGED <<lifecycle, admission, batch, jobs, issued, job, warmed>>
  BY DEF Purge, Holding, BeforeRun
<1>2. TypeOK'
  BY <1>1 DEF IInv, TypeOK
<1> QED BY <1>1, <1>2, DropIInv

\* _release_job of the job that the owner thread holds.
LEMMA ReleaseIInv == ASSUME IInv, Release PROVE IInv'
<1> USE DEF lifecycle, batch
<1>1. /\ pc = "release" /\ pc' = "resolve" /\ ReleaseJob(job, jobs)
      /\ UNCHANGED <<lifecycle, queue, queuedJobs, active, poisoned, batch, issued,
                     job, outcome, warmed, sessions>>
  BY DEF Release
<1>2. /\ issued \in Nat /\ 1..issued \subseteq JobIds /\ Unsettled \subseteq 1..issued
  BY Ranges, Zenon
<1>3. job \in (1..issued) \ queue /\ job \in JobIds
  BY <1>1, <1>2 DEF IInv, JobsInOrder, Holding, BeforeRun
<1>4. /\ Held = {job} /\ (queue \cup Held)' = (queue \cup Held) \ {job}
      /\ Unrun' = Unrun \ {job} /\ Unsettled' = Unsettled
  BY <1>1, <1>3 DEF Held, Unrun, Unsettled, Holding, BeforeRun
<1>5. jobs \in [JobIds -> JobType] /\ queuedJobs' = Cardinality(queue')
  BY <1>1 DEF IInv, TypeOK, QueueAccounting
<1>6. jobs[job] \in JobType
  BY <1>3, <1>5
<1>7. /\ \A i \in JobIds \ {job} : jobs'[i] = jobs[i]
      /\ jobs'[job].action = jobs[job].action /\ jobs'[job].sid = jobs[job].sid
      /\ jobs'[job].started = jobs[job].started /\ jobs'[job].result = jobs[job].result
      /\ jobs'[job].caller = jobs[job].caller
  <2>1. CASE jobs' = jobs
    BY <2>1
  <2>2. CASE jobs' = [jobs EXCEPT ![job].holdsStream = FALSE]
    BY <1>3, <1>5, <1>6, <2>2 DEF JobType
  <2> QED BY <1>1, <2>1, <2>2 DEF ReleaseJob
<1>8. JobsInOrder'
  <2>1. \A i \in JobIds : i > issued => jobs'[i] = NoJobRecord
    BY <1>2, <1>3, <1>7 DEF IInv, JobsInOrder
  <2>2. \A i \in JobIds : ~(i > issued) =>
          /\ jobs'[i].action \in Actions
          /\ jobs'[i].action # "transcribe_file" => jobs'[i].sid \in Sessions
          /\ jobs'[i].action = "transcribe_file" => jobs'[i].sid = NoSession
          /\ jobs'[i].caller = "returned" => jobs'[i].result = "value"
    BY <1>7 DEF IInv, JobsInOrder
  <2>3. \A i, j \in 1..issued :
          jobs'[i].action \in Creates /\ jobs'[j].action \in Creates
          /\ jobs'[i].sid = jobs'[j].sid => i = j
    BY <1>2, <1>7 DEF IInv, JobsInOrder
  <2>4. \A i \in Unsettled' : jobs'[i].result \in {"pending", "cancelled"}
    BY <1>2, <1>4, <1>7 DEF IInv, JobsInOrder
  <2>5. outcome = "value" => jobs'[job].started # "pending"
    BY <1>1, <1>7 DEF IInv, JobsInOrder
  <2>6. queue \subseteq 1..issued
    BY DEF IInv, JobsInOrder
  <2> QED BY <1>1, <1>3, <2>1, <2>2, <2>3, <2>4, <2>5, <2>6 DEF JobsInOrder
<1> QED BY <1>1, <1>4, <1>5, <1>8, ReleaseJobIInv

\* Shutdown rejects a job that is still queued.
LEMMA DrainJobIInv == ASSUME IInv, DrainJob PROVE IInv'
<1> USE DEF lifecycle, batch, worker
<1>1. PICK i \in queue : Dequeue(i) /\ ReleaseJob(i, Rejected(i))
  BY DEF DrainJob
<1>2. /\ pc = "draining" /\ queue' = queue \ {i} /\ queuedJobs' = queuedJobs - 1
      /\ UNCHANGED <<lifecycle, active, poisoned, batch, issued, pc, job, outcome,
                     warmed, sessions>>
  BY <1>1 DEF DrainJob, Dequeue
<1>3. /\ issued \in Nat /\ 1..issued \subseteq JobIds /\ queue \subseteq 1..issued
  BY Ranges, Zenon
<1>4. /\ Held = {} /\ (queue \cup Held)' = (queue \cup Held) \ {i}
      /\ Unrun' = Unrun \ {i} /\ Unsettled = queue /\ Unsettled' = queue \ {i}
  BY <1>2 DEF Held, Unrun, Unsettled, Holding, BeforeRun
<1>5. i \in JobIds /\ i \in 1..issued /\ jobs[i] \in JobType /\ DOMAIN jobs = JobIds
  BY <1>1, <1>3 DEF IInv, TypeOK
<1>6. queuedJobs' = Cardinality(queue')
  <2>1. IsFiniteSet(JobIds)
    BY CoordinatorAssumption, FS_Interval DEF CoordinatorAssumption, JobIds
  <2>2. IsFiniteSet(queue)
    BY <1>3, <2>1, FS_Subset
  <2> QED BY <1>1, <1>2, <2>2, FS_RemoveElement DEF IInv, QueueAccounting
<1> DEFINE current == Rejected(i)
<1>7. current \in [JobIds -> JobType]
  BY <1>5 DEF IInv, TypeOK, JobType, Rejected
<1>8. /\ \A k \in JobIds \ {i} : current[k] = jobs[k]
      /\ current[i].action = jobs[i].action /\ current[i].sid = jobs[i].sid
      /\ current[i].holdsStream = jobs[i].holdsStream
      /\ current[i].caller = jobs[i].caller
  BY <1>5 DEF JobType, Rejected
<1>9. ReleaseJob(i, current)
  BY <1>1
<1> HIDE DEF current
<1>10. /\ \A k \in JobIds \ {i} : jobs'[k] = jobs[k]
       /\ jobs'[i].action = jobs[i].action /\ jobs'[i].sid = jobs[i].sid
       /\ jobs'[i].caller = jobs[i].caller
  <2>1. CASE jobs' = current
    BY <1>5, <1>8, <2>1
  <2>2. CASE jobs' = [current EXCEPT ![i].holdsStream = FALSE]
    <3>1. \A k \in JobIds \ {i} : jobs'[k] = current[k]
      BY <1>5, <1>7, <2>2
    <3>2. current[i] \in JobType
      BY <1>5, <1>7
    <3>3. /\ jobs'[i].action = current[i].action /\ jobs'[i].sid = current[i].sid
          /\ jobs'[i].caller = current[i].caller
      BY <1>5, <1>7, <2>2, <3>2 DEF JobType
    <3> QED BY <1>8, <3>1, <3>3
  <2> QED BY <1>9, <2>1, <2>2 DEF ReleaseJob
<1>11. JobsInOrder'
  <2>1. \A k \in JobIds : k > issued => jobs'[k] = NoJobRecord
    BY <1>3, <1>5, <1>10 DEF IInv, JobsInOrder
  <2>2. jobs[i].caller # "returned"
    BY <1>1, <1>4, <1>5, <1>3 DEF IInv, JobsInOrder
  <2>3. \A k \in JobIds : ~(k > issued) =>
          /\ jobs'[k].action \in Actions
          /\ jobs'[k].action # "transcribe_file" => jobs'[k].sid \in Sessions
          /\ jobs'[k].action = "transcribe_file" => jobs'[k].sid = NoSession
          /\ jobs'[k].caller = "returned" => jobs'[k].result = "value"
    BY <1>10, <2>2 DEF IInv, JobsInOrder
  <2>4. \A k, j \in 1..issued :
          jobs'[k].action \in Creates /\ jobs'[j].action \in Creates
          /\ jobs'[k].sid = jobs'[j].sid => k = j
    BY <1>3, <1>10 DEF IInv, JobsInOrder
  <2>5. \A k \in Unsettled' : jobs'[k].result \in {"pending", "cancelled"}
    BY <1>3, <1>4, <1>10 DEF IInv, JobsInOrder
  <2>6. pc' \notin Holding \cup {"resolve"}
    BY <1>2 DEF Holding, BeforeRun
  <2> QED BY <1>2, <1>3, <2>1, <2>3, <2>4, <2>5, <2>6 DEF JobsInOrder, Holding, BeforeRun
<1>12. \A k \in JobIds :
         /\ current[k].action = jobs[k].action /\ current[k].sid = jobs[k].sid
         /\ current[k].holdsStream = jobs[k].holdsStream
         /\ current[k].caller = jobs[k].caller
  BY <1>8
<1> QED BY <1>1, <1>2, <1>4, <1>6, <1>7, <1>9, <1>11, <1>12, ReleaseJobIInv

\* The owner thread ends and empties every registry.
LEMMA FinalizeIInv == ASSUME IInv, Finalize PROVE IInv'
<1>1. /\ pc = "draining" /\ pc' = "dead" /\ queue = {} /\ sessions' = {} /\ active' = {}
      /\ reservations' = {} /\ poisoned' = {} /\ busy' = {} /\ batchPending' = FALSE
      /\ batchRunning' = FALSE /\ queuedAudio' = 0 /\ queuedJobs' = 0 /\ shutdown' = FALSE
      /\ UNCHANGED <<accepting, control, queue, jobs, issued, job, outcome, warmed>>
  BY DEF Finalize
<1>2. Held' = {} /\ Unrun' = {} /\ Unsettled' = {}
  BY <1>1 DEF Held, Unrun, Unsettled, Holding, BeforeRun
<1>3. TypeOK'
  <2>1. queuedJobs' \in 0..QueueSize /\ queuedAudio' \in 0..MaxQueuedAudio
    BY <1>1, CoordinatorAssumption DEF CoordinatorAssumption
  <2>2. shutdown' \in BOOLEAN /\ batchPending' \in BOOLEAN /\ batchRunning' \in BOOLEAN
    BY <1>1, Zenon
  <2>3. /\ sessions' \subseteq Sessions /\ active' \subseteq Sessions
        /\ reservations' \subseteq Sessions /\ poisoned' \subseteq Sessions
        /\ busy' \subseteq Sessions
    BY <1>1, Zenon
  <2> QED BY <1>1, <2>1, <2>2, <2>3, Zenon DEF IInv, TypeOK
<1>4. JobsInOrder'
  BY <1>1, <1>2 DEF IInv, JobsInOrder, Holding, BeforeRun
<1>6. CapacityBound'
  BY <1>1, FS_EmptySet, CoordinatorAssumption DEF CoordinatorAssumption, CapacityBound
<1>7. QueueAccounting'
  <2>1. {j \in queue \cup Held : jobs[j].action \in Chunks}' = {}
    BY <1>1, <1>2
  <2> QED BY <1>1, <2>1, FS_EmptySet DEF QueueAccounting
<1>8. Promised'
  BY <1>1, <1>2 DEF IInv, Promised, Used
<1>9. Guarded' /\ OneOperationPerSession'
  BY <1>1, <1>2 DEF Guarded, OneOperationPerSession
<1> QED BY <1>1, <1>3, <1>4, <1>6, <1>7, <1>8, <1>9 DEF IInv

\* Every step preserves the invariant.
LEMMA NextIInv == ASSUME IInv, [Next]_vars PROVE IInv'
<1>1. CASE Client
  <2>1. CASE Start \/ Stop
    BY <2>1, QuietIInv
  <2>2. CASE \E j \in JobIds : CancelCaller(j)
    BY <2>2, WaitingIInv
  <2>3. ASSUME NEW sid \in Sessions, AbortStream(sid)
        PROVE  AbortPoisons(sid) \/ AbortQueued(sid)
    BY <2>3 DEF AbortStream, AbortPoisons, AbortQueued
  <2> QED BY <1>1, <2>1, <2>2, <2>3, ClientIInv DEF Client
<1>2. CASE \E j \in JobIds : Caller(j)
  BY <1>2, WaitingIInv, CleanupWaitedIInv, CleanupAbortsIInv DEF Caller
<1>3. CASE Worker
  BY <1>3, QuietIInv, GetJobIInv, SettlingIInv, ExecuteIInv, PurgeIInv, ReleaseIInv,
     DrainJobIInv, FinalizeIInv DEF Worker
<1>4. CASE UNCHANGED vars
  <2> USE <1>4 DEF vars, lifecycle, admission, registries, batch, worker
  <2>1. Held' = Held /\ Unrun' = Unrun /\ Unsettled' = Unsettled
    BY DEF Held, Unrun, Unsettled
  <2>2. TypeOK'
    BY DEF IInv, TypeOK
  <2>3. JobsInOrder'
    BY <2>1 DEF IInv, JobsInOrder
  <2> QED BY <2>1, <2>2, <2>3, FrameIInv
<1> QED BY <1>1, <1>2, <1>3, <1>4 DEF Next

-----------------------------------------------------------------------------
(* What the coordinator keeps *)

\* The inductive invariant holds in every state.
LEMMA InductiveInvariant == Spec => []IInv
<1> QED BY InitIInv, NextIInv, PTL DEF Spec

\* Every variable keeps its type.  The queue and audio counters in particular
\* never go below zero or past the limits of the settings.
THEOREM TypeCorrect == Spec => []TypeOK
<1>1. IInv => TypeOK
  BY DEF IInv
<1> QED BY <1>1, InductiveInvariant, PTL

\* asr_max_active_streams is never exceeded, and no live session is without its
\* reservation, over every path that gives a reservation back.
THEOREM StreamLimitHolds == Spec => []CapacityBound
<1>1. IInv => CapacityBound
  BY DEF IInv
<1> QED BY <1>1, InductiveInvariant, PTL

\* _queued_business_jobs and _queued_audio_seconds are exactly what the queue
\* and the owner thread hold.
THEOREM QueueIsAccounted == Spec => []QueueAccounting
<1>1. IInv => QueueAccounting
  BY DEF IInv
<1> QED BY <1>1, InductiveInvariant, PTL

\* The operations of a session are serialised, whatever their callers do.
THEOREM SessionsSerialised == Spec => []OneOperationPerSession
<1>1. IInv => OneOperationPerSession
  BY DEF IInv
<1> QED BY <1>1, InductiveInvariant, PTL

\* A job about to run has what it was promised.
LEMMA LookupsPromised == ASSUME IInv PROVE LookupsSucceed
<1> SUFFICES ASSUME pc = "execute",
                    jobs[job].action \in {"add_audio", "finish_segment", "finish_stream"}
             PROVE  jobs[job].sid \in sessions
  BY DEF LookupsSucceed
<1>1. job \in Unrun /\ jobs[job].action \in SessionActions \ {"abort_stream"}
  BY DEF Unrun, BeforeRun, SessionActions, Chunks
<1> QED BY <1>1 DEF IInv, Promised

\* An admitted operation finds its session when the owner thread runs it:
\* _execute_job's lookups raise no KeyError.
THEOREM AdmittedFindsSession == Spec => []LookupsSucceed
<1> QED BY LookupsPromised, InductiveInvariant, PTL
=============================================================================
