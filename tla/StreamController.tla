-------------------------- MODULE StreamController --------------------------
(***************************************************************************)
(* The direct ASR service (app/asr_api.py): one StreamingSessionController *)
(* and WebSocket handler per connection, over InferenceCoordinator, whose  *)
(* callers they are.  (The file endpoint is that module's PostTranscribe.) *)
(*                                                                         *)
(* A handler's step runs from one await to the next: a message, a send, a  *)
(* call of the coordinator.  The coordinator's job of an awaited call goes *)
(* through the actions of InferenceCoordinator.  Time is left out: the     *)
(* session deadline and the idle timeout pass at any moment.  The refusals *)
(* of a start message, of a frame (size, alignment, audio limit) and of a  *)
(* command are one free choice each, because each ends in fail().          *)
(***************************************************************************)
EXTENDS InferenceCoordinator

CONSTANT StreamModes       \* the values of settings.asr_stream_mode considered

ASSUME StreamModesAssumption == StreamModes \subseteq {"stateful", "chunked"}

VARIABLES
    lifespan,     \* of the application: "starting", "serving", "stopped"
    mode,         \* settings.asr_stream_mode
    stream        \* the connections; connection c draws the session id c

service == <<lifespan, mode, stream>>
allVars == <<vars, service>>

\* What the handler does with the model: create; audio and, behind an endpoint,
\* segment; the pending audio of the VAD in front of a client's segment or end
\* (drain_segment, drain_end), segment and finish.  In the chunked mode the
\* buffer is transcribed by chunk, chunk_segment and chunk_end.
ActionOf(doing) ==
    CASE doing = "create" ->
           IF mode = "stateful" THEN "create_stream" ELSE "create_chunked_stream"
      [] doing \in {"audio", "drain_segment", "drain_end"} -> "add_audio"
      [] doing = "segment" -> "finish_segment"
      [] doing = "finish" -> "finish_stream"
      [] OTHER -> "transcribe_stream_chunk"

\* at: where the handler is; job: the coordinator's job it awaits; sid: is
\* session_id set; expired: session_deadline has passed; lost: abort_stream
\* raised, which abort() ignores; wire: the last event, or how it ended.
NewStream ==
    [at |-> "away", doing |-> "none", job |-> 0, sid |-> FALSE,
     expired |-> FALSE, lost |-> FALSE, wire |-> "open"]

ServiceInit ==
    /\ Init
    /\ lifespan = "starting"
    /\ mode \in StreamModes
    /\ stream = [c \in Sessions |-> NewStream]

\* MaxJobs bounds the jobs of a behaviour.  A connection only takes up work if
\* the jobs to end it are left: its abort, the abort of a cancelled job's
\* cleanup, and the job that must follow the one it is doing.
Owed(c) ==
    CASE stream[c].at \in {"away", "expiring", "failing", "aborting", "done"} ->
           IF stream[c].sid THEN 2 ELSE 0
      [] stream[c].at = "start" -> 3
      [] stream[c].doing \in {"drain_segment", "drain_end"} -> 3
      [] OTHER -> 2

TotalOwed[cs \in SUBSET Sessions] ==
    IF cs = {} THEN 0
    ELSE LET c == CHOOSE c \in cs : TRUE IN Owed(c) + TotalOwed[cs \ {c}]

RoomFor(n) == issued + n + TotalOwed[Sessions] <= MaxJobs

-----------------------------------------------------------------------------
(* abort(), _expire_session(), fail() *)

To(c, s) == stream' = [stream EXCEPT ![c] = s]

\* abort_stream of the session, whose id is forgotten first.  It returns at
\* once where the session is gone or the service stops, poisons a busy session,
\* and raises where the submission is refused.
CallAbort(c, s, then) ==
    LET left == [s EXCEPT !.at = then, !.doing = "none", !.job = 0, !.sid = FALSE]
        ignored == ~s.sid \/ c \notin active \/ ~accepting
        refused == ~OperationAdmitted("abort_stream", c)
    IN
    /\ UNCHANGED <<lifespan, mode>>
    /\ \/ /\ ignored
          /\ To(c, left)
          /\ UNCHANGED vars
       \/ /\ ~ignored /\ AbortBusy(c)
          /\ To(c, left)
          /\ UNCHANGED <<lifecycle, admission, active, reservations, busy, batch,
                         jobs, issued, worker>>
       \/ /\ ~ignored /\ c \notin busy /\ refused
          /\ To(c, [left EXCEPT !.lost = TRUE])
          /\ UNCHANGED vars
       \/ /\ ~ignored /\ AbortIdle(jobs, c, FALSE)
          /\ To(c, [left EXCEPT !.job = issued + 1])
          /\ UNCHANGED <<lifecycle, active, reservations, poisoned, batch, worker>>

AbortOver(c) == stream[c].job # 0 => jobs[stream[c].job].caller \in Ended

AbortRaised(c) ==
    stream[c].lost \/ (stream[c].job # 0 /\ jobs[stream[c].job].caller # "returned")

ExpireSession(c, s) == CallAbort(c, s, "expiring")

\* fail() sends its error event without a time limit.
Fail(c, s) ==
    /\ To(c, [s EXCEPT !.at = "failing", !.doing = "none", !.job = 0, !.wire = "error"])
    /\ UNCHANGED <<vars, lifespan, mode>>

\* The rest of _expire_session.
Expired(c) ==
    /\ stream[c].at = "expiring" /\ AbortOver(c)
    /\ Fail(c, [stream[c] EXCEPT !.lost = AbortRaised(c)])

\* Mutant of FailSent: the handler returns without abort().
FailSentNoAbort(c) ==
    /\ stream[c].at = "failing"
    /\ To(c, [stream[c] EXCEPT !.at = "done", !.wire = "closed"])
    /\ UNCHANGED <<vars, lifespan, mode>>

\* The event is sent and the socket closed, or it is gone: the handler's
\* finally block aborts.
FailSent(c) ==
    /\ stream[c].at = "failing"
    /\ \E w \in {"closed", "gone"} :
         CallAbort(c, [stream[c] EXCEPT !.wire = w], "aborting")

Aborted(c) ==
    /\ stream[c].at = "aborting" /\ AbortOver(c)
    /\ To(c, [stream[c] EXCEPT !.at = "done", !.job = 0, !.lost = AbortRaised(c),
                               !.wire = IF @ = "final" THEN "closed" ELSE @])
    /\ UNCHANGED <<vars, lifespan, mode>>

-----------------------------------------------------------------------------
(* _await_model_operation *)

Admitted(c, doing) ==
    IF doing = "create" THEN CreateAdmitted(ActionOf(doing))
    ELSE OperationAdmitted(ActionOf(doing), c)

CallModel(c, s, doing) ==
    \/ /\ s.expired
       /\ ExpireSession(c, s)
    \/ /\ ~s.expired
       /\ IF doing = "create" THEN CreateStream(ActionOf(doing), c)
          ELSE SubmitOperation(ActionOf(doing), c)
       /\ To(c, [s EXCEPT !.at = "model", !.doing = doing, !.job = issued + 1])
       /\ UNCHANGED <<lifespan, mode>>
    \/ /\ ~s.expired /\ ~Admitted(c, doing)
       /\ Fail(c, s)

\* asyncio.timeout cancels the coordinator's coroutine ...
DeadlineCancels(c) ==
    /\ stream[c].at = "model" /\ stream[c].expired
    /\ CancelCaller(stream[c].job)
    /\ To(c, [stream[c] EXCEPT !.at = "cancelled"])
    /\ UNCHANGED <<lifespan, mode>>

\* Mutant of CancelEnds: only a result ends the wait for the cancelled call.
CancelEndsOnResult(c) ==
    /\ stream[c].at = "cancelled"
    /\ jobs[stream[c].job].caller = "returned"
    /\ ExpireSession(c, stream[c])

\* ... and the session expires when its cleanup is over.
CancelEnds(c) ==
    /\ stream[c].at = "cancelled"
    /\ jobs[stream[c].job].caller \in Ended
    /\ ExpireSession(c, stream[c])

\* Mutant of ModelRaises: a queue timeout leaves the stream open.
ModelRaisesKeepsStream(c) ==
    /\ stream[c].at = "model"
    /\ \/ /\ jobs[stream[c].job].caller = "raised"
          /\ Fail(c, stream[c])
       \/ /\ jobs[stream[c].job].caller = "gave_up"
          /\ To(c, [stream[c] EXCEPT !.at = "receiving", !.doing = "none", !.job = 0])
          /\ UNCHANGED <<vars, lifespan, mode>>

ModelRaises(c) ==
    /\ stream[c].at = "model"
    /\ jobs[stream[c].job].caller \in {"raised", "gave_up"}
    /\ Fail(c, stream[c])

\* What follows a finished operation and its events.  The VAD may hold more
\* audio, or have found an endpoint; the model may have finished the segment
\* by itself.
Follows(doing) ==
    CASE doing \in {"audio", "segment"} -> {"receiving", "audio", "segment"}
      [] doing = "drain_segment" -> {"receiving", "drain_segment", "segment"}
      [] doing = "drain_end" -> {"drain_end", "finish"}
      [] OTHER -> {"receiving"}

Continue(c, s) ==
    \E next \in Follows(s.doing) :
      \/ /\ next = "receiving"
         /\ To(c, [s EXCEPT !.at = next, !.doing = "none", !.job = 0])
         /\ UNCHANGED <<vars, lifespan, mode>>
      \/ /\ next # "receiving"
         /\ \/ s.doing \in {"drain_segment", "drain_end"} /\ next # s.doing
            \/ RoomFor(1)
         /\ CallModel(c, s, next)

\* The final event follows in the two ends; it is on the wire before the send
\* returns.
SendFinal(c, s) ==
    /\ To(c, [s EXCEPT !.at = "sending", !.wire = "final", !.job = 0])
    /\ UNCHANGED <<vars, lifespan, mode>>

\* The result is checked against the deadline, the lag (_observe_stream_progress)
\* and the confirmed text, and its events are sent one by one.
ModelReturns(c) ==
    LET s == [stream[c] EXCEPT !.sid = TRUE]
        ending == s.doing \in {"finish", "chunk_end"}
    IN
    /\ s.at = "model" /\ jobs[s.job].caller = "returned"
    /\ \/ s.expired /\ ExpireSession(c, s)
       \/ ~s.expired /\ s.doing # "create" /\ Fail(c, s)
       \/ /\ ~s.expired
          /\ To(c, [s EXCEPT !.at = "sending"])
          /\ UNCHANGED <<vars, lifespan, mode>>
       \/ ~s.expired /\ s.doing # "create" /\ ~ending /\ Continue(c, s)
       \/ ~s.expired /\ ending /\ SendFinal(c, s)

-----------------------------------------------------------------------------
(* _send_event: the sends of one result *)

\* Mutant of Sent: finish() leaves the socket open.
SentStaysOpen(c) ==
    LET s == stream[c] IN
    /\ s.at = "sending"
    /\ IF s.wire = "final"
       THEN /\ To(c, [s EXCEPT !.at = "receiving", !.wire = "open"])
            /\ UNCHANGED <<vars, lifespan, mode>>
       ELSE IF s.doing \in {"finish", "chunk_end"} THEN SendFinal(c, s)
       ELSE Continue(c, s)

\* finish() has nothing left to abort; the chunked end aborts, then closes.
Sent(c) ==
    LET s == stream[c] IN
    /\ s.at = "sending"
    /\ \/ /\ s.wire = "final" /\ mode = "stateful"
          /\ To(c, [s EXCEPT !.at = "done", !.doing = "none", !.sid = FALSE,
                             !.wire = "closed"])
          /\ UNCHANGED <<vars, lifespan, mode>>
       \/ /\ s.wire = "final" /\ mode = "chunked"
          /\ CallAbort(c, s, "aborting")
       \/ /\ s.wire = "open" /\ s.doing \in {"finish", "chunk_end"}
          /\ SendFinal(c, s)
       \/ /\ s.wire = "open" /\ s.doing \notin {"finish", "chunk_end"}
          /\ Continue(c, s)

SendTimesOut(c) ==
    /\ stream[c].at = "sending" /\ stream[c].expired
    /\ ExpireSession(c, stream[c])

\* The client is gone: WebSocketDisconnect unwinds to the finally block.
SendRaises(c) ==
    /\ stream[c].at = "sending"
    /\ CallAbort(c, [stream[c] EXCEPT !.wire = "gone"], "aborting")

-----------------------------------------------------------------------------
(* transcribe_stream *)

Connect(c) ==
    /\ lifespan = "serving" /\ stream[c].at = "away"
    /\ RoomFor(3)
    /\ To(c, [stream[c] EXCEPT !.at = "start"])
    /\ UNCHANGED <<vars, lifespan, mode>>

ReceiveStart(c) ==
    /\ stream[c].at = "start"
    /\ \/ Fail(c, stream[c])                 \* start timeout, _parse_stream_start
       \/ CallModel(c, stream[c], "create")

\* A frame that the VAD keeps, or that does not fill the chunk, is a stutter.
ReceiveAudio(c) ==
    /\ stream[c].at = "receiving"
    /\ \/ Fail(c, stream[c])                 \* validate_audio_frame
       \/ /\ RoomFor(1)
          /\ CallModel(c, stream[c], IF mode = "stateful" THEN "audio" ELSE "chunk")

\* A segment or end command.  The chunk buffer may be empty, in which case the
\* confirmed text is sent (segment), or the final event (end), at once.
ReceiveCommand(c) ==
    LET s == stream[c] IN
    /\ s.at = "receiving"
    /\ \/ /\ mode = "stateful"
          /\ \/ \E next \in {"segment", "finish"} : RoomFor(1) /\ CallModel(c, s, next)
             \/ \E next \in {"drain_segment", "drain_end"} :
                  RoomFor(2) /\ CallModel(c, s, next)
       \/ /\ mode = "chunked"
          /\ \/ \E next \in {"chunk_segment", "chunk_end"} :
                  RoomFor(1) /\ CallModel(c, s, next)
             \/ s.expired /\ ExpireSession(c, s)
             \/ /\ ~s.expired
                /\ To(c, [s EXCEPT !.at = "sending"])
                /\ UNCHANGED <<vars, lifespan, mode>>
             \/ ~s.expired /\ SendFinal(c, s)

\* An unknown message, the idle timeout, or the session's end.
ReceiveFails(c) ==
    /\ stream[c].at = "receiving"
    /\ Fail(c, stream[c])

Disconnect(c) ==
    /\ stream[c].at = "receiving"
    /\ CallAbort(c, [stream[c] EXCEPT !.wire = "gone"], "aborting")

DeadlinePasses(c) ==
    /\ stream[c].at \notin {"away", "done"} /\ ~stream[c].expired
    /\ To(c, [stream[c] EXCEPT !.expired = TRUE])
    /\ UNCHANGED <<vars, lifespan, mode>>

Handler(c) ==
    \/ ReceiveStart(c) \/ ReceiveAudio(c) \/ ReceiveCommand(c)
    \/ ReceiveFails(c) \/ Disconnect(c)
    \/ ModelReturns(c) \/ ModelRaises(c) \/ DeadlineCancels(c) \/ CancelEnds(c)
    \/ Sent(c) \/ SendTimesOut(c) \/ SendRaises(c)
    \/ Expired(c) \/ FailSent(c) \/ Aborted(c)

-----------------------------------------------------------------------------
(* The application *)

LifespanStart ==
    /\ lifespan = "starting"
    /\ Start
    /\ lifespan' = "serving"
    /\ UNCHANGED <<mode, stream>>

LifespanStop ==
    /\ lifespan = "serving"
    /\ Stop
    /\ lifespan' = "stopped"
    /\ UNCHANGED <<mode, stream>>

LoopStep(j) == Caller(j) /\ UNCHANGED service
OwnerStep == Worker /\ UNCHANGED service

ServiceNext ==
    \/ LifespanStart \/ LifespanStop
    \/ \E c \in Sessions : Connect(c) \/ Handler(c) \/ DeadlinePasses(c)
    \/ \E j \in JobIds : LoopStep(j)
    \/ OwnerStep

\* The event loop runs: handlers that can go on do, sends end, timers fire.
ServiceSpec ==
    /\ ServiceInit /\ [][ServiceNext]_allVars
    /\ \A j \in JobIds : WF_allVars(LoopStep(j))
    /\ \A c \in Sessions : WF_allVars(Handler(c)) /\ WF_allVars(DeadlinePasses(c))

-----------------------------------------------------------------------------
(* Properties *)

\* A handler that may call the model finds its session usable: between two
\* operations nothing of an earlier one is still queued or running, and the
\* session is neither poisoned nor gone, unless the service is stopping.
IdleBetweenOperations ==
    \A c \in Sessions :
        /\ stream[c].at \in {"receiving", "sending"} /\ stream[c].doing # "finish"
        /\ stream[c].wire # "final" /\ accepting
        => c \in active \ (busy \cup poisoned)

\* A client reads at most one terminal event: behind an error nothing but the
\* close, behind the final event the close or the error of an expired session,
\* whose send was cut short by the deadline.
TerminalEventLast ==
    [][\A c \in Sessions :
         LET now == stream[c].wire
             then == stream'[c].wire
         IN /\ now = "error" => then \in {"error", "closed", "gone"}
            /\ now \in {"closed", "gone"} => then = now
            /\ now = "final" =>
                 \/ then \in {"final", "closed", "gone"}
                 \/ then = "error" /\ stream[c].expired]_allVars

\* Every connection's handler returns, although the owner thread may hang in the
\* model: the deadline, the inference timeout and the cleanup's timeout see to it.
HandlersEnd ==
    \A c \in Sessions : stream[c].at # "away" ~> stream[c].at = "done"

\* When the handler has returned and the model comes back from its calls, the
\* stream slot is given back for good.  Two leaks are left out, and they are the
\* only ones: the abort raised (queue full or queue timeout), or the poison came
\* too late for the owner thread to see it.
SlotComesBack ==
    WF_allVars(OwnerStep) =>
        \A c \in Sessions :
            stream[c].at = "done" ~>
                [](c \notin reservations \/ stream[c].lost \/ c \in poisoned)

\* Every caller's coroutine ends although the owner thread may hang in the model.
CallersReturn ==
    \A j \in JobIds : jobs[j].caller \in Waiting ~> jobs[j].caller \in Ended

\* A requested shutdown ends the owner thread if every model call comes back.
ShutdownCompletes == WF_allVars(OwnerStep) => (shutdown ~> pc = "dead")
=============================================================================
