------------------------------ MODULE TtsService ------------------------------
(***************************************************************************)
(* The text-to-speech service: the WebSocket handler, its slots and its    *)
(* producer threads (app/tts_api.py), the CosyVoice synthesizer with its   *)
(* lock (app/tts.py), Triton's stream with its callback thread             *)
(* (app/tts_triton.py), the other remote ones (app/tts_vllm_omni.py,       *)
(* app/tts_voxserve.py) and the batch worker of Qwen3-TTS                  *)
(* (app/tts_qwen.py).                                                      *)
(*                                                                         *)
(* A step is what happens between two blocking calls or awaits.  A chunk   *)
(* of audio is <<text, number>>; what it sounds like is left out, and so   *)
(* are transports, headers and timing statistics.  The model may raise at  *)
(* any call.                                                               *)
(***************************************************************************)
EXTENDS Integers, Sequences, FiniteSets, SequencesExt

CONSTANTS
    Sockets,         \* WebSocket clients, one connection each
    Posts,           \* clients of POST /v1/tts, one request each
    Kinds,           \* the synthesizers considered
    Crowd,           \* bound: the clients that come, for each synthesizer
    MaxStreams,      \* tts_max_active_streams
    QueueSize,       \* tts_qwen_queue_size
    BatchSize,       \* tts_qwen_batch_size
    MaxTexts,        \* bound: texts of a connection
    MaxChunks,       \* bound: chunks of a text
    MaxWorkers       \* bound: Qwen worker threads ever started

ASSUME TtsAssumption ==
    /\ Sockets \cap Posts = {} /\ IsFiniteSet(Sockets)
    /\ Kinds \subseteq {"cosyvoice", "remote", "triton", "qwen"}
    /\ Crowd \in [Kinds -> SUBSET (Sockets \cup Posts)]
    /\ {MaxStreams, QueueSize, BatchSize} \subseteq Nat \ {0}
    /\ {MaxTexts, MaxChunks, MaxWorkers} \subseteq Nat \ {0}

VARIABLES
    kind,         \* settings.tts_backend
    lifespan,     \* "starting", "serving", "stopping", "joining", "stopped"
    slots,        \* tts_stream_slots
    conn,         \* the handlers, see NewConnection
    prod,         \* the producer threads, see NewProducer
    lock,         \* who has CosyVoice's lock
    responses,    \* Triton's responses to each client's call that are not taken: two
                  \* in the call's queue, a third with the callback that waits to put it
    queue,        \* Qwen's request queue
    req,          \* the request of each client: "none", "queued", "taken", or done
    worker,       \* the worker threads
    current       \* self._worker

vars == <<kind, lifespan, slots, conn, prod, lock, responses, queue, req, worker, current>>
qwen == <<queue, req, worker, current>>

Clients == Sockets \cup Posts
Workers == 1 .. MaxWorkers
Nobody == "nobody"
None == 0
STOP == "stop"
End == <<"end">>
Failure == <<"failure">>

\* at: the handler; then: where it goes when its generator is closed; sent: the
\* chunks of this text that were sent; orphan: its generator was left behind.
NewConnection ==
    [at |-> "away", then |-> "receiving", texts |-> 0, sent |-> <<>>, orphan |-> FALSE]

\* at: the thread; item: what it puts next; items: the queue to the handler;
\* number: the chunks of this text that the model made.
NewProducer ==
    [at |-> "gone", item |-> End, items |-> <<>>, stopped |-> FALSE, number |-> 0]

Init ==
    /\ kind \in Kinds
    /\ lifespan = "starting"
    /\ slots = MaxStreams
    /\ conn = [c \in Clients |-> NewConnection]
    /\ prod = [c \in Clients |-> NewProducer]
    /\ lock = Nobody
    /\ responses = [c \in Clients |-> 0]
    /\ queue = <<>>
    /\ req = [c \in Clients |-> "none"]
    /\ worker = [w \in Workers |-> [at |-> "none", batch |-> <<>>]]
    /\ current = None

ToConn(c, x) == conn' = [conn EXCEPT ![c] = x]
ToProd(c, x) == prod' = [prod EXCEPT ![c] = x]

-----------------------------------------------------------------------------
(* The handler, synthesize_tts_stream *)

Holding == {"receiving", "streaming", "sending", "closing", "failing"}

Comes(c) == lifespan = "serving" /\ conn[c].at = "away" /\ c \in Crowd[kind]

\* The key or the task_start is refused, or the client goes away.
Refuse(c) ==
    /\ Comes(c)
    /\ ToConn(c, [conn[c] EXCEPT !.at = "done"])
    /\ UNCHANGED <<kind, lifespan, slots, responses, prod, lock, qwen>>

Start(c) ==
    /\ Comes(c)
    /\ IF slots > 0
       THEN slots' = slots - 1 /\ ToConn(c, [conn[c] EXCEPT !.at = "receiving"])
       ELSE ToConn(c, [conn[c] EXCEPT !.at = "done"]) /\ UNCHANGED slots
    /\ UNCHANGED <<kind, lifespan, responses, prod, lock, qwen>>

\* The finally block.
Leave(c, x) ==
    /\ slots' = slots + 1
    /\ ToConn(c, [x EXCEPT !.at = "done"])
    /\ UNCHANGED <<kind, lifespan, responses, prod, lock, qwen>>

\* _fail_websocket is to send task_failed, and to close.
Fail(c, x) ==
    /\ ToConn(c, [x EXCEPT !.at = "failing"])
    /\ UNCHANGED <<kind, lifespan, slots, responses, prod, lock, qwen>>

Failed(c) == conn[c].at = "failing" /\ Leave(c, conn[c])

\* A producer for a text; the queue is a new one.
Produce(c) == ToProd(c, [NewProducer EXCEPT !.at = "call"])

ReceiveContinue(c) ==
    /\ conn[c].at = "receiving" /\ conn[c].texts < MaxTexts
    /\ ToConn(c, [conn[c] EXCEPT !.at = "streaming", !.texts = @ + 1, !.sent = <<>>])
    /\ Produce(c)
    /\ UNCHANGED <<kind, lifespan, slots, responses, lock, qwen>>

ReceiveFinish(c) ==
    /\ conn[c].at = "receiving"
    /\ IF conn[c].texts > 0
       THEN Leave(c, [conn[c] EXCEPT !.then = "finished"])
       ELSE Fail(c, conn[c])

\* Another message, a blank or too long text, an invalid payload.
ReceiveBad(c) == conn[c].at = "receiving" /\ Fail(c, conn[c])

\* Mutant of Disconnect: the slot is kept.
DisconnectKeepsSlot(c) ==
    /\ conn[c].at = "receiving"
    /\ ToConn(c, [conn[c] EXCEPT !.at = "done"])
    /\ UNCHANGED <<kind, lifespan, slots, responses, prod, lock, qwen>>

Disconnect(c) == conn[c].at = "receiving" /\ Leave(c, conn[c])

\* The generator takes an item.  The end and a failure take it to its finally
\* block, which stops the producer and waits for it.
GetItem(c) ==
    LET item == Head(prod[c].items)
        over == item \in {End, Failure}
        fails == item = Failure \/ conn[c].sent = <<>>
    IN
    /\ conn[c].at = "streaming" /\ prod[c].items # <<>>
    /\ ToProd(c, [prod[c] EXCEPT !.items = Tail(@), !.stopped = over])
    /\ ToConn(c, [conn[c] EXCEPT
                    !.at = IF over THEN "closing" ELSE "sending",
                    !.then = IF fails THEN "failing" ELSE "receiving",
                    !.sent = IF over THEN @ ELSE Append(@, item)])
    /\ UNCHANGED <<kind, lifespan, slots, responses, lock, qwen>>

GeneratorCloses(c) ==
    /\ conn[c].at = "closing" /\ prod[c].at = "gone"
    /\ ToConn(c, [conn[c] EXCEPT !.at = conn[c].then])
    /\ UNCHANGED <<kind, lifespan, slots, responses, prod, lock, qwen>>

Sent(c) ==
    /\ conn[c].at = "sending"
    /\ ToConn(c, [conn[c] EXCEPT !.at = "streaming"])
    /\ UNCHANGED <<kind, lifespan, slots, responses, prod, lock, qwen>>

\* The send raises in the body of the async for, which leaves the generator to
\* the event loop's finalizer; WebSocketDisconnect goes to the finally block at
\* once, RuntimeError over _fail_websocket.
SendRaises(c) ==
    LET left == [conn[c] EXCEPT !.orphan = TRUE] IN
    /\ conn[c].at = "sending"
    /\ Leave(c, left) \/ Fail(c, left)

\* aclose() by the finalizer
FinalizeGenerator(c) ==
    /\ conn[c].orphan /\ ~prod[c].stopped
    /\ ToProd(c, [prod[c] EXCEPT !.stopped = TRUE])
    /\ UNCHANGED <<kind, lifespan, slots, responses, conn, lock, qwen>>

-----------------------------------------------------------------------------
(* synthesize_tts: the thread of the request runs through stream_pcm itself *)

Post(c) ==
    /\ Comes(c)
    /\ ToConn(c, [conn[c] EXCEPT !.at = "posting", !.texts = 1])
    /\ Produce(c)
    /\ UNCHANGED <<kind, lifespan, slots, responses, lock, qwen>>

Answered(c) ==
    /\ conn[c].at = "posting" /\ prod[c].at = "put"
    /\ IF prod[c].item \in {End, Failure}
       THEN /\ ToConn(c, [conn[c] EXCEPT
                 !.at = "done", !.then = IF prod[c].item = End THEN "finished" ELSE "failing"])
            /\ ToProd(c, [prod[c] EXCEPT !.at = "gone"])
       ELSE /\ ToConn(c, [conn[c] EXCEPT !.sent = Append(@, prod[c].item)])
            /\ ToProd(c, [prod[c] EXCEPT !.at = "model"])
    /\ UNCHANGED <<kind, lifespan, slots, responses, lock, qwen>>

-----------------------------------------------------------------------------
(* The producer thread, produce() and stream_pcm of the synthesizers *)

Putting(c, item) == [prod[c] EXCEPT !.at = "put", !.item = item]
Unlocked(c) == IF lock = c THEN Nobody ELSE lock

\* stream_pcm raises; the generator's with and finally blocks run.
Raise(c) ==
    /\ ToProd(c, Putting(c, Failure))
    /\ lock' = Unlocked(c)

\* The first next(): CosyVoice waits for its lock, a remote backend connects.
CallModel(c) ==
    /\ prod[c].at = "call" /\ kind # "qwen"
    /\ \/ /\ kind = "cosyvoice" => lock = Nobody
          /\ lock' = IF kind = "cosyvoice" THEN c ELSE lock
          /\ ToProd(c, [prod[c] EXCEPT !.at = "model"])
       \/ kind \in {"remote", "triton"} /\ Raise(c)
    /\ UNCHANGED <<kind, lifespan, slots, responses, conn, qwen>>

\* The callback of Triton's stream: a response comes; in "stopping" it may be the
\* error by which the cancelled call ends.
TritonResponds(c) ==
    /\ kind = "triton" /\ prod[c].at \in {"model", "put", "stopping"}
    /\ responses[c] < 3
    /\ responses' = [responses EXCEPT ![c] = @ + 1]
    /\ UNCHANGED <<kind, lifespan, slots, conn, prod, lock, qwen>>

\* responses.get(): for Triton the next chunk, the end and an error are a response;
\* behind one of the last two comes nothing that could fill the queue.
Responded(c, left) ==
    IF kind = "triton"
    THEN responses[c] > 0 /\ responses' = [responses EXCEPT ![c] = left]
    ELSE UNCHANGED responses

ModelYields(c) ==
    LET n == prod[c].number + 1
        chunk == <<conn[c].texts, n>>
    IN
    /\ prod[c].at = "model" /\ kind # "qwen" /\ n <= MaxChunks
    /\ Responded(c, responses[c] - 1)
    /\ ToProd(c, [Putting(c, chunk) EXCEPT !.number = n])
    /\ UNCHANGED <<kind, lifespan, slots, conn, lock, qwen>>

\* The model is done; without a chunk that is a failure.
ModelEnds(c) ==
    /\ prod[c].at = "model"
    /\ Responded(c, 0)
    /\ ToProd(c, Putting(c, IF prod[c].number > 0 THEN End ELSE Failure))
    /\ lock' = Unlocked(c)
    /\ UNCHANGED <<kind, lifespan, slots, conn, qwen>>

ModelRaises(c) ==
    /\ prod[c].at = "model" /\ kind # "qwen"
    /\ Responded(c, 0)
    /\ Raise(c)
    /\ UNCHANGED <<kind, lifespan, slots, conn, qwen>>

\* What follows an item that is in the queue
AfterPut(c) ==
    IF prod[c].item = End THEN [prod[c] EXCEPT !.at = "gone"]
    ELSE IF prod[c].item = Failure THEN Putting(c, End)
    ELSE [prod[c] EXCEPT !.at = "model"]

\* Mutant of Puts: put_nowait, and a full queue loses the item.
PutsNoWait(c) ==
    /\ prod[c].at = "put" /\ conn[c].at # "posting"
    /\ ~prod[c].stopped
    /\ ToProd(c, [AfterPut(c) EXCEPT
                    !.items = IF Len(@) < 2 THEN Append(@, prod[c].item) ELSE @])
    /\ UNCHANGED <<kind, lifespan, slots, responses, conn, lock, qwen>>

Puts(c) ==
    /\ prod[c].at = "put" /\ conn[c].at # "posting"
    /\ ~prod[c].stopped /\ Len(prod[c].items) < 2
    /\ ToProd(c, [AfterPut(c) EXCEPT !.items = Append(@, prod[c].item)])
    /\ UNCHANGED <<kind, lifespan, slots, responses, conn, lock, qwen>>

Returned == [NewProducer EXCEPT !.stopped = TRUE]

\* What becomes of a thread that returns with an item in its hands: it drops the
\* model's generator, and with a chunk Triton's finally block comes first.
Dropping(c) ==
    IF kind = "triton" /\ prod[c].item \notin {End, Failure}
    THEN [prod[c] EXCEPT !.at = "stopping"]
    ELSE Returned

\* Mutant of GivesUp: only a full queue is retried, the stop is not looked at.
GivesUpNever(c) ==
    /\ prod[c].at = "put" /\ prod[c].stopped /\ Len(prod[c].items) < 2
    /\ ToProd(c, Dropping(c))
    /\ lock' = Unlocked(c)
    /\ UNCHANGED <<kind, lifespan, slots, responses, conn, qwen>>

\* put() returns False, and the thread returns.
GivesUp(c) ==
    /\ prod[c].at = "put" /\ prod[c].stopped
    /\ ToProd(c, Dropping(c))
    /\ lock' = Unlocked(c)
    /\ UNCHANGED <<kind, lifespan, slots, responses, conn, qwen>>

\* stop_stream cancels the call and joins the thread of its callbacks, which ends
\* only when it has put what it holds into the queue that nobody reads any more.
StreamStops(c) ==
    /\ prod[c].at = "stopping" /\ responses[c] < 3
    /\ ToProd(c, Returned)
    /\ responses' = [responses EXCEPT ![c] = 0]
    /\ UNCHANGED <<kind, lifespan, slots, conn, lock, qwen>>

-----------------------------------------------------------------------------
(* stream_pcm of Qwen3TTSSynthesizer *)

Alive(w) == w # None /\ worker[w].at \notin {"none", "done"}
Fresh == {w \in Workers : worker[w].at = "none"}

\* start(), under _load_lock
StartWorker ==
    IF Alive(current) THEN UNCHANGED <<worker, current>>
    ELSE /\ Fresh # {}
         /\ current' = Min(Fresh)
         /\ worker' = [worker EXCEPT ![Min(Fresh)].at = "get"]

\* The voice is unknown, or the worker runs and the request is made.
CallQwen(c) ==
    /\ prod[c].at = "call" /\ kind = "qwen"
    /\ \/ /\ StartWorker
          /\ ToProd(c, [prod[c] EXCEPT !.at = "enqueue"])
          /\ UNCHANGED lock
       \/ Raise(c) /\ UNCHANGED <<worker, current>>
    /\ UNCHANGED <<kind, lifespan, slots, responses, conn, queue, req>>

Enqueue(c) ==
    /\ prod[c].at = "enqueue" /\ Len(queue) < QueueSize
    /\ queue' = Append(queue, c)
    /\ req' = [req EXCEPT ![c] = "queued"]
    /\ ToProd(c, [prod[c] EXCEPT !.at = "wait"])
    /\ UNCHANGED <<kind, lifespan, slots, responses, conn, lock, worker, current>>

\* The timeout passes in the put, or before the request is done.  The worker
\* decodes a cancelled request all the same and nobody reads what it sets, so
\* that the mark itself is left out.
RequestTimeout(c) ==
    /\ \/ prod[c].at = "enqueue" /\ Len(queue) >= QueueSize
       \/ prod[c].at = "wait"
    /\ Raise(c)
    /\ UNCHANGED <<kind, lifespan, slots, responses, conn, qwen>>

\* An empty waveform is an error too.
RequestDone(c) ==
    LET chunk == <<conn[c].texts, 1>> IN
    /\ prod[c].at = "wait"
    /\ \/ /\ req[c] = "pcm"
          /\ ToProd(c, [Putting(c, chunk) EXCEPT !.number = 1])
          /\ UNCHANGED lock
       \/ req[c] \in {"pcm", "error"} /\ Raise(c)
    /\ UNCHANGED <<kind, lifespan, slots, responses, conn, qwen>>

-----------------------------------------------------------------------------
(* _worker_loop and _run_batch *)

ToWorker(w, x) == worker' = [worker EXCEPT ![w] = x]

WorkerGets(w) ==
    LET item == Head(queue) IN
    /\ worker[w].at = "get" /\ queue # <<>>
    /\ queue' = Tail(queue)
    /\ IF item = STOP
       THEN ToWorker(w, [worker[w] EXCEPT !.at = "done"]) /\ UNCHANGED req
       ELSE /\ ToWorker(w, [at |-> "collect", batch |-> <<item>>])
            /\ req' = [req EXCEPT ![item] = "taken"]
    /\ UNCHANGED <<kind, lifespan, slots, responses, conn, prod, lock, current>>

\* Mutant of WorkerCollects: the stop mark ends the batch and is lost.
WorkerCollectsLosesStop(w) ==
    LET item == Head(queue) IN
    /\ worker[w].at = "collect" /\ queue # <<>> /\ Len(worker[w].batch) < BatchSize
    /\ queue' = Tail(queue)
    /\ IF item = STOP
       THEN ToWorker(w, [worker[w] EXCEPT !.at = "run"]) /\ UNCHANGED req
       ELSE /\ ToWorker(w, [worker[w] EXCEPT !.batch = Append(@, item)])
            /\ req' = [req EXCEPT ![item] = "taken"]
    /\ UNCHANGED <<kind, lifespan, slots, responses, conn, prod, lock, current>>

\* A stop mark goes back into the queue.
WorkerCollects(w) ==
    LET item == Head(queue) IN
    /\ worker[w].at = "collect" /\ queue # <<>> /\ Len(worker[w].batch) < BatchSize
    /\ queue' = Tail(queue)
    /\ IF item = STOP
       THEN ToWorker(w, [worker[w] EXCEPT !.at = "put_stop"]) /\ UNCHANGED req
       ELSE /\ ToWorker(w, [worker[w] EXCEPT !.batch = Append(@, item)])
            /\ req' = [req EXCEPT ![item] = "taken"]
    /\ UNCHANGED <<kind, lifespan, slots, responses, conn, prod, lock, current>>

WorkerPutsStop(w) ==
    /\ worker[w].at = "put_stop" /\ Len(queue) < QueueSize
    /\ queue' = Append(queue, STOP)
    /\ ToWorker(w, [worker[w] EXCEPT !.at = "run"])
    /\ UNCHANGED <<kind, lifespan, slots, responses, conn, prod, lock, req, current>>

\* batch_wait_ms is over, or the batch is full.
WorkerRuns(w) ==
    /\ worker[w].at = "collect"
    /\ ToWorker(w, [worker[w] EXCEPT !.at = "run"])
    /\ UNCHANGED <<kind, lifespan, slots, responses, conn, prod, lock, queue, req, current>>

\* Mutant of BatchReturns: a failed batch does not set done.
BatchReturnsSilently(w) ==
    /\ worker[w].at = "run"
    /\ \E ok \in BOOLEAN :
         req' = IF ok THEN [c \in Clients |->
                   IF c \in ToSet(worker[w].batch) THEN "pcm" ELSE req[c]]
                ELSE req
    /\ ToWorker(w, [at |-> "get", batch |-> <<>>])
    /\ UNCHANGED <<kind, lifespan, slots, responses, conn, prod, lock, queue, current>>

\* The model returns or raises; every request of the batch is done.
BatchReturns(w) ==
    /\ worker[w].at = "run"
    /\ \E result \in {"pcm", "error"} :
         req' = [c \in Clients |->
                   IF c \in ToSet(worker[w].batch) THEN result ELSE req[c]]
    /\ ToWorker(w, [at |-> "get", batch |-> <<>>])
    /\ UNCHANGED <<kind, lifespan, slots, responses, conn, prod, lock, queue, current>>

-----------------------------------------------------------------------------
(* lifespan: start and warmup, close *)

LifespanStart ==
    /\ lifespan = "starting"
    /\ lifespan' = "serving"
    /\ IF kind = "qwen" THEN StartWorker ELSE UNCHANGED <<worker, current>>
    /\ UNCHANGED <<kind, slots, responses, conn, prod, lock, queue, req>>

\* The server stops when its handlers have returned; the threads and the
\* finalizers they left behind are not waited for.
CloseBegins ==
    /\ lifespan = "serving"
    /\ \A c \in Clients : conn[c].at \in {"away", "done"}
    /\ lifespan' = IF Alive(current) THEN "stopping" ELSE "stopped"
    /\ current' = IF Alive(current) THEN current ELSE None
    /\ UNCHANGED <<kind, slots, responses, conn, prod, lock, queue, req, worker>>

ClosePutsStop ==
    /\ lifespan = "stopping" /\ Len(queue) < QueueSize
    /\ queue' = Append(queue, STOP)
    /\ lifespan' = "joining"
    /\ UNCHANGED <<kind, slots, responses, conn, prod, lock, req, worker, current>>

\* The worker ends, or join's ten seconds.
CloseJoins ==
    /\ lifespan = "joining"
    /\ lifespan' = "stopped"
    /\ current' = None
    /\ UNCHANGED <<kind, slots, responses, conn, prod, lock, queue, req, worker>>

-----------------------------------------------------------------------------

\* The handler's steps that do not wait for the client to say something
Handles(c) ==
    \/ Failed(c) \/ GetItem(c) \/ GeneratorCloses(c) \/ Sent(c) \/ SendRaises(c)
    \/ FinalizeGenerator(c)

Receives(c) ==
    \/ Refuse(c) \/ Start(c)
    \/ ReceiveContinue(c) \/ ReceiveFinish(c) \/ ReceiveBad(c) \/ Disconnect(c)

Thread(c) ==
    \/ Answered(c) \/ Puts(c) \/ GivesUp(c)
    \/ TritonResponds(c) \/ StreamStops(c)
    \/ CallModel(c) \/ ModelYields(c) \/ ModelEnds(c) \/ ModelRaises(c)
    \/ CallQwen(c) \/ Enqueue(c) \/ RequestTimeout(c) \/ RequestDone(c)

WorkerStep(w) ==
    \/ WorkerGets(w) \/ WorkerCollects(w) \/ WorkerPutsStop(w)
    \/ WorkerRuns(w) \/ BatchReturns(w)

Closing == ClosePutsStop \/ CloseJoins

Next ==
    \/ LifespanStart \/ CloseBegins \/ Closing
    \/ \E c \in Sockets : Receives(c) \/ Handles(c)
    \/ \E c \in Posts : Post(c)
    \/ \E c \in Clients : Thread(c)
    \/ \E w \in Workers : WorkerStep(w)

\* Threads and the event loop run, sends end, and the model comes back.
Spec ==
    /\ Init /\ [][Next]_vars
    /\ \A c \in Sockets : WF_vars(Handles(c))
    /\ \A c \in Clients : WF_vars(Thread(c))
    /\ \A w \in Workers : WF_vars(WorkerStep(w))
    /\ WF_vars(Closing)

-----------------------------------------------------------------------------
(* Properties *)

\* Every way out of the handler gives its slot back, once: the free slots and
\* the handlers that have one make up the limit.
SlotsExact ==
    slots + Cardinality({c \in Sockets : conn[c].at \in Holding}) = MaxStreams

\* The client hears the chunks that the model made of its text, in order and
\* without a gap, and all of them before the handler reads the next message, the
\* task finishes or the POST request is answered.
AudioComplete ==
    \A c \in Clients :
        LET said == Len(conn[c].sent)
            alike == conn[c].sent = [i \in 1 .. said |-> <<conn[c].texts, i>>]
        IN
        /\ conn[c].at # "done" => alike
        /\ conn[c].at = "receiving" \/ conn[c].then = "finished" =>
             alike /\ said = prod[c].number

\* When the handler has returned its producer ends too, although nobody takes
\* the items out of its queue any more; but for one: the thread that closes
\* Triton's stream while the callback waits to put a response.
ProducersEnd ==
    \A c \in Clients :
        conn[c].at = "done" ~>
            \/ prod[c].at = "gone"
            \/ [](prod[c].at = "stopping" /\ responses[c] = 3)

\* A request that the worker took is answered, with its audio or an error.
BatchesAnswered ==
    \A c \in Clients : req[c] = "taken" ~> req[c] \in {"pcm", "error"}

\* When the service has been closed every worker thread ends, though it may have
\* found the one stop mark in the middle of a batch, and close() does not wait for
\* it longer than ten seconds.
WorkersStop ==
    lifespan = "stopped" ~> \A w \in Workers : worker[w].at \in {"none", "done"}
=============================================================================
