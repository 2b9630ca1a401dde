-------------------------- MODULE TtsServiceProofs --------------------------
(***************************************************************************)
(* The stream slots and the audio of the text-to-speech service, for every *)
(* number of clients, texts and chunks and for every synthesizer.          *)
(*                                                                         *)
(* Every step changes the handler and the producer of one client at most,  *)
(* so the invariant is stated of one client's two records, and one lemma   *)
(* (StepIInv) carries it over from a client to the state.                  *)
(***************************************************************************)
EXTENDS TtsService, FiniteSetTheorems, TLAPS

Chunks == Nat \X Nat
Items == {End, Failure} \cup Chunks

ConnType ==
    [at : {"away", "receiving", "streaming", "sending", "closing", "failing", "posting",
           "done"},
     then : {"receiving", "failing", "finished"},
     texts : Nat, sent : Seq(Chunks), orphan : BOOLEAN]

ProdType ==
    [at : {"gone", "call", "model", "put", "stopping", "enqueue", "wait"},
     item : Items, items : Seq(Items), stopped : BOOLEAN, number : Nat]

\* The chunks sent are the first ones of the handler's text.
Alike(x) == \A i \in 1 .. Len(x.sent) : x.sent[i] = <<x.texts, i>>

\* The producer p has a chunk in its hands.
Pending(p) == p.at = "put" /\ p.item \in Chunks

\* What is on its way from the model to the client: after the chunks sent come
\* those in the queue, then the one in the producer's hands, and no number is
\* left out.  A failure or the end is followed by nothing but the end.
Flowing(x, p) ==
    LET k == Len(x.sent) IN
    /\ ~p.stopped
    /\ x.at = "posting" => p.items = <<>>
    /\ \A i \in 1 .. Len(p.items) :
         /\ p.items[i] \in Chunks => p.items[i] = <<x.texts, k + i>>
         /\ p.items[i] = End => p.at = "gone" /\ i = Len(p.items)
         /\ p.items[i] = Failure => p.at = "gone" \/ (p.at = "put" /\ p.item = End)
    /\ (\A i \in 1 .. Len(p.items) : p.items[i] \in Chunks) =>
         /\ Pending(p) => /\ p.item = <<x.texts, p.number>>
                          /\ p.number = k + Len(p.items) + 1
         /\ ~Pending(p) => p.number = k + Len(p.items)
    /\ \A i \in 1 .. Len(p.items) :
         /\ p.items[i] = End
         /\ \A j \in 1 .. Len(p.items) : p.items[j] # Failure
         => p.number = k + i - 1

Flow(x, p) ==
    /\ p.at \in {"call", "enqueue", "wait"} => p.number = 0
    /\ p.at = "stopping" => p.stopped
    /\ x.at = "away" => p.at = "gone" /\ p.number = 0 /\ x.sent = <<>>
    /\ x.then = "finished" => x.at = "done"
    /\ x.orphan => x.at \in {"failing", "done"}
    /\ x.at # "done" \/ x.then = "finished" => Alike(x)
    /\ \/ x.at = "receiving" \/ x.then = "finished"
       \/ x.at = "closing" /\ x.then = "receiving"
       => p.at = "gone" /\ p.number = Len(x.sent)
    /\ x.at \in {"streaming", "sending", "posting"} => Flowing(x, p)

Occupied == {c \in Sockets : conn[c].at \in Holding}

IInv ==
    /\ conn \in [Clients -> ConnType]
    /\ prod \in [Clients -> ProdType]
    /\ slots \in Int
    /\ SlotsExact
    /\ \A c \in Clients : Flow(conn[c], prod[c])

-----------------------------------------------------------------------------
(* Items and records *)

\* The end and the failure are no chunks.
LEMMA ItemsDiffer ==
    /\ End # Failure /\ End \notin Chunks /\ Failure \notin Chunks
    /\ End \in Items /\ Failure \in Items /\ Chunks \subseteq Items
BY DEF End, Failure, Chunks, Items

\* One more chunk sent is one fewer in the queue.
LEMMA Shift == \A a, b \in Int : a + (b + 1) = a + 1 + b
OBVIOUS

\* At the start every slot is free and nobody has sent anything.
LEMMA InitIInv == Init => IInv
<1> SUFFICES ASSUME Init PROVE IInv
  OBVIOUS
<1>1. NewConnection \in ConnType
  BY DEF NewConnection, ConnType
<1>2. NewProducer \in ProdType
  BY ItemsDiffer DEF NewProducer, ProdType
<1>3. conn \in [Clients -> ConnType] /\ prod \in [Clients -> ProdType]
  BY <1>1, <1>2 DEF Init
<1>4. slots \in Int /\ SlotsExact
  <2>1. {c \in Sockets : conn[c].at \in Holding} = {}
    BY DEF Init, NewConnection, Holding, Clients
  <2>2. MaxStreams \in Nat
    BY TtsAssumption DEF TtsAssumption
  <2>3. Cardinality({c \in Sockets : conn[c].at \in Holding}) = 0
    BY <2>1, FS_EmptySet
  <2> QED BY <2>2, <2>3 DEF Init, SlotsExact
<1>5. Flow(NewConnection, NewProducer)
  BY DEF Flow, NewConnection, NewProducer, Alike
<1> QED BY <1>3, <1>4, <1>5 DEF IInv, Init

\* One client's handler and producer become x and p.
LEMMA StepIInv ==
    ASSUME IInv, NEW c \in Clients, NEW x \in ConnType, NEW p \in ProdType, Flow(x, p),
           conn' = [conn EXCEPT ![c] = x], prod' = [prod EXCEPT ![c] = p],
           IF c \in Sockets
             THEN slots' = slots + (IF conn[c].at \in Holding THEN 1 ELSE 0)
                                 - (IF x.at \in Holding THEN 1 ELSE 0)
             ELSE slots' = slots
    PROVE  IInv'
<1>1. conn' \in [Clients -> ConnType] /\ prod' \in [Clients -> ProdType] /\ slots' \in Int
  BY DEF IInv
<1>2. \A d \in Clients : Flow(conn'[d], prod'[d])
  BY DEF IInv
<1>3. SlotsExact'
  <2>1. IsFiniteSet(Occupied) /\ Cardinality(Occupied) \in Nat
    BY TtsAssumption, FS_Subset, FS_CardinalityType DEF TtsAssumption, Occupied
  <2>2. slots + Cardinality(Occupied) = MaxStreams /\ slots \in Int
    BY DEF IInv, SlotsExact, Occupied
  <2>3. \A d \in Clients : conn'[d] = IF d = c THEN x ELSE conn[d]
    BY DEF IInv
  <2>4. Sockets \subseteq Clients
    BY DEF Clients
  <2>5. CASE c \in Sockets /\ x.at \in Holding /\ conn[c].at \notin Holding
    <3>1. Occupied' = Occupied \cup {c} /\ c \notin Occupied
      BY <2>3, <2>4, <2>5 DEF Occupied
    <3>2. Cardinality(Occupied') = Cardinality(Occupied) + 1
      BY <2>1, <3>1, FS_AddElement
    <3> QED BY <2>1, <2>2, <2>5, <3>2 DEF SlotsExact, Occupied
  <2>6. CASE c \in Sockets /\ x.at \notin Holding /\ conn[c].at \in Holding
    <3>1. Occupied' = Occupied \ {c} /\ c \in Occupied
      BY <2>3, <2>4, <2>6 DEF Occupied
    <3>2. Cardinality(Occupied') = Cardinality(Occupied) - 1
      BY <2>1, <3>1, FS_RemoveElement
    <3> QED BY <2>1, <2>2, <2>6, <3>2 DEF SlotsExact, Occupied
  <2>7. CASE c \notin Sockets \/ (x.at \in Holding <=> conn[c].at \in Holding)
    <3>1. Occupied' = Occupied
      BY <2>3, <2>4, <2>7 DEF Occupied
    <3>2. slots' = slots
      BY <2>2, <2>7
    <3> QED BY <2>1, <2>2, <3>1, <3>2 DEF SlotsExact, Occupied
  <2> QED BY <2>5, <2>6, <2>7
<1> QED BY <1>1, <1>2, <1>3 DEF IInv

\* What is known of the client whose turn it is.
LEMMA ClientFacts ==
    ASSUME IInv, NEW c \in Clients
    PROVE  /\ conn[c] \in ConnType /\ prod[c] \in ProdType /\ Flow(conn[c], prod[c])
           /\ conn = [conn EXCEPT ![c] = conn[c]] /\ prod = [prod EXCEPT ![c] = prod[c]]
           /\ slots \in Int
BY DEF IInv

-----------------------------------------------------------------------------
(* The handler *)

\* The handler goes on with the chunks it has sent; its producer stays.
LEMMA HandlerFlow ==
    ASSUME NEW x \in ConnType, NEW p \in ProdType, Flow(x, p), NEW y \in ConnType,
           y.sent = x.sent, y.texts = x.texts,
           y.then = "finished" => y.at = "done",
           y.orphan => y.at \in {"failing", "done"},
           \/ y.at = "done" /\ y.then # "finished"
           \/ y.at = "done" /\ y.then = "finished" /\ x.at = "receiving"
           \/ y.at = "failing" /\ x.at # "done"
           \/ y.at = "receiving" /\ x.at = "away"
           \/ y.at = "receiving" /\ x.at = "closing" /\ x.then = "receiving"
           \/ y.at = "streaming" /\ x.at = "sending"
    PROVE  Flow(y, p)
<1>1. x.at # "done" \/ x.then = "finished" => Alike(y)
  BY DEF Flow, Alike
<1>2. CASE y.at = "streaming"
  BY <1>1, <1>2 DEF Flow, Flowing
<1>3. CASE y.at = "receiving"
  BY <1>1, <1>3 DEF Flow, ConnType
<1>4. CASE y.at = "failing"
  BY <1>1, <1>4 DEF Flow
<1>5. CASE y.at = "done"
  BY <1>1, <1>5 DEF Flow
<1> QED BY <1>2, <1>3, <1>4, <1>5

\* The finally of a handler gives the slot back.
LEMMA LeaveIInv ==
    ASSUME IInv, NEW c \in Sockets, conn[c].at \in Holding, NEW y \in ConnType,
           Leave(c, y), y.sent = conn[c].sent, y.texts = conn[c].texts,
           y.then = "finished" => conn[c].at = "receiving"
    PROVE  IInv'
<1> DEFINE x == [y EXCEPT !.at = "done"]
<1>1. /\ c \in Clients /\ conn[c] \in ConnType /\ prod[c] \in ProdType
      /\ Flow(conn[c], prod[c]) /\ prod = [prod EXCEPT ![c] = prod[c]] /\ slots \in Int
  BY ClientFacts DEF Clients
<1>2. conn' = [conn EXCEPT ![c] = x] /\ prod' = prod /\ slots' = slots + 1
  BY DEF Leave, ToConn
<1>3. /\ x \in ConnType /\ x.at = "done" /\ x.sent = conn[c].sent /\ x.texts = conn[c].texts
      /\ x.then = y.then
  BY DEF ConnType
<1> HIDE DEF x
<1>4. Flow(x, prod[c])
  BY <1>1, <1>3, HandlerFlow
<1>5. x.at \notin Holding
  BY <1>3 DEF Holding
<1>6. slots' = slots + (IF conn[c].at \in Holding THEN 1 ELSE 0)
                     - (IF x.at \in Holding THEN 1 ELSE 0)
  BY <1>1, <1>2, <1>5
<1> QED BY <1>1, <1>2, <1>3, <1>4, <1>6, StepIInv

\* A handler goes to its except clause and keeps the slot.
LEMMA FailIInv ==
    ASSUME IInv, NEW c \in Sockets, conn[c].at \in Holding, NEW y \in ConnType,
           Fail(c, y), y.sent = conn[c].sent, y.texts = conn[c].texts,
           y.then = conn[c].then
    PROVE  IInv'
<1> DEFINE x == [y EXCEPT !.at = "failing"]
<1>1. /\ c \in Clients /\ conn[c] \in ConnType /\ prod[c] \in ProdType
      /\ Flow(conn[c], prod[c]) /\ prod = [prod EXCEPT ![c] = prod[c]] /\ slots \in Int
  BY ClientFacts DEF Clients
<1>2. conn' = [conn EXCEPT ![c] = x] /\ prod' = prod /\ slots' = slots
  BY DEF Fail, ToConn
<1>3. /\ x \in ConnType /\ x.at = "failing" /\ x.sent = conn[c].sent
      /\ x.texts = conn[c].texts /\ x.then = conn[c].then
  BY DEF ConnType
<1> HIDE DEF x
<1>4. conn[c].at # "done" /\ conn[c].then # "finished"
  BY <1>1 DEF Holding, Flow
<1>5. Flow(x, prod[c])
  BY <1>1, <1>3, <1>4, HandlerFlow
<1>6. x.at \in Holding
  BY <1>3 DEF Holding
<1>7. slots' = slots + (IF conn[c].at \in Holding THEN 1 ELSE 0)
                     - (IF x.at \in Holding THEN 1 ELSE 0)
  BY <1>1, <1>2, <1>6
<1> QED BY <1>1, <1>2, <1>3, <1>5, <1>7, StepIInv

\* The steps of a WebSocket handler outside the generator's protocol.
LEMMA HandlerIInv ==
    ASSUME IInv, NEW c \in Sockets,
           \/ Refuse(c) \/ Start(c) \/ Failed(c) \/ ReceiveFinish(c) \/ ReceiveBad(c)
           \/ Disconnect(c) \/ GeneratorCloses(c) \/ Sent(c) \/ SendRaises(c)
    PROVE  IInv'
<1>1. /\ c \in Clients /\ conn[c] \in ConnType /\ prod[c] \in ProdType
      /\ Flow(conn[c], prod[c]) /\ prod = [prod EXCEPT ![c] = prod[c]] /\ slots \in Int
  BY ClientFacts DEF Clients
<1>2. CASE /\ prod' = prod
           /\ \E a \in {"done", "receiving", "streaming", "failing"} :
                /\ conn' = [conn EXCEPT ![c] = [conn[c] EXCEPT !.at = a]]
                /\ slots' = slots + (IF conn[c].at \in Holding THEN 1 ELSE 0)
                                  - (IF a \in Holding THEN 1 ELSE 0)
                /\ \/ a = "done" /\ conn[c].at = "away"
                   \/ a = "receiving" /\ conn[c].at = "away"
                   \/ a = "receiving" /\ conn[c].at = "closing" /\ conn[c].then = "receiving"
                   \/ a = "failing" /\ conn[c].at = "closing"
                   \/ a = "streaming" /\ conn[c].at = "sending"
  <2>1. PICK a \in {"done", "receiving", "streaming", "failing"} :
                /\ conn' = [conn EXCEPT ![c] = [conn[c] EXCEPT !.at = a]]
                /\ slots' = slots + (IF conn[c].at \in Holding THEN 1 ELSE 0)
                                  - (IF a \in Holding THEN 1 ELSE 0)
                /\ \/ a = "done" /\ conn[c].at = "away"
                   \/ a = "receiving" /\ conn[c].at = "away"
                   \/ a = "receiving" /\ conn[c].at = "closing" /\ conn[c].then = "receiving"
                   \/ a = "failing" /\ conn[c].at = "closing"
                   \/ a = "streaming" /\ conn[c].at = "sending"
    BY <1>2
  <2> DEFINE x == [conn[c] EXCEPT !.at = a]
  <2>2. /\ x \in ConnType /\ x.at = a /\ x.sent = conn[c].sent /\ x.texts = conn[c].texts
        /\ x.then = conn[c].then /\ x.orphan = conn[c].orphan
    BY <1>1 DEF ConnType
  <2>3. conn' = [conn EXCEPT ![c] = x]
    BY <2>1
  <2> HIDE DEF x
  <2>4. conn[c].then # "finished" /\ ~conn[c].orphan
    BY <1>1, <2>1 DEF Flow
  <2>5. Flow(x, prod[c])
    BY <1>1, <2>1, <2>2, <2>4, HandlerFlow
  <2> QED BY <1>1, <1>2, <2>1, <2>2, <2>3, <2>5, StepIInv
<1>3. CASE Refuse(c) \/ Start(c) \/ GeneratorCloses(c) \/ Sent(c)
  <2> USE DEF Comes, ToConn, Holding
  <2>1. CASE Refuse(c)
    <3>1. /\ conn[c].at = "away" /\ prod' = prod /\ slots' = slots
          /\ conn' = [conn EXCEPT ![c] = [conn[c] EXCEPT !.at = "done"]]
      BY <2>1 DEF Refuse
    <3> QED BY <1>1, <1>2, <3>1
  <2>2. CASE Start(c)
    <3>1. /\ conn[c].at = "away" /\ prod' = prod
          /\ \/ /\ slots' = slots /\ conn' = [conn EXCEPT ![c] = [conn[c] EXCEPT !.at = "done"]]
             \/ /\ slots' = slots - 1
                /\ conn' = [conn EXCEPT ![c] = [conn[c] EXCEPT !.at = "receiving"]]
      BY <2>2 DEF Start
    <3> QED BY <1>1, <1>2, <3>1
  <2>3. CASE GeneratorCloses(c)
    <3>1. /\ conn[c].at = "closing" /\ prod' = prod /\ slots' = slots
          /\ conn' = [conn EXCEPT ![c] = [conn[c] EXCEPT !.at = conn[c].then]]
      BY <2>3 DEF GeneratorCloses
    <3>2. conn[c].then \in {"receiving", "failing"}
      BY <1>1, <3>1 DEF Flow, ConnType
    <3>3. CASE conn[c].then = "receiving"
      BY <1>1, <1>2, <3>1, <3>3
    <3>4. CASE conn[c].then = "failing"
      BY <1>1, <1>2, <3>1, <3>4
    <3> QED BY <3>2, <3>3, <3>4
  <2>4. CASE Sent(c)
    <3>1. /\ conn[c].at = "sending" /\ prod' = prod /\ slots' = slots
          /\ conn' = [conn EXCEPT ![c] = [conn[c] EXCEPT !.at = "streaming"]]
      BY <2>4 DEF Sent
    <3> QED BY <1>1, <1>2, <3>1
  <2> QED BY <1>3, <2>1, <2>2, <2>3, <2>4
<1>4. CASE Failed(c) \/ ReceiveFinish(c) \/ ReceiveBad(c) \/ Disconnect(c)
  <2>1. conn[c].at \in {"failing", "receiving"} /\ conn[c].at \in Holding
    BY <1>4 DEF Failed, ReceiveFinish, ReceiveBad, Disconnect, Holding
  <2>2. conn[c].then # "finished"
    BY <1>1, <2>1 DEF Flow
  <2>3. CASE Leave(c, conn[c])
    BY <1>1, <2>1, <2>2, <2>3, LeaveIInv
  <2>4. CASE Fail(c, conn[c])
    BY <1>1, <2>1, <2>4, FailIInv
  <2>5. CASE Leave(c, [conn[c] EXCEPT !.then = "finished"]) /\ conn[c].at = "receiving"
    <3> DEFINE y == [conn[c] EXCEPT !.then = "finished"]
    <3>1. y \in ConnType /\ y.sent = conn[c].sent /\ y.texts = conn[c].texts
      BY <1>1 DEF ConnType
    <3>2. Leave(c, y)
      BY <2>5
    <3> HIDE DEF y
    <3> QED BY <2>1, <2>5, <3>1, <3>2, LeaveIInv
  <2> QED BY <1>4, <2>3, <2>4, <2>5 DEF Failed, ReceiveFinish, ReceiveBad, Disconnect
<1>5. CASE SendRaises(c)
  <2> DEFINE y == [conn[c] EXCEPT !.orphan = TRUE]
  <2>1. conn[c].at = "sending" /\ conn[c].at \in Holding /\ (Leave(c, y) \/ Fail(c, y))
    BY <1>5 DEF SendRaises, Holding
  <2>2. /\ y \in ConnType /\ y.sent = conn[c].sent /\ y.texts = conn[c].texts
        /\ y.then = conn[c].then
    BY <1>1 DEF ConnType
  <2>3. conn[c].then # "finished"
    BY <1>1, <2>1 DEF Flow
  <2> HIDE DEF y
  <2>4. CASE Leave(c, y)
    BY <2>1, <2>2, <2>3, <2>4, LeaveIInv
  <2>5. CASE Fail(c, y)
    BY <2>1, <2>2, <2>5, FailIInv
  <2> QED BY <2>1, <2>4, <2>5
<1> QED BY <1>3, <1>4, <1>5

\* A text begins: the handler reads it, and a new producer with a new queue.
LEMMA BeginIInv ==
    ASSUME IInv, \/ \E c \in Sockets : ReceiveContinue(c)
                 \/ \E c \in Posts : Post(c)
    PROVE  IInv'
<1> DEFINE p == [NewProducer EXCEPT !.at = "call"]
<1>1. /\ p \in ProdType /\ p.at = "call" /\ p.items = <<>> /\ ~p.stopped /\ p.number = 0
  <2>1. NewProducer \in ProdType
    <3>1. <<>> \in Seq(Items) /\ End \in Items
      BY ItemsDiffer
    <3> QED BY <3>1 DEF NewProducer, ProdType
  <2>2. NewProducer.items = <<>> /\ ~NewProducer.stopped /\ NewProducer.number = 0
    BY DEF NewProducer
  <2>3. /\ p \in ProdType /\ p.at = "call" /\ p.items = NewProducer.items
        /\ p.stopped = NewProducer.stopped /\ p.number = NewProducer.number
    BY <2>1 DEF ProdType
  <2> QED BY <2>2, <2>3
<1> HIDE DEF p
<1>2. ASSUME NEW c \in Clients, NEW x \in ConnType, x.at \in {"streaming", "posting"},
             x.sent = <<>>, ~x.orphan, x.then # "finished",
             conn' = [conn EXCEPT ![c] = x], prod' = [prod EXCEPT ![c] = p], slots' = slots,
             c \in Sockets => (x.at \in Holding <=> conn[c].at \in Holding)
      PROVE  IInv'
  <2>1. Flowing(x, p)
    BY <1>1, <1>2 DEF Flowing, Pending
  <2>2. Flow(x, p)
    BY <1>1, <1>2, <2>1 DEF Flow, Alike
  <2>3. slots \in Int
    BY DEF IInv
  <2>4. c \in Sockets => slots' = slots + (IF conn[c].at \in Holding THEN 1 ELSE 0)
                                        - (IF x.at \in Holding THEN 1 ELSE 0)
    BY <1>2, <2>3
  <2> QED BY <1>1, <1>2, <2>2, <2>4, StepIInv
<1>3. ASSUME NEW c \in Sockets, ReceiveContinue(c) PROVE IInv'
  <2> DEFINE x == [conn[c] EXCEPT !.at = "streaming", !.texts = @ + 1, !.sent = <<>>]
  <2>1. /\ c \in Clients /\ conn[c] \in ConnType /\ Flow(conn[c], prod[c])
    BY ClientFacts DEF Clients
  <2>2. /\ conn[c].at = "receiving" /\ conn' = [conn EXCEPT ![c] = x]
        /\ prod' = [prod EXCEPT ![c] = p] /\ slots' = slots
    BY <1>3 DEF ReceiveContinue, ToConn, Produce, ToProd, p
  <2>3. conn[c].then # "finished" /\ ~conn[c].orphan
    BY <2>1, <2>2 DEF Flow
  <2>4. /\ x \in ConnType /\ x.at = "streaming" /\ x.sent = <<>>
        /\ x.orphan = conn[c].orphan /\ x.then = conn[c].then
    <3>1. conn[c].texts + 1 \in Nat /\ <<>> \in Seq(Chunks)
      BY <2>1 DEF ConnType
    <3>2. x.at = "streaming" /\ x.sent = <<>> /\ x.orphan = conn[c].orphan
          /\ x.then = conn[c].then
      BY <2>1 DEF ConnType
    <3> QED BY <2>1, <3>1, <3>2 DEF ConnType
  <2>5. x.at \in Holding /\ conn[c].at \in Holding
    BY <2>2, <2>4 DEF Holding
  <2> HIDE DEF x
  <2> QED BY <1>2, <2>1, <2>2, <2>3, <2>4, <2>5
<1>4. ASSUME NEW c \in Posts, Post(c) PROVE IInv'
  <2> DEFINE x == [conn[c] EXCEPT !.at = "posting", !.texts = 1]
  <2>1. /\ c \in Clients /\ conn[c] \in ConnType /\ Flow(conn[c], prod[c])
    BY ClientFacts DEF Clients
  <2>2. /\ conn[c].at = "away" /\ conn' = [conn EXCEPT ![c] = x]
        /\ prod' = [prod EXCEPT ![c] = p] /\ slots' = slots
    BY <1>4 DEF Post, Comes, ToConn, Produce, ToProd, p
  <2>3. conn[c].then # "finished" /\ ~conn[c].orphan /\ conn[c].sent = <<>>
    BY <2>1, <2>2 DEF Flow
  <2>4. /\ x \in ConnType /\ x.at = "posting" /\ x.sent = conn[c].sent
        /\ x.orphan = conn[c].orphan /\ x.then = conn[c].then
    BY <2>1 DEF ConnType
  <2>5. x.at \notin Holding /\ conn[c].at \notin Holding
    BY <2>2, <2>4 DEF Holding
  <2> HIDE DEF x
  <2> QED BY <1>2, <2>1, <2>2, <2>3, <2>4, <2>5
<1> QED BY <1>3, <1>4

\* The handler takes one item out of the queue.
LEMMA GetItemIInv ==
    ASSUME IInv, NEW c \in Sockets, GetItem(c)
    PROVE  IInv'
<1> DEFINE X == conn[c]
           P == prod[c]
           k == Len(X.sent)
           item == Head(P.items)
           over == item \in {End, Failure}
           fails == item = Failure \/ X.sent = <<>>
           p == [P EXCEPT !.items = Tail(@), !.stopped = over]
           x == [X EXCEPT !.at = IF over THEN "closing" ELSE "sending",
                          !.then = IF fails THEN "failing" ELSE "receiving",
                          !.sent = IF over THEN @ ELSE Append(@, item)]
<1>1. /\ c \in Clients /\ X \in ConnType /\ P \in ProdType /\ Flow(X, P) /\ slots \in Int
  BY ClientFacts DEF Clients
<1>2. /\ X.at = "streaming" /\ P.items # <<>> /\ slots' = slots
      /\ conn' = [conn EXCEPT ![c] = x] /\ prod' = [prod EXCEPT ![c] = p]
  BY DEF GetItem, ToConn, ToProd
<1>3. /\ X.sent \in Seq(Chunks) /\ X.texts \in Nat /\ P.items \in Seq(Items)
      /\ P.number \in Nat /\ k \in Nat
  BY <1>1 DEF ConnType, ProdType
<1>4. Flowing(X, P) /\ Alike(X) /\ ~X.orphan
  BY <1>1, <1>2 DEF Flow
<1>5. /\ Len(P.items) \in Nat \ {0} /\ item = P.items[1] /\ item \in Items
      /\ Tail(P.items) \in Seq(Items) /\ Len(Tail(P.items)) = Len(P.items) - 1
      /\ \A i \in 1 .. Len(Tail(P.items)) : /\ i + 1 \in 1 .. Len(P.items)
                                             /\ Tail(P.items)[i] = P.items[i + 1]
  BY <1>2, <1>3
<1>6. /\ item \in Chunks => item = <<X.texts, k + 1>>
      /\ item = End => P.at = "gone" /\ Len(P.items) = 1
      /\ item = Failure => P.at = "gone" \/ (P.at = "put" /\ P.item = End)
  <2>1. 1 \in 1 .. Len(P.items)
    BY <1>5
  <2> QED BY <1>4, <1>5, <2>1 DEF Flowing
<1>7. /\ p \in ProdType /\ p.at = P.at /\ p.item = P.item /\ p.number = P.number
      /\ p.items = Tail(P.items) /\ p.stopped = over
  <2> DEFINE o == over
  <2>1. o \in BOOLEAN
    BY SMT
  <2>2. p = [P EXCEPT !.items = Tail(@), !.stopped = o]
    OBVIOUS
  <2> HIDE DEF o
  <2>3. p \in ProdType /\ p.stopped = o
    BY <1>1, <1>5, <2>1, <2>2 DEF ProdType
  <2>4. /\ p.at = P.at /\ p.item = P.item /\ p.number = P.number /\ p.items = Tail(P.items)
    BY <1>1, <2>2 DEF ProdType
  <2> QED BY <2>3, <2>4 DEF o
<1>8. CASE over
  <2>1. /\ x \in ConnType /\ x.at = "closing" /\ x.sent = X.sent /\ x.texts = X.texts
        /\ x.then = IF fails THEN "failing" ELSE "receiving"
        /\ x.orphan = X.orphan
    BY <1>1, <1>8 DEF ConnType
  <2>2. Alike(x)
    BY <1>4, <2>1 DEF Alike
  <2>3. x.then = "receiving" => P.at = "gone" /\ P.number = Len(x.sent)
    <3> SUFFICES ASSUME x.then = "receiving"
                 PROVE  P.at = "gone" /\ P.number = k
      BY <2>1
    <3>1. item = End
      BY <1>8, <2>1
    <3>2. P.at = "gone" /\ Len(P.items) = 1
      BY <1>6, <3>1
    <3>3. 1 \in 1 .. Len(P.items) /\ P.items[1] = End
      BY <1>5, <3>1, <3>2
    <3>4. \A j \in 1 .. Len(P.items) : P.items[j] # Failure
      BY <3>2, <3>3, ItemsDiffer
    <3>5. P.number = k + 1 - 1
      BY <1>4, <3>3, <3>4 DEF Flowing
    <3> QED BY <1>3, <3>2, <3>5
  <2>4. x.then # "finished" /\ ~x.orphan
    BY <1>4, <2>1
  <2>5. /\ p.at \in {"call", "enqueue", "wait"} => p.number = 0
        /\ p.at # "stopping"
    BY <1>1, <1>4, <1>7 DEF Flow, Flowing
  <2> HIDE DEF x, p, over, fails, item, k
  <2>6. Flow(x, p)
    BY <1>7, <2>1, <2>2, <2>3, <2>4, <2>5 DEF Flow
  <2>7. slots' = slots + (IF conn[c].at \in Holding THEN 1 ELSE 0)
                       - (IF x.at \in Holding THEN 1 ELSE 0)
    BY <1>1, <1>2, <2>1 DEF Holding
  <2> QED BY <1>1, <1>2, <1>7, <2>1, <2>6, <2>7, StepIInv
<1>9. CASE ~over
  <2>1. item \in Chunks /\ item = <<X.texts, k + 1>>
    BY <1>5, <1>6, <1>9 DEF Items
  <2>2. /\ Append(X.sent, item) \in Seq(Chunks) /\ Len(Append(X.sent, item)) = k + 1
        /\ \A i \in 1 .. k : Append(X.sent, item)[i] = X.sent[i]
        /\ Append(X.sent, item)[k + 1] = item
    BY <1>3, <2>1
  <2>3. /\ x \in ConnType /\ x.at = "sending" /\ x.sent = Append(X.sent, item)
        /\ x.texts = X.texts /\ x.then \in {"failing", "receiving"} /\ x.orphan = X.orphan
    BY <1>1, <1>9, <2>2 DEF ConnType
  <2>4. Alike(x)
    <3> SUFFICES ASSUME NEW i \in 1 .. k + 1 PROVE x.sent[i] = <<X.texts, i>>
      BY <2>2, <2>3 DEF Alike
    <3>1. CASE i = k + 1
      BY <2>1, <2>2, <2>3, <3>1
    <3>2. CASE i \in 1 .. k
      BY <1>4, <2>2, <2>3, <3>2 DEF Alike
    <3> QED BY <1>3, <3>1, <3>2
  <2>5. ~p.stopped
    BY <1>7, <1>9
  <2> HIDE DEF x, p, over, fails, item
  <2>6. Flowing(x, p)
    <3>1. Len(x.sent) = k + 1 /\ Len(p.items) = Len(P.items) - 1
      BY <1>5, <1>7, <2>2, <2>3
    <3>2. \A i \in 1 .. Len(p.items) : i + 1 \in 1 .. Len(P.items) /\ p.items[i] = P.items[i + 1]
      BY <1>5, <1>7
    <3>3. \A i \in 1 .. Len(p.items) :
            /\ p.items[i] \in Chunks => p.items[i] = <<x.texts, k + 1 + i>>
            /\ p.items[i] = End => p.at = "gone" /\ i = Len(p.items)
            /\ p.items[i] = Failure => p.at = "gone" \/ (p.at = "put" /\ p.item = End)
      <4> SUFFICES ASSUME NEW i \in 1 .. Len(p.items)
                   PROVE  /\ p.items[i] \in Chunks => p.items[i] = <<x.texts, k + 1 + i>>
                          /\ p.items[i] = End => p.at = "gone" /\ i = Len(p.items)
                          /\ p.items[i] = Failure =>
                               p.at = "gone" \/ (p.at = "put" /\ p.item = End)
        OBVIOUS
      <4>1. i + 1 \in 1 .. Len(P.items) /\ p.items[i] = P.items[i + 1]
        BY <3>2
      <4>2. /\ P.items[i + 1] \in Chunks => P.items[i + 1] = <<X.texts, k + (i + 1)>>
            /\ P.items[i + 1] = End => P.at = "gone" /\ i + 1 = Len(P.items)
            /\ P.items[i + 1] = Failure => P.at = "gone" \/ (P.at = "put" /\ P.item = End)
        BY <1>4, <4>1 DEF Flowing
      <4>3. i \in Nat /\ (i + 1 = Len(P.items) => i = Len(p.items))
        BY <1>5, <3>1
      <4>4. k + (i + 1) = k + 1 + i
        <5>1. k \in Int /\ i \in Int
          BY <1>3, <4>3
        <5> HIDE DEF k
        <5> QED BY <5>1, Shift, Zenon
      <4> HIDE DEF k
      <4> QED BY <1>7, <2>3, <4>1, <4>2, <4>3, <4>4
    <3>4. (\A i \in 1 .. Len(p.items) : p.items[i] \in Chunks) =>
            \A i \in 1 .. Len(P.items) : P.items[i] \in Chunks
      <4> SUFFICES ASSUME \A i \in 1 .. Len(p.items) : p.items[i] \in Chunks,
                          NEW j \in 1 .. Len(P.items)
                   PROVE  P.items[j] \in Chunks
        OBVIOUS
      <4>1. CASE j = 1
        BY <1>5, <2>1, <4>1
      <4>2. CASE j # 1
        <5>1. j - 1 \in 1 .. Len(p.items) /\ (j - 1) + 1 = j
          BY <1>5, <3>1, <4>2
        <5> QED BY <3>2, <5>1
      <4> QED BY <4>1, <4>2
    <3>5. (\A i \in 1 .. Len(p.items) : p.items[i] \in Chunks) =>
         /\ Pending(p) => /\ p.item = <<x.texts, p.number>>
                          /\ p.number = k + 1 + Len(p.items) + 1
         /\ ~Pending(p) => p.number = k + 1 + Len(p.items)
      <4>1. Pending(p) <=> Pending(P)
        BY <1>7 DEF Pending
      <4>2. (\A i \in 1 .. Len(P.items) : P.items[i] \in Chunks) =>
              /\ Pending(P) => /\ P.item = <<X.texts, P.number>>
                               /\ P.number = k + Len(P.items) + 1
              /\ ~Pending(P) => P.number = k + Len(P.items)
        BY <1>4 DEF Flowing
      <4> HIDE DEF k
      <4>3. k + Len(P.items) = k + 1 + Len(p.items)
        <5>1. Len(p.items) \in Int /\ Len(P.items) = Len(p.items) + 1
          BY <1>5, <3>1
        <5>2. k \in Int
          BY <1>3
        <5> QED BY <5>1, <5>2, Shift
      <4> QED BY <1>7, <2>3, <3>4, <4>1, <4>2, <4>3
    <3>6. \A i \in 1 .. Len(p.items) :
            /\ p.items[i] = End
            /\ \A j \in 1 .. Len(p.items) : p.items[j] # Failure
            => p.number = k + 1 + i - 1
      <4> SUFFICES ASSUME NEW i \in 1 .. Len(p.items), p.items[i] = End,
                          \A j \in 1 .. Len(p.items) : p.items[j] # Failure
                   PROVE  p.number = k + 1 + i - 1
        OBVIOUS
      <4>1. i + 1 \in 1 .. Len(P.items) /\ P.items[i + 1] = End
        BY <3>2
      <4>2. \A j \in 1 .. Len(P.items) : P.items[j] # Failure
        <5> SUFFICES ASSUME NEW j \in 1 .. Len(P.items) PROVE P.items[j] # Failure
          OBVIOUS
        <5>1. CASE j = 1
          BY <1>5, <2>1, <5>1, ItemsDiffer
        <5>2. CASE j # 1
          <6>1. j - 1 \in 1 .. Len(p.items) /\ (j - 1) + 1 = j
            BY <1>5, <3>1, <5>2
          <6> QED BY <3>2, <6>1
        <5> QED BY <5>1, <5>2
      <4>3. P.number = k + (i + 1) - 1
        BY <1>4, <4>1, <4>2 DEF Flowing
      <4> QED BY <1>3, <1>7, <4>3
    <3>7. x.at # "posting"
      BY <2>3
    <3> QED BY <2>5, <3>1, <3>3, <3>5, <3>6, <3>7 DEF Flowing
  <2>7. Flow(x, p)
    <3>1. /\ p.at \in {"call", "enqueue", "wait"} => p.number = 0
          /\ p.at # "stopping"
      BY <1>1, <1>4, <1>7 DEF Flow, Flowing
    <3>2. ~x.orphan
      BY <1>4, <2>3
    <3> QED BY <2>3, <2>4, <2>6, <3>1, <3>2 DEF Flow
  <2>8. slots' = slots + (IF conn[c].at \in Holding THEN 1 ELSE 0)
                       - (IF x.at \in Holding THEN 1 ELSE 0)
    BY <1>1, <1>2, <2>3 DEF Holding
  <2> QED BY <1>1, <1>2, <1>7, <2>3, <2>7, <2>8, StepIInv
<1> QED BY <1>8, <1>9

-----------------------------------------------------------------------------
(* The producer *)

\* A producer that has not ended goes on; its handler waits for no more than
\* what is on its way.
LEMMA ProducerIInv ==
    ASSUME IInv, NEW c \in Clients, NEW q \in ProdType, prod[c].at # "gone",
           q.at \in {"call", "enqueue", "wait"} => q.number = 0,
           q.at = "stopping" => q.stopped,
           conn[c].at \in {"streaming", "sending", "posting"} => Flowing(conn[c], q),
           prod' = [prod EXCEPT ![c] = q], UNCHANGED <<conn, slots>>
    PROVE  IInv'
<1>1. /\ conn[c] \in ConnType /\ prod[c] \in ProdType /\ Flow(conn[c], prod[c])
      /\ conn = [conn EXCEPT ![c] = conn[c]] /\ slots \in Int
  BY ClientFacts
<1>2. Flow(conn[c], q)
  BY <1>1 DEF Flow
<1>3. slots' = slots + (IF conn[c].at \in Holding THEN 1 ELSE 0)
                     - (IF conn[c].at \in Holding THEN 1 ELSE 0)
  BY <1>1
<1> QED BY <1>1, <1>2, <1>3, StepIInv

\* Before it puts an item the producer has nothing but chunks in its queue.
LEMMA BeforePut ==
    ASSUME NEW x \in ConnType, NEW p \in ProdType, Flowing(x, p),
           \/ p.at \in {"call", "enqueue", "wait", "model"}
           \/ p.at = "put" /\ p.item # End
    PROVE  \A i \in 1 .. Len(p.items) : p.items[i] \in Chunks
<1> SUFFICES ASSUME NEW i \in 1 .. Len(p.items) PROVE p.items[i] \in Chunks
  OBVIOUS
<1>1. p.items[i] \in Items
  BY DEF ProdType
<1>2. p.items[i] # End /\ p.items[i] # Failure
  BY DEF Flowing
<1> QED BY <1>1, <1>2 DEF Items

\* The producer moves on without a chunk in its hands, or takes one from the model.
LEMMA MoveFlowing ==
    ASSUME NEW x \in ConnType, NEW p \in ProdType, NEW q \in ProdType,
           p.at \in {"call", "enqueue", "wait", "model"}, Flowing(x, p),
           q.items = p.items, q.stopped = p.stopped,
           \/ ~Pending(q) /\ q.number = p.number /\ q.at # "gone"
           \/ /\ Pending(q) /\ q.number = p.number + 1
              /\ q.item = <<x.texts, q.number>>
    PROVE  Flowing(x, q)
<1>1. \A i \in 1 .. Len(p.items) : p.items[i] \in Chunks
  BY BeforePut
<1>2. p.number = Len(x.sent) + Len(p.items)
  <2>1. ~Pending(p)
    BY DEF Pending
  <2> QED BY <1>1, <2>1 DEF Flowing
<1>3. \A i \in 1 .. Len(p.items) :
        /\ p.items[i] = <<x.texts, Len(x.sent) + i>>
        /\ p.items[i] # End /\ p.items[i] # Failure
  BY <1>1, ItemsDiffer DEF Flowing
<1>4. ~q.stopped /\ (x.at = "posting" => q.items = <<>>)
  BY DEF Flowing
<1>5. /\ Pending(q) => q.item = <<x.texts, q.number>> /\
                       q.number = Len(x.sent) + Len(q.items) + 1
      /\ ~Pending(q) => q.number = Len(x.sent) + Len(q.items)
  BY <1>2
<1> QED BY <1>1, <1>3, <1>4, <1>5 DEF Flowing

\* A producer goes on without a new chunk.
LEMMA MoveIInv ==
    ASSUME IInv, NEW c \in Clients,
           prod[c].at \in {"call", "enqueue", "wait", "model"},
           UNCHANGED <<conn, slots>>,
           \/ \E a \in {"enqueue", "wait", "model"} :
                /\ prod' = [prod EXCEPT ![c] = [prod[c] EXCEPT !.at = a]]
                /\ a = "model" \/ prod[c].number = 0
           \/ \E item \in {End, Failure} :
                prod' = [prod EXCEPT ![c] = Putting(c, item)]
           \/ prod' = [prod EXCEPT ![c] =
                [Putting(c, <<conn[c].texts, prod[c].number + 1>>)
                   EXCEPT !.number = prod[c].number + 1]]
    PROVE  IInv'
<1> DEFINE P == prod[c]
           X == conn[c]
<1>1. X \in ConnType /\ P \in ProdType /\ Flow(X, P)
  BY ClientFacts
<1>2. X.texts \in Nat /\ P.number \in Nat
  BY <1>1 DEF ConnType, ProdType
<1>3. ASSUME NEW q \in ProdType, prod' = [prod EXCEPT ![c] = q],
             q.at \in {"call", "enqueue", "wait"} => q.number = 0,
             q.items = P.items, q.stopped = P.stopped, q.at # "stopping",
             \/ ~Pending(q) /\ q.number = P.number /\ q.at # "gone"
             \/ /\ Pending(q) /\ q.number = P.number + 1
                /\ q.item = <<X.texts, q.number>>
      PROVE  IInv'
  <2>1. X.at \in {"streaming", "sending", "posting"} => Flowing(X, q)
    <3> SUFFICES ASSUME X.at \in {"streaming", "sending", "posting"} PROVE Flowing(X, q)
      OBVIOUS
    <3>1. Flowing(X, P)
      BY <1>1 DEF Flow
    <3> HIDE DEF X, P
    <3> QED BY <1>1, <1>3, <3>1, MoveFlowing DEF P
  <2>2. prod[c].at # "gone"
    OBVIOUS
  <2> QED BY <1>3, <2>1, <2>2, ProducerIInv
<1>4. ASSUME NEW a \in {"enqueue", "wait", "model"},
             prod' = [prod EXCEPT ![c] = [prod[c] EXCEPT !.at = a]],
             a = "model" \/ prod[c].number = 0
      PROVE  IInv'
  <2> DEFINE q == [prod[c] EXCEPT !.at = a]
  <2>1. /\ q \in ProdType /\ q.at = a /\ q.items = P.items /\ q.stopped = P.stopped
        /\ q.number = P.number
    BY <1>1 DEF ProdType
  <2>2. ~Pending(q)
    BY <2>1 DEF Pending
  <2>3. prod' = [prod EXCEPT ![c] = q]
    BY <1>4
  <2> HIDE DEF q
  <2> QED BY <1>3, <1>4, <2>1, <2>2, <2>3
<1>5. ASSUME NEW item \in {End, Failure}, prod' = [prod EXCEPT ![c] = Putting(c, item)]
      PROVE  IInv'
  <2> DEFINE q == Putting(c, item)
  <2>1. /\ q \in ProdType /\ q.at = "put" /\ q.items = P.items /\ q.stopped = P.stopped
        /\ q.number = P.number /\ q.item = item
    <3>1. item \in Items
      BY ItemsDiffer
    <3> QED BY <1>1, <3>1 DEF ProdType, Putting
  <2>2. ~Pending(q)
    BY <2>1, ItemsDiffer DEF Pending
  <2>3. prod' = [prod EXCEPT ![c] = q]
    BY <1>5
  <2> HIDE DEF q
  <2> QED BY <1>3, <2>1, <2>2, <2>3
<1>6. CASE prod' = [prod EXCEPT ![c] =
                [Putting(c, <<conn[c].texts, prod[c].number + 1>>)
                   EXCEPT !.number = prod[c].number + 1]]
  <2> DEFINE n == prod[c].number + 1
             chunk == <<conn[c].texts, n>>
             q == [Putting(c, chunk) EXCEPT !.number = n]
  <2>1. n \in Nat /\ chunk \in Chunks /\ chunk \in Items
    BY <1>2 DEF Chunks, Items
  <2>2. prod' = [prod EXCEPT ![c] = q] /\ n = P.number + 1 /\ chunk = <<X.texts, n>>
    BY <1>6
  <2> HIDE DEF n, chunk
  <2>3. /\ q \in ProdType /\ q.at = "put" /\ q.items = P.items /\ q.stopped = P.stopped
        /\ q.number = n /\ q.item = chunk
    BY <1>1, <2>1 DEF ProdType, Putting
  <2>4. Pending(q)
    BY <2>1, <2>3 DEF Pending
  <2> HIDE DEF q
  <2> QED BY <1>3, <2>2, <2>3, <2>4
<1> QED BY <1>4, <1>5, <1>6

\* The steps of the models, Qwen's requests included.
LEMMA ModelIInv ==
    ASSUME IInv, NEW c \in Clients,
           \/ CallModel(c) \/ ModelYields(c) \/ ModelEnds(c) \/ ModelRaises(c)
           \/ CallQwen(c) \/ Enqueue(c) \/ RequestTimeout(c) \/ RequestDone(c)
    PROVE  IInv'
<1> USE DEF ToProd, Raise
<1>1. prod[c] \in ProdType /\ Flow(conn[c], prod[c])
  BY ClientFacts
<1>2. prod[c].at \in {"call", "enqueue", "wait"} => prod[c].number = 0
  BY <1>1 DEF Flow
<1>3. prod[c].at \in {"call", "enqueue", "wait", "model"} /\ UNCHANGED <<conn, slots>>
  BY DEF CallModel, ModelYields, ModelEnds, ModelRaises, CallQwen, Enqueue, RequestTimeout,
         RequestDone
<1>4. CASE CallModel(c) \/ CallQwen(c) \/ Enqueue(c)
  <2>1. \/ \E a \in {"enqueue", "wait", "model"} :
             /\ prod' = [prod EXCEPT ![c] = [prod[c] EXCEPT !.at = a]]
             /\ a = "model" \/ prod[c].number = 0
        \/ prod' = [prod EXCEPT ![c] = Putting(c, Failure)]
    BY <1>2, <1>4 DEF CallModel, CallQwen, Enqueue
  <2> QED BY <1>3, <2>1, MoveIInv
<1>5. CASE ModelEnds(c) \/ ModelRaises(c) \/ RequestTimeout(c)
  <2>1. \E item \in {End, Failure} : prod' = [prod EXCEPT ![c] = Putting(c, item)]
    BY <1>5 DEF ModelEnds, ModelRaises, RequestTimeout
  <2> QED BY <1>3, <2>1, MoveIInv
<1>6. CASE ModelYields(c)
  <2>1. prod' = [prod EXCEPT ![c] =
                [Putting(c, <<conn[c].texts, prod[c].number + 1>>)
                   EXCEPT !.number = prod[c].number + 1]]
    BY <1>6 DEF ModelYields
  <2> QED BY <1>3, <2>1, MoveIInv
<1>7. CASE RequestDone(c)
  <2>1. prod[c].number = 0
    BY <1>2, <1>7 DEF RequestDone
  <2>2. \/ prod' = [prod EXCEPT ![c] =
                [Putting(c, <<conn[c].texts, prod[c].number + 1>>)
                   EXCEPT !.number = prod[c].number + 1]]
        \/ prod' = [prod EXCEPT ![c] = Putting(c, Failure)]
    BY <1>7, <2>1 DEF RequestDone
  <2> QED BY <1>3, <2>2, MoveIInv
<1> QED BY <1>4, <1>5, <1>6, <1>7

\* An item goes from the producer's hands into its queue.
LEMMA PutFlowing ==
    ASSUME NEW x \in ConnType, NEW p \in ProdType, NEW q \in ProdType, Flowing(x, p),
           p.at = "put", x.at # "posting",
           q.items = Append(p.items, p.item), q.stopped = p.stopped, q.number = p.number,
           \/ p.item = End /\ q.at = "gone"
           \/ p.item = Failure /\ q.at = "put" /\ q.item = End
           \/ p.item \in Chunks /\ q.at = "model"
    PROVE  Flowing(x, q)
<1> DEFINE k == Len(x.sent)
           n == Len(p.items)
<1>1. /\ k \in Nat /\ n \in Nat /\ p.item \in Items /\ p.items \in Seq(Items)
      /\ p.number \in Nat /\ x.texts \in Nat
  BY DEF ConnType, ProdType
<1>2. /\ Len(q.items) = n + 1 /\ q.items[n + 1] = p.item
      /\ \A i \in 1 .. n : q.items[i] = p.items[i] /\ p.items[i] \in Items
  BY <1>1
<1>3. /\ \A i \in 1 .. n :
           /\ p.items[i] \in Chunks => p.items[i] = <<x.texts, k + i>>
           /\ p.items[i] # End
           /\ p.items[i] = Failure => p.item = End
      /\ (\A i \in 1 .. n : p.items[i] \in Chunks) =>
           /\ p.item \in Chunks => /\ p.item = <<x.texts, p.number>>
                                   /\ p.number = k + n + 1
           /\ p.item \notin Chunks => p.number = k + n
      /\ ~q.stopped
  BY DEF Flowing, Pending
<1>4. \A i \in 1 .. n + 1 : i \in 1 .. n \/ i = n + 1
  BY <1>1
<1> HIDE DEF k, n
<1>5. k + (n + 1) = k + n + 1 /\ k + (n + 1) - 1 = k + n
  BY <1>1
<1>6. CASE p.item = End
  <2>1. End \notin Chunks /\ End # Failure
    BY ItemsDiffer
  <2>2. \A i \in 1 .. n + 1 :
          /\ q.items[i] \in Chunks => q.items[i] = <<x.texts, k + i>>
          /\ q.items[i] = End => i = n + 1
    BY <1>2, <1>3, <1>4, <1>6, <2>1
  <2>3. n + 1 \in 1 .. n + 1
    BY <1>1
  <2>4. ~\A i \in 1 .. n + 1 : q.items[i] \in Chunks
    BY <1>2, <1>6, <2>1, <2>3
  <2>5. ASSUME \A j \in 1 .. n + 1 : q.items[j] # Failure
        PROVE  q.number = k + (n + 1) - 1
    <3>1. \A i \in 1 .. n : i \in 1 .. n + 1
      BY <1>1
    <3>2. \A i \in 1 .. n : p.items[i] \in Chunks
      BY <1>2, <1>3, <2>5, <3>1 DEF Items
    <3> QED BY <1>3, <1>5, <1>6, <2>1, <3>2
  <2>6. q.at = "gone"
    BY <1>6, <2>1
  <2> QED BY <1>2, <1>3, <2>2, <2>4, <2>5, <2>6 DEF Flowing, k, n
<1>7. CASE p.item # End
  <2>1. \A i \in 1 .. n : p.items[i] \in Chunks /\ p.items[i] # Failure
    BY <1>2, <1>3, <1>7 DEF Items
  <2>2. \A i \in 1 .. n + 1 : q.items[i] # End
    BY <1>2, <1>3, <1>4, <1>7
  <2>3. n + 1 \in 1 .. n + 1
    BY <1>1
  <2>4. CASE p.item = Failure
    <3>1. ~\A i \in 1 .. n + 1 : q.items[i] \in Chunks
      BY <1>2, <2>3, <2>4, ItemsDiffer
    <3>2. \A i \in 1 .. n + 1 : q.items[i] \in Chunks => q.items[i] = <<x.texts, k + i>>
      BY <1>2, <1>3, <1>4, <2>4, ItemsDiffer
    <3>3. q.at = "put" /\ q.item = End
      BY <2>4, ItemsDiffer
    <3> QED BY <1>2, <1>3, <2>2, <3>1, <3>2, <3>3 DEF Flowing, k, n
  <2>5. CASE p.item \in Chunks
    <3>1. p.item = <<x.texts, k + (n + 1)>> /\ q.number = k + (n + 1)
      BY <1>3, <1>5, <2>1, <2>5
    <3>2. \A i \in 1 .. n + 1 : /\ q.items[i] = <<x.texts, k + i>>
                                /\ q.items[i] # Failure
      BY <1>2, <1>3, <1>4, <2>1, <2>5, <3>1, ItemsDiffer
    <3>3. ~Pending(q)
      BY <2>5, ItemsDiffer DEF Pending
    <3> QED BY <1>2, <1>3, <2>2, <3>1, <3>2, <3>3 DEF Flowing, k, n
  <2> QED BY <1>1, <1>7, <2>4, <2>5 DEF Items
<1> QED BY <1>6, <1>7

\* A producer puts its item behind the others of the queue.
LEMMA PutsIInv ==
    ASSUME IInv, NEW c \in Clients, Puts(c)
    PROVE  IInv'
<1> DEFINE P == prod[c]
           X == conn[c]
           q == [AfterPut(c) EXCEPT !.items = Append(@, prod[c].item)]
<1>1. X \in ConnType /\ P \in ProdType /\ Flow(X, P)
  BY ClientFacts
<1>2. /\ P.at = "put" /\ X.at # "posting" /\ prod' = [prod EXCEPT ![c] = q]
      /\ UNCHANGED <<conn, slots>>
  BY DEF Puts, ToProd
<1>3. P.item \in Items /\ P.items \in Seq(Items) /\ Append(P.items, P.item) \in Seq(Items)
  BY <1>1 DEF ProdType
<1>4. /\ q \in ProdType /\ q.items = Append(P.items, P.item) /\ q.stopped = P.stopped
      /\ q.number = P.number
      /\ \/ P.item = End /\ q.at = "gone"
         \/ P.item = Failure /\ q.at = "put" /\ q.item = End
         \/ P.item \in Chunks /\ q.at = "model"
  <2>1. CASE P.item = End
    <3>1. q = [[P EXCEPT !.at = "gone"] EXCEPT !.items = Append(@, P.item)]
      BY <2>1 DEF AfterPut
    <3> QED BY <1>1, <1>3, <2>1, <3>1 DEF ProdType
  <2>2. CASE P.item = Failure
    <3>1. q = [[P EXCEPT !.at = "put", !.item = End] EXCEPT !.items = Append(@, P.item)]
      BY <2>2, ItemsDiffer DEF AfterPut, Putting
    <3>2. End \in Items
      BY ItemsDiffer
    <3> QED BY <1>1, <1>3, <2>2, <3>1, <3>2 DEF ProdType
  <2>3. CASE P.item \in Chunks
    <3>1. q = [[P EXCEPT !.at = "model"] EXCEPT !.items = Append(@, P.item)]
      BY <2>3, ItemsDiffer DEF AfterPut
    <3> QED BY <1>1, <1>3, <2>3, <3>1 DEF ProdType
  <2> QED BY <1>3, <2>1, <2>2, <2>3 DEF Items
<1> HIDE DEF q
<1>5. q.at \notin {"call", "enqueue", "wait", "stopping"} /\ prod[c].at # "gone"
  BY <1>2, <1>4
<1>6. conn[c].at \in {"streaming", "sending", "posting"} => Flowing(conn[c], q)
  <2> SUFFICES ASSUME X.at \in {"streaming", "sending", "posting"} PROVE Flowing(X, q)
    OBVIOUS
  <2>1. Flowing(X, P)
    BY <1>1 DEF Flow
  <2> HIDE DEF X, P
  <2> QED BY <1>1, <1>2, <1>4, <2>1, PutFlowing
<1> QED BY <1>2, <1>4, <1>5, <1>6, ProducerIInv

\* A stopped producer gives up its item, and ends when its generator is closed.
LEMMA GivesUpIInv ==
    ASSUME IInv, NEW c \in Clients, GivesUp(c) \/ StreamStops(c)
    PROVE  IInv'
<1>1. /\ Flow(conn[c], prod[c]) /\ prod[c] \in ProdType
      /\ prod[c].at \in {"put", "stopping"} /\ prod[c].stopped /\ UNCHANGED <<conn, slots>>
  <2>1. Flow(conn[c], prod[c]) /\ prod[c] \in ProdType
    BY ClientFacts
  <2> QED BY <2>1 DEF GivesUp, StreamStops, Flow
<1>2. conn[c].at \notin {"streaming", "sending", "posting"}
  BY <1>1 DEF Flow, Flowing
<1>3. ASSUME NEW q \in ProdType, prod' = [prod EXCEPT ![c] = q],
             q.at \in {"gone", "stopping"}, q.stopped
      PROVE  IInv'
  BY <1>1, <1>2, <1>3, ProducerIInv
<1>4. CASE prod' = [prod EXCEPT ![c] = Returned]
  <2>1. Returned \in ProdType /\ Returned.at = "gone" /\ Returned.stopped
    <3>1. End \in Items /\ <<>> \in Seq(Items)
      BY ItemsDiffer
    <3> QED BY <3>1 DEF ProdType, NewProducer, Returned
  <2> QED BY <1>3, <1>4, <2>1
<1>5. CASE prod' = [prod EXCEPT ![c] = [prod[c] EXCEPT !.at = "stopping"]]
  <2> DEFINE q == [prod[c] EXCEPT !.at = "stopping"]
  <2>1. q \in ProdType /\ q.at = "stopping" /\ q.stopped
    BY <1>1 DEF ProdType
  <2> HIDE DEF q
  <2>2. prod' = [prod EXCEPT ![c] = q]
    BY <1>5 DEF q
  <2> QED BY <1>3, <2>1, <2>2
<1> QED BY <1>4, <1>5 DEF GivesUp, StreamStops, Dropping, ToProd

\* The event loop's finalizer stops the producer of an abandoned generator.
LEMMA FinalizeIInv ==
    ASSUME IInv, NEW c \in Clients, FinalizeGenerator(c)
    PROVE  IInv'
<1> DEFINE q == [prod[c] EXCEPT !.stopped = TRUE]
<1>1. /\ conn[c] \in ConnType /\ prod[c] \in ProdType /\ Flow(conn[c], prod[c])
      /\ conn = [conn EXCEPT ![c] = conn[c]] /\ slots \in Int
  BY ClientFacts
<1>2. conn[c].orphan /\ prod' = [prod EXCEPT ![c] = q] /\ UNCHANGED <<conn, slots>>
  BY DEF FinalizeGenerator, ToProd
<1>3. q \in ProdType /\ q.at = prod[c].at /\ q.number = prod[c].number /\ q.stopped
  BY <1>1 DEF ProdType
<1> HIDE DEF q
<1>4. Flow(conn[c], q)
  BY <1>1, <1>2, <1>3 DEF Flow
<1>5. slots' = slots + (IF conn[c].at \in Holding THEN 1 ELSE 0)
                     - (IF conn[c].at \in Holding THEN 1 ELSE 0)
  BY <1>1, <1>2
<1> QED BY <1>1, <1>2, <1>3, <1>4, <1>5, StepIInv

-----------------------------------------------------------------------------
(* The request and its answer *)

\* A POST request takes its next chunk, or the end or failure behind them.
LEMMA AnsweredIInv ==
    ASSUME IInv, NEW c \in Clients, Answered(c)
    PROVE  IInv'
<1> DEFINE P == prod[c]
           X == conn[c]
           k == Len(X.sent)
<1>1. X \in ConnType /\ P \in ProdType /\ Flow(X, P) /\ slots \in Int
  BY ClientFacts
<1>2. X.at = "posting" /\ P.at = "put" /\ slots' = slots
  BY DEF Answered
<1>3. /\ k \in Nat /\ X.sent \in Seq(Chunks) /\ P.number \in Nat /\ P.item \in Items
      /\ X.texts \in Nat
  BY <1>1 DEF ConnType, ProdType
<1>4. Flowing(X, P) /\ Alike(X) /\ X.then # "finished" /\ ~X.orphan
  BY <1>1, <1>2 DEF Flow
<1>5. P.items = <<>> /\ ~P.stopped
  BY <1>2, <1>4 DEF Flowing
<1>6. /\ P.item \in Chunks => P.item = <<X.texts, P.number>> /\ P.number = k + 1
      /\ P.item \notin Chunks => P.number = k
  <2>1. Len(P.items) = 0 /\ (\A i \in 1 .. Len(P.items) : P.items[i] \in Chunks)
    BY <1>5
  <2>2. /\ Pending(P) => P.item = <<X.texts, P.number>> /\ P.number = k + Len(P.items) + 1
        /\ ~Pending(P) => P.number = k + Len(P.items)
    BY <1>4, <2>1 DEF Flowing
  <2> QED BY <1>2, <1>3, <2>1, <2>2 DEF Pending
<1>7. ASSUME NEW x \in ConnType, NEW q \in ProdType, Flow(x, q),
             x.at \in {"posting", "done"},
             conn' = [conn EXCEPT ![c] = x], prod' = [prod EXCEPT ![c] = q]
      PROVE  IInv'
  <2>1. slots' = slots + (IF conn[c].at \in Holding THEN 1 ELSE 0)
                       - (IF x.at \in Holding THEN 1 ELSE 0)
    BY <1>1, <1>2, <1>7 DEF Holding
  <2> QED BY <1>2, <1>7, <2>1, StepIInv
<1>8. CASE P.item \in {End, Failure}
  <2> DEFINE x == [conn[c] EXCEPT
                     !.at = "done", !.then = IF prod[c].item = End THEN "finished" ELSE "failing"]
             q == [prod[c] EXCEPT !.at = "gone"]
  <2>1. conn' = [conn EXCEPT ![c] = x] /\ prod' = [prod EXCEPT ![c] = q]
    BY <1>8 DEF Answered, ToConn, ToProd
  <2>2. x \in ConnType /\ x.at = "done" /\ x.sent = X.sent /\ x.texts = X.texts
    BY <1>1 DEF ConnType
  <2>3. q \in ProdType /\ q.at = "gone" /\ q.number = P.number
    BY <1>1 DEF ProdType
  <2> HIDE DEF x, q
  <2>4. P.number = k
    BY <1>6, <1>8, ItemsDiffer
  <2>5. Alike(x)
    BY <1>4, <2>2 DEF Alike
  <2>6. Flow(x, q)
    BY <2>2, <2>3, <2>4, <2>5 DEF Flow
  <2> QED BY <1>7, <2>1, <2>2, <2>3, <2>6
<1>9. CASE P.item \notin {End, Failure}
  <2> DEFINE x == [conn[c] EXCEPT !.sent = Append(@, prod[c].item)]
             q == [prod[c] EXCEPT !.at = "model"]
  <2>1. conn' = [conn EXCEPT ![c] = x] /\ prod' = [prod EXCEPT ![c] = q]
    BY <1>9 DEF Answered, ToConn, ToProd
  <2>2. P.item \in Chunks /\ P.item = <<X.texts, k + 1>> /\ P.number = k + 1
    BY <1>3, <1>6, <1>9 DEF Items
  <2>3. /\ Append(X.sent, P.item) \in Seq(Chunks) /\ Len(Append(X.sent, P.item)) = k + 1
        /\ \A i \in 1 .. k : Append(X.sent, P.item)[i] = X.sent[i]
        /\ Append(X.sent, P.item)[k + 1] = P.item
    BY <1>3, <2>2
  <2>4. /\ x \in ConnType /\ x.at = "posting" /\ x.sent = Append(X.sent, P.item)
        /\ x.texts = X.texts /\ x.then = X.then /\ x.orphan = X.orphan
    BY <1>1, <1>2, <2>3 DEF ConnType
  <2>5. /\ q \in ProdType /\ q.at = "model" /\ q.number = P.number /\ q.items = P.items
        /\ q.stopped = P.stopped
    BY <1>1 DEF ProdType
  <2> HIDE DEF x, q
  <2>6. Alike(x)
    <3> SUFFICES ASSUME NEW i \in 1 .. k + 1 PROVE x.sent[i] = <<X.texts, i>>
      BY <2>3, <2>4 DEF Alike
    <3>1. CASE i = k + 1
      BY <2>2, <2>3, <2>4, <3>1
    <3>2. CASE i \in 1 .. k
      BY <1>4, <2>3, <2>4, <3>2 DEF Alike
    <3> QED BY <1>3, <3>1, <3>2
  <2>7. Flowing(x, q)
    <3>1. Len(x.sent) = k + 1 /\ q.items = <<>> /\ Len(q.items) = 0 /\ ~Pending(q)
      BY <1>5, <2>3, <2>4, <2>5 DEF Pending
    <3>2. q.number = Len(x.sent) + Len(q.items)
      BY <1>3, <2>2, <2>5, <3>1
    <3> QED BY <1>5, <2>5, <3>1, <3>2 DEF Flowing
  <2>8. Flow(x, q)
    BY <1>4, <2>4, <2>5, <2>6, <2>7 DEF Flow
  <2> QED BY <1>7, <2>1, <2>4, <2>5, <2>8
<1> QED BY <1>8, <1>9

-----------------------------------------------------------------------------
(* The specification *)

\* Qwen's workers and the lifespan leave handlers, producers and slots alone.
LEMMA QuietIInv ==
    ASSUME IInv, UNCHANGED <<conn, prod, slots>>
    PROVE  IInv'
<1>1. conn' \in [Clients -> ConnType] /\ prod' \in [Clients -> ProdType] /\ slots' \in Int
  BY DEF IInv
<1>2. SlotsExact'
  BY DEF IInv, SlotsExact
<1>3. \A c \in Clients : Flow(conn'[c], prod'[c])
  BY DEF IInv
<1> QED BY <1>1, <1>2, <1>3 DEF IInv

\* Every step preserves the invariant.
LEMMA NextIInv == IInv /\ [Next]_vars => IInv'
<1> SUFFICES ASSUME IInv, [Next]_vars PROVE IInv'
  OBVIOUS
<1>1. CASE LifespanStart \/ CloseBegins \/ Closing \/ UNCHANGED vars
  <2>1. UNCHANGED <<conn, prod, slots>>
    BY <1>1 DEF LifespanStart, CloseBegins, Closing, ClosePutsStop, CloseJoins, vars
  <2> QED BY <2>1, QuietIInv
<1>2. ASSUME NEW w \in Workers, WorkerStep(w) PROVE IInv'
  <2>1. UNCHANGED <<conn, prod, slots>>
    BY <1>2 DEF WorkerStep, WorkerGets, WorkerCollects, WorkerPutsStop, WorkerRuns,
                BatchReturns
  <2> QED BY <2>1, QuietIInv
<1>3. ASSUME NEW c \in Sockets, Receives(c) \/ Handles(c) PROVE IInv'
  <2>1. c \in Clients
    BY DEF Clients
  <2>2. CASE ReceiveContinue(c)
    BY <2>2, BeginIInv
  <2>3. CASE GetItem(c)
    BY <2>1, <2>3, GetItemIInv
  <2>4. CASE FinalizeGenerator(c)
    BY <2>1, <2>4, FinalizeIInv
  <2>5. CASE \/ Refuse(c) \/ Start(c) \/ Failed(c) \/ ReceiveFinish(c) \/ ReceiveBad(c)
             \/ Disconnect(c) \/ GeneratorCloses(c) \/ Sent(c) \/ SendRaises(c)
    BY <2>5, HandlerIInv
  <2> QED BY <1>3, <2>2, <2>3, <2>4, <2>5 DEF Receives, Handles
<1>4. ASSUME NEW c \in Posts, Post(c) PROVE IInv'
  BY <1>4, BeginIInv
<1>5. ASSUME NEW c \in Clients, Thread(c) PROVE IInv'
  <2>1. CASE Answered(c)
    BY <2>1, AnsweredIInv
  <2>2. CASE Puts(c)
    BY <2>2, PutsIInv
  <2>3. CASE GivesUp(c) \/ StreamStops(c)
    BY <2>3, GivesUpIInv
  <2>4. CASE \/ CallModel(c) \/ ModelYields(c) \/ ModelEnds(c) \/ ModelRaises(c)
             \/ CallQwen(c) \/ Enqueue(c) \/ RequestTimeout(c) \/ RequestDone(c)
    BY <2>4, ModelIInv
  <2>5. CASE TritonResponds(c)
    <3>1. UNCHANGED <<conn, prod, slots>>
      BY <2>5 DEF TritonResponds
    <3> QED BY <3>1, QuietIInv
  <2> QED BY <1>5, <2>1, <2>2, <2>3, <2>4, <2>5 DEF Thread
<1> QED BY <1>1, <1>2, <1>3, <1>4, <1>5 DEF Next

\* The inductive invariant holds in every state, whatever the fairness.
THEOREM InductiveInvariant == Spec => []IInv
BY InitIInv, NextIInv, PTL DEF Spec

\* Every way out of synthesize_tts_stream releases tts_stream_slots exactly once:
\* the free slots and the handlers that hold one always add up to the limit,
\* however the disconnects, failures, refused starts and threads interleave.
THEOREM SlotsAreExact == Spec => []SlotsExact
<1>1. IInv => SlotsExact
  BY DEF IInv
<1> QED BY <1>1, InductiveInvariant, PTL

\* What the client hears is what the model made of its text, in order, without a
\* gap or a repetition, over the bounded queue between the producer thread and
\* the handler; and it has heard all of it when the handler turns to the next
\* message, the task finishes or the POST request is answered.
THEOREM AudioIsComplete == Spec => []AudioComplete
<1>1. IInv => AudioComplete
  <2> SUFFICES ASSUME IInv, NEW c \in Clients
               PROVE  LET said == Len(conn[c].sent)
                          alike == conn[c].sent = [i \in 1 .. said |-> <<conn[c].texts, i>>]
                      IN
                      /\ conn[c].at # "done" => alike
                      /\ conn[c].at = "receiving" \/ conn[c].then = "finished" =>
                           alike /\ said = prod[c].number
    BY DEF AudioComplete
  <2> DEFINE X == conn[c]
  <2>1. X \in ConnType /\ Flow(X, prod[c])
    BY ClientFacts
  <2>2. X.sent \in Seq(Chunks)
    BY <2>1 DEF ConnType
  <2>3. Alike(X) => X.sent = [i \in 1 .. Len(X.sent) |-> <<X.texts, i>>]
    <3>1. X.sent = [i \in 1 .. Len(X.sent) |-> X.sent[i]]
      BY <2>2
    <3> QED BY <3>1, Zenon DEF Alike
  <2>4. X.at = "receiving" => X.at # "done"
    OBVIOUS
  <2> QED BY <2>1, <2>3, <2>4 DEF Flow
<1> QED BY <1>1, InductiveInvariant, PTL
=============================================================================
