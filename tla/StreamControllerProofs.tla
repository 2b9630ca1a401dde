----------------------- MODULE StreamControllerProofs -----------------------
(***************************************************************************)
(* The direct ASR service, for every number of connections and in both     *)
(* modes.                                                                  *)
(*                                                                         *)
(* What a client may read: at most one terminal event, and nothing behind  *)
(* it but the close.  Every step of the service changes one connection at  *)
(* most, and of it this needs three fields: where the handler is, whether  *)
(* its deadline has passed, and what is on the wire.                       *)
(*                                                                         *)
(* What a handler finds: between two calls of the model its session is     *)
(* active, idle and unpoisoned.  This rests on the coordinator's inductive *)
(* invariant, which the handlers' calls keep, and on what links a          *)
(* connection to the coordinator's jobs.                                   *)
(***************************************************************************)
EXTENDS StreamController, InferenceCoordinatorProofs

Fields == {"at", "doing", "job", "sid", "expired", "lost", "wire"}

\* What is on the wire says where the handler can be: an error only while fail()
\* sends it, the final event only until the socket closes or the session expires,
\* the close only in the last abort.  Expiry and cancellation follow the deadline.
WireFits(s) ==
    /\ DOMAIN s = Fields
    /\ s.expired \in BOOLEAN
    /\ s.wire \in {"open", "error", "final", "closed", "gone"}
    /\ s.wire = "error" <=> s.at = "failing"
    /\ s.wire \in {"closed", "gone"} => s.at \in {"aborting", "done"}
    /\ s.wire = "final" => s.at \in {"sending", "expiring", "aborting"}
    /\ s.at \in {"expiring", "cancelled"} => s.expired

\* The step of a connection that TerminalEventLast allows.
WireMoves(s, t) ==
    /\ s.wire = "error" => t.wire \in {"error", "closed", "gone"}
    /\ s.wire \in {"closed", "gone"} => t.wire = s.wire
    /\ s.wire = "final" =>
         \/ t.wire \in {"final", "closed", "gone"}
         \/ t.wire = "error" /\ s.expired

Wires ==
    /\ DOMAIN stream = Sessions
    /\ \A c \in Sessions : WireFits(stream[c])

WiresMove == \A c \in Sessions : WireMoves(stream[c], stream'[c])

\* Connection c goes to a with w on the wire; its deadline stays as in s.
Becomes(c, s, a, w) ==
    \E t : /\ stream' = [stream EXCEPT ![c] = t]
           /\ DOMAIN t = Fields /\ t.at = a /\ t.wire = w /\ t.expired = s.expired

\* At the start nothing is on any wire.
LEMMA InitWires == ServiceInit => Wires
<1> SUFFICES ASSUME ServiceInit PROVE Wires
  OBVIOUS
<1>1. WireFits(NewStream)
  BY DEF WireFits, NewStream, Fields
<1> QED BY <1>1 DEF ServiceInit, Wires

\* A step that leaves the connections alone.
LEMMA QuietWires == ASSUME Wires, UNCHANGED stream PROVE Wires' /\ WiresMove
<1>1. \A c \in Sessions : WireMoves(stream[c], stream[c])
  BY DEF Wires, WireFits, WireMoves
<1> QED BY <1>1 DEF Wires, WiresMove

\* A step of one connection that fits and moves as allowed.
LEMMA OneStream ==
    ASSUME Wires, NEW c \in Sessions, NEW t, stream' = [stream EXCEPT ![c] = t],
           WireFits(t), WireMoves(stream[c], t)
    PROVE  Wires' /\ WiresMove
<1>1. \A d \in Sessions : WireMoves(stream[d], stream[d])
  BY DEF Wires, WireFits, WireMoves
<1>2. DOMAIN stream' = Sessions /\ \A d \in Sessions : stream'[d] = IF d = c THEN t ELSE stream[d]
  BY DEF Wires
<1> QED BY <1>1, <1>2 DEF Wires, WiresMove

\* The same, with the new record seen through its three fields.
LEMMA BecomesKeeps ==
    ASSUME Wires, NEW c \in Sessions, NEW s, s.expired = stream[c].expired,
           NEW a, NEW w, Becomes(c, s, a, w),
           w \in {"open", "error", "final", "closed", "gone"},
           w = "error" <=> a = "failing",
           w \in {"closed", "gone"} => a \in {"aborting", "done"},
           w = "final" => a \in {"sending", "expiring", "aborting"},
           a \in {"expiring", "cancelled"} => stream[c].expired,
           stream[c].wire = "error" => w \in {"error", "closed", "gone"},
           stream[c].wire \in {"closed", "gone"} => w = stream[c].wire,
           stream[c].wire = "final" =>
             w \in {"final", "closed", "gone"} \/ (w = "error" /\ stream[c].expired)
    PROVE  Wires' /\ WiresMove
<1>1. PICK t : /\ stream' = [stream EXCEPT ![c] = t]
               /\ DOMAIN t = Fields /\ t.at = a /\ t.wire = w /\ t.expired = s.expired
  BY DEF Becomes
<1>2. stream[c].expired \in BOOLEAN
  BY DEF Wires, WireFits
<1>3. WireFits(t) /\ WireMoves(stream[c], t)
  BY <1>1, <1>2 DEF WireFits, WireMoves
<1> QED BY <1>1, <1>3, OneStream

-----------------------------------------------------------------------------
(* The pieces that steps are made of *)

\* The call of abort_stream leaves the wire as it is.
LEMMA CallAbortBecomes ==
    ASSUME NEW c, NEW s, DOMAIN s = Fields, NEW then, CallAbort(c, s, then)
    PROVE  Becomes(c, s, then, s.wire)
<1> DEFINE left == [s EXCEPT !.at = then, !.doing = "none", !.job = 0, !.sid = FALSE]
<1>1. DOMAIN left = Fields /\ left.at = then /\ left.wire = s.wire /\ left.expired = s.expired
  BY DEF Fields
<1>2. \/ To(c, left) \/ To(c, [left EXCEPT !.lost = TRUE])
      \/ To(c, [left EXCEPT !.job = issued + 1])
  BY DEF CallAbort
<1> HIDE DEF left
<1>3. ASSUME NEW t, t = left \/ t = [left EXCEPT !.lost = TRUE]
                             \/ t = [left EXCEPT !.job = issued + 1]
      PROVE  DOMAIN t = Fields /\ t.at = then /\ t.wire = s.wire /\ t.expired = s.expired
  BY <1>1, <1>3 DEF Fields
<1>4. \E t : /\ t = left \/ t = [left EXCEPT !.lost = TRUE] \/ t = [left EXCEPT !.job = issued + 1]
             /\ stream' = [stream EXCEPT ![c] = t]
  BY <1>2 DEF To
<1> QED BY <1>3, <1>4 DEF Becomes

\* fail() puts the error on the wire.
LEMMA FailBecomes ==
    ASSUME NEW c, NEW s, DOMAIN s = Fields, Fail(c, s)
    PROVE  Becomes(c, s, "failing", "error")
<1> DEFINE t == [s EXCEPT !.at = "failing", !.doing = "none", !.job = 0, !.wire = "error"]
<1>1. DOMAIN t = Fields /\ t.at = "failing" /\ t.wire = "error" /\ t.expired = s.expired
  BY DEF Fields
<1>2. stream' = [stream EXCEPT ![c] = t]
  BY DEF Fail, To
<1> HIDE DEF t
<1> QED BY <1>1, <1>2 DEF Becomes

\* A call of the model starts, finds the deadline passed, or is refused.
LEMMA CallModelBecomes ==
    ASSUME NEW c, NEW s, DOMAIN s = Fields, NEW doing, CallModel(c, s, doing)
    PROVE  \/ s.expired /\ Becomes(c, s, "expiring", s.wire)
           \/ Becomes(c, s, "model", s.wire)
           \/ Becomes(c, s, "failing", "error")
<1> DEFINE t == [s EXCEPT !.at = "model", !.doing = doing, !.job = issued + 1]
<1>1. DOMAIN t = Fields /\ t.at = "model" /\ t.wire = s.wire /\ t.expired = s.expired
  BY DEF Fields
<1>2. \/ s.expired /\ CallAbort(c, s, "expiring")
      \/ stream' = [stream EXCEPT ![c] = t]
      \/ Fail(c, s)
  BY DEF CallModel, ExpireSession, To
<1> HIDE DEF t
<1>3. CASE stream' = [stream EXCEPT ![c] = t]
  BY <1>1, <1>3 DEF Becomes
<1> QED BY <1>2, <1>3, CallAbortBecomes, FailBecomes

\* What a handler does next after a model operation.
LEMMA ContinueBecomes ==
    ASSUME NEW c, NEW s, DOMAIN s = Fields, Continue(c, s)
    PROVE  \/ s.expired /\ Becomes(c, s, "expiring", s.wire)
           \/ Becomes(c, s, "model", s.wire)
           \/ Becomes(c, s, "receiving", s.wire)
           \/ Becomes(c, s, "failing", "error")
<1> DEFINE t == [s EXCEPT !.at = "receiving", !.doing = "none", !.job = 0]
<1>1. DOMAIN t = Fields /\ t.at = "receiving" /\ t.wire = s.wire /\ t.expired = s.expired
  BY DEF Fields
<1>2. stream' = [stream EXCEPT ![c] = t] \/ \E next : CallModel(c, s, next)
  BY DEF Continue, To
<1> HIDE DEF t
<1>3. CASE stream' = [stream EXCEPT ![c] = t]
  BY <1>1, <1>3 DEF Becomes
<1> QED BY <1>2, <1>3, CallModelBecomes

\* The final event goes on the wire.
LEMMA SendFinalBecomes ==
    ASSUME NEW c, NEW s, DOMAIN s = Fields, SendFinal(c, s)
    PROVE  Becomes(c, s, "sending", "final")
<1> DEFINE t == [s EXCEPT !.at = "sending", !.wire = "final", !.job = 0]
<1>1. DOMAIN t = Fields /\ t.at = "sending" /\ t.wire = "final" /\ t.expired = s.expired
  BY DEF Fields
<1>2. stream' = [stream EXCEPT ![c] = t]
  BY DEF SendFinal, To
<1> HIDE DEF t
<1> QED BY <1>1, <1>2 DEF Becomes

-----------------------------------------------------------------------------
(* The handler's steps *)

\* The handler's steps that receive a message.
LEMMA ReceiveWires ==
    ASSUME Wires, NEW c \in Sessions,
           \/ ReceiveStart(c) \/ ReceiveAudio(c) \/ ReceiveCommand(c)
           \/ ReceiveFails(c) \/ Disconnect(c)
    PROVE  Wires' /\ WiresMove
<1> DEFINE s == stream[c]
<1>1. WireFits(s) /\ DOMAIN s = Fields
  BY DEF Wires, WireFits
<1>2. s.at \in {"start", "receiving"} /\ s.wire = "open"
  BY <1>1 DEF ReceiveStart, ReceiveAudio, ReceiveCommand, ReceiveFails, Disconnect, WireFits
<1>3. \/ Fail(c, s) \/ (\E doing : CallModel(c, s, doing))
      \/ s.expired /\ CallAbort(c, s, "expiring")
      \/ SendFinal(c, s)
      \/ stream' = [stream EXCEPT ![c] = [s EXCEPT !.at = "sending"]]
      \/ CallAbort(c, [s EXCEPT !.wire = "gone"], "aborting")
  BY DEF ReceiveStart, ReceiveAudio, ReceiveCommand, ReceiveFails, Disconnect, ExpireSession, To
<1>4. CASE stream' = [stream EXCEPT ![c] = [s EXCEPT !.at = "sending"]]
  <2> DEFINE t == [s EXCEPT !.at = "sending"]
  <2>1. DOMAIN t = Fields /\ t.at = "sending" /\ t.wire = s.wire /\ t.expired = s.expired
    BY <1>1 DEF Fields
  <2>2. stream' = [stream EXCEPT ![c] = t]
    BY <1>4
  <2> HIDE DEF t
  <2>3. Becomes(c, s, "sending", "open")
    BY <1>2, <2>1, <2>2 DEF Becomes
  <2> QED BY <1>2, <2>3, BecomesKeeps
<1>5. CASE CallAbort(c, [s EXCEPT !.wire = "gone"], "aborting")
  <2> DEFINE x == [s EXCEPT !.wire = "gone"]
  <2>1. DOMAIN x = Fields /\ x.wire = "gone" /\ x.expired = s.expired
    BY <1>1 DEF Fields
  <2>2. CallAbort(c, x, "aborting")
    BY <1>5
  <2> HIDE DEF x
  <2>3. Becomes(c, x, "aborting", "gone")
    BY <2>1, <2>2, CallAbortBecomes
  <2> QED BY <1>2, <2>1, <2>3, BecomesKeeps
<1>6. CASE \/ Fail(c, s) \/ (\E doing : CallModel(c, s, doing)) \/ SendFinal(c, s)
           \/ s.expired /\ CallAbort(c, s, "expiring")
  <2>1. \/ (s.expired /\ Becomes(c, s, "expiring", "open")) \/ Becomes(c, s, "model", "open")
        \/ Becomes(c, s, "failing", "error") \/ Becomes(c, s, "sending", "final")
    BY <1>1, <1>2, <1>6, FailBecomes, CallModelBecomes, SendFinalBecomes, CallAbortBecomes
  <2> QED BY <1>2, <2>1, BecomesKeeps
<1> QED BY <1>3, <1>4, <1>5, <1>6

\* The handler's steps behind a model operation.
LEMMA ModelWires ==
    ASSUME Wires, NEW c \in Sessions,
           ModelReturns(c) \/ ModelRaises(c) \/ DeadlineCancels(c) \/ CancelEnds(c)
    PROVE  Wires' /\ WiresMove
<1> DEFINE s == stream[c]
           x == [s EXCEPT !.sid = TRUE]
<1>1. WireFits(s) /\ DOMAIN s = Fields
  BY DEF Wires, WireFits
<1>2. DOMAIN x = Fields /\ x.at = s.at /\ x.wire = s.wire /\ x.expired = s.expired
  BY <1>1 DEF Fields
<1>3. \/ s.at = "model" /\ Fail(c, s)
      \/ /\ s.at = "model"
         /\ \/ (s.expired /\ CallAbort(c, x, "expiring")) \/ Fail(c, x) \/ Continue(c, x)
            \/ SendFinal(c, x)
            \/ stream' = [stream EXCEPT ![c] = [x EXCEPT !.at = "sending"]]
      \/ /\ s.at = "model" /\ s.expired
         /\ stream' = [stream EXCEPT ![c] = [s EXCEPT !.at = "cancelled"]]
      \/ s.at = "cancelled" /\ CallAbort(c, s, "expiring")
  BY <1>2 DEF ModelReturns, ModelRaises, DeadlineCancels, CancelEnds, ExpireSession, To
<1>4. s.wire = "open" /\ (s.at = "cancelled" => s.expired) /\ s.at \in {"model", "cancelled"}
  BY <1>1, <1>3 DEF WireFits
<1>5. CASE stream' = [stream EXCEPT ![c] = [x EXCEPT !.at = "sending"]]
  <2> DEFINE t == [x EXCEPT !.at = "sending"]
  <2> HIDE DEF x
  <2>1. DOMAIN t = Fields /\ t.at = "sending" /\ t.wire = s.wire /\ t.expired = s.expired
    BY <1>2 DEF Fields
  <2>2. stream' = [stream EXCEPT ![c] = t]
    BY <1>5
  <2> HIDE DEF t
  <2>3. Becomes(c, s, "sending", "open")
    BY <1>4, <2>1, <2>2 DEF Becomes
  <2> QED BY <1>4, <2>3, BecomesKeeps
<1>6. CASE s.expired /\ stream' = [stream EXCEPT ![c] = [s EXCEPT !.at = "cancelled"]]
  <2> DEFINE t == [s EXCEPT !.at = "cancelled"]
  <2>1. DOMAIN t = Fields /\ t.at = "cancelled" /\ t.wire = s.wire /\ t.expired = s.expired
    BY <1>1 DEF Fields
  <2>2. stream' = [stream EXCEPT ![c] = t]
    BY <1>6
  <2> HIDE DEF t
  <2>3. Becomes(c, s, "cancelled", "open")
    BY <1>4, <2>1, <2>2 DEF Becomes
  <2> QED BY <1>4, <1>6, <2>3, BecomesKeeps
<1>7. CASE Fail(c, s) \/ (s.at = "cancelled" /\ CallAbort(c, s, "expiring"))
  <2>1. Becomes(c, s, "failing", "error") \/ (s.expired /\ Becomes(c, s, "expiring", "open"))
    BY <1>1, <1>4, <1>7, FailBecomes, CallAbortBecomes
  <2> QED BY <1>4, <2>1, BecomesKeeps
<1>8. CASE \/ (s.expired /\ CallAbort(c, x, "expiring")) \/ Fail(c, x) \/ Continue(c, x)
           \/ SendFinal(c, x)
  <2> HIDE DEF x
  <2>1. \/ (s.expired /\ Becomes(c, x, "expiring", "open")) \/ Becomes(c, x, "model", "open")
        \/ Becomes(c, x, "receiving", "open")
        \/ Becomes(c, x, "failing", "error") \/ Becomes(c, x, "sending", "final")
    BY <1>2, <1>4, <1>8, FailBecomes, ContinueBecomes, SendFinalBecomes, CallAbortBecomes
  <2> QED BY <1>2, <1>4, <2>1, BecomesKeeps
<1> QED BY <1>3, <1>5, <1>6, <1>7, <1>8

\* The three ways a send ends.
LEMMA SendWires ==
    ASSUME Wires, NEW c \in Sessions, Sent(c) \/ SendTimesOut(c) \/ SendRaises(c)
    PROVE  Wires' /\ WiresMove
<1> DEFINE s == stream[c]
<1>1. WireFits(s) /\ DOMAIN s = Fields
  BY DEF Wires, WireFits
<1>2. s.at = "sending" /\ s.wire \in {"open", "final"}
  BY <1>1 DEF Sent, SendTimesOut, SendRaises, WireFits
<1>3. \/ /\ s.wire = "final"
         /\ stream' = [stream EXCEPT ![c] = [s EXCEPT !.at = "done", !.doing = "none",
                                                      !.sid = FALSE, !.wire = "closed"]]
      \/ s.wire = "final" /\ CallAbort(c, s, "aborting")
      \/ s.wire = "open" /\ (SendFinal(c, s) \/ Continue(c, s))
      \/ s.expired /\ CallAbort(c, s, "expiring")
      \/ CallAbort(c, [s EXCEPT !.wire = "gone"], "aborting")
  BY DEF Sent, SendTimesOut, SendRaises, ExpireSession, To
<1>4. CASE /\ s.wire = "final"
           /\ stream' = [stream EXCEPT ![c] = [s EXCEPT !.at = "done", !.doing = "none",
                                                        !.sid = FALSE, !.wire = "closed"]]
  <2> DEFINE t == [s EXCEPT !.at = "done", !.doing = "none", !.sid = FALSE, !.wire = "closed"]
  <2>1. DOMAIN t = Fields /\ t.at = "done" /\ t.wire = "closed" /\ t.expired = s.expired
    BY <1>1 DEF Fields
  <2>2. stream' = [stream EXCEPT ![c] = t]
    BY <1>4
  <2> HIDE DEF t
  <2>3. Becomes(c, s, "done", "closed")
    BY <2>1, <2>2 DEF Becomes
  <2> QED BY <1>4, <2>3, BecomesKeeps
<1>5. CASE CallAbort(c, [s EXCEPT !.wire = "gone"], "aborting")
  <2> DEFINE x == [s EXCEPT !.wire = "gone"]
  <2>1. DOMAIN x = Fields /\ x.wire = "gone" /\ x.expired = s.expired
    BY <1>1 DEF Fields
  <2>2. CallAbort(c, x, "aborting")
    BY <1>5
  <2> HIDE DEF x
  <2>3. Becomes(c, x, "aborting", "gone")
    BY <2>1, <2>2, CallAbortBecomes
  <2> QED BY <1>2, <2>1, <2>3, BecomesKeeps
<1>6. CASE s.wire = "open" /\ (SendFinal(c, s) \/ Continue(c, s))
  <2>1. \/ (s.expired /\ Becomes(c, s, "expiring", "open")) \/ Becomes(c, s, "model", "open")
        \/ Becomes(c, s, "receiving", "open")
        \/ Becomes(c, s, "failing", "error") \/ Becomes(c, s, "sending", "final")
    BY <1>1, <1>6, ContinueBecomes, SendFinalBecomes
  <2> QED BY <1>6, <2>1, BecomesKeeps
<1>7. CASE s.wire = "final" /\ CallAbort(c, s, "aborting")
  <2>1. Becomes(c, s, "aborting", "final")
    BY <1>1, <1>7, CallAbortBecomes
  <2> QED BY <1>7, <2>1, BecomesKeeps
<1>8. CASE s.expired /\ CallAbort(c, s, "expiring")
  <2>1. Becomes(c, s, "expiring", s.wire)
    BY <1>1, <1>8, CallAbortBecomes
  <2> QED BY <1>2, <1>8, <2>1, BecomesKeeps
<1> QED BY <1>3, <1>4, <1>5, <1>6, <1>7, <1>8

\* The handler's last steps: expiry, error sent, session aborted.
LEMMA EndWires ==
    ASSUME Wires, NEW c \in Sessions, Expired(c) \/ FailSent(c) \/ Aborted(c)
    PROVE  Wires' /\ WiresMove
<1> DEFINE s == stream[c]
<1>1. WireFits(s) /\ DOMAIN s = Fields
  BY DEF Wires, WireFits
<1>2. CASE Expired(c)
  <2> DEFINE x == [s EXCEPT !.lost = AbortRaised(c)]
  <2>1. DOMAIN x = Fields /\ x.expired = s.expired
    BY <1>1 DEF Fields
  <2>2. Fail(c, x) /\ s.at = "expiring"
    BY <1>2 DEF Expired
  <2> HIDE DEF x
  <2>3. Becomes(c, x, "failing", "error")
    BY <2>1, <2>2, FailBecomes
  <2>4. s.expired /\ s.wire \in {"open", "final"}
    BY <1>1, <2>2 DEF WireFits
  <2> QED BY <2>1, <2>3, <2>4, BecomesKeeps
<1>3. CASE FailSent(c)
  <2>1. PICK w \in {"closed", "gone"} : CallAbort(c, [s EXCEPT !.wire = w], "aborting")
    BY <1>3 DEF FailSent
  <2> DEFINE x == [s EXCEPT !.wire = w]
  <2>2. DOMAIN x = Fields /\ x.wire = w /\ x.expired = s.expired
    BY <1>1 DEF Fields
  <2>3. CallAbort(c, x, "aborting")
    BY <2>1
  <2> HIDE DEF x
  <2>4. Becomes(c, x, "aborting", w)
    BY <2>2, <2>3, CallAbortBecomes
  <2>5. s.wire = "error"
    BY <1>1, <1>3 DEF WireFits, FailSent
  <2> QED BY <2>2, <2>4, <2>5, BecomesKeeps
<1>4. CASE Aborted(c)
  <2> DEFINE w == IF s.wire = "final" THEN "closed" ELSE s.wire
             t == [s EXCEPT !.at = "done", !.job = 0, !.lost = AbortRaised(c),
                            !.wire = IF @ = "final" THEN "closed" ELSE @]
  <2>1. DOMAIN t = Fields /\ t.at = "done" /\ t.wire = w /\ t.expired = s.expired
    BY <1>1 DEF Fields
  <2>2. stream' = [stream EXCEPT ![c] = t] /\ s.at = "aborting"
    BY <1>4 DEF Aborted, To
  <2> HIDE DEF t
  <2>3. Becomes(c, s, "done", w)
    BY <2>1, <2>2 DEF Becomes
  <2>4. s.wire \in {"open", "final", "closed", "gone"}
    BY <1>1, <2>2 DEF WireFits
  <2>5. w \in {"open", "closed", "gone"} /\ (s.wire # "final" => w = s.wire)
        /\ (s.wire = "final" => w = "closed")
    BY <2>4
  <2> HIDE DEF w
  <2> QED BY <2>3, <2>4, <2>5, BecomesKeeps
<1> QED BY <1>2, <1>3, <1>4

\* A connection opens, a deadline passes.
LEMMA ConnectionWires ==
    ASSUME Wires, NEW c \in Sessions, Connect(c) \/ DeadlinePasses(c)
    PROVE  Wires' /\ WiresMove
<1> DEFINE s == stream[c]
<1>1. WireFits(s) /\ DOMAIN s = Fields
  BY DEF Wires, WireFits
<1>2. CASE Connect(c)
  <2> DEFINE t == [s EXCEPT !.at = "start"]
  <2>1. DOMAIN t = Fields /\ t.at = "start" /\ t.wire = s.wire /\ t.expired = s.expired
    BY <1>1 DEF Fields
  <2>2. stream' = [stream EXCEPT ![c] = t] /\ s.at = "away"
    BY <1>2 DEF Connect, To
  <2> HIDE DEF t
  <2>3. s.wire = "open"
    BY <1>1, <2>2 DEF WireFits
  <2>4. Becomes(c, s, "start", "open")
    BY <2>1, <2>2, <2>3 DEF Becomes
  <2> QED BY <2>3, <2>4, BecomesKeeps
<1>3. CASE DeadlinePasses(c)
  <2> DEFINE t == [s EXCEPT !.expired = TRUE]
  <2>1. DOMAIN t = Fields /\ t.at = s.at /\ t.wire = s.wire /\ t.expired = TRUE
    BY <1>1 DEF Fields
  <2>2. stream' = [stream EXCEPT ![c] = t]
    BY <1>3 DEF DeadlinePasses, To
  <2> HIDE DEF t
  <2>3. WireFits(t) /\ WireMoves(s, t)
    BY <1>1, <2>1 DEF WireFits, WireMoves
  <2> QED BY <2>2, <2>3, OneStream
<1> QED BY <1>2, <1>3

-----------------------------------------------------------------------------

\* Every step of the service keeps the invariant and moves wires as allowed.
LEMMA ServiceNextWires == ASSUME Wires, [ServiceNext]_allVars PROVE Wires' /\ WiresMove
<1>1. CASE \/ LifespanStart \/ LifespanStop \/ (\E j \in JobIds : LoopStep(j)) \/ OwnerStep
           \/ UNCHANGED allVars
  <2>1. UNCHANGED stream
    BY <1>1 DEF LifespanStart, LifespanStop, LoopStep, OwnerStep, service, allVars
  <2> QED BY <2>1, QuietWires
<1>2. ASSUME NEW c \in Sessions, Connect(c) \/ Handler(c) \/ DeadlinePasses(c)
      PROVE  Wires' /\ WiresMove
  BY <1>2, ReceiveWires, ModelWires, SendWires, EndWires, ConnectionWires DEF Handler
<1> QED BY <1>1, <1>2 DEF ServiceNext

\* Where the handler is and what is on the wire agree in every state.
LEMMA WiresInvariant == ServiceSpec => []Wires
BY InitWires, ServiceNextWires, PTL DEF ServiceSpec

\* A client of transcribe_stream reads one terminal event at most, whatever the
\* handler, its timeouts and the owner thread do: behind an error comes only the
\* close, behind the final event the close, or the one error of a session whose
\* deadline cut the send of the final event short.
THEOREM OneTerminalEvent == ServiceSpec => TerminalEventLast
<1>1. WiresMove =>
        \A c \in Sessions :
         LET now == stream[c].wire
             then == stream'[c].wire
         IN /\ now = "error" => then \in {"error", "closed", "gone"}
            /\ now \in {"closed", "gone"} => then = now
            /\ now = "final" =>
                 \/ then \in {"final", "closed", "gone"}
                 \/ then = "error" /\ stream[c].expired
  BY DEF WiresMove, WireMoves
<1> QED BY <1>1, ServiceNextWires, WiresInvariant, PTL DEF ServiceSpec, TerminalEventLast

-----------------------------------------------------------------------------
(* The connections and the coordinator's jobs: the invariant *)

\* Every busy session has the operation that made it busy.
BusyHeld == \A c \in busy : \E j \in queue \cup Held : HoldsSession(j) /\ jobs[j].sid = c

\* A thread that ends takes no more jobs; only a file is transcribed.
Stopping ==
    /\ pc \in {"dead", "draining"} => accepting = FALSE
    /\ pc = "transcribe" => jobs[job].action = "transcribe_file"

\* A caller that has not been told of a failure.
Good == {"started", "result", "returned"}

\* The connection's handler may call the model again.
Open(c) ==
    \/ stream[c].at \in {"receiving", "sending"}
    \/ stream[c].at = "model" /\ jobs[stream[c].job].caller \in Good

\* The job has run and its result is, or will be, a value.
Made(j) ==
    \/ jobs[j].result = "value"
    \/ pc \in {"cleanup", "purge", "release", "resolve"} /\ job = j /\ outcome = "value"

\* Before its first call the coordinator knows nothing of a connection.
Fresh(c) == stream[c].at \in {"away", "start"} => c \notin Used /\ c \notin poisoned

\* The job a handler awaits is the one it submitted.
Awaits(c) ==
    stream[c].at = "model" =>
        /\ stream[c].job \in 1..issued
        /\ jobs[stream[c].job].sid = c
        /\ jobs[stream[c].job].action = ActionOf(stream[c].doing)
        /\ jobs[stream[c].job].caller # "none"

\* The jobs of session c are behind it, but for the one the handler awaits.
Alone(c) ==
    \A i \in 1..issued : jobs[i].sid = c =>
        jobs[i].caller = "returned" \/ (stream[c].at = "model" /\ stream[c].job = i)

\* The session is active, unless the service stops, it is being created or it ends.
Usable(c) ==
    \/ accepting = FALSE
    \/ c \in active
    \/ stream[c].doing = "finish" \/ stream[c].wire = "final"
    \/ stream[c].at = "model" /\ stream[c].doing = "create" /\ ~Made(stream[c].job)

\* Nobody removes session c.
Unharmed(c) == c \notin poisoned /\ (pc = "purge" => jobs[job].sid # c)

\* What ties a connection to the coordinator's jobs and registries.
Linked(c) ==
    /\ Fresh(c)
    /\ Awaits(c)
    /\ Open(c) => Unharmed(c) /\ Alone(c) /\ Usable(c)

SInv ==
    /\ IInv
    /\ BusyHeld
    /\ Stopping
    /\ lifespan = "starting" => \A c \in Sessions : stream[c].at = "away"
    /\ \A c \in Sessions : Linked(c)

\* What a step of the coordinator may do to session d: a new job of it comes from
\* a cleanup, poison from a caller that fails, and the session is removed only by
\* its own last operation or behind poison.
Steps(d) ==
    /\ \A i \in 1..issued :
         /\ jobs'[i].sid = jobs[i].sid /\ jobs'[i].action = jobs[i].action
         /\ jobs[i].caller = "returned" => jobs'[i].caller = "returned"
         /\ jobs[i].caller # "none" => jobs'[i].caller # "none"
         /\ jobs'[i].caller \in Good => jobs[i].caller \in Good
         /\ jobs[i].sid = d /\ jobs[i].action \in Creates /\ Made(i)' => Made(i) \/ d \in active'
    /\ 1..issued \subseteq 1..issued'
    /\ \A i \in 1..issued' : i \notin 1..issued /\ jobs'[i].sid = d =>
         \E k \in 1..issued : jobs[k].sid = d /\ jobs[k].caller = "unpoisoned"
    /\ d \in poisoned' /\ d \notin poisoned =>
         \E k \in 1..issued : /\ jobs[k].sid = d /\ jobs[k].caller # "returned"
                              /\ jobs'[k].caller \notin Good
    /\ pc' = "purge" /\ jobs'[job'].sid = d =>
         d \in poisoned \/ (pc = "purge" /\ jobs[job].sid = d)
    /\ accepting = FALSE => accepting' = FALSE
    /\ d \in active => \/ d \in active' \/ accepting' = FALSE
                       \/ pc = "purge" /\ jobs[job].sid = d
                       \/ /\ pc = "execute" /\ jobs[job].sid = d
                          /\ jobs[job].action \in {"finish_stream", "abort_stream"}

\* A job in hand has no value yet.
LEMMA HeldPending ==
    ASSUME IInv, NEW i \in queue \cup Held
    PROVE  i \in 1..issued /\ i \in JobIds /\ jobs[i].result # "value" /\ jobs[i].caller # "returned"
<1>1. i \in Unsettled /\ i \in 1..issued /\ i \in JobIds
  BY Ranges, Zenon
<1>2. jobs[i].result # "value"
  BY <1>1 DEF IInv, JobsInOrder
<1>3. ~(i > issued) /\ i \in JobIds
  BY <1>1, Ranges
<1> QED BY <1>1, <1>2, <1>3 DEF IInv, JobsInOrder

\* Such a step leaves a connection that it does not concern linked.
LEMMA StepsKeep ==
    ASSUME IInv, NEW d, Linked(d), Steps(d), stream'[d] = stream[d], mode' = mode
    PROVE  Linked(d)'
<1> DEFINE s == stream[d]
<1>1. Fresh(d)'
  <2> SUFFICES ASSUME s.at \in {"away", "start"} PROVE d \notin Used' /\ d \notin poisoned'
    BY DEF Fresh
  <2>1. d \notin Used /\ d \notin poisoned
    BY DEF Linked, Fresh
  <2>2. \A k \in 1..issued : jobs[k].sid # d
    BY <2>1 DEF Used
  <2>3. \A i \in 1..issued' : jobs'[i].sid # d
    BY <2>2 DEF Steps
  <2>4. d \notin poisoned'
    BY <2>1, <2>2 DEF Steps
  <2> QED BY <2>3, <2>4 DEF Used
<1>2. Awaits(d)'
  <2> SUFFICES ASSUME s.at = "model" PROVE Awaits(d)'
    BY DEF Awaits
  <2>1. /\ s.job \in 1..issued /\ jobs[s.job].sid = d
        /\ jobs[s.job].action = ActionOf(s.doing) /\ jobs[s.job].caller # "none"
    BY DEF Linked, Awaits
  <2>2. ActionOf(s.doing)' = ActionOf(s.doing)
    BY DEF ActionOf
  <2> QED BY <2>1, <2>2 DEF Awaits, Steps
<1>3. ASSUME Open(d)' PROVE Unharmed(d)' /\ Alone(d)' /\ Usable(d)'
  <2>1. s.at = "model" => s.job \in 1..issued /\ jobs[s.job].sid = d
                            /\ jobs[s.job].action = ActionOf(s.doing)
    BY DEF Linked, Awaits
  <2>2. Open(d)
    BY <1>3, <2>1 DEF Open, Steps
  <2>3. Unharmed(d) /\ Alone(d) /\ Usable(d)
    BY <2>2 DEF Linked
  <2>4. s.at = "model" => jobs'[s.job].caller \in Good /\ jobs[s.job].caller \in Good
    BY <1>3, <2>2 DEF Open
  <2>5. \A k \in 1..issued : jobs[k].sid = d /\ jobs[k].caller # "returned" =>
          jobs'[k].caller \in Good /\ jobs[k].caller # "unpoisoned"
    BY <2>3, <2>4 DEF Alone, Good
  <2>6. \A i \in 1..issued' : jobs'[i].sid = d => i \in 1..issued
    BY <2>5 DEF Steps
  <2>7. d \notin poisoned'
    BY <2>3, <2>5 DEF Steps, Unharmed
  <2>8. Unharmed(d)'
    BY <2>3, <2>7 DEF Steps, Unharmed
  <2>9. Alone(d)'
    BY <2>3, <2>6 DEF Alone, Steps
  <2> SUFFICES Usable(d)'
    BY <2>8, <2>9
  <2>10. CASE d \in active
    <3>1. CASE pc = "execute" /\ jobs[job].sid = d /\ jobs[job].action \in {"finish_stream", "abort_stream"}
      <4>1. job \in 1..issued /\ jobs[job].caller # "returned"
        BY <3>1, HeldPending DEF Held
      <4>2. s.at = "model" /\ s.job = job
        BY <2>3, <3>1, <4>1 DEF Alone
      <4>3. ActionOf(s.doing) \in {"finish_stream", "abort_stream"}
        BY <2>1, <3>1, <4>2
      <4>4. s.doing = "finish"
        BY <4>3 DEF ActionOf
      <4> QED BY <4>4 DEF Usable
    <3>2. CASE d \in active' \/ accepting' = FALSE
      BY <3>2 DEF Usable
    <3> QED BY <2>3, <2>10, <3>1, <3>2 DEF Steps, Unharmed
  <2>11. CASE s.at = "model" /\ s.doing = "create" /\ ~Made(s.job)
    <3>1. jobs[s.job].action \in Creates
      BY <2>1, <2>11 DEF ActionOf, Creates
    <3>2. Made(s.job)' => d \in active'
      BY <2>1, <2>11, <3>1 DEF Steps
    <3>3. Made(s.job)' \/ ~Made(s.job)'
      OBVIOUS
    <3> QED BY <2>11, <3>2, <3>3 DEF Usable
  <2>12. CASE accepting = FALSE \/ s.doing = "finish" \/ s.wire = "final"
    BY <2>12 DEF Usable, Steps
  <2> QED BY <2>3, <2>10, <2>11, <2>12 DEF Usable
<1> QED BY <1>1, <1>2, <1>3 DEF Linked

-----------------------------------------------------------------------------
(* The coordinator's callers *)

\* What a waiting coroutine's step does to its job and to the poison.
CallerGoes(j) ==
    /\ j \in 1..issued
    /\ jobs[j].caller \notin {"none", "returned"}
    /\ \A i \in JobIds \ {j} : jobs'[i] = jobs[i]
    /\ jobs'[j].sid = jobs[j].sid /\ jobs'[j].action = jobs[j].action
    /\ jobs'[j].result = "value" => jobs[j].result = "value"
    /\ jobs'[j].caller # "none"
    /\ jobs'[j].caller \in Good => jobs[j].caller \in Good
    /\ \A d \in poisoned' : d \in poisoned \/ (d = jobs[j].sid /\ jobs'[j].caller \notin Good)
    /\ UNCHANGED <<lifecycle, queue, active, busy, issued, worker>>

\* It disturbs no session but its own, and that one by failing.
LEMMA CallerGoesSteps ==
    ASSUME IInv, BusyHeld, Stopping, NEW j, CallerGoes(j)
    PROVE  BusyHeld' /\ Stopping' /\ \A d : Steps(d)
<1> USE DEF CallerGoes, lifecycle, worker
<1>1. /\ 1..issued \subseteq JobIds /\ queue \cup Held \subseteq 1..issued /\ Held' = Held
      /\ pc \in Holding \cup {"resolve"} => job \in 1..issued
  <2>1. pc \in Holding \cup {"resolve"} => job \in 1..issued
    BY DEF IInv, JobsInOrder
  <2> QED BY <2>1, Ranges DEF Held
<1>2. \A i \in 1..issued : /\ jobs'[i].sid = jobs[i].sid /\ jobs'[i].action = jobs[i].action
                           /\ jobs'[i].result = "value" => jobs[i].result = "value"
                           /\ jobs[i].caller = "returned" => jobs'[i].caller = "returned"
                           /\ jobs[i].caller # "none" => jobs'[i].caller # "none"
                           /\ jobs'[i].caller \in Good => jobs[i].caller \in Good
  BY <1>1
<1>3. BusyHeld'
  BY <1>1, <1>2 DEF BusyHeld, HoldsSession
<1>4. Stopping'
  BY <1>1, <1>2 DEF Stopping, Holding, BeforeRun
<1>5. ASSUME NEW d PROVE Steps(d)
  <2>1. \A i \in 1..issued : Made(i)' => Made(i)
    BY <1>2 DEF Made
  <2>2. d \in poisoned' /\ d \notin poisoned =>
         \E k \in 1..issued : /\ jobs[k].sid = d /\ jobs[k].caller # "returned"
                              /\ jobs'[k].caller \notin Good
    OBVIOUS
  <2>3. pc' = "purge" /\ jobs'[job'].sid = d => pc = "purge" /\ jobs[job].sid = d
    BY <1>1, <1>2 DEF Holding, BeforeRun
  <2> QED BY <1>1, <1>2, <2>1, <2>2, <2>3 DEF Steps
<1> QED BY <1>3, <1>4, <1>5

\* The ends of a coroutine, as EndCaller has them.
LEMMA EndCallerGoes ==
    ASSUME IInv, NEW j \in JobIds, jobs[j].caller \notin {"none", "returned"},
           NEW end \in Waiting \cup Ended, NEW started, NEW result, NEW poison,
           EndCaller(j, end, started, result, poison),
           result = "value" => jobs[j].result = "value",
           end \in Good => jobs[j].caller \in Good,
           ~poison \/ end \notin Good
    PROVE  CallerGoes(j)
<1> USE DEF EndCaller
<1>1. jobs[j] \in JobType /\ DOMAIN jobs = JobIds
  BY DEF IInv, TypeOK
<1>2. j \in 1..issued
  BY DEF IInv, TypeOK, JobsInOrder, NoJobRecord, JobIds
<1>3. /\ jobs'[j].action = jobs[j].action /\ jobs'[j].sid = jobs[j].sid
      /\ jobs'[j].result = result /\ jobs'[j].caller = end
      /\ \A i \in JobIds \ {j} : jobs'[i] = jobs[i]
  BY <1>1 DEF JobType
<1>4. end # "none"
  BY DEF Waiting, Ended
<1>5. \A d \in poisoned' : d \in poisoned \/ (d = jobs[j].sid /\ end \notin Good)
  <2>1. CASE poison
    BY <2>1 DEF SidOf
  <2>2. CASE ~poison
    BY <2>2
  <2> QED BY <2>1, <2>2
<1>6. UNCHANGED <<lifecycle, queue, active, busy, issued, worker>>
  BY DEF admission
<1> QED BY <1>2, <1>3, <1>4, <1>5, <1>6 DEF CallerGoes

\* _submit after its first await, and its cancellation.
LEMMA WaitingGoes ==
    ASSUME IInv, NEW j \in JobIds,
           \/ SeeStarted(j) \/ QueueTimeout(j) \/ SeeResult(j)
           \/ InferenceTimeout(j) \/ CancelCaller(j)
    PROVE  CallerGoes(j)
<1> USE DEF Waiting, Ended, Good
<1>1. jobs[j] \in JobType /\ DOMAIN jobs = JobIds
  BY DEF IInv, TypeOK
<1>2. CASE SeeStarted(j) /\ jobs[j].started = "set"
  <2>1. /\ jobs' = [jobs EXCEPT ![j].caller = "result"] /\ jobs[j].caller = "started"
        /\ UNCHANGED <<lifecycle, admission, registries, batch, issued, worker>>
    BY <1>2 DEF SeeStarted
  <2>2. j \in 1..issued
    BY <2>1 DEF IInv, TypeOK, JobsInOrder, NoJobRecord, JobIds
  <2>3. /\ jobs'[j].action = jobs[j].action /\ jobs'[j].sid = jobs[j].sid
        /\ jobs'[j].result = jobs[j].result /\ jobs'[j].caller = "result"
        /\ \A i \in JobIds \ {j} : jobs'[i] = jobs[i]
    BY <1>1, <2>1 DEF JobType
  <2>4. poisoned' = poisoned /\ UNCHANGED <<lifecycle, queue, active, busy, issued, worker>>
    BY <2>1 DEF registries, admission
  <2> QED BY <2>1, <2>2, <2>3, <2>4 DEF CallerGoes
<1>3. CASE SeeStarted(j) /\ jobs[j].started # "set"
  BY <1>3, EndCallerGoes DEF SeeStarted
<1>4. CASE QueueTimeout(j)
  BY <1>4, EndCallerGoes DEF QueueTimeout
<1>5. CASE SeeResult(j)
  <2>1. CASE jobs[j].result = "value"
    <3>1. /\ EndCaller(j, "returned", jobs[j].started, jobs[j].result,
                       jobs[j].cleanup /\ jobs[j].result = "not_ready")
          /\ jobs[j].caller = "result"
      BY <1>5, <2>1 DEF SeeResult
    <3>2. ~(jobs[j].cleanup /\ jobs[j].result = "not_ready")
      BY <2>1
    <3> QED BY <3>1, <3>2, EndCallerGoes
  <2>2. CASE jobs[j].result # "value"
    BY <1>5, <2>2, EndCallerGoes DEF SeeResult
  <2> QED BY <2>1, <2>2
<1>6. CASE InferenceTimeout(j)
  BY <1>6, EndCallerGoes DEF InferenceTimeout
<1>7. CASE CancelCaller(j)
  <2>1. CASE jobs[j].caller = "started" /\ jobs[j].started = "pending"
    <3>1. EndCaller(j, "gave_up", "cancelled", "cancelled", FALSE)
      BY <1>7, <2>1 DEF CancelCaller
    <3> QED BY <2>1, <3>1, EndCallerGoes
  <2>2. CASE jobs[j].caller = "cleanup"
    <3>1. EndCaller(j, "raised", jobs[j].started, jobs[j].result, FALSE)
      BY <1>7, <2>2 DEF CancelCaller
    <3> QED BY <2>2, <3>1, EndCallerGoes
  <2>3. CASE /\ jobs[j].caller \in {"started", "result"}
             /\ ~(jobs[j].caller = "started" /\ jobs[j].started = "pending")
    <3> DEFINE end == IF SidOf(j) = {} THEN "raised" ELSE "cleanup"
    <3>1. EndCaller(j, end, jobs[j].started, jobs[j].result, TRUE)
      BY <1>7, <2>3 DEF CancelCaller
    <3>2. end \in Waiting \cup Ended /\ end \notin Good
      OBVIOUS
    <3>3. jobs[j].caller \notin {"none", "returned"}
      BY <2>3
    <3> HIDE DEF end
    <3> QED BY <3>1, <3>2, <3>3, EndCallerGoes
  <2> QED BY <1>7, <2>1, <2>2, <2>3 DEF CancelCaller
<1> QED BY <1>2, <1>3, <1>4, <1>5, <1>6, <1>7

\* A job joins the queue for session c: the other sessions are not concerned, and
\* c only by the job.
LEMMA EnqueueSteps ==
    ASSUME IInv, BusyHeld, Stopping, NEW earlier \in [JobIds -> JobType], NEW action, NEW c,
           NEW byCleanup,
           \A i \in 1..issued :
             /\ earlier[i].action = jobs[i].action /\ earlier[i].sid = jobs[i].sid
             /\ earlier[i].result = jobs[i].result
             /\ jobs[i].caller = "returned" => earlier[i].caller = "returned"
             /\ jobs[i].caller # "none" => earlier[i].caller # "none"
             /\ earlier[i].caller \in Good => jobs[i].caller \in Good,
           Enqueue(earlier, action, c, byCleanup),
           busy' = busy \/ (busy' = busy \cup {c} /\ action \in SessionActions),
           UNCHANGED <<lifecycle, active, poisoned, worker>>
    PROVE  /\ BusyHeld' /\ Stopping'
           /\ \A d : \/ d # c
                     \/ \E k \in 1..issued : jobs[k].sid = d /\ jobs[k].caller = "unpoisoned"
                     => Steps(d)
<1> DEFINE new == issued + 1
<1> USE DEF lifecycle, worker
<1>0. issued < MaxJobs
  BY DEF Enqueue
<1>1. /\ issued \in Nat /\ 1..issued \subseteq JobIds /\ new \in JobIds
      /\ new \notin 1..issued /\ 1..issued' = 1..issued \cup {new} /\ new \in 1..issued'
      /\ queue' = queue \cup {new}
  BY <1>0, Ranges, CoordinatorAssumption DEF CoordinatorAssumption, JobIds, Enqueue
<1>2. /\ queue \cup Held \subseteq 1..issued /\ Held' = Held
      /\ pc \in Holding \cup {"resolve"} => job \in 1..issued
  <2>1. pc \in Holding \cup {"resolve"} => job \in 1..issued
    BY DEF IInv, JobsInOrder
  <2> QED BY <2>1, Ranges DEF Held
<1>3. jobs'[new] = NewJob(action, c, byCleanup) /\ \A i \in JobIds \ {new} : jobs'[i] = earlier[i]
  BY <1>1 DEF Enqueue
<1>4. \A i \in 1..issued : jobs'[i] = earlier[i]
  BY <1>1, <1>3
<1>5. jobs'[new].action = action /\ jobs'[new].sid = c
  BY <1>3 DEF NewJob, NoJobRecord
<1> HIDE DEF new
<1>6. \A i \in 1..issued : /\ jobs'[i].sid = jobs[i].sid /\ jobs'[i].action = jobs[i].action
                           /\ jobs'[i].result = jobs[i].result
                           /\ jobs[i].caller = "returned" => jobs'[i].caller = "returned"
                           /\ jobs[i].caller # "none" => jobs'[i].caller # "none"
                           /\ jobs'[i].caller \in Good => jobs[i].caller \in Good
  BY <1>4
<1>7. BusyHeld'
  <2> SUFFICES ASSUME NEW d \in busy'
               PROVE  \E k \in (queue \cup Held)' : jobs'[k].action \in SessionActions /\ jobs'[k].sid = d
    BY DEF BusyHeld, HoldsSession
  <2>1. (queue \cup Held)' = queue \cup Held \cup {new}
    BY <1>1, <1>2
  <2>2. CASE d \in busy
    <3>1. PICK k \in queue \cup Held : HoldsSession(k) /\ jobs[k].sid = d
      BY <2>2 DEF BusyHeld
    <3> QED BY <1>2, <1>6, <2>1, <3>1 DEF HoldsSession
  <2>3. CASE d = c /\ action \in SessionActions
    BY <1>5, <2>1, <2>3
  <2> QED BY <2>2, <2>3
<1>8. Stopping'
  BY <1>2, <1>6 DEF Stopping, Holding, BeforeRun
<1>9. ASSUME NEW d, \/ d # c
                    \/ \E k \in 1..issued : jobs[k].sid = d /\ jobs[k].caller = "unpoisoned"
      PROVE  Steps(d)
  <2>1. \A i \in 1..issued : Made(i)' => Made(i)
    BY <1>6 DEF Made
  <2>2. pc' = "purge" /\ jobs'[job'].sid = d => pc = "purge" /\ jobs[job].sid = d
    BY <1>2, <1>6 DEF Holding, BeforeRun
  <2>3. \A i \in 1..issued' : i \notin 1..issued /\ jobs'[i].sid = d =>
         \E k \in 1..issued : jobs[k].sid = d /\ jobs[k].caller = "unpoisoned"
    BY <1>1, <1>5, <1>9
  <2> QED BY <1>1, <1>6, <2>1, <2>2, <2>3 DEF Steps
<1> QED BY <1>7, <1>8, <1>9

\* Every step of a coroutine.
LEMMA CallerSteps ==
    ASSUME IInv, BusyHeld, Stopping, NEW j \in JobIds, Caller(j)
    PROVE  BusyHeld' /\ Stopping' /\ \A d : Steps(d)
<1> DEFINE sid == jobs[j].sid
           left == [jobs EXCEPT ![j].caller = "raised"]
<1>1. jobs[j] \in JobType /\ DOMAIN jobs = JobIds
  BY DEF IInv, TypeOK
<1>2. CASE \/ SeeStarted(j) \/ QueueTimeout(j) \/ SeeResult(j) \/ InferenceTimeout(j)
  BY <1>2, WaitingGoes, CallerGoesSteps
<1>3. ASSUME jobs[j].caller \in {"cleanup", "unpoisoned"},
             NEW end \in {"unpoisoned", "raised"}, jobs' = [jobs EXCEPT ![j].caller = end],
             poisoned' \subseteq poisoned \cup {sid},
             UNCHANGED <<lifecycle, queue, active, busy, issued, worker>>
      PROVE  CallerGoes(j)
  <2>1. j \in 1..issued
    BY <1>3 DEF IInv, TypeOK, JobsInOrder, NoJobRecord, JobIds
  <2>2. /\ jobs'[j].action = jobs[j].action /\ jobs'[j].sid = jobs[j].sid
        /\ jobs'[j].result = jobs[j].result /\ jobs'[j].caller = end
        /\ \A i \in JobIds \ {j} : jobs'[i] = jobs[i]
    BY <1>1, <1>3 DEF JobType
  <2> QED BY <1>3, <2>1, <2>2 DEF CallerGoes, Good
<1>4. CASE CleanupWaited(j)
  <2>1. PICK end \in {"unpoisoned", "raised"} : jobs' = [jobs EXCEPT ![j].caller = end]
    BY <1>4 DEF CleanupWaited
  <2>2. /\ jobs[j].caller = "cleanup" /\ poisoned' \subseteq poisoned
        /\ UNCHANGED <<lifecycle, queue, active, busy, issued, worker>>
    BY <1>4 DEF CleanupWaited, admission
  <2> QED BY <1>3, <2>1, <2>2, CallerGoesSteps
<1>5. CASE CleanupAborts(j)
  <2>1. CASE /\ jobs' = left /\ UNCHANGED <<admission, issued, busy>>
             /\ poisoned' \in {poisoned, poisoned \cup {sid}}
    <3>1. /\ jobs[j].caller = "unpoisoned" /\ poisoned' \subseteq poisoned \cup {sid}
          /\ UNCHANGED <<lifecycle, queue, active, busy, issued, worker>>
      BY <1>5, <2>1 DEF CleanupAborts, admission
    <3> QED BY <1>3, <2>1, <3>1, CallerGoesSteps
  <2>2. CASE AbortIdle(left, sid, TRUE) /\ UNCHANGED poisoned
    <3>1. /\ jobs[j].caller = "unpoisoned" /\ Enqueue(left, "abort_stream", sid, TRUE)
          /\ busy' = busy \cup {sid} /\ UNCHANGED <<lifecycle, active, poisoned, worker>>
      BY <1>5, <2>2 DEF CleanupAborts, AbortIdle
    <3>2. left \in [JobIds -> JobType]
      BY <1>1 DEF IInv, TypeOK, JobType, Waiting, Ended
    <3>3. /\ left[j].action = jobs[j].action /\ left[j].sid = jobs[j].sid
          /\ left[j].result = jobs[j].result /\ left[j].caller = "raised"
          /\ \A i \in JobIds \ {j} : left[i] = jobs[i]
      BY <1>1 DEF JobType
    <3>4. j \in 1..issued /\ 1..issued \subseteq JobIds
      BY <3>1, Ranges DEF IInv, TypeOK, JobsInOrder, NoJobRecord, JobIds
    <3>5. \A i \in 1..issued :
             /\ left[i].action = jobs[i].action /\ left[i].sid = jobs[i].sid
             /\ left[i].result = jobs[i].result
             /\ jobs[i].caller = "returned" => left[i].caller = "returned"
             /\ jobs[i].caller # "none" => left[i].caller # "none"
             /\ left[i].caller \in Good => jobs[i].caller \in Good
      BY <3>1, <3>3, <3>4 DEF Good
    <3>6. \E k \in 1..issued : jobs[k].sid = sid /\ jobs[k].caller = "unpoisoned"
      BY <3>1, <3>4
    <3>7. "abort_stream" \in SessionActions
      BY DEF SessionActions
    <3> HIDE DEF left, sid
    <3>8. /\ BusyHeld' /\ Stopping'
          /\ \A d : \/ d # sid
                    \/ \E k \in 1..issued : jobs[k].sid = d /\ jobs[k].caller = "unpoisoned"
                    => Steps(d)
      BY <3>1, <3>2, <3>5, <3>7, EnqueueSteps
    <3> QED BY <3>6, <3>8
  <2> QED BY <1>5, <2>1, <2>2 DEF CleanupAborts
<1> QED BY <1>2, <1>4, <1>5 DEF Caller

-----------------------------------------------------------------------------
(* The owner thread *)

\* What a step of the owner thread does to the jobs and the sessions.
WorkerGoes ==
    /\ \A i \in 1..issued : /\ jobs'[i].sid = jobs[i].sid /\ jobs'[i].action = jobs[i].action
                            /\ jobs'[i].caller = jobs[i].caller
                            /\ jobs[i].action \in Creates /\ Made(i)' =>
                                 Made(i) \/ jobs[i].sid \in active'
    /\ issued' = issued /\ poisoned' \subseteq poisoned
    /\ pc' = "purge" => job' = job /\ job \in 1..issued /\ jobs[job].sid \in poisoned
    /\ accepting = FALSE => accepting' = FALSE
    /\ \A d \in active : \/ d \in active' \/ accepting' = FALSE
                         \/ pc = "purge" /\ jobs[job].sid = d
                         \/ /\ pc = "execute" /\ jobs[job].sid = d
                            /\ jobs[job].action \in {"finish_stream", "abort_stream"}
    /\ \A d \in busy' : d \in busy /\ \A i \in queue \cup Held :
         HoldsSession(i) /\ jobs[i].sid = d => i \in (queue \cup Held)'

\* It makes no job and poisons nothing, and a busy session keeps its operation.
LEMMA WorkerGoesSteps ==
    ASSUME IInv, BusyHeld, WorkerGoes
    PROVE  BusyHeld' /\ \A d : Steps(d)
<1>1. queue \cup Held \subseteq 1..issued
  BY Ranges, Zenon
<1>2. BusyHeld'
  <2> SUFFICES ASSUME NEW d \in busy'
               PROVE  \E k \in (queue \cup Held)' : jobs'[k].action \in SessionActions /\ jobs'[k].sid = d
    BY DEF BusyHeld, HoldsSession
  <2>1. d \in busy
    BY DEF WorkerGoes
  <2>2. PICK k \in queue \cup Held : HoldsSession(k) /\ jobs[k].sid = d
    BY <2>1 DEF BusyHeld
  <2>3. k \in (queue \cup Held)' /\ k \in 1..issued
    BY <1>1, <2>2 DEF WorkerGoes
  <2> QED BY <2>2, <2>3 DEF WorkerGoes, HoldsSession
<1>3. ASSUME NEW d PROVE Steps(d)
  BY DEF WorkerGoes, Steps
<1> QED BY <1>2, <1>3

\* The owner thread's steps that leave the jobs and the registries as they are.
LEMMA QuietGoes ==
    ASSUME IInv, Stopping,
           \/ Load \/ GetJob \/ GetShutdown \/ PassCheck \/ Warmup \/ TranscribeEnds
           \/ CheckPoison \/ DrainShutdown
    PROVE  WorkerGoes /\ Stopping'
<1> USE DEF lifecycle, admission, registries, batch, worker, WorkerLeaves
<1>1. UNCHANGED <<jobs, active, poisoned, busy, issued>>
  BY DEF Load, GetJob, GetShutdown, PassCheck, Warmup, TranscribeEnds, CheckPoison, DrainShutdown
<1>2. (queue \cup Held)' = queue \cup Held
  <2>1. CASE GetJob
    <3>1. PICK j \in queue : queue' = queue \ {j} /\ job' = j /\ pc = "get" /\ pc' = "check"
      BY <2>1 DEF GetJob, Dequeue
    <3>2. Held = {} /\ Held' = {j}
      BY <3>1 DEF Held
    <3> QED BY <3>1, <3>2
  <2>2. CASE \/ Load \/ GetShutdown \/ PassCheck \/ Warmup \/ TranscribeEnds
             \/ CheckPoison \/ DrainShutdown
    <3>1. queue' = queue /\ job' = job /\ (pc \in Holding <=> pc' \in Holding)
      BY <2>2 DEF Load, GetShutdown, PassCheck, Warmup, TranscribeEnds, CheckPoison,
                  DrainShutdown, Holding, BeforeRun
    <3>2. Held' = Held
      BY <3>1 DEF Held, Holding, BeforeRun
    <3> QED BY <3>1, <3>2
  <2> QED BY <2>1, <2>2
<1>3. /\ accepting = FALSE => accepting' = FALSE
      /\ pc' \in {"dead", "draining"} => accepting' = FALSE
      /\ pc' # "transcribe"
  BY DEF Stopping, Load, GetJob, GetShutdown, PassCheck, Warmup, TranscribeEnds, CheckPoison,
         DrainShutdown
<1>4. \/ ~(pc' \in {"cleanup", "purge", "release", "resolve"} /\ outcome' = "value")
      \/ /\ job' = job /\ outcome' = outcome
         /\ pc \in {"cleanup", "purge", "release", "resolve"}
      \/ job' = job /\ jobs[job].action = "transcribe_file"
  BY DEF Stopping, Load, GetJob, GetShutdown, PassCheck, Warmup, TranscribeEnds, CheckPoison,
         DrainShutdown
<1>5. \A i \in 1..issued : jobs[i].action \in Creates /\ Made(i)' => Made(i)
  BY <1>1, <1>4 DEF Made, Creates
<1>6. pc' = "purge" => job' = job /\ job \in 1..issued /\ jobs[job].sid \in poisoned
  <2>1. pc' = "purge" => job' = job /\ pc = "cleanup" /\ jobs[job].sid \in poisoned
    BY DEF Load, GetJob, GetShutdown, PassCheck, Warmup, TranscribeEnds, CheckPoison, DrainShutdown,
           Stopping
  <2> QED BY <2>1 DEF IInv, JobsInOrder, Holding, BeforeRun
<1>7. WorkerGoes
  BY <1>1, <1>2, <1>3, <1>5, <1>6 DEF WorkerGoes
<1>8. Stopping'
  BY <1>3 DEF Stopping
<1> QED BY <1>7, <1>8

\* The owner thread's steps that settle the futures of its job.
LEMMA SettlingGoes ==
    ASSUME IInv, Stopping, Claim \/ Expire \/ Resolve
    PROVE  WorkerGoes /\ Stopping'
<1> USE DEF lifecycle, admission, registries, batch, WorkerLeaves
<1>1. pc \in Holding \cup {"resolve"} /\ job \in 1..issued
  BY DEF Claim, Expire, Resolve, Holding, BeforeRun, IInv, JobsInOrder
<1>2. 1..issued \subseteq JobIds /\ job \in JobIds
  BY <1>1, Ranges
<1>3. jobs[job] \in JobType /\ DOMAIN jobs = JobIds
  BY <1>2 DEF IInv, TypeOK
<1>4. UNCHANGED <<queue, active, poisoned, busy, issued>> /\ Held' = Held
  BY DEF Claim, Expire, Resolve, Held
<1>5. /\ accepting = FALSE => accepting' = FALSE
      /\ pc' \in {"dead", "draining"} => accepting' = FALSE
      /\ pc' \notin {"transcribe", "purge"}
  BY DEF Claim, Expire, Resolve
<1>6. /\ \A i \in JobIds \ {job} : jobs'[i] = jobs[i]
      /\ jobs'[job].sid = jobs[job].sid /\ jobs'[job].action = jobs[job].action
      /\ jobs'[job].caller = jobs[job].caller
      /\ jobs'[job].result = "value" =>
           jobs[job].result = "value" \/ (pc = "resolve" /\ outcome = "value")
  <2>1. CASE Claim
    <3>1. jobs' = [jobs EXCEPT ![job].started = "set"]
      BY <2>1 DEF Claim
    <3> QED BY <1>2, <1>3, <3>1 DEF JobType
  <2>2. CASE Expire
    <3>1. jobs' = [jobs EXCEPT ![job].started = IF @ = "pending" THEN "error" ELSE @,
                               ![job].result = IF @ = "pending" THEN "cancelled" ELSE @]
      BY <2>2 DEF Expire, Rejected
    <3> QED BY <1>2, <1>3, <3>1 DEF JobType
  <2>3. CASE Resolve /\ outcome = "skip"
    BY <2>3 DEF Resolve
  <2>4. CASE Resolve /\ outcome # "skip"
    <3> DEFINE settled == [value |-> "value", error |-> "error", fatal |-> "not_ready"]
               early == [error |-> "set", fatal |-> "error"]
               started == IF jobs[job].started = "pending" THEN early[outcome] ELSE jobs[job].started
               result == IF jobs[job].result = "pending" THEN settled[outcome] ELSE jobs[job].result
    <3>1. jobs' = [jobs EXCEPT ![job].started = started, ![job].result = result]
      BY <1>3, <2>4 DEF Resolve, JobType
    <3>2. outcome \in {"value", "error", "fatal"} /\ pc = "resolve"
      BY <2>4 DEF IInv, TypeOK, Resolve
    <3>3. settled[outcome] = "value" => outcome = "value"
      BY <3>2
    <3>4. result = "value" => jobs[job].result = "value" \/ (pc = "resolve" /\ outcome = "value")
      BY <3>2, <3>3
    <3> HIDE DEF result, started
    <3> QED BY <1>2, <1>3, <3>1, <3>4 DEF JobType
  <2> QED BY <2>1, <2>2, <2>3, <2>4
<1>7. \/ ~(pc' \in {"cleanup", "purge", "release", "resolve"} /\ outcome' = "value")
      \/ /\ job' = job /\ outcome' = outcome
         /\ pc \in {"cleanup", "purge", "release", "resolve"}
  BY DEF Claim, Expire, Resolve
<1>8. \A i \in 1..issued : Made(i)' => Made(i)
  BY <1>2, <1>6, <1>7 DEF Made
<1>9. WorkerGoes
  BY <1>2, <1>4, <1>5, <1>6, <1>8 DEF WorkerGoes
<1>10. Stopping'
  BY <1>5 DEF Stopping
<1> QED BY <1>9, <1>10

\* _execute_job: a session becomes active with its create and goes with its end.
LEMMA ExecuteGoes == ASSUME IInv, Stopping, Execute PROVE WorkerGoes /\ Stopping'
<1> USE DEF lifecycle, admission
<1>1. /\ pc = "execute" /\ job' = job
      /\ UNCHANGED <<lifecycle, queue, poisoned, busy, issued>>
  BY DEF Execute
<1>2. job \in 1..issued /\ 1..issued \subseteq JobIds /\ job \in JobIds
  BY <1>1, Ranges DEF IInv, JobsInOrder, Holding, BeforeRun
<1>3. jobs[job] \in JobType /\ DOMAIN jobs = JobIds
  BY <1>2 DEF IInv, TypeOK
<1>4. pc' \in {"cleanup", "transcribe"}
  BY DEF Execute, ExecuteCreate, ExecuteAudio, ExecuteEnd, ExecuteFile, ExecuteDies
<1>5. (queue \cup Held)' = queue \cup Held
  BY <1>1, <1>4 DEF Held
<1>6. pc' = "transcribe" => jobs[job].action = "transcribe_file" /\ jobs' = jobs
  BY DEF Execute, ExecuteCreate, ExecuteAudio, ExecuteEnd, ExecuteFile, ExecuteDies
<1>7. \/ jobs' = jobs /\ (outcome' = "value" /\ pc' = "cleanup" => jobs[job].action \notin Creates)
      \/ jobs' = [jobs EXCEPT ![job].holdsStream = FALSE] /\ jobs[job].sid \in active'
  BY DEF Execute, ExecuteCreate, ExecuteAudio, ExecuteEnd, ExecuteFile, ExecuteDies, Creates, Chunks
<1>8. \A i \in 1..issued : /\ jobs'[i].sid = jobs[i].sid /\ jobs'[i].action = jobs[i].action
                           /\ jobs'[i].caller = jobs[i].caller /\ jobs'[i].result = jobs[i].result
  BY <1>2, <1>3, <1>7 DEF JobType
<1>9. \A i \in 1..issued : jobs[i].action \in Creates /\ Made(i)' => Made(i) \/ jobs[i].sid \in active'
  BY <1>1, <1>4, <1>7, <1>8 DEF Made
<1>10. \A d \in active : \/ d \in active'
                         \/ /\ jobs[job].sid = d
                            /\ jobs[job].action \in {"finish_stream", "abort_stream"}
  BY DEF Execute, ExecuteCreate, ExecuteAudio, ExecuteEnd, ExecuteFile, ExecuteDies
<1>11. WorkerGoes
  BY <1>1, <1>4, <1>5, <1>8, <1>9, <1>10 DEF WorkerGoes
<1>12. Stopping'
  BY <1>1, <1>4, <1>6 DEF Stopping
<1> QED BY <1>11, <1>12

\* _cleanup_poisoned_session's second half.
LEMMA PurgeGoes == ASSUME IInv, Stopping, Purge PROVE WorkerGoes /\ Stopping'
<1> USE DEF lifecycle, admission
<1>1. /\ pc = "purge" /\ pc' = "release"
      /\ outcome' = outcome \/ outcome' = "fatal"
      /\ active' = active \ {jobs[job].sid}
      /\ poisoned' = poisoned \ {jobs[job].sid} /\ busy' = busy \ {jobs[job].sid}
      /\ UNCHANGED <<lifecycle, queue, jobs, issued, job>>
  BY DEF Purge
<1>2. (queue \cup Held)' = queue \cup Held
  BY <1>1 DEF Held
<1>3. \A i : Made(i)' => Made(i)
  BY <1>1 DEF Made
<1>4. WorkerGoes
  BY <1>1, <1>2, <1>3 DEF WorkerGoes
<1>5. Stopping'
  BY <1>1 DEF Stopping
<1> QED BY <1>4, <1>5

\* A job's reservations are given back when it leaves the thread or the queue.
LEMMA ReleasingGoes ==
    ASSUME IInv, Stopping, Release \/ DrainJob
    PROVE  WorkerGoes /\ Stopping'
<1> USE DEF lifecycle, worker
<1>1. /\ UNCHANGED <<lifecycle, active, poisoned, issued, job, outcome>>
      /\ pc \in {"release", "draining"} /\ pc' \in {"resolve", "draining"}
      /\ pc' = "resolve" => pc = "release"
      /\ pc' = "draining" => pc = "draining"
  BY DEF Release, DrainJob
<1>2. /\ 1..issued \subseteq JobIds /\ queue \cup Held \subseteq 1..issued
  BY Ranges, Zenon
<1>3. \E i \in queue \cup Held :
        /\ (queue \cup Held)' = (queue \cup Held) \ {i}
        /\ ReleaseJob(i, jobs) \/ ReleaseJob(i, Rejected(i))
  <2>1. CASE Release
    <3>1. /\ pc = "release" /\ pc' = "resolve" /\ queue' = queue /\ ReleaseJob(job, jobs)
      BY <2>1 DEF Release
    <3>2. job \notin queue
      BY <3>1 DEF IInv, JobsInOrder, Holding, BeforeRun
    <3>3. Held = {job} /\ Held' = {}
      BY <3>1 DEF Held
    <3> QED BY <3>1, <3>2, <3>3
  <2>2. CASE DrainJob
    <3>1. PICK i \in queue : queue' = queue \ {i} /\ ReleaseJob(i, Rejected(i))
      BY <2>2 DEF DrainJob, Dequeue
    <3>2. Held = {} /\ Held' = {}
      BY <2>2 DEF DrainJob, Held
    <3> QED BY <3>1, <3>2
  <2> QED BY <2>1, <2>2
<1>4. PICK i \in queue \cup Held :
        /\ (queue \cup Held)' = (queue \cup Held) \ {i}
        /\ ReleaseJob(i, jobs) \/ ReleaseJob(i, Rejected(i))
  BY <1>3
<1>5. i \in JobIds /\ i \in 1..issued
  BY <1>2
<1>6. jobs[i] \in JobType /\ jobs \in [JobIds -> JobType]
  BY <1>5 DEF IInv, TypeOK
<1>7. /\ Rejected(i) \in [JobIds -> JobType]
      /\ \A k \in JobIds \ {i} : Rejected(i)[k] = jobs[k]
      /\ Rejected(i)[i].sid = jobs[i].sid /\ Rejected(i)[i].action = jobs[i].action
      /\ Rejected(i)[i].caller = jobs[i].caller
      /\ Rejected(i)[i].result = "value" => jobs[i].result = "value"
  BY <1>5, <1>6 DEF Rejected, JobType
<1>8. PICK current \in [JobIds -> JobType] :
        /\ ReleaseJob(i, current)
        /\ \A k \in JobIds \ {i} : current[k] = jobs[k]
        /\ current[i].sid = jobs[i].sid /\ current[i].action = jobs[i].action
        /\ current[i].caller = jobs[i].caller
        /\ current[i].result = "value" => jobs[i].result = "value"
  BY <1>4, <1>6, <1>7
<1>9. jobs' = current \/ jobs' = [current EXCEPT ![i].holdsStream = FALSE]
  BY <1>8 DEF ReleaseJob
<1>10. current[i] \in JobType
  BY <1>5
<1>11. /\ jobs'[i].sid = jobs[i].sid /\ jobs'[i].action = jobs[i].action
       /\ jobs'[i].caller = jobs[i].caller
       /\ jobs'[i].result = "value" => jobs[i].result = "value"
       /\ \A k \in JobIds \ {i} : jobs'[k] = jobs[k]
  BY <1>5, <1>8, <1>9, <1>10 DEF JobType
<1>12. \A k \in 1..issued : Made(k)' => Made(k)
  BY <1>1, <1>2, <1>11 DEF Made
<1>13. busy' \subseteq busy /\ (HoldsSession(i) => jobs[i].sid \notin busy')
  BY <1>8 DEF ReleaseJob
<1>14. WorkerGoes
  BY <1>1, <1>2, <1>4, <1>11, <1>12, <1>13 DEF WorkerGoes
<1>15. Stopping'
  BY <1>1 DEF Stopping
<1> QED BY <1>14, <1>15

\* _finalize_worker's last critical section.
LEMMA FinalizeGoes == ASSUME IInv, Stopping, Finalize PROVE WorkerGoes /\ Stopping'
<1>1. /\ pc = "draining" /\ pc' = "dead" /\ active' = {} /\ poisoned' = {} /\ busy' = {}
      /\ UNCHANGED <<accepting, jobs, issued>>
  BY DEF Finalize
<1>2. accepting = FALSE
  BY <1>1 DEF Stopping
<1>3. \A i : Made(i)' => Made(i)
  BY <1>1 DEF Made
<1> QED BY <1>1, <1>2, <1>3 DEF WorkerGoes, Stopping

\* Every step of the owner thread.
LEMMA WorkerSteps ==
    ASSUME IInv, BusyHeld, Stopping, Worker
    PROVE  BusyHeld' /\ Stopping' /\ \A d : Steps(d)
<1>1. WorkerGoes /\ Stopping'
  BY QuietGoes, SettlingGoes, ExecuteGoes, PurgeGoes, ReleasingGoes, FinalizeGoes DEF Worker
<1> QED BY <1>1, WorkerGoesSteps

-----------------------------------------------------------------------------
(* A handler's calls of the coordinator *)

\* A step that leaves the coordinator alone, or only refuses what comes after it.
LEMMA StillSteps ==
    ASSUME IInv, BusyHeld, Stopping, UNCHANGED vars \/ Stop
    PROVE  BusyHeld' /\ Stopping' /\ \A d : Steps(d)
<1> USE DEF vars, lifecycle, admission, registries, batch, worker
<1>1. /\ UNCHANGED <<queue, active, poisoned, busy, jobs, issued, pc, job, outcome>>
      /\ accepting' \in {accepting, FALSE}
  BY DEF Stop
<1>2. Held' = Held /\ \A i : Made(i)' => Made(i)
  BY <1>1 DEF Held, Made
<1>3. BusyHeld' /\ Stopping'
  BY <1>1, <1>2 DEF BusyHeld, HoldsSession, Stopping
<1>4. ASSUME NEW d PROVE Steps(d)
  BY <1>1, <1>2 DEF Steps
<1> QED BY <1>3, <1>4

\* What the step of connection c does to the coordinator: nothing, a call for its
\* own session, or the cancellation of a caller.
OwnCall(c) ==
    \/ UNCHANGED vars
    \/ \E action \in Creates : CreateStream(action, c)
    \/ \E action \in SessionActions : SubmitOperation(action, c)
    \/ AbortPoisons(c) \/ AbortQueued(c)
    \/ \E j \in JobIds : CancelCaller(j)

\* It keeps the coordinator's invariant and disturbs no other session.
LEMMA OwnCallKeeps ==
    ASSUME IInv, BusyHeld, Stopping, NEW c \in Sessions, OwnCall(c)
    PROVE  IInv' /\ BusyHeld' /\ Stopping' /\ \A d : d # c => Steps(d)
<1>1. CASE UNCHANGED vars
  BY <1>1, StillSteps, NextIInv
<1>2. CASE \E j \in JobIds : CancelCaller(j)
  BY <1>2, WaitingGoes, CallerGoesSteps, WaitingIInv
<1>3. ASSUME NEW action, Enqueue(jobs, action, c, FALSE),
             busy' = busy \/ (busy' = busy \cup {c} /\ action \in SessionActions),
             UNCHANGED <<lifecycle, active, poisoned, worker>>
      PROVE  BusyHeld' /\ Stopping' /\ \A d : d # c => Steps(d)
  <2>1. jobs \in [JobIds -> JobType]
    BY DEF IInv, TypeOK
  <2> QED BY <1>3, <2>1, EnqueueSteps
<1>4. CASE \E action \in Creates : CreateStream(action, c)
  <2>1. PICK action \in Creates : CreateStream(action, c)
    BY <1>4
  <2> QED BY <1>3, <1>4, <2>1, ClientIInv DEF CreateStream
<1>5. CASE \E action \in SessionActions : SubmitOperation(action, c)
  <2>1. PICK action \in SessionActions : SubmitOperation(action, c)
    BY <1>5
  <2> QED BY <1>3, <1>5, <2>1, ClientIInv DEF SubmitOperation
<1>6. CASE AbortQueued(c)
  <2>1. "abort_stream" \in SessionActions
    BY DEF SessionActions
  <2> QED BY <1>3, <1>6, <2>1, ClientIInv DEF AbortQueued, AbortIdle
<1>7. CASE AbortPoisons(c)
  <2> USE DEF lifecycle, admission, worker
  <2>1. /\ UNCHANGED <<accepting, queue, active, busy, jobs, issued, pc, job, outcome>>
        /\ poisoned' = poisoned \cup {c}
    BY <1>7 DEF AbortPoisons, AbortBusy
  <2>2. Held' = Held /\ \A i : Made(i)' => Made(i)
    BY <2>1 DEF Held, Made
  <2>3. BusyHeld' /\ Stopping'
    BY <2>1, <2>2 DEF BusyHeld, HoldsSession, Stopping
  <2>4. ASSUME NEW d, d # c PROVE Steps(d)
    BY <2>1, <2>2, <2>4 DEF Steps
  <2> QED BY <1>7, <2>3, <2>4, ClientIInv
<1> QED BY <1>1, <1>2, <1>4, <1>5, <1>6, <1>7 DEF OwnCall

\* The step of a connection that leaves it linked.
LEMMA OwnKeeps ==
    ASSUME SInv, Wires, NEW c \in Sessions, OwnCall(c), UNCHANGED <<lifespan, mode>>,
           NEW t, stream' = [stream EXCEPT ![c] = t], Linked(c)',
           stream[c].at # "away" \/ lifespan # "starting"
    PROVE  SInv'
<1>1. IInv' /\ BusyHeld' /\ Stopping' /\ \A d : d # c => Steps(d)
  BY OwnCallKeeps DEF SInv
<1>2. \A d \in Sessions : d # c => stream'[d] = stream[d]
  BY DEF Wires
<1>3. \A d \in Sessions : Linked(d)'
  <2> SUFFICES ASSUME NEW d \in Sessions, d # c PROVE Linked(d)'
    OBVIOUS
  <2>1. IInv /\ Linked(d) /\ Steps(d) /\ stream'[d] = stream[d] /\ mode' = mode
    BY <1>1, <1>2 DEF SInv
  <2> QED BY <2>1, StepsKeep
<1>4. lifespan' # "starting"
  BY DEF SInv
<1> QED BY <1>1, <1>3, <1>4 DEF SInv

\* The connection turns to its end, from where it does not call the model again.
LEMMA ShutKeeps ==
    ASSUME SInv, Wires, NEW c \in Sessions, OwnCall(c), UNCHANGED <<lifespan, mode>>,
           NEW s, NEW a, NEW w, Becomes(c, s, a, w), stream[c].at # "away",
           a \notin {"away", "start", "model", "receiving", "sending"}
    PROVE  SInv'
<1>1. PICK t : stream' = [stream EXCEPT ![c] = t] /\ t.at = a
  BY DEF Becomes
<1>2. stream'[c].at = a
  BY <1>1 DEF Wires
<1>3. Linked(c)'
  BY <1>2 DEF Linked, Fresh, Awaits, Open
<1> QED BY <1>1, <1>3, OwnKeeps

\* A call of abort_stream, and of fail().
LEMMA AbortKeeps ==
    ASSUME SInv, Wires, NEW c \in Sessions, NEW s, DOMAIN s = Fields, NEW then,
           CallAbort(c, s, then) \/ (Fail(c, s) /\ then = "failing"), stream[c].at # "away",
           then \notin {"away", "start", "model", "receiving", "sending"}
    PROVE  SInv'
<1>1. OwnCall(c) /\ UNCHANGED <<lifespan, mode>>
  BY DEF CallAbort, Fail, OwnCall, AbortPoisons, AbortQueued
<1>2. \E w : Becomes(c, s, then, w)
  BY CallAbortBecomes, FailBecomes
<1> QED BY <1>1, <1>2, ShutKeeps

\* Nothing of session c is under way, and nobody removes it.
Ready(c) ==
    /\ Unharmed(c)
    /\ \A i \in 1..issued : jobs[i].sid = c => jobs[i].caller = "returned"

\* _await_model_operation, from a state in which nothing of c is under way.
LEMMA CallModelKeeps ==
    ASSUME SInv, Wires, NEW c \in Sessions, NEW s, DOMAIN s = Fields, NEW doing,
           CallModel(c, s, doing), Ready(c), stream[c].at # "away"
    PROVE  SInv'
<1> DEFINE new == issued + 1
           t == [s EXCEPT !.at = "model", !.doing = doing, !.job = issued + 1]
<1>1. CASE CallAbort(c, s, "expiring") \/ Fail(c, s)
  <2>1. CallAbort(c, s, "expiring") \/ (Fail(c, s) /\ "failing" = "failing")
    BY <1>1
  <2> QED BY <2>1, AbortKeeps
<1>2. CASE /\ IF doing = "create" THEN CreateStream(ActionOf(doing), c)
              ELSE SubmitOperation(ActionOf(doing), c)
           /\ To(c, t)
           /\ UNCHANGED <<lifespan, mode>>
  <2>1. t.at = "model" /\ t.doing = doing /\ t.job = new
    BY DEF Fields
  <2>2. stream' = [stream EXCEPT ![c] = t]
    BY <1>2 DEF To
  <2> HIDE DEF t
  <2>3. stream'[c].at = "model" /\ stream'[c].doing = doing /\ stream'[c].job = new
    BY <2>1, <2>2 DEF Wires
  <2>4. IF doing = "create" THEN ActionOf(doing) \in Creates ELSE ActionOf(doing) \in SessionActions
    BY DEF ActionOf, Creates, SessionActions, Chunks
  <2>5. OwnCall(c)
    BY <1>2, <2>4 DEF OwnCall
  <2>6. /\ Enqueue(jobs, ActionOf(doing), c, FALSE)
        /\ UNCHANGED <<lifecycle, active, poisoned, worker>>
        /\ doing # "create" => c \in active
    BY <1>2, <2>4 DEF CreateStream, SubmitOperation, OperationAdmitted, Admissible
  <2>7. jobs \in [JobIds -> JobType] /\ IInv /\ BusyHeld /\ Stopping
    BY DEF SInv, IInv, TypeOK
  <2>8. /\ new \in 1..issued' /\ new \notin 1..issued /\ 1..issued' = 1..issued \cup {new}
        /\ \A i \in 1..issued : jobs'[i] = jobs[i]
        /\ jobs'[new] = NewJob(ActionOf(doing), c, FALSE)
    <3>1. issued \in Nat /\ MaxJobs \in Nat /\ 1..issued \subseteq JobIds /\ issued < MaxJobs
          /\ issued' = issued + 1
          /\ jobs' = [jobs EXCEPT ![issued + 1] = NewJob(ActionOf(doing), c, FALSE)]
      BY <2>6, <2>7, Ranges, CoordinatorAssumption DEF Enqueue, CoordinatorAssumption
    <3>2. /\ new \in 1..issued' /\ new \notin 1..issued /\ 1..issued' = 1..issued \cup {new}
          /\ new \in JobIds
      BY <3>1 DEF JobIds
    <3> QED BY <2>7, <3>1, <3>2
  <2>9. /\ jobs'[new].sid = c /\ jobs'[new].action = ActionOf(doing)
        /\ jobs'[new].caller = "started" /\ jobs'[new].result = "pending"
    BY <2>8 DEF NewJob, NoJobRecord
  <2>10. ActionOf(doing)' = ActionOf(doing)
    BY <1>2 DEF ActionOf
  <2>11. Fresh(c)' /\ Awaits(c)'
    BY <2>3, <2>8, <2>9, <2>10 DEF Fresh, Awaits
  <2>12. pc \in Holding \cup {"resolve"} => job \in 1..issued
    BY <2>7 DEF IInv, JobsInOrder
  <2>13. Unharmed(c)'
    BY <2>6, <2>8, <2>12 DEF Ready, Unharmed, worker, Holding, BeforeRun
  <2>14. Alone(c)'
    BY <2>3, <2>8 DEF Ready, Alone
  <2>15. ~Made(stream[c].job)'
    BY <2>3, <2>6, <2>8, <2>9, <2>12 DEF Made, worker, Holding, BeforeRun
  <2>16. Usable(c)'
    BY <2>3, <2>6, <2>15 DEF Usable, lifecycle
  <2>17. Linked(c)'
    BY <2>11, <2>13, <2>14, <2>16 DEF Linked
  <2> QED BY <1>2, <2>2, <2>5, <2>17, OwnKeeps
<1> QED BY <1>1, <1>2 DEF CallModel, ExpireSession

\* The handler waits for the client, or for a send.
LEMMA RestKeeps ==
    ASSUME SInv, Wires, NEW c \in Sessions, UNCHANGED <<vars, lifespan, mode>>,
           NEW t, stream' = [stream EXCEPT ![c] = t], t.at \in {"receiving", "sending"},
           Ready(c), stream[c].at # "away",
           accepting = FALSE \/ c \in active \/ t.doing = "finish" \/ t.wire = "final"
    PROVE  SInv'
<1> USE DEF vars, lifecycle, registries, worker
<1>1. stream'[c] = t
  BY DEF Wires
<1>2. Unharmed(c)' /\ Alone(c)' /\ Usable(c)'
  BY <1>1 DEF Ready, Unharmed, Alone, Usable
<1>3. Linked(c)'
  BY <1>1, <1>2 DEF Linked, Fresh, Awaits
<1>4. OwnCall(c)
  BY DEF OwnCall
<1> QED BY <1>3, <1>4, OwnKeeps

\* Where the handler has the last operation behind it, nothing of its session is
\* under way, and the session is there, unless the service stops or it ends.
LEMMA OpenReady ==
    ASSUME SInv, NEW c \in Sessions,
           \/ stream[c].at \in {"receiving", "sending"}
           \/ stream[c].at = "model" /\ jobs[stream[c].job].caller = "returned"
    PROVE  /\ Ready(c)
           /\ \/ accepting = FALSE \/ c \in active
              \/ stream[c].doing = "finish" \/ stream[c].wire = "final"
<1>1. Open(c) /\ Linked(c)
  BY DEF Open, Good, SInv
<1>2. Unharmed(c) /\ Alone(c) /\ Usable(c)
  BY <1>1 DEF Linked
<1>3. Ready(c)
  BY <1>2 DEF Ready, Alone
<1>4. stream[c].at = "model" => Made(stream[c].job)
  <2> SUFFICES ASSUME stream[c].at = "model" PROVE Made(stream[c].job)
    OBVIOUS
  <2>1. stream[c].job \in 1..issued /\ jobs[stream[c].job].caller = "returned"
    BY <1>1 DEF Linked, Awaits
  <2>2. stream[c].job \in JobIds /\ ~(stream[c].job > issued)
    BY <2>1, Ranges DEF SInv
  <2> QED BY <2>1, <2>2 DEF Made, SInv, IInv, JobsInOrder
<1> QED BY <1>2, <1>3, <1>4 DEF Usable

\* What a handler does next after a model operation.
LEMMA ContinueKeeps ==
    ASSUME SInv, Wires, NEW c \in Sessions, NEW s, DOMAIN s = Fields, Continue(c, s), Ready(c),
           stream[c].at # "away", accepting = FALSE \/ c \in active
    PROVE  SInv'
<1>1. CASE \E next : CallModel(c, s, next)
  BY <1>1, CallModelKeeps
<1>2. CASE /\ To(c, [s EXCEPT !.at = "receiving", !.doing = "none", !.job = 0])
           /\ UNCHANGED <<vars, lifespan, mode>>
  <2> DEFINE t == [s EXCEPT !.at = "receiving", !.doing = "none", !.job = 0]
  <2>1. t.at = "receiving"
    BY DEF Fields
  <2>2. stream' = [stream EXCEPT ![c] = t]
    BY <1>2 DEF To
  <2> HIDE DEF t
  <2> QED BY <1>2, <2>1, <2>2, RestKeeps
<1> QED BY <1>1, <1>2 DEF Continue

\* The final event goes on the wire.
LEMMA SendFinalKeeps ==
    ASSUME SInv, Wires, NEW c \in Sessions, NEW s, DOMAIN s = Fields, SendFinal(c, s), Ready(c),
           stream[c].at # "away"
    PROVE  SInv'
<1> DEFINE t == [s EXCEPT !.at = "sending", !.wire = "final", !.job = 0]
<1>1. t.at = "sending" /\ t.wire = "final"
  BY DEF Fields
<1>2. stream' = [stream EXCEPT ![c] = t] /\ UNCHANGED <<vars, lifespan, mode>>
  BY DEF SendFinal, To
<1> HIDE DEF t
<1> QED BY <1>1, <1>2, RestKeeps

\* The events of a result are sent.
LEMMA SendingKeeps ==
    ASSUME SInv, Wires, NEW c \in Sessions, NEW s, DOMAIN s = Fields,
           To(c, [s EXCEPT !.at = "sending"]), UNCHANGED <<vars, lifespan, mode>>,
           Ready(c), stream[c].at # "away",
           accepting = FALSE \/ c \in active \/ s.doing = "finish" \/ s.wire = "final"
    PROVE  SInv'
<1> DEFINE t == [s EXCEPT !.at = "sending"]
<1>1. t.at = "sending" /\ t.doing = s.doing /\ t.wire = s.wire
  BY DEF Fields
<1>2. stream' = [stream EXCEPT ![c] = t]
  BY DEF To
<1> HIDE DEF t
<1>3. accepting = FALSE \/ c \in active \/ t.doing = "finish" \/ t.wire = "final"
  BY <1>1
<1> QED BY <1>1, <1>2, <1>3, RestKeeps

-----------------------------------------------------------------------------
(* The handler's steps and the invariant *)

\* The handler's steps that receive a message.
LEMMA ReceiveLinks ==
    ASSUME SInv, Wires, NEW c \in Sessions,
           \/ ReceiveStart(c) \/ ReceiveAudio(c) \/ ReceiveCommand(c)
           \/ ReceiveFails(c) \/ Disconnect(c)
    PROVE  SInv'
<1> DEFINE s == stream[c]
<1>1. DOMAIN s = Fields /\ s.at \in {"start", "receiving"}
  BY DEF Wires, WireFits, ReceiveStart, ReceiveAudio, ReceiveCommand, ReceiveFails, Disconnect
<1>2. Ready(c)
  <2>1. CASE s.at = "start"
    <3>1. c \notin Used /\ c \notin poisoned
      BY <2>1 DEF SInv, Linked, Fresh
    <3>2. \A i \in 1..issued : jobs[i].sid # c
      BY <3>1 DEF Used
    <3>3. pc = "purge" => job \in 1..issued
      BY DEF SInv, IInv, JobsInOrder, Holding, BeforeRun
    <3> QED BY <3>1, <3>2, <3>3 DEF Ready, Unharmed
  <2>2. CASE s.at = "receiving"
    BY <2>2, OpenReady
  <2> QED BY <1>1, <2>1, <2>2
<1>3. \/ Fail(c, s) \/ (\E doing : CallModel(c, s, doing))
      \/ CallAbort(c, s, "expiring")
      \/ SendFinal(c, s)
      \/ /\ s.at = "receiving" /\ To(c, [s EXCEPT !.at = "sending"])
         /\ UNCHANGED <<vars, lifespan, mode>>
      \/ CallAbort(c, [s EXCEPT !.wire = "gone"], "aborting")
  BY DEF ReceiveStart, ReceiveAudio, ReceiveCommand, ReceiveFails, Disconnect, ExpireSession
<1>4. CASE /\ s.at = "receiving" /\ To(c, [s EXCEPT !.at = "sending"])
           /\ UNCHANGED <<vars, lifespan, mode>>
  <2>1. accepting = FALSE \/ c \in active \/ s.doing = "finish" \/ s.wire = "final"
    BY <1>4, OpenReady
  <2> QED BY <1>1, <1>2, <1>4, <2>1, SendingKeeps
<1>5. CASE CallAbort(c, [s EXCEPT !.wire = "gone"], "aborting")
  <2> DEFINE x == [s EXCEPT !.wire = "gone"]
  <2>1. DOMAIN x = Fields /\ CallAbort(c, x, "aborting")
    BY <1>1, <1>5
  <2> HIDE DEF x
  <2> QED BY <1>1, <2>1, AbortKeeps
<1>6. CASE Fail(c, s) \/ CallAbort(c, s, "expiring")
  <2>1. CallAbort(c, s, "expiring") \/ (Fail(c, s) /\ "failing" = "failing")
    BY <1>6
  <2> QED BY <1>1, <2>1, AbortKeeps
<1> QED BY <1>1, <1>2, <1>3, <1>4, <1>5, <1>6, CallModelKeeps, SendFinalKeeps

\* The handler's steps behind a model operation.
LEMMA ModelLinks ==
    ASSUME SInv, Wires, NEW c \in Sessions,
           ModelReturns(c) \/ ModelRaises(c) \/ DeadlineCancels(c) \/ CancelEnds(c)
    PROVE  SInv'
<1> DEFINE s == stream[c]
           x == [s EXCEPT !.sid = TRUE]
<1>1. DOMAIN s = Fields /\ WireFits(s)
  BY DEF Wires, WireFits
<1>2. DOMAIN x = Fields /\ x.at = s.at /\ x.wire = s.wire /\ x.job = s.job /\ x.doing = s.doing
  BY <1>1 DEF Fields
<1>3. CASE ModelReturns(c)
  <2>1. s.at = "model" /\ jobs[s.job].caller = "returned"
    BY <1>2, <1>3 DEF ModelReturns
  <2>2. /\ Ready(c)
        /\ accepting = FALSE \/ c \in active \/ s.doing = "finish" \/ s.wire = "final"
    BY <2>1, OpenReady
  <2>3. s.wire # "final"
    BY <1>1, <2>1 DEF WireFits
  <2>4. \/ CallAbort(c, x, "expiring") \/ Fail(c, x)
        \/ To(c, [x EXCEPT !.at = "sending"]) /\ UNCHANGED <<vars, lifespan, mode>>
        \/ s.doing # "finish" /\ Continue(c, x)
        \/ SendFinal(c, x)
    BY <1>2, <1>3 DEF ModelReturns, ExpireSession
  <2>5. CASE CallAbort(c, x, "expiring") \/ Fail(c, x)
    <3>1. CallAbort(c, x, "expiring") \/ (Fail(c, x) /\ "failing" = "failing")
      BY <2>5
    <3> HIDE DEF x
    <3> QED BY <1>2, <2>1, <3>1, AbortKeeps
  <2> HIDE DEF x
  <2> QED BY <1>2, <2>1, <2>2, <2>3, <2>4, <2>5, SendingKeeps, ContinueKeeps, SendFinalKeeps
<1>4. CASE ModelRaises(c)
  <2>1. s.at = "model" /\ Fail(c, s) /\ "failing" = "failing"
    BY <1>4 DEF ModelRaises
  <2> QED BY <1>1, <2>1, AbortKeeps
<1>5. CASE CancelEnds(c)
  <2>1. s.at = "cancelled" /\ CallAbort(c, s, "expiring")
    BY <1>5 DEF CancelEnds, ExpireSession
  <2> QED BY <1>1, <2>1, AbortKeeps
<1>6. CASE DeadlineCancels(c)
  <2> DEFINE t == [s EXCEPT !.at = "cancelled"]
  <2>1. DOMAIN t = Fields /\ t.at = "cancelled" /\ t.wire = s.wire /\ t.expired = s.expired
    BY <1>1 DEF Fields
  <2>2. /\ s.at = "model" /\ CancelCaller(s.job) /\ stream' = [stream EXCEPT ![c] = t]
        /\ UNCHANGED <<lifespan, mode>>
    BY <1>6 DEF DeadlineCancels, To
  <2>3. s.job \in JobIds
    BY <2>2, Ranges DEF SInv, Linked, Awaits
  <2>4. OwnCall(c)
    BY <2>2, <2>3 DEF OwnCall
  <2> HIDE DEF t
  <2>5. Becomes(c, s, "cancelled", s.wire)
    BY <2>1, <2>2 DEF Becomes
  <2> QED BY <2>2, <2>4, <2>5, ShutKeeps
<1> QED BY <1>3, <1>4, <1>5, <1>6

\* The three ways a send ends.
LEMMA SendLinks ==
    ASSUME SInv, Wires, NEW c \in Sessions, Sent(c) \/ SendTimesOut(c) \/ SendRaises(c)
    PROVE  SInv'
<1> DEFINE s == stream[c]
<1>1. DOMAIN s = Fields /\ s.at = "sending"
  BY DEF Wires, WireFits, Sent, SendTimesOut, SendRaises
<1>2. /\ Ready(c)
      /\ accepting = FALSE \/ c \in active \/ s.doing = "finish" \/ s.wire = "final"
  BY <1>1, OpenReady
<1>3. \/ /\ To(c, [s EXCEPT !.at = "done", !.doing = "none", !.sid = FALSE, !.wire = "closed"])
         /\ UNCHANGED <<vars, lifespan, mode>>
      \/ CallAbort(c, s, "aborting") \/ CallAbort(c, s, "expiring")
      \/ SendFinal(c, s)
      \/ s.wire = "open" /\ s.doing # "finish" /\ Continue(c, s)
      \/ CallAbort(c, [s EXCEPT !.wire = "gone"], "aborting")
  BY DEF Sent, SendTimesOut, SendRaises, ExpireSession
<1>4. CASE /\ To(c, [s EXCEPT !.at = "done", !.doing = "none", !.sid = FALSE, !.wire = "closed"])
           /\ UNCHANGED <<vars, lifespan, mode>>
  <2> DEFINE t == [s EXCEPT !.at = "done", !.doing = "none", !.sid = FALSE, !.wire = "closed"]
  <2>1. DOMAIN t = Fields /\ t.at = "done" /\ t.wire = "closed" /\ t.expired = s.expired
    BY <1>1 DEF Fields
  <2>2. stream' = [stream EXCEPT ![c] = t] /\ OwnCall(c)
    BY <1>4 DEF To, OwnCall
  <2> HIDE DEF t
  <2>3. Becomes(c, s, "done", "closed")
    BY <2>1, <2>2 DEF Becomes
  <2> QED BY <1>1, <1>4, <2>2, <2>3, ShutKeeps
<1>5. CASE CallAbort(c, [s EXCEPT !.wire = "gone"], "aborting")
  <2> DEFINE x == [s EXCEPT !.wire = "gone"]
  <2>1. DOMAIN x = Fields /\ CallAbort(c, x, "aborting")
    BY <1>1, <1>5
  <2> HIDE DEF x
  <2> QED BY <1>1, <2>1, AbortKeeps
<1>6. CASE CallAbort(c, s, "aborting") \/ CallAbort(c, s, "expiring")
  BY <1>1, <1>6, AbortKeeps
<1>7. CASE SendFinal(c, s) \/ (s.wire = "open" /\ s.doing # "finish" /\ Continue(c, s))
  BY <1>1, <1>2, <1>7, SendFinalKeeps, ContinueKeeps
<1> QED BY <1>3, <1>4, <1>5, <1>6, <1>7

\* The handler's last steps: expiry, error sent, session aborted.
LEMMA EndLinks ==
    ASSUME SInv, Wires, NEW c \in Sessions, Expired(c) \/ FailSent(c) \/ Aborted(c)
    PROVE  SInv'
<1> DEFINE s == stream[c]
<1>1. DOMAIN s = Fields /\ s.at \in {"expiring", "failing", "aborting"}
  BY DEF Wires, WireFits, Expired, FailSent, Aborted
<1>2. CASE Expired(c)
  <2> DEFINE x == [s EXCEPT !.lost = AbortRaised(c)]
  <2>1. DOMAIN x = Fields /\ Fail(c, x) /\ "failing" = "failing"
    BY <1>1, <1>2 DEF Expired
  <2> HIDE DEF x
  <2> QED BY <1>1, <2>1, AbortKeeps
<1>3. CASE FailSent(c)
  <2>1. PICK w \in {"closed", "gone"} : CallAbort(c, [s EXCEPT !.wire = w], "aborting")
    BY <1>3 DEF FailSent
  <2> DEFINE x == [s EXCEPT !.wire = w]
  <2>2. DOMAIN x = Fields /\ CallAbort(c, x, "aborting")
    BY <1>1, <2>1
  <2> HIDE DEF x
  <2> QED BY <1>1, <2>2, AbortKeeps
<1>4. CASE Aborted(c)
  <2> DEFINE t == [s EXCEPT !.at = "done", !.job = 0, !.lost = AbortRaised(c),
                            !.wire = IF @ = "final" THEN "closed" ELSE @]
  <2>1. DOMAIN t = Fields /\ t.at = "done" /\ t.expired = s.expired
    BY <1>1 DEF Fields
  <2>2. stream' = [stream EXCEPT ![c] = t] /\ OwnCall(c) /\ UNCHANGED <<lifespan, mode>>
    BY <1>4 DEF Aborted, To, OwnCall
  <2> HIDE DEF t
  <2>3. Becomes(c, s, "done", t.wire)
    BY <2>1, <2>2 DEF Becomes
  <2> QED BY <1>1, <2>2, <2>3, ShutKeeps
<1> QED BY <1>2, <1>3, <1>4

\* A connection opens, a deadline passes.
LEMMA ConnectionLinks ==
    ASSUME SInv, Wires, NEW c \in Sessions, Connect(c) \/ DeadlinePasses(c)
    PROVE  SInv'
<1> USE DEF vars, lifecycle, registries, worker
<1> DEFINE s == stream[c]
<1>1. DOMAIN s = Fields
  BY DEF Wires, WireFits
<1>2. OwnCall(c) /\ UNCHANGED <<vars, lifespan, mode>>
  BY DEF Connect, DeadlinePasses, OwnCall
<1>3. CASE Connect(c)
  <2> DEFINE t == [s EXCEPT !.at = "start"]
  <2>1. t.at = "start"
    BY <1>1 DEF Fields
  <2>2. stream' = [stream EXCEPT ![c] = t] /\ s.at = "away" /\ lifespan = "serving"
    BY <1>3 DEF Connect, To
  <2> HIDE DEF t
  <2>3. stream'[c] = t
    BY <2>2 DEF Wires
  <2>4. c \notin Used' /\ c \notin poisoned'
    BY <1>2, <2>2 DEF SInv, Linked, Fresh, Used
  <2>5. Linked(c)'
    BY <2>1, <2>3, <2>4 DEF Linked, Fresh, Awaits, Open
  <2> QED BY <1>2, <2>2, <2>5, OwnKeeps
<1>4. CASE DeadlinePasses(c)
  <2> DEFINE t == [s EXCEPT !.expired = TRUE]
  <2>1. t.at = s.at /\ t.doing = s.doing /\ t.job = s.job /\ t.wire = s.wire
    BY <1>1 DEF Fields
  <2>2. stream' = [stream EXCEPT ![c] = t] /\ s.at # "away"
    BY <1>4 DEF DeadlinePasses, To
  <2> HIDE DEF t
  <2>3. stream'[c] = t
    BY <2>2 DEF Wires
  <2>4. Linked(c)
    BY DEF SInv
  <2>5. Fresh(c)' /\ Awaits(c)'
    BY <1>2, <2>1, <2>3, <2>4 DEF Linked, Fresh, Awaits, Used, ActionOf
  <2>6. Open(c)' => Open(c)
    BY <1>2, <2>1, <2>3 DEF Open
  <2>7. Unharmed(c) /\ Alone(c) /\ Usable(c) => Unharmed(c)' /\ Alone(c)' /\ Usable(c)'
    BY <1>2, <2>1, <2>3 DEF Unharmed, Alone, Usable, Made
  <2>8. Linked(c)'
    BY <2>4, <2>5, <2>6, <2>7 DEF Linked
  <2> QED BY <1>2, <2>2, <2>8, OwnKeeps
<1> QED BY <1>3, <1>4

\* The lifespan of the application.
LEMMA LifespanLinks == ASSUME SInv, LifespanStart \/ LifespanStop PROVE SInv'
<1>1. CASE LifespanStart
  <2> USE DEF admission, registries
  <2>1. /\ Start /\ lifespan = "starting" /\ lifespan' = "serving" /\ UNCHANGED stream
        /\ pc = "dead" /\ pc' = "loading"
        /\ UNCHANGED <<queue, busy, poisoned, jobs, issued>>
    BY <1>1 DEF LifespanStart, Start, ThreadAlive
  <2>2. IInv'
    BY <2>1, QuietIInv DEF SInv
  <2>3. BusyHeld'
    <3>1. Held' = Held
      BY <2>1 DEF Held
    <3> QED BY <2>1, <3>1 DEF SInv, BusyHeld, HoldsSession
  <2>4. Stopping'
    BY <2>1 DEF Stopping
  <2>5. \A c \in Sessions : Linked(c)'
    <3> SUFFICES ASSUME NEW c \in Sessions PROVE Linked(c)'
      OBVIOUS
    <3>1. stream[c].at = "away" /\ Fresh(c)
      BY <2>1 DEF SInv, Linked
    <3>2. Fresh(c)'
      BY <2>1, <3>1 DEF Fresh, Used
    <3> QED BY <2>1, <3>1, <3>2 DEF Linked, Awaits, Open
  <2> QED BY <2>1, <2>2, <2>3, <2>4, <2>5 DEF SInv
<1>2. CASE LifespanStop
  <2>1. Stop /\ lifespan' = "stopped" /\ UNCHANGED <<mode, stream>>
    BY <1>2 DEF LifespanStop
  <2>2. IInv'
    BY <2>1, QuietIInv DEF SInv
  <2>3. BusyHeld' /\ Stopping' /\ \A d : Steps(d)
    BY <2>1, StillSteps DEF SInv
  <2>4. \A d \in Sessions : Linked(d)'
    BY <2>1, <2>3, StepsKeep DEF SInv
  <2> QED BY <2>1, <2>2, <2>3, <2>4 DEF SInv
<1> QED BY <1>1, <1>2

\* The coordinator's own steps.
LEMMA CoordinatorLinks ==
    ASSUME SInv, (\E j \in JobIds : LoopStep(j)) \/ OwnerStep \/ UNCHANGED allVars
    PROVE  SInv'
<1>1. UNCHANGED <<lifespan, mode, stream>>
  BY DEF LoopStep, OwnerStep, service, allVars
<1>2. (\E j \in JobIds : Caller(j)) \/ Worker \/ UNCHANGED vars
  BY DEF LoopStep, OwnerStep, allVars
<1>3. IInv'
  BY <1>2, NextIInv DEF SInv, Next
<1>4. BusyHeld' /\ Stopping' /\ \A d : Steps(d)
  BY <1>2, CallerSteps, WorkerSteps, StillSteps DEF SInv
<1>5. \A d \in Sessions : Linked(d)'
  BY <1>1, <1>4, StepsKeep DEF SInv
<1> QED BY <1>1, <1>3, <1>4, <1>5 DEF SInv

\* At the start there is no job, and every connection is away.
LEMMA InitLinks == ServiceInit => SInv
<1> SUFFICES ASSUME ServiceInit PROVE SInv
  OBVIOUS
<1>1. Init /\ IInv
  BY InitIInv DEF ServiceInit
<1>2. \A c \in Sessions : stream[c].at = "away"
  BY DEF ServiceInit, NewStream
<1>3. busy = {} /\ poisoned = {} /\ issued = 0 /\ pc = "dead" /\ accepting = FALSE
  BY <1>1 DEF Init
<1>4. Used = {}
  BY <1>3 DEF Used
<1>5. BusyHeld /\ Stopping
  BY <1>3 DEF BusyHeld, Stopping
<1>6. \A c \in Sessions : Linked(c)
  BY <1>2, <1>3, <1>4 DEF Linked, Fresh, Awaits, Open
<1> QED BY <1>1, <1>2, <1>5, <1>6 DEF SInv

\* Every step of the service keeps connections and jobs linked.
LEMMA ServiceNextLinks == ASSUME SInv, Wires, [ServiceNext]_allVars PROVE SInv'
<1>1. ASSUME NEW c \in Sessions, Connect(c) \/ Handler(c) \/ DeadlinePasses(c) PROVE SInv'
  BY <1>1, ReceiveLinks, ModelLinks, SendLinks, EndLinks, ConnectionLinks DEF Handler
<1> QED BY <1>1, LifespanLinks, CoordinatorLinks DEF ServiceNext

\* The coordinator's invariant and the links hold in every state of the service.
LEMMA LinksInvariant == ServiceSpec => []SInv
BY InitLinks, ServiceNextLinks, WiresInvariant, PTL DEF ServiceSpec

\* A handler of transcribe_stream that may call the model again finds its session
\* active, idle and unpoisoned, unless the service is stopping: no timeout,
\* cancellation or cleanup of an earlier call reaches a session in use.
THEOREM SessionIdleBetweenOperations == ServiceSpec => []IdleBetweenOperations
<1>1. SInv => IdleBetweenOperations
  <2> SUFFICES ASSUME SInv, NEW c \in Sessions, stream[c].at \in {"receiving", "sending"},
                      stream[c].doing # "finish", stream[c].wire # "final", accepting
               PROVE  c \in active \ (busy \cup poisoned)
    BY DEF IdleBetweenOperations
  <2>1. Ready(c) /\ c \in active
    BY OpenReady DEF SInv
  <2>2. c \notin busy
    <3> SUFFICES ASSUME c \in busy PROVE FALSE
      OBVIOUS
    <3>1. PICK j \in queue \cup Held : jobs[j].sid = c
      BY DEF SInv, BusyHeld
    <3>2. j \in 1..issued /\ jobs[j].caller # "returned"
      BY HeldPending DEF SInv
    <3> QED BY <2>1, <3>1, <3>2 DEF Ready
  <2> QED BY <2>1, <2>2 DEF Ready, Unharmed
<1> QED BY <1>1, LinksInvariant, PTL

\* The coordinator keeps its promises under the service's handlers too: the
\* stream limit, the queue's counters, one operation of a session at a time, and
\* lookups that find their session.
THEOREM AccountsUnderService ==
    ServiceSpec => [](/\ CapacityBound /\ QueueAccounting
                      /\ OneOperationPerSession /\ LookupsSucceed)
<1>1. SInv => CapacityBound /\ QueueAccounting /\ OneOperationPerSession /\ LookupsSucceed
  BY LookupsPromised DEF SInv, IInv
<1> QED BY <1>1, LinksInvariant, PTL
=============================================================================
