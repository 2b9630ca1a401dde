---------------------------- MODULE GatewayLemmas ----------------------------
(***************************************************************************)
(* Facts about the data of the gateway's models, for later proofs to cite  *)
(* with the operations left unexpanded: what each session operation does   *)
(* to each field of the record, for every session, and what leaving jobs   *)
(* out of a list, or adding one, does to its jobs and to their samples,    *)
(* for lists of every length.                                              *)
(***************************************************************************)
EXTENDS SessionRecord, JobList, WellFoundedInduction, TLAPS

-----------------------------------------------------------------------------
(* The session record *)


\* append_pcm with count_accepted=False moves the buffer's end.
LEMMA HandOverFacts ==
    ASSUME NEW ss \in SessionType, NEW n \in Nat
    PROVE  LET t == HandOver(ss, n) IN
             /\ t \in SessionType
             /\ t.bufAccepted = ss.bufAccepted + n
             /\ t.data = ss.data + n
             /\ t.accepted = ss.accepted /\ t.extDiscarded = ss.extDiscarded
             /\ t.base = ss.base /\ t.acked = ss.acked
             /\ t.discarded = ss.discarded /\ t.res = ss.res
             /\ t.nextSeq = ss.nextSeq /\ t.gen = ss.gen /\ t.state = ss.state
             /\ t.finishReq = ss.finishReq
<1>1. ss.data + n \in Nat /\ ss.bufAccepted + n \in Nat
  BY DEF SessionType
<1>2. HandOver(ss, n) \in SessionType
  BY <1>1, Zenon DEF HandOver, SessionType
<1> QED BY <1>2 DEF HandOver, SessionType

\* accept_vad_input only counts.
LEMMA AcceptVadFacts ==
    ASSUME NEW ss \in SessionType, NEW n \in Nat
    PROVE  LET t == AcceptVad(ss, n) IN
             /\ t \in SessionType
             /\ t.accepted = ss.accepted + n
             /\ t.extDiscarded = ss.extDiscarded
             /\ t.bufAccepted = ss.bufAccepted /\ t.base = ss.base
             /\ t.data = ss.data /\ t.acked = ss.acked
             /\ t.discarded = ss.discarded /\ t.res = ss.res
             /\ t.nextSeq = ss.nextSeq /\ t.gen = ss.gen /\ t.state = ss.state
             /\ t.finishReq = ss.finishReq
<1>1. ss.accepted + n \in Nat
  BY DEF SessionType
<1>2. AcceptVad(ss, n) \in SessionType
  BY <1>1, Zenon DEF AcceptVad, SessionType
<1> QED BY <1>2 DEF AcceptVad, SessionType

\* record_discarded only counts.
LEMMA RecordDiscardedFacts ==
    ASSUME NEW ss \in SessionType, NEW n \in Nat
    PROVE  LET t == RecordDiscarded(ss, n) IN
             /\ t \in SessionType
             /\ t.extDiscarded = ss.extDiscarded + n
             /\ t.accepted = ss.accepted /\ t.bufAccepted = ss.bufAccepted
             /\ t.base = ss.base /\ t.data = ss.data /\ t.acked = ss.acked
             /\ t.discarded = ss.discarded /\ t.res = ss.res
             /\ t.nextSeq = ss.nextSeq /\ t.gen = ss.gen /\ t.state = ss.state
             /\ t.finishReq = ss.finishReq
<1>1. ss.extDiscarded + n \in Nat
  BY DEF SessionType
<1>2. RecordDiscarded(ss, n) \in SessionType
  BY <1>1, Zenon DEF RecordDiscarded, SessionType
<1> QED BY <1>2 DEF RecordDiscarded, SessionType

\* reserve takes the oldest n samples and spends a job sequence.
LEMMA ReserveFacts ==
    ASSUME NEW ss \in SessionType,
           NEW n \in Nat, NEW final \in BOOLEAN
    PROVE  LET t == Reserve(ss, n, final) IN
             /\ t \in SessionType
             /\ t.res = NewReservation(ss, n, final)
             /\ t.nextSeq = ss.nextSeq + 1
             /\ t.accepted = ss.accepted /\ t.extDiscarded = ss.extDiscarded
             /\ t.bufAccepted = ss.bufAccepted /\ t.base = ss.base
             /\ t.data = ss.data /\ t.acked = ss.acked
             /\ t.discarded = ss.discarded /\ t.gen = ss.gen
             /\ t.state = ss.state /\ t.finishReq = ss.finishReq
<1>1. ss.nextSeq + 1 \in Nat /\ NewReservation(ss, n, final) \in Reservation
  BY DEF SessionType, Reservation, NewReservation
<1>2. Reserve(ss, n, final) \in SessionType
  BY <1>1, Zenon DEF Reserve, SessionType, Reservation, NewReservation
<1> QED BY <1>2 DEF Reserve, SessionType, Reservation, NewReservation

\* rollback only clears the reservation.
LEMMA RollbackFacts ==
    ASSUME NEW ss \in SessionType
    PROVE  LET t == Rollback(ss) IN
             /\ t \in SessionType
             /\ t.res = NoReservation
             /\ t.accepted = ss.accepted /\ t.extDiscarded = ss.extDiscarded
             /\ t.bufAccepted = ss.bufAccepted /\ t.base = ss.base
             /\ t.data = ss.data /\ t.acked = ss.acked
             /\ t.discarded = ss.discarded /\ t.nextSeq = ss.nextSeq
             /\ t.gen = ss.gen /\ t.state = ss.state
             /\ t.finishReq = ss.finishReq
<1>1. NoReservation \in Reservation
  BY DEF SessionType, Reservation, NoReservation
<1>2. Rollback(ss) \in SessionType
  BY <1>1, Zenon DEF Rollback, SessionType, Reservation, NoReservation
<1> QED BY <1>2 DEF Rollback, SessionType, Reservation, NoReservation

\* acknowledge moves the buffer's start past the reservation.
LEMMA AcknowledgeFacts ==
    ASSUME NEW ss \in SessionType,
           ss.res.start <= ss.res.end, ss.res.end - ss.res.start <= ss.data
    PROVE  LET t == Acknowledge(ss) IN
             /\ t \in SessionType
             /\ t.base = ss.res.end
             /\ t.data = ss.data - Reserved(ss)
             /\ t.acked = ss.acked + Reserved(ss)
             /\ t.res = NoReservation
             /\ t.accepted = ss.accepted /\ t.extDiscarded = ss.extDiscarded
             /\ t.bufAccepted = ss.bufAccepted /\ t.discarded = ss.discarded
             /\ t.nextSeq = ss.nextSeq /\ t.gen = ss.gen /\ t.state = ss.state
             /\ t.finishReq = ss.finishReq
<1>1. /\ ss.res.end \in Nat
      /\ ss.data - Reserved(ss) \in Nat
      /\ ss.acked + Reserved(ss) \in Nat
      /\ NoReservation \in Reservation
  BY DEF SessionType, Reservation, NoReservation, Reserved
<1>2. Acknowledge(ss) \in SessionType
  BY <1>1, Zenon DEF Acknowledge, SessionType, Reservation, NoReservation, Reserved
<1> QED BY <1>2 DEF Acknowledge, SessionType, Reservation, NoReservation, Reserved

\* append_pcm with count_accepted=True is accept and hand over in one.
LEMMA AppendFacts ==
    ASSUME NEW ss \in SessionType, NEW n \in Nat
    PROVE  AppendPcm(ss, n) = AcceptVad(HandOver(ss, n), n)
BY HandOverFacts DEF AppendPcm, AcceptVad

\* abort of a session that was not aborted or failed before: the
\* reservation is rolled back, the buffer emptied, the VAD's share written off.
LEMMA AbortFacts ==
    ASSUME NEW ss \in SessionType,
           ss.state \notin {"aborted", "failed"}
    PROVE  LET t == AbortSession(ss) IN
             /\ t \in SessionType
             /\ t.extDiscarded = ss.extDiscarded + PendingVad(ss)
             /\ t.base = ss.base + ss.data
             /\ t.data = 0
             /\ t.discarded = ss.discarded + ss.data
             /\ t.res = NoReservation
             /\ t.gen = ss.gen + 1
             /\ t.state = "aborted"
             /\ t.accepted = ss.accepted /\ t.bufAccepted = ss.bufAccepted
             /\ t.acked = ss.acked /\ t.nextSeq = ss.nextSeq
             /\ t.finishReq = ss.finishReq
<1>1. /\ NoReservation \in Reservation
      /\ ss.discarded + ss.data \in Nat /\ ss.base + ss.data \in Nat
      /\ ss.extDiscarded + PendingVad(ss) \in Nat /\ ss.gen + 1 \in Nat
      /\ 0 \in Nat /\ "aborted" \in EndedStates
  BY DEF SessionType, Reservation, NoReservation, PendingVad,
          EndedStates
<1>2. AbortSession(ss) \in SessionType
  BY <1>1, Zenon DEF AbortSession, SessionType, Reservation, NoReservation, PendingVad,
          EndedStates
<1> QED BY <1>2 DEF AbortSession, SessionType, Reservation, NoReservation, PendingVad,
          EndedStates

\* Setting the terminal state, as fail and succeed do.
LEMMA StateFacts ==
    ASSUME NEW ss \in SessionType,
           NEW end \in EndedStates
    PROVE  LET t == [ss EXCEPT !.state = end] IN
             /\ t \in SessionType
             /\ t.state = end
             /\ t.accepted = ss.accepted /\ t.extDiscarded = ss.extDiscarded
             /\ t.bufAccepted = ss.bufAccepted /\ t.base = ss.base
             /\ t.data = ss.data /\ t.acked = ss.acked
             /\ t.discarded = ss.discarded /\ t.res = ss.res
             /\ t.nextSeq = ss.nextSeq /\ t.gen = ss.gen
             /\ t.finishReq = ss.finishReq
<1>1. end \in LiveStates \cup EndedStates
  BY DEF SessionType
<1>2. [ss EXCEPT !.state = end] \in SessionType
  BY <1>1, Zenon DEF EndedStates, SessionType
<1> QED BY <1>2 DEF EndedStates, SessionType

\* A new generation, as SessionManager.close makes.
LEMMA GenerationFacts ==
    ASSUME NEW ss \in SessionType
    PROVE  LET t == [ss EXCEPT !.gen = @ + 1] IN
             /\ t \in SessionType
             /\ t.gen = ss.gen + 1
             /\ t.accepted = ss.accepted /\ t.extDiscarded = ss.extDiscarded
             /\ t.bufAccepted = ss.bufAccepted /\ t.base = ss.base
             /\ t.data = ss.data /\ t.acked = ss.acked
             /\ t.discarded = ss.discarded /\ t.res = ss.res
             /\ t.nextSeq = ss.nextSeq /\ t.state = ss.state
             /\ t.finishReq = ss.finishReq
<1>1. ss.gen + 1 \in Nat
  BY DEF SessionType
<1>2. [ss EXCEPT !.gen = @ + 1] \in SessionType
  BY <1>1, Zenon DEF LiveStates, SessionType
<1> QED BY <1>2 DEF LiveStates, SessionType

\* request_finish touches the terminal state and the flag only.
LEMMA RequestFinishFacts ==
    ASSUME NEW ss \in SessionType
    PROVE  LET t == RequestFinish(ss) IN
             /\ t \in SessionType
             /\ t.state \in {ss.state, "finishing"}
             /\ ~ss.finishReq => t.state = "finishing"
             /\ t.accepted = ss.accepted /\ t.extDiscarded = ss.extDiscarded
             /\ t.bufAccepted = ss.bufAccepted /\ t.base = ss.base
             /\ t.data = ss.data /\ t.acked = ss.acked
             /\ t.discarded = ss.discarded /\ t.res = ss.res
             /\ t.nextSeq = ss.nextSeq /\ t.gen = ss.gen
BY DEF RequestFinish, SessionType, LiveStates

-----------------------------------------------------------------------------
(* Induction *)

\* Every nonempty set of natural numbers has a least element.
LEMMA LeastElement ==
    ASSUME NEW T \in SUBSET Nat, T # {}
    PROVE  \E m \in T : \A k \in T : m <= k
<1> DEFINE R == OpToRel(<, Nat)
<1>1. IsWellFoundedOn(R, Nat)
  BY NatLessThanWellFounded
<1>2. \A x, y \in Nat : y < x => <<y, x>> \in R
  BY SMT DEF OpToRel
<1> HIDE DEF R
<1>3. PICK x \in T : \A y \in T : ~ (<<y, x>> \in R)
  BY <1>1, WFMin
<1>4. ASSUME NEW y \in T PROVE x <= y
  <2>1. x \in Nat /\ y \in Nat
    OBVIOUS
  <2>2. ~ (y < x)
    BY <1>2, <1>3, <2>1, Zenon
  <2> QED BY <2>1, <2>2
<1> QED BY <1>4

\* Induction over the natural numbers up to n, for sets.
LEMMA Induct ==
    ASSUME NEW n \in Nat, NEW S, 0 \in S, \A i \in 1 .. n : i - 1 \in S => i \in S
    PROVE  \A i \in 0 .. n : i \in S
<1> SUFFICES ASSUME {i \in 0 .. n : i \notin S} # {} PROVE FALSE
  OBVIOUS
<1>1. PICK m \in {i \in 0 .. n : i \notin S} : \A k \in {i \in 0 .. n : i \notin S} : m <= k
  <2>1. {i \in 0 .. n : i \notin S} \in SUBSET Nat
    OBVIOUS
  <2> QED BY <2>1, LeastElement
<1>2. m \in 0 .. n /\ m # 0
  OBVIOUS
<1>3. m - 1 \in 0 .. n /\ m - 1 \in S
  BY <1>1, <1>2
<1> QED BY <1>1, <1>2, <1>3

\* step leads from a value in V to the next, up to the n-th.
Steps(n, V, base, step) ==
    n \in Nat /\ base \in V /\ \A i \in 1 .. n : \A v \in V : step[<<i, v>>] \in V

\* f goes through those values.
Runs(f, n, V, base, step) ==
    f \in [0 .. n -> V] /\ f[0] = base /\ \A i \in 1 .. n : f[i] = step[<<i, f[i - 1]>>]

\* A function defined from each value to the next exists.
LEMMA Recursion ==
    ASSUME NEW n, NEW V, NEW base, NEW step, Steps(n, V, base, step)
    PROVE  \E f : Runs(f, n, V, base, step)
<1> USE DEF Steps
<1> DEFINE Good(f, k) == f[0] = base /\ \A i \in 1 .. k : f[i] = step[<<i, f[i - 1]>>]
           S == {k \in 0 .. n : \E f \in [0 .. n -> V] : Good(f, k)}
<1>1. 0 \in S
  <2>1. [i \in 0 .. n |-> base] \in [0 .. n -> V] /\ Good([i \in 0 .. n |-> base], 0)
    OBVIOUS
  <2>2. 0 \in 0 .. n
    OBVIOUS
  <2> QED BY <2>1, <2>2
<1>2. ASSUME NEW k \in 1 .. n, k - 1 \in S PROVE k \in S
  <2>1. PICK f \in [0 .. n -> V] : Good(f, k - 1)
    BY <1>2
  <2> DEFINE v == step[<<k, f[k - 1]>>]
             g == [f EXCEPT ![k] = v]
  <2>2. k - 1 \in 0 .. n /\ f[k - 1] \in V
    OBVIOUS
  <2>3. v \in V
    BY <2>2
  <2>4. g \in [0 .. n -> V] /\ \A i \in 0 .. n : g[i] = IF i = k THEN v ELSE f[i]
    BY <2>3
  <2>5. ASSUME NEW i \in 1 .. k PROVE g[i] = step[<<i, g[i - 1]>>]
    <3>1. CASE i = k
      BY <2>4, <3>1
    <3>2. CASE i # k
      BY <2>1, <2>4, <3>2
    <3> QED BY <3>1, <3>2
  <2>6. Good(g, k)
    BY <2>1, <2>4, <2>5
  <2> HIDE DEF Good, g
  <2>7. k \in 0 .. n /\ \E h \in [0 .. n -> V] : Good(h, k)
    BY <2>4, <2>6
  <2> QED BY <2>7
<1>3. n \in S
  <2> HIDE DEF S
  <2> QED BY <1>1, <1>2, Induct
<1>4. PICK f \in [0 .. n -> V] : Good(f, n)
  BY <1>3
<1> QED BY <1>4 DEF Runs

-----------------------------------------------------------------------------
(* Lists of jobs *)

\* Two functions start alike and go on alike.
Alike(n, f, g) ==
    n \in Nat /\ f[0] = g[0] /\ \A i \in 1 .. n : f[i - 1] = g[i - 1] => f[i] = g[i]

LEMMA SamePrefixes ==
    ASSUME NEW n, NEW f, NEW g, Alike(n, f, g)
    PROVE  \A i \in 0 .. n : f[i] = g[i]
<1> USE DEF Alike
<1> DEFINE S == {i \in 0 .. n : f[i] = g[i]}
<1>1. 0 \in S /\ \A i \in 1 .. n : i - 1 \in S => i \in S
  OBVIOUS
<1> HIDE DEF S
<1>2. \A i \in 0 .. n : i \in S
  BY <1>1, Induct
<1> QED BY <1>2 DEF S

\* The jobs of a list have sizes.
Sized(J) == \A j \in J : Size(j) \in Int

\* SumSizes by its prefixes.
SumBy(f, q) ==
    /\ f \in [0 .. Len(q) -> Int]
    /\ f[0] = 0
    /\ \A i \in 1 .. Len(q) : f[i] = f[i - 1] + Size(q[i])
    /\ SumSizes(q) = f[Len(q)]

LEMMA SumPrefix ==
    ASSUME NEW J, Sized(J), NEW q \in Seq(J)
    PROVE  \E f : SumBy(f, q)
<1> DEFINE n == Len(q)
           step == [p \in (1 .. n) \X Int |-> p[2] + Size(q[p[1]])]
           Is(f) == f = [i \in 0 .. n |-> IF i = 0 THEN 0 ELSE f[i - 1] + Size(q[i])]
           sum == CHOOSE f : Is(f)
<1>0. n \in Nat
  OBVIOUS
<1>1. n \in Nat /\ \A i \in 1 .. n : Size(q[i]) \in Int
  BY DEF Sized
<1>2. \A i \in 1 .. n : \A v \in Int : step[<<i, v>>] \in Int
  BY <1>1
<1>3. \A i \in 1 .. n : \A v \in Int : step[<<i, v>>] = v + Size(q[i])
  OBVIOUS
<1> HIDE DEF step
<1>4. PICK g : Runs(g, n, Int, 0, step)
  <2>1. Steps(n, Int, 0, step)
    BY <1>0, <1>2 DEF Steps
  <2> QED BY <2>1, Recursion, Zenon
<1>5. \A i \in 0 .. n : i # 0 => i \in 1 .. n /\ i - 1 \in 0 .. n
  BY <1>1
<1>6. \A i \in 0 .. n : g[i] = IF i = 0 THEN 0 ELSE g[i - 1] + Size(q[i])
  <2> SUFFICES ASSUME NEW i \in 0 .. n
               PROVE  g[i] = IF i = 0 THEN 0 ELSE g[i - 1] + Size(q[i])
    OBVIOUS
  <2>2. CASE i = 0
    BY <1>4, <2>2 DEF Runs
  <2>3. CASE i # 0
    <3>1. i \in 1 .. n /\ g[i - 1] \in Int
      BY <1>4, <1>5, <2>3 DEF Runs
    <3>2. g[i] = step[<<i, g[i - 1]>>]
      BY <1>4, <3>1 DEF Runs
    <3> QED BY <1>3, <2>3, <3>1, <3>2
  <2> QED BY <2>2, <2>3
<1>7. Is(g)
  BY <1>4, <1>6 DEF Runs
<1>8. Is(sum)
  <2> HIDE DEF Is
  <2> QED BY <1>7
<1>9. SumSizes(q) = sum[n]
  BY DEF SumSizes
<1> HIDE DEF sum
<1>10. \A i \in 0 .. n : sum[i] = IF i = 0 THEN 0 ELSE sum[i - 1] + Size(q[i])
  BY <1>8
<1>11. DOMAIN sum = 0 .. n /\ sum = [i \in 0 .. n |-> sum[i]]
  BY <1>8
<1> HIDE DEF Is
<1>12. \A i \in 0 .. n : sum[i] = g[i]
  <2>1. sum[0] = g[0]
    BY <1>1, <1>6, <1>10
  <2>2. ASSUME NEW i \in 1 .. n, sum[i - 1] = g[i - 1] PROVE sum[i] = g[i]
    <3>1. i \in 0 .. n /\ i # 0
      BY <1>1
    <3> QED BY <1>6, <1>10, <2>2, <3>1
  <2>3. Alike(n, sum, g)
    BY <1>0, <2>1, <2>2 DEF Alike
  <2> HIDE DEF n
  <2> QED BY ONLY <2>3, SamePrefixes
<1>13. sum \in [0 .. n -> Int]
  BY <1>4, <1>11, <1>12 DEF Runs
<1>14. sum[0] = 0
  BY <1>1, <1>10
<1>15. ASSUME NEW i \in 1 .. n PROVE sum[i] = sum[i - 1] + Size(q[i])
  <2>1. i \in 0 .. n /\ i # 0
    BY <1>1
  <2> QED BY <1>10, <2>1
<1>16. SumBy(sum, q)
  BY <1>9, <1>13, <1>14, <1>15, Zenon DEF SumBy
<1> QED BY <1>16

\* Only by its prefixes.
OnlyBy(f, q, P, J) ==
    /\ f \in [0 .. Len(q) -> Seq(J)]
    /\ f[0] = <<>>
    /\ \A i \in 1 .. Len(q) : f[i] = IF i \in P THEN Append(f[i - 1], q[i]) ELSE f[i - 1]
    /\ Only(q, P) = f[Len(q)]

LEMMA OnlyPrefix ==
    ASSUME NEW J, NEW q \in Seq(J), NEW P
    PROVE  \E f : OnlyBy(f, q, P, J)
<1> DEFINE n == Len(q)
           step == [p \in (1 .. n) \X Seq(J) |-> IF p[1] \in P THEN Append(p[2], q[p[1]]) ELSE p[2]]
           Is(f) == f = [i \in 0 .. n |-> IF i = 0 THEN <<>>
                             ELSE IF i \in P THEN Append(f[i - 1], q[i]) ELSE f[i - 1]]
           prefix == CHOOSE f : Is(f)
<1>0. n \in Nat
  OBVIOUS
<1>1. n \in Nat /\ \A i \in 1 .. n : q[i] \in J
  OBVIOUS
<1>2. \A i \in 1 .. n : \A v \in Seq(J) : step[<<i, v>>] \in Seq(J)
  BY <1>1
<1>3. \A i \in 1 .. n : \A v \in Seq(J) :
        step[<<i, v>>] = IF i \in P THEN Append(v, q[i]) ELSE v
  OBVIOUS
<1> HIDE DEF step
<1>4. PICK g : Runs(g, n, Seq(J), <<>>, step)
  <2>1. Steps(n, Seq(J), <<>>, step)
    BY <1>0, <1>2 DEF Steps
  <2> QED BY <2>1, Recursion, Zenon
<1>5. \A i \in 0 .. n : i # 0 => i \in 1 .. n /\ i - 1 \in 0 .. n
  BY <1>1
<1>6. \A i \in 0 .. n : g[i] = IF i = 0 THEN <<>>
                               ELSE IF i \in P THEN Append(g[i - 1], q[i]) ELSE g[i - 1]
  <2> SUFFICES ASSUME NEW i \in 0 .. n
               PROVE  g[i] = IF i = 0 THEN <<>>
                             ELSE IF i \in P THEN Append(g[i - 1], q[i]) ELSE g[i - 1]
    OBVIOUS
  <2>2. CASE i = 0
    BY <1>4, <2>2 DEF Runs
  <2>3. CASE i # 0
    <3>1. i \in 1 .. n /\ g[i - 1] \in Seq(J)
      BY <1>4, <1>5, <2>3 DEF Runs
    <3>2. g[i] = step[<<i, g[i - 1]>>]
      BY <1>4, <3>1 DEF Runs
    <3> QED BY <1>3, <2>3, <3>1, <3>2
  <2> QED BY <2>2, <2>3
<1>7. Is(g)
  BY <1>4, <1>6 DEF Runs
<1>8. Is(prefix)
  <2> HIDE DEF Is
  <2> QED BY <1>7
<1>9. Only(q, P) = prefix[n]
  BY DEF Only
<1> HIDE DEF prefix
<1>10. \A i \in 0 .. n : prefix[i] = IF i = 0 THEN <<>>
                 ELSE IF i \in P THEN Append(prefix[i - 1], q[i]) ELSE prefix[i - 1]
  BY <1>8
<1>11. DOMAIN prefix = 0 .. n /\ prefix = [i \in 0 .. n |-> prefix[i]]
  BY <1>8
<1> HIDE DEF Is
<1>12. \A i \in 0 .. n : prefix[i] = g[i]
  <2>1. prefix[0] = g[0]
    BY <1>1, <1>6, <1>10
  <2>2. ASSUME NEW i \in 1 .. n, prefix[i - 1] = g[i - 1] PROVE prefix[i] = g[i]
    <3>1. i \in 0 .. n /\ i # 0
      BY <1>1
    <3> QED BY <1>6, <1>10, <2>2, <3>1
  <2>3. Alike(n, prefix, g)
    BY <1>0, <2>1, <2>2 DEF Alike
  <2> HIDE DEF n
  <2> QED BY ONLY <2>3, SamePrefixes
<1>13. prefix \in [0 .. n -> Seq(J)]
  BY <1>4, <1>11, <1>12 DEF Runs
<1>14. prefix[0] = <<>>
  BY <1>1, <1>10
<1>15. ASSUME NEW i \in 1 .. n
       PROVE  prefix[i] = IF i \in P THEN Append(prefix[i - 1], q[i]) ELSE prefix[i - 1]
  <2>1. i \in 0 .. n /\ i # 0
    BY <1>1
  <2> QED BY <1>10, <2>1
<1>16. OnlyBy(prefix, q, P, J)
  BY <1>9, <1>13, <1>14, <1>15, Zenon DEF OnlyBy
<1> QED BY <1>16

\* The audio of a list is a number, none for the empty one.
LEMMA SumType ==
    ASSUME NEW J, Sized(J), NEW q \in Seq(J)
    PROVE  SumSizes(q) \in Int /\ SumSizes(<<>>) = 0
<1>1. PICK f : SumBy(f, q)
  BY SumPrefix
<1>2. SumSizes(q) \in Int
  BY <1>1 DEF SumBy
<1>3. <<>> \in Seq(J) /\ Len(<<>>) = 0
  OBVIOUS
<1>4. PICK g : SumBy(g, <<>>)
  BY <1>3, SumPrefix
<1> QED BY <1>2, <1>3, <1>4 DEF SumBy

\* One more job adds its own.
LEMMA SumAppend ==
    ASSUME NEW J, Sized(J), NEW q \in Seq(J), NEW j \in J
    PROVE  SumSizes(Append(q, j)) = SumSizes(q) + Size(j)
<1> DEFINE p == Append(q, j)
           n == Len(q)
<1>1. p \in Seq(J) /\ Len(p) = n + 1 /\ n \in Nat
  OBVIOUS
<1>2. p[n + 1] = j /\ \A i \in 1 .. n : p[i] = q[i]
  OBVIOUS
<1> HIDE DEF p
<1>3. PICK f : SumBy(f, q)
  BY SumPrefix
<1>4. PICK g : SumBy(g, p)
  BY <1>1, SumPrefix
<1>5. f[0] = 0 /\ (\A i \in 1 .. n : f[i] = f[i - 1] + Size(q[i])) /\ SumSizes(q) = f[n]
  BY <1>3 DEF SumBy
<1>6. g[0] = 0 /\ (\A i \in 1 .. n + 1 : g[i] = g[i - 1] + Size(p[i])) /\ SumSizes(p) = g[n + 1]
  BY <1>1, <1>4 DEF SumBy
<1> HIDE DEF n
<1>7. ASSUME NEW i \in 1 .. n, f[i - 1] = g[i - 1] PROVE f[i] = g[i]
  <2>1. i \in 1 .. n + 1 /\ p[i] = q[i]
    BY <1>1, <1>2
  <2> QED BY <1>5, <1>6, <1>7, <2>1
<1>8. Alike(n, f, g)
  BY <1>1, <1>5, <1>6, <1>7 DEF Alike
<1>9. f[n] = g[n]
  BY <1>1, <1>8, SamePrefixes
<1>10. n + 1 \in 1 .. n + 1 /\ (n + 1) - 1 = n
  BY <1>1
<1>11. g[n + 1] = g[n] + Size(j)
  BY <1>2, <1>6, <1>10
<1> QED BY <1>5, <1>6, <1>9, <1>11 DEF p

\* A list is split without loss: what is kept and what is not add up.
LEMMA SumOnly ==
    ASSUME NEW J, Sized(J), NEW q \in Seq(J), NEW P
    PROVE  SumSizes(q) = SumSizes(Only(q, P)) + SumSizes(Only(q, DOMAIN q \ P))
<1> DEFINE n == Len(q)
           R == DOMAIN q \ P
<1>1. n \in Nat /\ (\A i \in 1 .. n : q[i] \in J) /\ \A i \in 1 .. n : i \in R <=> i \notin P
  OBVIOUS
<1>2. PICK f : SumBy(f, q)
  BY SumPrefix
<1>3. PICK a : OnlyBy(a, q, P, J)
  BY OnlyPrefix
<1>4. PICK b : OnlyBy(b, q, R, J)
  BY OnlyPrefix
<1> HIDE DEF R
<1> DEFINE S == {i \in 0 .. n : f[i] = SumSizes(a[i]) + SumSizes(b[i])}
<1>5. 0 \in S
  <2>1. f[0] = 0 /\ a[0] = <<>> /\ b[0] = <<>> /\ SumSizes(<<>>) = 0 /\ 0 \in 0 .. n
    BY <1>1, <1>2, <1>3, <1>4, SumType DEF SumBy, OnlyBy
  <2> QED BY <2>1
<1>6. ASSUME NEW i \in 1 .. n, i - 1 \in S PROVE i \in S
  <2>1. i - 1 \in 0 .. n /\ i \in 0 .. n /\ q[i] \in J
    BY <1>1
  <2>2. f[i] = f[i - 1] + Size(q[i]) /\ f[i - 1] = SumSizes(a[i - 1]) + SumSizes(b[i - 1])
    BY <1>2, <1>6 DEF SumBy
  <2>3. a[i - 1] \in Seq(J) /\ b[i - 1] \in Seq(J)
    BY <1>3, <1>4, <2>1 DEF OnlyBy
  <2>4. \/ i \in P /\ a[i] = Append(a[i - 1], q[i]) /\ b[i] = b[i - 1]
        \/ i \notin P /\ a[i] = a[i - 1] /\ b[i] = Append(b[i - 1], q[i])
    BY <1>1, <1>3, <1>4 DEF OnlyBy
  <2>5. SumSizes(a[i - 1]) \in Int /\ SumSizes(b[i - 1]) \in Int /\ Size(q[i]) \in Int
    BY <2>1, <2>3, SumType DEF Sized
  <2>6. /\ SumSizes(Append(a[i - 1], q[i])) = SumSizes(a[i - 1]) + Size(q[i])
        /\ SumSizes(Append(b[i - 1], q[i])) = SumSizes(b[i - 1]) + Size(q[i])
    BY <2>1, <2>3, SumAppend
  <2>7. \/ SumSizes(a[i]) = SumSizes(a[i - 1]) + Size(q[i]) /\ SumSizes(b[i]) = SumSizes(b[i - 1])
        \/ SumSizes(a[i]) = SumSizes(a[i - 1]) /\ SumSizes(b[i]) = SumSizes(b[i - 1]) + Size(q[i])
    BY <2>4, <2>6, Zenon
  <2>8. f[i] = SumSizes(a[i]) + SumSizes(b[i])
    BY <2>2, <2>5, <2>7
  <2> QED BY <2>1, <2>8
<1>7. \A i \in 0 .. n : i \in S
  <2> HIDE DEF S, n
  <2> QED BY <1>1, <1>5, <1>6, Induct
<1>8. n \in 0 .. n
  BY <1>1
<1>9. f[n] = SumSizes(a[n]) + SumSizes(b[n])
  BY <1>7, <1>8
<1> QED BY <1>2, <1>3, <1>4, <1>9 DEF R, SumBy, OnlyBy

\* One job of a list, alone.
LEMMA SumOne ==
    ASSUME NEW J, Sized(J), NEW q \in Seq(J), NEW k \in DOMAIN q
    PROVE  SumSizes(Only(q, {k})) = Size(q[k])
<1> DEFINE n == Len(q)
<1>1. n \in Nat /\ k \in 1 .. n /\ q[k] \in J /\ Size(q[k]) \in Int
  BY DEF Sized
<1>2. PICK a : OnlyBy(a, q, {k}, J)
  BY OnlyPrefix
<1> DEFINE S == {i \in 0 .. n : a[i] = IF i < k THEN <<>> ELSE Append(<<>>, q[k])}
<1>3. 0 \in S
  BY <1>1, <1>2 DEF OnlyBy
<1>4. ASSUME NEW i \in 1 .. n, i - 1 \in S PROVE i \in S
  <2>1. a[i] = IF i = k THEN Append(a[i - 1], q[i]) ELSE a[i - 1]
    BY <1>2 DEF OnlyBy
  <2>2. a[i - 1] = IF i - 1 < k THEN <<>> ELSE Append(<<>>, q[k])
    BY <1>4
  <2>3. i \in 0 .. n
    BY <1>1
  <2>4. CASE i < k
    BY <1>1, <2>1, <2>2, <2>3, <2>4
  <2>5. CASE i = k
    BY <1>1, <2>1, <2>2, <2>3, <2>5
  <2>6. CASE i > k
    BY <1>1, <2>1, <2>2, <2>3, <2>6
  <2> QED BY <1>1, <2>4, <2>5, <2>6
<1>5. \A i \in 0 .. n : i \in S
  <2> HIDE DEF S, n
  <2> QED BY <1>1, <1>3, <1>4, Induct
<1>6. n \in 0 .. n /\ ~(n < k)
  BY <1>1
<1>7. a[n] = Append(<<>>, q[k])
  BY <1>5, <1>6
<1>8. <<>> \in Seq(J)
  OBVIOUS
<1>9. SumSizes(Append(<<>>, q[k])) = 0 + Size(q[k])
  BY <1>1, <1>8, SumType, SumAppend
<1> QED BY <1>1, <1>2, <1>7, <1>9 DEF OnlyBy

\* The jobs of a list with one more.
LEMMA RangeAppend ==
    ASSUME NEW J, NEW q \in Seq(J), NEW j \in J
    PROVE  Range(Append(q, j)) = Range(q) \cup {j}
<1>1. /\ DOMAIN Append(q, j) = DOMAIN q \cup {Len(q) + 1} /\ Append(q, j)[Len(q) + 1] = j
      /\ \A i \in DOMAIN q : Append(q, j)[i] = q[i]
  OBVIOUS
<1>2. Range(Append(q, j)) = {Append(q, j)[i] : i \in DOMAIN Append(q, j)}
  BY DEF Range
<1> QED BY <1>1, <1>2, Zenon DEF Range

\* What Only keeps: jobs of the list at these positions.
LEMMA OnlyRange ==
    ASSUME NEW J, NEW q \in Seq(J), NEW P
    PROVE  Only(q, P) \in Seq(J) /\ Range(Only(q, P)) = {q[i] : i \in P \cap DOMAIN q}
<1> DEFINE n == Len(q)
           At(k) == {q[i] : i \in P \cap (1 .. k)}
<1>1. n \in Nat /\ \A i \in 1 .. n : q[i] \in J
  OBVIOUS
<1>2. PICK a : OnlyBy(a, q, P, J)
  BY OnlyPrefix
<1> DEFINE S == {k \in 0 .. n : Range(a[k]) = At(k)}
<1>3. 0 \in S
  <2>1. a[0] = <<>> /\ 0 \in 0 .. n /\ At(0) = {}
    BY <1>1, <1>2 DEF OnlyBy
  <2> QED BY <2>1 DEF Range
<1>4. ASSUME NEW k \in 1 .. n, k - 1 \in S PROVE k \in S
  <2>1. k - 1 \in 0 .. n /\ k \in 0 .. n /\ q[k] \in J /\ Range(a[k - 1]) = At(k - 1)
    BY <1>1, <1>4
  <2>2. a[k - 1] \in Seq(J) /\ a[k] = IF k \in P THEN Append(a[k - 1], q[k]) ELSE a[k - 1]
    BY <1>2, <2>1 DEF OnlyBy
  <2>3. 1 .. k = (1 .. k - 1) \cup {k}
    BY <2>1
  <2>4. At(k) = IF k \in P THEN At(k - 1) \cup {q[k]} ELSE At(k - 1)
    BY <2>3, Zenon
  <2> HIDE DEF At
  <2>5. Range(a[k]) = At(k)
    <3>1. Range(Append(a[k - 1], q[k])) = Range(a[k - 1]) \cup {q[k]}
      BY <2>1, <2>2, RangeAppend
    <3> QED BY <2>1, <2>2, <2>4, <3>1, Zenon
  <2> QED BY <2>1, <2>5
<1> HIDE DEF At
<1>5. \A k \in 0 .. n : k \in S
  <2> HIDE DEF S, n
  <2> QED BY <1>1, <1>3, <1>4, Induct
<1>6. n \in 0 .. n
  BY <1>1
<1>7. Only(q, P) \in Seq(J) /\ Range(Only(q, P)) = At(n)
  BY <1>2, <1>5, <1>6 DEF OnlyBy
<1>8. DOMAIN q = 1 .. n
  OBVIOUS
<1> QED BY <1>7, <1>8 DEF At

\* No two jobs of the list are of one session.
Unique(q) == \A i, k \in DOMAIN q : q[i].of = q[k].of => i = k

\* A job of a session that has none in the list may be added.
LEMMA UniqueAppend ==
    ASSUME NEW J, NEW q \in Seq(J), NEW j \in J, Unique(q), \A x \in Range(q) : x.of # j.of
    PROVE  Unique(Append(q, j))
<1> DEFINE p == Append(q, j)
<1>1. /\ DOMAIN p = DOMAIN q \cup {Len(q) + 1} /\ p[Len(q) + 1] = j
      /\ \A i \in DOMAIN q : p[i] = q[i]
  OBVIOUS
<1>2. \A i \in DOMAIN q : q[i].of # j.of
  BY DEF Range
<1> HIDE DEF p
<1>3. Unique(p)
  BY <1>1, <1>2, Zenon DEF Unique
<1> QED BY <1>3 DEF p

\* Leaving jobs out makes no two of the rest alike.
LEMMA UniqueOnly ==
    ASSUME NEW J, NEW q \in Seq(J), NEW P, Unique(q)
    PROVE  Unique(Only(q, P))
<1> DEFINE n == Len(q)
           Ofs(k) == {q[i].of : i \in 1 .. k}
           Good(l, k) == Unique(l) /\ \A x \in Range(l) : x.of \in Ofs(k)
<1>1. n \in Nat /\ (\A i \in 1 .. n : q[i] \in J) /\ DOMAIN q = 1 .. n
  OBVIOUS
<1>2. PICK a : OnlyBy(a, q, P, J)
  BY OnlyPrefix
<1> DEFINE S == {k \in 0 .. n : Good(a[k], k)}
<1>3. 0 \in S
  <2>1. a[0] = <<>> /\ 0 \in 0 .. n
    BY <1>1, <1>2 DEF OnlyBy
  <2> QED BY <2>1 DEF Unique, Range
<1>4. ASSUME NEW k \in 1 .. n, k - 1 \in S PROVE k \in S
  <2>1. k - 1 \in 0 .. n /\ k \in 0 .. n /\ q[k] \in J /\ Good(a[k - 1], k - 1)
    BY <1>1, <1>4
  <2>2. a[k - 1] \in Seq(J) /\ a[k] = IF k \in P THEN Append(a[k - 1], q[k]) ELSE a[k - 1]
    BY <1>2, <2>1 DEF OnlyBy
  <2>3. 1 .. k = (1 .. k - 1) \cup {k} /\ k \notin 1 .. k - 1 /\ 1 .. k \subseteq 1 .. n
    BY <1>1, <2>1
  <2>4. Ofs(k) = Ofs(k - 1) \cup {q[k].of}
    BY <2>3, Zenon
  <2>5. q[k].of \notin Ofs(k - 1)
    BY <1>1, <2>3, Zenon DEF Unique
  <2> HIDE DEF Ofs
  <2>6. Range(Append(a[k - 1], q[k])) = Range(a[k - 1]) \cup {q[k]}
    BY <2>1, <2>2, RangeAppend
  <2>7. \A x \in Range(a[k - 1]) : x.of # q[k].of
    BY <2>1, <2>5, Zenon
  <2>8. Unique(Append(a[k - 1], q[k]))
    BY <2>1, <2>2, <2>7, UniqueAppend
  <2>9. Good(Append(a[k - 1], q[k]), k) /\ Good(a[k - 1], k)
    BY <2>1, <2>4, <2>6, <2>8, Zenon
  <2> HIDE DEF Good
  <2>10. Good(a[k], k)
    BY <2>2, <2>9, Zenon
  <2> QED BY <2>1, <2>10
<1>5. \A k \in 0 .. n : k \in S
  <2> HIDE DEF S, n
  <2> QED BY <1>1, <1>3, <1>4, Induct
<1>6. n \in 0 .. n
  BY <1>1
<1>7. Unique(a[n])
  BY <1>5, <1>6
<1> QED BY <1>2, <1>7 DEF OnlyBy
=============================================================================
