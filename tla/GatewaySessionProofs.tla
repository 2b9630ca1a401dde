------------------------ MODULE GatewaySessionProofs ------------------------
(***************************************************************************)
(* The PCM ledger of a gateway session, for every buffer limit, frame size *)
(* and VAD: sample conservation, hand-overs that always fit, reservations  *)
(* that are never orphaned, and decoding in order.                         *)
(***************************************************************************)
EXTENDS GatewaySession, GatewayLemmas

\* A session whose ledger is in order, given the outstanding jobs: the clamp
\* of pending_vad never acts, the cursors agree, the limit holds with the
\* VAD's share included, and a reservation is a non-empty prefix of the
\* buffer, of the current generation, owned by the scheduler.
Sound(ss, js) ==
    /\ ss \in SessionType
    /\ ss.bufAccepted + ss.extDiscarded <= ss.accepted
    /\ ss.base = ss.acked + ss.discarded
    /\ ss.bufAccepted = ss.base + ss.data
    /\ ss.nextSeq > 0
    /\ ss.accepted - ss.extDiscarded - ss.base <= MaxBufferSamples
    /\ ss.res # NoReservation =>
        /\ ss.res.start = ss.base /\ ss.res.start < ss.res.end
        /\ ss.res.end <= ss.base + ss.data
        /\ ss.res.seq > 0 /\ ss.res.gen = ss.gen
        /\ ss.res \in js

\* What surrounds the session: the VAD agrees with the ledger as long as the
\* adapter has the session, and an ended session is empty and not in flight.
Surroundings ==
    /\ held \in Nat /\ terminalEvents \in Nat
    /\ jobs \subseteq Reservation /\ \A j \in jobs : j.seq > 0
    /\ backend \in {"open", "closed"}
    /\ handler \in {"reading", "done"}
    /\ context \in {"live", "released"}
    /\ vadMode \in {"none", "gateway"}
    /\ backend = "open" =>
        /\ s.state \in LiveStates
        /\ held = s.accepted - s.bufAccepted - s.extDiscarded
    /\ backend = "closed" => s.res = NoReservation /\ s.data = 0
    /\ backend = "closed" /\ handler = "reading" => s.state \notin LiveStates
    /\ context = "released" => backend = "closed"
    /\ vadMode # "gateway" => held = 0

IInv == Sound(s, jobs) /\ Surroundings

\* No reservation reserves nothing.
LEMMA NoReservationFacts ==
    /\ NoReservation \in Reservation
    /\ NoReservation.start = 0 /\ NoReservation.end = 0
    /\ NoReservation.seq = 0
BY DEF NoReservation, Reservation

\* What is reserved and buffered in a sound session.
LEMMA BufferFacts ==
    ASSUME NEW js, NEW ss, Sound(ss, js)
    PROVE  /\ Reserved(ss) \in Nat /\ Buffered(ss) \in Nat
           /\ Reserved(ss) + Buffered(ss) = ss.data
           /\ Reserved(ss) = 0 <=> ss.res = NoReservation
           /\ PendingVad(ss) = ss.accepted - ss.bufAccepted - ss.extDiscarded
BY NoReservationFacts
   DEF Sound, SessionType, Reservation, Reserved, Buffered, PendingVad

LEMMA InitIInv == Init => IInv
BY MaxBufferAssumption
   DEF MaxBufferAssumption, Init, NewSession, NoReservation, IInv, Sound,
       Surroundings, SessionType, Reservation, LiveStates, EndedStates

-----------------------------------------------------------------------------
(* Audio comes in *)

LEMMA IngestIInv ==
    ASSUME IInv, NEW n \in FrameSizes, Ingest(n)
    PROVE  IInv'
<1> DEFINE h == HandOver(s, n)
<1>1. n \in Nat /\ s \in SessionType
  BY SessionAssumption DEF SessionAssumption, IInv, Sound
<1>2. h \in SessionType /\ s' = AcceptVad(h, n)
  BY <1>1, AppendFacts, HandOverFacts DEF Ingest
<1>3. /\ s' \in SessionType
      /\ s'.accepted = s.accepted + n /\ s'.bufAccepted = s.bufAccepted + n
      /\ s'.data = s.data + n
      /\ s'.base = s.base /\ s'.acked = s.acked /\ s'.discarded = s.discarded
      /\ s'.extDiscarded = s.extDiscarded /\ s'.res = s.res
      /\ s'.nextSeq = s.nextSeq /\ s'.gen = s.gen /\ s'.state = s.state
  BY <1>1, <1>2, HandOverFacts, AcceptVadFacts
<1>4. backend = "open" /\ held = 0 /\ s.data + n <= MaxBufferSamples
  BY DEF Ingest, Receives, Reading, CanAppend, IInv, Surroundings
<1>5. Sound(s', jobs')
  BY <1>1, <1>3, <1>4, MaxBufferAssumption
     DEF MaxBufferAssumption, Ingest, IInv, Sound, Surroundings, SessionType,
         Reservation
<1>6. Surroundings'
  BY <1>1, <1>3, <1>4 DEF Ingest, IInv, Sound, Surroundings, SessionType
<1> QED BY <1>5, <1>6 DEF IInv

\* Entering a VAD decision in the session: audio handed over, the rest
\* recorded as discarded.
LEMMA DecisionFacts ==
    ASSUME NEW ss \in SessionType, NEW audio \in Nat, NEW dropped \in Nat
    PROVE  LET t == RecordDiscarded(HandOver(ss, audio), dropped) IN
             /\ t \in SessionType
             /\ t.accepted = ss.accepted
             /\ t.bufAccepted = ss.bufAccepted + audio
             /\ t.data = ss.data + audio
             /\ t.extDiscarded = ss.extDiscarded + dropped
             /\ t.base = ss.base /\ t.acked = ss.acked
             /\ t.discarded = ss.discarded /\ t.res = ss.res
             /\ t.nextSeq = ss.nextSeq /\ t.gen = ss.gen
             /\ t.state = ss.state
<1> DEFINE h == HandOver(ss, audio)
<1>1. /\ h \in SessionType
      /\ h.data = ss.data + audio /\ h.bufAccepted = ss.bufAccepted + audio
      /\ h.accepted = ss.accepted /\ h.extDiscarded = ss.extDiscarded
      /\ h.base = ss.base /\ h.acked = ss.acked
      /\ h.discarded = ss.discarded /\ h.res = ss.res
      /\ h.nextSeq = ss.nextSeq /\ h.gen = ss.gen /\ h.state = ss.state
  BY HandOverFacts
<1> HIDE DEF h
<1>2. LET t == RecordDiscarded(h, dropped) IN
        /\ t \in SessionType
        /\ t.extDiscarded = h.extDiscarded + dropped
        /\ t.accepted = h.accepted /\ t.bufAccepted = h.bufAccepted
        /\ t.data = h.data /\ t.base = h.base /\ t.acked = h.acked
        /\ t.discarded = h.discarded /\ t.res = h.res
        /\ t.nextSeq = h.nextSeq /\ t.gen = h.gen /\ t.state = h.state
  BY <1>1, RecordDiscardedFacts
<1> QED BY <1>1, <1>2 DEF h

LEMMA IngestVadIInv ==
    ASSUME IInv, NEW n \in FrameSizes,
           NEW audio \in 0 .. held + n, NEW dropped \in 0 .. held + n,
           IngestVad(n, audio, dropped)
    PROVE  IInv'
<1> DEFINE a == AcceptVad(s, n)
<1> DEFINE h == HandOver(a, audio)
<1>1. n \in Nat /\ s \in SessionType /\ audio \in Nat /\ dropped \in Nat
  BY SessionAssumption DEF SessionAssumption, IInv, Sound, Surroundings
<1>2. /\ a \in SessionType
      /\ a.accepted = s.accepted + n
      /\ a.data = s.data /\ a.bufAccepted = s.bufAccepted
      /\ a.base = s.base /\ a.acked = s.acked /\ a.discarded = s.discarded
      /\ a.extDiscarded = s.extDiscarded /\ a.res = s.res
      /\ a.nextSeq = s.nextSeq /\ a.gen = s.gen /\ a.state = s.state
  BY <1>1, AcceptVadFacts
<1>3. /\ s' = RecordDiscarded(h, dropped)
      /\ CanRecordDiscarded(h, dropped)
      /\ audio > 0 => CanAppend(a, audio)
      /\ CanAcceptVad(s, n)
      /\ audio + dropped <= held + n
      /\ held' = held + n - (audio + dropped)
      /\ vadMode = "gateway"
      /\ handler = "reading"
      /\ UNCHANGED <<jobs, backend, terminalEvents, handler, context, vadMode>>
  BY DEF IngestVad, Receives, Reading
<1>4. /\ s' \in SessionType
      /\ s'.accepted = s.accepted + n
      /\ s'.bufAccepted = s.bufAccepted + audio /\ s'.data = s.data + audio
      /\ s'.extDiscarded = s.extDiscarded + dropped
      /\ s'.base = s.base /\ s'.acked = s.acked /\ s'.discarded = s.discarded
      /\ s'.res = s.res /\ s'.nextSeq = s.nextSeq /\ s'.gen = s.gen
      /\ s'.state = s.state
  <2> HIDE DEF a
  <2>1. /\ s' \in SessionType
        /\ s'.accepted = a.accepted
        /\ s'.bufAccepted = a.bufAccepted + audio /\ s'.data = a.data + audio
        /\ s'.extDiscarded = a.extDiscarded + dropped
        /\ s'.base = a.base /\ s'.acked = a.acked
        /\ s'.discarded = a.discarded /\ s'.res = a.res
        /\ s'.nextSeq = a.nextSeq /\ s'.gen = a.gen /\ s'.state = a.state
    <3>1. s' = RecordDiscarded(HandOver(a, audio), dropped)
      BY <1>3
    <3>2. a \in SessionType /\ audio \in Nat /\ dropped \in Nat
      BY <1>1, <1>2
    <3> QED BY <3>1, <3>2, DecisionFacts, ZenonT(30)
  <2> QED BY <1>2, <2>1
<1>5. audio > 0 => backend = "open"
  BY <1>2, <1>3 DEF CanAppend, IInv, Surroundings
<1>6. s.data + (s.accepted - s.bufAccepted - s.extDiscarded) + n
        <= MaxBufferSamples
  BY <1>1, <1>3, BufferFacts, MaxBufferAssumption
     DEF MaxBufferAssumption, IInv, Sound, SessionType, CanAcceptVad
<1>7. audio + dropped <= s.accepted + n - s.bufAccepted - s.extDiscarded
  <2>1. CASE backend = "open"
    BY <1>1, <1>3, <2>1 DEF IInv, Sound, Surroundings, SessionType
  <2>2. CASE backend = "closed"
    <3>1. audio = 0
      BY <1>1, <1>5, <2>2
    <3>2. /\ h.accepted = s.accepted + n
          /\ h.bufAccepted = s.bufAccepted + audio
          /\ h.extDiscarded = s.extDiscarded
      BY <1>1, <1>2, HandOverFacts
    <3> QED BY <1>1, <1>3, <3>1, <3>2
            DEF CanRecordDiscarded, PendingVad, SessionType, IInv, Sound
  <2> QED BY <2>1, <2>2 DEF IInv, Surroundings
<1>8. Sound(s', jobs')
  BY <1>1, <1>3, <1>4, <1>6, <1>7, MaxBufferAssumption
     DEF MaxBufferAssumption, IInv, Sound, Surroundings, SessionType,
         Reservation
<1>9. Surroundings'
  BY <1>1, <1>3, <1>4, <1>5 DEF IInv, Sound, Surroundings, SessionType
<1> QED BY <1>8, <1>9 DEF IInv

\* A frame whose hand-over raises was only counted, in an ended session.
LEMMA IngestVadRaisesIInv ==
    ASSUME IInv, NEW n \in FrameSizes,
           NEW audio \in 0 .. held + n, NEW dropped \in 0 .. held + n,
           IngestVadRaises(n, audio, dropped)
    PROVE  IInv'
<1> DEFINE a == AcceptVad(s, n)
<1>1. n \in Nat /\ s \in SessionType /\ audio \in Nat /\ dropped \in Nat
  BY SessionAssumption DEF SessionAssumption, IInv, Sound, Surroundings
<1>2. /\ a \in SessionType
      /\ a.accepted = s.accepted + n
      /\ a.data = s.data /\ a.bufAccepted = s.bufAccepted
      /\ a.base = s.base /\ a.acked = s.acked /\ a.discarded = s.discarded
      /\ a.extDiscarded = s.extDiscarded /\ a.res = s.res
      /\ a.nextSeq = s.nextSeq /\ a.gen = s.gen /\ a.state = s.state
  BY <1>1, AcceptVadFacts
<1>3. /\ s' = a
      /\ IF audio > 0 THEN ~CanAppend(a, audio)
                      ELSE ~CanRecordDiscarded(a, dropped)
      /\ CanAcceptVad(s, n)
      /\ audio + dropped <= held + n
      /\ held' = held + n - (audio + dropped)
      /\ vadMode = "gateway"
      /\ handler' = "done"
      /\ UNCHANGED <<jobs, backend, terminalEvents, context, vadMode>>
  BY DEF IngestVadRaises
<1>4. s.data + (s.accepted - s.bufAccepted - s.extDiscarded) + n
        <= MaxBufferSamples
  BY <1>1, <1>3, BufferFacts, MaxBufferAssumption
     DEF MaxBufferAssumption, IInv, Sound, SessionType, CanAcceptVad
<1>5. backend = "closed"
  <2> SUFFICES ASSUME backend = "open" PROVE FALSE
    BY DEF IInv, Surroundings
  <2>1. held = s.accepted - s.bufAccepted - s.extDiscarded
        /\ s.state \in LiveStates
    BY DEF IInv, Surroundings
  <2>2. CASE audio > 0
    BY <1>1, <1>2, <1>3, <1>4, <2>1, <2>2, MaxBufferAssumption
       DEF MaxBufferAssumption, CanAppend, SessionType
  <2>3. CASE audio = 0
    BY <1>1, <1>2, <1>3, <2>1, <2>3
       DEF CanRecordDiscarded, PendingVad, SessionType
  <2> QED BY <1>1, <2>2, <2>3
<1>6. Sound(s', jobs')
  BY <1>1, <1>2, <1>3, <1>4, MaxBufferAssumption
     DEF MaxBufferAssumption, IInv, Sound, SessionType, Reservation
<1>7. Surroundings'
  BY <1>1, <1>2, <1>3, <1>5 DEF IInv, Sound, Surroundings, SessionType
<1> QED BY <1>6, <1>7 DEF IInv

-----------------------------------------------------------------------------
(* Jobs go out and come back *)

LEMMA ScheduleIInv ==
    ASSUME IInv, NEW n \in 1 .. Buffered(s), NEW final \in BOOLEAN,
           Schedule(n, final)
    PROVE  IInv'
<1> DEFINE r == NewReservation(s, n, final)
<1>1. n \in Nat /\ n > 0 /\ s \in SessionType
  BY BufferFacts DEF IInv, Sound
<1>2. /\ s' \in SessionType
      /\ s'.res = r /\ s'.nextSeq = s.nextSeq + 1
      /\ s'.accepted = s.accepted /\ s'.bufAccepted = s.bufAccepted
      /\ s'.extDiscarded = s.extDiscarded /\ s'.data = s.data
      /\ s'.base = s.base /\ s'.acked = s.acked /\ s'.discarded = s.discarded
      /\ s'.gen = s.gen /\ s'.state = s.state
  <2>1. s' = Reserve(s, n, final)
    BY DEF Schedule
  <2> QED BY <1>1, <2>1, ReserveFacts, Zenon
<1>3. /\ r \in Reservation
      /\ r.seq = s.nextSeq /\ r.gen = s.gen /\ r.start = s.base
      /\ r.end = s.base + n
  BY <1>1 DEF NewReservation, Reservation, SessionType
<1> HIDE DEF r
<1>4. /\ s.res = NoReservation /\ n <= s.data
      /\ jobs' = jobs \cup {r}
      /\ UNCHANGED <<held, backend, terminalEvents, handler, context, vadMode>>
  BY BufferFacts DEF Schedule, CanReserve, InFlight, IInv, Sound, SessionType, r
<1>5. backend = "open"
  BY <1>1, <1>4 DEF IInv, Surroundings
<1>6. Sound(s', jobs')
  BY <1>1, <1>2, <1>3, <1>4 DEF IInv, Sound, SessionType
<1>7. Surroundings'
  BY <1>1, <1>2, <1>3, <1>4, <1>5
     DEF IInv, Sound, Surroundings, SessionType
<1> QED BY <1>6, <1>7 DEF IInv

LEMMA ScheduleRefusedIInv ==
    ASSUME IInv, NEW n \in 1 .. Buffered(s), ScheduleRefused(n)
    PROVE  IInv'
<1> DEFINE q == Reserve(s, n, FALSE)
<1>1. n \in Nat /\ n > 0 /\ s \in SessionType
  BY BufferFacts DEF IInv, Sound
<1>2. /\ q \in SessionType /\ q.nextSeq = s.nextSeq + 1
      /\ q.accepted = s.accepted /\ q.bufAccepted = s.bufAccepted
      /\ q.extDiscarded = s.extDiscarded /\ q.data = s.data
      /\ q.base = s.base /\ q.acked = s.acked /\ q.discarded = s.discarded
      /\ q.gen = s.gen /\ q.state = s.state
  <2>1. FALSE \in BOOLEAN
    OBVIOUS
  <2> QED BY <1>1, <2>1, ReserveFacts, Zenon
<1> HIDE DEF q
<1>3. /\ s' \in SessionType /\ s'.res = NoReservation
      /\ s'.nextSeq = q.nextSeq
      /\ s'.accepted = q.accepted /\ s'.bufAccepted = q.bufAccepted
      /\ s'.extDiscarded = q.extDiscarded /\ s'.data = q.data
      /\ s'.base = q.base /\ s'.acked = q.acked /\ s'.discarded = q.discarded
      /\ s'.gen = q.gen /\ s'.state = q.state
  <2>1. s' = Rollback(q)
    BY DEF ScheduleRefused, q
  <2> QED BY <1>2, <2>1, RollbackFacts, Zenon
<1>4. UNCHANGED <<held, jobs, backend, terminalEvents, handler, context, vadMode>>
  BY DEF ScheduleRefused
<1>5. Sound(s', jobs')
  BY <1>1, <1>2, <1>3, <1>4 DEF IInv, Sound, SessionType
<1>6. Surroundings'
  BY <1>1, <1>2, <1>3, <1>4 DEF IInv, Sound, Surroundings, SessionType
<1> QED BY <1>5, <1>6 DEF IInv

\* A job the session does not wait for leaves the ledger alone.
LEMMA ForgetJobIInv ==
    ASSUME IInv, NEW j \in jobs, s.res # j,
           s' = s, jobs' = jobs \ {j},
           UNCHANGED <<held, backend, terminalEvents, handler, context, vadMode>>
    PROVE  IInv'
<1>1. Sound(s', jobs')
  BY DEF IInv, Sound
<1>2. Surroundings'
  BY DEF IInv, Sound, Surroundings
<1> QED BY <1>1, <1>2 DEF IInv

\* Nothing is in flight once the context is gone.
LEMMA ReleasedIsIdle ==
    ASSUME IInv, NEW j \in jobs, ~Live
    PROVE  s.res # j
BY NoReservationFacts DEF IInv, Surroundings, Live

LEMMA CleanupIInv ==
    ASSUME IInv, NEW j \in jobs, CleanupJob(j)
    PROVE  IInv'
<1>1. /\ s \in SessionType /\ j \in Reservation /\ j.seq > 0
      /\ jobs' = jobs \ {j}
      /\ UNCHANGED <<held, backend, terminalEvents, handler, context, vadMode>>
  BY DEF IInv, Sound, Surroundings, CleanupJob
<1>2. CASE Live /\ j.gen = s.gen /\ MatchesReservation(s, j)
  <2>1. /\ s.res # NoReservation
        /\ s.res.start <= s.res.end /\ s.res.end - s.res.start <= s.data
    BY <1>1, <1>2, NoReservationFacts
       DEF MatchesReservation, IInv, Sound, SessionType, Reservation
  <2>2. /\ s' \in SessionType /\ s'.res = NoReservation
        /\ s'.base = s.res.end /\ s'.data = s.data - Reserved(s)
        /\ s'.acked = s.acked + Reserved(s)
        /\ s'.accepted = s.accepted /\ s'.bufAccepted = s.bufAccepted
        /\ s'.extDiscarded = s.extDiscarded /\ s'.discarded = s.discarded
        /\ s'.nextSeq = s.nextSeq /\ s'.gen = s.gen /\ s'.state = s.state
    <3>1. s' = Acknowledge(s)
      BY <1>2 DEF CleanupJob
    <3> QED BY <1>1, <2>1, <3>1, AcknowledgeFacts, Zenon
  <2>3. Sound(s', jobs')
    BY <1>1, <2>1, <2>2, MaxBufferAssumption
       DEF MaxBufferAssumption, IInv, Sound, SessionType, Reservation, Reserved
  <2>4. Surroundings'
    BY <1>1, <2>1, <2>2 DEF IInv, Sound, Surroundings, SessionType
  <2> QED BY <2>3, <2>4 DEF IInv
<1>3. CASE ~(Live /\ j.gen = s.gen /\ MatchesReservation(s, j))
  <2>1. s' = s
    BY <1>3 DEF CleanupJob
  <2>2. s.res # j
    BY <1>1, <1>3, NoReservationFacts, ReleasedIsIdle
       DEF MatchesReservation, IInv, Sound
  <2> QED BY <1>1, <2>1, <2>2, ForgetJobIInv
<1> QED BY <1>2, <1>3

LEMMA RejectIInv ==
    ASSUME IInv, NEW j \in jobs, RejectJob(j)
    PROVE  IInv'
<1>1. /\ s \in SessionType /\ j \in Reservation /\ j.seq > 0
      /\ jobs' = jobs \ {j}
      /\ UNCHANGED <<held, backend, terminalEvents, handler, context, vadMode>>
  BY DEF IInv, Sound, Surroundings, RejectJob
<1>2. CASE Live /\ j.gen = s.gen /\ s.res.seq = j.seq
  <2>1. /\ s' \in SessionType /\ s'.res = NoReservation
        /\ s'.base = s.base /\ s'.data = s.data /\ s'.acked = s.acked
        /\ s'.accepted = s.accepted /\ s'.bufAccepted = s.bufAccepted
        /\ s'.extDiscarded = s.extDiscarded /\ s'.discarded = s.discarded
        /\ s'.nextSeq = s.nextSeq /\ s'.gen = s.gen /\ s'.state = s.state
    <3>1. s' = Rollback(s)
      BY <1>2 DEF RejectJob
    <3> QED BY <1>1, <3>1, RollbackFacts, Zenon
  <2>2. Sound(s', jobs')
    BY <1>1, <2>1 DEF IInv, Sound, SessionType
  <2>3. Surroundings'
    BY <1>1, <2>1 DEF IInv, Sound, Surroundings, SessionType
  <2> QED BY <2>2, <2>3 DEF IInv
<1>3. CASE ~(Live /\ j.gen = s.gen /\ s.res.seq = j.seq)
  <2>1. s' = s
    BY <1>3 DEF RejectJob
  <2>2. s.res # j
    BY <1>1, <1>3, NoReservationFacts, ReleasedIsIdle DEF IInv, Sound
  <2> QED BY <1>1, <2>1, <2>2, ForgetJobIInv
<1> QED BY <1>2, <1>3

\* The VAD resumes after an endpoint.  The only thing to check is that what
\* it hands back was counted as pending before.
LEMMA EndpointIInv ==
    ASSUME IInv, NEW audio \in 0 .. held, NEW dropped \in 0 .. held,
           EndpointFinalized(audio, dropped)
    PROVE  IInv'
<1>1. s \in SessionType /\ audio \in Nat /\ dropped \in Nat
  BY DEF IInv, Sound, Surroundings
<1>2. /\ s' \in SessionType
      /\ s'.accepted = s.accepted
      /\ s'.bufAccepted = s.bufAccepted + audio /\ s'.data = s.data + audio
      /\ s'.extDiscarded = s.extDiscarded + dropped
      /\ s'.base = s.base /\ s'.acked = s.acked /\ s'.discarded = s.discarded
      /\ s'.res = s.res /\ s'.nextSeq = s.nextSeq /\ s'.gen = s.gen
      /\ s'.state = s.state
  <2>1. s' = RecordDiscarded(HandOver(s, audio), dropped)
    BY DEF EndpointFinalized
  <2> QED BY <1>1, <2>1, DecisionFacts, Zenon
<1>3. /\ backend = "open" /\ vadMode = "gateway"
      /\ audio + dropped <= held /\ held' = held - (audio + dropped)
      /\ UNCHANGED <<jobs, backend, terminalEvents, handler, context, vadMode>>
  BY DEF EndpointFinalized, BackendOpen
<1>4. Sound(s', jobs')
  BY <1>1, <1>2, <1>3, MaxBufferAssumption
     DEF MaxBufferAssumption, IInv, Sound, Surroundings, SessionType,
         Reservation
<1>5. Surroundings'
  BY <1>1, <1>2, <1>3 DEF IInv, Sound, Surroundings, SessionType
<1> QED BY <1>4, <1>5 DEF IInv

-----------------------------------------------------------------------------
(* Ending the session *)

\* finish flushes the VAD.  In a session that another task has already
\* failed the ledger stays in order as well.
LEMMA FinishIInv ==
    ASSUME IInv, NEW audio \in 0 .. held, Finish(audio)
    PROVE  IInv'
<1> DEFINE h == HandOver(s, audio)
<1> DEFINE d == RecordDiscarded(h, held - audio)
<1>1. s \in SessionType /\ held \in Nat /\ audio \in Nat /\ held - audio \in Nat
  BY DEF IInv, Sound, Surroundings
<1>2. /\ d \in SessionType
      /\ d.accepted = s.accepted
      /\ d.bufAccepted = s.bufAccepted + audio /\ d.data = s.data + audio
      /\ d.extDiscarded = s.extDiscarded + (held - audio)
      /\ d.base = s.base /\ d.acked = s.acked /\ d.discarded = s.discarded
      /\ d.res = s.res /\ d.nextSeq = s.nextSeq /\ d.gen = s.gen
      /\ d.state = s.state
  BY <1>1, DecisionFacts, ZenonT(30)
<1>3. /\ s' = RequestFinish(d)
      /\ CanRecordDiscarded(h, held - audio)
      /\ audio > 0 => CanAppend(s, audio)
      /\ handler = "reading" /\ handler' = "done" /\ held' = 0
      /\ UNCHANGED <<jobs, backend, terminalEvents, context, vadMode>>
  BY DEF Finish, Reading
<1>4. audio > 0 => backend = "open"
  BY <1>3 DEF CanAppend, IInv, Surroundings
<1>5. held <= s.accepted - s.bufAccepted - s.extDiscarded
  <2>1. CASE backend = "open"
    BY <1>1, <2>1 DEF IInv, Sound, Surroundings, SessionType
  <2>2. CASE backend = "closed"
    <3>1. audio = 0
      BY <1>1, <1>4, <2>2
    <3>2. /\ h.accepted = s.accepted
          /\ h.bufAccepted = s.bufAccepted + audio
          /\ h.extDiscarded = s.extDiscarded
      BY <1>1, HandOverFacts
    <3> HIDE DEF h
    <3> QED BY <1>1, <1>3, <3>1, <3>2
            DEF CanRecordDiscarded, PendingVad, SessionType, IInv, Sound
  <2> QED BY <2>1, <2>2 DEF IInv, Surroundings
<1> HIDE DEF d, h
<1>6. /\ s' \in SessionType /\ s'.state \in {d.state, "finishing"}
      /\ s'.accepted = d.accepted /\ s'.extDiscarded = d.extDiscarded
      /\ s'.bufAccepted = d.bufAccepted /\ s'.base = d.base
      /\ s'.data = d.data /\ s'.acked = d.acked /\ s'.discarded = d.discarded
      /\ s'.res = d.res /\ s'.nextSeq = d.nextSeq /\ s'.gen = d.gen
  BY <1>2, <1>3, RequestFinishFacts, Zenon
<1>7. Sound(s', jobs')
  BY <1>1, <1>2, <1>3, <1>5, <1>6, MaxBufferAssumption
     DEF MaxBufferAssumption, IInv, Sound, Surroundings, SessionType,
         Reservation
<1>8. Surroundings'
  <2>1. s.data + audio = 0 \/ backend = "open"
    BY <1>1, <1>4 DEF IInv, Sound, Surroundings, SessionType
  <2> QED BY <1>1, <1>2, <1>3, <1>5, <1>6, <2>1
          DEF IInv, Sound, Surroundings, SessionType, LiveStates
<1> QED BY <1>7, <1>8 DEF IInv

\* abort, fail, succeed and close keep the ledger in order.
LEMMA AbortSound ==
    ASSUME NEW js, NEW ss, Sound(ss, js), ss.state \notin {"aborted", "failed"}
    PROVE  LET t == AbortSession(ss) IN
             /\ Sound(t, js)
             /\ t.res = NoReservation /\ t.data = 0 /\ t.state = "aborted"
<1> DEFINE t == AbortSession(ss)
<1>1. ss \in SessionType
  BY DEF Sound
<1>2. /\ t \in SessionType
      /\ t.extDiscarded = ss.extDiscarded + PendingVad(ss)
      /\ t.base = ss.base + ss.data /\ t.data = 0
      /\ t.discarded = ss.discarded + ss.data /\ t.res = NoReservation
      /\ t.gen = ss.gen + 1 /\ t.state = "aborted"
      /\ t.accepted = ss.accepted /\ t.bufAccepted = ss.bufAccepted
      /\ t.acked = ss.acked /\ t.nextSeq = ss.nextSeq
  BY <1>1, AbortFacts, Zenon
<1>3. PendingVad(ss) = ss.accepted - ss.bufAccepted - ss.extDiscarded
  BY BufferFacts
<1> HIDE DEF t
<1>4. Sound(t, js)
  BY <1>1, <1>2, <1>3, MaxBufferAssumption
     DEF MaxBufferAssumption, Sound, SessionType
<1> QED BY <1>2, <1>4 DEF t

LEMMA StateSound ==
    ASSUME NEW js, NEW ss, Sound(ss, js), NEW end \in EndedStates
    PROVE  LET t == [ss EXCEPT !.state = end] IN
             /\ Sound(t, js)
             /\ t.res = ss.res /\ t.data = ss.data /\ t.state = end
<1> DEFINE t == [ss EXCEPT !.state = end]
<1>1. ss \in SessionType
  BY DEF Sound
<1>2. /\ t \in SessionType /\ t.state = end
      /\ t.accepted = ss.accepted /\ t.extDiscarded = ss.extDiscarded
      /\ t.bufAccepted = ss.bufAccepted /\ t.base = ss.base
      /\ t.data = ss.data /\ t.acked = ss.acked
      /\ t.discarded = ss.discarded /\ t.res = ss.res
      /\ t.nextSeq = ss.nextSeq /\ t.gen = ss.gen
  BY <1>1, StateFacts, Zenon
<1> HIDE DEF t
<1>3. Sound(t, js)
  BY <1>1, <1>2 DEF Sound, SessionType
<1> QED BY <1>2, <1>3 DEF t

LEMMA CloseSound ==
    ASSUME NEW js, NEW ss, Sound(ss, js), ss.res = NoReservation
    PROVE  LET t == CloseSession(ss) IN
             /\ Sound(t, js)
             /\ t.res = NoReservation /\ t.data = ss.data /\ t.state = ss.state
<1> DEFINE t == [ss EXCEPT !.gen = @ + 1]
<1>1. ss \in SessionType
  BY DEF Sound
<1>2. /\ t \in SessionType /\ t.gen = ss.gen + 1
      /\ t.accepted = ss.accepted /\ t.extDiscarded = ss.extDiscarded
      /\ t.bufAccepted = ss.bufAccepted /\ t.base = ss.base
      /\ t.data = ss.data /\ t.acked = ss.acked
      /\ t.discarded = ss.discarded /\ t.res = ss.res
      /\ t.nextSeq = ss.nextSeq /\ t.state = ss.state
  BY <1>1, GenerationFacts, Zenon
<1> HIDE DEF t
<1>3. Sound(t, js)
  BY <1>1, <1>2 DEF Sound, SessionType
<1> QED BY <1>2, <1>3 DEF t, CloseSession

LEMMA EndIInv ==
    ASSUME IInv, FinishSucceeds \/ Fail \/ EnqueueAbort \/ Abort
    PROVE  IInv'
<1>1. s \in SessionType
  BY DEF IInv, Sound
<1>2. CASE FinishSucceeds
  <2>1. s.res = NoReservation /\ s.data = 0
    BY <1>2, BufferFacts DEF FinishSucceeds, CanSucceed, IInv, Sound, SessionType
  <2>2. /\ s' = [s EXCEPT !.state = "succeeded"]
        /\ backend' = "closed" /\ terminalEvents' = terminalEvents + 1
        /\ UNCHANGED <<held, jobs, handler, context, vadMode>>
    BY <1>2 DEF FinishSucceeds, Succeed
  <2>3. "succeeded" \in EndedStates /\ "succeeded" \notin LiveStates
    BY DEF EndedStates, LiveStates
  <2>4. /\ Sound(s', jobs) /\ s'.res = NoReservation /\ s'.data = 0
        /\ s'.state = "succeeded"
    BY <2>1, <2>2, <2>3, StateSound DEF IInv
  <2> QED BY <2>2, <2>3, <2>4 DEF IInv, Surroundings
<1>3. CASE Fail
  <2> DEFINE a == AbortSession(s)
  <2>1. /\ Sound(a, jobs) /\ a.res = NoReservation /\ a.data = 0
    BY <1>3, AbortSound DEF Fail, IInv, LiveStates
  <2>2. /\ s' = [a EXCEPT !.state = "failed"]
        /\ backend' = "closed" /\ terminalEvents' = terminalEvents + 1
        /\ handler' \in {handler, "done"}
        /\ UNCHANGED <<held, jobs, context, vadMode>>
    BY <1>3 DEF Fail, FailSession
  <2>3. "failed" \in EndedStates /\ "failed" \notin LiveStates
    BY DEF EndedStates, LiveStates
  <2> HIDE DEF a
  <2>4. /\ Sound(s', jobs) /\ s'.res = NoReservation /\ s'.data = 0
        /\ s'.state = "failed"
    BY <2>1, <2>2, <2>3, StateSound
  <2> QED BY <2>2, <2>3, <2>4 DEF IInv, Surroundings
<1>4. CASE EnqueueAbort
  <2>1. /\ s' = AbortSession(s)
        /\ backend' = "closed" /\ terminalEvents' = terminalEvents + 1
        /\ handler = "reading" /\ handler' = "done" /\ held' = 0
        /\ UNCHANGED <<jobs, context, vadMode>>
    BY <1>4 DEF EnqueueAbort, Reading
  <2>2. Sound(s', jobs) /\ s'.res = NoReservation /\ s'.data = 0
    <3>1. CASE s.state \in {"aborted", "failed"}
      <4>1. s' = s
        BY <2>1, <3>1 DEF AbortSession
      <4>2. backend = "closed"
        BY <3>1 DEF IInv, Surroundings, LiveStates
      <4> QED BY <4>1, <4>2 DEF IInv, Surroundings
    <3>2. CASE s.state \notin {"aborted", "failed"}
      BY <2>1, <3>2, AbortSound DEF IInv
    <3> QED BY <3>1, <3>2
  <2> QED BY <2>1, <2>2 DEF IInv, Surroundings
<1>5. CASE Abort
  <2>1. context' = "released" /\ UNCHANGED <<jobs, handler, vadMode>>
    BY <1>5 DEF Abort
  <2>2. CASE s.state \in EndedStates
    <3>1. s' = CloseSession(s) /\ UNCHANGED <<held, backend, terminalEvents>>
      BY <1>5, <2>2 DEF Abort
    <3>2. backend = "closed" /\ s.res = NoReservation /\ s.data = 0
      BY <2>2 DEF IInv, Surroundings, LiveStates, EndedStates
    <3>3. /\ Sound(s', jobs) /\ s'.res = NoReservation /\ s'.data = 0
          /\ s'.state = s.state
      BY <3>1, <3>2, CloseSound DEF IInv
    <3> QED BY <2>1, <3>1, <3>2, <3>3 DEF IInv, Surroundings
  <2>3. CASE s.state \notin EndedStates
    <3> DEFINE a == AbortSession(s)
    <3>1. /\ s' = CloseSession(a) /\ held' = 0 /\ backend' = "closed"
          /\ terminalEvents' = terminalEvents + 1
      BY <1>5, <2>3 DEF Abort
    <3>2. /\ Sound(a, jobs) /\ a.res = NoReservation /\ a.data = 0
          /\ a.state = "aborted"
      BY <2>3, AbortSound DEF IInv, EndedStates
    <3> HIDE DEF a
    <3>3. /\ Sound(s', jobs) /\ s'.res = NoReservation /\ s'.data = 0
          /\ s'.state = "aborted"
      BY <3>1, <3>2, CloseSound
    <3> QED BY <2>1, <3>1, <3>3 DEF IInv, Surroundings, LiveStates
  <2> QED BY <2>2, <2>3
<1> QED BY <1>2, <1>3, <1>4, <1>5

-----------------------------------------------------------------------------
(* The theorems *)

LEMMA StepIInv == IInv /\ [Next]_vars => IInv'
<1> SUFFICES ASSUME IInv, [Next]_vars PROVE IInv'
  OBVIOUS
<1>1. CASE UNCHANGED vars
  BY <1>1 DEF IInv, Sound, Surroundings, vars
<1>2. CASE Next
  BY <1>2, IngestIInv, IngestVadIInv, IngestVadRaisesIInv, ScheduleIInv,
     ScheduleRefusedIInv, CleanupIInv, RejectIInv, EndpointIInv, FinishIInv,
     EndIInv DEF Next
<1> QED BY <1>1, <1>2

\* The inductive invariant holds in every reachable state of the session.
LEMMA AlwaysIInv == Spec => []IInv
BY InitIInv, StepIInv, PTL DEF Spec

\* The session's variables keep their types: no cursor or buffer length of
\* GatewaySession or PcmRingBuffer is ever driven below zero.
THEOREM TypeCorrect == Spec => []TypeOK
<1>1. IInv => TypeOK
  BY DEF IInv, Sound, Surroundings, TypeOK
<1> QED BY <1>1, AlwaysIInv, PTL

\* sample_accounting is exact: each accepted sample is in exactly one place.
THEOREM ConservesSamples == Spec => []Conservation
<1>1. IInv => Conservation
  <2> SUFFICES ASSUME IInv PROVE Conservation
    OBVIOUS
  <2> QED BY BufferFacts DEF IInv, Sound, SessionType, Conservation
<1> QED BY <1>1, AlwaysIInv, PTL

\* The limit accept_vad_input enforces is enough for every later hand-over.
THEOREM HandOversFit == Spec => []HandOverFits
<1>1. IInv => HandOverFits
  <2> SUFFICES ASSUME IInv PROVE HandOverFits
    OBVIOUS
  <2> QED BY BufferFacts, MaxBufferAssumption
          DEF MaxBufferAssumption, IInv, Sound, Surroundings, SessionType,
              HandOverFits, BackendOpen
<1> QED BY <1>1, AlwaysIInv, PTL

\* A session in flight always has its job at the scheduler.
THEOREM OwnsReservation == Spec => []ReservationIsOwned
<1>1. IInv => ReservationIsOwned
  BY DEF IInv, Sound, ReservationIsOwned, InFlight
<1> QED BY <1>1, AlwaysIInv, PTL

\* The cursors of the ring buffer agree with what was decoded and discarded.
THEOREM AgreesOnCursors == Spec => []CursorsAgree
<1>1. IInv => CursorsAgree
  BY DEF IInv, Sound, CursorsAgree, InFlight
<1> QED BY <1>1, AlwaysIInv, PTL

\* Only _cleanup_job acknowledges.
LEMMA AudioKeepsAcked ==
    ASSUME IInv, NEW n \in FrameSizes,
           \/ Ingest(n)
           \/ \E audio, dropped \in 0 .. held + n :
                IngestVad(n, audio, dropped) \/ IngestVadRaises(n, audio, dropped)
    PROVE  s'.acked = s.acked
<1>1. n \in Nat /\ s \in SessionType
  BY SessionAssumption DEF SessionAssumption, IInv, Sound
<1>2. AcceptVad(s, n) \in SessionType /\ AcceptVad(s, n).acked = s.acked
  BY <1>1, AcceptVadFacts
<1>3. CASE Ingest(n)
  <2>1. s' = AcceptVad(HandOver(s, n), n)
    BY <1>1, <1>3, AppendFacts DEF Ingest
  <2>2. HandOver(s, n) \in SessionType /\ HandOver(s, n).acked = s.acked
    BY <1>1, HandOverFacts
  <2> QED BY <1>1, <2>1, <2>2, AcceptVadFacts, Zenon
<1>4. ASSUME NEW audio \in 0 .. held + n, NEW dropped \in 0 .. held + n,
             IngestVad(n, audio, dropped)
      PROVE  s'.acked = s.acked
  <2>1. audio \in Nat /\ dropped \in Nat
    BY <1>1 DEF IInv, Surroundings
  <2>2. s' = RecordDiscarded(HandOver(AcceptVad(s, n), audio), dropped)
    BY <1>4 DEF IngestVad
  <2> QED BY <1>2, <2>1, <2>2, DecisionFacts, Zenon
<1>5. ASSUME NEW audio \in 0 .. held + n, NEW dropped \in 0 .. held + n,
             IngestVadRaises(n, audio, dropped)
      PROVE  s'.acked = s.acked
  BY <1>2, <1>5 DEF IngestVadRaises
<1> QED BY <1>3, <1>4, <1>5

LEMMA ControlKeepsAcked ==
    ASSUME IInv,
           \/ \E n \in 1 .. Buffered(s) :
               \/ \E final \in BOOLEAN : Schedule(n, final)
               \/ ScheduleRefused(n)
           \/ \E j \in jobs : RejectJob(j)
           \/ \E audio, dropped \in 0 .. held : EndpointFinalized(audio, dropped)
           \/ \E audio \in 0 .. held : Finish(audio)
           \/ FinishSucceeds \/ Fail \/ EnqueueAbort \/ Abort
    PROVE  s'.acked = s.acked
<1>1. s \in SessionType /\ held \in Nat /\ FALSE \in BOOLEAN
  BY DEF IInv, Sound, Surroundings
<1>2. ASSUME NEW n \in 1 .. Buffered(s), NEW final \in BOOLEAN,
             Schedule(n, final) \/ ScheduleRefused(n)
      PROVE  s'.acked = s.acked
  <2>1. n \in Nat
    BY BufferFacts DEF IInv
  <2>2. \A f \in BOOLEAN : /\ Reserve(s, n, f) \in SessionType
                           /\ Reserve(s, n, f).acked = s.acked
    BY <1>1, <2>1, ReserveFacts, Zenon
  <2>3. s' = Reserve(s, n, final) \/ s' = Rollback(Reserve(s, n, FALSE))
    BY <1>2 DEF Schedule, ScheduleRefused
  <2>4. CASE s' = Reserve(s, n, final)
    BY <2>2, <2>4
  <2>5. CASE s' = Rollback(Reserve(s, n, FALSE))
    <3>1. /\ Reserve(s, n, FALSE) \in SessionType
          /\ Reserve(s, n, FALSE).acked = s.acked
      BY <1>1, <2>2
    <3> QED BY <2>5, <3>1, RollbackFacts, Zenon
  <2> QED BY <2>3, <2>4, <2>5
<1>3. ASSUME NEW j \in jobs, RejectJob(j) PROVE s'.acked = s.acked
  BY <1>1, <1>3, RollbackFacts DEF RejectJob
<1>4. ASSUME NEW audio \in 0 .. held, NEW dropped \in 0 .. held,
             EndpointFinalized(audio, dropped)
      PROVE  s'.acked = s.acked
  <2>1. audio \in Nat /\ dropped \in Nat
    BY <1>1
  <2>2. s' = RecordDiscarded(HandOver(s, audio), dropped)
    BY <1>4 DEF EndpointFinalized
  <2> QED BY <1>1, <2>1, <2>2, DecisionFacts, Zenon
<1>5. ASSUME NEW audio \in 0 .. held, Finish(audio) PROVE s'.acked = s.acked
  <2> DEFINE d == RecordDiscarded(HandOver(s, audio), held - audio)
  <2>1. audio \in Nat /\ held - audio \in Nat
    BY <1>1
  <2>2. d \in SessionType /\ d.acked = s.acked
    BY <1>1, <2>1, DecisionFacts, Zenon
  <2>3. s' = RequestFinish(d)
    BY <1>5 DEF Finish
  <2> HIDE DEF d
  <2> QED BY <2>2, <2>3, RequestFinishFacts, Zenon
<1>6. AbortSession(s) \in SessionType /\ AbortSession(s).acked = s.acked
  <2>1. CASE s.state \in {"aborted", "failed"}
    BY <1>1, <2>1 DEF AbortSession
  <2>2. CASE s.state \notin {"aborted", "failed"}
    BY <1>1, <2>2, AbortFacts, Zenon
  <2> QED BY <2>1, <2>2
<1>7. \A ss \in SessionType, end \in EndedStates :
        [ss EXCEPT !.state = end].acked = ss.acked
  BY StateFacts, Zenon
<1>8. \A ss \in SessionType : CloseSession(ss).acked = ss.acked
  BY GenerationFacts, Zenon DEF CloseSession
<1>9. CASE FinishSucceeds \/ Fail \/ EnqueueAbort \/ Abort
  <2>1. "failed" \in EndedStates /\ "succeeded" \in EndedStates
    BY DEF EndedStates
  <2>2. CASE FinishSucceeds
    BY <1>1, <1>7, <2>1, <2>2 DEF FinishSucceeds, Succeed
  <2>3. CASE Fail
    BY <1>6, <1>7, <2>1, <2>3 DEF Fail, FailSession
  <2>4. CASE EnqueueAbort
    BY <1>6, <2>4 DEF EnqueueAbort
  <2>5. CASE Abort
    BY <1>1, <1>6, <1>8, <2>5 DEF Abort
  <2> QED BY <1>9, <2>2, <2>3, <2>4, <2>5
<1> QED BY <1>1, <1>2, <1>3, <1>4, <1>5, <1>9

\* Samples are acknowledged in consecutive ranges, each by the job that
\* reserved it in the current generation: none twice and none skipped.
THEOREM DecodesConsecutively == Spec => DecodesInOrder
<1> DEFINE Advances ==
      s'.acked # s.acked =>
        \E j \in jobs :
            /\ j.gen = s.gen
            /\ j.start = s.base /\ j.end = s'.base
            /\ s'.acked - s.acked = j.end - j.start
<1>1. IInv /\ [Next]_vars => [Advances]_vars
  <2> SUFFICES ASSUME IInv, Next PROVE Advances
    BY DEF vars
  <2>1. ASSUME NEW j \in jobs, CleanupJob(j) PROVE Advances
    <3>1. s \in SessionType /\ j \in Reservation /\ j.seq > 0
      BY DEF IInv, Sound, Surroundings
    <3>2. CASE Live /\ j.gen = s.gen /\ MatchesReservation(s, j)
      <4>1. /\ s.res # NoReservation /\ s.res.start = s.base
            /\ s.res.start <= s.res.end /\ s.res.end - s.res.start <= s.data
        BY <3>1, <3>2, NoReservationFacts
           DEF MatchesReservation, IInv, Sound, SessionType, Reservation
      <4>2. s'.base = s.res.end /\ s'.acked = s.acked + Reserved(s)
        <5>1. s' = Acknowledge(s)
          BY <2>1, <3>2 DEF CleanupJob
        <5> QED BY <3>1, <4>1, <5>1, AcknowledgeFacts, Zenon
      <4>3. /\ j.gen = s.gen
            /\ j.start = s.base /\ j.end = s'.base
            /\ s'.acked - s.acked = j.end - j.start
        BY <3>1, <3>2, <4>1, <4>2
           DEF MatchesReservation, Reserved, SessionType, Reservation
      <4> QED BY <4>3
    <3>3. CASE ~(Live /\ j.gen = s.gen /\ MatchesReservation(s, j))
      BY <2>1, <3>3 DEF CleanupJob
    <3> QED BY <3>2, <3>3
  <2>2. CASE s'.acked = s.acked
    BY <2>2
  <2>3. CASE \E j \in jobs : CleanupJob(j)
    BY <2>1, <2>3
  <2>4. CASE ~\E j \in jobs : CleanupJob(j)
    BY <2>2, <2>4, AudioKeepsAcked, ControlKeepsAcked DEF Next
  <2> QED BY <2>3, <2>4
<1> QED BY <1>1, AlwaysIInv, PTL DEF Spec, DecodesInOrder
=============================================================================
