------------------------------ MODULE Transcript ------------------------------
(***************************************************************************)
(* StreamingTranscriptState (app/asr_streaming.py), the transcript of one  *)
(* stream as both services keep it, and ProtocolSession of the gateway     *)
(* (app/asr_gateway_protocol.py) over it: confirmed text that no longer    *)
(* changes, a replaceable partial, and the events a client rebuilds both   *)
(* from.  A text is a sequence of tokens.  Sequence numbers are left out:  *)
(* an event takes the next one when it is made, and events are sent in the *)
(* order in which they are made.                                           *)
(***************************************************************************)
EXTENDS Integers, Sequences, FiniteSets, SequencesExt

CONSTANTS
    Stops,       \* tokens at which _is_sentence_end holds
    Blanks       \* tokens of white space

ASSUME TokensAssumption == Stops \cap Blanks = {}

NoSegment == -1      \* active_segment_id is None

NewTranscript == [confirmed |-> <<>>, partial |-> <<>>, active |-> NoSegment]

\* TranscriptEvent; an error event has no text.
Partial(text) == [type |-> "partial", text |-> text]
SentenceFinal(text) == [type |-> "sentence_final", text |-> text]
Final(text) == [type |-> "final", text |-> text]

\* What an operation leaves: the transcript, its events, and whether it raised
\* ConfirmedPrefixConflict.
Left(t, events) == [t |-> t, events |-> events, conflict |-> FALSE]

\* Two operations in a row; a conflict ends them, and its events are lost.
Then(done, next) ==
    IF done.conflict THEN done ELSE [next EXCEPT !.events = done.events \o @]

\* A snapshot of the segment the model is in.  The previous one must have been
\* finalised when a new segment begins.
ApplySegmentSnapshot(t, id, text) ==
    IF t.active \notin {NoSegment, id} /\ t.partial # <<>>
    THEN [t |-> t, events |-> <<>>, conflict |-> TRUE]
    ELSE Left([t EXCEPT !.active = id, !.partial = text],
              IF text = t.partial THEN <<>> ELSE <<Partial(text)>>)

\* Mutant of CommitPending: a blank partial goes without an event.
CommitPendingDropsBlank(t) ==
    LET left == [t EXCEPT !.partial = <<>>, !.active = NoSegment]
    IN  IF ToSet(t.partial) \subseteq Blanks THEN Left(left, <<>>)
        ELSE Left([left EXCEPT !.confirmed = @ \o t.partial],
                  <<SentenceFinal(t.partial), Partial(<<>>)>>)

\* Mutant of CommitPending: the partial stays after its sentence_final.
CommitPendingKeepsPartial(t) ==
    IF t.partial = <<>> THEN Left([t EXCEPT !.active = NoSegment], <<>>)
    ELSE Left([t EXCEPT !.confirmed = @ \o t.partial], <<SentenceFinal(t.partial)>>)

CommitPending(t) ==
    LET left == [t EXCEPT !.partial = <<>>, !.active = NoSegment]
    IN  IF t.partial = <<>> THEN Left(left, <<>>)
        ELSE IF ToSet(t.partial) \subseteq Blanks THEN Left(left, <<Partial(<<>>)>>)
        ELSE Left([left EXCEPT !.confirmed = @ \o t.partial],
                  <<SentenceFinal(t.partial), Partial(<<>>)>>)

\* _sentence_boundary_end: a run of stops ends one sentence.
SentenceEnds(text) ==
    {i \in DOMAIN text : text[i] \in Stops /\ (i < Len(text) => text[i + 1] \notin Stops)}

\* Where the tail of split_committed_sentences starts: behind the last sentence
\* and the blanks that follow it.
TailStart(text) ==
    CHOOSE i \in 1 .. Len(text) + 1 :
        LET last == Max(SentenceEnds(text))
        IN  /\ i > last
            /\ \A j \in last + 1 .. i - 1 : text[j] \in Blanks
            /\ i <= Len(text) => text[i] \notin Blanks

\* _commit_all_complete_sentences: one event for each sentence of the partial,
\* the last one with the blanks behind it, and one for the tail.
CommitAllCompleteSentences(t) ==
    LET text == t.partial
        ends == SetToSortSeq(SentenceEnds(text), <)
        from(i) == IF i = 1 THEN 1 ELSE ends[i - 1] + 1
        to(i) == IF i = Len(ends) THEN TailStart(text) - 1 ELSE ends[i]
        tail == SubSeq(text, TailStart(text), Len(text))
    IN  IF ends = <<>> THEN Left(t, <<>>)
        ELSE Left([t EXCEPT !.confirmed = @ \o SubSeq(text, 1, TailStart(text) - 1),
                            !.partial = tail],
                  [i \in DOMAIN ends |-> SentenceFinal(SubSeq(text, from(i), to(i)))]
                    \o <<Partial(tail)>>)

\* The chunked mode: the text of a chunk follows the partial.
AppendIndependentSegment(t, text, immediate) ==
    LET longer == [t EXCEPT !.partial = @ \o text]
        committed == CommitAllCompleteSentences(longer)
    IN  IF text = <<>> THEN Left(t, <<>>)
        ELSE IF immediate /\ committed.events # <<>> THEN committed
        ELSE Left(longer, <<Partial(longer.partial)>>)

\* final_event, and ProtocolSession.final without a tail of its own
FinalEvent(t) == Left(t, <<Final(t.partial)>>)

-----------------------------------------------------------------------------
(* The client, DisplayState of scripts/stream_asr_client.py *)

EmptyView == [confirmed |-> <<>>, tail |-> <<>>]

Shown(view, event) ==
    IF event.type = "sentence_final"
    THEN [confirmed |-> view.confirmed \o event.text, tail |-> <<>>]
    ELSE [view EXCEPT !.tail = event.text]

ShownAll(view, events) == FoldLeft(Shown, view, events)
=============================================================================
