----------------------------- MODULE Occurrences -----------------------------
(***************************************************************************)
(* How often a Unit occurs in a block of text: the D19 matcher of           *)
(* vocab/validators.py and the counter of vocab/corpus.py that consumes its *)
(* spans.  Text is a sequence of lexical tokens; a Unit is a word or chunk, *)
(* a sequence of tokens with few others in between, or a frame, tokens      *)
(* before and after a slot of bounded length.                               *)
(***************************************************************************)
EXTENDS Integers, Sequences, FiniteSets

CONSTANTS
    Tokens,       \* the lexical tokens
    MaxInserted,  \* CHUNK_MAX_INSERTED_TOKENS
    MaxSlot       \* FRAME_SLOT_MAX_TOKENS; the minimum is 1

ASSUME OccurrencesAssumption == MaxInserted \in Nat /\ MaxSlot \in Nat \ {0}

NoMatch == 0

\* A word is one token and a chunk more; a frame has tokens around its slot.
IsUnit(unit) ==
    IF unit.type = "frame" THEN {unit.before, unit.after} \subseteq Seq(Tokens) \ {<<>>}
    ELSE unit.tokens \in Seq(Tokens) \ {<<>>}

\* One turn of the loop of _chunk_match_end, which leaves a match that is
\* complete, or has passed over too many tokens, as it is.
Follow(text, target, match) ==
    IF match.found = Len(target) \/ match.inserted > MaxInserted THEN match
    ELSE IF text[match.next] = target[match.found + 1]
         THEN [match EXCEPT !.found = @ + 1, !.next = @ + 1]
         ELSE [match EXCEPT !.inserted = @ + 1, !.next = @ + 1]

\* _chunk_match_end: the first token is at start; each later target token is
\* the next one that fits, while the tokens passed over stay in the budget.
ChunkEnd(text, target, start) ==
    LET loop[i \in 0 .. Len(text) - start] ==
            IF i = 0 THEN [found |-> 1, inserted |-> 0, next |-> start + 1]
            ELSE Follow(text, target, loop[i - 1])
        last == loop[Len(text) - start]
    IN  IF text[start] = target[1] /\ last.found = Len(target) THEN last.next - 1
        ELSE NoMatch

Occurs(tokens, text, start) ==
    /\ start + Len(tokens) - 1 <= Len(text)
    /\ SubSeq(text, start, start + Len(tokens) - 1) = tokens

\* _frame_match_end: the shortest slot that fits.
FrameEnd(text, before, after, start) ==
    LET slots == {n \in 1 .. MaxSlot :
                    Occurs(after, text, start + Len(before) + n)}
    IN  IF Occurs(before, text, start) /\ slots # {}
        THEN start + Len(before) + Len(after) - 1
               + (CHOOSE n \in slots : \A m \in slots : n <= m)
        ELSE NoMatch

\* unit_match_spans: where the match that begins at start ends.
MatchEnd(text, unit, start) ==
    IF unit.type = "frame" THEN FrameEnd(text, unit.before, unit.after, start)
    ELSE ChunkEnd(text, unit.tokens, start)

\* Bug: the next match may begin with the token the last one ended with.
ConsumeOverlapping(text, unit, start, done) ==
    LET end == MatchEnd(text, unit, start)
    IN  IF end = NoMatch \/ start < done.end THEN done
        ELSE [count |-> done.count + 1, end |-> end]

\* One turn of the loop of count_unit_occurrences, for the span at start.
Consume(text, unit, start, done) ==
    LET end == MatchEnd(text, unit, start)
    IN  IF end = NoMatch \/ start <= done.end THEN done
        ELSE [count |-> done.count + 1, end |-> end]

\* count_unit_occurrences: left to right, no token counted twice.
CountIn(text, unit) ==
    LET loop[i \in 0 .. Len(text)] ==
            IF i = 0 THEN [count |-> 0, end |-> 0]
            ELSE Consume(text, unit, i, loop[i - 1])
    IN  loop[Len(text)].count

-----------------------------------------------------------------------------
(* What the matcher and the counter promise *)

\* The tokens occur in this order from start to end, with at most MaxInserted
\* others in between.
Spans(text, tokens, start, end) ==
    /\ end - start + 1 - Len(tokens) \in 0 .. MaxInserted
    /\ \E at \in [1 .. Len(tokens) -> start .. end] :
          /\ at[1] = start /\ at[Len(tokens)] = end
          /\ \A k \in 1 .. Len(tokens) : text[at[k]] = tokens[k]
          /\ \A k, l \in 1 .. Len(tokens) : k < l => at[k] < at[l]

Occurrence(text, unit, start, end) ==
    IF unit.type = "frame"
    THEN \E n \in 1 .. MaxSlot :
            /\ end = start + Len(unit.before) + n + Len(unit.after) - 1
            /\ Occurs(unit.before, text, start)
            /\ Occurs(unit.after, text, end - Len(unit.after) + 1)
    ELSE Spans(text, unit.tokens, start, end)

AllOccurrences(text, unit) ==
    {s \in (1 .. Len(text)) \X (1 .. Len(text)) : Occurrence(text, unit, s[1], s[2])}

Disjoint(S) == \A s, t \in S : s # t => s[2] < t[1] \/ t[2] < s[1]

\* The most occurrences that share no token.
MostDisjoint(text, unit) ==
    LET sizes == {Cardinality(S) : S \in {T \in SUBSET AllOccurrences(text, unit) : Disjoint(T)}}
    IN  CHOOSE n \in sizes : \A m \in sizes : m <= n
=============================================================================
