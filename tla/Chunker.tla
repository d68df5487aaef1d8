------------------------------ MODULE Chunker -------------------------------
(***************************************************************************)
(* src/src/editorial_team/artifacts/chunking.py: the chunks of one draft.  *)
(* A text is a sequence of symbols: tokens (non-blank words, of which some *)
(* end a sentence and some are the # of a heading), blanks that trail a    *)
(* paragraph, and paragraph breaks; the white space between two tokens is  *)
(* left implicit.  A span [from, to) holds the symbols from .. to - 1, as  *)
(* the code's spans hold characters.                                       *)
(***************************************************************************)
EXTENDS Naturals, Sequences, FiniteSets, SequencesExt

CONSTANTS
    TargetTokens,   \* chunks are packed up to this many tokens
    MaxTokens,      \* no unit is longer than this
    OverlapTokens,  \* what a chunk may repeat of the chunk before it
    MaxLength       \* bound: length of the texts

\* __init__()
LimitsAreConsistent ==
    /\ TargetTokens \in Nat \ {0} /\ MaxTokens \in Nat /\ OverlapTokens \in Nat
    /\ MaxTokens >= TargetTokens /\ OverlapTokens < TargetTokens

ASSUME LimitsAssumption == LimitsAreConsistent /\ MaxLength \in Nat

VARIABLES
    text,    \* the draft
    pc,      \* "chunk", "pack" or "done"
    units,   \* spans that may begin or end a chunk
    first,   \* start_index of _pack(): the unit the next chunk begins with
    chunks   \* spans of the chunks made so far

vars == <<text, pc, units, first, chunks>>

TokenSymbols == {"word", "stop", "heading"}
Symbols == TokenSymbols \cup {"blank", "break"}

IsText(t) ==
    \A i \in DOMAIN t :
        /\ t[i] = "blank" => /\ i > 1 /\ t[i - 1] \in TokenSymbols
                             /\ i = Len(t) \/ t[i + 1] = "break"
        /\ t[i] = "break" => /\ i > 1 /\ t[i - 1] # "break"
                             /\ i < Len(t) /\ t[i + 1] \in TokenSymbols

Drafts == {t \in UNION {[1 .. n -> Symbols] : n \in 1 .. MaxLength} : IsText(t)}

Span(from, to) == [from |-> from, to |-> to]
TokensIn(from, to) == {i \in from .. to - 1 : text[i] \in TokenSymbols}
Tokens(from, to) == Cardinality(TokensIn(from, to))
Length(s) == Tokens(s.from, s.to)
Ascending(S) ==
    [k \in 1 .. Cardinality(S) |-> CHOOSE i \in S : Cardinality({j \in S : j <= i}) = k]
Whole == Span(1, Len(text) + 1)

\* _paragraphs(): the spans between the breaks.
Paragraphs ==
    LET breaks == {i \in DOMAIN text : text[i] = "break"}
        starts == Ascending({1} \cup {i + 1 : i \in breaks})
        end(s) == Min({i \in breaks : i > s} \cup {Whole.to})
    IN  [k \in DOMAIN starts |-> Span(starts[k], end(starts[k]))]

\* _SENTENCE_END: where the white space behind the end of a sentence ends, in
\* the paragraph alone.
AfterSentence(p, i) == IF i + 1 < p.to /\ text[i + 1] = "blank" THEN i + 2 ELSE i + 1
SentenceEnds(p) ==
    {AfterSentence(p, i) : i \in {i \in p.from .. p.to - 2 : text[i] = "stop"}}

\* boundaries: the end of the paragraph comes twice when a sentence and white
\* space end it.
LastBoundary(p) == Cardinality(SentenceEnds(p)) + 1
Boundaries(p) ==
    [k \in 0 .. LastBoundary(p) |->
        IF k = 0 THEN p.from
        ELSE IF k < LastBoundary(p) THEN Ascending(SentenceEnds(p))[k] ELSE p.to]

SlicesThatDrop(from, to) ==  \* mutant: the last, incomplete batch is lost
    LET tokens == Ascending(TokensIn(from, to))
        last == Len(tokens) \div MaxTokens
        start(k) == IF k = 1 THEN from ELSE tokens[(k - 1) * MaxTokens + 1]
    IN  [k \in 1 .. last |-> Span(start(k), tokens[k * MaxTokens] + 1)]

\* _hard_slices(): batches of MaxTokens tokens.
HardSlices(from, to) ==
    LET tokens == Ascending(TokensIn(from, to))
        last == (Len(tokens) + MaxTokens - 1) \div MaxTokens
        start(k) == IF k = 1 THEN from ELSE tokens[(k - 1) * MaxTokens + 1]
        end(k) == IF k = last THEN to ELSE tokens[k * MaxTokens] + 1
    IN  [k \in 1 .. last |-> Span(start(k), end(k))]

\* One round of the loop of _split_oversized(), at a boundary b.  A piece that
\* grows too long is cut at the boundary before, except at the last.
AtBoundary(acc, before, b, end) ==
    LET tooLong == Tokens(acc.from, b) > MaxTokens
        cut == tooLong /\ b # end /\ before > acc.from
        from == IF cut THEN before ELSE acc.from
        pieces == IF cut THEN Append(acc.pieces, Span(acc.from, from)) ELSE acc.pieces
    IN  IF Tokens(from, b) > MaxTokens
        THEN [pieces |-> pieces \o HardSlices(from, b), from |-> b]
        ELSE IF ~tooLong /\ b = end /\ Tokens(from, b) > 0
        THEN [pieces |-> Append(pieces, Span(from, b)), from |-> from]
        ELSE [pieces |-> pieces, from |-> from]

\* _split_oversized()
SplitOversized(p) ==
    LET split[k \in 0 .. LastBoundary(p)] ==
            IF k = 0 THEN [pieces |-> <<>>, from |-> p.from]
            ELSE AtBoundary(split[k - 1], Boundaries(p)[k - 1], Boundaries(p)[k], p.to)
        pieces == split[LastBoundary(p)].pieces
        notBlank == Ascending({k \in DOMAIN pieces : Length(pieces[k]) > 0})
    IN  [k \in DOMAIN notBlank |-> pieces[notBlank[k]]]

Expand(p) == IF Length(p) <= MaxTokens THEN <<p>> ELSE SplitOversized(p)

\* A heading is joined with the unit that follows it when both fit.
Joins(expanded, i) ==
    /\ text[expanded[i].from] = "heading"
    /\ i < Len(expanded)
    /\ Tokens(expanded[i].from, expanded[i + 1].to) <= MaxTokens
Group(expanded) ==
    LET begins[i \in 0 .. Len(expanded)] ==  \* a unit, as no heading has taken it
            IF i = 0 THEN FALSE ELSE ~(begins[i - 1] /\ Joins(expanded, i - 1))
        heads == Ascending({i \in DOMAIN expanded : begins[i]})
        unit(i) == IF Joins(expanded, i)
                   THEN Span(expanded[i].from, expanded[i + 1].to) ELSE expanded[i]
    IN  [k \in DOMAIN heads |-> unit(heads[k])]

UnitsOfSentences ==  \* mutant: the draft is taken for one paragraph
    Group(SplitOversized(Whole))

\* _units()
Units ==
    LET expanded[k \in 0 .. Len(Paragraphs)] ==
            IF k = 0 THEN <<>> ELSE expanded[k - 1] \o Expand(Paragraphs[k])
    IN  Group(expanded[Len(Paragraphs)])

Init ==
    /\ text \in Drafts
    /\ pc = "chunk"
    /\ units = <<>> /\ first = 1 /\ chunks = <<>>

\* chunk(): a draft that fits is one chunk.
ChunkWhole ==
    /\ pc = "chunk"
    /\ Length(Whole) <= MaxTokens
    /\ chunks' = <<Whole>>
    /\ pc' = "done"
    /\ UNCHANGED <<text, units, first>>

BeginPacking ==
    /\ pc = "chunk"
    /\ Length(Whole) > MaxTokens
    /\ units' = Units
    /\ pc' = "pack"
    /\ UNCHANGED <<text, first, chunks>>

\* end_index: the last unit that the chunk can take.
PackedTo ==
    Max({k \in first .. Len(units) :
             \A j \in first + 1 .. k : Tokens(units[first].from, units[j].to) <= TargetTokens})

NextPastOverlap(last) ==  \* mutant: the chunk that fits the overlap is repeated
    LET reused == {k \in first .. last : Tokens(units[k].from, units[last].to) <= OverlapTokens}
    IN  IF reused = {} THEN last + 1 ELSE Min(reused)

\* The unit with which the chunk after one that ends in unit last begins: the
\* units at its end that fit the overlap come again, but never all of them.
NextFirst(last) ==
    LET reused == {k \in first .. last : Tokens(units[k].from, units[last].to) <= OverlapTokens}
    IN  IF reused = {} \/ Min(reused) = first THEN last + 1 ELSE Min(reused)

\* One round of the loop of _pack().
PackChunk ==
    /\ pc = "pack"
    /\ chunks' = Append(chunks, Span(units[first].from, units[PackedTo].to))
    /\ IF PackedTo = Len(units)
       THEN pc' = "done" /\ UNCHANGED first
       ELSE first' = NextFirst(PackedTo) /\ UNCHANGED pc
    /\ UNCHANGED <<text, units>>

Next == ChunkWhole \/ BeginPacking \/ PackChunk

Spec == Init /\ [][Next]_vars

-----------------------------------------------------------------------------
TokensOf(s) == TokensIn(s.from, s.to)

\* Every word of the draft is in a chunk, in one that begins no earlier and
\* ends no earlier than the chunk before it.
NothingIsLost ==
    /\ pc = "done" => UNION {TokensOf(chunks[k]) : k \in DOMAIN chunks} = TokensOf(Whole)
    /\ \A k \in 2 .. Len(chunks) : /\ chunks[k - 1].from <= chunks[k].from
                                   /\ chunks[k - 1].to <= chunks[k].to

\* The pieces that come twice: the last of an oversized paragraph that ends in
\* a sentence and white space.
PiecesTwice ==
    UNION {{piece \in ToSet(SplitOversized(p)) : piece.to = p.to} :
           p \in {p \in ToSet(Paragraphs) : Length(p) > MaxTokens /\ p.to \in SentenceEnds(p)}}

\* No chunk is empty or exceeds the maximum, and one that exceeds the target
\* is a single unit (README.md:458-459).  A chunk repeats no more than the
\* overlap of the one before it, unless that is a piece that comes twice.
\* Whatever is repeated, packing comes to an end: each chunk begins with a
\* unit of its own.
ChunksRespectLimits ==
    /\ \A k \in DOMAIN chunks :
           /\ Length(chunks[k]) \in 1 .. MaxTokens
           /\ Length(chunks[k]) > TargetTokens => chunks[k] \in ToSet(units) \cup {Whole}
    /\ \A k \in 2 .. Len(chunks) :
           \/ Cardinality(TokensOf(chunks[k - 1]) \cap TokensOf(chunks[k])) <= OverlapTokens
           \/ Span(chunks[k].from, chunks[k - 1].to) \in PiecesTwice
    /\ Len(chunks) > 1 => Len(chunks) <= Len(units)

\* A paragraph that fits a chunk is never divided (README.md:459-460).
ParagraphsStayWhole ==
    \A p \in ToSet(Paragraphs), k \in DOMAIN chunks :
        Length(p) <= MaxTokens =>
            TokensOf(p) \cap TokensOf(chunks[k]) \in {{}, TokensOf(p)}
=============================================================================
