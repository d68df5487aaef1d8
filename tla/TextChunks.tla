----------------------------- MODULE TextChunks ------------------------------
(***************************************************************************)
(* chunk_text() of src/src/editorial_team/interfaces/telegram.py: a text   *)
(* is cut into messages that Telegram takes, after a paragraph if it can,  *)
(* else after a line, else at the limit; none of them blank.               *)
(***************************************************************************)
EXTENDS Integers, Sequences, FiniteSetsExt, SequencesExt

CONSTANT Limit  \* of characters in a message

ASSUME LimitAssumption == Limit \in Nat \ {0}

Letter == "x"
Space == " "
NewLine == "n"
Characters == {Letter, Space, NewLine}

\* str.strip() leaves nothing.
IsBlank(text) == \A i \in DOMAIN text : text[i] # Letter

NoChunks == <<>>  \* chunk_text() raises

LineEndsAnywhere(text) ==  \* mutant: the mark may end one past the limit
    {i \in 1 .. Limit + 1 : text[i] = NewLine}

\* rfind(): the places within the limit where a mark ends.
LineEnds(text) == {i \in 1 .. Limit : text[i] = NewLine}
ParagraphEnds(text) == {i \in LineEnds(text) : i > 1 /\ text[i - 1] = NewLine}

PreferredSplit(text) ==
    IF ParagraphEnds(text) # {} THEN Max(ParagraphEnds(text))
    ELSE IF LineEnds(text) # {} THEN Max(LineEnds(text))
    ELSE Limit

SplitAsPreferred(text) ==  \* mutant: no second try for a blank chunk
    PreferredSplit(text)

\* A blank chunk is tried again at the limit.
Split(text) ==
    IF IsBlank(SubSeq(text, 1, PreferredSplit(text))) THEN Limit ELSE PreferredSplit(text)

\* What remains is the last chunk, or part of it when it is blank.
Finish(chunks, rest) ==
    IF ~IsBlank(rest) THEN Append(chunks, rest)
    ELSE IF chunks = <<>> \/ Len(Last(chunks)) + Len(rest) > Limit THEN NoChunks
    ELSE Front(chunks) \o <<Last(chunks) \o rest>>

\* One round of the loop, and the loop: what it has cut, and what is left.
Cut(chunks, rest) == Append(chunks, SubSeq(rest, 1, Split(rest)))
Left(rest) == SubSeq(rest, Split(rest) + 1, Len(rest))

Rounds == [chunks : Seq(Seq(Characters)), rest : Seq(Characters)]
NextRound(round) == [chunks |-> Cut(round.chunks, round.rest), rest |-> Left(round.rest)]

Chunked[round \in Rounds] ==
    IF Len(round.rest) <= Limit THEN Finish(round.chunks, round.rest)
    ELSE IF IsBlank(SubSeq(round.rest, 1, Split(round.rest))) THEN NoChunks
    ELSE Chunked[NextRound(round)]

ChunkText(text) == Chunked[[chunks |-> NoChunks, rest |-> text]]

-----------------------------------------------------------------------------
\* What Telegram needs of the chunks of a text (telegram.py:81): together
\* they are the text, each is short enough, and none is blank.
AreChunksOf(chunks, text) ==
    /\ FlattenSeq(chunks) = text
    /\ \A i \in DOMAIN chunks : Len(chunks[i]) <= Limit /\ ~IsBlank(chunks[i])

\* A text that has no Limit blanks in a row.
IsOrdinary(text) ==
    \A i \in 1 .. Len(text) - Limit + 1 : ~IsBlank(SubSeq(text, i, i + Limit - 1))
=============================================================================
