------------------------ MODULE TelegramDeliveryProofs -------------------------
(***************************************************************************)
(* Proofs about TextChunks and TelegramDelivery: chunk_text() loses        *)
(* nothing of any text, under any limit, and only gives up on a text with  *)
(* too many blanks in a row; answers arrive in order; the fate of an       *)
(* update is true.                                                         *)
(*                                                                         *)
(* What a recursive function computes is proved by induction on a set of   *)
(* numbers (NatSets): that a function satisfies its equation, first for    *)
(* the arguments up to a size, then for all, and then what it returns.     *)
(***************************************************************************)
EXTENDS TelegramDelivery, SequenceTheorems, WellFoundedInduction, TLAPS

\* A set of numbers with 0 and, for each of its members, the next one.
LEMMA NatSets ==
    ASSUME NEW T, T \subseteq Nat, 0 \in T, \A n \in T : n + 1 \in T
    PROVE  T = Nat
<1> SUFFICES ASSUME Nat \ T # {} PROVE FALSE
    OBVIOUS
<1>1. PICK m \in Nat \ T : \A y \in Nat \ T : ~(<<y, m>> \in OpToRel(<, Nat))
    BY NatLessThanWellFounded, WFMin
<1>2. m # 0 /\ m - 1 \in Nat /\ m - 1 < m
    OBVIOUS
<1>3. <<m - 1, m>> \in OpToRel(<, Nat)
    <2>1. <<m - 1, m>> \in Nat \X Nat /\ <<m - 1, m>>[1] < <<m - 1, m>>[2]
        BY <1>2
    <2> QED
        BY <2>1, Zenon DEF OpToRel
<1>4. m - 1 \in T
    BY <1>1, <1>2, <1>3
<1>5. m - 1 + 1 = m
    BY <1>2
<1> QED
    BY <1>1, <1>4, <1>5

\* A finite set of numbers has a largest one.
LEMMA MaxOfSet ==
    ASSUME NEW n \in Nat, NEW S \in SUBSET (1 .. n), S # {}
    PROVE  Max(S) \in S /\ \A k \in S : k <= Max(S)
<1> DEFINE T == {m \in Nat : \A Q \in SUBSET (1 .. m) :
                                 Q # {} => \E i \in Q : \A k \in Q : k <= i}
<1>1. 0 \in T
    <2>1. \A Q \in SUBSET (1 .. 0) : Q = {}
        OBVIOUS
    <2> QED
        BY <2>1
<1>2. ASSUME NEW m \in T PROVE m + 1 \in T
    <2> SUFFICES ASSUME NEW Q \in SUBSET (1 .. m + 1), Q # {}
                 PROVE  \E i \in Q : \A k \in Q : k <= i
        BY <1>2
    <2>1. CASE m + 1 \in Q
        BY <1>2, <2>1
    <2>2. CASE m + 1 \notin Q
        <3>1. Q \in SUBSET (1 .. m)
            BY <1>2, <2>2
        <3> QED
            BY <1>2, <3>1
    <2> QED
        BY <2>1, <2>2
<1>3. T = Nat
    <2>1. T \subseteq Nat
        OBVIOUS
    <2> HIDE DEF T
    <2> QED
        BY <1>1, <1>2, <2>1, NatSets
<1>4. \E i \in S : \A k \in S : k <= i
    BY <1>3
<1>5. \E i \in S : \A k \in S : i >= k
    BY <1>4
<1> QED
    BY <1>5 DEF Max

-----------------------------------------------------------------------------
(* FlattenSeq.                                                             *)

FlatTo(ss, f, i) == IF i = 1 THEN ss[i] ELSE f[i - 1] \o ss[i]
Flattens(ss, f) == f = [i \in 1 .. Len(ss) |-> FlatTo(ss, f, i)]

\* There is a function that flattens: its values up to a place, then one more.
LEMMA FlattensExist ==
    ASSUME NEW S, NEW ss \in Seq(Seq(S))
    PROVE  \E f : Flattens(ss, f)
<1> DEFINE T == {n \in Nat : \E f : f = [i \in 1 .. n |-> FlatTo(ss, f, i)]}
<1>1. 0 \in T
    <2>1. <<>> = [i \in 1 .. 0 |-> FlatTo(ss, <<>>, i)]
        OBVIOUS
    <2> QED
        BY <2>1
<1>2. ASSUME NEW n \in T PROVE n + 1 \in T
    <2>1. PICK f : f = [i \in 1 .. n |-> FlatTo(ss, f, i)]
        BY <1>2
    <2> DEFINE g == [i \in 1 .. n + 1 |-> IF i <= n THEN f[i] ELSE FlatTo(ss, f, i)]
    <2>2. n \in Nat
        BY <1>2
    <2>3. \A i \in 1 .. n + 1 : g[i] = FlatTo(ss, g, i)
        <3> SUFFICES ASSUME NEW i \in 1 .. n + 1 PROVE g[i] = FlatTo(ss, g, i)
            OBVIOUS
        <3>1. CASE i \in 1 .. n
            <4>1. g[i] = FlatTo(ss, f, i)
                BY <2>1, <3>1
            <4>2. i # 1 => i - 1 \in 1 .. n /\ g[i - 1] = f[i - 1]
                BY <2>2, <3>1
            <4> HIDE DEF g
            <4> QED
                BY <4>1, <4>2 DEF FlatTo
        <3>2. CASE i = n + 1
            <4>1. g[i] = FlatTo(ss, f, i)
                BY <2>2, <3>2
            <4>2. i # 1 => i - 1 \in 1 .. n + 1 /\ g[i - 1] = f[i - 1]
                BY <2>2, <3>2
            <4> HIDE DEF g
            <4> QED
                BY <4>1, <4>2 DEF FlatTo
        <3> QED
            BY <2>2, <3>1, <3>2
    <2>4. g = [i \in 1 .. n + 1 |-> FlatTo(ss, g, i)]
        BY <2>3
    <2> HIDE DEF g
    <2> QED
        BY <2>2, <2>4
<1>3. T = Nat
    <2>1. T \subseteq Nat
        OBVIOUS
    <2> HIDE DEF T
    <2> QED
        BY <1>1, <1>2, <2>1, NatSets
<1>4. Len(ss) \in Nat
    BY LenProperties
<1> QED
    BY <1>3, <1>4 DEF Flattens

\* What the function of FlattenSeq holds at each place.
LEMMA FlattensTyped ==
    ASSUME NEW S, NEW ss \in Seq(Seq(S)), NEW f, Flattens(ss, f)
    PROVE  \A i \in 1 .. Len(ss) : f[i] \in Seq(S)
<1> DEFINE T == {n \in Nat : n + 1 \in 1 .. Len(ss) => f[n + 1] \in Seq(S)}
<1>0. \A i \in 1 .. Len(ss) : ss[i] \in Seq(S) /\ f[i] = FlatTo(ss, f, i)
    BY ElementOfSeq DEF Flattens
<1>1. 0 \in T
    BY <1>0 DEF FlatTo
<1>2. ASSUME NEW n \in T PROVE n + 1 \in T
    <2> SUFFICES ASSUME NEW i, i = n + 1 + 1, i \in 1 .. Len(ss) PROVE f[i] \in Seq(S)
        BY <1>2
    <2>1. n + 1 \in 1 .. Len(ss) /\ i # 1 /\ i - 1 = n + 1
        BY <1>2
    <2>2. f[n + 1] \in Seq(S)
        BY <1>2, <2>1
    <2>3. f[i] = FlatTo(ss, f, i) /\ ss[i] \in Seq(S)
        BY <1>0
    <2>4. FlatTo(ss, f, i) = f[n + 1] \o ss[i]
        BY <2>1 DEF FlatTo
    <2>5. f[n + 1] \o ss[i] \in Seq(S)
        BY <2>2, <2>3, ConcatProperties
    <2> QED
        BY <2>3, <2>4, <2>5
<1>3. T = Nat
    <2>1. T \subseteq Nat
        OBVIOUS
    <2> HIDE DEF T
    <2> QED
        BY <1>1, <1>2, <2>1, NatSets
<1> SUFFICES ASSUME NEW i \in 1 .. Len(ss) PROVE f[i] \in Seq(S)
    OBVIOUS
<1>4. i - 1 \in Nat /\ i - 1 + 1 = i
    OBVIOUS
<1> QED
    BY <1>3, <1>4

\* FlattenSeq is the last value of such a function.
LEMMA FlattenSeqIs ==
    ASSUME NEW S, NEW ss \in Seq(Seq(S)), ss # <<>>
    PROVE  \E f : Flattens(ss, f) /\ FlattenSeq(ss) = f[Len(ss)]
<1>1. Len(ss) # 0
    BY EmptySeq
<1>2. PICK f : Flattens(ss, f)
    BY FlattensExist
<1> QED
    BY <1>1, <1>2 DEF FlattenSeq, Flattens, FlatTo

\* Of no sequences it is the empty one.
LEMMA FlattenSeqEmpty == FlattenSeq(<<>>) = <<>>
BY DEF FlattenSeq

\* It has elements of the sequences only.
LEMMA FlattenSeqTyped ==
    ASSUME NEW S, NEW ss \in Seq(Seq(S))
    PROVE  FlattenSeq(ss) \in Seq(S)
<1>1. CASE ss = <<>>
    BY <1>1, FlattenSeqEmpty, EmptySeq
<1>2. CASE ss # <<>>
    <2>1. Len(ss) \in 1 .. Len(ss)
        BY <1>2, EmptySeq
    <2> QED
        BY <1>2, <2>1, FlattenSeqIs, FlattensTyped
<1> QED
    BY <1>1, <1>2

\* One more sequence comes at the end.
LEMMA FlattenSeqAppend ==
    ASSUME NEW S, NEW ss \in Seq(Seq(S)), NEW s \in Seq(S)
    PROVE  FlattenSeq(Append(ss, s)) = FlattenSeq(ss) \o s
<1> DEFINE longer == Append(ss, s)
<1>1. /\ longer \in Seq(Seq(S)) /\ longer # <<>> /\ Len(longer) = Len(ss) + 1 /\ Len(ss) \in Nat
      /\ \A i \in 1 .. Len(ss) : longer[i] = ss[i]
      /\ longer[Len(ss) + 1] = s
    BY AppendProperties, LenProperties
<1> HIDE DEF longer
<1>2. PICK g : Flattens(longer, g) /\ FlattenSeq(longer) = g[Len(ss) + 1]
    BY <1>1, FlattenSeqIs
<1>3. \A i \in 1 .. Len(ss) + 1 : g[i] = FlatTo(longer, g, i)
    BY <1>1, <1>2 DEF Flattens
<1>4. CASE ss = <<>>
    <2>1. FlattenSeq(longer) = s
        BY <1>1, <1>2, <1>3, <1>4 DEF FlatTo
    <2> QED
        BY <1>4, <2>1, FlattenSeqEmpty, ConcatEmptySeq DEF longer
<1>5. CASE ss # <<>>
    <2>1. PICK f : Flattens(ss, f) /\ FlattenSeq(ss) = f[Len(ss)]
        BY <1>5, FlattenSeqIs
    <2>2. Len(ss) \in 1 .. Len(ss) /\ Len(ss) + 1 # 1 /\ Len(ss) + 1 - 1 = Len(ss)
        BY <1>1, <1>5, EmptySeq
    <2> DEFINE T == {n \in Nat : n + 1 \in 1 .. Len(ss) => f[n + 1] = g[n + 1]}
    <2>3. \A i \in 1 .. Len(ss) : f[i] = FlatTo(ss, f, i) /\ g[i] = FlatTo(longer, g, i)
        <3>1. \A i \in 1 .. Len(ss) : f[i] = FlatTo(ss, f, i)
            BY <2>1 DEF Flattens
        <3>2. \A i \in 1 .. Len(ss) : i \in 1 .. Len(ss) + 1
            BY <1>1
        <3> QED
            BY <1>3, <3>1, <3>2
    <2>4. 0 \in T
        BY <1>1, <2>3 DEF FlatTo
    <2>5. ASSUME NEW n \in T PROVE n + 1 \in T
        <3> SUFFICES ASSUME n + 1 + 1 \in 1 .. Len(ss) PROVE f[n + 1 + 1] = g[n + 1 + 1]
            BY <2>5
        <3>1. n + 1 \in 1 .. Len(ss) /\ n + 1 + 1 # 1 /\ n + 1 + 1 - 1 = n + 1
            BY <2>5
        <3>2. f[n + 1] = g[n + 1]
            BY <2>5, <3>1
        <3> QED
            BY <1>1, <2>3, <3>1, <3>2 DEF FlatTo
    <2>6. T = Nat
        <3>1. T \subseteq Nat
            OBVIOUS
        <3> HIDE DEF T
        <3> QED
            BY <2>4, <2>5, <3>1, NatSets
    <2>7. f[Len(ss)] = g[Len(ss)]
        <3>1. Len(ss) - 1 \in Nat /\ Len(ss) - 1 + 1 = Len(ss)
            BY <2>2
        <3> QED
            BY <2>2, <2>6, <3>1
    <2>8. Len(ss) + 1 \in 1 .. Len(ss) + 1
        BY <1>1
    <2>9. FlatTo(longer, g, Len(ss) + 1) = g[Len(ss)] \o s
        BY <1>1, <2>2 DEF FlatTo
    <2> QED
        BY <1>2, <1>3, <2>1, <2>7, <2>8, <2>9 DEF longer
<1> QED
    BY <1>4, <1>5

-----------------------------------------------------------------------------
(* chunk_text() goes on with a shorter rest, so that Chunked is a function *)
(* that satisfies its equation.                                            *)

Goes(round) ==
    /\ Len(round.rest) > Limit
    /\ ~IsBlank(SubSeq(round.rest, 1, Split(round.rest)))
Body(f, round) ==
    IF Len(round.rest) <= Limit THEN Finish(round.chunks, round.rest)
    ELSE IF IsBlank(SubSeq(round.rest, 1, Split(round.rest))) THEN NoChunks
    ELSE f[NextRound(round)]
Solves(f, n) == \A round \in Rounds : Len(round.rest) <= n => f[round] = Body(f, round)

\* A text is split behind one of its first Limit characters.
LEMMA SplitWithin ==
    ASSUME NEW content
    PROVE  Split(content) \in 1 .. Limit
<1>1. LineEnds(content) \in SUBSET (1 .. Limit) /\ ParagraphEnds(content) \in SUBSET (1 .. Limit)
    BY DEF LineEnds, ParagraphEnds
<1>2. Limit \in Nat /\ Limit \in 1 .. Limit
    BY LimitAssumption
<1>3. ParagraphEnds(content) # {} => Max(ParagraphEnds(content)) \in 1 .. Limit
    BY <1>1, <1>2, MaxOfSet
<1>4. LineEnds(content) # {} => Max(LineEnds(content)) \in 1 .. Limit
    BY <1>1, <1>2, MaxOfSet
<1> QED
    BY <1>2, <1>3, <1>4 DEF Split, PreferredSplit

\* The two parts of a sequence that is cut.
LEMMA CutInTwo ==
    ASSUME NEW S, NEW s \in Seq(S), NEW n \in 1 .. Len(s)
    PROVE  /\ SubSeq(s, 1, n) \in Seq(S) /\ Len(SubSeq(s, 1, n)) = n
           /\ SubSeq(s, n + 1, Len(s)) \in Seq(S) /\ Len(SubSeq(s, n + 1, Len(s))) = Len(s) - n
           /\ s = SubSeq(s, 1, n) \o SubSeq(s, n + 1, Len(s))
           /\ \A i \in 1 .. n : SubSeq(s, 1, n)[i] = s[i]
           /\ \A i \in 1 .. Len(s) - n : SubSeq(s, n + 1, Len(s))[i] = s[n + i]
<1>1. Len(s) \in Nat /\ n \in Int /\ 1 <= n /\ n <= Len(s) /\ 1 \in 1 .. Len(s) + 1 /\ n \in 0 .. Len(s)
      /\ n + 1 \in 1 .. Len(s) + 1 /\ Len(s) \in n + 1 - 1 .. Len(s) /\ n \in 1 - 1 .. Len(s)
    BY LenProperties
<1> DEFINE a == SubSeq(s, 1, n)  b == SubSeq(s, n + 1, Len(s))
<1>2. a \in Seq(S) /\ Len(a) = n /\ \A i \in 1 .. n : a[i] = s[i]
    BY <1>1, SubSeqProperties
<1>3. b \in Seq(S) /\ Len(b) = Len(s) - n /\ \A i \in 1 .. Len(s) - n : b[i] = s[n + i]
    BY <1>1, SubSeqProperties
<1> HIDE DEF a, b
<1>4. s = a \o b
    <2>1. a \o b \in Seq(S) /\ Len(a \o b) = Len(s)
        <3>1. a \o b \in Seq(S) /\ Len(a \o b) = Len(a) + Len(b)
            BY <1>2, <1>3, ConcatProperties
        <3>2. Len(a) + Len(b) = Len(s)
            BY <1>1, <1>2, <1>3
        <3> QED
            BY <3>1, <3>2
    <2>2. \A i \in 1 .. Len(s) : (a \o b)[i] = s[i]
        <3> SUFFICES ASSUME NEW i \in 1 .. Len(s) PROVE (a \o b)[i] = s[i]
            OBVIOUS
        <3>1. (a \o b)[i] = IF i <= Len(a) THEN a[i] ELSE b[i - Len(a)]
            BY <1>1, <1>2, <1>3, ConcatProperties
        <3>2. CASE i <= n
            BY <1>1, <1>2, <3>1, <3>2
        <3>3. CASE i > n
            <4>1. i - n \in 1 .. Len(s) - n /\ n + (i - n) = i /\ ~(i <= n)
                BY <1>1, <3>3
            <4>2. b[i - n] = s[n + (i - n)]
                BY <1>3, <4>1
            <4> QED
                BY <1>2, <3>1, <4>1, <4>2
        <3>4. i <= n \/ i > n
            BY <1>1
        <3> QED
            BY <3>2, <3>3, <3>4
    <2> QED
        BY <2>1, <2>2, SeqEqual
<1> QED
    BY <1>2, <1>3, <1>4 DEF a, b

\* A round of the loop leaves less.
LEMMA NextRoundIs ==
    ASSUME NEW round \in Rounds, Len(round.rest) > Limit
    PROVE  /\ NextRound(round) \in Rounds
           /\ Len(NextRound(round).rest) \in Nat
           /\ Len(NextRound(round).rest) < Len(round.rest)
<1> DEFINE rest == round.rest  n == Split(round.rest)
<1>1. rest \in Seq(Characters) /\ round.chunks \in Seq(Seq(Characters)) /\ Len(rest) \in Nat
    BY LenProperties DEF Rounds
<1>2. n \in 1 .. Limit /\ Limit \in Nat
    BY SplitWithin, LimitAssumption
<1> HIDE DEF n
<1>3. n \in 1 .. Len(rest)
    BY <1>1, <1>2
<1>4. /\ SubSeq(rest, 1, n) \in Seq(Characters) /\ SubSeq(rest, n + 1, Len(rest)) \in Seq(Characters)
      /\ Len(SubSeq(rest, n + 1, Len(rest))) = Len(rest) - n
    BY <1>1, <1>3, CutInTwo
<1>5. Append(round.chunks, SubSeq(rest, 1, n)) \in Seq(Seq(Characters))
    BY <1>1, <1>4, AppendProperties
<1>6. NextRound(round) = [chunks |-> Append(round.chunks, SubSeq(rest, 1, n)),
                          rest |-> SubSeq(rest, n + 1, Len(rest))]
    BY DEF NextRound, Cut, Left, n
<1> QED
    BY <1>1, <1>3, <1>4, <1>5, <1>6 DEF Rounds

\* A round only asks for the next one, and only if it goes on.
LEMMA BodyIsLocal ==
    ASSUME NEW round \in Rounds, NEW f, NEW g,
           Goes(round) => f[NextRound(round)] = g[NextRound(round)]
    PROVE  Body(f, round) = Body(g, round)
<1> Len(round.rest) \in Nat /\ Limit \in Nat
    BY LenProperties, LimitAssumption DEF Rounds
<1> QED
    BY DEF Body, Goes

\* The equation of Chunked has a solution up to every length ...
LEMMA SolutionsExist == \A n \in Nat : \E f : Solves(f, n)
<1> DEFINE T == {n \in Nat : \E f : Solves(f, n)}
<1>0. \A round \in Rounds : Len(round.rest) \in Nat
    BY LenProperties DEF Rounds
<1>1. ASSUME NEW n \in Nat, NEW f, Solves(f, n) PROVE \E g : Solves(g, n + 1)
    <2> DEFINE g == [round \in Rounds |-> IF Len(round.rest) <= n THEN f[round] ELSE Body(f, round)]
    <2>1. \A round \in Rounds :
              g[round] = IF Len(round.rest) <= n THEN f[round] ELSE Body(f, round)
        OBVIOUS
    <2> HIDE DEF g
    <2>2. ASSUME NEW round \in Rounds, Len(round.rest) <= n + 1 PROVE g[round] = Body(g, round)
        <3>1. g[round] = Body(f, round)
            BY <1>1, <2>1 DEF Solves
        <3>2. Goes(round) => f[NextRound(round)] = g[NextRound(round)]
            <4> SUFFICES ASSUME Goes(round) PROVE f[NextRound(round)] = g[NextRound(round)]
                OBVIOUS
            <4>1. NextRound(round) \in Rounds /\ Len(NextRound(round).rest) < Len(round.rest)
                BY NextRoundIs DEF Goes
            <4>2. Len(NextRound(round).rest) <= n
                BY <1>0, <2>2, <4>1
            <4> QED
                BY <2>1, <4>1, <4>2
        <3> QED
            BY <3>1, <3>2, BodyIsLocal
    <2> QED
        BY <2>2 DEF Solves
<1>2. 0 \in T
    <2> DEFINE g == [round \in Rounds |-> Body(<<>>, round)]
    <2>1. \A round \in Rounds : g[round] = Body(<<>>, round)
        OBVIOUS
    <2> HIDE DEF g
    <2>2. ASSUME NEW round \in Rounds, Len(round.rest) <= 0 PROVE g[round] = Body(g, round)
        <3>1. ~Goes(round)
            BY <1>0, <2>2, LimitAssumption DEF Goes
        <3> QED
            BY <2>1, <3>1, BodyIsLocal
    <2> QED
        BY <2>2 DEF Solves
<1>3. T = Nat
    <2>1. T \subseteq Nat
        OBVIOUS
    <2>2. \A n \in T : n + 1 \in T
        BY <1>1
    <2> HIDE DEF T
    <2> QED
        BY <1>2, <2>1, <2>2, NatSets
<1> QED
    BY <1>3

\* ... and only one ...
LEMMA SolutionsAgree ==
    \A n \in Nat : \A f, g : Solves(f, n) /\ Solves(g, n)
        => \A round \in Rounds : Len(round.rest) <= n => f[round] = g[round]
<1> DEFINE Agree(n) == \A f, g : Solves(f, n) /\ Solves(g, n)
                           => \A round \in Rounds : Len(round.rest) <= n => f[round] = g[round]
           T == {n \in Nat : Agree(n)}
<1>0. \A round \in Rounds : Len(round.rest) \in Nat
    BY LenProperties DEF Rounds
<1>1. 0 \in T
    <2> SUFFICES ASSUME NEW f, NEW g, Solves(f, 0), Solves(g, 0),
                        NEW round \in Rounds, Len(round.rest) <= 0
                 PROVE  f[round] = g[round]
        OBVIOUS
    <2>1. f[round] = Body(f, round) /\ g[round] = Body(g, round)
        BY DEF Solves
    <2>2. ~Goes(round)
        BY <1>0, LimitAssumption DEF Goes
    <2> QED
        BY <2>1, <2>2, BodyIsLocal
<1>2. ASSUME NEW n \in T PROVE n + 1 \in T
    <2> SUFFICES ASSUME NEW f, NEW g, Solves(f, n + 1), Solves(g, n + 1),
                        NEW round \in Rounds, Len(round.rest) <= n + 1
                 PROVE  f[round] = g[round]
        BY <1>2
    <2>1. f[round] = Body(f, round) /\ g[round] = Body(g, round)
        BY DEF Solves
    <2>2. Solves(f, n) /\ Solves(g, n)
        BY <1>0, <1>2 DEF Solves
    <2>3. Goes(round) => f[NextRound(round)] = g[NextRound(round)]
        <3> SUFFICES ASSUME Goes(round) PROVE f[NextRound(round)] = g[NextRound(round)]
            OBVIOUS
        <3>1. NextRound(round) \in Rounds /\ Len(NextRound(round).rest) < Len(round.rest)
            BY NextRoundIs DEF Goes
        <3>2. Len(NextRound(round).rest) <= n
            BY <1>0, <1>2, <3>1
        <3>3. Agree(n)
            BY <1>2
        <3> QED
            BY <2>2, <3>1, <3>2, <3>3
    <2> QED
        BY <2>1, <2>3, BodyIsLocal
<1>3. T = Nat
    <2>1. T \subseteq Nat
        OBVIOUS
    <2> HIDE DEF T
    <2> QED
        BY <1>1, <1>2, <2>1, NatSets
<1> QED
    BY <1>3

\* ... so that Chunked satisfies it.
LEMMA ChunkedIs == \A round \in Rounds : Chunked[round] = Body(Chunked, round)
<1> DEFINE Best(n) == CHOOSE f : Solves(f, n)
           F == [round \in Rounds |-> Best(Len(round.rest))[round]]
<1>0. \A round \in Rounds : Len(round.rest) \in Nat
    BY LenProperties DEF Rounds
<1>1. \A n \in Nat : Solves(Best(n), n)
    BY SolutionsExist
<1>2. \A round \in Rounds : F[round] = Best(Len(round.rest))[round]
    OBVIOUS
<1>3. F = [round \in Rounds |-> F[round]]
    OBVIOUS
<1> HIDE DEF Best, F
<1>4. ASSUME NEW round \in Rounds PROVE F[round] = Body(F, round)
    <2> DEFINE f == Best(Len(round.rest))
    <2>1. Solves(f, Len(round.rest))
        BY <1>0, <1>1
    <2> HIDE DEF f
    <2>2. F[round] = f[round]
        BY <1>2 DEF f
    <2>3. f[round] = Body(f, round)
        BY <1>0, <2>1 DEF Solves
    <2>4. Goes(round) => f[NextRound(round)] = F[NextRound(round)]
        <3> SUFFICES ASSUME Goes(round) PROVE f[NextRound(round)] = F[NextRound(round)]
            OBVIOUS
        <3> DEFINE next == NextRound(round)  n == Len(next.rest)
        <3>1. next \in Rounds /\ n \in Nat /\ n < Len(round.rest)
            BY NextRoundIs DEF Goes
        <3> HIDE DEF next
        <3>2. Solves(f, n)
            BY <1>0, <2>1, <3>1 DEF Solves
        <3>3. Solves(Best(n), n)
            BY <1>1, <3>1
        <3>4. f[next] = Best(n)[next]
            BY <3>1, <3>2, <3>3, SolutionsAgree
        <3>5. F[next] = Best(n)[next]
            BY <1>2, <3>1
        <3> QED
            BY <3>4, <3>5 DEF next
    <2> QED
        BY <2>2, <2>3, <2>4, BodyIsLocal
<1>5. F = [round \in Rounds |-> Body(F, round)]
    BY <1>3, <1>4
<1>6. \E f : f = [round \in Rounds |-> Body(f, round)]
    BY <1>5
<1>7. Chunked = [round \in Rounds |-> Body(Chunked, round)]
    BY <1>6 DEF Chunked, Body
<1> QED
    BY <1>7

-----------------------------------------------------------------------------
(* What chunk_text() returns.                                              *)

Good(found) ==
    /\ found \in Seq(Seq(Characters))
    /\ \A i \in DOMAIN found : Len(found[i]) <= Limit /\ ~IsBlank(found[i])
IsSplit(found, content) ==
    found = NoChunks \/ (Good(found) /\ FlattenSeq(found) = content)

\* A text that is not blank has a letter.
LEMMA NotBlank ==
    ASSUME NEW s \in Seq(Characters)
    PROVE  ~IsBlank(s) <=> \E i \in 1 .. Len(s) : s[i] = Letter
<1>1. DOMAIN s = 1 .. Len(s)
    BY LenProperties
<1> QED
    BY <1>1 DEF IsBlank

\* Good chunks and one more.
LEMMA GoodAppend ==
    ASSUME NEW found, Good(found), NEW s \in Seq(Characters), Len(s) <= Limit, ~IsBlank(s)
    PROVE  Good(Append(found, s))
<1>1. /\ found \in Seq(Seq(Characters)) /\ Len(found) \in Nat /\ DOMAIN found = 1 .. Len(found)
    BY LenProperties DEF Good
<1>2. /\ Append(found, s) \in Seq(Seq(Characters)) /\ Len(Append(found, s)) = Len(found) + 1
      /\ \A i \in 1 .. Len(found) : Append(found, s)[i] = found[i]
      /\ Append(found, s)[Len(found) + 1] = s
    BY <1>1, AppendProperties
<1>3. DOMAIN Append(found, s) = 1 .. Len(found) + 1
    BY <1>2, LenProperties
<1>4. ASSUME NEW i \in 1 .. Len(found) + 1
      PROVE  Len(Append(found, s)[i]) <= Limit /\ ~IsBlank(Append(found, s)[i])
    <2>1. CASE i \in 1 .. Len(found)
        BY <1>1, <1>2, <2>1 DEF Good
    <2>2. CASE i = Len(found) + 1
        BY <1>2, <2>2
    <2>3. i \in 1 .. Len(found) \/ i = Len(found) + 1
        BY <1>1
    <2> QED
        BY <2>1, <2>2, <2>3
<1> QED
    BY <1>2, <1>3, <1>4 DEF Good

\* A sequence is its front and its last element.
LEMMA FrontAndLast ==
    ASSUME NEW S, NEW ss \in Seq(S), ss # <<>>
    PROVE  /\ Front(ss) \in Seq(S) /\ Last(ss) \in S /\ ss = Append(Front(ss), Last(ss))
           /\ Len(Front(ss)) + 1 = Len(ss) /\ Last(ss) = ss[Len(ss)]
           /\ \A i \in 1 .. Len(Front(ss)) : Front(ss)[i] = ss[i]
<1>1. Len(ss) \in Nat /\ Len(ss) # 0 /\ Len(ss) - 1 \in Nat /\ Len(ss) \in 1 .. Len(ss)
    BY EmptySeq, LenProperties
<1>2. Last(ss) \in S /\ Last(ss) = ss[Len(ss)]
    BY <1>1, ElementOfSeq DEF Last
<1> DEFINE front == SubSeq(ss, 1, Len(ss) - 1)
<1>3. front \in Seq(S) /\ Len(front) = Len(ss) - 1 /\ \A i \in 1 .. Len(ss) - 1 : front[i] = ss[i]
    <2>1. \A i \in 1 .. Len(ss) - 1 : ss[i] \in S
        <3> SUFFICES ASSUME NEW i \in 1 .. Len(ss) - 1 PROVE ss[i] \in S
            OBVIOUS
        <3>1. i \in 1 .. Len(ss)
            BY <1>1
        <3> QED
            BY <3>1, ElementOfSeq
    <2>2. Len(ss) - 1 \in Int
        BY <1>1
    <2>3. /\ front \in Seq(S)
          /\ Len(front) = IF 1 <= Len(ss) - 1 THEN Len(ss) - 1 - 1 + 1 ELSE 0
          /\ \A i \in 1 .. Len(ss) - 1 - 1 + 1 : front[i] = ss[1 + i - 1]
        BY <2>1, <2>2, SubSeqProperties
    <2> HIDE DEF front
    <2>4. Len(front) = Len(ss) - 1
        <3>1. \A k \in Nat : (IF 1 <= k THEN k - 1 + 1 ELSE 0) = k
            OBVIOUS
        <3> QED
            BY <1>1, <2>3, <3>1
    <2>5. ASSUME NEW i \in 1 .. Len(ss) - 1 PROVE front[i] = ss[i]
        <3>1. i \in 1 .. Len(ss) - 1 - 1 + 1 /\ 1 + i - 1 = i
            BY <1>1
        <3> QED
            BY <2>3, <3>1
    <2> QED
        BY <2>3, <2>4, <2>5
<1>4. Front(ss) = front
    BY DEF Front
<1> HIDE DEF front
<1>5. ss = Append(front, Last(ss))
    <2> DEFINE whole == Append(front, Last(ss))
    <2>1. /\ whole \in Seq(S) /\ Len(whole) = Len(front) + 1
          /\ \A i \in 1 .. Len(front) : whole[i] = front[i]
          /\ whole[Len(front) + 1] = Last(ss)
        BY <1>2, <1>3, AppendProperties
    <2> HIDE DEF whole
    <2>2. Len(whole) = Len(ss)
        BY <1>1, <1>3, <2>1
    <2>3. ASSUME NEW i \in 1 .. Len(ss) PROVE whole[i] = ss[i]
        <3>1. CASE i \in 1 .. Len(ss) - 1
            BY <1>3, <2>1, <3>1
        <3>2. CASE i = Len(ss)
            <4>1. Len(front) + 1 = i
                BY <1>1, <1>3, <3>2
            <4> QED
                BY <1>2, <2>1, <3>2, <4>1
        <3>3. i \in 1 .. Len(ss) - 1 \/ i = Len(ss)
            BY <1>1
        <3> QED
            BY <3>1, <3>2, <3>3
    <2>4. whole = ss
        BY <2>1, <2>2, <2>3, SeqEqual
    <2> QED
        BY <2>4 DEF whole
<1>6. Len(front) + 1 = Len(ss)
    BY <1>1, <1>3
<1> QED
    BY <1>2, <1>3, <1>4, <1>5, <1>6

\* Good chunks but the last.
LEMMA GoodFront ==
    ASSUME NEW found, Good(found), found # <<>>
    PROVE  Good(Front(found)) /\ Len(Last(found)) <= Limit /\ ~IsBlank(Last(found))
<1>1. found \in Seq(Seq(Characters)) /\ Len(found) \in Nat /\ DOMAIN found = 1 .. Len(found)
    BY LenProperties DEF Good
<1>2. /\ Front(found) \in Seq(Seq(Characters)) /\ Len(Front(found)) + 1 = Len(found)
      /\ Last(found) = found[Len(found)]
      /\ \A i \in 1 .. Len(Front(found)) : Front(found)[i] = found[i]
    BY <1>1, FrontAndLast
<1>3. Len(Front(found)) \in Nat /\ DOMAIN Front(found) = 1 .. Len(Front(found))
    BY <1>2, LenProperties
<1>4. \A i \in 1 .. Len(Front(found)) : i \in 1 .. Len(found)
    BY <1>1, <1>2, <1>3
<1>5. Len(found) \in 1 .. Len(found)
    BY <1>1, EmptySeq
<1> QED
    BY <1>1, <1>2, <1>3, <1>4, <1>5 DEF Good

\* The end of the loop loses nothing: the rest, or its end that is blank.
LEMMA FinishIsSound ==
    ASSUME NEW round \in Rounds, Good(round.chunks), Len(round.rest) <= Limit
    PROVE  IsSplit(Finish(round.chunks, round.rest), FlattenSeq(round.chunks) \o round.rest)
<1> DEFINE found == round.chunks  rest == round.rest
<1>1. found \in Seq(Seq(Characters)) /\ rest \in Seq(Characters)
    BY DEF Rounds
<1>2. Good(found) /\ Len(rest) <= Limit
    OBVIOUS
<1> SUFFICES IsSplit(Finish(found, rest), FlattenSeq(found) \o rest)
    OBVIOUS
<1> HIDE DEF found, rest
<1>3. CASE ~IsBlank(rest)
    <2>1. Good(Append(found, rest)) /\ FlattenSeq(Append(found, rest)) = FlattenSeq(found) \o rest
        BY <1>1, <1>2, <1>3, GoodAppend, FlattenSeqAppend
    <2> QED
        BY <1>3, <2>1 DEF Finish, IsSplit
<1>4. CASE IsBlank(rest) /\ found # <<>> /\ Len(Last(found)) + Len(rest) <= Limit
    <2> DEFINE front == Front(found)  last == Last(found)
    <2>1. /\ front \in Seq(Seq(Characters)) /\ last \in Seq(Characters) /\ found = Append(front, last)
        BY <1>1, <1>4, FrontAndLast
    <2>2. Good(front) /\ ~IsBlank(last)
        BY <1>2, <1>4, GoodFront
    <2>3. Len(last) + Len(rest) <= Limit
        BY <1>4
    <2>4. Len(last) \in Nat /\ Len(rest) \in Nat /\ Limit \in Nat
        BY <1>1, <2>1, LenProperties, LimitAssumption
    <2>5. Finish(found, rest) = front \o <<last \o rest>>
        <3>1. ~(Len(Last(found)) + Len(rest) > Limit)
            BY <2>3, <2>4
        <3> QED
            BY <1>4, <3>1 DEF Finish
    <2> HIDE DEF front, last
    <2>6. /\ last \o rest \in Seq(Characters) /\ Len(last \o rest) = Len(last) + Len(rest)
          /\ \A i \in 1 .. Len(last) + Len(rest) :
                 (last \o rest)[i] = IF i <= Len(last) THEN last[i] ELSE rest[i - Len(last)]
        BY <1>1, <2>1, ConcatProperties
    <2>7. ~IsBlank(last \o rest)
        <3>1. PICK i \in 1 .. Len(last) : last[i] = Letter
            BY <2>1, <2>2, NotBlank
        <3>2. i \in 1 .. Len(last) + Len(rest) /\ i <= Len(last)
            BY <2>4
        <3>3. (last \o rest)[i] = Letter
            BY <2>6, <3>1, <3>2
        <3> QED
            BY <2>6, <3>2, <3>3, NotBlank
    <2>8. front \o <<last \o rest>> = Append(front, last \o rest)
        BY <2>1, <2>6, AppendIsConcat
    <2>9. Good(Append(front, last \o rest))
        BY <2>2, <2>3, <2>6, <2>7, GoodAppend
    <2>10. FlattenSeq(Append(front, last \o rest)) = FlattenSeq(front) \o (last \o rest)
        BY <2>1, <2>6, FlattenSeqAppend
    <2>11. FlattenSeq(found) = FlattenSeq(front) \o last
        BY <2>1, FlattenSeqAppend
    <2>12. FlattenSeq(front) \in Seq(Characters)
        BY <2>1, FlattenSeqTyped
    <2>13. (FlattenSeq(front) \o last) \o rest = FlattenSeq(front) \o (last \o rest)
        BY <1>1, <2>1, <2>12, ConcatAssociative
    <2> QED
        BY <2>5, <2>8, <2>9, <2>10, <2>11, <2>13 DEF IsSplit
<1>5. CASE IsBlank(rest) /\ (found = <<>> \/ ~(Len(Last(found)) + Len(rest) <= Limit))
    <2>1. found = <<>> \/ Len(Last(found)) + Len(rest) > Limit
        <3>1. CASE found # <<>>
            <4>1. Len(Last(found)) \in Nat /\ Len(rest) \in Nat /\ Limit \in Nat
                BY <1>1, <3>1, FrontAndLast, LenProperties, LimitAssumption
            <4> QED
                BY <1>5, <4>1
        <3> QED
            BY <3>1
    <2> QED
        BY <1>5, <2>1 DEF Finish, IsSplit
<1> QED
    BY <1>3, <1>4, <1>5

\* A round of the loop cuts a good chunk off and loses nothing.
LEMMA CutIsSound ==
    ASSUME NEW round \in Rounds, Good(round.chunks), Goes(round)
    PROVE  /\ Good(NextRound(round).chunks)
           /\ FlattenSeq(NextRound(round).chunks) \o NextRound(round).rest
                  = FlattenSeq(round.chunks) \o round.rest
<1> DEFINE found == round.chunks  rest == round.rest  n == Split(round.rest)
           cut == SubSeq(rest, 1, n)  left == SubSeq(rest, n + 1, Len(rest))
<1>1. found \in Seq(Seq(Characters)) /\ rest \in Seq(Characters) /\ Len(rest) \in Nat
    BY LenProperties DEF Rounds
<1>2. n \in 1 .. Limit /\ Limit \in Nat
    BY SplitWithin, LimitAssumption
<1>3. Good(found) /\ Len(rest) > Limit /\ ~IsBlank(cut)
    BY DEF Goes
<1>4. NextRound(round).chunks = Append(found, cut) /\ NextRound(round).rest = left
    BY DEF NextRound, Cut, Left
<1> SUFFICES Good(Append(found, cut))
             /\ FlattenSeq(Append(found, cut)) \o left = FlattenSeq(found) \o rest
    BY <1>4
<1> HIDE DEF found, rest, n
<1>5. n \in 1 .. Len(rest)
    BY <1>1, <1>2, <1>3
<1>6. /\ cut \in Seq(Characters) /\ Len(cut) = n /\ left \in Seq(Characters) /\ rest = cut \o left
    BY <1>1, <1>5, CutInTwo
<1> HIDE DEF cut, left
<1>7. Len(cut) <= Limit
    BY <1>2, <1>6
<1>8. Good(Append(found, cut))
    BY <1>3, <1>6, <1>7, GoodAppend
<1>9. FlattenSeq(Append(found, cut)) = FlattenSeq(found) \o cut
    BY <1>1, <1>6, FlattenSeqAppend
<1>10. (FlattenSeq(found) \o cut) \o left = FlattenSeq(found) \o (cut \o left)
    BY <1>1, <1>6, FlattenSeqTyped, ConcatAssociative
<1> QED
    BY <1>6, <1>8, <1>9, <1>10

\* The loop loses nothing, by induction on the length of the rest.
LEMMA ChunkedIsSound ==
    ASSUME NEW round \in Rounds, Good(round.chunks)
    PROVE  IsSplit(Chunked[round], FlattenSeq(round.chunks) \o round.rest)
<1> DEFINE Sound(r) == IsSplit(Chunked[r], FlattenSeq(r.chunks) \o r.rest)
           T == {n \in Nat : \A r \in Rounds : Len(r.rest) <= n /\ Good(r.chunks) => Sound(r)}
<1>0. Limit \in Nat /\ Limit # 0 /\ \A r \in Rounds : Len(r.rest) \in Nat
    BY LenProperties, LimitAssumption DEF Rounds
<1>1. ASSUME NEW r \in Rounds, Good(r.chunks), Goes(r) => Sound(NextRound(r)) PROVE Sound(r)
    <2>1. Chunked[r] = Body(Chunked, r)
        BY ChunkedIs
    <2>2. CASE Len(r.rest) <= Limit
        <3>1. Chunked[r] = Finish(r.chunks, r.rest)
            BY <2>1, <2>2 DEF Body
        <3> QED
            BY <1>1, <2>2, <3>1, FinishIsSound
    <2>3. CASE Goes(r)
        <3>1. ~(Len(r.rest) <= Limit)
            BY <1>0, <2>3 DEF Goes
        <3>2. Chunked[r] = Chunked[NextRound(r)]
            BY <2>1, <2>3, <3>1 DEF Body, Goes
        <3> QED
            BY <1>1, <2>3, <3>2, CutIsSound
    <2>4. CASE ~(Len(r.rest) <= Limit) /\ ~Goes(r)
        <3>1. Len(r.rest) > Limit
            BY <1>0, <2>4
        <3>2. Chunked[r] = NoChunks
            BY <2>1, <2>4, <3>1 DEF Body, Goes
        <3> QED
            BY <3>2 DEF IsSplit
    <2> QED
        BY <2>2, <2>3, <2>4
<1> HIDE DEF Sound
<1>2. 0 \in T
    <2> SUFFICES ASSUME NEW r \in Rounds, Len(r.rest) <= 0, Good(r.chunks) PROVE Sound(r)
        OBVIOUS
    <2>1. ~Goes(r)
        BY <1>0 DEF Goes
    <2> QED
        BY <1>1, <2>1
<1>3. ASSUME NEW n \in T PROVE n + 1 \in T
    <2> SUFFICES ASSUME NEW r \in Rounds, Len(r.rest) <= n + 1, Good(r.chunks) PROVE Sound(r)
        BY <1>3
    <2>1. Goes(r) => Sound(NextRound(r))
        <3> SUFFICES ASSUME Goes(r) PROVE Sound(NextRound(r))
            OBVIOUS
        <3>1. NextRound(r) \in Rounds /\ Len(NextRound(r).rest) < Len(r.rest)
            BY NextRoundIs DEF Goes
        <3>2. Good(NextRound(r).chunks)
            BY CutIsSound
        <3>3. Len(NextRound(r).rest) <= n
            BY <1>0, <1>3, <3>1
        <3> QED
            BY <1>3, <3>1, <3>2, <3>3
    <2> QED
        BY <1>1, <2>1
<1>4. T = Nat
    <2>1. T \subseteq Nat
        OBVIOUS
    <2> HIDE DEF T
    <2> QED
        BY <1>2, <1>3, <2>1, NatSets
<1>5. Sound(round)
    BY <1>0, <1>4
<1> QED
    BY <1>5 DEF Sound

\* chunk_text() loses nothing of any text.
THEOREM ChunkTextIsSound ==
    ASSUME NEW content \in Seq(Characters)
    PROVE  ChunkText(content) = NoChunks \/ AreChunksOf(ChunkText(content), content)
<1> DEFINE round == [chunks |-> NoChunks, rest |-> content]
<1>1. round \in Rounds /\ Good(round.chunks)
    BY EmptySeq DEF Rounds, NoChunks, Good
<1>2. IsSplit(Chunked[round], FlattenSeq(NoChunks) \o content)
    BY <1>1, ChunkedIsSound
<1>3. FlattenSeq(NoChunks) \o content = content
    BY FlattenSeqEmpty, ConcatEmptySeq DEF NoChunks
<1> QED
    BY <1>2, <1>3 DEF ChunkText, IsSplit, AreChunksOf, Good

-----------------------------------------------------------------------------
(* When chunk_text() returns.                                              *)

Ends(content) == content \in Seq(Characters) /\ content # <<>> /\ Last(content) = Letter
HasLetter(content, i, j) == \E k \in i .. j : content[k] = Letter

\* A part of a text is not blank if it has a letter.
LEMMA Windows ==
    ASSUME NEW s \in Seq(Characters), NEW i \in 1 .. Len(s), NEW j \in i .. Len(s)
    PROVE  ~IsBlank(SubSeq(s, i, j)) <=> HasLetter(s, i, j)
<1>1. Len(s) \in Nat /\ i \in Int /\ j \in Int /\ i <= j
    BY LenProperties
<1>2. \A k \in i .. j : s[k] \in Characters
    <2> SUFFICES ASSUME NEW k \in i .. j PROVE s[k] \in Characters
        OBVIOUS
    <2>1. k \in 1 .. Len(s)
        BY <1>1
    <2> QED
        BY <2>1, ElementOfSeq
<1> DEFINE w == SubSeq(s, i, j)
<1>3. /\ w \in Seq(Characters)
      /\ Len(w) = IF i <= j THEN j - i + 1 ELSE 0
      /\ \A k \in 1 .. j - i + 1 : w[k] = s[i + k - 1]
    BY <1>1, <1>2, SubSeqProperties
<1> HIDE DEF w
<1>4. Len(w) = j - i + 1
    BY <1>1, <1>3
<1>5. ~IsBlank(w) <=> \E k \in 1 .. j - i + 1 : w[k] = Letter
    BY <1>3, <1>4, NotBlank
<1>6. ASSUME NEW k \in 1 .. j - i + 1, w[k] = Letter PROVE HasLetter(s, i, j)
    <2>1. i + k - 1 \in i .. j
        BY <1>1
    <2>2. s[i + k - 1] = Letter
        BY <1>3, <1>6
    <2> QED
        BY <2>1, <2>2 DEF HasLetter
<1>7. ASSUME NEW k \in i .. j, s[k] = Letter PROVE \E m \in 1 .. j - i + 1 : w[m] = Letter
    <2>1. k - i + 1 \in 1 .. j - i + 1 /\ i + (k - i + 1) - 1 = k
        BY <1>1
    <2>2. w[k - i + 1] = s[i + (k - i + 1) - 1]
        BY <1>3, <2>1
    <2> QED
        BY <1>7, <2>1, <2>2
<1>8. ~IsBlank(w) <=> HasLetter(s, i, j)
    BY <1>5, <1>6, <1>7 DEF HasLetter
<1> QED
    BY <1>8 DEF w

\* An ordinary text has a letter in every window of Limit characters.
LEMMA OrdinaryIs ==
    ASSUME NEW s \in Seq(Characters)
    PROVE  IsOrdinary(s) <=> \A i \in 1 .. Len(s) - Limit + 1 : HasLetter(s, i, i + Limit - 1)
<1>1. Len(s) \in Nat /\ Limit \in Nat /\ Limit # 0
    BY LenProperties, LimitAssumption
<1>2. ASSUME NEW i \in 1 .. Len(s) - Limit + 1
      PROVE  ~IsBlank(SubSeq(s, i, i + Limit - 1)) <=> HasLetter(s, i, i + Limit - 1)
    <2>1. i \in 1 .. Len(s) /\ i + Limit - 1 \in i .. Len(s)
        BY <1>1
    <2> QED
        BY <2>1, Windows
<1> QED
    BY <1>2 DEF IsOrdinary

\* An ordinary rest that ends with a letter is cut, and what is left of it
\* is ordinary and ends with a letter, too.
LEMMA OrdinaryGoes ==
    ASSUME NEW round \in Rounds, Len(round.rest) > Limit, Ends(round.rest), IsOrdinary(round.rest)
    PROVE  Goes(round) /\ Ends(NextRound(round).rest) /\ IsOrdinary(NextRound(round).rest)
<1> DEFINE rest == round.rest  n == Split(round.rest)  left == SubSeq(rest, n + 1, Len(rest))
<1>1. rest \in Seq(Characters) /\ Len(rest) \in Nat
    BY LenProperties DEF Rounds
<1>2. n \in 1 .. Limit /\ Limit \in Nat /\ Limit # 0
    BY SplitWithin, LimitAssumption
<1>3. Ends(rest) /\ IsOrdinary(rest) /\ Len(rest) > Limit
    OBVIOUS
<1>4. NextRound(round).rest = left
    BY DEF NextRound, Left
<1>5. ~IsBlank(SubSeq(rest, 1, n))
    <2>1. CASE IsBlank(SubSeq(rest, 1, PreferredSplit(rest)))
        <3>1. n = Limit
            BY <2>1 DEF Split
        <3>2. 1 \in 1 .. Len(rest) - Limit + 1 /\ 1 + Limit - 1 = Limit
            BY <1>1, <1>2, <1>3
        <3> HIDE DEF rest, n
        <3>3. ~IsBlank(SubSeq(rest, 1, 1 + Limit - 1))
            BY <1>3, <3>2 DEF IsOrdinary
        <3> QED
            BY <3>1, <3>2, <3>3
    <2>2. CASE ~IsBlank(SubSeq(rest, 1, PreferredSplit(rest)))
        BY <2>2 DEF Split
    <2> QED
        BY <2>1, <2>2
<1>6. Goes(round)
    BY <1>5 DEF Goes
<1> HIDE DEF rest, n
<1>7. n \in 1 .. Len(rest) /\ n \in Int
    BY <1>1, <1>2, <1>3
<1>8. /\ left \in Seq(Characters) /\ Len(left) = Len(rest) - n
      /\ \A i \in 1 .. Len(rest) - n : left[i] = rest[n + i]
    BY <1>1, <1>7, CutInTwo
<1> HIDE DEF left
<1>9. Ends(left)
    <2>1. Len(left) \in 1 .. Len(rest) - n /\ n + Len(left) = Len(rest)
        BY <1>1, <1>2, <1>3, <1>8
    <2>2. left[Len(left)] = rest[Len(rest)]
        BY <1>8, <2>1
    <2>3. left # <<>>
        BY <2>1, EmptySeq
    <2> QED
        BY <1>3, <1>8, <2>2, <2>3 DEF Ends, Last
<1>10. ASSUME NEW i \in 1 .. Len(left) - Limit + 1 PROVE HasLetter(left, i, i + Limit - 1)
    <2>1. n + i \in 1 .. Len(rest) - Limit + 1
        BY <1>1, <1>2, <1>7, <1>8
    <2>2. HasLetter(rest, n + i, n + i + Limit - 1)
        BY <1>1, <1>3, <2>1, OrdinaryIs
    <2>3. PICK k \in n + i .. n + i + Limit - 1 : rest[k] = Letter
        BY <2>2 DEF HasLetter
    <2>4. k - n \in i .. i + Limit - 1 /\ k - n \in 1 .. Len(rest) - n /\ n + (k - n) = k
        BY <1>1, <1>2, <1>7, <1>8
    <2>5. left[k - n] = rest[n + (k - n)]
        BY <1>8, <2>4
    <2> QED
        BY <2>3, <2>4, <2>5 DEF HasLetter
<1>11. IsOrdinary(left)
    BY <1>8, <1>10, OrdinaryIs
<1> QED
    BY <1>4, <1>6, <1>9, <1>11

\* The loop ends well on an ordinary text, by induction on its length.
LEMMA OrdinaryIsChunked ==
    ASSUME NEW round \in Rounds, Ends(round.rest), IsOrdinary(round.rest)
    PROVE  Chunked[round] # NoChunks
<1> DEFINE T == {n \in Nat : \A r \in Rounds : Len(r.rest) <= n /\ Ends(r.rest) /\ IsOrdinary(r.rest)
                                  => Chunked[r] # NoChunks}
<1>0. Limit \in Nat /\ Limit # 0 /\ \A r \in Rounds : Len(r.rest) \in Nat
    BY LenProperties, LimitAssumption DEF Rounds
<1>1. ASSUME NEW r \in Rounds, Ends(r.rest), IsOrdinary(r.rest),
             Goes(r) => Chunked[NextRound(r)] # NoChunks
      PROVE  Chunked[r] # NoChunks
    <2>1. Chunked[r] = Body(Chunked, r)
        BY ChunkedIs
    <2>2. CASE Len(r.rest) <= Limit
        <3>1. Chunked[r] = Finish(r.chunks, r.rest)
            BY <2>1, <2>2 DEF Body
        <3>2. Len(r.rest) \in 1 .. Len(r.rest)
            BY <1>1, EmptySeq DEF Ends
        <3>3. ~IsBlank(r.rest)
            BY <1>1, <3>2, NotBlank DEF Ends, Last
        <3>4. r.chunks \in Seq(Seq(Characters)) /\ r.rest \in Seq(Characters)
            BY DEF Rounds
        <3> QED
            BY <3>1, <3>3, <3>4, AppendProperties DEF Finish, NoChunks
    <2>3. CASE Len(r.rest) > Limit
        <3>1. Goes(r)
            BY <1>1, <2>3, OrdinaryGoes
        <3>2. ~(Len(r.rest) <= Limit)
            BY <1>0, <2>3
        <3>3. Chunked[r] = Chunked[NextRound(r)]
            BY <2>1, <3>1, <3>2 DEF Body, Goes
        <3> QED
            BY <1>1, <3>1, <3>3
    <2> QED
        BY <1>0, <2>2, <2>3
<1>2. 0 \in T
    <2> SUFFICES ASSUME NEW r \in Rounds, Len(r.rest) <= 0, Ends(r.rest), IsOrdinary(r.rest)
                 PROVE  Chunked[r] # NoChunks
        OBVIOUS
    <2>1. ~Goes(r)
        BY <1>0 DEF Goes
    <2> QED
        BY <1>1, <2>1
<1>3. ASSUME NEW n \in T PROVE n + 1 \in T
    <2> SUFFICES ASSUME NEW r \in Rounds, Len(r.rest) <= n + 1, Ends(r.rest), IsOrdinary(r.rest)
                 PROVE  Chunked[r] # NoChunks
        BY <1>3
    <2>1. Goes(r) => Chunked[NextRound(r)] # NoChunks
        <3> SUFFICES ASSUME Goes(r) PROVE Chunked[NextRound(r)] # NoChunks
            OBVIOUS
        <3>1. /\ NextRound(r) \in Rounds /\ Len(NextRound(r).rest) < Len(r.rest)
              /\ Ends(NextRound(r).rest) /\ IsOrdinary(NextRound(r).rest)
            BY NextRoundIs, OrdinaryGoes DEF Goes
        <3>2. Len(NextRound(r).rest) <= n
            BY <1>0, <1>3, <3>1
        <3> QED
            BY <1>3, <3>1, <3>2
    <2> QED
        BY <1>1, <2>1
<1>4. T = Nat
    <2>1. T \subseteq Nat
        OBVIOUS
    <2> HIDE DEF T
    <2> QED
        BY <1>2, <1>3, <2>1, NatSets
<1> QED
    BY <1>0, <1>4

\* It only raises on a text with Limit blanks in a row (for a text that is
\* stripped, as messages are).
THEOREM OrdinaryTextsAreChunked ==
    ASSUME NEW content \in Seq(Characters), IsTrimmed(content), IsOrdinary(content)
    PROVE  ChunkText(content) # NoChunks
<1> DEFINE round == [chunks |-> NoChunks, rest |-> content]
<1>1. round \in Rounds
    BY EmptySeq DEF Rounds, NoChunks
<1>2. Ends(round.rest) /\ IsOrdinary(round.rest)
    BY DEF Ends, IsTrimmed
<1> QED
    BY <1>1, <1>2, OrdinaryIsChunked DEF ChunkText

-----------------------------------------------------------------------------
(* The inductive invariant of TelegramDelivery.                            *)

Replies ==
    [update : Nat, kind : {"onboarding", "busy", "error"}]
    \cup [update : Nat, kind : {"answer"}, message : Nat, part : Nat, last : BOOLEAN]

Typed ==
    /\ fates \in Seq(Fates)
    /\ durable \in Seq({0} \cup AnswerSizes) /\ Len(durable) = update
    /\ at \in {"idle", "start", "submitted", "service", "apology", "busy", "chunking", "sending",
               "handoff"}
    /\ message \in 0 .. 3 /\ sent \in Nat
    /\ text \in Texts \cup {<<>>}
    /\ chat \in Seq(Replies)

\* The update in hand is the last one, and nothing has become of it yet.
InHand == at # "idle" => update > 0 /\ fates[update] = "pending"

Addressed == \A i \in DOMAIN chat : chat[i].update \in 1 .. update

\* The user has nothing of the update in hand.
NothingYet == \A i \in DOMAIN chat : chat[i].update < update

\* The last the user has got is the end of message n.
Ended(n) ==
    /\ chat # <<>> /\ Last(chat).update = update /\ Last(chat).kind = "answer"
    /\ Last(chat).last /\ Last(chat).message = n

\* Part p of message n is what the user gets next.
Awaits(n, p) ==
    \/ n = 1 /\ p = 1 /\ NothingYet
    \/ n # 1 /\ p = 1 /\ Ended(n - 1)
    \/ /\ p # 1
       /\ chat # <<>> /\ Last(chat).update = update /\ Last(chat).kind = "answer"
       /\ ~Last(chat).last /\ Last(chat).message = n /\ Last(chat).part = p - 1

Unanswered ==
    at \in {"start", "submitted", "service", "apology", "busy"} => durable[update] = 0 /\ NothingYet

Delivering ==
    /\ at \in {"chunking", "sending", "handoff"} =>
           durable[update] \in AnswerSizes /\ message \in 1 .. durable[update] /\ text \in Texts
    /\ at = "chunking" => sent = 0 /\ Awaits(message, 1)
    /\ at = "sending" =>
           /\ chunks = ChunkText(text) /\ chunks # NoChunks /\ sent <= Len(chunks)
           /\ IF sent < Len(chunks) THEN Awaits(message, sent + 1) ELSE Ended(message)
    /\ at = "handoff" => message < durable[update] /\ Ended(message)

DInv ==
    /\ Typed /\ InHand /\ Addressed /\ Unanswered /\ Delivering
    /\ AnswersArriveInOrder /\ FatesAreHonest

\* The invariant holds before the first update.
LEMMA InitDInv == Init => DInv
<1> SUFFICES ASSUME Init PROVE DInv
    OBVIOUS
<1> USE DEF Init
<1>1. fates = <<>> /\ durable = <<>> /\ chat = <<>> /\ update = 0
    BY EmptySeq DEF update
<1>2. DOMAIN chat = 1 .. 0
    BY <1>1, EmptySeq, LenProperties
<1>3. Typed
    BY <1>1, EmptySeq DEF Typed, update
<1>4. Addressed /\ InHand /\ Unanswered /\ Delivering
    BY <1>1, <1>2 DEF Addressed, InHand, Unanswered, Delivering
<1>5. AnswersArriveInOrder
    BY <1>1, EmptySeq DEF AnswersArriveInOrder
<1>6. FatesAreHonest
    BY <1>1 DEF FatesAreHonest
<1> QED
    BY <1>3, <1>4, <1>5, <1>6 DEF DInv

\* The chat gets a reply.
LEMMA ChatGets ==
    ASSUME NEW r \in Replies, chat \in Seq(Replies), chat' = Append(chat, r)
    PROVE  /\ chat' \in Seq(Replies) /\ chat' # <<>> /\ Last(chat') = r
           /\ Len(chat) \in Nat /\ Len(chat') = Len(chat) + 1
           /\ DOMAIN chat = 1 .. Len(chat) /\ DOMAIN chat' = 1 .. Len(chat) + 1
           /\ \A i \in 1 .. Len(chat) : chat'[i] = chat[i]
           /\ chat'[Len(chat) + 1] = r
<1>1. /\ chat' \in Seq(Replies) /\ chat' # <<>> /\ Len(chat') = Len(chat) + 1
      /\ \A i \in 1 .. Len(chat) : chat'[i] = chat[i]
      /\ chat'[Len(chat) + 1] = r
    BY AppendProperties
<1>2. Len(chat) \in Nat /\ DOMAIN chat = 1 .. Len(chat) /\ DOMAIN chat' = 1 .. Len(chat) + 1
    BY <1>1, LenProperties
<1>3. Last(chat') = r
    BY <1>1 DEF Last
<1> QED
    BY <1>1, <1>2, <1>3

\* What becomes of the update in hand leaves the fates of the others.
LEMMA EndIs ==
    ASSUME Typed, InHand, at # "idle", NEW fate \in Fates, End(fate)
    PROVE  /\ fates' \in Seq(Fates) /\ Len(fates') = update /\ update' = update
           /\ update \in Nat /\ update > 0 /\ update \in 1 .. update
           /\ fates'[update] = fate
           /\ \A u \in 1 .. update : u # update => fates'[u] = fates[u]
           /\ at' = "idle" /\ message' = 0 /\ sent' = 0 /\ text' = <<>>
<1>1. fates \in Seq(Fates) /\ update > 0 /\ update = Len(fates) /\ update \in Nat
    BY LenProperties DEF Typed, InHand, update
<1>2. update \in 1 .. Len(fates)
    BY <1>1
<1>3. /\ fates' \in Seq(Fates) /\ Len(fates') = Len(fates)
      /\ \A u \in 1 .. Len(fates) : fates'[u] = IF u = update THEN fate ELSE fates[u]
    BY <1>1, <1>2, ExceptSeq DEF End
<1> QED
    BY <1>1, <1>2, <1>3 DEF End, update

\* The answer to the update in hand becomes durable, no other.
LEMMA DurableIs ==
    ASSUME Typed, InHand, at # "idle", NEW size \in AnswerSizes,
           durable' = [durable EXCEPT ![update] = size]
    PROVE  /\ durable' \in Seq({0} \cup AnswerSizes) /\ Len(durable') = update
           /\ durable'[update] = size
           /\ \A u \in 1 .. update : u # update => durable'[u] = durable[u]
<1>1. durable \in Seq({0} \cup AnswerSizes) /\ update > 0 /\ update = Len(durable) /\ update \in Nat
    BY LenProperties DEF Typed, InHand
<1>2. update \in 1 .. Len(durable)
    BY <1>1
<1>3. /\ durable' \in Seq({0} \cup AnswerSizes) /\ Len(durable') = Len(durable)
      /\ \A u \in 1 .. Len(durable) : durable'[u] = IF u = update THEN size ELSE durable[u]
    BY <1>1, <1>2, ExceptSeq
<1> QED
    BY <1>1, <1>2, <1>3

\* A step of the handler: about the update in hand, whose reply, if there
\* is one, goes on with what the chat has.
Continues(r) ==
    /\ r \in Replies /\ r.update = update
    /\ chat = <<>> => Begins(r)
    /\ chat # <<>> => Follows(Last(chat), r)
Handles ==
    /\ at # "idle"
    /\ fates' \in Seq(Fates) /\ Len(fates') = update /\ update' = update
    /\ durable' \in Seq({0} \cup AnswerSizes) /\ Len(durable') = update
    /\ \A u \in 1 .. update : u # update => fates'[u] = fates[u] /\ durable'[u] = durable[u]
    /\ chat' = chat \/ \E r : Continues(r) /\ chat' = Append(chat, r)

\* A step of the handler keeps the order of the chat and the other fates.
LEMMA HandlesKeeps ==
    ASSUME DInv, Handles
    PROVE  /\ chat' \in Seq(Replies) /\ Addressed' /\ AnswersArriveInOrder'
           /\ \A u \in 1 .. update : u # update => FateIsHonest(u)'
<1>1. Typed /\ Addressed /\ AnswersArriveInOrder /\ chat \in Seq(Replies) /\ update \in Nat
    BY LenProperties DEF DInv, Typed, update
<1>2. \A u \in 1 .. update : FateIsHonest(u)
    BY DEF DInv, FatesAreHonest
<1>3. CASE chat' = chat
    <2>1. Addressed' /\ AnswersArriveInOrder'
        BY <1>1, <1>3 DEF Addressed, AnswersArriveInOrder, Handles
    <2>2. ASSUME NEW u \in 1 .. update, u # update PROVE FateIsHonest(u)'
        <3>1. fates'[u] = fates[u] /\ durable'[u] = durable[u] /\ FateIsHonest(u)
            BY <1>2, <2>2 DEF Handles
        <3> QED
            BY <1>3, <3>1 DEF FateIsHonest, Got, GotAll
    <2> QED
        BY <1>1, <1>3, <2>1, <2>2
<1>4. ASSUME NEW r, Continues(r), chat' = Append(chat, r)
      PROVE  /\ chat' \in Seq(Replies) /\ Addressed' /\ AnswersArriveInOrder'
             /\ \A u \in 1 .. update : u # update => FateIsHonest(u)'
    <2>1. /\ chat' \in Seq(Replies) /\ chat' # <<>>
          /\ Len(chat) \in Nat /\ Len(chat') = Len(chat) + 1
          /\ DOMAIN chat = 1 .. Len(chat) /\ DOMAIN chat' = 1 .. Len(chat) + 1
          /\ \A i \in 1 .. Len(chat) : chat'[i] = chat[i]
          /\ chat'[Len(chat) + 1] = r
        BY <1>1, <1>4, ChatGets DEF Continues
    <2>2. r.update = update /\ update' = update
        BY <1>4 DEF Continues, Handles
    <2>3. ASSUME NEW i \in 1 .. Len(chat) + 1 PROVE i \in 1 .. Len(chat) \/ i = Len(chat) + 1
        BY <2>1
    <2>4. Addressed'
        <3>1. CASE update = 0
            BY <1>1, <1>4, <3>1 DEF DInv, InHand, Handles
        <3>2. CASE update # 0
            <4>1. update \in 1 .. update
                BY <1>1, <3>2
            <4>2. \A i \in 1 .. Len(chat) + 1 : chat'[i].update \in 1 .. update
                BY <1>1, <2>1, <2>2, <2>3, <4>1 DEF Addressed
            <4> QED
                BY <2>1, <2>2, <4>2 DEF Addressed
        <3> QED
            BY <3>1, <3>2
    <2>5. AnswersArriveInOrder'
        <3>1. Begins(Head(chat'))
            <4>1. Head(chat') = IF chat = <<>> THEN r ELSE Head(chat)
                BY <1>1, <1>4, HeadTailAppend
            <4> QED
                BY <1>1, <1>4, <4>1 DEF AnswersArriveInOrder, Continues
        <3>2. ASSUME NEW i \in 1 .. Len(chat') - 1 PROVE Follows(chat'[i], chat'[i + 1])
            <4>1. i \in 1 .. Len(chat)
                BY <2>1
            <4>2. CASE i = Len(chat)
                <5>1. chat # <<>>
                    BY <4>1, <4>2, EmptySeq
                <5> QED
                    BY <1>4, <2>1, <4>1, <4>2, <5>1 DEF Continues, Last
            <4>3. CASE i # Len(chat)
                <5>0. Len(chat) \in Nat
                    BY <2>1
                <5>1. i \in 1 .. Len(chat) - 1 /\ i + 1 \in 1 .. Len(chat)
                    BY <4>1, <4>3, <5>0
                <5>2. Follows(chat[i], chat[i + 1])
                    BY <1>1, <5>1 DEF AnswersArriveInOrder
                <5> QED
                    BY <2>1, <4>1, <5>1, <5>2
            <4> QED
                BY <4>2, <4>3
        <3> QED
            BY <3>1, <3>2 DEF AnswersArriveInOrder, Begins, Follows
    <2>6. ASSUME NEW u \in 1 .. update, u # update PROVE FateIsHonest(u)'
        <3>1. fates'[u] = fates[u] /\ durable'[u] = durable[u] /\ FateIsHonest(u)
            BY <1>2, <2>6 DEF Handles
        <3>2. Got(u) \subseteq 1 .. Len(chat)
            BY <2>1 DEF Got
        <3>3. Got(u)' = Got(u)
            <4>1. ASSUME NEW i PROVE i \in Got(u)' <=> i \in Got(u)
                <5>1. CASE i \in 1 .. Len(chat)
                    <6>1. i \in 1 .. Len(chat) + 1 /\ chat'[i] = chat[i]
                        BY <2>1, <5>1
                    <6> QED
                        BY <2>1, <5>1, <6>1 DEF Got
                <5>2. CASE i \notin 1 .. Len(chat)
                    BY <2>1, <2>2, <2>3, <2>6, <5>2 DEF Got
                <5> QED
                    BY <5>1, <5>2
            <4> QED
                BY <4>1
        <3>4. \A i \in Got(u) : chat'[i] = chat[i]
            BY <2>1, <3>2
        <3>5. GotAll(u) => GotAll(u)'
            BY <3>1, <3>3, <3>4 DEF GotAll
        <3> QED
            BY <3>1, <3>3, <3>4, <3>5 DEF FateIsHonest
    <2> QED
        BY <2>1, <2>4, <2>5, <2>6
<1> QED
    BY <1>3, <1>4 DEF Handles

\* Nothing, or one notice, has come of an update without an answer.
LEMMA UnansweredIsHonest ==
    ASSUME DInv, Handles, at \in {"start", "submitted", "service", "apology", "busy"},
           NEW u, u = update, NEW r,
           \/ chat' = chat /\ fates'[u] # "completed"
           \/ /\ chat' = Append(chat, r) /\ r \in Replies /\ r.update = u /\ r.kind # "answer"
              /\ durable'[u] = 0
              /\ fates'[u] \notin {"ignored", "silent"}
              /\ fates'[u] = "completed" => r.kind = "error"
    PROVE  FateIsHonest(u)'
<1>1. chat \in Seq(Replies) /\ NothingYet /\ update \in Nat
    BY LenProperties DEF DInv, Typed, Unanswered, update
<1>2. Got(u) = {}
    BY <1>1 DEF Got, NothingYet
<1>3. CASE chat' = chat /\ fates'[u] # "completed"
    <2>1. Got(u)' = {}
        BY <1>2, <1>3 DEF Got
    <2> QED
        BY <1>3, <2>1 DEF FateIsHonest
<1>4. CASE /\ chat' = Append(chat, r) /\ r \in Replies /\ r.update = u /\ r.kind # "answer"
           /\ durable'[u] = 0
           /\ fates'[u] \notin {"ignored", "silent"}
           /\ fates'[u] = "completed" => r.kind = "error"
    <2>1. /\ DOMAIN chat = 1 .. Len(chat) /\ DOMAIN chat' = 1 .. Len(chat) + 1 /\ Len(chat) \in Nat
          /\ \A i \in 1 .. Len(chat) : chat'[i] = chat[i]
          /\ chat'[Len(chat) + 1] = r
        BY <1>1, <1>4, ChatGets
    <2>2. Got(u)' = {Len(chat) + 1}
        <3>1. ASSUME NEW i PROVE i \in Got(u)' <=> i = Len(chat) + 1
            <4>1. CASE i \in 1 .. Len(chat)
                <5>1. i \notin Got(u) /\ chat'[i] = chat[i] /\ i # Len(chat) + 1
                    BY <1>2, <2>1, <4>1
                <5> QED
                    BY <2>1, <4>1, <5>1 DEF Got
            <4>2. CASE i = Len(chat) + 1
                <5>1. i \in 1 .. Len(chat) + 1
                    BY <2>1, <4>2
                <5> QED
                    BY <1>4, <2>1, <4>2, <5>1 DEF Got
            <4>3. CASE i \notin 1 .. Len(chat) + 1
                <5>1. i # Len(chat) + 1
                    BY <2>1, <4>3
                <5> QED
                    BY <2>1, <4>3, <5>1 DEF Got
            <4>4. i \in 1 .. Len(chat) + 1 => i \in 1 .. Len(chat) \/ i = Len(chat) + 1
                BY <2>1
            <4> QED
                BY <4>1, <4>2, <4>3, <4>4
        <3> QED
            BY <3>1
    <2>3. ~(durable'[u] > 0)
        BY <1>4
    <2> QED
        BY <1>4, <2>1, <2>2, <2>3 DEF FateIsHonest
<1> QED
    BY <1>3, <1>4

\* Of an update with an answer the user has parts of the answer, or nothing.
LEMMA DeliveringIsHonest ==
    ASSUME DInv, Handles, at \in {"chunking", "sending", "handoff"}, durable' = durable,
           NEW u, u = update, NEW r,
           \/ chat' = chat
           \/ chat' = Append(chat, r) /\ r \in Replies /\ r.update = u /\ r.kind = "answer",
           fates'[u] \notin {"ignored", "silent"},
           fates'[u] = "completed" => chat' = chat /\ Ended(durable[u])
    PROVE  FateIsHonest(u)'
<1>1. /\ chat \in Seq(Replies) /\ update \in Nat /\ update > 0 /\ u \in 1 .. update
      /\ durable[u] \in AnswerSizes /\ FateIsHonest(u)
    BY LenProperties DEF DInv, Typed, InHand, Delivering, FatesAreHonest, update
<1>2. durable[u] > 0 /\ durable[u] # 0
    BY <1>1 DEF AnswerSizes
<1>3. DOMAIN chat = 1 .. Len(chat) /\ Len(chat) \in Nat
    BY <1>1, LenProperties
<1>4. CASE chat' = chat
    <2>1. Got(u)' = Got(u)
        BY <1>4 DEF Got
    <2>2. (\E i \in Got(u) : chat[i].kind = "answer") <=> durable[u] > 0 /\ Got(u) # {}
        BY <1>1 DEF FateIsHonest
    <2>3. fates'[u] = "completed" => GotAll(u)'
        <3> SUFFICES ASSUME fates'[u] = "completed" PROVE GotAll(u)'
            OBVIOUS
        <3>1. /\ chat # <<>> /\ Last(chat).update = u /\ Last(chat).kind = "answer"
              /\ Last(chat).last /\ Last(chat).message = durable[u]
            BY DEF Ended
        <3>2. Len(chat) \in 1 .. Len(chat) /\ \A k \in 1 .. Len(chat) : k <= Len(chat)
            BY <1>1, <3>1, EmptySeq
        <3>3. Len(chat) \in Got(u) /\ \A k \in Got(u) : k <= Len(chat)
            BY <1>3, <3>1, <3>2 DEF Got, Last
        <3> QED
            BY <1>2, <1>4, <2>1, <3>1, <3>3 DEF GotAll, Last
    <2> QED
        BY <1>2, <1>4, <2>1, <2>2, <2>3 DEF FateIsHonest
<1>5. CASE chat' = Append(chat, r) /\ r \in Replies /\ r.update = u /\ r.kind = "answer"
    <2>1. /\ DOMAIN chat' = 1 .. Len(chat) + 1 /\ chat'[Len(chat) + 1] = r /\ Len(chat') = Len(chat) + 1
        BY <1>1, <1>5, ChatGets
    <2>2. Len(chat) + 1 \in 1 .. Len(chat) + 1
        BY <1>3
    <2>3. Len(chat) + 1 \in Got(u)'
        BY <1>5, <2>1, <2>2 DEF Got
    <2>4. fates'[u] # "completed"
        <3>1. chat' # chat
            BY <1>3, <2>1
        <3> QED
            BY <3>1
    <2> QED
        BY <1>2, <1>5, <2>1, <2>3, <2>4 DEF FateIsHonest
<1> QED
    BY <1>4, <1>5

\* What is left to show of a step of the handler.
LEMMA Assembled ==
    ASSUME DInv, Handles, NEW u, u = update, FateIsHonest(u)',
           at' \in {"idle", "start", "submitted", "service", "apology", "busy", "chunking", "sending",
                    "handoff"},
           message' \in 0 .. 3, sent' \in Nat, text' \in Texts \cup {<<>>},
           at' = "idle" \/ fates' = fates, Unanswered', Delivering'
    PROVE  DInv'
<1>1. /\ chat' \in Seq(Replies) /\ Addressed' /\ AnswersArriveInOrder'
      /\ \A v \in 1 .. update : v # update => FateIsHonest(v)'
    BY HandlesKeeps
<1>2. Typed'
    BY <1>1 DEF Handles, Typed, update
<1>3. InHand'
    BY DEF DInv, Handles, InHand
<1>4. \A v \in 1 .. update : FateIsHonest(v)'
    BY <1>1
<1>5. FatesAreHonest'
    BY <1>4 DEF FatesAreHonest, Handles
<1> QED
    BY <1>1, <1>2, <1>3, <1>5 DEF DInv

\* The handler is done with the update.
LEMMA Closed ==
    ASSUME DInv, NEW fate \in Fates, End(fate), at # "idle",
           durable' = durable \/ \E size \in AnswerSizes : durable' = [durable EXCEPT ![update] = size],
           chat' = chat \/ \E r : Continues(r) /\ chat' = Append(chat, r)
    PROVE  /\ Handles /\ fates'[update] = fate
           /\ \A u : u = update /\ FateIsHonest(u)' => DInv'
<1>1. Typed /\ InHand
    BY DEF DInv
<1>2. /\ fates' \in Seq(Fates) /\ Len(fates') = update /\ update' = update
      /\ update \in Nat /\ update > 0 /\ update \in 1 .. update
      /\ fates'[update] = fate
      /\ \A u \in 1 .. update : u # update => fates'[u] = fates[u]
      /\ at' = "idle" /\ message' = 0 /\ sent' = 0 /\ text' = <<>>
    BY <1>1, EndIs
<1>3. /\ durable' \in Seq({0} \cup AnswerSizes) /\ Len(durable') = update
      /\ \A u \in 1 .. update : u # update => durable'[u] = durable[u]
    BY <1>1, DurableIs DEF Typed
<1>4. Handles
    BY <1>2, <1>3 DEF Handles
<1>5. Unanswered' /\ Delivering'
    BY <1>2 DEF Unanswered, Delivering
<1> QED
    BY <1>2, <1>4, <1>5, Assembled

\* A notice comes after everything the chat has.
LEMMA NoticeIs ==
    ASSUME DInv, at \in {"start", "submitted", "service", "apology", "busy"},
           NEW kind \in {"onboarding", "busy", "error"}
    PROVE  /\ Notice(kind) \in Replies /\ Notice(kind).update = update /\ Notice(kind).kind = kind
           /\ Continues(Notice(kind))
<1> DEFINE r == Notice(kind)
<1>1. chat \in Seq(Replies) /\ NothingYet /\ update \in Nat
    BY LenProperties DEF DInv, Typed, Unanswered, update
<1>2. r = [update |-> update, kind |-> kind]
    BY DEF Notice
<1>3. r \in Replies /\ r.update = update /\ r.kind = kind /\ r.kind # "answer"
    BY <1>1, <1>2 DEF Replies
<1> HIDE DEF r
<1>4. Begins(r)
    BY <1>3 DEF Begins
<1>5. chat # <<>> => Follows(Last(chat), r)
    <2> SUFFICES ASSUME chat # <<>> PROVE Follows(Last(chat), r)
        OBVIOUS
    <2>1. Len(chat) \in 1 .. Len(chat) /\ DOMAIN chat = 1 .. Len(chat)
        BY <1>1, EmptySeq, LenProperties
    <2>2. Last(chat).update < update /\ Last(chat) \in Replies
        BY <1>1, <2>1, ElementOfSeq DEF NothingYet, Last
    <2>3. Last(chat).update \in Nat
        BY <2>2 DEF Replies
    <2>4. r.update > Last(chat).update
        BY <1>1, <1>3, <2>2, <2>3
    <2> QED
        BY <1>4, <2>4 DEF Follows
<1> QED
    BY <1>3, <1>4, <1>5 DEF Continues, r

\* A chunk of an answer comes after what the chat has of it.
LEMMA ReplyIs ==
    ASSUME DInv, at = "sending", sent < Len(chunks)
    PROVE  /\ Reply \in Replies /\ Reply.update = update /\ Reply.kind = "answer"
           /\ Reply.message = message /\ Reply.part = sent + 1
           /\ Reply.last <=> sent + 1 = Len(chunks)
           /\ Continues(Reply)
<1>1. /\ chat \in Seq(Replies) /\ update \in Nat /\ message \in Nat /\ sent \in Nat
      /\ Awaits(message, sent + 1)
    BY LenProperties DEF DInv, Typed, Delivering, update
<1>2. /\ Reply \in Replies /\ Reply.update = update /\ Reply.kind = "answer"
      /\ Reply.message = message /\ Reply.part = sent + 1
      /\ Reply.last <=> sent + 1 = Len(chunks)
    <2>1. Reply = [update |-> update, kind |-> "answer", message |-> message,
                   part |-> sent + 1, last |-> (sent + 1 = Len(chunks))]
        BY DEF Reply
    <2>2. sent + 1 \in Nat
        BY <1>1
    <2>3. PICK b \in BOOLEAN : b <=> sent + 1 = Len(chunks)
        OBVIOUS
    <2>4. Reply = [update |-> update, kind |-> "answer", message |-> message,
                   part |-> sent + 1, last |-> b]
        <3>1. b = (sent + 1 = Len(chunks))
            BY <2>3
        <3> QED
            BY <2>1, <3>1
    <2> QED
        BY <1>1, <2>2, <2>3, <2>4 DEF Replies
<1> DEFINE r == Reply  p == sent + 1
<1>3. CASE message = 1 /\ p = 1
    <2>1. NothingYet
        BY <1>1, <1>3 DEF Awaits
    <2>2. Begins(r)
        BY <1>2, <1>3 DEF Begins
    <2>3. chat # <<>> => Follows(Last(chat), r)
        <3> SUFFICES ASSUME chat # <<>> PROVE Follows(Last(chat), r)
            OBVIOUS
        <3>1. Len(chat) \in 1 .. Len(chat) /\ DOMAIN chat = 1 .. Len(chat)
            BY <1>1, EmptySeq, LenProperties
        <3>2. Last(chat).update < update /\ Last(chat) \in Replies
            BY <1>1, <2>1, <3>1, ElementOfSeq DEF NothingYet, Last
        <3>3. Last(chat).update \in Nat
            BY <3>2 DEF Replies
        <3> HIDE DEF r
        <3>4. r.update > Last(chat).update
            BY <1>1, <1>2, <3>2, <3>3 DEF r
        <3> QED
            BY <2>2, <3>4 DEF Follows
    <2> QED
        BY <1>2, <2>2, <2>3 DEF Continues
<1>4. CASE ~(message = 1 /\ p = 1)
    <2>1. /\ chat # <<>> /\ Last(chat).update = update /\ Last(chat).kind = "answer"
          /\ IF p = 1 THEN Last(chat).last /\ Last(chat).message = message - 1
             ELSE ~Last(chat).last /\ Last(chat).message = message /\ Last(chat).part = p - 1
        BY <1>1, <1>4 DEF Awaits, Ended
    <2>2. ~(r.update > Last(chat).update) /\ r.update = Last(chat).update
        BY <1>1, <1>2, <2>1
    <2>3. CASE p = 1
        <3>1. Last(chat).last /\ r.message = Last(chat).message + 1 /\ r.part = 1
            BY <1>1, <1>2, <2>1, <2>3
        <3> HIDE DEF r
        <3> QED
            BY <1>2, <2>1, <2>2, <3>1 DEF Continues, Follows, r
    <2>4. CASE p # 1
        <3>1. ~Last(chat).last /\ r.message = Last(chat).message /\ r.part = Last(chat).part + 1
            BY <1>1, <1>2, <2>1, <2>4
        <3> HIDE DEF r
        <3> QED
            BY <1>2, <2>1, <2>2, <3>1 DEF Continues, Follows, r
    <2> QED
        BY <2>3, <2>4
<1> QED
    BY <1>2, <1>3, <1>4

-----------------------------------------------------------------------------
(* The steps keep the invariant.                                           *)

\* Nothing has been sent of a new update.
LEMMA ReceiveKeeps == ASSUME DInv, ReceiveUpdate PROVE DInv'
<1>1. /\ fates \in Seq(Fates) /\ durable \in Seq({0} \cup AnswerSizes) /\ Len(durable) = update
      /\ update = Len(fates) /\ update \in Nat /\ chat \in Seq(Replies)
      /\ Addressed /\ AnswersArriveInOrder
    BY LenProperties DEF DInv, Typed, update
<1>2. \A u \in 1 .. update : FateIsHonest(u)
    BY DEF DInv, FatesAreHonest
<1>3. PICK fate \in {"ignored", "pending"} :
          /\ fates' = Append(fates, fate)
          /\ at' \in {"idle", "start", "submitted"} /\ (at' # "idle" => fate = "pending")
    BY DEF ReceiveUpdate
<1>4. durable' = Append(durable, 0) /\ chat' = chat /\ message' = message /\ text' = text /\ sent' = sent
    BY DEF ReceiveUpdate, Sending
<1>5. /\ fates' \in Seq(Fates) /\ update' = update + 1
      /\ fates'[update + 1] = fate /\ \A u \in 1 .. update : fates'[u] = fates[u]
    <2>1. fate \in Fates
        BY DEF Fates
    <2> QED
        BY <1>1, <1>3, <2>1, AppendProperties DEF update
<1>6. /\ durable' \in Seq({0} \cup AnswerSizes) /\ Len(durable') = update + 1
      /\ durable'[update + 1] = 0 /\ \A u \in 1 .. update : durable'[u] = durable[u]
    BY <1>1, <1>4, AppendProperties
<1>7. \A i \in DOMAIN chat : chat[i].update \in 1 .. update + 1 /\ chat[i].update < update + 1
    BY <1>1 DEF Addressed
<1>8. Typed'
    BY <1>1, <1>3, <1>4, <1>5, <1>6 DEF DInv, Typed, update
<1>9. Addressed'
    BY <1>4, <1>5, <1>7 DEF Addressed
<1>10. InHand' /\ Unanswered' /\ Delivering'
    <2>1. InHand'
        <3>1. update + 1 > 0
            BY <1>1
        <3> QED
            BY <1>3, <1>5, <3>1 DEF InHand
    <2>2. NothingYet'
        BY <1>4, <1>5, <1>7 DEF NothingYet
    <2> QED
        BY <1>3, <1>5, <1>6, <2>1, <2>2 DEF Unanswered, Delivering
<1>11. AnswersArriveInOrder'
    BY <1>1, <1>4 DEF AnswersArriveInOrder
<1>12. ASSUME NEW u \in 1 .. update + 1 PROVE FateIsHonest(u)'
    <2>1. Got(u)' = Got(u)
        BY <1>4 DEF Got
    <2>2. CASE u \in 1 .. update
        <3>1. fates'[u] = fates[u] /\ durable'[u] = durable[u] /\ FateIsHonest(u)
            BY <1>2, <1>5, <1>6, <2>2
        <3> QED
            BY <1>4, <2>1, <3>1 DEF FateIsHonest, GotAll
    <2>3. CASE u = update + 1
        <3>1. Got(u) = {}
            <4>1. u \notin 1 .. update
                BY <1>1, <2>3
            <4> QED
                BY <1>1, <4>1 DEF Got, Addressed
        <3>2. fates'[u] # "completed"
            BY <1>3, <1>5, <2>3
        <3> QED
            BY <2>1, <3>1, <3>2 DEF FateIsHonest
    <2>4. u \in 1 .. update \/ u = update + 1
        BY <1>1
    <2> QED
        BY <2>2, <2>3, <2>4
<1>13. FatesAreHonest'
    BY <1>5, <1>12 DEF FatesAreHonest
<1> QED
    BY <1>8, <1>9, <1>10, <1>11, <1>13 DEF DInv

\* A notice ends the handler, whether or not the call of the bot does.
LEMMA NoticeKeeps ==
    ASSUME DInv, at \in {"start", "submitted", "service", "apology", "busy"},
           NEW kind \in {"onboarding", "busy", "error"},
           NEW fate \in {"greeted", "refused", "completed"},
           fate = "completed" => kind = "error",
           (Call(Notice(kind)) /\ End(fate)) \/ CallFails(Notice(kind)), durable' = durable
    PROVE  DInv'
<1> DEFINE r == Notice(kind)
<1>1. r \in Replies /\ r.update = update /\ r.kind = kind /\ Continues(r)
    BY NoticeIs
<1>2. durable[update] = 0 /\ at # "idle"
    BY DEF DInv, Unanswered
<1>3. PICK ending \in {fate, "failed"} :
          /\ End(ending) /\ chat' \in {chat, Append(chat, r)}
          /\ ending = "failed" \/ chat' = Append(chat, r)
    BY DEF Call, CallFails
<1> HIDE DEF r
<1>4. ending \in Fates /\ ending \notin {"ignored", "silent"}
    BY DEF Fates
<1>5. /\ Handles /\ fates'[update] = ending
      /\ \A u : u = update /\ FateIsHonest(u)' => DInv'
    BY <1>1, <1>2, <1>3, <1>4, Closed
<1>6. ASSUME NEW u, u = update PROVE FateIsHonest(u)'
    <2>1. fates'[u] = ending /\ durable'[u] = 0 /\ r.update = u /\ r.kind # "answer"
        BY <1>1, <1>2, <1>5, <1>6
    <2>2. ending = "completed" => r.kind = "error" /\ chat' = Append(chat, r)
        BY <1>1, <1>3
    <2>3. \/ chat' = chat /\ fates'[u] # "completed"
          \/ /\ chat' = Append(chat, r) /\ r \in Replies /\ r.update = u /\ r.kind # "answer"
             /\ durable'[u] = 0
             /\ fates'[u] \notin {"ignored", "silent"}
             /\ fates'[u] = "completed" => r.kind = "error"
        BY <1>1, <1>3, <1>4, <2>1, <2>2
    <2> QED
        BY <1>5, <1>6, <2>3, UnansweredIsHonest
<1> QED
    BY <1>5, <1>6

\* The notices: onboarding, busy, error.
LEMMA NoticesKeep == ASSUME DInv, SendOnboarding \/ SendBusy \/ SendApology PROVE DInv'
<1>1. CASE SendOnboarding
    BY <1>1, NoticeKeeps DEF SendOnboarding
<1>2. CASE SendBusy
    BY <1>2, NoticeKeeps DEF SendBusy
<1>3. CASE SendApology
    BY <1>3, NoticeKeeps DEF SendApology
<1> QED
    BY <1>1, <1>2, <1>3

\* The handler goes on, and nothing has been sent.
LEMMA GoesOn ==
    ASSUME DInv, at # "idle", fates' = fates, chat' = chat,
           \/ durable' = durable
           \/ at = "service" /\ \E size \in AnswerSizes : durable' = [durable EXCEPT ![update] = size]
    PROVE  Handles /\ \A u : u = update => FateIsHonest(u)'
<1>1. /\ Typed /\ InHand /\ fates \in Seq(Fates) /\ update = Len(fates) /\ update \in Nat
      /\ durable \in Seq({0} \cup AnswerSizes) /\ Len(durable) = update /\ fates[update] = "pending"
    BY LenProperties DEF DInv, Typed, InHand, update
<1>2. /\ durable' \in Seq({0} \cup AnswerSizes) /\ Len(durable') = update
      /\ \A u \in 1 .. update : u # update => durable'[u] = durable[u]
    BY <1>1, DurableIs
<1>3. Handles
    BY <1>1, <1>2 DEF Handles, update
<1>4. ASSUME NEW u, u = update PROVE FateIsHonest(u)'
    <2>1. fates'[u] = "pending"
        BY <1>1, <1>4
    <2>2. CASE at \in {"start", "submitted", "service", "apology", "busy"}
        BY <1>3, <1>4, <2>1, <2>2, UnansweredIsHonest
    <2>3. CASE at \in {"chunking", "sending", "handoff"}
        BY <1>3, <1>4, <2>1, <2>3, DeliveringIsHonest
    <2> QED
        BY <1>1, <2>2, <2>3 DEF Typed
<1> QED
    BY <1>3, <1>4

\* The job is taken, finds no room, or is refused without a word.
LEMMA SubmitKeeps == ASSUME DInv, Submit PROVE DInv'
<1>1. at = "submitted" /\ durable' = durable /\ chat' = chat
    BY DEF Submit
<1>2. CASE End("silent")
    <2>1. "silent" \in Fates
        BY DEF Fates
    <2>2. Handles /\ fates'[update] = "silent" /\ \A u : u = update /\ FateIsHonest(u)' => DInv'
        BY <1>1, <1>2, <2>1, Closed
    <2>3. ASSUME NEW u, u = update PROVE FateIsHonest(u)'
        BY <1>1, <2>2, <2>3, UnansweredIsHonest
    <2> QED
        BY <2>2, <2>3
<1>3. CASE at' \in {"service", "busy"} /\ UNCHANGED <<fates, Sending>>
    <2>1. Handles /\ \A u : u = update => FateIsHonest(u)'
        BY <1>1, <1>3, GoesOn
    <2>2. message' \in 0 .. 3 /\ sent' \in Nat /\ text' \in Texts \cup {<<>>}
        BY <1>3 DEF DInv, Typed, Sending
    <2>3. Unanswered'
        BY <1>1, <1>3, <2>1 DEF DInv, Unanswered, NothingYet, Handles
    <2>4. Delivering'
        BY <1>3 DEF Delivering
    <2> QED
        BY <1>3, <2>1, <2>2, <2>3, <2>4, Assembled
<1> QED
    BY <1>2, <1>3 DEF Submit

\* The service raises: an apology comes next.
LEMMA ServiceFailsKeeps == ASSUME DInv, ServiceFails PROVE DInv'
<1>1. /\ at = "service" /\ at' = "apology" /\ durable' = durable /\ chat' = chat /\ fates' = fates
      /\ message' = message /\ sent' = sent /\ text' = text
    BY DEF ServiceFails, Sending
<1>2. Handles /\ \A u : u = update => FateIsHonest(u)'
    BY <1>1, GoesOn
<1>3. Unanswered'
    BY <1>1, <1>2 DEF DInv, Unanswered, NothingYet, Handles
<1>4. Delivering'
    BY <1>1 DEF Delivering
<1> QED
    BY <1>1, <1>2, <1>3, <1>4, Assembled DEF DInv, Typed

\* The service answers: the answer is durable and nothing of it sent.
LEMMA ServiceAnswersKeeps == ASSUME DInv, ServiceAnswers PROVE DInv'
<1>1. /\ at = "service" /\ at' = "chunking" /\ chat' = chat /\ fates' = fates
      /\ message' = 1 /\ sent' = 0 /\ text' \in Texts
    BY DEF ServiceAnswers, BeginMessage
<1>2. PICK size \in AnswerSizes : durable' = [durable EXCEPT ![update] = size]
    BY DEF ServiceAnswers
<1>3. Handles /\ \A u : u = update => FateIsHonest(u)'
    BY <1>1, <1>2, GoesOn
<1>4. durable'[update] = size /\ 1 \in 1 .. size
    <2>1. Typed /\ InHand
        BY DEF DInv
    <2>2. durable'[update] = size
        BY <1>1, <1>2, <2>1, DurableIs
    <2>3. size = 1 \/ size = 3
        BY DEF AnswerSizes
    <2> QED
        BY <2>2, <2>3
<1>5. Awaits(1, 1)'
    BY <1>1, <1>3 DEF DInv, Unanswered, NothingYet, Awaits, Handles
<1>6. Delivering'
    BY <1>1, <1>3, <1>4, <1>5 DEF Delivering, Handles, Awaits
<1>7. Unanswered'
    BY <1>1 DEF Unanswered
<1> QED
    BY <1>1, <1>3, <1>6, <1>7, Assembled

\* The handler raises between two messages.
LEMMA FailsKeeps ==
    ASSUME DInv, at \in {"chunking", "handoff"}, End("failed"), durable' = durable, chat' = chat
    PROVE  DInv'
<1>1. "failed" \in Fates
    BY DEF Fates
<1>2. Handles /\ fates'[update] = "failed" /\ \A u : u = update /\ FateIsHonest(u)' => DInv'
    BY <1>1, Closed
<1>3. ASSUME NEW u, u = update PROVE FateIsHonest(u)'
    BY <1>2, <1>3, DeliveringIsHonest
<1> QED
    BY <1>2, <1>3

\* The length of what chunk_text() returns.
LEMMA ChunksAreSome ==
    ASSUME NEW content \in Texts, ChunkText(content) # NoChunks
    PROVE  Len(ChunkText(content)) \in Nat /\ Len(ChunkText(content)) > 0
<1>1. content \in Seq(Characters)
    BY DeliveryAssumption
<1> DEFINE round == [chunks |-> NoChunks, rest |-> content]
<1>2. round \in Rounds /\ Good(round.chunks)
    BY <1>1, EmptySeq DEF Rounds, NoChunks, Good
<1>3. Good(Chunked[round])
    BY <1>2, ChunkedIsSound DEF IsSplit, ChunkText
<1>4. ChunkText(content) \in Seq(Seq(Characters))
    BY <1>3 DEF Good, ChunkText
<1> HIDE DEF round
<1>5. Len(ChunkText(content)) \in Nat \ {0}
    BY <1>4, EmptySeq DEF NoChunks
<1> QED
    BY <1>5

\* The text of a message is cut, or cannot be.
LEMMA ChunkKeeps == ASSUME DInv, Chunk PROVE DInv'
<1>1. at = "chunking" /\ durable' = durable /\ chat' = chat
    BY DEF Chunk
<1>2. CASE ChunkText(text) = NoChunks
    BY <1>1, <1>2, FailsKeeps DEF Chunk
<1>3. CASE ChunkText(text) # NoChunks
    <2>1. /\ chunks' = ChunkText(text) /\ at' = "sending" /\ fates' = fates
          /\ message' = message /\ text' = text /\ sent' = sent
        BY <1>3 DEF Chunk
    <2>2. Handles /\ \A u : u = update => FateIsHonest(u)'
        BY <1>1, <2>1, GoesOn
    <2>3. /\ text \in Texts /\ durable[update] \in AnswerSizes /\ message \in 1 .. durable[update]
          /\ sent = 0 /\ Awaits(message, 1)
        BY <1>1 DEF DInv, Delivering
    <2>4. Len(chunks') \in Nat /\ Len(chunks') > 0
        BY <1>3, <2>1, <2>3, ChunksAreSome
    <2>5. Awaits(message, sent + 1)'
        <3>1. sent' + 1 = 1 /\ 0 + 1 = 1
            BY <2>1, <2>3
        <3> QED
            BY <1>1, <2>1, <2>2, <2>3, <3>1 DEF Awaits, Ended, NothingYet, Handles
    <2>6. Delivering'
        BY <1>1, <1>3, <2>1, <2>2, <2>3, <2>4, <2>5 DEF Delivering, Handles
    <2>7. Unanswered'
        BY <2>1 DEF Unanswered
    <2> QED
        BY <2>1, <2>2, <2>6, <2>7, Assembled DEF DInv, Typed
<1> QED
    BY <1>2, <1>3

\* A chunk is sent, or the call of the bot fails.
LEMMA SendChunkKeeps == ASSUME DInv, SendChunk PROVE DInv'
<1> DEFINE r == Reply
<1>1. at = "sending" /\ sent < Len(chunks) /\ durable' = durable
    BY DEF SendChunk
<1>2. /\ r \in Replies /\ r.update = update /\ r.kind = "answer"
      /\ r.message = message /\ r.part = sent + 1
      /\ r.last <=> sent + 1 = Len(chunks)
      /\ Continues(r)
    BY <1>1, ReplyIs
<1>3. CASE CallFails(r)
    <2>1. "failed" \in Fates
        BY DEF Fates
    <2>2. End("failed") /\ (chat' = chat \/ chat' = Append(chat, r))
        BY <1>3 DEF CallFails
    <2> HIDE DEF r
    <2>3. Handles /\ fates'[update] = "failed" /\ \A u : u = update /\ FateIsHonest(u)' => DInv'
        BY <1>1, <1>2, <2>1, <2>2, Closed
    <2>4. ASSUME NEW u, u = update PROVE FateIsHonest(u)'
        BY <1>1, <1>2, <2>2, <2>3, <2>4, DeliveringIsHonest
    <2> QED
        BY <2>3, <2>4
<1>4. CASE /\ Call(r) /\ sent' = sent + 1
           /\ UNCHANGED <<fates, at, message, text, chunks>>
    <2>1. /\ chat' = Append(chat, r) /\ sent' = sent + 1 /\ fates' = fates /\ at' = "sending"
          /\ message' = message /\ text' = text /\ chunks' = chunks
        BY <1>1, <1>4 DEF Call
    <2> HIDE DEF r
    <2>2. /\ Typed /\ InHand /\ fates \in Seq(Fates) /\ Len(fates) = update /\ update \in Nat
          /\ durable \in Seq({0} \cup AnswerSizes) /\ Len(durable) = update
          /\ fates[update] = "pending" /\ chat \in Seq(Replies)
        BY <1>1, LenProperties DEF DInv, Typed, InHand, update
    <2>3. Handles
        BY <1>1, <1>2, <2>1, <2>2 DEF Handles, update
    <2>4. ASSUME NEW u, u = update PROVE FateIsHonest(u)'
        BY <1>1, <1>2, <2>1, <2>2, <2>3, <2>4, DeliveringIsHonest
    <2>5. /\ text \in Texts /\ durable[update] \in AnswerSizes /\ message \in 1 .. durable[update]
          /\ chunks = ChunkText(text) /\ chunks # NoChunks
        BY <1>1 DEF DInv, Delivering
    <2>6. Len(chunks) \in Nat /\ sent \in Nat /\ message \in Nat /\ message # 0
        BY <2>2, <2>5, ChunksAreSome DEF Typed, AnswerSizes
    <2>7. sent' <= Len(chunks') /\ sent' \in Nat
        BY <1>1, <2>1, <2>6
    <2>8. /\ chat' # <<>> /\ Last(chat') = r
        BY <1>2, <2>1, <2>2, ChatGets
    <2>9. IF sent' < Len(chunks') THEN Awaits(message, sent + 1)' ELSE Ended(message)'
        <3>1. update' = update
            BY <2>3 DEF Handles
        <3>2. CASE sent' < Len(chunks')
            <4>1. sent' + 1 # 1 /\ sent' + 1 - 1 = sent + 1 /\ ~(sent + 1 = Len(chunks))
                BY <2>1, <2>6, <3>2
            <4> QED
                BY <1>2, <2>1, <2>8, <3>1, <3>2, <4>1 DEF Awaits
        <3>3. CASE ~(sent' < Len(chunks'))
            <4>1. sent + 1 = Len(chunks)
                BY <1>1, <2>1, <2>6, <3>3
            <4> QED
                BY <1>2, <2>1, <2>8, <3>1, <3>3, <4>1 DEF Ended
        <3> QED
            BY <3>2, <3>3
    <2>10. Delivering'
        BY <1>1, <2>1, <2>3, <2>5, <2>7, <2>9 DEF Delivering, Handles
    <2>11. Unanswered'
        BY <2>1 DEF Unanswered
    <2> QED
        BY <2>1, <2>2, <2>3, <2>4, <2>7, <2>10, <2>11, Assembled DEF Typed
<1> QED
    BY <1>3, <1>4 DEF SendChunk

\* After a message comes the next, or the job is complete.
LEMMA EndMessageKeeps == ASSUME DInv, EndMessage PROVE DInv'
<1>1. at = "sending" /\ sent = Len(chunks) /\ durable' = durable /\ chat' = chat
    BY DEF EndMessage
<1>2. /\ text \in Texts /\ durable[update] \in AnswerSizes /\ message \in 1 .. durable[update]
      /\ chunks = ChunkText(text) /\ chunks # NoChunks
      /\ IF sent < Len(chunks) THEN Awaits(message, sent + 1) ELSE Ended(message)
    BY <1>1 DEF DInv, Delivering
<1>3. Len(chunks) \in Nat /\ message \in Nat /\ message # 0 /\ durable[update] \in Nat
    BY <1>2, ChunksAreSome DEF AnswerSizes
<1>4. Ended(message)
    BY <1>1, <1>2, <1>3
<1>5. CASE message < durable[update]
    <2>1. at' = "handoff" /\ fates' = fates /\ message' = message /\ sent' = sent /\ text' = text
        BY <1>5 DEF EndMessage, Sending
    <2>2. Handles /\ \A u : u = update => FateIsHonest(u)'
        BY <1>1, <2>1, GoesOn
    <2>3. Ended(message)'
        BY <1>1, <1>4, <2>1, <2>2 DEF Ended, Handles
    <2>4. Delivering'
        BY <1>1, <1>2, <1>5, <2>1, <2>2, <2>3 DEF Delivering, Handles
    <2>5. Unanswered'
        BY <2>1 DEF Unanswered
    <2> QED
        BY <2>1, <2>2, <2>4, <2>5, Assembled DEF DInv, Typed
<1>6. CASE ~(message < durable[update])
    <2>1. End("completed") /\ "completed" \in Fates
        BY <1>6 DEF EndMessage, Fates
    <2>2. Handles /\ fates'[update] = "completed" /\ \A u : u = update /\ FateIsHonest(u)' => DInv'
        BY <1>1, <2>1, Closed
    <2>3. message = durable[update]
        BY <1>2, <1>3, <1>6
    <2>4. Ended(durable[update])
        BY <1>4, <2>3
    <2>5. ASSUME NEW u, u = update PROVE FateIsHonest(u)'
        BY <1>1, <2>2, <2>4, <2>5, DeliveringIsHonest
    <2> QED
        BY <2>2, <2>5
<1> QED
    BY <1>5, <1>6

\* The pause before another message ends, or the call in it fails.
LEMMA HandOffKeeps == ASSUME DInv, HandOff PROVE DInv'
<1>1. at = "handoff" /\ durable' = durable /\ chat' = chat
    BY DEF HandOff
<1>2. CASE End("failed")
    BY <1>1, <1>2, FailsKeeps
<1>3. CASE BeginMessage(message + 1)
    <2>1. at' = "chunking" /\ message' = message + 1 /\ text' \in Texts /\ sent' = 0 /\ fates' = fates
        BY <1>3 DEF BeginMessage
    <2>2. Handles /\ \A u : u = update => FateIsHonest(u)'
        BY <1>1, <2>1, GoesOn
    <2>3. /\ durable[update] \in AnswerSizes /\ message \in 1 .. durable[update]
          /\ message < durable[update] /\ Ended(message)
        BY <1>1 DEF DInv, Delivering
    <2>4. message' \in 1 .. durable[update] /\ message' \in 0 .. 3
        BY <2>1, <2>3 DEF AnswerSizes
    <2>5. Awaits(message, 1)'
        <3>1. message' # 1 /\ message' - 1 = message
            BY <2>1, <2>3 DEF AnswerSizes
        <3>2. Ended(message - 1)'
            BY <1>1, <2>1, <2>2, <2>3, <3>1 DEF Ended, Handles
        <3> QED
            BY <3>1, <3>2 DEF Awaits
    <2>6. Delivering'
        BY <1>1, <2>1, <2>2, <2>3, <2>4, <2>5 DEF Delivering, Handles
    <2>7. Unanswered'
        BY <2>1 DEF Unanswered
    <2> QED
        BY <2>1, <2>2, <2>4, <2>6, <2>7, Assembled
<1> QED
    BY <1>2, <1>3 DEF HandOff

\* The process ends.
LEMMA CrashKeeps == ASSUME DInv, Crash PROVE DInv'
<1>1. at # "idle" /\ End("crashed") /\ chat' = chat /\ "crashed" \in Fates
    BY DEF Crash, Fates
<1>2. \/ durable' = durable
      \/ at = "service" /\ \E size \in AnswerSizes : durable' = [durable EXCEPT ![update] = size]
    BY DEF Crash
<1>3. Handles /\ fates'[update] = "crashed" /\ \A u : u = update /\ FateIsHonest(u)' => DInv'
    BY <1>1, <1>2, Closed
<1>4. ASSUME NEW u, u = update PROVE FateIsHonest(u)'
    <2>1. CASE at \in {"start", "submitted", "service", "apology", "busy"}
        BY <1>1, <1>3, <1>4, <2>1, UnansweredIsHonest
    <2>2. CASE at \in {"chunking", "sending", "handoff"}
        BY <1>1, <1>2, <1>3, <1>4, <2>2, DeliveringIsHonest
    <2> QED
        BY <1>1, <2>1, <2>2 DEF DInv, Typed
<1> QED
    BY <1>3, <1>4

\* Every step keeps the invariant.
LEMMA NextKeeps == DInv /\ [Next]_vars => DInv'
<1> SUFFICES ASSUME DInv, [Next]_vars PROVE DInv'
    OBVIOUS
<1>1. CASE Next
    BY <1>1, ReceiveKeeps, NoticesKeep, SubmitKeeps, ServiceFailsKeeps, ServiceAnswersKeeps, ChunkKeeps,
       SendChunkKeeps, EndMessageKeeps, HandOffKeeps, CrashKeeps DEF Next
<1>2. CASE UNCHANGED vars
    <2>1. /\ fates' = fates /\ durable' = durable /\ at' = at /\ message' = message /\ text' = text
          /\ chunks' = chunks /\ sent' = sent /\ chat' = chat /\ update' = update
        BY <1>2 DEF vars, update
    <2>2. Typed' /\ InHand' /\ Addressed' /\ Unanswered' /\ AnswersArriveInOrder'
        BY <2>1 DEF DInv, Typed, InHand, Addressed, Unanswered, NothingYet, AnswersArriveInOrder, update
    <2>3. Delivering'
        BY <2>1 DEF DInv, Delivering, NothingYet, Awaits, Ended
    <2>4. FatesAreHonest'
        BY <2>1 DEF DInv, FatesAreHonest, FateIsHonest, Got, GotAll
    <2> QED
        BY <2>2, <2>3, <2>4 DEF DInv
<1> QED
    BY <1>1, <1>2

-----------------------------------------------------------------------------
(* What they keep.                                                         *)

\* The inductive invariant of TelegramDelivery.
THEOREM DeliveryInductive == Spec => []DInv
<1> QED
    BY InitDInv, NextKeeps, PTL DEF Spec

\* Every variable keeps to its type.
THEOREM DeliveryTypes == Spec => []TypeOK
<1>1. Max(AnswerSizes) = 3
    <2>1. AnswerSizes \in SUBSET (1 .. 3) /\ AnswerSizes # {} /\ 3 \in AnswerSizes
        BY DEF AnswerSizes
    <2>2. Max(AnswerSizes) \in AnswerSizes /\ 3 <= Max(AnswerSizes)
        BY <2>1, MaxOfSet
    <2> QED
        BY <2>2 DEF AnswerSizes
<1>2. DInv => TypeOK
    BY <1>1 DEF DInv, Typed, TypeOK
<1> QED
    BY <1>2, DeliveryInductive, PTL

\* The chunks that are sent are the text, each is short enough, and none is
\* blank, whatever the limit and the text (chunk_text()).
THEOREM SplitsLoseNothing == Spec => []SplitsWithoutLoss
<1>1. DInv => SplitsWithoutLoss
    <2> SUFFICES ASSUME DInv, at = "sending" PROVE AreChunksOf(chunks, text)
        BY DEF SplitsWithoutLoss
    <2>1. text \in Texts /\ chunks = ChunkText(text) /\ chunks # NoChunks
        BY DEF DInv, Delivering
    <2>2. text \in Seq(Characters)
        BY <2>1, DeliveryAssumption
    <2> QED
        BY <2>1, <2>2, ChunkTextIsSound
<1> QED
    BY <1>1, DeliveryInductive, PTL

\* The chat has the updates in their order, and the messages of each and
\* their chunks in their order, without a gap and none twice.
THEOREM InOrder == Spec => []AnswersArriveInOrder
<1>1. DInv => AnswersArriveInOrder
    BY DEF DInv
<1> QED
    BY <1>1, DeliveryInductive, PTL

\* The fate of an update tells what the user got of it.
THEOREM HonestFates == Spec => []FatesAreHonest
<1>1. DInv => FatesAreHonest
    BY DEF DInv
<1> QED
    BY <1>1, DeliveryInductive, PTL

\* chunk_text() does not give up on a text without as many blanks in a row
\* as a chunk is long.
THEOREM OrdinaryAreSent == Spec => OrdinaryTextsAreSent
<1>1. DInv /\ [Next]_vars
          => [at = "chunking" /\ IsOrdinary(text) => fates'[update] # "failed"]_vars
    <2> SUFFICES ASSUME DInv, Next, at = "chunking", IsOrdinary(text)
                 PROVE  fates'[update] # "failed"
        OBVIOUS
    <2>1. /\ text \in Texts /\ fates[update] = "pending" /\ Typed /\ InHand
        BY DEF DInv, Delivering, InHand
    <2>2. ChunkText(text) # NoChunks
        <3>1. text \in Seq(Characters) /\ IsTrimmed(text)
            BY <2>1, DeliveryAssumption
        <3> QED
            BY <3>1, OrdinaryTextsAreChunked
    <2>3. CASE Chunk
        BY <2>1, <2>2, <2>3 DEF Chunk
    <2>4. CASE Crash
        <3>1. End("crashed") /\ "crashed" \in Fates
            BY <2>4 DEF Crash, Fates
        <3>2. fates'[update] = "crashed"
            BY <2>1, <3>1, EndIs
        <3> QED
            BY <3>2
    <2>5. Chunk \/ Crash
        BY DEF Next, ReceiveUpdate, SendOnboarding, Submit, SendBusy, ServiceAnswers, ServiceFails,
           SendApology, SendChunk, EndMessage, HandOff
    <2> QED
        BY <2>3, <2>4, <2>5
<1> QED
    BY <1>1, DeliveryInductive, PTL DEF Spec, OrdinaryTextsAreSent

=============================================================================
