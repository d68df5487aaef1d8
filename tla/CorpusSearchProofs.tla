-------------------------- MODULE CorpusSearchProofs ---------------------------
(***************************************************************************)
(* Proofs about CorpusSearch and RetrievalEvaluation: a search stays in    *)
(* its scope, agrees with two rankings that agree, and has one answer; the *)
(* scores of the evaluation are sound and those of the searches it         *)
(* reports, and what it says of their rankings is true.                    *)
(*                                                                         *)
(* Each ranking is the one arrangement of its chunks that a total order    *)
(* allows.  An order is given by a function, from chunks to keys of three  *)
(* numbers; the chunk itself breaks ties.                                  *)
(***************************************************************************)
EXTENDS RetrievalEvaluation, SequenceTheorems, FiniteSetTheorems,
        WellFoundedInduction, TLAPS

\* A set of numbers with 0 and, for each of its members, the next one.
LEMMA NatSets ==
    ASSUME NEW T, T \subseteq Nat, 0 \in T, \A n \in T : n + 1 \in T
    PROVE  T = Nat
<1> SUFFICES ASSUME Nat \ T # {} PROVE FALSE
    OBVIOUS
<1>1. PICK m \in Nat \ T : \A y \in Nat \ T : ~(<<y, m>> \in OpToRel(<, Nat))
    BY NatLessThanWellFounded, WFMin
<1>2. m # 0 /\ m - 1 \in Nat /\ m - 1 < m
    OBVIOUS
<1>3. <<m - 1, m>> \in OpToRel(<, Nat)
    <2>1. <<m - 1, m>> \in Nat \X Nat /\ <<m - 1, m>>[1] < <<m - 1, m>>[2]
        BY <1>2
    <2> QED
        BY <2>1, Zenon DEF OpToRel
<1>4. m - 1 \in T
    BY <1>1, <1>2, <1>3
<1>5. m - 1 + 1 = m
    BY <1>2
<1> QED
    BY <1>1, <1>4, <1>5

-----------------------------------------------------------------------------
(* Orders, and the arrangements they allow.                                *)

Keys == [Chunks -> Int \X Int \X Int]

Precedes3(k, c, d) ==
    \/ k[c][1] < k[d][1]
    \/ k[c][1] = k[d][1] /\ k[c][2] < k[d][2]
    \/ k[c][1] = k[d][1] /\ k[c][2] = k[d][2] /\ k[c][3] < k[d][3]
    \/ k[c][1] = k[d][1] /\ k[c][2] = k[d][2] /\ k[c][3] = k[d][3] /\ c < d

Arranges(s, S, k) ==
    /\ s \in [1 .. Cardinality(S) -> S]
    /\ \A c \in S : \E i \in 1 .. Cardinality(S) : s[i] = c
    /\ \A i, j \in 1 .. Cardinality(S) : i < j => Precedes3(k, s[i], s[j])

Corpora == {S \in SUBSET Chunks : IsFiniteSet(S)}

\* The order is total and strict.
LEMMA OrderIsTotal ==
    ASSUME NEW k \in Keys, NEW c \in Chunks, NEW d \in Chunks
    PROVE  /\ ~Precedes3(k, c, c)
           /\ ~(Precedes3(k, c, d) /\ Precedes3(k, d, c))
           /\ c # d => Precedes3(k, c, d) \/ Precedes3(k, d, c)
<1>1. c \in Nat /\ d \in Nat
    BY ArtifactAssumption
<1>2. k[c] \in Int \X Int \X Int /\ k[d] \in Int \X Int \X Int
    BY DEF Keys
<1>3. /\ k[c][1] \in Int /\ k[c][2] \in Int /\ k[c][3] \in Int
      /\ k[d][1] \in Int /\ k[d][2] \in Int /\ k[d][3] \in Int
    BY <1>2
<1> QED
    BY <1>1, <1>3 DEF Precedes3

\* A finite set of chunks has Cardinality many.
LEMMA CorpusSize ==
    ASSUME NEW S \in Corpora
    PROVE  Cardinality(S) \in Nat
BY FS_CardinalityType DEF Corpora

\* What sorting by an order finds is an arrangement.
LEMMA SortedIsArranged ==
    ASSUME NEW S \in Corpora, NEW k \in Keys, NEW s \in SetToSeqs(S),
           \A i, j \in DOMAIN s : i < j => ~Precedes3(k, s[j], s[i])
    PROVE  Arranges(s, S, k)
<1> DEFINE n == Cardinality(S)
<1>1. n \in Nat /\ IsFiniteSet(S) /\ S \subseteq Chunks
    BY CorpusSize DEF Corpora
<1>2. s \in [1 .. n -> S] /\ \A i, j \in 1 .. n : i # j => s[i] # s[j]
    BY DEF SetToSeqs
<1> HIDE DEF n
<1>3. \A c \in S : \E i \in 1 .. n : s[i] = c
    <2>1. s \in Injection(1 .. n, S)
        BY <1>2 DEF Injection, IsInjective
    <2>2. IsFiniteSet(1 .. n) /\ Cardinality(1 .. n) = n
        BY <1>1, FS_Interval
    <2>3. s \in Surjection(1 .. n, S)
        BY <1>1, <2>1, <2>2, FS_Injection DEF n
    <2> QED
        BY <2>3 DEF Surjection
<1>4. ASSUME NEW i \in 1 .. n, NEW j \in 1 .. n, i < j PROVE Precedes3(k, s[i], s[j])
    <2>1. s[i] \in Chunks /\ s[j] \in Chunks /\ s[i] # s[j] /\ DOMAIN s = 1 .. n
        BY <1>1, <1>2, <1>4
    <2>2. ~Precedes3(k, s[j], s[i])
        BY <1>4, <2>1
    <2> QED
        BY <2>1, <2>2, OrderIsTotal
<1> QED
    BY <1>2, <1>3, <1>4 DEF Arranges, n

\* The chunks of an arrangement, and where they are.
LEMMA ArrangedPlaces ==
    ASSUME NEW S \in Corpora, NEW k \in Keys, NEW s, Arranges(s, S, k)
    PROVE  /\ Cardinality(S) \in Nat /\ s \in Seq(S) /\ Len(s) = Cardinality(S)
           /\ DOMAIN s = 1 .. Len(s) /\ ToSet(s) = S
           /\ \A i \in 1 .. Len(s) : s[i] \in S /\ s[i] \in Chunks
           /\ \A i, j \in 1 .. Len(s) :
                  /\ s[i] = s[j] => i = j
                  /\ Precedes3(k, s[i], s[j]) => i < j
                  /\ i < j => Precedes3(k, s[i], s[j])
<1>1. Cardinality(S) \in Nat /\ S \subseteq Chunks
    BY CorpusSize DEF Corpora
<1>2. s \in [1 .. Cardinality(S) -> S]
    BY DEF Arranges
<1>3. s \in Seq(S) /\ Len(s) = Cardinality(S) /\ DOMAIN s = 1 .. Len(s)
    BY <1>1, <1>2
<1>4. \A i \in 1 .. Len(s) : s[i] \in S /\ s[i] \in Chunks
    BY <1>1, <1>2, <1>3
<1>5. ToSet(s) = S
    BY <1>3, <1>4 DEF Arranges, ToSet
<1>6. ASSUME NEW i \in 1 .. Len(s), NEW j \in 1 .. Len(s)
      PROVE  /\ s[i] = s[j] => i = j
             /\ Precedes3(k, s[i], s[j]) => i < j
             /\ i < j => Precedes3(k, s[i], s[j])
    <2>1. /\ i < j => Precedes3(k, s[i], s[j])
          /\ j < i => Precedes3(k, s[j], s[i])
        BY <1>3 DEF Arranges
    <2>2. /\ ~Precedes3(k, s[i], s[i]) /\ ~Precedes3(k, s[j], s[j])
          /\ ~(Precedes3(k, s[i], s[j]) /\ Precedes3(k, s[j], s[i]))
        BY <1>4, OrderIsTotal
    <2>3. i < j \/ j < i \/ i = j
        BY <1>1, <1>3
    <2> QED
        BY <2>1, <2>2, <2>3
<1> QED
    BY <1>1, <1>3, <1>4, <1>5, <1>6

\* There is only one.
LEMMA ArrangedOnce ==
    ASSUME NEW S \in Corpora, NEW k \in Keys, NEW s, NEW t,
           Arranges(s, S, k), Arranges(t, S, k)
    PROVE  s = t
<1> DEFINE n == Cardinality(S)
<1>1. /\ n \in Nat /\ s \in Seq(S) /\ t \in Seq(S) /\ Len(s) = n /\ Len(t) = n
      /\ \A i \in 1 .. n : s[i] \in S /\ t[i] \in S /\ s[i] \in Chunks /\ t[i] \in Chunks
      /\ \A i, j \in 1 .. n : (s[i] = s[j] => i = j) /\ (t[i] = t[j] => i = j)
      /\ \A i, j \in 1 .. n : i < j => Precedes3(k, s[i], s[j]) /\ Precedes3(k, t[i], t[j])
    BY ArrangedPlaces
<1>2. \A c \in S : (\E i \in 1 .. n : s[i] = c) /\ (\E i \in 1 .. n : t[i] = c)
    BY DEF Arranges
<1> HIDE DEF n
<1> DEFINE T == {m \in Nat : \A i \in 1 .. n : i <= m => s[i] = t[i]}
<1>3. 0 \in T
    OBVIOUS
<1>4. ASSUME NEW m \in T PROVE m + 1 \in T
    <2> SUFFICES ASSUME NEW i \in 1 .. n, i = m + 1 PROVE s[i] = t[i]
        BY <1>4
    <2>1. PICK a \in 1 .. n : t[a] = s[i]
        BY <1>1, <1>2
    <2>2. PICK b \in 1 .. n : s[b] = t[i]
        BY <1>1, <1>2
    <2>3. i <= a
        <3> SUFFICES ASSUME a < i PROVE FALSE
            BY <1>1
        <3>1. s[a] = t[a]
            BY <1>4
        <3> QED
            BY <1>1, <2>1, <3>1
    <2>4. i <= b
        <3> SUFFICES ASSUME b < i PROVE FALSE
            BY <1>1
        <3>1. s[b] = t[b]
            BY <1>4
        <3>2. t[b] = t[i]
            BY <2>2, <3>1
        <3>3. b = i
            BY <1>1, <3>2
        <3> QED
            BY <1>1, <3>3
    <2>5. i # a => Precedes3(k, t[i], s[i])
        BY <1>1, <2>1, <2>3
    <2>6. i # b => Precedes3(k, s[i], t[i])
        BY <1>1, <2>2, <2>4
    <2>7. ~(Precedes3(k, t[i], s[i]) /\ Precedes3(k, s[i], t[i]))
        BY <1>1, OrderIsTotal
    <2> QED
        BY <2>1, <2>2, <2>5, <2>6, <2>7
<1>5. T = Nat
    <2>1. T \subseteq Nat
        OBVIOUS
    <2> HIDE DEF T
    <2> QED
        BY <1>3, <1>4, <2>1, NatSets
<1>6. \A i \in 1 .. n : s[i] = t[i]
    <2>1. n \in T
        BY <1>1, <1>5
    <2> QED
        BY <1>1, <2>1
<1> QED
    BY <1>1, <1>6, SeqEqual

\* The beginning of a ranking.
LEMMA TopIs ==
    ASSUME NEW S, NEW s \in Seq(S), NEW depth \in Nat
    PROVE  /\ Top(s, depth) \in Seq(S)
           /\ Len(Top(s, depth)) \in Nat /\ Len(Top(s, depth)) <= depth
           /\ Len(Top(s, depth)) <= Len(s)
           /\ \A i \in 1 .. Len(s) : i <= depth => i <= Len(Top(s, depth))
           /\ DOMAIN Top(s, depth) = 1 .. Len(Top(s, depth))
           /\ \A i \in 1 .. Len(Top(s, depth)) : Top(s, depth)[i] = s[i]
           /\ ToSet(Top(s, depth)) \subseteq S
<1> DEFINE n == IF Len(s) < depth THEN Len(s) ELSE depth
<1>1. n \in Nat /\ n <= Len(s) /\ n <= depth /\ \A i \in 1 .. Len(s) : i <= depth => i <= n
    BY LenProperties
<1>2. Len(s) \in Nat
    BY LenProperties
<1> HIDE DEF n
<1>3. \A i \in 1 .. n : s[i] \in S
    BY <1>1, <1>2, ElementOfSeq
<1>4. /\ SubSeq(s, 1, n) \in Seq(S) /\ Len(SubSeq(s, 1, n)) = n
      /\ \A i \in 1 .. n : SubSeq(s, 1, n)[i] = s[i]
    BY <1>1, <1>3, SubSeqProperties
<1>5. Top(s, depth) = SubSeq(s, 1, n)
    BY DEF Top, n
<1>6. DOMAIN SubSeq(s, 1, n) = 1 .. n
    BY <1>4
<1> QED
    BY <1>1, <1>3, <1>4, <1>5, <1>6 DEF ToSet

-----------------------------------------------------------------------------
(* Recursive functions of a number satisfy their equations.                *)

RecursionBody(f, base, step, n) == IF n = 0 THEN base ELSE step[<<n, f[n - 1]>>]
SolvesTo(f, base, step, n) == \A i \in 0 .. n : f[i] = RecursionBody(f, base, step, i)

\* The equation has a solution up to every number ...
LEMMA SolutionsExist ==
    ASSUME NEW base, NEW step
    PROVE  \A n \in Nat : \E f : SolvesTo(f, base, step, n)
<1> DEFINE T == {n \in Nat : \E f : SolvesTo(f, base, step, n)}
<1>1. 0 \in T
    <2> DEFINE g == [i \in {0} |-> base]
    <2>1. \A i \in 0 .. 0 : i = 0 /\ g[i] = base
        OBVIOUS
    <2> HIDE DEF g
    <2>2. SolvesTo(g, base, step, 0)
        BY <2>1 DEF SolvesTo, RecursionBody
    <2> QED
        BY <2>2
<1>2. ASSUME NEW n \in T PROVE n + 1 \in T
    <2>1. PICK f : SolvesTo(f, base, step, n)
        BY <1>2
    <2> DEFINE g == [i \in 0 .. n + 1 |->
                        IF i <= n THEN f[i] ELSE RecursionBody(f, base, step, i)]
    <2>2. \A i \in 0 .. n + 1 : g[i] = IF i <= n THEN f[i] ELSE RecursionBody(f, base, step, i)
        OBVIOUS
    <2>3. n \in Nat /\ n + 1 \in Nat
        BY <1>2
    <2> HIDE DEF g
    <2>4. ASSUME NEW i \in 0 .. n + 1 PROVE g[i] = RecursionBody(g, base, step, i)
        <3>1. g[i] = RecursionBody(f, base, step, i)
            <4>1. i <= n => i \in 0 .. n
                BY <2>3
            <4> QED
                BY <2>1, <2>2, <4>1 DEF SolvesTo
        <3>2. i # 0 => f[i - 1] = g[i - 1]
            <4>1. i # 0 => i - 1 \in 0 .. n + 1 /\ i - 1 <= n
                BY <2>3
            <4> QED
                BY <2>2, <4>1
        <3> QED
            BY <3>1, <3>2 DEF RecursionBody
    <2>5. SolvesTo(g, base, step, n + 1)
        BY <2>4 DEF SolvesTo
    <2> QED
        BY <2>3, <2>5
<1>3. T = Nat
    <2>1. T \subseteq Nat
        OBVIOUS
    <2> HIDE DEF T
    <2> QED
        BY <1>1, <1>2, <2>1, NatSets
<1> QED
    BY <1>3

\* ... and only one, ...
LEMMA SolutionsAgree ==
    ASSUME NEW base, NEW step
    PROVE  \A n \in Nat : \A f, g :
               SolvesTo(f, base, step, n) /\ SolvesTo(g, base, step, n) => f[n] = g[n]
<1> DEFINE Agree(n) ==
               \A f, g : SolvesTo(f, base, step, n) /\ SolvesTo(g, base, step, n) => f[n] = g[n]
           T == {n \in Nat : Agree(n)}
<1>1. 0 \in T
    <2> SUFFICES ASSUME NEW f, NEW g, SolvesTo(f, base, step, 0), SolvesTo(g, base, step, 0)
                 PROVE  f[0] = g[0]
        OBVIOUS
    <2> QED
        BY DEF SolvesTo, RecursionBody
<1>2. ASSUME NEW n \in T PROVE n + 1 \in T
    <2> SUFFICES ASSUME NEW m, m = n + 1, NEW f, NEW g,
                        SolvesTo(f, base, step, m), SolvesTo(g, base, step, m)
                 PROVE  f[m] = g[m]
        BY <1>2
    <2>1. n \in Nat /\ m \in 0 .. m /\ m # 0 /\ m - 1 = n /\ \A i \in 0 .. n : i \in 0 .. m
        BY <1>2
    <2>2. SolvesTo(f, base, step, n) /\ SolvesTo(g, base, step, n)
        BY <2>1 DEF SolvesTo
    <2>3. f[m - 1] = g[m - 1]
        BY <1>2, <2>1, <2>2
    <2> QED
        BY <2>1, <2>3 DEF SolvesTo, RecursionBody
<1>3. T = Nat
    <2>1. T \subseteq Nat
        OBVIOUS
    <2> HIDE DEF T
    <2> QED
        BY <1>1, <1>2, <2>1, NatSets
<1> QED
    BY <1>3

\* ... so that it has one for all numbers, whose values are numbers.
LEMMA RecursionHasSolution ==
    ASSUME NEW base \in Nat, NEW step \in [Nat \X Nat -> Nat]
    PROVE  \E g \in [Nat -> Nat] : \A n \in Nat : g[n] = RecursionBody(g, base, step, n)
<1> DEFINE Solution(n) == CHOOSE f : SolvesTo(f, base, step, n)
           F == [n \in Nat |-> Solution(n)[n]]
<1>1. \A n \in Nat : SolvesTo(Solution(n), base, step, n)
    BY SolutionsExist
<1>2. \A n \in Nat : F[n] = Solution(n)[n]
    OBVIOUS
<1>3. F = [n \in Nat |-> F[n]]
    OBVIOUS
<1> HIDE DEF Solution, F
<1>4. ASSUME NEW n \in Nat PROVE F[n] = RecursionBody(F, base, step, n)
    <2> DEFINE f == Solution(n)
    <2>1. SolvesTo(f, base, step, n) /\ F[n] = f[n]
        BY <1>1, <1>2
    <2> HIDE DEF f
    <2>2. f[n] = RecursionBody(f, base, step, n)
        BY <2>1 DEF SolvesTo
    <2>3. n # 0 => f[n - 1] = F[n - 1]
        <3> SUFFICES ASSUME NEW m \in Nat, n = m + 1 PROVE f[m] = F[m]
            <4>1. n # 0 => n - 1 \in Nat /\ n = n - 1 + 1
                OBVIOUS
            <4> QED
                BY <4>1
        <3>1. SolvesTo(f, base, step, m)
            BY <2>1 DEF SolvesTo
        <3> QED
            BY <1>1, <1>2, <3>1, SolutionsAgree
    <2> QED
        BY <2>1, <2>2, <2>3 DEF RecursionBody
<1> DEFINE T == {n \in Nat : F[n] \in Nat}
<1>5. 0 \in T
    BY <1>4 DEF RecursionBody
<1>6. ASSUME NEW n \in T PROVE n + 1 \in T
    <2>1. n \in Nat /\ n + 1 \in Nat /\ n + 1 # 0 /\ n + 1 - 1 = n
        BY <1>6
    <2>2. F[n + 1] = step[<<n + 1, F[n]>>]
        BY <1>4, <2>1 DEF RecursionBody
    <2> QED
        BY <1>6, <2>1, <2>2
<1>7. T = Nat
    <2>1. T \subseteq Nat
        OBVIOUS
    <2> HIDE DEF T
    <2> QED
        BY <1>5, <1>6, <2>1, NatSets
<1>8. F \in [Nat -> Nat]
    BY <1>3, <1>7
<1> QED
    BY <1>4, <1>8

DenominatorBody(f, n) == IF n = 0 THEN 1 ELSE (RRFK + n) * f[n - 1]

\* Denominator is such a function.
LEMMA DenominatorIs == \A n \in Nat : Denominator[n] = DenominatorBody(Denominator, n)
<1> DEFINE Times(n, v) == (RRFK + n) * v
           step == [x \in Nat \X Nat |-> Times(x[1], x[2])]
<1>1. \A n, v \in Nat : Times(n, v) \in Nat
    BY DepthAssumption DEF DepthsAreValid
<1>2. \A n, v : Times(n, v) = (RRFK + n) * v
    OBVIOUS
<1> HIDE DEF Times
<1>3. step \in [Nat \X Nat -> Nat] /\ \A n, v \in Nat : step[<<n, v>>] = Times(n, v)
    BY <1>1
<1> HIDE DEF step
<1>4. PICK g \in [Nat -> Nat] : \A n \in Nat : g[n] = RecursionBody(g, 1, step, n)
    BY <1>3, RecursionHasSolution
<1>5. ASSUME NEW n \in Nat PROVE g[n] = DenominatorBody(g, n)
    <2>1. n # 0 => n - 1 \in Nat
        OBVIOUS
    <2>2. n # 0 => g[n - 1] \in Nat
        BY <2>1
    <2> QED
        BY <1>2, <1>3, <1>4, <2>2 DEF RecursionBody, DenominatorBody
<1>6. g = [n \in Nat |-> DenominatorBody(g, n)]
    BY <1>5
<1>7. \E f : f = [n \in Nat |-> DenominatorBody(f, n)]
    BY <1>6
<1>8. Denominator = [n \in Nat |-> DenominatorBody(Denominator, n)]
    BY <1>7 DEF Denominator, DenominatorBody
<1> QED
    BY <1>8

-----------------------------------------------------------------------------
(* The reciprocals of the fusion are exact, and fall with the rank.        *)

\* A product of positive numbers is one.
LEMMA ProductIsPositive ==
    ASSUME NEW a \in Nat \ {0}, NEW b \in Nat \ {0}
    PROVE  a * b \in Nat \ {0}
OBVIOUS

\* Of two products that are equal, the one with the larger factor has the
\* smaller other one.
LEMMA LargerFactor ==
    ASSUME NEW a \in Nat \ {0}, NEW b \in Nat \ {0}, NEW p \in Nat \ {0}, NEW q \in Nat \ {0},
           p * a = q * b, a < b
    PROVE  q < p
<1> SUFFICES ASSUME p <= q PROVE FALSE
    OBVIOUS
<1>1. PICK d \in Nat \ {0} : b = a + d
    <2>1. b - a \in Nat \ {0} /\ b = a + (b - a)
        OBVIOUS
    <2> QED
        BY <2>1
<1>2. PICK e \in Nat : q = p + e
    <2>1. q - p \in Nat /\ q = p + (q - p)
        OBVIOUS
    <2> QED
        BY <2>1
<1>3. q * b = q * a + q * d
    BY <1>1
<1>4. q * a = p * a + e * a
    BY <1>2
<1>5. q * d \in Nat \ {0} /\ e * a \in Nat /\ p * a \in Nat
    BY ProductIsPositive
<1> QED
    BY <1>3, <1>4, <1>5

\* Every rank up to n divides the denominator.
LEMMA RanksDivide ==
    \A n \in Nat :
        /\ Denominator[n] \in Nat \ {0}
        /\ \A r \in 1 .. n : \E q \in Nat \ {0} : Denominator[n] = q * (RRFK + r)
<1> DEFINE Divided(n) ==
               /\ Denominator[n] \in Nat \ {0}
               /\ \A r \in 1 .. n : \E q \in Nat \ {0} : Denominator[n] = q * (RRFK + r)
           T == {n \in Nat : Divided(n)}
<1>0. RRFK \in Nat \ {0}
    BY DepthAssumption DEF DepthsAreValid
<1>1. 0 \in T
    <2>1. Denominator[0] = 1
        BY DenominatorIs DEF DenominatorBody
    <2> QED
        BY <2>1
<1>2. ASSUME NEW n \in T PROVE n + 1 \in T
    <2> SUFFICES ASSUME NEW m, m = n + 1 PROVE Divided(m)
        BY <1>2
    <2> DEFINE D == Denominator[n]
    <2>1. n \in Nat /\ m \in Nat /\ m # 0 /\ m - 1 = n /\ RRFK + m \in Nat \ {0}
        BY <1>0, <1>2
    <2>2. D \in Nat \ {0}
        BY <1>2
    <2>3. \A r \in 1 .. n : \E q \in Nat \ {0} : D = q * (RRFK + r)
        BY <1>2
    <2>4. Denominator[m] = (RRFK + m) * D
        BY <2>1, DenominatorIs DEF DenominatorBody
    <2> HIDE DEF D
    <2>5. Denominator[m] \in Nat \ {0}
        BY <2>1, <2>2, <2>4, ProductIsPositive
    <2>6. ASSUME NEW r \in 1 .. m
          PROVE  \E q \in Nat \ {0} : Denominator[m] = q * (RRFK + r)
        <3>1. CASE r = m
            <4>1. (RRFK + m) * D = D * (RRFK + m)
                BY <2>1, <2>2
            <4> QED
                BY <2>2, <2>4, <3>1, <4>1
        <3>2. CASE r # m
            <4>1. r \in 1 .. n
                BY <2>1, <3>2
            <4>2. PICK q \in Nat \ {0} : D = q * (RRFK + r)
                BY <2>3, <4>1
            <4>3. (RRFK + m) * q \in Nat \ {0}
                BY <2>1, <4>2, ProductIsPositive
            <4>4. (RRFK + m) * (q * (RRFK + r)) = ((RRFK + m) * q) * (RRFK + r)
                <5>1. \A x, y, z \in Nat : x * (y * z) = (x * y) * z
                    OBVIOUS
                <5>2. RRFK + r \in Nat
                    BY <1>0, <4>1
                <5> QED
                    BY <2>1, <5>1, <5>2
            <4> QED
                BY <2>4, <4>2, <4>3, <4>4
        <3> QED
            BY <3>1, <3>2
    <2> QED
        BY <2>5, <2>6
<1>3. T = Nat
    <2>1. T \subseteq Nat
        OBVIOUS
    <2> HIDE DEF T
    <2> QED
        BY <1>1, <1>2, <2>1, NatSets
<1> QED
    BY <1>3

MaxDepth == IF DenseDepth > BM25Depth THEN DenseDepth ELSE BM25Depth

\* A reciprocal is a number, and a better rank has a larger one.
LEMMA ReciprocalsFall ==
    ASSUME NEW i \in 1 .. MaxDepth
    PROVE  /\ Reciprocal(i) \in Nat \ {0}
           /\ \A j \in 1 .. MaxDepth : i < j => Reciprocal(j) < Reciprocal(i)
<1>0. RRFK \in Nat \ {0} /\ MaxDepth \in Nat
    BY DepthAssumption DEF DepthsAreValid, MaxDepth
<1> DEFINE D == Denominator[MaxDepth]
<1>1. \A r \in 1 .. MaxDepth : \E q \in Nat \ {0} : D = q * (RRFK + r)
    BY <1>0, RanksDivide
<1> HIDE DEF D
<1>2. ASSUME NEW r \in 1 .. MaxDepth
      PROVE  Reciprocal(r) \in Nat \ {0} /\ D = Reciprocal(r) * (RRFK + r)
    <2>1. PICK q \in Nat \ {0} : D = q * (RRFK + r)
        BY <1>1
    <2>2. RRFK + r \in Nat \ {0}
        BY <1>0
    <2>3. \A x \in Nat, y \in Nat \ {0} : (x * y) \div y = x
        OBVIOUS
    <2>4. D \div (RRFK + r) = q
        BY <2>1, <2>2, <2>3
    <2>5. Reciprocal(r) = D \div (RRFK + r)
        BY DEF Reciprocal, D, MaxDepth
    <2> QED
        BY <2>1, <2>4, <2>5
<1>3. ASSUME NEW j \in 1 .. MaxDepth, i < j PROVE Reciprocal(j) < Reciprocal(i)
    <2>1. RRFK + i \in Nat \ {0} /\ RRFK + j \in Nat \ {0} /\ RRFK + i < RRFK + j
        BY <1>0, <1>3
    <2>2. Reciprocal(i) * (RRFK + i) = Reciprocal(j) * (RRFK + j)
        BY <1>2
    <2> QED
        BY <1>2, <2>1, <2>2, LargerFactor
<1> QED
    BY <1>2, <1>3

-----------------------------------------------------------------------------
(* The stages of a search are arrangements.                                *)

IsRelevance(rel) == {rel.dense, rel.bm25, rel.cross} \subseteq [Chunks -> Int]

DenseKeys(rel) == [c \in Chunks |-> <<-rel.dense[c], 0, 0>>]
BM25Keys(rel) == [c \in Chunks |-> <<-rel.bm25[c], 0, 0>>]
FusedKeys(dense, bm25) == [c \in Chunks |-> <<-RRFScore(dense, bm25, c), 0, 0>>]
FinalKeys(rel, request, dense, bm25) ==
    [c \in Chunks |->
        <<IF request.rerank THEN -rel.cross[c] ELSE -RRFScore(dense, bm25, c),
          -RRFScore(dense, bm25, c),
          IF request.preferRecent THEN -TimeOf[c] ELSE 0>>]

\* The rankings behind the stages, before they are cut off.
Arranged(rel, request, chunks, st, full) ==
    LET corpus == Eligible(request, chunks) IN
    /\ Arranges(full.dense, corpus, DenseKeys(rel))
    /\ Arranges(full.bm25, corpus, BM25Keys(rel))
    /\ st.dense = Top(full.dense, DenseDepth)
    /\ st.bm25 = Top(full.bm25, BM25Depth)
    /\ Arranges(full.fused, ToSet(st.dense) \cup ToSet(st.bm25), FusedKeys(st.dense, st.bm25))
    /\ st.fused = Top(full.fused, FusedDepth)
    /\ Arranges(full.final, ToSet(Candidates(request, st.fused)),
                FinalKeys(rel, request, st.dense, st.bm25))
    /\ st.results = Top(full.final, request.topK)

\* Sort keys of two numbers and of four are compared from left to right.
LEMMA BeforeTwo ==
    ASSUME NEW a \in Int, NEW b \in Int, NEW c \in Int, NEW d \in Int
    PROVE  Before(<<a, b>>, <<c, d>>) <=> a < c \/ (a = c /\ b < d)
<1> DEFINE x == <<a, b>>  y == <<c, d>>
<1>1. DOMAIN x = 1 .. 2 /\ x[1] = a /\ x[2] = b /\ y[1] = c /\ y[2] = d
    OBVIOUS
<1> HIDE DEF x, y
<1>2. Before(x, y) <=> \E i \in 1 .. 2 : x[i] < y[i] /\ \A k \in 1 .. i - 1 : x[k] = y[k]
    BY <1>1 DEF Before
<1>3. 1 .. 1 - 1 = {} /\ 1 .. 2 - 1 = {1} /\ 1 .. 2 = {1, 2}
    OBVIOUS
<1>4. Before(x, y) <=> x[1] < y[1] \/ (x[2] < y[2] /\ x[1] = y[1])
    BY <1>2, <1>3
<1>5. Before(x, y) <=> a < c \/ (a = c /\ b < d)
    BY <1>1, <1>4
<1> QED
    BY <1>5 DEF x, y

\* Sort keys of four numbers.
LEMMA BeforeFour ==
    ASSUME NEW x, NEW y, DOMAIN x = 1 .. 4,
           \A i \in 1 .. 4 : x[i] \in Int /\ y[i] \in Int
    PROVE  Before(x, y)
           <=> \/ x[1] < y[1]
               \/ x[1] = y[1] /\ x[2] < y[2]
               \/ x[1] = y[1] /\ x[2] = y[2] /\ x[3] < y[3]
               \/ x[1] = y[1] /\ x[2] = y[2] /\ x[3] = y[3] /\ x[4] < y[4]
<1>1. Before(x, y) <=> \E i \in 1 .. 4 : x[i] < y[i] /\ \A k \in 1 .. i - 1 : x[k] = y[k]
    BY DEF Before
<1>2. /\ 1 .. 1 - 1 = {} /\ 1 .. 2 - 1 = {1} /\ 1 .. 3 - 1 = {1, 2} /\ 1 .. 4 - 1 = {1, 2, 3}
      /\ 1 .. 4 = {1, 2, 3, 4}
    OBVIOUS
<1> QED
    BY <1>1, <1>2

\* The rank of a chunk is where it is.
LEMMA RankIs ==
    ASSUME NEW S, NEW s \in Seq(S), NEW c \in ToSet(s)
    PROVE  Rank(s, c) \in 1 .. Len(s) /\ s[Rank(s, c)] = c
<1>1. DOMAIN s = 1 .. Len(s)
    BY LenProperties
<1>2. \E i \in DOMAIN s : s[i] = c
    BY DEF ToSet
<1> QED
    BY <1>1, <1>2 DEF Rank

\* A ranking as deep as the retriever makes it.
Rankings == {s \in Seq(Chunks) : Len(s) <= MaxDepth}

\* Such a ranking adds a number to a score.
LEMMA ScoresAreNumbers ==
    ASSUME NEW dense \in Rankings, NEW bm25 \in Rankings
    PROVE  \A c : /\ Contribution(dense, c) \in Nat /\ Contribution(bm25, c) \in Nat
                  /\ RRFScore(dense, bm25, c) \in Nat
<1>1. ASSUME NEW s \in Rankings, NEW c PROVE Contribution(s, c) \in Nat
    <2>1. c \in ToSet(s) => Rank(s, c) \in 1 .. Len(s)
        BY RankIs DEF Rankings
    <2>2. Len(s) \in Nat /\ Len(s) <= MaxDepth /\ MaxDepth \in Nat
        BY DepthAssumption, LenProperties DEF Rankings, DepthsAreValid, MaxDepth
    <2>3. c \in ToSet(s) => Rank(s, c) \in 1 .. MaxDepth
        BY <2>1, <2>2
    <2>4. c \in ToSet(s) => Reciprocal(Rank(s, c)) \in Nat
        BY <2>3, ReciprocalsFall
    <2> QED
        BY <2>4 DEF Contribution
<1> QED
    BY <1>1 DEF RRFScore

\* What is cut off at the depth of a branch.
LEMMA TopIsRanking ==
    ASSUME NEW s \in Seq(Chunks)
    PROVE  Top(s, DenseDepth) \in Rankings /\ Top(s, BM25Depth) \in Rankings
<1>1. DenseDepth \in Nat /\ BM25Depth \in Nat
    BY DepthAssumption DEF DepthsAreValid
<1>2. /\ Top(s, DenseDepth) \in Seq(Chunks) /\ Len(Top(s, DenseDepth)) \in Nat
      /\ Len(Top(s, DenseDepth)) <= DenseDepth
      /\ Top(s, BM25Depth) \in Seq(Chunks) /\ Len(Top(s, BM25Depth)) \in Nat
      /\ Len(Top(s, BM25Depth)) <= BM25Depth
    BY <1>1, TopIs
<1> QED
    BY <1>1, <1>2 DEF Rankings, MaxDepth

\* The keys are keys.
LEMMA KeysAreKeys ==
    ASSUME NEW rel, IsRelevance(rel), NEW request, NEW dense \in Rankings, NEW bm25 \in Rankings
    PROVE  /\ DenseKeys(rel) \in Keys /\ BM25Keys(rel) \in Keys
           /\ FusedKeys(dense, bm25) \in Keys
           /\ FinalKeys(rel, request, dense, bm25) \in Keys
<1>1. \A c \in Chunks : -rel.dense[c] \in Int /\ -rel.bm25[c] \in Int /\ -rel.cross[c] \in Int
    BY DEF IsRelevance
<1>6. \A c \in Chunks : -TimeOf[c] \in Int
    <2>1. \A c \in Chunks : TimeOf[c] \in Nat
        BY ArtifactAssumption
    <2> QED
        BY <2>1
<1>2. \A c \in Chunks : -RRFScore(dense, bm25, c) \in Int
    BY ScoresAreNumbers
<1>3. DenseKeys(rel) \in Keys /\ BM25Keys(rel) \in Keys
    BY <1>1 DEF DenseKeys, BM25Keys, Keys
<1>4. FusedKeys(dense, bm25) \in Keys
    BY <1>2 DEF FusedKeys, Keys
<1>5. FinalKeys(rel, request, dense, bm25) \in Keys
    <2>1. \A c \in Chunks :
              /\ (IF request.rerank THEN -rel.cross[c] ELSE -RRFScore(dense, bm25, c)) \in Int
              /\ (IF request.preferRecent THEN -TimeOf[c] ELSE 0) \in Int
        BY <1>1, <1>2, <1>6
    <2> QED
        BY <1>2, <2>1 DEF FinalKeys, Keys
<1> QED
    BY <1>3, <1>4, <1>5

\* The tuples the code compares are in the order of the keys.
LEMMA DenseOrder ==
    ASSUME IsRelevance(relevance), NEW c \in Chunks, NEW d \in Chunks
    PROVE  /\ Before(DenseKey(c), DenseKey(d)) <=> Precedes3(DenseKeys(relevance), c, d)
           /\ Before(BM25Key(c), BM25Key(d)) <=> Precedes3(BM25Keys(relevance), c, d)
<1> DEFINE Dense(x) == -relevance.dense[x]  BM25(x) == -relevance.bm25[x]
           k == DenseKeys(relevance)  l == BM25Keys(relevance)
<1>1. \A x \in Chunks : Dense(x) \in Int /\ BM25(x) \in Int /\ x \in Int
    BY ArtifactAssumption DEF IsRelevance
<1>2. \A x \in Chunks : k[x] = <<Dense(x), 0, 0>> /\ l[x] = <<BM25(x), 0, 0>>
    BY DEF DenseKeys, BM25Keys
<1>3. \A x : DenseKey(x) = <<Dense(x), x>> /\ BM25Key(x) = <<BM25(x), x>>
    BY DEF DenseKey, BM25Key
<1> HIDE DEF Dense, BM25, k, l
<1>4. Before(<<Dense(c), c>>, <<Dense(d), d>>)
      <=> Dense(c) < Dense(d) \/ (Dense(c) = Dense(d) /\ c < d)
    BY <1>1, BeforeTwo
<1>5. Before(<<BM25(c), c>>, <<BM25(d), d>>)
      <=> BM25(c) < BM25(d) \/ (BM25(c) = BM25(d) /\ c < d)
    BY <1>1, BeforeTwo
<1>6. /\ k[c][1] = Dense(c) /\ k[c][2] = 0 /\ k[c][3] = 0
      /\ k[d][1] = Dense(d) /\ k[d][2] = 0 /\ k[d][3] = 0
      /\ l[c][1] = BM25(c) /\ l[c][2] = 0 /\ l[c][3] = 0
      /\ l[d][1] = BM25(d) /\ l[d][2] = 0 /\ l[d][3] = 0
    BY <1>2
<1>7. /\ Before(DenseKey(c), DenseKey(d)) <=> Precedes3(k, c, d)
      /\ Before(BM25Key(c), BM25Key(d)) <=> Precedes3(l, c, d)
    BY <1>3, <1>4, <1>5, <1>6 DEF Precedes3
<1> QED
    BY <1>7 DEF k, l

\* The tuple of the fusion is in the order of its key ...
LEMMA FusedOrder ==
    ASSUME NEW dense \in Rankings, NEW bm25 \in Rankings, NEW c \in Chunks, NEW d \in Chunks
    PROVE  Before(FusedKey(dense, bm25, c), FusedKey(dense, bm25, d))
           <=> Precedes3(FusedKeys(dense, bm25), c, d)
<1> DEFINE Score(x) == -RRFScore(dense, bm25, x)  k == FusedKeys(dense, bm25)
<1>1. \A x \in Chunks : Score(x) \in Int /\ x \in Int
    BY ArtifactAssumption, ScoresAreNumbers
<1>2. \A x \in Chunks : k[x] = <<Score(x), 0, 0>>
    BY DEF FusedKeys
<1>3. \A x : FusedKey(dense, bm25, x) = <<Score(x), x>>
    BY DEF FusedKey
<1> HIDE DEF Score, k
<1>4. Before(<<Score(c), c>>, <<Score(d), d>>)
      <=> Score(c) < Score(d) \/ (Score(c) = Score(d) /\ c < d)
    BY <1>1, BeforeTwo
<1>5. /\ k[c][1] = Score(c) /\ k[c][2] = 0 /\ k[c][3] = 0
      /\ k[d][1] = Score(d) /\ k[d][2] = 0 /\ k[d][3] = 0
    BY <1>2
<1>6. Before(FusedKey(dense, bm25, c), FusedKey(dense, bm25, d)) <=> Precedes3(k, c, d)
    BY <1>3, <1>4, <1>5 DEF Precedes3
<1> QED
    BY <1>6 DEF k

\* ... and so is that of the final order.
LEMMA FinalOrder ==
    ASSUME IsRelevance(relevance), NEW request, NEW dense \in Rankings, NEW bm25 \in Rankings,
           NEW c \in Chunks, NEW d \in Chunks
    PROVE  Before(FinalKey(request, dense, bm25, c), FinalKey(request, dense, bm25, d))
           <=> Precedes3(FinalKeys(relevance, request, dense, bm25), c, d)
<1> DEFINE First1(x) == IF request.rerank THEN -relevance.cross[x] ELSE -RRFScore(dense, bm25, x)
           Third(x) == IF request.preferRecent THEN -TimeOf[x] ELSE 0
           Score(x) == -RRFScore(dense, bm25, x)
           k == FinalKeys(relevance, request, dense, bm25)
<1>1. \A x \in Chunks : x \in Int /\ First1(x) \in Int /\ Score(x) \in Int /\ Third(x) \in Int
    <2>1. \A x \in Chunks : relevance.cross[x] \in Int /\ x \in Int
        BY ArtifactAssumption DEF IsRelevance
    <2>3. \A x \in Chunks : TimeOf[x] \in Nat
        BY ArtifactAssumption
    <2>2. \A x \in Chunks : -RRFScore(dense, bm25, x) \in Int
        BY ScoresAreNumbers
    <2>4. \A x \in Chunks : -relevance.cross[x] \in Int /\ -TimeOf[x] \in Int
        BY <2>1, <2>3
    <2> QED
        BY <2>1, <2>2, <2>4
<1>2. \A x \in Chunks : k[x] = <<First1(x), Score(x), Third(x)>>
    BY DEF FinalKeys
<1>3. \A x \in Chunks : FinalKey(request, dense, bm25, x) = <<First1(x), Score(x), Third(x), x>>
    BY DEF FinalKey
<1> HIDE DEF First1, Score, Third, k
<1>4. \A x \in Chunks :
          LET key == FinalKey(request, dense, bm25, x) IN
          /\ DOMAIN key = 1 .. 4 /\ \A i \in 1 .. 4 : key[i] \in Int
          /\ key[1] = k[x][1] /\ key[2] = k[x][2] /\ key[3] = k[x][3] /\ key[4] = x
    <2> SUFFICES ASSUME NEW x \in Chunks, NEW key, key = FinalKey(request, dense, bm25, x)
                 PROVE  /\ DOMAIN key = 1 .. 4 /\ \A i \in 1 .. 4 : key[i] \in Int
                        /\ key[1] = k[x][1] /\ key[2] = k[x][2] /\ key[3] = k[x][3] /\ key[4] = x
        OBVIOUS
    <2>1. key = <<First1(x), Score(x), Third(x), x>> /\ k[x] = <<First1(x), Score(x), Third(x)>>
        BY <1>2, <1>3
    <2>2. DOMAIN key = 1 .. 4 /\ 1 .. 4 = {1, 2, 3, 4}
        BY <2>1
    <2>3. /\ key[1] = First1(x) /\ key[2] = Score(x) /\ key[3] = Third(x) /\ key[4] = x
          /\ k[x][1] = First1(x) /\ k[x][2] = Score(x) /\ k[x][3] = Third(x)
        BY <2>1
    <2> QED
        BY <1>1, <2>2, <2>3
<1>5. Before(FinalKey(request, dense, bm25, c), FinalKey(request, dense, bm25, d))
      <=> Precedes3(k, c, d)
    <2> DEFINE x == FinalKey(request, dense, bm25, c)  y == FinalKey(request, dense, bm25, d)
    <2>1. /\ DOMAIN x = 1 .. 4 /\ \A i \in 1 .. 4 : x[i] \in Int /\ y[i] \in Int
          /\ x[1] = k[c][1] /\ x[2] = k[c][2] /\ x[3] = k[c][3] /\ x[4] = c
          /\ y[1] = k[d][1] /\ y[2] = k[d][2] /\ y[3] = k[d][3] /\ y[4] = d
        BY <1>4
    <2> HIDE DEF x, y
    <2>2. Before(x, y)
           <=> \/ x[1] < y[1]
               \/ x[1] = y[1] /\ x[2] < y[2]
               \/ x[1] = y[1] /\ x[2] = y[2] /\ x[3] < y[3]
               \/ x[1] = y[1] /\ x[2] = y[2] /\ x[3] = y[3] /\ x[4] < y[4]
        BY <2>1, BeforeFour
    <2>3. Before(x, y) <=> Precedes3(k, c, d)
        BY <2>1, <2>2 DEF Precedes3
    <2> QED
        BY <2>3 DEF x, y
<1> QED
    BY <1>5 DEF k

\* What is searched is a part of what is stored.
LEMMA EligibleIsCorpus ==
    ASSUME NEW request, NEW chunks \in Corpora
    PROVE  Eligible(request, chunks) \in Corpora /\ Eligible(request, chunks) \subseteq chunks
<1>1. Eligible(request, chunks) \subseteq chunks
    BY DEF Eligible
<1> QED
    BY <1>1, FS_Subset DEF Corpora

\* A ranking is over a finite set, and so are two of them.
LEMMA RankedIsCorpus ==
    ASSUME NEW s \in Seq(Chunks), NEW t \in Seq(Chunks)
    PROVE  ToSet(s) \in Corpora /\ ToSet(s) \cup ToSet(t) \in Corpora
<1>1. ASSUME NEW u \in Seq(Chunks) PROVE ToSet(u) \in Corpora
    <2>1. Len(u) \in Nat /\ u \in [1 .. Len(u) -> Chunks] /\ DOMAIN u = 1 .. Len(u)
        BY LenProperties
    <2>2. ToSet(u) \subseteq Chunks
        BY <2>1 DEF ToSet
    <2>3. u \in Surjection(1 .. Len(u), ToSet(u))
        BY <2>1 DEF ToSet, Surjection
    <2>4. IsFiniteSet(1 .. Len(u))
        BY <2>1, FS_Interval
    <2>5. IsFiniteSet(ToSet(u))
        BY <2>3, <2>4, FS_Surjection
    <2> QED
        BY <2>2, <2>5 DEF Corpora
<1> QED
    BY <1>1, FS_Union DEF Corpora

\* An arrangement that sorting tries is one of chunks.
LEMMA TriedAreChunks ==
    ASSUME NEW S \in Corpora, NEW s \in SetToSeqs(S)
    PROVE  \A i \in DOMAIN s : s[i] \in Chunks
BY DEF SetToSeqs, Corpora

\* Whatever search_with_stages() returns is arranged.
LEMMA StagesAreArranged ==
    ASSUME IsRelevance(relevance), NEW request, IsRequest(request), NEW chunks \in Corpora,
           NEW st \in StagesOf(request, chunks)
    PROVE  \E full : Arranged(relevance, request, chunks, st, full)
<1> DEFINE corpus == Eligible(request, chunks)
<1>1. PICK dense \in Sorted(corpus, DenseKey), bm25 \in Sorted(corpus, BM25Key) :
          st \in StagesFrom(request, Top(dense, DenseDepth), Top(bm25, BM25Depth))
    BY DEF StagesOf
<1> DEFINE d == Top(dense, DenseDepth)  b == Top(bm25, BM25Depth)
<1>2. PICK all \in FusedRankings(d, b) :
          \E final \in FinalRankings(request, d, b, Top(all, FusedDepth)) :
              st = [dense |-> d, bm25 |-> b,
                    fused |-> Top(all, FusedDepth), results |-> Top(final, request.topK)]
    BY <1>1 DEF StagesFrom
<1>3. PICK final \in FinalRankings(request, d, b, Top(all, FusedDepth)) :
              st = [dense |-> d, bm25 |-> b,
                    fused |-> Top(all, FusedDepth), results |-> Top(final, request.topK)]
    BY <1>2
<1>4. corpus \in Corpora /\ DenseKeys(relevance) \in Keys /\ BM25Keys(relevance) \in Keys
    <2>1. <<>> \in Rankings
        BY EmptySeq, DepthAssumption DEF Rankings, DepthsAreValid, MaxDepth
    <2> QED
        BY <2>1, EligibleIsCorpus, KeysAreKeys
<1>5. Arranges(dense, corpus, DenseKeys(relevance))
    <2>1. dense \in SetToSeqs(corpus)
          /\ \A i, j \in DOMAIN dense : i < j => ~Before(DenseKey(dense[j]), DenseKey(dense[i]))
        BY DEF Sorted
    <2>2. \A i, j \in DOMAIN dense : i < j => ~Precedes3(DenseKeys(relevance), dense[j], dense[i])
        BY <1>4, <2>1, TriedAreChunks, DenseOrder
    <2> QED
        BY <1>4, <2>1, <2>2, SortedIsArranged
<1>6. Arranges(bm25, corpus, BM25Keys(relevance))
    <2>1. bm25 \in SetToSeqs(corpus)
          /\ \A i, j \in DOMAIN bm25 : i < j => ~Before(BM25Key(bm25[j]), BM25Key(bm25[i]))
        BY DEF Sorted
    <2>2. \A i, j \in DOMAIN bm25 : i < j => ~Precedes3(BM25Keys(relevance), bm25[j], bm25[i])
        BY <1>4, <2>1, TriedAreChunks, DenseOrder
    <2> QED
        BY <1>4, <2>1, <2>2, SortedIsArranged
<1>7. d \in Rankings /\ b \in Rankings
    <2>1. dense \in Seq(corpus) /\ bm25 \in Seq(corpus) /\ corpus \subseteq Chunks
        BY <1>4, <1>5, <1>6, ArrangedPlaces DEF Corpora
    <2>2. dense \in Seq(Chunks) /\ bm25 \in Seq(Chunks)
        BY <2>1, SeqMonotonic
    <2> QED
        BY <2>2, TopIsRanking
<1> DEFINE fusable == ToSet(d) \cup ToSet(b)
<1> HIDE DEF corpus, d, b
<1>8. /\ fusable \in Corpora
      /\ FusedKeys(d, b) \in Keys /\ FinalKeys(relevance, request, d, b) \in Keys
    BY <1>7, RankedIsCorpus, KeysAreKeys DEF Rankings
<1>9. Arranges(all, fusable, FusedKeys(d, b))
    <2>1. all \in SetToSeqs(fusable)
          /\ \A i, j \in DOMAIN all :
                 i < j => ~Before(FusedKey(d, b, all[j]), FusedKey(d, b, all[i]))
        BY DEF FusedRankings, Sorted
    <2>2. \A i, j \in DOMAIN all : i < j => ~Precedes3(FusedKeys(d, b), all[j], all[i])
        BY <1>7, <1>8, <2>1, TriedAreChunks, FusedOrder
    <2> QED
        BY <1>8, <2>1, <2>2, SortedIsArranged
<1> DEFINE fused == Top(all, FusedDepth)  candidates == ToSet(Candidates(request, fused))
           k == FinalKeys(relevance, request, d, b)
<1>10. candidates \in Corpora
    <2>1. all \in Seq(Chunks)
        BY <1>8, <1>9, ArrangedPlaces, SeqMonotonic DEF Corpora
    <2>2. FusedDepth \in Nat /\ RerankDepth \in Nat
        BY DepthAssumption DEF DepthsAreValid
    <2>3. fused \in Seq(Chunks)
        BY <2>1, <2>2, TopIs
    <2>4. Top(fused, RerankDepth) \in Seq(Chunks)
        BY <2>2, <2>3, TopIs
    <2>5. Candidates(request, fused) \in Seq(Chunks)
        BY <2>3, <2>4 DEF Candidates
    <2> QED
        BY <2>5, RankedIsCorpus
<1>11. Arranges(final, candidates, k)
    <2>1. final \in SetToSeqs(candidates)
          /\ \A i, j \in DOMAIN final :
                 i < j => ~Before(FinalKey(request, d, b, final[j]),
                                  FinalKey(request, d, b, final[i]))
        BY DEF FinalRankings, Sorted
    <2>2. \A i, j \in DOMAIN final : i < j => ~Precedes3(k, final[j], final[i])
        BY <1>7, <1>10, <2>1, TriedAreChunks, FinalOrder
    <2> QED
        BY <1>8, <1>10, <2>1, <2>2, SortedIsArranged
<1> DEFINE full == [dense |-> dense, bm25 |-> bm25, fused |-> all, final |-> final]
<1>12. /\ full.dense = dense /\ full.bm25 = bm25 /\ full.fused = all /\ full.final = final
       /\ st.dense = d /\ st.bm25 = b /\ st.fused = fused /\ st.results = Top(final, request.topK)
    BY <1>3
<1> HIDE DEF full
<1>13. Arranged(relevance, request, chunks, st, full)
    BY <1>5, <1>6, <1>9, <1>11, <1>12 DEF Arranged, corpus, d, b
<1> QED
    BY <1>13

\* What a ranking passes on to the next one.
LEMMA ArrangedStages ==
    ASSUME NEW rel, IsRelevance(rel), NEW request, IsRequest(request), NEW chunks \in Corpora,
           NEW st, NEW full, Arranged(rel, request, chunks, st, full)
    PROVE  LET corpus == Eligible(request, chunks)
               fusable == ToSet(st.dense) \cup ToSet(st.bm25)
               candidates == ToSet(Candidates(request, st.fused))
           IN  /\ corpus \in Corpora /\ fusable \in Corpora /\ candidates \in Corpora
               /\ DenseKeys(rel) \in Keys /\ BM25Keys(rel) \in Keys
               /\ FusedKeys(st.dense, st.bm25) \in Keys
               /\ FinalKeys(rel, request, st.dense, st.bm25) \in Keys
               /\ st.dense \in Rankings /\ st.bm25 \in Rankings
               /\ ToSet(st.dense) \subseteq corpus /\ ToSet(st.bm25) \subseteq corpus
               /\ full.fused \in Seq(Chunks) /\ st.fused \in Seq(Chunks)
               /\ ToSet(st.fused) \subseteq fusable
               /\ candidates \subseteq ToSet(st.fused)
               /\ full.final \in Seq(candidates) /\ full.final \in Seq(Chunks)
<1> DEFINE corpus == Eligible(request, chunks)
           fusable == ToSet(st.dense) \cup ToSet(st.bm25)
           candidates == ToSet(Candidates(request, st.fused))
           k == FinalKeys(rel, request, st.dense, st.bm25)
<1>1. /\ Arranges(full.dense, corpus, DenseKeys(rel)) /\ Arranges(full.bm25, corpus, BM25Keys(rel))
      /\ st.dense = Top(full.dense, DenseDepth) /\ st.bm25 = Top(full.bm25, BM25Depth)
      /\ Arranges(full.fused, fusable, FusedKeys(st.dense, st.bm25))
      /\ st.fused = Top(full.fused, FusedDepth)
      /\ Arranges(full.final, candidates, k)
    BY DEF Arranged
<1>2. DenseDepth \in Nat /\ BM25Depth \in Nat /\ FusedDepth \in Nat /\ RerankDepth \in Nat
    BY DepthAssumption DEF DepthsAreValid
<1>3. corpus \in Corpora /\ corpus \subseteq Chunks
    BY EligibleIsCorpus DEF Corpora
<1>4. DenseKeys(rel) \in Keys /\ BM25Keys(rel) \in Keys
    <2>1. <<>> \in Rankings
        BY EmptySeq, DepthAssumption DEF Rankings, DepthsAreValid, MaxDepth
    <2> QED
        BY <2>1, KeysAreKeys
<1> HIDE DEF corpus
<1>5. full.dense \in Seq(corpus) /\ full.bm25 \in Seq(corpus)
    BY <1>1, <1>3, <1>4, ArrangedPlaces
<1>6. full.dense \in Seq(Chunks) /\ full.bm25 \in Seq(Chunks)
    BY <1>3, <1>5, SeqMonotonic
<1>7. st.dense \in Rankings /\ st.bm25 \in Rankings
    BY <1>1, <1>6, TopIsRanking
<1>8. ToSet(st.dense) \subseteq corpus /\ ToSet(st.bm25) \subseteq corpus
    BY <1>1, <1>2, <1>5, TopIs
<1>9. FusedKeys(st.dense, st.bm25) \in Keys /\ k \in Keys
    BY <1>7, KeysAreKeys
<1>10. fusable \in Corpora
    BY <1>7, RankedIsCorpus DEF Rankings
<1> HIDE DEF fusable, k
<1>11. full.fused \in Seq(fusable)
    BY <1>1, <1>9, <1>10, ArrangedPlaces
<1>12. full.fused \in Seq(Chunks)
    BY <1>10, <1>11, SeqMonotonic DEF Corpora
<1>13. st.fused \in Seq(Chunks) /\ ToSet(st.fused) \subseteq fusable
    BY <1>1, <1>2, <1>11, <1>12, TopIs
<1>14. /\ Top(st.fused, RerankDepth) \in Seq(Chunks)
       /\ ToSet(Top(st.fused, RerankDepth)) \subseteq ToSet(st.fused)
    <2>1. st.fused \in Seq(ToSet(st.fused))
        BY <1>13, LenProperties DEF ToSet
    <2> QED
        BY <1>2, <1>13, <2>1, TopIs
<1>15. Candidates(request, st.fused) \in Seq(Chunks) /\ candidates \subseteq ToSet(st.fused)
    BY <1>13, <1>14 DEF Candidates
<1>16. candidates \in Corpora /\ candidates \subseteq Chunks
    BY <1>15, RankedIsCorpus DEF Corpora
<1> HIDE DEF candidates
<1>17. full.final \in Seq(candidates)
    BY <1>1, <1>9, <1>16, ArrangedPlaces
<1>18. full.final \in Seq(Chunks)
    BY <1>16, <1>17, SeqMonotonic
<1> QED
    BY <1>3, <1>4, <1>7, <1>8, <1>9, <1>10, <1>12, <1>13, <1>15, <1>16, <1>17, <1>18
    DEF corpus, fusable, candidates, k

\* The results are distinct candidates, no more than asked for.
LEMMA ResultsAre ==
    ASSUME NEW rel, IsRelevance(rel), NEW request, IsRequest(request), NEW chunks \in Corpora,
           NEW st, NEW full, Arranged(rel, request, chunks, st, full)
    PROVE  /\ st.results = Top(full.final, request.topK)
           /\ st.results \in Seq(Chunks)
           /\ ToSet(st.results) \subseteq ToSet(Candidates(request, st.fused))
           /\ Len(st.results) <= request.topK
           /\ \A i, j \in 1 .. Len(st.results) : st.results[i] = st.results[j] => i = j
           /\ Cardinality(ToSet(st.results)) = Len(st.results)
<1> DEFINE candidates == ToSet(Candidates(request, st.fused))
           k == FinalKeys(rel, request, st.dense, st.bm25)
           n == Len(st.results)
<1>1. st.results = Top(full.final, request.topK) /\ Arranges(full.final, candidates, k)
    BY DEF Arranged
<1>2. /\ candidates \in Corpora /\ k \in Keys
      /\ full.final \in Seq(candidates) /\ full.final \in Seq(Chunks)
    BY ArrangedStages
<1>3. request.topK \in Nat
    BY DEF IsRequest
<1> HIDE DEF candidates, k
<1>4. \A i, j \in 1 .. Len(full.final) : full.final[i] = full.final[j] => i = j
    BY <1>1, <1>2, ArrangedPlaces
<1>5. /\ st.results \in Seq(Chunks) /\ n \in Nat /\ n <= request.topK /\ n <= Len(full.final)
      /\ \A i \in 1 .. n : st.results[i] = full.final[i]
      /\ ToSet(st.results) \subseteq candidates /\ DOMAIN st.results = 1 .. n
    BY <1>1, <1>2, <1>3, TopIs
<1>6. Len(full.final) \in Nat
    BY <1>2, LenProperties
<1>7. \A i, j \in 1 .. n : st.results[i] = st.results[j] => i = j
    BY <1>4, <1>5, <1>6
<1> HIDE DEF n
<1>8. Cardinality(ToSet(st.results)) = n
    <2>1. st.results \in [1 .. n -> ToSet(st.results)]
        BY <1>5, LenProperties DEF ToSet, n
    <2>2. st.results \in Surjection(1 .. n, ToSet(st.results))
        BY <1>5, <2>1 DEF ToSet, Surjection
    <2>3. st.results \in Injection(1 .. n, ToSet(st.results))
        BY <1>5, <1>7, <2>1 DEF Injection, IsInjective
    <2>6. n \in Nat
        BY <1>5
    <2>4. IsFiniteSet(1 .. n) /\ Cardinality(1 .. n) = n
        BY <2>6, FS_Interval
    <2>5. Cardinality(ToSet(st.results)) = Cardinality(1 .. n)
        BY <2>2, <2>3, <2>4, FS_Surjection
    <2> QED
        BY <2>4, <2>5
<1> QED
    BY <1>1, <1>5, <1>7, <1>8 DEF candidates, n

\* Searches that only differ in top_k.
SameButTopK(request, other) ==
    /\ request.conv = other.conv /\ request.from = other.from /\ request.to = other.to
    /\ request.preferRecent = other.preferRecent /\ request.rerank = other.rerank

\* They have one final ranking.
LEMMA SameFinalRanking ==
    ASSUME NEW rel, IsRelevance(rel), NEW request, IsRequest(request),
           NEW other, IsRequest(other), SameButTopK(request, other), NEW chunks \in Corpora,
           NEW st, NEW full, Arranged(rel, request, chunks, st, full),
           NEW su, NEW gull, Arranged(rel, other, chunks, su, gull)
    PROVE  full.final = gull.final
<1> DEFINE corpus == Eligible(request, chunks)
           fusable == ToSet(st.dense) \cup ToSet(st.bm25)
           candidates == ToSet(Candidates(request, st.fused))
           k == FinalKeys(rel, request, st.dense, st.bm25)
<1>1. /\ corpus \in Corpora /\ fusable \in Corpora /\ candidates \in Corpora
      /\ DenseKeys(rel) \in Keys /\ BM25Keys(rel) \in Keys
      /\ FusedKeys(st.dense, st.bm25) \in Keys /\ k \in Keys
    BY ArrangedStages
<1>2. corpus = Eligible(other, chunks)
    BY DEF Eligible, SameButTopK
<1>3. st.dense = su.dense /\ st.bm25 = su.bm25
    <2>1. full.dense = gull.dense /\ full.bm25 = gull.bm25
        <3>1. /\ Arranges(full.dense, corpus, DenseKeys(rel))
              /\ Arranges(gull.dense, corpus, DenseKeys(rel))
              /\ Arranges(full.bm25, corpus, BM25Keys(rel))
              /\ Arranges(gull.bm25, corpus, BM25Keys(rel))
            BY <1>2 DEF Arranged
        <3> QED
            BY <1>1, <3>1, ArrangedOnce
    <2> QED
        BY <2>1 DEF Arranged
<1>4. st.fused = su.fused
    <2>1. full.fused = gull.fused
        <3>1. /\ Arranges(full.fused, fusable, FusedKeys(st.dense, st.bm25))
              /\ Arranges(gull.fused, fusable, FusedKeys(st.dense, st.bm25))
            BY <1>3 DEF Arranged
        <3> QED
            BY <1>1, <3>1, ArrangedOnce
    <2> QED
        BY <2>1 DEF Arranged
<1>5. candidates = ToSet(Candidates(other, su.fused))
    BY <1>4 DEF Candidates, SameButTopK
<1>6. k = FinalKeys(rel, other, su.dense, su.bm25)
    BY <1>3 DEF FinalKeys, SameButTopK
<1>7. Arranges(full.final, candidates, k) /\ Arranges(gull.final, candidates, k)
    BY <1>5, <1>6 DEF Arranged
<1> HIDE DEF candidates, k
<1> QED
    BY <1>1, <1>7, ArrangedOnce

-----------------------------------------------------------------------------
(* The invariant.                                                          *)

\* Behind every search there are its rankings, over the store as it was.
IsSearch(search) ==
    /\ IsRequest(search.request)
    /\ search.stored \in Corpora
    /\ \E full : Arranged(relevance, search.request, search.stored, search.stages, full)

\* A row of the report is such a search with the scores of its results and
\* what they show.
IsRow(row, golden) ==
    /\ IsSearch(row)
    /\ row.request.topK = LargestK
    /\ row.metrics = IF golden = {} THEN None
                     ELSE [k \in KValues |-> MetricsAtK(row.stages.results, golden, k)]
    /\ row.findings = Analysis(row.stages, golden)

IsReport ==
    /\ report.golden \subseteq Chunks /\ IsFiniteSet(report.golden)
    /\ IsRow(report.on, report.golden) /\ IsRow(report.off, report.golden)
    /\ report.status = Status(report.on, report.off)

SInv ==
    /\ stored \in Corpora
    /\ relevance \in Relevances
    /\ Answered(last) => IsSearch(last)
    /\ report = NoReport \/ IsReport

\* No search, no report: nothing to say.
LEMMA NothingIsAnswered ==
    ~Answered(NoSearch) /\ ~Answered(NoReport.on) /\ ~Answered(NoReport.off)
BY DEF Answered, NoSearch, NoReport

\* Scores are numbers.
LEMMA RelevanceIsTyped ==
    ASSUME relevance \in Relevances
    PROVE  IsRelevance(relevance)
BY RelevanceAssumption DEF IsRelevance

\* Nothing is stored and nothing was searched at the beginning.
LEMMA InitSInv == EvaluationInit => SInv
<1> SUFFICES ASSUME EvaluationInit PROVE SInv
    OBVIOUS
<1>1. {} \in Corpora
    BY FS_EmptySet DEF Corpora
<1>2. stored = {} /\ relevance \in Relevances /\ last = NoSearch /\ report = NoReport
    BY DEF EvaluationInit, Init
<1> QED
    BY <1>1, <1>2, NothingIsAnswered DEF SInv

\* An artifact is finite, and so is the store with it.
LEMMA SaveKeepsCorpus ==
    ASSUME stored \in Corpora, Save
    PROVE  stored' \in Corpora
<1>1. PICK a \in Artifacts : stored' = stored \cup a
    BY DEF Save
<1>2. IsFiniteSet(a) /\ a \subseteq Chunks
    BY ArtifactAssumption DEF Chunks
<1> QED
    BY <1>1, <1>2, FS_Union DEF Corpora

\* A search is remembered with the store it saw.
LEMMA SearchSInv ==
    ASSUME SInv, Search, report' = NoReport
    PROVE  SInv'
<1>0. PICK request \in Requests :
          \E stages \in StagesOf(request, stored) : Remember(request, stages)
    BY DEF Search
<1>1. PICK stages \in StagesOf(request, stored) :
          last' = [request |-> request, stored |-> stored, stages |-> stages]
    BY <1>0 DEF Remember
<1>2. UNCHANGED <<stored, relevance>>
    BY DEF Search
<1>3. IsRequest(request) /\ stored \in Corpora /\ relevance \in Relevances
    BY RequestAssumption DEF SInv
<1>4. \E full : Arranged(relevance, request, stored, stages, full)
    BY <1>3, RelevanceIsTyped, StagesAreArranged
<1>5. IsSearch(last)'
    BY <1>1, <1>2, <1>3, <1>4 DEF IsSearch
<1> QED
    BY <1>2, <1>3, <1>5, NothingIsAnswered DEF SInv

\* The request of a run of the evaluation, which is as deep as the largest k.
LEMMA RunIsRequest ==
    ASSUME NEW request, IsRequest(request), LargestK \in 1 .. 10, NEW rerank \in BOOLEAN
    PROVE  /\ IsRequest(AsRun(request, rerank))
           /\ AsRun(request, rerank).topK = LargestK
<1> DEFINE fields == {"conv", "from", "to", "preferRecent", "topK", "rerank"}
           run == AsRun(request, rerank)
<1>1. DOMAIN request = fields
    BY DEF IsRequest
<1>2. DOMAIN run = fields
    BY <1>1 DEF AsRun
<1>3. /\ run.conv = request.conv /\ run.from = request.from /\ run.to = request.to
      /\ run.preferRecent = request.preferRecent /\ run.topK = LargestK /\ run.rerank = rerank
    BY <1>1 DEF AsRun
<1> HIDE DEF run
<1>4. IsRequest(run)
    BY <1>2, <1>3 DEF IsRequest
<1> QED
    BY <1>3, <1>4 DEF run

\* There is a largest k.
LEMMA LargestKIs ==
    LargestK \in KValues /\ LargestK \in 1 .. 10 /\ \A k \in KValues : k <= LargestK
<1> DEFINE S == {10 - k : k \in KValues}
<1>1. KValues # {} /\ \A k \in KValues : k \in 1 .. 10
    BY EvaluationAssumption
<1>2. S # {} /\ S \subseteq Nat
    BY <1>1
<1>3. PICK m \in S : \A y \in S : ~(<<y, m>> \in OpToRel(<, Nat))
    <2> HIDE DEF S
    <2> QED
        BY <1>2, NatLessThanWellFounded, WFMin
<1>4. \A y \in S : m <= y
    <2> SUFFICES ASSUME NEW y \in S, y < m PROVE FALSE
        BY <1>1, <1>2
    <2>1. <<y, m>> \in Nat \X Nat /\ <<y, m>>[1] < <<y, m>>[2]
        BY <1>2
    <2>2. <<y, m>> \in OpToRel(<, Nat)
        BY <2>1, Zenon DEF OpToRel
    <2> QED
        BY <1>3, <2>2
<1>5. \E k \in KValues : \A j \in KValues : j <= k
    <2>1. PICK k \in KValues : m = 10 - k
        BY <1>3
    <2>2. \A j \in KValues : m <= 10 - j
        BY <1>4
    <2>3. \A j \in KValues : j <= k
        BY <1>1, <2>1, <2>2
    <2> QED
        BY <2>3
<1> QED
    BY <1>1, <1>5 DEF LargestK

\* A row that is made is one.
LEMMA RowIs ==
    ASSUME SInv, NEW request, IsRequest(request), request.topK = LargestK,
           NEW stages \in StagesOf(request, stored), NEW golden
    PROVE  IsRow(Row(request, stages, golden), golden)
<1> DEFINE row == Row(request, stages, golden)
<1>1. \E full : Arranged(relevance, request, stored, stages, full)
    BY RelevanceIsTyped, StagesAreArranged DEF SInv
<1>2. /\ row.request = request /\ row.stored = stored /\ row.stages = stages
      /\ row.metrics = IF golden = {} THEN None
                       ELSE [k \in KValues |-> MetricsAtK(stages.results, golden, k)]
      /\ row.findings = Analysis(stages, golden)
    BY DEF Row
<1>3. stored \in Corpora
    BY DEF SInv
<1> HIDE DEF row
<1>4. IsRow(row, golden)
    BY <1>1, <1>2, <1>3 DEF IsRow, IsSearch
<1> QED
    BY <1>4 DEF row

\* A case that is evaluated is two searches with the scores of their results.
LEMMA EvaluateSInv ==
    ASSUME SInv, Evaluate
    PROVE  SInv'
<1>1. PICK request \in {case.request : case \in Cases} :
          EvaluateRequest(request, {case.golden : case \in {c \in Cases : c.request = request}})
    BY DEF Evaluate
<1>2. last' = NoSearch /\ UNCHANGED <<stored, relevance>>
    BY DEF Evaluate
<1> DEFINE without == AsRun(request, FALSE)  with == AsRun(request, TRUE)
           goldens == {case.golden : case \in {c \in Cases : c.request = request}}
<1>3. /\ IsRequest(without) /\ without.topK = LargestK
      /\ IsRequest(with) /\ with.topK = LargestK
    <2>1. IsRequest(request)
        BY EvaluationAssumption
    <2> QED
        BY <2>1, RunIsRequest, LargestKIs
<1>4. \A golden \in goldens : golden \subseteq Chunks /\ IsFiniteSet(golden)
    BY EvaluationAssumption
<1>5. PICK plain \in StagesOf(without, stored), reranked \in StagesOf(with, stored),
           golden \in goldens :
          report' = [golden |-> golden, off |-> Row(without, plain, golden),
                     on |-> Row(with, reranked, golden),
                     status |-> Status(Row(with, reranked, golden), Row(without, plain, golden))]
    BY <1>1 DEF EvaluateRequest
<1> HIDE DEF without, with, goldens
<1>6. /\ report'.golden = golden
      /\ report'.off = Row(without, plain, golden) /\ report'.on = Row(with, reranked, golden)
      /\ report'.status = Status(report'.on, report'.off)
    BY <1>5
<1>7. IsRow(report'.on, golden) /\ IsRow(report'.off, golden)
    BY <1>3, <1>6, RowIs
<1>8. ASSUME NEW row, IsRow(row, golden) PROVE IsRow(row, golden)'
    BY <1>2, <1>8 DEF IsRow, IsSearch
<1>9. IsReport'
    BY <1>4, <1>6, <1>7, <1>8 DEF IsReport
<1> QED
    BY <1>2, <1>9, NothingIsAnswered DEF SInv

\* Every step keeps the invariant.
LEMMA StepSInv == SInv /\ [EvaluationNext]_evaluationVars => SInv'
<1> SUFFICES ASSUME SInv, [EvaluationNext]_evaluationVars PROVE SInv'
    OBVIOUS
<1>1. CASE Save /\ report' = NoReport
    <2>1. stored' \in Corpora
        BY <1>1, SaveKeepsCorpus DEF SInv
    <2>2. UNCHANGED <<relevance, last>>
        BY <1>1 DEF Save
    <2> QED
        BY <1>1, <2>1, <2>2, NothingIsAnswered DEF SInv, IsSearch
<1>2. CASE Search /\ report' = NoReport
    BY <1>2, SearchSInv
<1>3. CASE SearchFails /\ report' = NoReport
    BY <1>3, NothingIsAnswered DEF SearchFails, SInv
<1>4. CASE Evaluate
    BY <1>4, EvaluateSInv
<1>5. CASE UNCHANGED evaluationVars
    <2>1. UNCHANGED <<stored, relevance, last, report>>
        BY <1>5 DEF evaluationVars, vars
    <2>2. IsReport => IsReport'
        BY <2>1 DEF IsReport, IsRow, IsSearch
    <2> QED
        BY <2>1, <2>2 DEF SInv, IsSearch
<1> QED
    BY <1>1, <1>2, <1>3, <1>4, <1>5 DEF EvaluationNext, Next

\* The invariant holds in every behaviour of the search and its evaluation.
THEOREM SearchInductive == EvaluationSpec => []SInv
BY InitSInv, StepSInv, PTL DEF EvaluationSpec

-----------------------------------------------------------------------------
(* The properties.                                                         *)

\* A search finds distinct chunks of the conversation that asked, within its
\* time bounds give or take less than a second, which were fused and are no
\* more than asked for.
THEOREM SearchesStayInScope == EvaluationSpec => []ResultsInScope
<1>1. SInv => ResultsInScope
    <2> SUFFICES ASSUME SInv, Answered(last) PROVE ResultsInScope
        BY DEF ResultsInScope
    <2> DEFINE request == last.request  st == last.stages
               corpus == Eligible(request, last.stored)
    <2>1. /\ IsRequest(request) /\ last.stored \in Corpora /\ IsRelevance(relevance)
          /\ \E full : Arranged(relevance, request, last.stored, st, full)
        BY RelevanceIsTyped DEF SInv, IsSearch
    <2>2. PICK full : Arranged(relevance, request, last.stored, st, full)
        BY <2>1
    <2>3. /\ corpus \in Corpora
          /\ ToSet(st.dense) \subseteq corpus /\ ToSet(st.bm25) \subseteq corpus
          /\ ToSet(st.fused) \subseteq ToSet(st.dense) \cup ToSet(st.bm25)
          /\ ToSet(Candidates(request, st.fused)) \subseteq ToSet(st.fused)
        BY <2>1, <2>2, ArrangedStages
    <2>4. /\ ToSet(st.results) \subseteq ToSet(Candidates(request, st.fused))
          /\ Cardinality(ToSet(st.results)) = Len(st.results)
          /\ Len(st.results) <= request.topK
        BY <2>1, <2>2, ResultsAre
    <2>5. ASSUME NEW c \in Seen(last)
          PROVE  /\ ConvOf[c] = request.conv
                 /\ request.from # None => TimeOf[c] > request.from - 2
                 /\ request.to # None => TimeOf[c] < request.to + 2
        <3>1. c \in corpus
            BY <2>3 DEF Seen
        <3>2. /\ ConvOf[c] = request.conv
              /\ request.from # None => AsText(TimeOf[c]) >= AsText(request.from)
              /\ request.to # None => AsText(TimeOf[c]) <= AsText(request.to)
            BY <3>1 DEF Eligible
        <3>3. c \in Chunks
            BY <2>3, <3>1 DEF Corpora
        <3>4. /\ TimeOf[c] \in Nat
              /\ request.from \in Nat \cup {None} /\ request.to \in Nat \cup {None}
            BY <2>1, <3>3, ArtifactAssumption DEF IsRequest
        <3>5. \A t, u \in Nat : AsText(t) >= AsText(u) => t > u - 2
            BY DEF AsText
        <3>6. \A t, u \in Nat : AsText(t) <= AsText(u) => t < u + 2
            BY DEF AsText
        <3> QED
            BY <3>2, <3>4, <3>5, <3>6
    <2>6. ToSet(st.results) \subseteq last.stored
        BY <2>1, <2>3, <2>4, EligibleIsCorpus
    <2> QED
        BY <2>3, <2>4, <2>5, <2>6 DEF ResultsInScope
<1> QED
    BY <1>1, SearchInductive, PTL

\* Of two arrangements that are cut off, one is the beginning of the other.
LEMMA TopsArePrefixes ==
    ASSUME NEW S, NEW s \in Seq(S), NEW m \in Nat, NEW n \in Nat, m <= n
    PROVE  /\ IsPrefix(Top(s, m), Top(s, n))
           /\ Top(Top(s, n), m) = Top(s, m)
<1> DEFINE a == Top(s, m)  b == Top(s, n)
<1>1. /\ a \in Seq(S) /\ Len(a) \in Nat /\ Len(a) <= m /\ Len(a) <= Len(s)
      /\ \A i \in 1 .. Len(s) : i <= m => i <= Len(a)
      /\ \A i \in 1 .. Len(a) : a[i] = s[i]
    BY TopIs
<1>2. /\ b \in Seq(S) /\ Len(b) \in Nat /\ Len(b) <= n /\ Len(b) <= Len(s)
      /\ \A i \in 1 .. Len(s) : i <= n => i <= Len(b)
      /\ \A i \in 1 .. Len(b) : b[i] = s[i]
    BY TopIs
<1>3. Len(s) \in Nat
    BY LenProperties
<1> HIDE DEF a, b
<1>4. Len(a) <= Len(b)
    <2> SUFFICES ASSUME Len(a) # 0 PROVE Len(a) <= Len(b)
        BY <1>1, <1>2
    <2>1. Len(a) \in 1 .. Len(s) /\ Len(a) <= n
        BY <1>1, <1>3
    <2> QED
        BY <1>2, <2>1
<1>5. IsPrefix(a, b)
    <2>1. /\ SubSeq(a, 1, Len(a)) = a
          /\ SubSeq(b, 1, Len(a)) \in Seq(S) /\ Len(SubSeq(b, 1, Len(a))) = Len(a)
          /\ \A i \in 1 .. Len(a) : SubSeq(b, 1, Len(a))[i] = b[i]
        <3>1. \A i \in 1 .. Len(a) : b[i] \in S
            BY <1>1, <1>2, <1>4, ElementOfSeq
        <3>2. /\ SubSeq(b, 1, Len(a)) \in Seq(S)
              /\ Len(SubSeq(b, 1, Len(a))) = IF 1 <= Len(a) THEN Len(a) - 1 + 1 ELSE 0
              /\ \A i \in 1 .. Len(a) - 1 + 1 : SubSeq(b, 1, Len(a))[i] = b[1 + i - 1]
            BY <1>1, <3>1, SubSeqProperties
        <3>3. Len(a) - 1 + 1 = Len(a) /\ \A i \in 1 .. Len(a) : 1 + i - 1 = i
            BY <1>1
        <3> QED
            BY <1>1, <3>2, <3>3, SubSeqFull
    <2>2. SubSeq(b, 1, Len(a)) = a
        <3>1. \A i \in 1 .. Len(a) : a[i] = b[i]
            BY <1>1, <1>2, <1>4
        <3> QED
            BY <1>1, <2>1, <3>1, SeqEqual
    <2> QED
        BY <1>4, <2>1, <2>2 DEF IsPrefix
<1>6. Top(b, m) = a
    <2> DEFINE c == Top(b, m)
    <2>1. /\ c \in Seq(S) /\ Len(c) \in Nat /\ Len(c) <= m /\ Len(c) <= Len(b)
          /\ \A i \in 1 .. Len(b) : i <= m => i <= Len(c)
          /\ \A i \in 1 .. Len(c) : c[i] = b[i]
        BY <1>2, TopIs
    <2> HIDE DEF c
    <2>2. Len(c) <= Len(a)
        <3> SUFFICES ASSUME Len(c) # 0 PROVE Len(c) <= Len(a)
            BY <1>1, <2>1
        <3>1. Len(c) \in 1 .. Len(s) /\ Len(c) <= m
            BY <1>2, <1>3, <2>1
        <3> QED
            BY <1>1, <3>1
    <2>3. Len(a) <= Len(c)
        <3> SUFFICES ASSUME Len(a) # 0 PROVE Len(a) <= Len(c)
            BY <1>1, <2>1
        <3>1. Len(a) \in 1 .. Len(b) /\ Len(a) <= m
            BY <1>1, <1>2, <1>4
        <3> QED
            BY <2>1, <3>1
    <2>4. Len(a) = Len(c)
        BY <1>1, <2>1, <2>2, <2>3
    <2>5. \A i \in 1 .. Len(a) : a[i] = c[i]
        BY <1>1, <1>2, <1>4, <2>1, <2>4
    <2>6. a = c
        BY <1>1, <2>1, <2>4, <2>5, SeqEqual
    <2> QED
        BY <2>6 DEF c
<1> QED
    BY <1>5, <1>6 DEF a, b

\* Requests that are the same up to top_k.
LEMMA SameRequest ==
    ASSUME NEW request, NEW other, IsRequest(request), IsRequest(other),
           [request EXCEPT !.topK = 0] = [other EXCEPT !.topK = 0]
    PROVE  SameButTopK(request, other)
<1> DEFINE a == [request EXCEPT !.topK = 0]  b == [other EXCEPT !.topK = 0]
<1>1. /\ a.conv = request.conv /\ a.from = request.from /\ a.to = request.to
      /\ a.preferRecent = request.preferRecent /\ a.rerank = request.rerank
    BY DEF IsRequest
<1>2. /\ b.conv = other.conv /\ b.from = other.from /\ b.to = other.to
      /\ b.preferRecent = other.preferRecent /\ b.rerank = other.rerank
    BY DEF IsRequest
<1>3. a = b
    OBVIOUS
<1> HIDE DEF a, b
<1> QED
    BY <1>1, <1>2, <1>3 DEF SameButTopK

\* The same search of the same store has the same answer, of which a smaller
\* top_k is the beginning.
THEOREM SearchesAreDeterministic == EvaluationSpec => SearchIsDeterministic
<1>1. SInv /\ SInv' /\ [EvaluationNext]_evaluationVars
      => [Answered(last) /\ Answered(last') /\ SameSearch(last, last') =>
              \/ IsPrefix(last.stages.results, last'.stages.results)
              \/ IsPrefix(last'.stages.results, last.stages.results)]_vars
    <2> SUFFICES ASSUME SInv, SInv', [EvaluationNext]_evaluationVars,
                        Answered(last), Answered(last'), SameSearch(last, last')
                 PROVE  \/ IsPrefix(last.stages.results, last'.stages.results)
                        \/ IsPrefix(last'.stages.results, last.stages.results)
        OBVIOUS
    <2>1. relevance' = relevance
        BY DEF EvaluationNext, Next, Save, Search, SearchFails, Evaluate, evaluationVars, vars
    <2>2. /\ IsRequest(last.request) /\ last.stored \in Corpora /\ IsRelevance(relevance)
          /\ \E full : Arranged(relevance, last.request, last.stored, last.stages, full)
        BY RelevanceIsTyped DEF SInv, IsSearch
    <2>3. /\ IsRequest(last'.request)
          /\ \E full : Arranged(relevance, last'.request, last'.stored, last'.stages, full)
        BY <2>1 DEF SInv, IsSearch, Answered
    <2>4. last'.stored = last.stored /\ SameButTopK(last.request, last'.request)
        BY <2>2, <2>3, SameRequest DEF SameSearch
    <2>5. PICK full : Arranged(relevance, last.request, last.stored, last.stages, full)
        BY <2>2
    <2>6. PICK gull : Arranged(relevance, last'.request, last.stored, last'.stages, gull)
        BY <2>3, <2>4
    <2>7. full.final = gull.final
        BY <2>2, <2>3, <2>4, <2>5, <2>6, SameFinalRanking
    <2>8. full.final \in Seq(Chunks)
        BY <2>2, <2>5, ArrangedStages
    <2>9. /\ last.stages.results = Top(full.final, last.request.topK)
          /\ last'.stages.results = Top(full.final, last'.request.topK)
        BY <2>5, <2>6, <2>7 DEF Arranged
    <2>10. last.request.topK \in Nat /\ last'.request.topK \in Nat
        BY <2>2, <2>3 DEF IsRequest
    <2>11. last.request.topK <= last'.request.topK \/ last'.request.topK <= last.request.topK
        BY <2>10
    <2> QED
        BY <2>8, <2>9, <2>10, <2>11, TopsArePrefixes
<1> QED
    BY <1>1, SearchInductive, PTL DEF EvaluationSpec, SearchIsDeterministic

\* The scores at k only depend on the first k results.
LEMMA ScoresOfTop ==
    ASSUME NEW s \in Seq(Chunks), NEW golden, NEW k \in Nat
    PROVE  MetricsAtK(s, golden, k) = MetricsAtK(Top(s, k), golden, k)
<1> DEFINE t == Top(s, k)
<1>1. /\ DOMAIN t = 1 .. Len(t) /\ Len(t) \in Nat /\ Len(t) <= k /\ Len(t) <= Len(s)
      /\ \A i \in 1 .. Len(s) : i <= k => i <= Len(t)
      /\ \A i \in 1 .. Len(t) : t[i] = s[i]
    BY TopIs
<1>2. DOMAIN s = 1 .. Len(s) /\ Len(s) \in Nat
    BY LenProperties
<1> HIDE DEF t
<1>3. Relevant(s, golden, k) = Relevant(t, golden, k)
    <2>1. \A i : i \in DOMAIN s /\ i <= k <=> i \in DOMAIN t /\ i <= k
        BY <1>1, <1>2
    <2> QED
        BY <1>1, <2>1 DEF Relevant
<1>4. MetricsAtK(s, golden, k) = MetricsAtK(t, golden, k)
    BY <1>3 DEF MetricsAtK
<1> QED
    BY <1>4 DEF t

\* A row with an answer is one of a report.
LEMMA RowsAre ==
    ASSUME SInv, NEW row \in {report.on, report.off}, Answered(row)
    PROVE  /\ IsRow(row, report.golden)
           /\ report.golden \subseteq Chunks /\ IsFiniteSet(report.golden)
BY NothingIsAnswered DEF SInv, IsReport

\* The scores of a case at each k are those of the results that a search for
\* k results returns.
THEOREM ScoresBelongToSearches == EvaluationSpec => []ScoresAreOfSearches
<1>1. SInv => ScoresAreOfSearches
    <2> SUFFICES ASSUME SInv, NEW row \in {report.on, report.off}, Measured(row),
                        NEW k \in KValues,
                        NEW stages \in StagesOf([row.request EXCEPT !.topK = k], row.stored)
                 PROVE  row.metrics[k] = MetricsAtK(stages.results, report.golden, k)
        BY DEF ScoresAreOfSearches
    <2> DEFINE request == row.request  other == [row.request EXCEPT !.topK = k]
    <2>1. IsRow(row, report.golden) /\ IsRelevance(relevance)
        BY RelevanceIsTyped, RowsAre DEF SInv, Measured
    <2>2. /\ IsRequest(request) /\ row.stored \in Corpora /\ request.topK = LargestK
          /\ \E full : Arranged(relevance, request, row.stored, row.stages, full)
          /\ row.metrics = [j \in KValues |-> MetricsAtK(row.stages.results, report.golden, j)]
        BY <2>1 DEF IsRow, IsSearch, Measured
    <2>3. k \in 1 .. 10 /\ k <= LargestK /\ LargestK \in Nat
        BY LargestKIs, EvaluationAssumption
    <2>4. IsRequest(other) /\ other.topK = k /\ SameButTopK(request, other)
        <3>1. DOMAIN request = {"conv", "from", "to", "preferRecent", "topK", "rerank"}
            BY <2>2 DEF IsRequest
        <3>2. /\ DOMAIN other = {"conv", "from", "to", "preferRecent", "topK", "rerank"}
              /\ other.conv = request.conv /\ other.from = request.from /\ other.to = request.to
              /\ other.preferRecent = request.preferRecent /\ other.rerank = request.rerank
              /\ other.topK = k
            BY <3>1
        <3> HIDE DEF other
        <3> QED
            BY <2>2, <2>3, <3>2 DEF IsRequest, SameButTopK
    <2>5. PICK full : Arranged(relevance, request, row.stored, row.stages, full)
        BY <2>2
    <2> HIDE DEF other
    <2>6. stages \in StagesOf(other, row.stored)
        BY DEF other
    <2>7. PICK gull : Arranged(relevance, other, row.stored, stages, gull)
        BY <2>1, <2>2, <2>4, <2>6, StagesAreArranged
    <2>8. full.final = gull.final
        BY <2>1, <2>2, <2>4, <2>5, <2>7, SameFinalRanking
    <2>9. full.final \in Seq(Chunks)
        BY <2>1, <2>2, <2>5, ArrangedStages
    <2>10. row.stages.results = Top(full.final, LargestK) /\ stages.results = Top(full.final, k)
        BY <2>2, <2>4, <2>5, <2>7, <2>8 DEF Arranged
    <2>11. k \in Nat
        BY <2>3
    <2>12. row.stages.results \in Seq(Chunks) /\ Top(row.stages.results, k) = stages.results
        BY <2>3, <2>9, <2>10, <2>11, TopsArePrefixes, TopIs
    <2>13. row.metrics[k] = MetricsAtK(row.stages.results, report.golden, k)
        BY <2>2
    <2>14. MetricsAtK(row.stages.results, report.golden, k)
           = MetricsAtK(stages.results, report.golden, k)
        BY <2>11, <2>12, ScoresOfTop
    <2> QED
        BY <2>13, <2>14
<1> QED
    BY <1>1, SearchInductive, PTL
-----------------------------------------------------------------------------
(* What both rankings agree on.                                            *)

\* What is kept of an arrangement has, with a chunk, those that precede it.
LEMMA TopKeepsOrder ==
    ASSUME NEW S \in Corpora, NEW k \in Keys, NEW s, Arranges(s, S, k), NEW depth \in Nat,
           NEW c \in S, NEW d \in ToSet(Top(s, depth)), Precedes3(k, c, d)
    PROVE  Precedes(Top(s, depth), c, d)
<1> DEFINE t == Top(s, depth)
<1>1. /\ s \in Seq(S) /\ Len(s) \in Nat /\ Len(s) = Cardinality(S)
      /\ \A i, j \in 1 .. Len(s) : Precedes3(k, s[i], s[j]) => i < j
      /\ \A i, j \in 1 .. Len(s) : s[i] = s[j] => i = j
    BY ArrangedPlaces
<1>2. \E i \in 1 .. Len(s) : s[i] = c
    BY <1>1 DEF Arranges
<1>3. /\ t \in Seq(S) /\ Len(t) \in Nat /\ Len(t) <= depth /\ Len(t) <= Len(s)
      /\ \A i \in 1 .. Len(s) : i <= depth => i <= Len(t)
      /\ DOMAIN t = 1 .. Len(t) /\ \A i \in 1 .. Len(t) : t[i] = s[i]
    BY <1>1, TopIs
<1>4. d \in ToSet(t)
    OBVIOUS
<1> HIDE DEF t
<1>5. Rank(t, d) \in 1 .. Len(t) /\ t[Rank(t, d)] = d
    BY <1>3, <1>4, RankIs
<1> DEFINE j == Rank(t, d)
<1>6. PICK i \in 1 .. Len(s) : s[i] = c
    BY <1>2
<1>7. j \in 1 .. Len(s) /\ s[j] = d
    BY <1>1, <1>3, <1>5
<1>8. i < j
    BY <1>1, <1>6, <1>7
<1>9. i \in 1 .. Len(t) /\ t[i] = c
    BY <1>1, <1>3, <1>5, <1>6, <1>8
<1>10. c \in ToSet(t)
    BY <1>3, <1>9 DEF ToSet
<1>11. Rank(t, c) \in 1 .. Len(t) /\ t[Rank(t, c)] = c
    BY <1>3, <1>10, RankIs
<1>12. Rank(t, c) = i
    BY <1>1, <1>3, <1>6, <1>11
<1>13. Precedes(t, c, d)
    BY <1>8, <1>10, <1>12 DEF Precedes
<1> QED
    BY <1>13 DEF t

\* To the score of a chunk that precedes another one, a ranking adds at least
\* as much, and more if it has kept the other one.
LEMMA BetterAddsMore ==
    ASSUME NEW S \in Corpora, NEW k \in Keys, NEW s, Arranges(s, S, k), NEW depth \in Nat,
           Top(s, depth) \in Rankings,
           NEW c \in S, NEW d, Precedes3(k, c, d)
    PROVE  LET t == Top(s, depth) IN
           /\ Contribution(t, d) <= Contribution(t, c)
           /\ d \in ToSet(t) => c \in ToSet(t) /\ Contribution(t, d) < Contribution(t, c)
<1> DEFINE t == Top(s, depth)
<1>1. t \in Rankings /\ Contribution(t, c) \in Nat
    BY ScoresAreNumbers
<1>2. d \in ToSet(t) => Precedes(t, c, d)
    BY TopKeepsOrder
<1> HIDE DEF t
<1>3. t \in Seq(Chunks) /\ Len(t) \in Nat /\ Len(t) <= MaxDepth /\ MaxDepth \in Nat
    BY <1>1, DepthAssumption, LenProperties DEF Rankings, DepthsAreValid, MaxDepth
<1>4. ASSUME d \in ToSet(t)
      PROVE  c \in ToSet(t) /\ Contribution(t, d) < Contribution(t, c)
    <2>1. c \in ToSet(t) /\ Rank(t, c) < Rank(t, d)
        BY <1>2, <1>4 DEF Precedes
    <2>2. Rank(t, c) \in 1 .. Len(t) /\ Rank(t, d) \in 1 .. Len(t)
        BY <1>3, <1>4, <2>1, RankIs
    <2>3. Rank(t, c) \in 1 .. MaxDepth /\ Rank(t, d) \in 1 .. MaxDepth
        BY <1>3, <2>2
    <2>4. Reciprocal(Rank(t, d)) < Reciprocal(Rank(t, c))
        BY <2>1, <2>3, ReciprocalsFall
    <2> QED
        BY <1>4, <2>1, <2>4 DEF Contribution
<1>5. ASSUME d \notin ToSet(t) PROVE Contribution(t, d) <= Contribution(t, c)
    <2>1. Contribution(t, d) = 0
        BY <1>5 DEF Contribution
    <2> QED
        BY <1>1, <2>1
<1>6. Contribution(t, d) \in Nat
    BY <1>1, ScoresAreNumbers
<1>7. /\ Contribution(t, d) <= Contribution(t, c)
      /\ d \in ToSet(t) => c \in ToSet(t) /\ Contribution(t, d) < Contribution(t, c)
    BY <1>1, <1>4, <1>5, <1>6
<1> QED
    BY <1>7 DEF t

\* The order two rankings agree on goes through the fusion to the results.
LEMMA AgreementReachesResults ==
    ASSUME IsRelevance(relevance), NEW request, IsRequest(request), ~request.rerank,
           NEW chunks \in Corpora, NEW st, NEW full,
           Arranged(relevance, request, chunks, st, full),
           NEW d \in ToSet(st.results), NEW c \in Eligible(request, chunks),
           Before(DenseKey(c), DenseKey(d)), Before(BM25Key(c), BM25Key(d))
    PROVE  Precedes(st.results, c, d)
<1> DEFINE corpus == Eligible(request, chunks)
           fusable == ToSet(st.dense) \cup ToSet(st.bm25)
           candidates == ToSet(Candidates(request, st.fused))
           k == DenseKeys(relevance)  l == BM25Keys(relevance)
           m == FusedKeys(st.dense, st.bm25)
           n == FinalKeys(relevance, request, st.dense, st.bm25)
<1>1. /\ corpus \in Corpora /\ fusable \in Corpora /\ candidates \in Corpora
      /\ k \in Keys /\ l \in Keys /\ m \in Keys /\ n \in Keys
      /\ st.dense \in Rankings /\ st.bm25 \in Rankings
      /\ ToSet(st.dense) \subseteq corpus /\ ToSet(st.bm25) \subseteq corpus
      /\ ToSet(st.fused) \subseteq fusable /\ candidates \subseteq ToSet(st.fused)
    BY ArrangedStages
<1>2. st.results = Top(full.final, request.topK) /\ ToSet(st.results) \subseteq candidates
    BY ResultsAre
<1>3. /\ Arranges(full.dense, corpus, k) /\ Arranges(full.bm25, corpus, l)
      /\ st.dense = Top(full.dense, DenseDepth) /\ st.bm25 = Top(full.bm25, BM25Depth)
      /\ Arranges(full.fused, fusable, m) /\ st.fused = Top(full.fused, FusedDepth)
      /\ Arranges(full.final, candidates, n)
    BY DEF Arranged
<1>4. /\ DenseDepth \in Nat /\ BM25Depth \in Nat /\ FusedDepth \in Nat
      /\ request.topK \in Nat
    BY DepthAssumption DEF DepthsAreValid, IsRequest
<1>5. candidates = ToSet(st.fused)
    BY DEF Candidates
<1>6. d \in candidates /\ d \in ToSet(st.fused) /\ d \in fusable /\ d \in corpus
    BY <1>1, <1>2
<1>7. c \in corpus /\ c \in Chunks /\ d \in Chunks
    BY <1>1, <1>6 DEF Corpora
<1>8. Precedes3(k, c, d) /\ Precedes3(l, c, d)
    BY <1>7, DenseOrder
<1> DEFINE Score(x) == RRFScore(st.dense, st.bm25, x)
<1>9. /\ Contribution(st.dense, d) <= Contribution(st.dense, c)
      /\ d \in ToSet(st.dense)
         => c \in ToSet(st.dense) /\ Contribution(st.dense, d) < Contribution(st.dense, c)
    BY <1>1, <1>3, <1>4, <1>7, <1>8, BetterAddsMore
<1>10. /\ Contribution(st.bm25, d) <= Contribution(st.bm25, c)
       /\ d \in ToSet(st.bm25)
          => c \in ToSet(st.bm25) /\ Contribution(st.bm25, d) < Contribution(st.bm25, c)
    BY <1>1, <1>3, <1>4, <1>7, <1>8, BetterAddsMore
<1>11. \A x : Contribution(st.dense, x) \in Nat /\ Contribution(st.bm25, x) \in Nat
    BY <1>1, ScoresAreNumbers
<1>12. c \in fusable /\ Score(c) \in Nat /\ Score(d) \in Nat /\ Score(d) < Score(c)
    <2>1. /\ Score(c) = Contribution(st.dense, c) + Contribution(st.bm25, c)
          /\ Score(d) = Contribution(st.dense, d) + Contribution(st.bm25, d)
        BY DEF RRFScore
    <2>2. d \in ToSet(st.dense) \/ d \in ToSet(st.bm25)
        BY <1>6
    <2>3. c \in fusable
        BY <1>9, <1>10, <2>2
    <2> HIDE DEF Score
    <2>4. /\ Contribution(st.dense, c) \in Nat /\ Contribution(st.bm25, c) \in Nat
          /\ Contribution(st.dense, d) \in Nat /\ Contribution(st.bm25, d) \in Nat
        BY <1>11
    <2>5. \/ Contribution(st.dense, d) < Contribution(st.dense, c)
          \/ Contribution(st.bm25, d) < Contribution(st.bm25, c)
        BY <1>9, <1>10, <2>2
    <2>6. Score(c) \in Nat /\ Score(d) \in Nat /\ Score(d) < Score(c)
        BY <1>9, <1>10, <2>1, <2>4, <2>5
    <2> QED
        BY <2>3, <2>6
<1>13. m[c][1] = -Score(c) /\ m[d][1] = -Score(d)
    BY <1>7 DEF FusedKeys
<1>14. n[c][1] = -Score(c) /\ n[d][1] = -Score(d)
    BY <1>7 DEF FinalKeys
<1> HIDE DEF corpus, fusable, candidates, k, l, m, n, Score
<1>15. Precedes3(m, c, d) /\ Precedes3(n, c, d)
    <2>1. -Score(c) < -Score(d)
        BY <1>12
    <2> QED
        BY <1>13, <1>14, <2>1 DEF Precedes3
<1>16. Precedes(st.fused, c, d)
    BY <1>1, <1>3, <1>4, <1>6, <1>12, <1>15, TopKeepsOrder
<1>17. c \in candidates
    BY <1>5, <1>16 DEF Precedes
<1> QED
    BY <1>1, <1>2, <1>3, <1>4, <1>15, <1>17, TopKeepsOrder

\* A chunk that both rankings place before another one, which is among the
\* results of a search without reranking, is before it in the results.
THEOREM AgreedOrderIsKept == EvaluationSpec => []BetterInBothComesFirst
<1>1. SInv => BetterInBothComesFirst
    <2> SUFFICES ASSUME SInv, Answered(last), ~last.request.rerank
                 PROVE  \A d \in ToSet(last.stages.results),
                           c \in Eligible(last.request, last.stored) :
                            /\ Before(DenseKey(c), DenseKey(d))
                            /\ Before(BM25Key(c), BM25Key(d))
                            => Precedes(last.stages.results, c, d)
        BY DEF BetterInBothComesFirst
    <2>1. /\ IsRequest(last.request) /\ last.stored \in Corpora /\ IsRelevance(relevance)
          /\ \E full : Arranged(relevance, last.request, last.stored, last.stages, full)
        BY RelevanceIsTyped DEF SInv, IsSearch
    <2>2. PICK full : Arranged(relevance, last.request, last.stored, last.stages, full)
        BY <2>1
    <2> QED
        BY <2>1, <2>2, AgreementReachesResults
<1> QED
    BY <1>1, SearchInductive, PTL

-----------------------------------------------------------------------------
(* What positions are worth.                                               *)

Positions == DOMAIN Discount

\* Every position is worth something, and more than those after it.
LEMMA DiscountsFall ==
    /\ Len(Discount) \in Nat /\ Positions = 1 .. Len(Discount)
    /\ \A i \in Positions : Discount[i] \in Nat \ {0}
    /\ \A i, j \in Positions : i < j => Discount[j] < Discount[i]
<1>1. Discount \in Seq(Nat \ {0})
    BY EvaluationAssumption
<1>2. \A i, j \in DOMAIN Discount : i < j => Discount[i] > Discount[j]
    BY EvaluationAssumption
<1>3. Len(Discount) \in Nat /\ DOMAIN Discount = 1 .. Len(Discount)
    BY <1>1, LenProperties
<1>4. \A i \in 1 .. Len(Discount) : Discount[i] \in Nat \ {0}
    BY <1>1, ElementOfSeq
<1> QED
    BY <1>2, <1>3, <1>4 DEF Positions

GainsBody(g, P, n) == IF n = 0 THEN 0 ELSE g[n - 1] + (IF n \in P THEN Discount[n] ELSE 0)

\* Gains() satisfies its equation.
LEMMA GainsAre ==
    ASSUME NEW P, P \subseteq Positions
    PROVE  /\ Gains(P) \in [Nat -> Nat] /\ Gains(P)[0] = 0
           /\ \A n \in Nat :
                  Gains(P)[n + 1] = Gains(P)[n] + (IF n + 1 \in P THEN Discount[n + 1] ELSE 0)
<1> DEFINE Worth(n) == IF n \in P THEN Discount[n] ELSE 0
           Plus(n, v) == v + Worth(n)
           step == [x \in Nat \X Nat |-> Plus(x[1], x[2])]
<1>1. \A n : Worth(n) \in Nat
    BY DiscountsFall
<1>2. \A n, v : Plus(n, v) = v + Worth(n)
    OBVIOUS
<1>3. \A n : Worth(n) = IF n \in P THEN Discount[n] ELSE 0
    OBVIOUS
<1> HIDE DEF Worth
<1>4. \A n, v \in Nat : Plus(n, v) \in Nat
    BY <1>1
<1> HIDE DEF Plus
<1>5. step \in [Nat \X Nat -> Nat] /\ \A n, v \in Nat : step[<<n, v>>] = Plus(n, v)
    BY <1>4
<1> HIDE DEF step
<1>6. PICK g \in [Nat -> Nat] : \A n \in Nat : g[n] = RecursionBody(g, 0, step, n)
    BY <1>5, RecursionHasSolution
<1>7. ASSUME NEW n \in Nat PROVE g[n] = GainsBody(g, P, n)
    <2>1. n # 0 => n - 1 \in Nat
        OBVIOUS
    <2>2. n # 0 => g[n - 1] \in Nat
        BY <2>1
    <2>3. n # 0 => g[n] = g[n - 1] + Worth(n)
        BY <1>2, <1>5, <1>6, <2>2 DEF RecursionBody
    <2>4. n = 0 => g[n] = 0
        BY <1>6 DEF RecursionBody
    <2> QED
        BY <1>3, <2>3, <2>4 DEF GainsBody
<1>8. g = [n \in Nat |-> GainsBody(g, P, n)]
    BY <1>7
<1>9. \E f : f = [n \in Nat |-> GainsBody(f, P, n)]
    BY <1>8
<1> DEFINE G == Gains(P)
<1>10. G = CHOOSE f : f = [n \in Nat |-> GainsBody(f, P, n)]
    BY DEF Gains, GainsBody
<1> HIDE DEF G
<1>11. G = [n \in Nat |-> GainsBody(G, P, n)]
    BY <1>9, <1>10
<1>12. G[0] = 0
    BY <1>11 DEF GainsBody
<1>13. ASSUME NEW n \in Nat PROVE G[n + 1] = G[n] + Worth(n + 1)
    <2>1. n + 1 \in Nat /\ n + 1 # 0 /\ n + 1 - 1 = n
        OBVIOUS
    <2>2. G[n + 1] = GainsBody(G, P, n + 1)
        BY <1>11, <2>1
    <2> QED
        BY <1>3, <2>1, <2>2 DEF GainsBody
<1> DEFINE T == {n \in Nat : G[n] \in Nat}
<1>14. ASSUME NEW n \in T PROVE n + 1 \in T
    <2>1. n \in Nat /\ G[n] \in Nat /\ Worth(n + 1) \in Nat
        BY <1>1, <1>14
    <2> QED
        BY <1>13, <2>1
<1>15. T = Nat
    <2>1. T \subseteq Nat /\ 0 \in T
        BY <1>12
    <2> HIDE DEF T
    <2> QED
        BY <1>14, <2>1, NatSets
<1>16. G \in [Nat -> Nat]
    BY <1>11, <1>15
<1>17. \A n \in Nat : G[n + 1] = G[n] + (IF n + 1 \in P THEN Discount[n + 1] ELSE 0)
    BY <1>3, <1>13
<1> QED
    BY <1>12, <1>16, <1>17 DEF G

\* How many of some positions are among the first.
Count(P, n) == Cardinality(P \cap 1 .. n)

\* Counting position by position.
LEMMA CountsAre ==
    ASSUME NEW P, P \subseteq Positions, NEW n \in Nat
    PROVE  /\ Count(P, n) \in Nat /\ Count(P, n) <= n /\ Count(P, 0) = 0
           /\ Count(P, n + 1) = Count(P, n) + (IF n + 1 \in P THEN 1 ELSE 0)
<1> DEFINE A == P \cap 1 .. n  B == P \cap 1 .. n + 1
<1>1. IsFiniteSet(1 .. n) /\ Cardinality(1 .. n) = n
    BY FS_Interval
<1>2. IsFiniteSet(A) /\ Cardinality(A) \in Nat /\ Cardinality(A) <= n
    BY <1>1, FS_Subset, FS_CardinalityType
<1>3. n + 1 \notin A
    OBVIOUS
<1>4. B = IF n + 1 \in P THEN A \cup {n + 1} ELSE A
    <2>1. 1 .. n + 1 = 1 .. n \cup {n + 1}
        OBVIOUS
    <2> QED
        BY <2>1
<1>5. P \cap 1 .. 0 = {}
    OBVIOUS
<1> HIDE DEF A, B
<1>6. Cardinality(B) = Cardinality(A) + (IF n + 1 \in P THEN 1 ELSE 0)
    <2>1. Cardinality(A \cup {n + 1}) = Cardinality(A) + 1
        BY <1>2, <1>3, FS_AddElement
    <2> QED
        BY <1>2, <1>4, <2>1
<1>7. Cardinality({}) = 0
    BY FS_EmptySet
<1> QED
    BY <1>2, <1>5, <1>6, <1>7 DEF Count, A, B

\* Positions that come no later, one by one, are worth no less.
LEMMA EarlierIsWorthMore ==
    ASSUME NEW P, P \subseteq Positions, NEW Q, Q \subseteq Positions,
           NEW k \in Nat, k <= Len(Discount),
           \A n \in 0 .. k : Count(P, n) <= Count(Q, n)
    PROVE  Gains(P)[k] <= Gains(Q)[k]
<1> DEFINE G == Gains(P)  H == Gains(Q)
           c(n) == Count(P, n)  d(n) == Count(Q, n)
           \* Each position that Q is ahead is worth at least w so far.
           Ahead(n) == \A w \in Nat : (n = 0 \/ w <= Discount[n])
                                      => G[n] + (d(n) - c(n)) * w <= H[n]
           T == {n \in Nat : n <= k => Ahead(n)}
<1>1. /\ G \in [Nat -> Nat] /\ G[0] = 0
      /\ H \in [Nat -> Nat] /\ H[0] = 0
      /\ \A n \in Nat :
             /\ G[n + 1] = G[n] + (IF n + 1 \in P THEN Discount[n + 1] ELSE 0)
             /\ H[n + 1] = H[n] + (IF n + 1 \in Q THEN Discount[n + 1] ELSE 0)
    BY GainsAre
<1>2. \A n \in Nat :
          /\ c(n) \in Nat /\ c(0) = 0 /\ c(n + 1) = c(n) + (IF n + 1 \in P THEN 1 ELSE 0)
          /\ d(n) \in Nat /\ d(0) = 0 /\ d(n + 1) = d(n) + (IF n + 1 \in Q THEN 1 ELSE 0)
    BY CountsAre
<1>3. \A n \in 0 .. k : c(n) <= d(n)
    OBVIOUS
<1> HIDE DEF G, H, c, d
<1>4. 0 \in T
    <2>1. \A w \in Nat : (d(0) - c(0)) * w = 0
        BY <1>2
    <2> QED
        BY <1>1, <2>1
<1>5. ASSUME NEW n \in T PROVE n + 1 \in T
    <2> SUFFICES ASSUME n + 1 <= k, NEW w \in Nat, w <= Discount[n + 1]
                 PROVE  G[n + 1] + (d(n + 1) - c(n + 1)) * w <= H[n + 1]
        BY <1>5
    <2> DEFINE v == Discount[n + 1]  x == IF n + 1 \in P THEN 1 ELSE 0
               y == IF n + 1 \in Q THEN 1 ELSE 0
    <2>1. n \in Nat /\ n + 1 \in Nat /\ n + 1 \in 0 .. k /\ n + 1 \in Positions
        BY <1>5, DiscountsFall
    <2>2. v \in Nat /\ (n = 0 \/ v <= Discount[n])
        <3>1. v \in Nat
            BY <2>1, DiscountsFall
        <3>2. n # 0 => n \in Positions /\ n < n + 1
            BY <2>1, DiscountsFall
        <3>3. n # 0 => Discount[n + 1] < Discount[n] /\ Discount[n] \in Nat
            BY <2>1, <3>2, DiscountsFall
        <3> QED
            BY <3>1, <3>3
    <2>3. G[n] + (d(n) - c(n)) * v <= H[n]
        <3>1. Ahead(n)
            BY <1>5, <2>1
        <3> HIDE DEF v
        <3> QED
            BY <2>2, <3>1
    <2> DEFINE a == G[n]  b == H[n]  i == c(n)  j == d(n)
    <2>4. /\ a \in Nat /\ b \in Nat /\ i \in Nat /\ j \in Nat
          /\ x \in Nat /\ y \in Nat /\ w \in Nat /\ w <= v
        BY <1>1, <1>2, <2>1
    <2>5. /\ G[n + 1] = a + x * v /\ H[n + 1] = b + y * v
          /\ c(n + 1) = i + x /\ d(n + 1) = j + y
        <3>1. /\ G[n + 1] = a + (IF n + 1 \in P THEN v ELSE 0)
              /\ H[n + 1] = b + (IF n + 1 \in Q THEN v ELSE 0)
              /\ c(n + 1) = i + x /\ d(n + 1) = j + y
            BY <1>1, <1>2, <2>1
        <3>2. 1 * v = v /\ 0 * v = 0
            BY <2>2
        <3> HIDE DEF a, b, i, j, v
        <3> QED
            BY <3>1, <3>2
    <2>6. i + x <= j + y
        BY <1>3, <2>1, <2>5
    <2> HIDE DEF v, x, y, a, b, i, j
    <2>7. PICK e \in Nat : j + y = i + x + e
        <3>1. j + y - (i + x) \in Nat /\ j + y = i + x + (j + y - (i + x))
            BY <2>4, <2>6
        <3> QED
            BY <3>1
    <2>8. (j - i) * v + y * v = x * v + e * v
        <3>1. (j - i) * v + y * v = (j - i + y) * v
            BY <2>2, <2>4
        <3>2. j - i + y = x + e
            BY <2>4, <2>7
        <3>3. (x + e) * v = x * v + e * v
            BY <2>2, <2>4
        <3> QED
            BY <3>1, <3>2, <3>3
    <2>9. e * w <= e * v
        <3>1. PICK u \in Nat : v = w + u
            <4>1. v - w \in Nat /\ v = w + (v - w)
                BY <2>2, <2>4
            <4> QED
                BY <4>1
        <3>2. e * v = e * w + e * u
            BY <2>4, <3>1
        <3>3. e * u \in Nat /\ e * w \in Nat
            OBVIOUS
        <3> QED
            BY <3>2, <3>3
    <2>10. a + x * v + e * w <= b + y * v
        <3> DEFINE p == (j - i) * v  q == x * v  r == y * v  s == e * v  t == e * w
        <3>1. p \in Int /\ q \in Int /\ r \in Int /\ s \in Int /\ t \in Int
            BY <2>2, <2>4
        <3>2. a + p <= b /\ p + r = q + s /\ t <= s
            BY <2>3, <2>8, <2>9 DEF a, b, i, j
        <3> HIDE DEF p, q, r, s, t
        <3>3. a + q + t <= b + r
            BY <2>4, <3>1, <3>2
        <3> QED
            BY <3>3 DEF p, q, r, s, t
    <2>11. d(n + 1) - c(n + 1) = e
        BY <2>4, <2>5, <2>7
    <2> QED
        BY <2>5, <2>10, <2>11
<1>6. T = Nat
    <2>1. T \subseteq Nat
        OBVIOUS
    <2> HIDE DEF T
    <2> QED
        BY <1>4, <1>5, <2>1, NatSets
<1>7. Ahead(k)
    <2>1. k \in T
        BY <1>6
    <2> HIDE DEF Ahead
    <2> QED
        BY <2>1
<1>8. G[k] + (d(k) - c(k)) * 0 <= H[k]
    <2>1. k # 0 => Discount[k] \in Nat
        BY DiscountsFall
    <2>2. k = 0 \/ 0 <= Discount[k]
        BY <2>1
    <2> QED
        BY <1>7, <2>2
<1>9. (d(k) - c(k)) * 0 = 0 /\ G[k] \in Nat
    BY <1>1, <1>2
<1>10. G[k] <= H[k]
    BY <1>8, <1>9
<1> QED
    BY <1>10 DEF G, H

\* One more position from the beginning is worth more.
LEMMA FirstsAreWorthMore ==
    ASSUME NEW a \in Nat, NEW b \in Nat, a < b, b <= Len(Discount)
    PROVE  Gains(Positions)[a] < Gains(Positions)[b]
<1> DEFINE F == Gains(Positions)
           T == {n \in Nat : a < n /\ n <= Len(Discount) => F[a] < F[n]}
<1>1. F \in [Nat -> Nat] /\ \A n \in Nat : n + 1 \in Positions => F[n + 1] = F[n] + Discount[n + 1]
    BY GainsAre
<1> HIDE DEF F
<1>2. 0 \in T
    OBVIOUS
<1>3. ASSUME NEW n \in T PROVE n + 1 \in T
    <2> SUFFICES ASSUME a < n + 1, n + 1 <= Len(Discount) PROVE F[a] < F[n + 1]
        BY <1>3
    <2>1. n \in Nat /\ n + 1 \in Positions
        BY <1>3, DiscountsFall
    <2>2. Discount[n + 1] \in Nat \ {0} /\ F[n + 1] = F[n] + Discount[n + 1] /\ F[n] \in Nat
        BY <1>1, <2>1, DiscountsFall
    <2>3. a = n \/ F[a] < F[n]
        BY <1>3, <2>1, DiscountsFall
    <2>4. F[a] \in Nat
        BY <1>1
    <2>5. F[n] < F[n + 1]
        BY <2>2
    <2>6. F[a] <= F[n]
        BY <2>2, <2>3, <2>4
    <2> QED
        BY <2>2, <2>4, <2>5, <2>6
<1>4. T = Nat
    <2>1. T \subseteq Nat
        OBVIOUS
    <2> HIDE DEF T
    <2> QED
        BY <1>2, <1>3, <2>1, NatSets
<1>5. F[a] < F[b]
    <2>1. b \in T
        BY <1>4
    <2> QED
        BY <2>1
<1> QED
    BY <1>5 DEF F

\* Some positions are worth no more than as many from the beginning, as much
\* if they are those, and nothing if there are none.
LEMMA FirstsAreBest ==
    ASSUME NEW P, P \subseteq Positions, NEW k \in Nat, k <= Len(Discount)
    PROVE  /\ Gains(P)[k] <= Gains(Positions)[Count(P, k)]
           /\ Gains(P)[k] = Gains(Positions)[Count(P, k)] <=> P \cap 1 .. k = 1 .. Count(P, k)
           /\ Gains(P)[k] = 0 <=> P \cap 1 .. k = {}
<1> DEFINE G == Gains(P)  F == Gains(Positions)  c(n) == Count(P, n)
           Optimal(n) ==
               /\ G[n] <= F[c(n)]
               /\ G[n] = F[c(n)] <=> P \cap 1 .. n = 1 .. c(n)
               /\ G[n] = 0 <=> P \cap 1 .. n = {}
           T == {n \in Nat : n <= k => Optimal(n)}
<1>1. /\ G \in [Nat -> Nat] /\ G[0] = 0 /\ F \in [Nat -> Nat] /\ F[0] = 0
      /\ \A n \in Nat :
             /\ G[n + 1] = G[n] + (IF n + 1 \in P THEN Discount[n + 1] ELSE 0)
             /\ n + 1 \in Positions => F[n + 1] = F[n] + Discount[n + 1]
    BY GainsAre
<1>2. \A n \in Nat :
          /\ c(n) \in Nat /\ c(n) <= n /\ c(0) = 0
          /\ c(n + 1) = c(n) + (IF n + 1 \in P THEN 1 ELSE 0)
    BY CountsAre
<1> HIDE DEF G, F, c
<1>3. 0 \in T
    <2>1. P \cap 1 .. 0 = {} /\ 1 .. 0 = {}
        OBVIOUS
    <2> QED
        BY <1>1, <1>2, <2>1
<1>4. ASSUME NEW n \in T PROVE n + 1 \in T
    <2> SUFFICES ASSUME n + 1 <= k PROVE Optimal(n + 1)
        BY <1>4
    <2>1. n \in Nat /\ n <= k /\ n + 1 \in Positions /\ Optimal(n)
        BY <1>4, DiscountsFall
    <2>2. 1 .. n + 1 = 1 .. n \cup {n + 1} /\ n + 1 \notin 1 .. n
        BY <2>1
    <2>5. /\ G[n + 1] = G[n] + (IF n + 1 \in P THEN Discount[n + 1] ELSE 0)
          /\ G[n] \in Nat
        BY <1>1, <2>1
    <2>6. /\ c(n) \in Nat /\ c(n) <= n
          /\ c(n + 1) = c(n) + (IF n + 1 \in P THEN 1 ELSE 0)
        BY <1>2, <2>1
    <2>3. CASE n + 1 \notin P
        <3>1. P \cap 1 .. n + 1 = P \cap 1 .. n
            BY <2>2, <2>3
        <3>2. G[n + 1] = G[n] /\ c(n + 1) = c(n)
            BY <2>3, <2>5, <2>6
        <3> QED
            BY <2>1, <3>1, <3>2
    <2>4. CASE n + 1 \in P
        <3> DEFINE m == c(n)
        <3>1. /\ m \in Nat /\ m <= n /\ c(n + 1) = m + 1
              /\ G[n + 1] = G[n] + Discount[n + 1] /\ G[n] \in Nat /\ F[m] \in Nat
            BY <1>1, <2>4, <2>5, <2>6
        <3>2. m + 1 \in Positions /\ F[m + 1] = F[m] + Discount[m + 1]
            <4>1. m + 1 \in Positions
                BY <2>1, <3>1, DiscountsFall
            <4> HIDE DEF m
            <4> QED
                BY <1>1, <3>1, <4>1
        <3>3. /\ Discount[n + 1] \in Nat \ {0} /\ Discount[m + 1] \in Nat
              /\ m < n => Discount[n + 1] < Discount[m + 1]
            BY <2>1, <3>1, <3>2, DiscountsFall
        <3>4. G[n] <= F[m] /\ (G[n] = F[m] <=> P \cap 1 .. n = 1 .. m)
            BY <2>1
        <3> HIDE DEF m
        <3>5. m = n \/ m < n
            BY <2>1, <3>1
        <3>6. m = n => Discount[n + 1] = Discount[m + 1]
            OBVIOUS
        <3>7. /\ G[n + 1] <= F[m + 1] /\ G[n + 1] # 0
              /\ G[n + 1] = F[m + 1] <=> G[n] = F[m] /\ m = n
            <4> DEFINE x == G[n]  y == F[m]  v == Discount[n + 1]  w == Discount[m + 1]
            <4>1. /\ x \in Nat /\ y \in Nat /\ v \in Nat \ {0} /\ w \in Nat
                  /\ x <= y /\ v <= w /\ (v = w <=> m = n)
                BY <3>1, <3>3, <3>4, <3>5, <3>6
            <4>2. G[n + 1] = x + v /\ F[m + 1] = y + w
                BY <3>1, <3>2
            <4> HIDE DEF x, y, v, w
            <4>3. x + v <= y + w /\ x + v # 0 /\ (x + v = y + w <=> x = y /\ v = w)
                BY <4>1
            <4> QED
                BY <4>1, <4>2, <4>3 DEF x, y
        <3>8. P \cap 1 .. n + 1 = (P \cap 1 .. n) \cup {n + 1}
            BY <2>2, <2>4
        <3>9. P \cap 1 .. n + 1 = 1 .. m + 1 <=> P \cap 1 .. n = 1 .. m /\ m = n
            <4>1. ASSUME P \cap 1 .. n + 1 = 1 .. m + 1 PROVE P \cap 1 .. n = 1 .. m /\ m = n
                <5>1. n + 1 \in 1 .. m + 1
                    BY <3>8, <4>1
                <5>2. m = n
                    BY <2>1, <3>1, <5>1
                <5>3. P \cap 1 .. n = 1 .. n
                    BY <2>2, <3>8, <4>1, <5>2
                <5> QED
                    BY <5>2, <5>3
            <4>2. ASSUME P \cap 1 .. n = 1 .. m, m = n PROVE P \cap 1 .. n + 1 = 1 .. m + 1
                BY <2>2, <3>8, <4>2
            <4> QED
                BY <4>1, <4>2
        <3>10. P \cap 1 .. n + 1 # {}
            BY <3>8
        <3>11. /\ G[n + 1] <= F[c(n + 1)]
               /\ G[n + 1] = F[c(n + 1)] <=> P \cap 1 .. n + 1 = 1 .. c(n + 1)
            BY <3>1, <3>4, <3>7, <3>9
        <3> QED
            BY <3>7, <3>10, <3>11
    <2> QED
        BY <2>3, <2>4
<1>5. T = Nat
    <2>1. T \subseteq Nat
        OBVIOUS
    <2> HIDE DEF T
    <2> QED
        BY <1>3, <1>4, <2>1, NatSets
<1>6. Optimal(k)
    <2>1. k \in T
        BY <1>5
    <2> HIDE DEF Optimal
    <2> QED
        BY <2>1
<1> QED
    BY <1>6 DEF G, F, c

\* Where the relevant results are.
LEMMA RelevantAre ==
    ASSUME NEW s \in Seq(Chunks), \A i, j \in 1 .. Len(s) : s[i] = s[j] => i = j,
           NEW golden, IsFiniteSet(golden), NEW k \in Nat, k <= Len(Discount)
    PROVE  LET R == Relevant(s, golden, k) IN
           /\ R \subseteq Positions /\ R \subseteq 1 .. k /\ R \cap 1 .. k = R
           /\ IsFiniteSet(R) /\ Count(R, k) = Cardinality(R)
           /\ Cardinality(R) \in Nat /\ Cardinality(R) <= k
           /\ Cardinality(golden) \in Nat /\ Cardinality(R) <= Cardinality(golden)
<1> DEFINE R == Relevant(s, golden, k)
           found == [i \in R |-> s[i]]
<1>1. DOMAIN s = 1 .. Len(s) /\ Len(s) \in Nat
    BY LenProperties
<1>2. R \subseteq 1 .. Len(s) /\ R \subseteq 1 .. k /\ R \subseteq Positions
    BY <1>1, DiscountsFall DEF Relevant
<1>3. \A i \in R : s[i] \in golden
    BY DEF Relevant
<1> HIDE DEF R
<1>4. IsFiniteSet(1 .. k) /\ Cardinality(1 .. k) = k
    BY FS_Interval
<1>5. IsFiniteSet(R) /\ Cardinality(R) \in Nat /\ Cardinality(R) <= k
    <2>1. IsFiniteSet(R) /\ Cardinality(R) <= Cardinality(1 .. k)
        BY <1>2, <1>4, FS_Subset
    <2> QED
        BY <1>4, <2>1, FS_CardinalityType
<1>6. found \in Injection(R, golden)
    <2>1. \A i, j \in R : s[i] = s[j] => i = j
        BY <1>2
    <2>2. found \in [R -> golden] /\ \A i \in R : found[i] = s[i]
        BY <1>3
    <2> HIDE DEF found
    <2>3. IsInjective(found)
        BY <2>1, <2>2 DEF IsInjective
    <2> QED
        BY <2>2, <2>3 DEF Injection
<1>7. Cardinality(golden) \in Nat /\ Cardinality(R) <= Cardinality(golden)
    BY <1>6, FS_Injection, FS_CardinalityType
<1>8. R \cap 1 .. k = R
    BY <1>2
<1>9. Count(R, k) = Cardinality(R)
    BY <1>8 DEF Count
<1> QED
    BY <1>2, <1>5, <1>7, <1>8, <1>9 DEF R

\* The scores of one ranking.
LEMMA MetricsAreSound ==
    ASSUME NEW s \in Seq(Chunks), \A i, j \in 1 .. Len(s) : s[i] = s[j] => i = j,
           NEW golden, IsFiniteSet(golden), NEW k \in 1 .. Len(Discount)
    PROVE  LET score == MetricsAtK(s, golden, k) IN
           /\ score.ndcg[1] <= score.ndcg[2]
           /\ Reaches(score.ndcg) <=> IsBest(s, golden, k)
           /\ (score.hit = 0) <=> (score.ndcg[1] = 0)
<1> DEFINE R == Relevant(s, golden, k)
           n == IF Cardinality(golden) < k THEN Cardinality(golden) ELSE k
           m == Cardinality(R)
           F == Gains(Positions)  G == Gains(R)
           score == MetricsAtK(s, golden, k)
<1>1. k \in Nat /\ k <= Len(Discount) /\ Len(Discount) \in Nat
    BY DiscountsFall
<1>2. /\ R \subseteq Positions /\ R \subseteq 1 .. k /\ R \cap 1 .. k = R /\ Count(R, k) = m
      /\ m \in Nat /\ m <= k /\ Cardinality(golden) \in Nat /\ m <= Cardinality(golden)
      /\ IsFiniteSet(R)
    BY <1>1, RelevantAre
<1>3. /\ score.hit = (IF R = {} THEN 0 ELSE 1)
      /\ score.ndcg[1] = G[k] /\ score.ndcg[2] = F[n]
    BY DEF MetricsAtK, Ideal, Positions
<1> DEFINE IsFirst(i) == i <= Cardinality(golden) => i <= Len(s) /\ s[i] \in golden
<1>4. IsBest(s, golden, k) <=> \A i \in 1 .. k : IsFirst(i)
    BY DEF IsBest
<1>5. DOMAIN s = 1 .. Len(s) /\ Len(s) \in Nat
    BY LenProperties
<1>6. \A i \in 1 .. k : i \in R <=> i <= Len(s) /\ s[i] \in golden
    BY <1>1, <1>5 DEF Relevant
<1>7. n \in Nat /\ n <= k /\ m <= n /\ \A i \in 1 .. k : i <= n <=> i <= Cardinality(golden)
    BY <1>1, <1>2
<1> HIDE DEF R, n, m, F, G, score
<1>8. IsBest(s, golden, k) <=> 1 .. n \subseteq R
    <2>1. \A i \in 1 .. k : IsFirst(i) <=> (i \in 1 .. n => i \in R)
        BY <1>1, <1>6, <1>7
    <2> HIDE DEF IsFirst
    <2>2. \A i : i \in 1 .. n => i \in 1 .. k
        BY <1>1, <1>7
    <2> QED
        BY <1>4, <2>1, <2>2
<1>9. 1 .. n \subseteq R <=> m = n /\ R = 1 .. m
    <2>1. ASSUME 1 .. n \subseteq R PROVE m = n /\ R = 1 .. n
        <3>1. IsFiniteSet(R) /\ IsFiniteSet(1 .. n) /\ Cardinality(1 .. n) = n
            <4>1. n \in Nat
                BY <1>7
            <4>2. IsFiniteSet(1 .. n) /\ Cardinality(1 .. n) = n
                BY <4>1, FS_Interval
            <4> QED
                BY <1>2, <4>2
        <3>2. n <= m
            <4>1. Cardinality(1 .. n) <= Cardinality(R)
                BY <2>1, <3>1, FS_Subset
            <4> QED
                BY <3>1, <4>1 DEF m
        <3>3. m = n
            BY <1>2, <1>7, <3>2
        <3> QED
            BY <2>1, <3>1, <3>3, FS_Subset DEF m
    <2> QED
        BY <2>1
<1>10. /\ G[k] <= F[m] /\ (G[k] = F[m] <=> R = 1 .. m) /\ (G[k] = 0 <=> R = {})
    <2>1. /\ Gains(R)[k] <= Gains(Positions)[Count(R, k)]
          /\ Gains(R)[k] = Gains(Positions)[Count(R, k)] <=> R \cap 1 .. k = 1 .. Count(R, k)
          /\ Gains(R)[k] = 0 <=> R \cap 1 .. k = {}
        BY <1>1, <1>2, FirstsAreBest
    <2> QED
        BY <1>2, <2>1 DEF F, G
<1>11. m < n => F[m] < F[n]
    BY <1>1, <1>2, <1>7, FirstsAreWorthMore DEF F
<1>12. F \in [Nat -> Nat] /\ G \in [Nat -> Nat]
    BY <1>2, GainsAre DEF F, G
<1>13. F[m] \in Nat /\ F[n] \in Nat /\ G[k] \in Nat
    BY <1>1, <1>2, <1>7, <1>12
<1>14. /\ G[k] <= F[n] /\ (G[k] = F[n] <=> m = n /\ R = 1 .. m)
    BY <1>2, <1>7, <1>10, <1>11, <1>13
<1>15. /\ score.ndcg[1] <= score.ndcg[2]
       /\ Reaches(score.ndcg) <=> IsBest(s, golden, k)
       /\ (score.hit = 0) <=> (score.ndcg[1] = 0)
    BY <1>3, <1>8, <1>9, <1>10, <1>14 DEF Reaches
<1> QED
    BY <1>15 DEF score

\* A larger k loses neither hits nor recall.
LEMMA MetricsGrow ==
    ASSUME NEW s \in Seq(Chunks), \A i, j \in 1 .. Len(s) : s[i] = s[j] => i = j,
           NEW golden, IsFiniteSet(golden), NEW k \in 1 .. Len(Discount),
           NEW j \in 1 .. Len(Discount), j <= k
    PROVE  /\ MetricsAtK(s, golden, j).hit <= MetricsAtK(s, golden, k).hit
           /\ MetricsAtK(s, golden, j).recall[1] <= MetricsAtK(s, golden, k).recall[1]
<1> DEFINE R(n) == Relevant(s, golden, n)
<1>1. \A n : /\ MetricsAtK(s, golden, n).hit = (IF R(n) = {} THEN 0 ELSE 1)
             /\ MetricsAtK(s, golden, n).recall[1] = Cardinality(R(n))
    BY DEF MetricsAtK
<1>2. R(j) \subseteq R(k)
    <2>1. DOMAIN s \subseteq Nat
        BY LenProperties
    <2>2. j \in Nat /\ k \in Nat
        BY DiscountsFall
    <2> QED
        BY <2>1, <2>2 DEF Relevant
<1>3. IsFiniteSet(R(k)) /\ Cardinality(R(k)) \in Nat
    <2>1. k \in Nat /\ k <= Len(Discount)
        BY DiscountsFall
    <2> QED
        BY <2>1, RelevantAre
<1> HIDE DEF R
<1>4. Cardinality(R(j)) <= Cardinality(R(k))
    BY <1>2, <1>3, FS_Subset
<1>5. R(j) # {} => R(k) # {}
    BY <1>2
<1> QED
    BY <1>1, <1>4, <1>5

\* nDCG is at most one, which it is for the best results only, and nothing
\* exactly without a hit; a larger k loses no hit and no recall.
THEOREM ScoresSound == EvaluationSpec => []ScoresAreSound
<1>1. SInv => ScoresAreSound
    <2> SUFFICES ASSUME SInv, NEW row \in {report.on, report.off}, Measured(row), NEW k \in KValues
                 PROVE  LET score == row.metrics[k] IN
                        /\ score.ndcg[1] <= score.ndcg[2]
                        /\ Reaches(score.ndcg) <=> IsBest(row.stages.results, report.golden, k)
                        /\ (score.hit = 0) <=> (score.ndcg[1] = 0)
                        /\ \A j \in KValues : j <= k =>
                               /\ row.metrics[j].hit <= score.hit
                               /\ row.metrics[j].recall[1] <= score.recall[1]
        BY DEF ScoresAreSound
    <2> DEFINE s == row.stages.results  golden == report.golden
    <2>1. IsRow(row, golden) /\ IsFiniteSet(golden) /\ IsRelevance(relevance)
        BY RelevanceIsTyped, RowsAre DEF SInv, Measured
    <2>2. \A j \in KValues : row.metrics[j] = MetricsAtK(s, golden, j)
        BY <2>1 DEF IsRow, Measured
    <2>3. s \in Seq(Chunks) /\ \A i, j \in 1 .. Len(s) : s[i] = s[j] => i = j
        <3>1. /\ IsRequest(row.request) /\ row.stored \in Corpora
              /\ \E full : Arranged(relevance, row.request, row.stored, row.stages, full)
            BY <2>1 DEF IsRow, IsSearch
        <3> QED
            BY <2>1, <3>1, ResultsAre
    <2>4. \A j \in KValues : j \in 1 .. Len(Discount)
        BY EvaluationAssumption, DiscountsFall
    <2> HIDE DEF s, golden
    <2>5. LET score == MetricsAtK(s, golden, k) IN
          /\ score.ndcg[1] <= score.ndcg[2]
          /\ Reaches(score.ndcg) <=> IsBest(s, golden, k)
          /\ (score.hit = 0) <=> (score.ndcg[1] = 0)
        BY <2>1, <2>3, <2>4, MetricsAreSound
    <2>6. ASSUME NEW j \in KValues, j <= k
          PROVE  /\ MetricsAtK(s, golden, j).hit <= MetricsAtK(s, golden, k).hit
                 /\ MetricsAtK(s, golden, j).recall[1] <= MetricsAtK(s, golden, k).recall[1]
        BY <2>1, <2>3, <2>4, <2>6, MetricsGrow
    <2> QED
        BY <2>2, <2>5, <2>6 DEF s, golden
<1> QED
    BY <1>1, SearchInductive, PTL

-----------------------------------------------------------------------------
(* What the report says.                                                   *)

\* The first of some positions.
LEMMA FirstIs ==
    ASSUME NEW S, S \subseteq Nat, S # {}
    PROVE  First(S) \in S /\ \A j \in S : First(S) <= j
<1>1. PICK m \in S : \A y \in S : ~(<<y, m>> \in OpToRel(<, Nat))
    BY NatLessThanWellFounded, WFMin
<1>2. \A y \in S : m <= y
    <2> SUFFICES ASSUME NEW y \in S, y < m PROVE FALSE
        OBVIOUS
    <2>1. <<y, m>> \in Nat \X Nat /\ <<y, m>>[1] < <<y, m>>[2]
        OBVIOUS
    <2>2. <<y, m>> \in OpToRel(<, Nat)
        BY <2>1, Zenon DEF OpToRel
    <2> QED
        BY <1>1, <2>2
<1> QED
    BY <1>2 DEF First

\* The best position of a golden chunk.
LEMMA BestIs ==
    ASSUME NEW s \in Seq(Chunks), NEW golden
    PROVE  /\ Best(s, golden) # 0 <=> ToSet(s) \cap golden # {}
           /\ Best(s, golden) \in Nat
           /\ Best(s, golden) # 0 =>
                  /\ Best(s, golden) \in 1 .. Len(s) /\ s[Best(s, golden)] \in golden
                  /\ \A j \in 1 .. Len(s) : s[j] \in golden => Best(s, golden) <= j
<1> DEFINE P == Relevant(s, golden, Len(s))
<1>1. DOMAIN s = 1 .. Len(s) /\ Len(s) \in Nat
    BY LenProperties
<1>2. P = {i \in 1 .. Len(s) : s[i] \in golden}
    BY <1>1 DEF Relevant
<1>3. Best(s, golden) = IF P = {} THEN 0 ELSE First(P)
    BY DEF Best
<1> HIDE DEF P
<1>4. P # {} => First(P) \in P /\ \A j \in P : First(P) <= j
    <2>1. P \subseteq Nat
        BY <1>2
    <2> QED
        BY <2>1, FirstIs
<1>5. P # {} <=> ToSet(s) \cap golden # {}
    BY <1>1, <1>2 DEF ToSet
<1>6. P # {} => First(P) # 0
    BY <1>2, <1>4
<1> QED
    BY <1>2, <1>3, <1>4, <1>5, <1>6

\* What is kept of an arrangement is arranged.
LEMMA TopIsArranged ==
    ASSUME NEW S \in Corpora, NEW k \in Keys, NEW s, Arranges(s, S, k), NEW depth \in Nat
    PROVE  ToSet(Top(s, depth)) \in Corpora /\ Arranges(Top(s, depth), ToSet(Top(s, depth)), k)
<1> DEFINE t == Top(s, depth)  n == Len(t)  T == ToSet(t)
<1>1. /\ s \in Seq(S) /\ Len(s) \in Nat /\ S \subseteq Chunks
      /\ \A i, j \in 1 .. Len(s) :
             /\ s[i] = s[j] => i = j
             /\ i < j => Precedes3(k, s[i], s[j])
    BY ArrangedPlaces DEF Corpora
<1>2. /\ t \in Seq(S) /\ n \in Nat /\ n <= Len(s) /\ DOMAIN t = 1 .. n
      /\ \A i \in 1 .. n : t[i] = s[i]
    BY <1>1, TopIs
<1> HIDE DEF t
<1>3. t \in Seq(Chunks)
    BY <1>1, <1>2, SeqMonotonic
<1>4. T \in Corpora
    BY <1>3, RankedIsCorpus
<1>5. t \in [1 .. n -> T] /\ \A c \in T : \E i \in 1 .. n : t[i] = c
    BY <1>2, LenProperties DEF ToSet
<1>6. \A i, j \in 1 .. n : t[i] = t[j] => i = j
    BY <1>1, <1>2
<1>7. Cardinality(T) = n
    <2>0. n \in Nat
        BY <1>2
    <2>1. IsFiniteSet(1 .. n) /\ Cardinality(1 .. n) = n
        <3> HIDE DEF n
        <3> QED
            BY <2>0, FS_Interval
    <2>2. t \in Surjection(1 .. n, T)
        BY <1>5 DEF Surjection
    <2>3. t \in Injection(1 .. n, T)
        BY <1>5, <1>6 DEF Injection, IsInjective
    <2> HIDE DEF n, T
    <2>4. Cardinality(T) = Cardinality(1 .. n)
        BY <2>1, <2>2, <2>3, FS_Surjection
    <2> QED
        BY <2>1, <2>4
<1>8. \A i, j \in 1 .. n : i < j => Precedes3(k, t[i], t[j])
    BY <1>1, <1>2
<1>9. Arranges(t, T, k)
    BY <1>5, <1>7, <1>8 DEF Arranges
<1> QED
    BY <1>4, <1>9 DEF t

\* Without reranking and a preference for recent chunks, the results are the
\* first of the fused candidates.
LEMMA NothingMoves ==
    ASSUME NEW rel, IsRelevance(rel), NEW request, IsRequest(request), NEW chunks \in Corpora,
           NEW st, NEW full, Arranged(rel, request, chunks, st, full),
           ~request.rerank, ~request.preferRecent
    PROVE  st.results = Top(st.fused, request.topK)
<1> DEFINE fusable == ToSet(st.dense) \cup ToSet(st.bm25)
           candidates == ToSet(Candidates(request, st.fused))
           m == FusedKeys(st.dense, st.bm25)
           n == FinalKeys(rel, request, st.dense, st.bm25)
           Score(x) == RRFScore(st.dense, st.bm25, x)
<1>1. /\ fusable \in Corpora /\ candidates \in Corpora
      /\ m \in Keys /\ n \in Keys /\ st.dense \in Rankings /\ st.bm25 \in Rankings
    BY ArrangedStages
<1>2. /\ Arranges(full.fused, fusable, m) /\ st.fused = Top(full.fused, FusedDepth)
      /\ Arranges(full.final, candidates, n)
      /\ st.results = Top(full.final, request.topK)
    BY DEF Arranged
<1>3. candidates = ToSet(st.fused)
    BY DEF Candidates
<1>4. FusedDepth \in Nat
    BY DepthAssumption DEF DepthsAreValid
<1>5. \A x : Score(x) \in Nat
    BY <1>1, ScoresAreNumbers
<1>6. \A x \in Chunks : m[x] = <<-Score(x), 0, 0>>
    BY DEF FusedKeys
<1>7. \A x \in Chunks : n[x] = <<-Score(x), -Score(x), 0>>
    BY DEF FinalKeys
<1> HIDE DEF fusable, candidates, m, n, Score
<1>8. ASSUME NEW c \in Chunks, NEW d \in Chunks, Precedes3(n, c, d) PROVE Precedes3(m, c, d)
    <2>1. /\ n[c][1] = -Score(c) /\ n[c][2] = -Score(c) /\ n[c][3] = 0
          /\ n[d][1] = -Score(d) /\ n[d][2] = -Score(d) /\ n[d][3] = 0
        BY <1>7
    <2>2. /\ m[c][1] = -Score(c) /\ m[c][2] = 0 /\ m[c][3] = 0
          /\ m[d][1] = -Score(d) /\ m[d][2] = 0 /\ m[d][3] = 0
        BY <1>6
    <2>3. -Score(c) < -Score(d) \/ (-Score(c) = -Score(d) /\ c < d)
        <3>1. -Score(c) \in Int /\ -Score(d) \in Int
            BY <1>5
        <3> QED
            BY <1>8, <2>1, <3>1 DEF Precedes3
    <2> QED
        BY <2>2, <2>3 DEF Precedes3
<1>9. Arranges(full.final, candidates, m)
    <2>1. /\ full.final \in [1 .. Cardinality(candidates) -> candidates]
          /\ \A c \in candidates : \E i \in 1 .. Cardinality(candidates) : full.final[i] = c
          /\ \A i, j \in 1 .. Cardinality(candidates) :
                 i < j => Precedes3(n, full.final[i], full.final[j])
        BY <1>2 DEF Arranges
    <2>2. candidates \subseteq Chunks
        BY <1>1 DEF Corpora
    <2>3. \A i \in 1 .. Cardinality(candidates) : full.final[i] \in Chunks
        BY <2>1, <2>2
    <2>4. \A i, j \in 1 .. Cardinality(candidates) :
              i < j => Precedes3(m, full.final[i], full.final[j])
        BY <1>8, <2>1, <2>3
    <2> QED
        BY <2>1, <2>4 DEF Arranges
<1>10. Arranges(st.fused, candidates, m)
    BY <1>1, <1>2, <1>3, <1>4, TopIsArranged
<1>11. full.final = st.fused
    BY <1>1, <1>9, <1>10, ArrangedOnce
<1> QED
    BY <1>2, <1>11

\* Golden chunks that are all found, and no later, in another ranking are worth
\* no more.
LEMMA NothingRaised ==
    ASSUME NEW s \in Seq(Chunks), \A i, j \in 1 .. Len(s) : s[i] = s[j] => i = j,
           NEW t \in Seq(Chunks), \A i, j \in 1 .. Len(t) : t[i] = t[j] => i = j,
           NEW golden, IsFiniteSet(golden), NEW k \in Nat, k <= Len(Discount),
           \A c \in golden \cap ToSet(s) : c \in ToSet(t) /\ Rank(t, c) <= Rank(s, c)
    PROVE  Gains(Relevant(s, golden, k))[k] <= Gains(Relevant(t, golden, k))[k]
<1> DEFINE R == Relevant(s, golden, k)  Q == Relevant(t, golden, k)
<1>1. R \subseteq Positions /\ Q \subseteq Positions
    BY RelevantAre
<1>2. /\ DOMAIN s = 1 .. Len(s) /\ Len(s) \in Nat
      /\ DOMAIN t = 1 .. Len(t) /\ Len(t) \in Nat
    BY LenProperties
<1>3. /\ R = {i \in 1 .. Len(s) : i <= k /\ s[i] \in golden}
      /\ Q = {i \in 1 .. Len(t) : i <= k /\ t[i] \in golden}
    BY <1>2 DEF Relevant
<1> DEFINE place == [i \in R |-> Rank(t, s[i])]
<1> HIDE DEF R, Q
<1>4. ASSUME NEW i \in R
      PROVE  place[i] \in 1 .. Len(t) /\ t[place[i]] = s[i] /\ place[i] <= i /\ place[i] \in Q
    <2>1. i \in 1 .. Len(s) /\ i <= k /\ s[i] \in golden /\ s[i] \in ToSet(s)
        BY <1>2, <1>3 DEF ToSet
    <2>2. Rank(s, s[i]) \in 1 .. Len(s) /\ s[Rank(s, s[i])] = s[i]
        BY <2>1, RankIs
    <2>3. Rank(s, s[i]) = i
        BY <2>1, <2>2
    <2>4. s[i] \in ToSet(t) /\ Rank(t, s[i]) <= i
        BY <2>1, <2>3
    <2>5. Rank(t, s[i]) \in 1 .. Len(t) /\ t[Rank(t, s[i])] = s[i]
        BY <2>4, RankIs
    <2>6. place[i] = Rank(t, s[i])
        OBVIOUS
    <2> HIDE DEF place
    <2>7. place[i] <= k
        BY <1>2, <2>1, <2>4, <2>5, <2>6
    <2> QED
        BY <1>3, <2>1, <2>4, <2>5, <2>6, <2>7
<1>5. \A i, j \in R : place[i] = place[j] => i = j
    <2> SUFFICES ASSUME NEW i \in R, NEW j \in R, place[i] = place[j] PROVE i = j
        OBVIOUS
    <2>1. s[i] = s[j]
        BY <1>4
    <2> QED
        BY <1>3, <2>1
<1>6. ASSUME NEW n \in 0 .. k PROVE Count(R, n) <= Count(Q, n)
    <2> DEFINE A == R \cap 1 .. n  B == Q \cap 1 .. n  f == [i \in A |-> place[i]]
    <2>1. n \in Nat
        OBVIOUS
    <2>2. IsFiniteSet(1 .. n)
        BY <2>1, FS_Interval
    <2>3. IsFiniteSet(B)
        BY <2>2, FS_Subset
    <2>4. \A i \in A : f[i] = place[i] /\ i \in R /\ i \in 1 .. n
        OBVIOUS
    <2>5. f \in [A -> B]
        <3>1. ASSUME NEW i \in A PROVE place[i] \in B
            <4>1. i \in R /\ i \in 1 .. n
                BY <2>4
            <4>2. place[i] \in 1 .. Len(t) /\ place[i] <= i /\ place[i] \in Q
                BY <1>4, <4>1
            <4>3. place[i] \in 1 .. n
                BY <1>2, <2>1, <4>1, <4>2
            <4> QED
                BY <4>2, <4>3
        <3> HIDE DEF A, B, place
        <3> QED
            BY <3>1
    <2> HIDE DEF f, A, B, place
    <2>6. f \in Injection(A, B)
        <3>1. \A i, j \in A : f[i] = f[j] => i = j
            BY <1>5, <2>4
        <3> QED
            BY <2>5, <3>1 DEF Injection, IsInjective
    <2>7. Cardinality(A) <= Cardinality(B)
        BY <2>3, <2>6, FS_Injection
    <2> QED
        BY <2>7 DEF Count, A, B
<1>7. Gains(R)[k] <= Gains(Q)[k]
    BY <1>1, <1>6, EarlierIsWorthMore
<1> QED
    BY <1>7 DEF R, Q

\* Where the findings of a row come from.
LEMMA FindingsAre ==
    ASSUME NEW stages, NEW golden,
           stages.fused \in Seq(Chunks), stages.results \in Seq(Chunks)
    PROVE  LET dense == Best(stages.dense, golden)
               bm25 == Best(stages.bm25, golden)
               rrf == Best(stages.fused, golden)
               final == Best(stages.results, golden)
               findings == Analysis(stages, golden)
           IN  /\ "dense_above" \in findings <=> Beats(dense, bm25)
               /\ "bm25_above" \in findings <=> Beats(bm25, dense)
               /\ "one_branch" \in findings => rrf # 0 /\ (dense # 0) # (bm25 # 0)
               /\ "both_branches" \in findings =>
                      /\ rrf # 0 /\ (dense # 0 <=> bm25 # 0)
                      /\ ~Beats(dense, bm25) /\ ~Beats(bm25, dense)
               /\ "not_recovered" \in findings => rrf = 0
               /\ "promoted" \in findings => rrf # 0 /\ final # 0 /\ final < rrf
               /\ "demoted" \in findings => rrf # 0 /\ final # 0 /\ rrf < final
               /\ findings # {}
<1> DEFINE dense == Best(stages.dense, golden)
           bm25 == Best(stages.bm25, golden)
           rrf == Best(stages.fused, golden)
           final == Best(stages.results, golden)
           findings == Analysis(stages, golden)
           oneBranch == rrf # 0 /\ (dense # 0) # (bm25 # 0)
           branches == BranchFindings(dense, bm25) \cup IF oneBranch THEN {"one_branch"} ELSE {}
           notRecovered == golden # {} /\ rrf = 0
           bothBranches == golden # {} /\ rrf # 0 /\ branches = {}
           promoted == rrf # 0 /\ final # 0 /\ final < rrf
           demoted == rrf # 0 /\ final # 0 /\ final > rrf
<1>1. findings = branches \cup (IF notRecovered THEN {"not_recovered"} ELSE {})
                          \cup (IF bothBranches THEN {"both_branches"} ELSE {})
                          \cup (IF promoted THEN {"promoted"} ELSE {})
                          \cup (IF demoted THEN {"demoted"} ELSE {})
                          \cup (IF golden = {} THEN {"out_of_corpus"} ELSE {})
    BY DEF Analysis
<1>2. /\ BranchFindings(dense, bm25) \subseteq {"dense_above", "bm25_above"}
      /\ "dense_above" \in BranchFindings(dense, bm25) <=> Beats(dense, bm25)
      /\ "bm25_above" \in BranchFindings(dense, bm25) <=> Beats(bm25, dense)
    BY DEF BranchFindings
<1>6. rrf \in Nat /\ final \in Nat
    BY BestIs
<1> HIDE DEF dense, bm25, rrf, final, findings
<1>3. /\ "dense_above" \in branches <=> Beats(dense, bm25)
      /\ "bm25_above" \in branches <=> Beats(bm25, dense)
      /\ "one_branch" \in branches => oneBranch
      /\ branches \subseteq {"dense_above", "bm25_above", "one_branch"}
      /\ branches = {} => ~oneBranch
    BY <1>2
<1> HIDE DEF branches
<1>4. /\ "dense_above" \in findings <=> "dense_above" \in branches
      /\ "bm25_above" \in findings <=> "bm25_above" \in branches
      /\ "one_branch" \in findings => "one_branch" \in branches
      /\ "both_branches" \in findings => bothBranches
      /\ "not_recovered" \in findings => notRecovered
      /\ "promoted" \in findings => promoted
      /\ "demoted" \in findings => demoted
    BY <1>1, <1>3
<1>5. findings # {}
    <2>1. /\ golden = {} => "out_of_corpus" \in findings
          /\ notRecovered => "not_recovered" \in findings
          /\ bothBranches => "both_branches" \in findings
          /\ branches \subseteq findings
        BY <1>1
    <2> QED
        BY <2>1
<1>7. demoted => rrf < final
    BY <1>6
<1> QED
    BY <1>3, <1>4, <1>5, <1>7 DEF dense, bm25, rrf, final, findings

\* The best position does not change where a ranking is cut off behind it.
LEMMA BestOfTop ==
    ASSUME NEW s \in Seq(Chunks), NEW depth \in Nat, NEW golden,
           Best(s, golden) # 0, Best(Top(s, depth), golden) # 0
    PROVE  Best(s, golden) = Best(Top(s, depth), golden)
<1> DEFINE t == Top(s, depth)  b == Best(s, golden)  d == Best(t, golden)
<1>1. /\ t \in Seq(Chunks) /\ Len(t) \in Nat /\ Len(t) <= Len(s) /\ Len(t) <= depth
      /\ \A i \in 1 .. Len(s) : i <= depth => i <= Len(t)
      /\ \A i \in 1 .. Len(t) : t[i] = s[i]
    BY TopIs
<1> HIDE DEF t
<1>2. /\ b \in Nat /\ b \in 1 .. Len(s) /\ s[b] \in golden
      /\ \A j \in 1 .. Len(s) : s[j] \in golden => b <= j
    BY BestIs
<1>3. /\ d \in Nat /\ d \in 1 .. Len(t) /\ t[d] \in golden
      /\ \A j \in 1 .. Len(t) : t[j] \in golden => d <= j
    BY <1>1, BestIs DEF t
<1>4. Len(s) \in Nat
    BY LenProperties
<1> HIDE DEF b, d
<1>5. b <= d
    <2>1. d \in 1 .. Len(s) /\ s[d] \in golden
        BY <1>1, <1>3, <1>4
    <2> QED
        BY <1>2, <2>1
<1>6. d <= b
    <2>1. b \in 1 .. Len(t) /\ t[b] \in golden
        BY <1>1, <1>2, <1>3, <1>4, <1>5
    <2> QED
        BY <1>3, <2>1
<1>7. b = d
    BY <1>2, <1>3, <1>5, <1>6
<1> QED
    BY <1>7 DEF b, d, t

\* To be ahead is to have the better of the best positions.
LEMMA AheadIs ==
    ASSUME NEW s \in Seq(Chunks), NEW t \in Seq(Chunks), NEW golden
    PROVE  /\ Has(s, golden) <=> Best(s, golden) # 0
           /\ IsAhead(s, t, golden) <=> Beats(Best(s, golden), Best(t, golden))
<1> DEFINE b == Best(s, golden)  d == Best(t, golden)
<1>1. /\ DOMAIN s = 1 .. Len(s) /\ Len(s) \in Nat
      /\ DOMAIN t = 1 .. Len(t) /\ Len(t) \in Nat
    BY LenProperties
<1>2. /\ b \in Nat /\ (b # 0 <=> ToSet(s) \cap golden # {})
      /\ b # 0 => /\ b \in 1 .. Len(s) /\ s[b] \in golden
                 /\ \A j \in 1 .. Len(s) : s[j] \in golden => b <= j
    BY BestIs
<1>3. /\ d \in Nat /\ (d # 0 <=> ToSet(t) \cap golden # {})
      /\ d # 0 => /\ d \in 1 .. Len(t) /\ t[d] \in golden
                 /\ \A j \in 1 .. Len(t) : t[j] \in golden => d <= j
    BY BestIs
<1> HIDE DEF b, d
<1>4. ASSUME NEW i \in DOMAIN s, s[i] \in golden
      PROVE  b # 0 /\ b <= i
    BY <1>1, <1>2, <1>4 DEF ToSet
<1>5. ASSUME NEW k \in DOMAIN t, t[k] \in golden
      PROVE  d # 0 /\ d <= k
    BY <1>1, <1>3, <1>5 DEF ToSet
<1>6. ASSUME Beats(b, d) PROVE IsAhead(s, t, golden)
    <2>1. b \in DOMAIN s /\ s[b] \in golden
        BY <1>1, <1>2, <1>6 DEF Beats
    <2>2. ASSUME NEW k \in DOMAIN t, t[k] \in golden PROVE b < k
        <3>1. d # 0 /\ d <= k /\ k \in Nat
            BY <1>1, <1>5, <2>2
        <3>2. b < d
            BY <1>6, <3>1 DEF Beats
        <3> QED
            BY <1>2, <1>3, <3>1, <3>2
    <2> QED
        BY <2>1, <2>2 DEF IsAhead
<1>7. ASSUME IsAhead(s, t, golden) PROVE Beats(b, d)
    <2>1. PICK i \in DOMAIN s : /\ s[i] \in golden
                               /\ \A k \in DOMAIN t : t[k] \in golden => i < k
        BY <1>7 DEF IsAhead
    <2>2. b # 0 /\ b <= i /\ i \in Nat
        BY <1>1, <1>4, <2>1
    <2>3. d # 0 => i < d
        BY <1>1, <1>3, <2>1
    <2>4. d = 0 \/ b < d
        BY <1>2, <1>3, <2>2, <2>3
    <2> QED
        BY <2>2, <2>4 DEF Beats
<1>8. Has(s, golden) <=> b # 0
    BY <1>2 DEF Has
<1> QED
    BY <1>6, <1>7, <1>8 DEF b, d

\* A chunk of a branch that the fused ranking does not have was cut off by its
\* depth.
LEMMA NothingIsLost ==
    ASSUME NEW rel, IsRelevance(rel), NEW request, IsRequest(request), NEW chunks \in Corpora,
           NEW st, NEW full, Arranged(rel, request, chunks, st, full),
           Len(st.fused) # FusedDepth
    PROVE  ToSet(st.fused) = ToSet(st.dense) \cup ToSet(st.bm25)
<1> DEFINE fusable == ToSet(st.dense) \cup ToSet(st.bm25)
           k == FusedKeys(st.dense, st.bm25)
           all == full.fused
<1>1. /\ fusable \in Corpora /\ k \in Keys /\ all \in Seq(Chunks) /\ st.fused \in Seq(Chunks)
      /\ ToSet(st.fused) \subseteq fusable
    BY ArrangedStages
<1>2. st.fused = Top(all, FusedDepth) /\ Arranges(all, fusable, k)
    BY DEF Arranged
<1>3. FusedDepth \in Nat
    BY DepthAssumption DEF DepthsAreValid
<1> HIDE DEF fusable, k, all
<1>4. /\ Len(st.fused) \in Nat /\ Len(st.fused) <= FusedDepth
      /\ \A i \in 1 .. Len(all) : i <= FusedDepth => i <= Len(st.fused)
      /\ DOMAIN st.fused = 1 .. Len(st.fused)
      /\ Len(st.fused) <= Len(all)
      /\ \A i \in 1 .. Len(st.fused) : st.fused[i] = all[i]
    BY <1>1, <1>2, <1>3, TopIs
<1>5. Len(all) \in Nat
    BY <1>1, LenProperties
<1>6. Len(all) = Len(st.fused)
    <2> SUFFICES ASSUME Len(st.fused) < Len(all) PROVE FALSE
        BY <1>4, <1>5
    <2>1. Len(st.fused) + 1 \in 1 .. Len(all) /\ Len(st.fused) + 1 <= FusedDepth
        BY <1>3, <1>4, <1>5
    <2>2. Len(st.fused) + 1 <= Len(st.fused)
        BY <1>4, <2>1
    <2> QED
        BY <1>4, <2>2
<1>7. ASSUME NEW c \in fusable PROVE c \in ToSet(st.fused)
    <2>1. PICK i \in 1 .. Cardinality(fusable) : all[i] = c
        BY <1>2 DEF Arranges
    <2>2. DOMAIN all = 1 .. Cardinality(fusable) /\ DOMAIN all = 1 .. Len(all)
        BY <1>1, <1>2, LenProperties DEF Arranges
    <2>3. i \in 1 .. Len(st.fused) /\ st.fused[i] = c
        BY <1>4, <1>6, <2>1, <2>2
    <2> QED
        BY <1>4, <2>3 DEF ToSet
<1> QED
    BY <1>1, <1>7 DEF fusable

\* The findings of a row are what its rankings show.
LEMMA RowFindings ==
    ASSUME NEW row, NEW golden, IsRelevance(relevance), IsRow(row, golden)
    PROVE  /\ BranchesAreTold(row.findings, row.stages, golden)
           /\ OutcomeIsTold(row.findings, row.request, row.stages, golden)
<1> DEFINE st == row.stages  request == row.request  findings == row.findings
           dense == Best(st.dense, golden)  bm25 == Best(st.bm25, golden)
           rrf == Best(st.fused, golden)  final == Best(st.results, golden)
<1>1. /\ IsRequest(request) /\ row.stored \in Corpora /\ findings = Analysis(st, golden)
      /\ \E full : Arranged(relevance, request, row.stored, st, full)
    BY DEF IsRow, IsSearch
<1>2. PICK full : Arranged(relevance, request, row.stored, st, full)
    BY <1>1
<1> HIDE DEF st, request, findings
<1>3. /\ st.dense \in Seq(Chunks) /\ st.bm25 \in Seq(Chunks) /\ st.fused \in Seq(Chunks)
      /\ ToSet(st.fused) \subseteq ToSet(st.dense) \cup ToSet(st.bm25)
      /\ ToSet(Candidates(request, st.fused)) \subseteq ToSet(st.fused)
    BY <1>1, <1>2, ArrangedStages DEF Rankings
<1>4. /\ st.results \in Seq(Chunks)
      /\ ToSet(st.results) \subseteq ToSet(Candidates(request, st.fused))
    BY <1>1, <1>2, ResultsAre
<1>5. /\ Has(st.dense, golden) <=> dense # 0
      /\ Has(st.bm25, golden) <=> bm25 # 0
      /\ Has(st.fused, golden) <=> rrf # 0
      /\ Has(st.results, golden) <=> final # 0
    BY <1>3, <1>4, AheadIs
<1>6. /\ IsAhead(st.dense, st.bm25, golden) <=> Beats(dense, bm25)
      /\ IsAhead(st.bm25, st.dense, golden) <=> Beats(bm25, dense)
      /\ IsAhead(st.results, st.fused, golden) <=> Beats(final, rrf)
      /\ IsAhead(st.fused, st.results, golden) <=> Beats(rrf, final)
    BY <1>3, <1>4, AheadIs
<1>7. Has(st.results, golden) => Has(st.fused, golden)
    BY <1>3, <1>4 DEF Has
<1>8. request.rerank \/ request.preferRecent \/ (rrf # 0 /\ final # 0 => rrf = final)
    <2> SUFFICES ASSUME ~request.rerank, ~request.preferRecent, rrf # 0, final # 0
                 PROVE  rrf = final
        OBVIOUS
    <2>1. st.results = Top(st.fused, request.topK)
        BY <1>1, <1>2, NothingMoves
    <2>2. request.topK \in Nat
        BY <1>1 DEF IsRequest
    <2> QED
        BY <1>3, <2>1, <2>2, BestOfTop
<1>9. Has(st.dense, golden) \/ Has(st.bm25, golden) =>
          Has(st.fused, golden) \/ Len(st.fused) = FusedDepth
    BY <1>1, <1>2, NothingIsLost DEF Has
<1>10. /\ "dense_above" \in findings <=> Beats(dense, bm25)
       /\ "bm25_above" \in findings <=> Beats(bm25, dense)
       /\ "one_branch" \in findings => rrf # 0 /\ (dense # 0) # (bm25 # 0)
       /\ "both_branches" \in findings =>
              /\ rrf # 0 /\ (dense # 0 <=> bm25 # 0)
              /\ ~Beats(dense, bm25) /\ ~Beats(bm25, dense)
       /\ "not_recovered" \in findings => rrf = 0
       /\ "promoted" \in findings => rrf # 0 /\ final # 0 /\ final < rrf
       /\ "demoted" \in findings => rrf # 0 /\ final # 0 /\ rrf < final
       /\ findings # {}
    BY <1>1, <1>3, <1>4, FindingsAre
<1>11. rrf \in Nat /\ final \in Nat
    BY <1>3, <1>4, BestIs
<1> HIDE DEF dense, bm25, rrf, final
<1>12. BranchesAreTold(findings, st, golden)
    <2> DEFINE evidence == ToSet(st.fused) \cap golden
    <2>1. evidence # {} <=> rrf # 0
        BY <1>5 DEF Has
    <2>2. /\ bm25 = 0 => evidence \subseteq ToSet(st.dense) \ ToSet(st.bm25)
          /\ dense = 0 => evidence \subseteq ToSet(st.bm25) \ ToSet(st.dense)
        BY <1>3, <1>5 DEF Has
    <2>3. rrf # 0 => Has(st.dense, golden) \/ Has(st.bm25, golden)
        BY <1>3, <1>5 DEF Has
    <2> HIDE DEF evidence
    <2>4. "one_branch" \in findings =>
              /\ evidence # {}
              /\ \/ evidence \subseteq ToSet(st.dense) \ ToSet(st.bm25)
                 \/ evidence \subseteq ToSet(st.bm25) \ ToSet(st.dense)
        BY <1>10, <2>1, <2>2
    <2>5. "both_branches" \in findings =>
              /\ Has(st.dense, golden) /\ Has(st.bm25, golden) /\ evidence # {}
              /\ ~IsAhead(st.dense, st.bm25, golden)
              /\ ~IsAhead(st.bm25, st.dense, golden)
        BY <1>5, <1>6, <1>10, <2>1, <2>3
    <2> QED
        BY <1>6, <1>10, <2>4, <2>5 DEF BranchesAreTold, evidence
<1>13. OutcomeIsTold(findings, request, st, golden)
    <2>1. "not_recovered" \in findings =>
              /\ ~Has(st.fused, golden) /\ ~Has(st.results, golden)
              /\ Has(st.dense, golden) \/ Has(st.bm25, golden) => Len(st.fused) = FusedDepth
        BY <1>5, <1>7, <1>9, <1>10
    <2>2. "promoted" \in findings => IsAhead(st.results, st.fused, golden)
        BY <1>6, <1>10 DEF Beats
    <2>3. "demoted" \in findings => Has(st.results, golden) /\ IsAhead(st.fused, st.results, golden)
        BY <1>5, <1>6, <1>10 DEF Beats
    <2>4. "promoted" \in findings \/ "demoted" \in findings => request.rerank \/ request.preferRecent
        BY <1>8, <1>10, <1>11
    <2>5. {"promoted", "demoted"} \cap findings # {} => request.rerank \/ request.preferRecent
        BY <2>4
    <2> QED
        BY <1>10, <2>1, <2>2, <2>3, <2>5 DEF OutcomeIsTold
<1> QED
    BY <1>12, <1>13 DEF st, request, findings

\* Results that are worth more have raised a golden chunk, or found one more.
LEMMA WorthMoreIsRaised ==
    ASSUME NEW golden, IsFiniteSet(golden), IsRelevance(relevance),
           NEW row, IsRow(row, golden), NEW other, IsRow(other, golden),
           Gains(Relevant(row.stages.results, golden, LargestK))[LargestK]
           > Gains(Relevant(other.stages.results, golden, LargestK))[LargestK]
    PROVE  \E chunk \in golden : Raises(row, other, chunk)
<1> DEFINE s == row.stages.results  t == other.stages.results
           G == Gains(Relevant(s, golden, LargestK))  H == Gains(Relevant(t, golden, LargestK))
<1>1. /\ IsRequest(row.request) /\ row.stored \in Corpora
      /\ IsRequest(other.request) /\ other.stored \in Corpora
      /\ \E full : Arranged(relevance, row.request, row.stored, row.stages, full)
      /\ \E full : Arranged(relevance, other.request, other.stored, other.stages, full)
    BY DEF IsRow, IsSearch
<1>2. /\ s \in Seq(Chunks) /\ \A i, j \in 1 .. Len(s) : s[i] = s[j] => i = j
      /\ t \in Seq(Chunks) /\ \A i, j \in 1 .. Len(t) : t[i] = t[j] => i = j
    BY <1>1, ResultsAre
<1>3. \A c : PlaceIn(row, c) = Rank(s, c) /\ PlaceIn(other, c) = Rank(t, c)
    BY DEF PlaceIn, Rank
<1>4. \A c : Raises(row, other, c)
             <=> c \in ToSet(s) /\ (c \in ToSet(t) => Rank(s, c) < Rank(t, c))
    BY <1>3 DEF Raises
<1>5. LargestK \in Nat /\ LargestK <= Len(Discount)
    BY LargestKIs, EvaluationAssumption
<1>6. G[LargestK] > H[LargestK]
    OBVIOUS
<1> HIDE DEF s, t
<1>7. G[LargestK] \in Nat /\ H[LargestK] \in Nat
    <2>1. /\ Relevant(s, golden, LargestK) \subseteq Positions
          /\ Relevant(t, golden, LargestK) \subseteq Positions
        BY <1>2, <1>5, RelevantAre
    <2>2. G \in [Nat -> Nat] /\ H \in [Nat -> Nat]
        BY <2>1, GainsAre
    <2> HIDE DEF G, H
    <2> QED
        BY <1>5, <2>2
<1>8. ~(\A c \in golden \cap ToSet(s) : c \in ToSet(t) /\ Rank(t, c) <= Rank(s, c))
    <2> SUFFICES ASSUME \A c \in golden \cap ToSet(s) : c \in ToSet(t) /\ Rank(t, c) <= Rank(s, c)
                 PROVE  FALSE
        OBVIOUS
    <2>1. G[LargestK] <= H[LargestK]
        BY <1>2, <1>5, NothingRaised
    <2> HIDE DEF G, H
    <2> QED
        BY <1>6, <1>7, <2>1
<1>9. PICK c \in golden \cap ToSet(s) : ~(c \in ToSet(t) /\ Rank(t, c) <= Rank(s, c))
    BY <1>8
<1>10. c \in ToSet(t) => Rank(s, c) < Rank(t, c)
    <2> SUFFICES ASSUME c \in ToSet(t) PROVE Rank(s, c) < Rank(t, c)
        OBVIOUS
    <2>1. Rank(s, c) \in 1 .. Len(s) /\ Rank(t, c) \in 1 .. Len(t)
        BY <1>2, <1>9, RankIs
    <2>2. Len(s) \in Nat /\ Len(t) \in Nat
        BY <1>2, LenProperties
    <2> QED
        BY <1>9, <2>1, <2>2
<1>11. c \in golden /\ Raises(row, other, c)
    BY <1>4, <1>9, <1>10
<1> QED
    BY <1>11

\* What the report says of a case is what its rankings show, however deep they
\* are; a branch's evidence is only passed over where the fused depth cut it off.
THEOREM FindingsMatch == EvaluationSpec => []FindingsMatchRankings
<1>1. SInv => FindingsMatchRankings
    <2> SUFFICES ASSUME SInv PROVE FindingsMatchRankings
        OBVIOUS
    <2> DEFINE golden == report.golden  on == report.on  off == report.off
               with == Gains(Relevant(on.stages.results, golden, LargestK))[LargestK]
               without == Gains(Relevant(off.stages.results, golden, LargestK))[LargestK]
    <2>1. IsRelevance(relevance)
        BY RelevanceIsTyped DEF SInv
    <2>2. ASSUME NEW row \in {report.on, report.off}, Answered(row)
          PROVE  /\ BranchesAreTold(row.findings, row.stages, golden)
                 /\ OutcomeIsTold(row.findings, row.request, row.stages, golden)
        <3>1. IsRow(row, golden)
            BY <2>2, RowsAre
        <3> QED
            BY <2>1, <3>1, RowFindings
    <2>3. /\ report.status = "improved" => with > without
          /\ report.status = "worsened" => with < without
          /\ report.status \in {"improved", "worsened"} => IsReport
        <3>1. CASE report = NoReport
            BY <3>1 DEF NoReport
        <3>2. CASE IsReport
            <4>1. /\ IsRow(on, golden) /\ IsRow(off, golden) /\ report.status = Status(on, off)
                BY <3>2 DEF IsReport
            <4>2. ASSUME golden # {}
                  PROVE  /\ on.metrics[LargestK].ndcg[1] = with
                         /\ off.metrics[LargestK].ndcg[1] = without
                <5>1. /\ on.metrics[LargestK] = MetricsAtK(on.stages.results, golden, LargestK)
                      /\ off.metrics[LargestK] = MetricsAtK(off.stages.results, golden, LargestK)
                    BY <4>1, <4>2, LargestKIs DEF IsRow
                <5> QED
                    BY <5>1 DEF MetricsAtK
            <4>3. golden = {} => on.metrics = None
                BY <4>1 DEF IsRow
            <4> HIDE DEF golden, on, off, with, without
            <4>4. on.metrics = None => report.status = "not_applicable"
                BY <4>1 DEF Status
            <4>5. on.metrics # None =>
                      report.status = IF with > without THEN "improved"
                                      ELSE IF with < without THEN "worsened" ELSE "unchanged"
                BY <4>1, <4>2, <4>3 DEF Status
            <4> QED
                BY <3>2, <4>4, <4>5
        <3> QED
            BY <3>1, <3>2 DEF SInv
    <2>4. IsReport => IsFiniteSet(golden) /\ IsRow(on, golden) /\ IsRow(off, golden)
        BY DEF IsReport
    <2>5. report.status = "improved" => \E chunk \in golden : Raises(on, off, chunk)
        BY <2>1, <2>3, <2>4, WorthMoreIsRaised
    <2>6. report.status = "worsened" => \E chunk \in golden : Raises(off, on, chunk)
        <3> SUFFICES ASSUME report.status = "worsened"
                     PROVE  \E chunk \in golden : Raises(off, on, chunk)
            OBVIOUS
        <3>1. without > with
            BY <2>3
        <3> QED
            BY <2>1, <2>3, <2>4, <3>1, WorthMoreIsRaised
    <2> QED
        BY <2>2, <2>5, <2>6 DEF FindingsMatchRankings
<1> QED
    BY <1>1, SearchInductive, PTL
=============================================================================
