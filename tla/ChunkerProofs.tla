---------------------------- MODULE ChunkerProofs ----------------------------
(***************************************************************************)
(* Proofs about Chunker, for drafts of any length and any legal limits.    *)
(*                                                                         *)
(* The argument: slices, pieces of a paragraph and units of the draft are  *)
(* chains of spans: each has a token and is not too long, each follows the *)
(* one before it, and only blanks are left between them (Chain).  Every    *)
(* step of _units() keeps such a chain, also the one that joins headings;  *)
(* no unit has a part of a paragraph that fits (Intact).  Packing then     *)
(* goes along the chain: the chunks made so far cover the units up to the  *)
(* end of the last chunk, and the next chunk begins behind the overlap     *)
(* (Packed, PInv).                                                         *)
(***************************************************************************)
EXTENDS Chunker, SequenceTheorems, FiniteSetTheorems, WellFoundedInduction, TLAPS

\* A set of numbers with 0 and, for each of its members, the next one.
LEMMA NatSets ==
    ASSUME NEW T, T \subseteq Nat, 0 \in T, \A n \in T : n + 1 \in T
    PROVE  T = Nat
<1> SUFFICES ASSUME Nat \ T # {} PROVE FALSE
    OBVIOUS
<1>1. PICK m \in Nat \ T : \A y \in Nat \ T : ~(<<y, m>> \in OpToRel(<, Nat))
    BY NatLessThanWellFounded, WFMin
<1>2. m # 0 /\ m - 1 \in Nat /\ m - 1 < m
    OBVIOUS
<1>3. <<m - 1, m>> \in OpToRel(<, Nat)
    <2>1. <<m - 1, m>> \in Nat \X Nat /\ <<m - 1, m>>[1] < <<m - 1, m>>[2]
        BY <1>2
    <2> QED
        BY <2>1, Zenon DEF OpToRel
<1>4. m - 1 \in T
    BY <1>1, <1>2, <1>3
<1>5. m - 1 + 1 = m
    BY <1>2
<1> QED
    BY <1>1, <1>4, <1>5

\* The least of some numbers.
LEMMA LeastOf ==
    ASSUME NEW S, S \subseteq Nat, S # {}
    PROVE  Min(S) \in S /\ \A j \in S : Min(S) <= j
<1>1. PICK m \in S : \A y \in S : ~(<<y, m>> \in OpToRel(<, Nat))
    BY NatLessThanWellFounded, WFMin
<1>2. \A y \in S : m <= y
    <2> SUFFICES ASSUME NEW y \in S, y < m PROVE FALSE
        OBVIOUS
    <2>1. <<y, m>> \in Nat \X Nat /\ <<y, m>>[1] < <<y, m>>[2]
        OBVIOUS
    <2>2. <<y, m>> \in OpToRel(<, Nat)
        BY <2>1, Zenon DEF OpToRel
    <2> QED
        BY <1>1, <2>2
<1> QED
    BY <1>2 DEF Min

\* The greatest of some numbers with a bound.
LEMMA GreatestOf ==
    ASSUME NEW S, S # {}, NEW n \in Nat, S \subseteq 0 .. n
    PROVE  Max(S) \in S /\ \A j \in S : j <= Max(S)
<1> DEFINE R == {n - k : k \in S}
<1>1. R # {} /\ R \subseteq Nat
    <2>1. \A k \in S : k \in 0 .. n /\ n - k \in Nat
        OBVIOUS
    <2> QED
        BY <2>1
<1> HIDE DEF R
<1>2. Min(R) \in R /\ \A j \in R : Min(R) <= j
    BY <1>1, LeastOf
<1>3. PICK m \in S : Min(R) = n - m
    BY <1>2 DEF R
<1>4. \A k \in S : n - m <= n - k
    BY <1>2, <1>3 DEF R
<1>5. \A k \in S : k <= m
    BY <1>4
<1>6. \A k \in S : m >= k
    BY <1>5
<1> QED
    BY <1>6 DEF Max

-----------------------------------------------------------------------------
(* Numbers in ascending order.                                             *)

\* Each of them has its place.
LEMMA AscendingIs ==
    ASSUME NEW S, S \subseteq Nat, IsFiniteSet(S)
    PROVE  LET s == Ascending(S)  n == Cardinality(S) IN
           /\ n \in Nat /\ s \in [1 .. n -> S] /\ s \in Seq(S) /\ Len(s) = n /\ DOMAIN s = 1 .. n
           /\ \A i, j \in 1 .. n : i < j => s[i] < s[j]
           /\ \A x \in S : \E i \in 1 .. n : s[i] = x
<1> DEFINE n == Cardinality(S)  upTo(x) == {j \in S : j <= x}  rank(x) == Cardinality(upTo(x))
           s == Ascending(S)
<1>1. n \in Nat
    BY FS_CardinalityType
<1>2. \A x \in S : upTo(x) \subseteq S /\ x \in upTo(x)
    OBVIOUS
<1>3. \A x, y \in S : x < y => upTo(x) \subseteq upTo(y) /\ y \notin upTo(x)
    <2> SUFFICES ASSUME NEW x \in S, NEW y \in S, x < y
                 PROVE  upTo(x) \subseteq upTo(y) /\ y \notin upTo(x)
        OBVIOUS
    <2>1. x \in Nat /\ y \in Nat
        OBVIOUS
    <2>2. \A j \in S : j \in Nat /\ (j <= x => j <= y)
        BY <2>1
    <2>3. ~(y <= x)
        BY <2>1
    <2>4. upTo(x) \subseteq upTo(y)
        BY <2>2, Zenon
    <2>5. y \notin upTo(x)
        BY <2>3, Zenon
    <2> QED
        BY <2>4, <2>5
<1>4. s = [k \in 1 .. n |-> CHOOSE i \in S : rank(i) = k]
    BY DEF Ascending
<1> HIDE DEF n, upTo, s
<1>5. \A x \in S : IsFiniteSet(upTo(x)) /\ rank(x) \in Nat
    BY <1>2, FS_Subset, FS_CardinalityType
<1>6. \A x \in S : rank(x) \in 1 .. n
    <2> SUFFICES ASSUME NEW x \in S PROVE rank(x) \in 1 .. n
        OBVIOUS
    <2>1. rank(x) <= n
        BY <1>2, FS_Subset DEF n
    <2>2. rank(x) # 0
        BY <1>2, <1>5, FS_EmptySet
    <2> QED
        BY <1>1, <1>5, <2>1, <2>2
<1>7. \A x, y \in S : x < y => rank(x) < rank(y)
    <2> SUFFICES ASSUME NEW x \in S, NEW y \in S, x < y PROVE rank(x) < rank(y)
        OBVIOUS
    <2>1. upTo(x) # upTo(y)
        BY <1>2, <1>3
    <2>2. rank(x) <= rank(y) /\ rank(x) # rank(y)
        BY <1>3, <1>5, <2>1, FS_Subset
    <2> QED
        BY <1>5, <2>2
<1>8. \A x, y \in S : rank(x) = rank(y) => x = y
    <2> SUFFICES ASSUME NEW x \in S, NEW y \in S, x # y PROVE rank(x) # rank(y)
        OBVIOUS
    <2>1. x < y \/ y < x
        OBVIOUS
    <2> QED
        BY <1>5, <1>7, <2>1
<1>9. \A k \in 1 .. n : \E x \in S : rank(x) = k
    <2> DEFINE r == [x \in S |-> rank(x)]
    <2>1. r \in [S -> 1 .. n] /\ \A x \in S : r[x] = rank(x)
        BY <1>6
    <2> HIDE DEF r
    <2>2. r \in Injection(S, 1 .. n)
        BY <1>8, <2>1 DEF Injection, IsInjective
    <2>3. IsFiniteSet(1 .. n) /\ Cardinality(1 .. n) = n
        BY <1>1, FS_Interval
    <2>4. r \in Surjection(S, 1 .. n)
        BY <2>2, <2>3, FS_Injection DEF n
    <2> QED
        BY <2>1, <2>4 DEF Surjection
<1>10. \A k \in 1 .. n : s[k] \in S /\ rank(s[k]) = k
    BY <1>4, <1>9
<1>11. s \in [1 .. n -> S]
    BY <1>4, <1>10
<1>12. s \in Seq(S) /\ Len(s) = n /\ DOMAIN s = 1 .. n
    BY <1>1, <1>11
<1>13. ASSUME NEW i \in 1 .. n, NEW j \in 1 .. n, i < j PROVE s[i] < s[j]
    <2>1. rank(s[i]) < rank(s[j])
        BY <1>10, <1>13
    <2>2. s[i] # s[j] /\ s[i] \in S /\ s[j] \in S
        BY <1>10, <1>13
    <2>3. s[j] < s[i] => rank(s[j]) < rank(s[i])
        BY <1>7, <2>2
    <2>4. rank(s[i]) \in Nat /\ rank(s[j]) \in Nat
        BY <1>5, <2>2
    <2> HIDE DEF rank
    <2>5. ~(s[j] < s[i])
        BY <2>1, <2>3, <2>4
    <2>6. s[i] \in Nat /\ s[j] \in Nat
        BY <2>2
    <2> QED
        BY <2>2, <2>5, <2>6
<1>14. \A x \in S : \E i \in 1 .. n : s[i] = x
    <2> SUFFICES ASSUME NEW x \in S PROVE \E i \in 1 .. n : s[i] = x
        OBVIOUS
    <2>1. rank(x) \in 1 .. n
        BY <1>6
    <2>2. s[rank(x)] \in S /\ rank(s[rank(x)]) = rank(x)
        BY <1>10, <2>1
    <2>3. s[rank(x)] = x
        BY <1>8, <2>2
    <2> QED
        BY <2>1, <2>3
<1>15. /\ n \in Nat /\ s \in [1 .. n -> S] /\ s \in Seq(S) /\ Len(s) = n /\ DOMAIN s = 1 .. n
       /\ \A i, j \in 1 .. n : i < j => s[i] < s[j]
       /\ \A x \in S : \E i \in 1 .. n : s[i] = x
    BY <1>1, <1>11, <1>12, <1>13, <1>14
<1> QED
    BY <1>15 DEF n, s

\* Nothing lies between two that follow each other.
LEMMA AscendingNext ==
    ASSUME NEW S, S \subseteq Nat, IsFiniteSet(S), NEW i \in 1 .. Cardinality(S), NEW x \in S
    PROVE  LET s == Ascending(S)  n == Cardinality(S) IN
           /\ x < s[i] => i > 1 /\ x <= s[i - 1]
           /\ x > s[i] => i < n /\ x >= s[i + 1]
<1> DEFINE s == Ascending(S)  n == Cardinality(S)
<1>1. /\ n \in Nat /\ s \in [1 .. n -> S]
      /\ \A k, j \in 1 .. n : k < j => s[k] < s[j]
      /\ \A y \in S : \E k \in 1 .. n : s[k] = y
    BY AscendingIs
<1> HIDE DEF s, n
<1>2. PICK k \in 1 .. n : s[k] = x
    BY <1>1
<1>3. i \in 1 .. n
    BY DEF n
<1>4. s[k] \in Nat /\ s[i] \in Nat
    BY <1>1, <1>3
<1>5. x < s[i] => k < i
    BY <1>1, <1>2, <1>3, <1>4
<1>6. x > s[i] => i < k
    BY <1>1, <1>2, <1>3, <1>4
<1>7. k < i => i > 1 /\ i - 1 \in 1 .. n /\ (k = i - 1 \/ s[k] < s[i - 1])
    BY <1>1, <1>3
<1>8. i < k => i < n /\ i + 1 \in 1 .. n /\ (k = i + 1 \/ s[i + 1] < s[k])
    BY <1>1, <1>3
<1>9. \A j \in 1 .. n : s[j] \in Nat
    BY <1>1
<1>10. (x < s[i] => i > 1 /\ x <= s[i - 1]) /\ (x > s[i] => i < n /\ x >= s[i + 1])
    BY <1>2, <1>5, <1>6, <1>7, <1>8, <1>9
<1> QED
    BY <1>10 DEF s, n

\* The first numbers are in order.
LEMMA AscendingFirst ==
    ASSUME NEW n \in Nat
    PROVE  Ascending(1 .. n) = [k \in 1 .. n |-> k]
<1>1. Cardinality(1 .. n) = n
    BY FS_Interval
<1>2. ASSUME NEW k \in 1 .. n
      PROVE  (CHOOSE i \in 1 .. n : Cardinality({j \in 1 .. n : j <= i}) = k) = k
    <2>1. \A i \in 1 .. n : {j \in 1 .. n : j <= i} = 1 .. i
        OBVIOUS
    <2>2. \A i \in 1 .. n : Cardinality(1 .. i) = i
        BY FS_Interval
    <2> QED
        BY <2>1, <2>2
<1> QED
    BY <1>1, <1>2 DEF Ascending

-----------------------------------------------------------------------------
(* Tokens and chains of spans.                                             *)

Spans == [from : Nat, to : Nat]

\* There are finitely many tokens in a span; it has those of its parts.
LEMMA TokensAre ==
    ASSUME NEW a \in Nat, NEW b \in Nat
    PROVE  /\ IsFiniteSet(TokensIn(a, b)) /\ Tokens(a, b) \in Nat
           /\ Tokens(a, b) = 0 <=> TokensIn(a, b) = {}
           /\ b <= a => TokensIn(a, b) = {}
           /\ \A i : i \in TokensIn(a, b) <=> i \in Nat /\ a <= i /\ i < b /\ text[i] \in TokenSymbols
<1>1. \A i : i \in a .. b - 1 <=> i \in Nat /\ a <= i /\ i < b
    OBVIOUS
<1>2. \A i : i \in TokensIn(a, b) <=> i \in Nat /\ a <= i /\ i < b /\ text[i] \in TokenSymbols
    BY <1>1 DEF TokensIn
<1>3. IsFiniteSet(a .. b - 1)
    BY FS_Interval
<1>4. TokensIn(a, b) \subseteq a .. b - 1
    BY DEF TokensIn
<1>5. IsFiniteSet(TokensIn(a, b))
    BY <1>3, <1>4, FS_Subset
<1>6. Tokens(a, b) \in Nat /\ (Tokens(a, b) = 0 <=> TokensIn(a, b) = {})
    BY <1>5, FS_CardinalityType, FS_EmptySet DEF Tokens
<1>7. b <= a => TokensIn(a, b) = {}
    BY <1>2
<1> QED
    BY <1>2, <1>5, <1>6, <1>7

\* A part has no more tokens than the whole.
LEMMA TokensGrow ==
    ASSUME NEW a \in Nat, NEW b \in Nat, NEW c \in Nat, NEW d \in Nat, a <= b, c <= d
    PROVE  TokensIn(b, c) \subseteq TokensIn(a, d) /\ Tokens(b, c) <= Tokens(a, d)
<1>1. TokensIn(b, c) \subseteq TokensIn(a, d)
    <2>1. /\ \A i : i \in TokensIn(b, c)
                    <=> i \in Nat /\ b <= i /\ i < c /\ text[i] \in TokenSymbols
          /\ \A i : i \in TokensIn(a, d)
                    <=> i \in Nat /\ a <= i /\ i < d /\ text[i] \in TokenSymbols
        BY TokensAre
    <2> QED
        BY <2>1
<1>2. IsFiniteSet(TokensIn(a, d))
    BY TokensAre
<1> QED
    BY <1>1, <1>2, FS_Subset DEF Tokens

\* A span is its two parts.
LEMMA TokensSplit ==
    ASSUME NEW a \in Nat, NEW b \in Nat, NEW c \in Nat, a <= b, b <= c
    PROVE  TokensIn(a, c) = TokensIn(a, b) \cup TokensIn(b, c)
<1>1. /\ \A i : i \in TokensIn(a, b) <=> i \in Nat /\ a <= i /\ i < b /\ text[i] \in TokenSymbols
      /\ \A i : i \in TokensIn(b, c) <=> i \in Nat /\ b <= i /\ i < c /\ text[i] \in TokenSymbols
      /\ \A i : i \in TokensIn(a, c) <=> i \in Nat /\ a <= i /\ i < c /\ text[i] \in TokenSymbols
    BY TokensAre
<1>2. \A i \in Nat : a <= i /\ i < c <=> (a <= i /\ i < b) \/ (b <= i /\ i < c)
    OBVIOUS
<1> QED
    BY <1>1, <1>2

\* A unit within [a, b).
IsUnit(u, a, b) ==
    /\ u \in Spans /\ a <= u.from /\ u.from <= u.to /\ u.to <= b
    /\ Length(u) \in 1 .. MaxTokens

\* Only blanks are between two units; what both have comes twice.
Follows(u, v, twice) ==
    /\ u.from <= v.from /\ u.to <= v.to
    /\ TokensIn(u.to, v.from) = {}
    /\ u.to <= v.from \/ Span(v.from, u.to) \in twice

Chain(us, a, b, twice) ==
    /\ us \in Seq(Spans)
    /\ \A i \in 1 .. Len(us) : IsUnit(us[i], a, b)
    /\ \A i \in 1 .. Len(us) - 1 : Follows(us[i], us[i + 1], twice)
    /\ us = <<>> => TokensIn(a, b) = {}
    /\ us # <<>> => TokensIn(a, us[1].from) = {} /\ TokensIn(us[Len(us)].to, b) = {}

\* What is between two spans without tokens has none.
LEMMA NoTokens ==
    ASSUME NEW a \in Nat, NEW b \in Nat, NEW c \in Nat, NEW d \in Nat, b <= c,
           TokensIn(a, b) = {}, TokensIn(b, c) = {}, TokensIn(c, d) = {}
    PROVE  TokensIn(a, d) = {}
<1> SUFFICES ASSUME NEW i \in TokensIn(a, d) PROVE FALSE
    OBVIOUS
<1>1. i \in Nat /\ a <= i /\ i < d /\ text[i] \in TokenSymbols
    BY TokensAre
<1>2. i < b \/ (b <= i /\ i < c) \/ c <= i
    BY <1>1
<1>3. i \in TokensIn(a, b) \/ i \in TokensIn(b, c) \/ i \in TokensIn(c, d)
    BY <1>1, <1>2, TokensAre
<1> QED
    BY <1>3

\* Spans are what Span() makes.
LEMMA SpanIs ==
    ASSUME NEW a \in Nat, NEW b \in Nat
    PROVE  /\ Span(a, b) \in Spans /\ Span(a, b).from = a /\ Span(a, b).to = b
           /\ Length(Span(a, b)) = Tokens(a, b)
BY DEF Span, Spans, Length

\* One unit is a chain.
LEMMA ChainOne ==
    ASSUME NEW a \in Nat, NEW b \in Nat, a <= b, Tokens(a, b) \in 1 .. MaxTokens, NEW twice
    PROVE  Chain(<<Span(a, b)>>, a, b, twice)
<1> DEFINE us == <<Span(a, b)>>
<1>1. us \in Seq(Spans) /\ Len(us) = 1 /\ us[1] = Span(a, b) /\ us # <<>>
    BY SpanIs
<1>2. IsUnit(Span(a, b), a, b)
    BY SpanIs DEF IsUnit
<1>3. TokensIn(a, a) = {} /\ TokensIn(b, b) = {}
    <2>1. a <= a /\ b <= b
        OBVIOUS
    <2> QED
        BY <2>1, TokensAre
<1>4. Span(a, b).from = a /\ Span(a, b).to = b
    BY SpanIs
<1> HIDE DEF us
<1>5. Chain(us, a, b, twice)
    BY <1>1, <1>2, <1>3, <1>4 DEF Chain
<1> QED
    BY <1>5 DEF us

\* No unit is a chain of nothing.
LEMMA ChainNone ==
    ASSUME NEW a \in Nat, NEW b \in Nat, TokensIn(a, b) = {}, NEW twice
    PROVE  Chain(<<>>, a, b, twice)
<1>1. <<>> \in Seq(Spans) /\ Len(<<>>) = 0
    BY EmptySeq
<1> QED
    BY <1>1 DEF Chain

\* A unit of a part is one of the whole.
LEMMA UnitOfWhole ==
    ASSUME NEW a \in Nat, NEW b \in Nat, NEW c \in Nat, NEW d \in Nat, a <= b, c <= d,
           NEW u, IsUnit(u, b, c)
    PROVE  IsUnit(u, a, d)
<1>1. u.from \in Nat /\ u.to \in Nat
    BY DEF IsUnit, Spans
<1> QED
    BY <1>1 DEF IsUnit

\* Two chains make one.
LEMMA ChainsJoin ==
    ASSUME NEW a \in Nat, NEW b \in Nat, NEW c \in Nat, NEW d \in Nat,
           a <= b, b <= c, c <= d, TokensIn(b, c) = {}, NEW twice,
           NEW us, Chain(us, a, b, twice), NEW vs, Chain(vs, c, d, twice)
    PROVE  Chain(us \o vs, a, d, twice)
<1> DEFINE ws == us \o vs  m == Len(us)  n == Len(vs)
<1>1. /\ us \in Seq(Spans) /\ vs \in Seq(Spans) /\ m \in Nat /\ n \in Nat
      /\ \A i \in 1 .. m : us[i] \in Spans /\ us[i].from \in Nat /\ us[i].to \in Nat
      /\ \A i \in 1 .. n : vs[i] \in Spans /\ vs[i].from \in Nat /\ vs[i].to \in Nat
    <2>1. us \in Seq(Spans) /\ vs \in Seq(Spans) /\ m \in Nat /\ n \in Nat
        BY LenProperties DEF Chain
    <2>2. /\ \A i \in 1 .. m : us[i] \in Spans
          /\ \A i \in 1 .. n : vs[i] \in Spans
        BY <2>1, ElementOfSeq
    <2> QED
        BY <2>1, <2>2 DEF Spans
<1>2. /\ ws \in Seq(Spans) /\ Len(ws) = m + n
      /\ \A i \in 1 .. m : ws[i] = us[i]
      /\ \A i \in 1 .. n : ws[m + i] = vs[i]
    <2>1. /\ ws \in Seq(Spans) /\ Len(ws) = m + n
          /\ \A i \in 1 .. m + n : ws[i] = IF i <= m THEN us[i] ELSE vs[i - m]
        BY <1>1, ConcatProperties
    <2>2. \A i \in 1 .. m : i \in 1 .. m + n /\ i <= m
        BY <1>1
    <2>3. \A i \in 1 .. n : m + i \in 1 .. m + n /\ ~(m + i <= m) /\ m + i - m = i
        BY <1>1
    <2> HIDE DEF ws, m, n
    <2>4. \A i \in 1 .. m : ws[i] = us[i]
        BY <2>1, <2>2
    <2>5. ASSUME NEW i \in 1 .. n PROVE ws[m + i] = vs[i]
        <3>1. ws[m + i] = IF m + i <= m THEN us[m + i] ELSE vs[m + i - m]
            BY <1>1, <2>1, <2>3
        <3> QED
            BY <2>3, <3>1
    <2> QED
        BY <2>1, <2>4, <2>5
<1>3. /\ us = <<>> <=> m = 0
      /\ vs = <<>> <=> n = 0
      /\ ws = <<>> <=> m + n = 0
    BY <1>1, <1>2, EmptySeq
<1>4. /\ \A i \in 1 .. m : IsUnit(us[i], a, b)
      /\ \A i \in 1 .. n : IsUnit(vs[i], c, d)
      /\ \A i \in 1 .. m - 1 : Follows(us[i], us[i + 1], twice)
      /\ \A i \in 1 .. n - 1 : Follows(vs[i], vs[i + 1], twice)
      /\ m = 0 => TokensIn(a, b) = {}
      /\ m # 0 => TokensIn(a, us[1].from) = {} /\ TokensIn(us[m].to, b) = {}
      /\ n = 0 => TokensIn(c, d) = {}
      /\ n # 0 => TokensIn(c, vs[1].from) = {} /\ TokensIn(vs[n].to, d) = {}
    BY <1>3 DEF Chain
<1> HIDE DEF ws, m, n
<1>5. ASSUME NEW i \in 1 .. m + n PROVE IsUnit(ws[i], a, d)
    <2>1. CASE i \in 1 .. m
        <3>1. IsUnit(us[i], a, b) /\ b <= d
            BY <1>4, <2>1
        <3>2. IsUnit(us[i], a, d)
            BY <3>1, UnitOfWhole
        <3> QED
            BY <1>2, <2>1, <3>2
    <2>2. CASE i \notin 1 .. m
        <3>1. i - m \in 1 .. n /\ m + (i - m) = i
            BY <1>1, <2>2
        <3>2. IsUnit(vs[i - m], c, d) /\ a <= c
            BY <1>4, <3>1
        <3>3. IsUnit(vs[i - m], a, d)
            BY <3>2, UnitOfWhole
        <3> QED
            BY <1>2, <3>1, <3>3
    <2> QED
        BY <2>1, <2>2
<1>6. ASSUME NEW i \in 1 .. m + n - 1 PROVE Follows(ws[i], ws[i + 1], twice)
    <2>1. CASE i < m
        <3>1. i \in 1 .. m /\ i + 1 \in 1 .. m /\ i \in 1 .. m - 1
            BY <1>1, <2>1
        <3> QED
            BY <1>2, <1>4, <3>1
    <2>2. CASE i > m
        <3> DEFINE j == i - m
        <3>1. /\ j \in 1 .. n /\ j + 1 \in 1 .. n /\ j \in 1 .. n - 1
              /\ m + j = i /\ m + (j + 1) = i + 1
            BY <1>1, <2>2
        <3> HIDE DEF j
        <3>2. ws[i] = vs[j] /\ ws[i + 1] = vs[j + 1]
            BY <1>2, <3>1
        <3>3. Follows(vs[j], vs[j + 1], twice)
            BY <1>4, <3>1
        <3> QED
            BY <3>2, <3>3
    <2>3. CASE i = m
        <3>1. m \in 1 .. m /\ 1 \in 1 .. n
            BY <1>1, <2>3
        <3>2. ws[i] = us[m] /\ ws[i + 1] = vs[1]
            BY <1>2, <2>3, <3>1
        <3>3. /\ IsUnit(us[m], a, b) /\ IsUnit(vs[1], c, d)
              /\ TokensIn(us[m].to, b) = {} /\ TokensIn(c, vs[1].from) = {}
              /\ us[m].from \in Nat /\ us[m].to \in Nat
              /\ vs[1].from \in Nat /\ vs[1].to \in Nat
            BY <1>1, <1>4, <3>1
        <3>4. TokensIn(us[m].to, vs[1].from) = {}
            BY <3>3, NoTokens
        <3>5. /\ us[m].from <= us[m].to /\ us[m].to <= b /\ c <= vs[1].from
              /\ vs[1].from <= vs[1].to
            BY <3>3 DEF IsUnit
        <3>6. us[m].from <= vs[1].from /\ us[m].to <= vs[1].to /\ us[m].to <= vs[1].from
            BY <3>3, <3>5
        <3> QED
            BY <3>2, <3>4, <3>6 DEF Follows
    <2> QED
        BY <1>1, <2>1, <2>2, <2>3
<1>7. ws = <<>> => TokensIn(a, d) = {}
    <2> SUFFICES ASSUME m = 0, n = 0 PROVE TokensIn(a, d) = {}
        BY <1>1, <1>3
    <2> QED
        BY <1>4, NoTokens
<1>8. ws # <<>> => TokensIn(a, ws[1].from) = {}
    <2>1. CASE m # 0
        <3>1. 1 \in 1 .. m
            BY <1>1, <2>1
        <3> QED
            BY <1>2, <1>4, <2>1, <3>1
    <2>2. CASE m = 0 /\ n # 0
        <3>1. 1 \in 1 .. n /\ m + 1 = 1
            BY <1>1, <2>2
        <3>2. ws[1] = vs[1] /\ vs[1].from \in Nat
            BY <1>1, <1>2, <3>1
        <3> QED
            BY <1>4, <2>2, <3>2, NoTokens
    <2> QED
        BY <1>1, <1>3, <2>1, <2>2
<1>9. ws # <<>> => TokensIn(ws[Len(ws)].to, d) = {}
    <2>1. CASE n # 0
        <3>1. n \in 1 .. n
            BY <1>1, <2>1
        <3>2. ws[Len(ws)] = vs[n]
            BY <1>2, <3>1
        <3> QED
            BY <1>4, <2>1, <3>2
    <2>2. CASE n = 0 /\ m # 0
        <3>1. m \in 1 .. m /\ Len(ws) = m
            BY <1>1, <1>2, <2>2
        <3>2. ws[m] = us[m] /\ us[m].to \in Nat
            BY <1>1, <1>2, <3>1
        <3> QED
            BY <1>4, <2>2, <3>1, <3>2, NoTokens
    <2> QED
        BY <1>1, <1>3, <2>1, <2>2
<1>10. /\ \A i \in 1 .. Len(ws) : IsUnit(ws[i], a, d)
       /\ \A i \in 1 .. Len(ws) - 1 : Follows(ws[i], ws[i + 1], twice)
    <2>1. Len(ws) = m + n /\ m \in Nat /\ n \in Nat
        BY <1>1, <1>2
    <2> QED
        BY <1>5, <1>6, <2>1
<1>11. Chain(ws, a, d, twice)
    BY <1>2, <1>7, <1>8, <1>9, <1>10 DEF Chain
<1> QED
    BY <1>11 DEF ws

\* The last unit may come twice.
LEMMA ChainAgain ==
    ASSUME NEW a \in Nat, NEW b \in Nat, NEW twice, NEW us, Chain(us, a, b, twice),
           us # <<>>, us[Len(us)] \in twice
    PROVE  Chain(Append(us, us[Len(us)]), a, b, twice)
<1> DEFINE n == Len(us)  u == us[n]  ws == Append(us, u)
<1>1. us \in Seq(Spans) /\ n \in Nat /\ n # 0 /\ n \in 1 .. n
    BY LenProperties, EmptySeq DEF Chain
<1>2. u \in Spans /\ u.from \in Nat /\ u.to \in Nat /\ u.from <= u.to /\ u = Span(u.from, u.to)
    <2>1. IsUnit(u, a, b)
        BY <1>1 DEF Chain
    <2> QED
        BY <2>1 DEF IsUnit, Spans, Span
<1>3. /\ ws \in Seq(Spans) /\ Len(ws) = n + 1 /\ ws # <<>>
      /\ \A i \in 1 .. n : ws[i] = us[i]
      /\ ws[n + 1] = u
    BY <1>1, <1>2, AppendProperties
<1>4. Follows(u, u, twice)
    BY <1>2, TokensAre DEF Follows
<1>5. /\ \A i \in 1 .. n : IsUnit(us[i], a, b)
      /\ \A i \in 1 .. n - 1 : Follows(us[i], us[i + 1], twice)
      /\ TokensIn(a, us[1].from) = {} /\ TokensIn(u.to, b) = {}
    BY DEF Chain
<1>6. u = us[n]
    OBVIOUS
<1> HIDE DEF ws, n, u
<1>7. \A i \in 1 .. n + 1 : IsUnit(ws[i], a, b)
    BY <1>1, <1>3, <1>5, <1>6
<1>8. ASSUME NEW i \in 1 .. n + 1 - 1 PROVE Follows(ws[i], ws[i + 1], twice)
    <2>1. i = n \/ (i \in 1 .. n - 1 /\ i \in 1 .. n /\ i + 1 \in 1 .. n)
        BY <1>1
    <2> QED
        BY <1>1, <1>3, <1>4, <1>5, <1>6, <2>1
<1>9. 1 \in 1 .. n
    BY <1>1
<1>10. /\ \A i \in 1 .. Len(ws) : IsUnit(ws[i], a, b)
       /\ \A i \in 1 .. Len(ws) - 1 : Follows(ws[i], ws[i + 1], twice)
       /\ ws[1] = us[1] /\ ws[Len(ws)] = u
    <2>1. Len(ws) = n + 1 /\ n \in Nat /\ ws[1] = us[1] /\ ws[n + 1] = u
        BY <1>1, <1>3, <1>9
    <2> QED
        BY <1>7, <1>8, <2>1
<1>11. Chain(ws, a, b, twice)
    BY <1>3, <1>5, <1>10 DEF Chain
<1> QED
    BY <1>11 DEF ws, u, n

-----------------------------------------------------------------------------
(* Slices.                                                                 *)

\* How many batches of m hold n.
LEMMA Batches ==
    ASSUME NEW n \in Nat \ {0}, NEW m \in Nat \ {0}
    PROVE  LET last == (n + m - 1) \div m IN
           last \in Nat \ {0} /\ (last - 1) * m < n /\ n <= last * m
<1> DEFINE x == n + m - 1  q == x \div m  r == x % m
<1>1. x \in Nat
    OBVIOUS
<1> HIDE DEF x
<1>2. q \in Int /\ r \in Int /\ x = q * m + r /\ 0 <= r /\ r < m
    BY <1>1
<1> HIDE DEF q, r
<1>3. (q - 1) * m = q * m - m
    BY <1>2
<1>4. q * m \in Int /\ q * m > 0
    BY <1>2 DEF x
<1>5. q > 0
    <2> SUFFICES ASSUME q <= 0 PROVE FALSE
        BY <1>2
    <2>1. PICK u \in Nat : q = -u
        <3>1. -q \in Nat /\ q = -(-q)
            BY <1>2
        <3> QED
            BY <3>1
    <2>2. u * m \in Nat /\ (-u) * m = -(u * m)
        OBVIOUS
    <2> QED
        BY <1>4, <2>1, <2>2
<1>6. q \in Nat \ {0} /\ (q - 1) * m < n /\ n <= q * m
    <2> DEFINE y == q * m
    <2>1. y \in Int /\ x = y + r /\ (q - 1) * m = y - m
        BY <1>2, <1>3, <1>4
    <2> HIDE DEF y
    <2>2. y - m < n /\ n <= y
        BY <1>2, <2>1 DEF x
    <2> QED
        BY <1>2, <1>5, <2>1, <2>2 DEF y
<1> QED
    BY <1>6 DEF q, x

\* The solver is told what a product is before it compares two.
LEMMA Product ==
    ASSUME NEW x \in Nat, NEW m \in Nat
    PROVE  x * m \in Nat
OBVIOUS

\* A product is no smaller when a factor is no smaller.
LEMMA Products ==
    ASSUME NEW x \in Nat, NEW y \in Nat, x <= y, NEW m \in Nat
    PROVE  x * m \in Nat /\ y * m \in Nat /\ x * m <= y * m
<1> DEFINE d == y - x
<1>1. d \in Nat /\ y = x + d
    OBVIOUS
<1> HIDE DEF d
<1>2. x * m \in Nat /\ d * m \in Nat
    BY <1>1, Product
<1>3. (x + d) * m = x * m + d * m
    BY <1>1
<1> QED
    BY <1>1, <1>2, <1>3

\* What some places of a sequence hold is no more than those places.
LEMMA PlacesBound ==
    ASSUME NEW t, NEW lo \in Nat, NEW hi \in Nat, lo <= hi,
           NEW S, \A x \in S : \E i \in lo .. hi : t[i] = x
    PROVE  Cardinality(S) <= hi - lo + 1
<1> DEFINE R == {t[i] : i \in lo .. hi}  f == [i \in lo .. hi |-> t[i]]
<1>1. lo \in Int /\ hi \in Int
    OBVIOUS
<1>2. IsFiniteSet(lo .. hi) /\ Cardinality(lo .. hi) = hi - lo + 1
    BY <1>1, FS_Interval
<1>3. f \in Surjection(lo .. hi, R)
    BY DEF Surjection
<1>4. IsFiniteSet(R) /\ Cardinality(R) <= Cardinality(lo .. hi)
    BY <1>2, <1>3, FS_Surjection
<1>5. S \subseteq R
    OBVIOUS
<1>6. IsFiniteSet(S) /\ Cardinality(S) <= Cardinality(R) /\ Cardinality(S) \in Nat
      /\ Cardinality(R) \in Nat
    BY <1>4, <1>5, FS_Subset, FS_CardinalityType
<1> QED
    BY <1>2, <1>4, <1>6

\* The batches of n tokens: where they begin and end.
LEMMA BatchPlaces ==
    ASSUME NEW n \in Nat \ {0}, NEW m \in Nat \ {0}, NEW last \in Nat \ {0},
           (last - 1) * m < n, n <= last * m, NEW k \in 1 .. last
    PROVE  /\ (k - 1) * m \in Nat /\ k * m \in Nat /\ k * m = (k - 1) * m + m
           /\ (k - 1) * m + 1 \in 1 .. n
           /\ k < last => k * m \in 1 .. n /\ k * m + 1 \in 1 .. n
           /\ k = last => n <= k * m
<1>1. k - 1 \in Nat /\ k \in Nat /\ last - 1 \in Nat /\ k - 1 <= last - 1 /\ m \in Nat
    OBVIOUS
<1>2. (k - 1) * m \in Nat /\ (last - 1) * m \in Nat /\ (k - 1) * m <= (last - 1) * m
    BY <1>1, Products
<1>3. k * m = (k - 1) * m + m
    <2> DEFINE j == k - 1
    <2>1. j \in Nat /\ k = j + 1
        OBVIOUS
    <2> HIDE DEF j
    <2>2. (j + 1) * m = j * m + m
        BY <1>1, <2>1
    <2>3. k - 1 = j
        BY <2>1
    <2> QED
        BY <2>1, <2>2, <2>3
<1>4. k < last => k * m \in Nat /\ k * m <= (last - 1) * m
    <2> SUFFICES ASSUME k < last PROVE k * m \in Nat /\ k * m <= (last - 1) * m
        OBVIOUS
    <2>1. k <= last - 1
        BY <1>1
    <2> QED
        BY <1>1, <2>1, Products
<1>5. (k - 1) * m < n
    BY <1>2
<1> DEFINE x == (k - 1) * m  y == (last - 1) * m
<1>6. x \in Nat /\ y \in Nat /\ x < n /\ y < n /\ k * m = x + m /\ (k < last => x + m <= y)
    BY <1>2, <1>3, <1>4, <1>5
<1>7. k = last => n <= k * m
    OBVIOUS
<1> HIDE DEF x, y
<1>8. /\ x + m \in Nat /\ x + 1 \in 1 .. n
      /\ k < last => x + m \in 1 .. n /\ x + m + 1 \in 1 .. n
    BY <1>6
<1> QED
    BY <1>6, <1>7, <1>8 DEF x

\* What __init__() admits of the limits.
LEMMA Limits ==
    /\ MaxTokens \in Nat \ {0} /\ TargetTokens \in Nat \ {0} /\ OverlapTokens \in Nat
    /\ MaxLength \in Nat /\ TargetTokens <= MaxTokens /\ OverlapTokens < TargetTokens
BY LimitsAssumption DEF LimitsAreConsistent

\* The slices of a span are a chain.
LEMMA SlicesAre ==
    ASSUME NEW a \in Nat, NEW b \in Nat, Tokens(a, b) > 0, NEW twice
    PROVE  HardSlices(a, b) # <<>> /\ Chain(HardSlices(a, b), a, b, twice)
<1> DEFINE T == TokensIn(a, b)  t == Ascending(T)  n == Tokens(a, b)  m == MaxTokens
           last == (n + m - 1) \div m
           st(k) == IF k = 1 THEN a ELSE t[(k - 1) * m + 1]
           en(k) == IF k = last THEN b ELSE t[k * m] + 1
           us == HardSlices(a, b)
<1>1. /\ T \subseteq Nat /\ IsFiniteSet(T) /\ n \in Nat \ {0} /\ a < b
      /\ \A i : i \in T <=> i \in Nat /\ a <= i /\ i < b /\ text[i] \in TokenSymbols
    <2>1. /\ \A i : i \in T <=> i \in Nat /\ a <= i /\ i < b /\ text[i] \in TokenSymbols
          /\ IsFiniteSet(T) /\ n \in Nat /\ (n = 0 <=> T = {}) /\ (b <= a => T = {})
        BY TokensAre
    <2> HIDE DEF T
    <2>2. T \subseteq Nat
        BY <2>1
    <2>3. n > 0
        OBVIOUS
    <2> HIDE DEF n
    <2>4. n # 0 /\ T # {}
        BY <2>1, <2>3
    <2>5. a < b
        BY <2>1, <2>4
    <2> QED
        BY <2>1, <2>2, <2>4, <2>5
<1>2. /\ t \in [1 .. n -> T] /\ Len(t) = n
      /\ \A i, j \in 1 .. n : i < j => t[i] < t[j]
      /\ \A x \in T : \E i \in 1 .. n : t[i] = x
    BY <1>1, AscendingIs DEF Tokens
<1>3. m \in Nat \ {0}
    BY Limits
<1>4. last \in Nat \ {0} /\ (last - 1) * m < n /\ n <= last * m
    BY <1>1, <1>3, Batches
<1>5. us = [k \in 1 .. last |-> Span(st(k), en(k))]
    BY <1>2 DEF HardSlices
<1>6. \A i \in 1 .. n : t[i] \in T /\ t[i] \in Nat /\ a <= t[i] /\ t[i] < b
    BY <1>1, <1>2
<1>7. ASSUME NEW i \in 1 .. n, NEW x \in T
      PROVE  (x < t[i] => i > 1 /\ x <= t[i - 1]) /\ (x > t[i] => i < n /\ x >= t[i + 1])
    BY <1>1, AscendingNext DEF Tokens
<1> HIDE DEF T, t, n, m, last, us
<1>8. ASSUME NEW k \in 1 .. last
      PROVE  /\ (k - 1) * m \in Nat /\ k * m \in Nat /\ k * m = (k - 1) * m + m
             /\ (k - 1) * m + 1 \in 1 .. n
             /\ k < last => k * m \in 1 .. n /\ k * m + 1 \in 1 .. n
             /\ k = last => n <= k * m
    BY <1>1, <1>3, <1>4, BatchPlaces
<1>9. ASSUME NEW k \in 1 .. last
      PROVE  /\ st(k) \in Nat /\ en(k) \in Nat /\ a <= st(k) /\ st(k) < en(k) /\ en(k) <= b
             /\ Tokens(st(k), en(k)) \in 1 .. m
    <2> DEFINE lo == (k - 1) * m + 1  hi == IF k = last THEN n ELSE k * m
               from == st(k)  to == en(k)
    <2>1. lo \in 1 .. n /\ hi \in 1 .. n /\ lo <= hi /\ hi - lo + 1 <= m
        <3> DEFINE x == (k - 1) * m  y == k * m
        <3>1. /\ x \in Nat /\ y \in Nat /\ y = x + m /\ x + 1 \in 1 .. n
              /\ k < last => y \in 1 .. n
              /\ k = last => n <= y
            BY <1>8
        <3>2. k < last \/ k = last
            BY <1>4
        <3>3. lo = x + 1 /\ hi = IF k = last THEN n ELSE y
            OBVIOUS
        <3> HIDE DEF x, y, lo, hi
        <3> QED
            BY <1>1, <1>3, <3>1, <3>2, <3>3
    <2>2. from = IF k = 1 THEN a ELSE t[lo]
        OBVIOUS
    <2>3. to = IF k = last THEN b ELSE t[hi] + 1
        OBVIOUS
    <2>4. k = 1 => lo = 1
        <3>1. (1 - 1) * m = 0
            BY <1>3
        <3> QED
            BY <3>1
    <2>5. k = last => hi = n
        OBVIOUS
    <2> HIDE DEF lo, hi, from, to
    <2>6. lo < hi => t[lo] < t[hi]
        BY <1>2, <2>1
    <2>7. t[lo] <= t[hi]
        BY <1>6, <2>1, <2>6
    <2>8. from \in Nat /\ to \in Nat /\ a <= from /\ from <= t[lo] /\ t[hi] < to /\ to <= b
        BY <1>1, <1>6, <2>1, <2>2, <2>3
    <2>9. t[lo] \in TokensIn(from, to)
        <3>1. t[lo] \in Nat /\ from <= t[lo] /\ t[lo] < to /\ text[t[lo]] \in TokenSymbols
            BY <1>1, <1>6, <2>1, <2>7, <2>8
        <3> QED
            BY <2>8, <3>1, TokensAre
    <2>10. ASSUME NEW x \in TokensIn(from, to) PROVE \E i \in lo .. hi : t[i] = x
        <3>1. x \in Nat /\ from <= x /\ x < to /\ text[x] \in TokenSymbols
            BY <2>8, TokensAre
        <3>2. x \in T
            BY <1>1, <2>8, <3>1
        <3>3. PICK i \in 1 .. n : t[i] = x
            BY <1>2, <3>2
        <3>4. lo <= i
            <4> SUFFICES ASSUME i < lo PROVE FALSE
                BY <1>1, <2>1
            <4>1. t[i] < t[lo] /\ t[i] \in Nat /\ t[lo] \in Nat
                BY <1>2, <1>6, <2>1
            <4>2. k # 1
                BY <2>1, <2>4
            <4> QED
                BY <2>2, <3>1, <3>3, <4>1, <4>2
        <3>5. i <= hi
            <4> SUFFICES ASSUME hi < i PROVE FALSE
                BY <1>1, <2>1
            <4>1. t[hi] < t[i] /\ t[hi] \in Nat /\ t[i] \in Nat
                BY <1>2, <1>6, <2>1
            <4>2. k # last
                BY <1>1, <2>5
            <4> QED
                BY <2>3, <3>1, <3>3, <4>1, <4>2
        <3> QED
            BY <1>1, <2>1, <3>3, <3>4, <3>5
    <2>11. Cardinality(TokensIn(from, to)) <= hi - lo + 1
        <3>1. lo \in Nat /\ hi \in Nat
            BY <2>1
        <3> QED
            BY <2>1, <2>10, <3>1, PlacesBound
    <2>12. Tokens(from, to) \in 1 .. m
        <3>1. Tokens(from, to) \in Nat /\ Tokens(from, to) # 0
            BY <2>8, <2>9, TokensAre
        <3>2. Tokens(from, to) <= hi - lo + 1
            BY <2>11 DEF Tokens
        <3> QED
            BY <1>3, <2>1, <3>1, <3>2
    <2>13. t[lo] \in Nat /\ t[hi] \in Nat
        BY <1>6, <2>1
    <2>14. from < to
        BY <2>7, <2>8, <2>13
    <2> QED
        BY <2>8, <2>12, <2>14 DEF from, to
<1>10. us \in Seq(Spans) /\ Len(us) = last
    <2>1. \A k \in 1 .. last : Span(st(k), en(k)) \in Spans
        BY <1>9, SpanIs
    <2> QED
        BY <1>4, <1>5, <2>1
<1>11. \A k \in 1 .. last : us[k] = Span(st(k), en(k)) /\ us[k].from = st(k) /\ us[k].to = en(k)
    BY <1>5, <1>9, SpanIs
<1>12. ASSUME NEW k \in 1 .. last PROVE IsUnit(us[k], a, b)
    <2>1. us[k] = Span(st(k), en(k))
        BY <1>11
    <2>2. /\ us[k] \in Spans /\ us[k].from = st(k) /\ us[k].to = en(k)
          /\ Length(us[k]) = Tokens(st(k), en(k))
        BY <1>9, <2>1, SpanIs
    <2>3. st(k) \in Nat /\ en(k) \in Nat /\ a <= st(k) /\ st(k) <= en(k) /\ en(k) <= b
        BY <1>9
    <2>4. Length(us[k]) \in 1 .. MaxTokens
        BY <1>9, <2>2 DEF m
    <2> HIDE DEF st, en
    <2> QED
        BY <2>2, <2>3, <2>4 DEF IsUnit
<1>13. ASSUME NEW k \in 1 .. last - 1 PROVE Follows(us[k], us[k + 1], twice)
    <2> DEFINE x == k * m
    <2>1. k \in 1 .. last /\ k + 1 \in 1 .. last /\ k < last /\ k + 1 - 1 = k /\ k + 1 # 1
        BY <1>4
    <2>2. x \in 1 .. n /\ x + 1 \in 1 .. n
        BY <1>8, <2>1
    <2>3. en(k) = t[x] + 1
        BY <2>1
    <2>4. st(k + 1) = t[x + 1]
        BY <2>1
    <2>5. t[x] \in Nat /\ t[x + 1] \in Nat /\ t[x] < t[x + 1]
        BY <1>2, <1>6, <2>2
    <2>6. /\ us[k].from = st(k) /\ us[k].to = en(k)
          /\ us[k + 1].from = st(k + 1) /\ us[k + 1].to = en(k + 1)
        BY <1>11, <2>1
    <2>7. /\ st(k) \in Nat /\ en(k) \in Nat /\ st(k) < en(k)
          /\ st(k + 1) \in Nat /\ en(k + 1) \in Nat /\ st(k + 1) < en(k + 1)
        BY <1>9, <2>1
    <2> HIDE DEF st, en, x
    <2>8. en(k) <= st(k + 1)
        BY <2>3, <2>4, <2>5
    <2>9. TokensIn(en(k), st(k + 1)) = {}
        <3> SUFFICES ASSUME NEW i \in TokensIn(en(k), st(k + 1)) PROVE FALSE
            OBVIOUS
        <3>1. i \in Nat /\ en(k) <= i /\ i < st(k + 1) /\ text[i] \in TokenSymbols
            BY <2>7, TokensAre
        <3>2. a <= i /\ i < b
            BY <1>1, <1>6, <2>2, <2>3, <2>4, <2>5, <3>1
        <3>3. i \in T
            BY <1>1, <3>1, <3>2
        <3>4. i > t[x]
            BY <2>3, <2>5, <3>1
        <3>5. i >= t[x + 1]
            BY <1>7, <2>2, <3>3, <3>4
        <3> QED
            BY <2>4, <2>5, <3>1, <3>5
    <2>10. st(k) <= st(k + 1) /\ en(k) <= en(k + 1)
        BY <2>7, <2>8
    <2> QED
        BY <2>6, <2>8, <2>9, <2>10 DEF Follows
<1>14. us # <<>>
    BY <1>4, <1>10, EmptySeq
<1>15. TokensIn(a, us[1].from) = {} /\ TokensIn(us[Len(us)].to, b) = {}
    <2>1. 1 \in 1 .. last /\ last \in 1 .. last
        BY <1>4
    <2>2. us[1].from = a /\ us[last].to = b
        BY <1>11, <2>1
    <2>3. a <= a /\ b <= b
        OBVIOUS
    <2> QED
        BY <1>10, <2>2, <2>3, TokensAre
<1>16. Chain(us, a, b, twice)
    <2>1. /\ \A i \in 1 .. Len(us) : IsUnit(us[i], a, b)
          /\ \A i \in 1 .. Len(us) - 1 : Follows(us[i], us[i + 1], twice)
        BY <1>10, <1>12, <1>13
    <2> QED
        BY <1>10, <1>14, <1>15, <2>1 DEF Chain
<1> QED
    BY <1>14, <1>16 DEF us

-----------------------------------------------------------------------------
(* Induction and recursion up to a number.                                 *)

\* A property of 0 that every step keeps is one of every number.
LEMMA UpTo ==
    ASSUME NEW n \in Nat, NEW T, 0 \in T, \A k \in 1 .. n : k - 1 \in T => k \in T
    PROVE  \A k \in 0 .. n : k \in T
<1> DEFINE U == {k \in Nat : k <= n => k \in T}
<1>1. 0 \in U
    OBVIOUS
<1>2. ASSUME NEW k \in U PROVE k + 1 \in U
    <2>1. k \in Nat /\ (k <= n => k \in T)
        BY <1>2
    <2>2. k + 1 <= n => k + 1 \in 1 .. n /\ k + 1 - 1 = k /\ k <= n
        BY <2>1
    <2>3. k + 1 <= n => k + 1 \in T
        BY <2>1, <2>2
    <2> QED
        BY <2>1, <2>3
<1>3. U = Nat
    <2>1. U \subseteq Nat
        OBVIOUS
    <2> HIDE DEF U
    <2> QED
        BY <1>1, <1>2, <2>1, NatSets
<1>4. \A k \in Nat : k <= n => k \in T
    BY <1>3
<1> QED
    BY <1>4

StepsOf(n, V) == [(1 .. n) \X V -> V]
Recurs(f, n, V, base, step) ==
    /\ f \in [0 .. n -> V] /\ f[0] = base
    /\ \A k \in 1 .. n : f[k] = step[<<k, f[k - 1]>>]

\* A recursive definition whose steps stay within a set has a solution there.
LEMMA RecursionSolves ==
    ASSUME NEW n \in Nat, NEW V, NEW base \in V, NEW step \in StepsOf(n, V)
    PROVE  \E f : Recurs(f, n, V, base, step)
<1> DEFINE Solves(f, m) == Recurs(f, m, V, base, step)
           T == {m \in 0 .. n : \E f : Solves(f, m)}
<1> USE DEF Recurs, StepsOf
<1>1. 0 \in T
    <2> DEFINE f == [k \in 0 .. 0 |-> base]
    <2>1. Solves(f, 0) /\ 0 \in 0 .. n
        OBVIOUS
    <2> HIDE DEF f, Solves
    <2> QED
        BY <2>1
<1>2. ASSUME NEW m \in 1 .. n, m - 1 \in T PROVE m \in T
    <2>1. PICK f : Solves(f, m - 1)
        BY <1>2
    <2>2. m \in Nat /\ m - 1 \in 0 .. m - 1 /\ m \in 0 .. n
        OBVIOUS
    <2> DEFINE v == step[<<m, f[m - 1]>>]  g == [k \in 0 .. m |-> IF k = m THEN v ELSE f[k]]
    <2>3. v \in V
        <3>1. f[m - 1] \in V
            BY <2>1, <2>2
        <3>2. <<m, f[m - 1]>> \in (1 .. n) \X V
            BY <3>1
        <3> QED
            BY <3>2
    <2> HIDE DEF v
    <2>4. \A k \in 0 .. m : k = m \/ k \in 0 .. m - 1
        BY <2>2
    <2>5. \A k \in 0 .. m : g[k] = (IF k = m THEN v ELSE f[k]) /\ g[k] \in V
        BY <2>1, <2>3, <2>4
    <2>6. g \in [0 .. m -> V]
        BY <2>1, <2>3, <2>4
    <2> HIDE DEF g
    <2>7. g[0] = base
        <3>1. 0 \in 0 .. m /\ 0 # m
            BY <2>2
        <3> QED
            BY <2>1, <2>5, <3>1
    <2>8. ASSUME NEW k \in 1 .. m PROVE g[k] = step[<<k, g[k - 1]>>]
        <3>1. k \in 0 .. m /\ k - 1 \in 0 .. m /\ k - 1 # m
            OBVIOUS
        <3>2. g[k - 1] = f[k - 1]
            BY <2>5, <3>1
        <3>3. CASE k = m
            BY <2>5, <3>1, <3>2, <3>3 DEF v
        <3>4. CASE k # m
            <4>1. k \in 1 .. m - 1
                BY <3>4
            <4> QED
                BY <2>1, <2>5, <3>1, <3>2, <3>4, <4>1
        <3> QED
            BY <3>3, <3>4
    <2>9. Solves(g, m)
        BY <2>6, <2>7, <2>8
    <2> HIDE DEF Solves
    <2> QED
        BY <2>2, <2>9
<1> HIDE DEF T
<1>3. n \in T
    <2>1. n \in 0 .. n /\ \A k \in 0 .. n : k \in T
        BY <1>1, <1>2, UpTo
    <2> QED
        BY <2>1
<1> QED
    BY <1>3 DEF T

-----------------------------------------------------------------------------
(* The pieces of a paragraph.                                              *)

\* A chain goes on with another unit, ...
LEMMA ChainThen ==
    ASSUME NEW a \in Nat, NEW b \in Nat, NEW c \in Nat, a <= b, b <= c,
           Tokens(b, c) \in 1 .. MaxTokens, NEW twice, NEW us, Chain(us, a, b, twice)
    PROVE  Chain(Append(us, Span(b, c)), a, c, twice)
<1>1. Chain(<<Span(b, c)>>, b, c, twice)
    BY ChainOne
<1>2. TokensIn(b, b) = {} /\ b <= b
    <2>1. b <= b
        OBVIOUS
    <2> QED
        BY <2>1, TokensAre
<1>3. Chain(us \o <<Span(b, c)>>, a, c, twice)
    BY <1>1, <1>2, ChainsJoin
<1>4. us \in Seq(Spans) /\ Span(b, c) \in Spans
    BY SpanIs DEF Chain
<1>5. Append(us, Span(b, c)) = us \o <<Span(b, c)>>
    BY <1>4, AppendIsConcat
<1> QED
    BY <1>3, <1>5

\* ... with what has no tokens, ...
LEMMA ChainExtends ==
    ASSUME NEW a \in Nat, NEW b \in Nat, NEW c \in Nat, a <= b, b <= c,
           TokensIn(b, c) = {}, NEW twice, NEW us, Chain(us, a, b, twice)
    PROVE  Chain(us, a, c, twice)
<1>1. Chain(<<>>, b, c, twice)
    BY ChainNone
<1>2. TokensIn(b, b) = {} /\ b <= b
    <2>1. b <= b
        OBVIOUS
    <2> QED
        BY <2>1, TokensAre
<1>3. Chain(us \o <<>>, a, c, twice)
    BY <1>1, <1>2, ChainsJoin
<1>4. us \in Seq(Spans)
    BY DEF Chain
<1>5. us \o <<>> = us
    BY <1>4, ConcatEmptySeq
<1> QED
    BY <1>3, <1>5

\* ... and is one whatever else may come twice.
LEMMA ChainGrows ==
    ASSUME NEW a, NEW b, NEW us, NEW twice, NEW more, twice \subseteq more,
           Chain(us, a, b, twice)
    PROVE  Chain(us, a, b, more)
<1>1. \A u, v : Follows(u, v, twice) => Follows(u, v, more)
    BY DEF Follows
<1> QED
    BY <1>1 DEF Chain

\* A chain goes on with slices.
LEMMA ChainSlices ==
    ASSUME NEW a \in Nat, NEW b \in Nat, NEW c \in Nat, a <= b, b <= c,
           Tokens(b, c) > MaxTokens, NEW twice, NEW us, Chain(us, a, b, twice)
    PROVE  Chain(us \o HardSlices(b, c), a, c, twice)
<1>1. Tokens(b, c) > 0
    <2>1. Tokens(b, c) \in Nat
        BY TokensAre
    <2> QED
        BY <2>1, Limits
<1>2. Chain(HardSlices(b, c), b, c, twice)
    BY <1>1, SlicesAre
<1>3. TokensIn(b, b) = {} /\ b <= b
    <2>1. b <= b
        OBVIOUS
    <2> QED
        BY <2>1, TokensAre
<1> QED
    BY <1>2, <1>3, ChainsJoin

Accs == [pieces : Seq(Spans), from : Nat]

\* A chain of pieces and the offset behind it are what a round passes on.
LEMMA AccIs ==
    ASSUME NEW a, NEW b, NEW twice, NEW us, NEW x \in Nat, Chain(us, a, b, twice)
    PROVE  [pieces |-> us, from |-> x] \in Accs
BY DEF Chain, Accs

\* A round at a boundary within the paragraph: what is pending still fits.
LEMMA RoundInside ==
    ASSUME NEW a \in Nat, NEW acc \in Accs, NEW before \in Nat, NEW b \in Nat, NEW end \in Nat,
           a <= acc.from, acc.from <= before, before <= b, b # end,
           NEW twice, Chain(acc.pieces, a, acc.from, twice),
           Tokens(acc.from, before) <= MaxTokens,
           acc.from < before => Tokens(acc.from, before) > 0
    PROVE  LET new == AtBoundary(acc, before, b, end) IN
           /\ new \in Accs /\ new.from \in {acc.from, before, b}
           /\ a <= new.from /\ new.from <= b /\ Tokens(new.from, b) <= MaxTokens
           /\ Chain(new.pieces, a, new.from, twice)
<1> DEFINE new == AtBoundary(acc, before, b, end)  x == acc.from  us == acc.pieces
           Good(v) == /\ v \in Accs /\ v.from \in {x, before, b}
                      /\ a <= v.from /\ v.from <= b /\ Tokens(v.from, b) <= MaxTokens
                      /\ Chain(v.pieces, a, v.from, twice)
           Is(vs, y) == [pieces |-> vs, from |-> y]
<1>1. x \in Nat /\ us \in Seq(Spans)
    BY DEF Accs
<1>2. \A vs, y : Is(vs, y).pieces = vs /\ Is(vs, y).from = y
    OBVIOUS
<1>3. ASSUME NEW vs, NEW y \in Nat, y \in {x, before, b}, a <= y, y <= b,
             Tokens(y, b) <= MaxTokens, Chain(vs, a, y, twice)
      PROVE  Good(Is(vs, y))
    <2>1. Is(vs, y) \in Accs
        BY <1>3, AccIs
    <2> HIDE DEF Is
    <2> QED
        BY <1>2, <1>3, <2>1
<1>4. /\ Tokens(x, b) \in Nat /\ Tokens(before, b) \in Nat /\ Tokens(b, b) = 0
      /\ Tokens(x, before) \in Nat /\ MaxTokens \in Nat
    <2>1. b <= b
        OBVIOUS
    <2>2. Tokens(b, b) = 0
        BY <2>1, TokensAre
    <2> QED
        BY <1>1, <2>2, TokensAre, Limits
<1>5. new = Is(us, x) \/ ~(Tokens(x, b) <= MaxTokens)
    <2> SUFFICES ASSUME Tokens(x, b) <= MaxTokens PROVE new = Is(us, x)
        OBVIOUS
    <2>1. ~(Tokens(x, b) > MaxTokens)
        BY <1>4
    <2> QED
        BY <2>1 DEF AtBoundary
<1>6. CASE Tokens(x, b) <= MaxTokens
    <2>1. Good(Is(us, x))
        <3>1. a <= x /\ x <= b
            BY <1>1
        <3> QED
            BY <1>1, <1>3, <1>6, <3>1
    <2> HIDE DEF new, Is, Good
    <2>2. Good(new)
        BY <1>5, <1>6, <2>1
    <2> QED
        BY <2>2 DEF Good, new
<1>7. CASE Tokens(x, b) > MaxTokens /\ x < before
    <2> DEFINE vs == Append(us, Span(x, before))
    <2>1. new = IF Tokens(before, b) > MaxTokens THEN Is(vs \o HardSlices(before, b), b)
                ELSE Is(vs, before)
        <3>1. before > x /\ Tokens(x, b) > MaxTokens
            BY <1>1, <1>7
        <3> QED
            BY <3>1 DEF AtBoundary
    <2>2. Tokens(x, before) \in 1 .. MaxTokens
        BY <1>4, <1>7
    <2>3. Chain(vs, a, before, twice) /\ a <= before
        <3>1. a <= before
            BY <1>1
        <3> QED
            BY <1>1, <2>2, <3>1, ChainThen
    <2> HIDE DEF vs
    <2>4. CASE Tokens(before, b) > MaxTokens
        <3>1. Chain(vs \o HardSlices(before, b), a, b, twice)
            BY <2>3, <2>4, ChainSlices
        <3>2. Good(Is(vs \o HardSlices(before, b), b))
            <4>1. a <= b /\ b <= b /\ Tokens(b, b) <= MaxTokens
                BY <1>4, <2>3
            <4> QED
                BY <1>3, <3>1, <4>1
        <3> HIDE DEF new, Is, Good
        <3>3. Good(new)
            BY <2>1, <2>4, <3>2
        <3> QED
            BY <3>3 DEF Good, new
    <2>5. CASE ~(Tokens(before, b) > MaxTokens)
        <3>1. Tokens(before, b) <= MaxTokens
            BY <1>4, <2>5
        <3>2. Good(Is(vs, before))
            BY <1>3, <2>3, <3>1
        <3> HIDE DEF new, Is, Good
        <3>3. Good(new)
            BY <2>1, <2>5, <3>2
        <3> QED
            BY <3>3 DEF Good, new
    <2> QED
        BY <2>4, <2>5
<1>8. CASE Tokens(x, b) > MaxTokens /\ ~(x < before)
    <2>1. new = Is(us \o HardSlices(x, b), b)
        <3>1. ~(before > x) /\ Tokens(x, b) > MaxTokens
            BY <1>1, <1>8
        <3> QED
            BY <3>1 DEF AtBoundary
    <2>2. a <= x /\ x <= b
        BY <1>1
    <2>3. Chain(us \o HardSlices(x, b), a, b, twice)
        BY <1>1, <1>8, <2>2, ChainSlices
    <2>4. Good(Is(us \o HardSlices(x, b), b))
        <3>1. a <= b /\ b <= b /\ Tokens(b, b) <= MaxTokens
            BY <1>1, <1>4, <2>2
        <3> QED
            BY <1>3, <2>3, <3>1
    <2> HIDE DEF new, Is, Good
    <2>5. Good(new)
        BY <2>1, <2>4
    <2> QED
        BY <2>5 DEF Good, new
<1>9. Tokens(x, b) <= MaxTokens \/ Tokens(x, b) > MaxTokens
    BY <1>4
<1> HIDE DEF x
<1> QED
    BY <1>6, <1>7, <1>8, <1>9

\* What is left at the end of the paragraph comes in the last piece, or is blank.
Left(acc, end) ==
    \/ Tokens(acc.from, end) = 0
    \/ /\ Tokens(acc.from, end) <= MaxTokens
       /\ acc.pieces # <<>> /\ acc.pieces[Len(acc.pieces)] = Span(acc.from, end)

Done(acc, a, end, twice) ==
    /\ acc \in Accs /\ acc.from <= end /\ Left(acc, end) /\ Chain(acc.pieces, a, end, twice)

\* The first round at the end of the paragraph ...
LEMMA RoundAtEnd ==
    ASSUME NEW a \in Nat, NEW acc \in Accs, NEW before \in Nat, NEW b \in Nat,
           a <= acc.from, acc.from <= b, NEW twice, Chain(acc.pieces, a, acc.from, twice)
    PROVE  Done(AtBoundary(acc, before, b, b), a, b, twice)
<1> DEFINE new == AtBoundary(acc, before, b, b)  x == acc.from  us == acc.pieces
           Is(vs, y) == [pieces |-> vs, from |-> y]
<1>1. x \in Nat /\ us \in Seq(Spans) /\ Tokens(x, b) \in Nat /\ MaxTokens \in Nat
    BY TokensAre, Limits DEF Accs
<1>2. \A vs, y : Is(vs, y).pieces = vs /\ Is(vs, y).from = y
    OBVIOUS
<1>3. CASE Tokens(x, b) > MaxTokens
    <2> DEFINE vs == us \o HardSlices(x, b)
    <2>1. new = Is(vs, b)
        BY <1>3 DEF AtBoundary
    <2>2. Chain(vs, a, b, twice)
        BY <1>1, <1>3, ChainSlices
    <2>3. b <= b
        OBVIOUS
    <2>4. Tokens(b, b) = 0
        BY <2>3, TokensAre
    <2>5. Is(vs, b) \in Accs
        BY <2>2, AccIs
    <2> HIDE DEF vs, new, Is
    <2>6. Done(new, a, b, twice)
        BY <1>2, <2>1, <2>2, <2>3, <2>4, <2>5 DEF Done, Left
    <2> QED
        BY <2>6 DEF new
<1>4. CASE Tokens(x, b) = 0
    <2>1. new = Is(us, x)
        <3>1. ~(Tokens(x, b) > MaxTokens) /\ ~(Tokens(x, b) > 0)
            BY <1>1, <1>4
        <3> QED
            BY <3>1 DEF AtBoundary
    <2>2. TokensIn(x, b) = {}
        BY <1>1, <1>4, TokensAre
    <2>3. Chain(us, a, b, twice)
        BY <1>1, <2>2, ChainExtends
    <2>4. Is(us, x) \in Accs
        BY <1>1, <2>3, AccIs
    <2>5. x <= b
        OBVIOUS
    <2> HIDE DEF new, Is, x, us
    <2>6. Done(new, a, b, twice)
        BY <1>2, <1>4, <2>1, <2>3, <2>4, <2>5 DEF Done, Left
    <2> QED
        BY <2>6 DEF new
<1>5. CASE Tokens(x, b) \in 1 .. MaxTokens
    <2> DEFINE s == Span(x, b)  vs == Append(us, s)
    <2>1. new = Is(vs, x)
        <3>1. ~(Tokens(x, b) > MaxTokens) /\ Tokens(x, b) > 0
            BY <1>1, <1>5
        <3> QED
            BY <3>1 DEF AtBoundary
    <2>2. Chain(vs, a, b, twice)
        BY <1>1, <1>5, ChainThen
    <2>3. vs # <<>> /\ vs[Len(vs)] = s
        <3>1. s \in Spans
            BY <1>1, SpanIs
        <3> HIDE DEF s
        <3> QED
            BY <1>1, <3>1, AppendProperties
    <2>4. Is(vs, x) \in Accs
        BY <1>1, <2>2, AccIs
    <2>5. x <= b /\ Tokens(x, b) <= MaxTokens
        BY <1>1, <1>5
    <2>6. s = Span(x, b)
        OBVIOUS
    <2> HIDE DEF new, Is, vs, s, x
    <2>7. Done(new, a, b, twice)
        BY <1>2, <2>1, <2>2, <2>3, <2>4, <2>5, <2>6 DEF Done, Left
    <2> QED
        BY <2>7 DEF new
<1>6. Tokens(x, b) > MaxTokens \/ Tokens(x, b) = 0 \/ Tokens(x, b) \in 1 .. MaxTokens
    BY <1>1
<1> QED
    BY <1>3, <1>4, <1>5, <1>6

\* ... and the second: the last piece comes twice.
LEMMA RoundAgain ==
    ASSUME NEW a \in Nat, NEW acc, NEW before \in Nat, NEW b \in Nat, NEW twice,
           Done(acc, a, b, twice), \A x \in Nat : Span(x, b) \in twice
    PROVE  Done(AtBoundary(acc, before, b, b), a, b, twice)
<1> DEFINE new == AtBoundary(acc, before, b, b)  x == acc.from  us == acc.pieces
           Is(vs, y) == [pieces |-> vs, from |-> y]
<1>1. /\ x \in Nat /\ us \in Seq(Spans) /\ x <= b
      /\ Tokens(x, b) \in Nat /\ MaxTokens \in Nat /\ Chain(us, a, b, twice)
      /\ acc = Is(us, x)
    BY TokensAre, Limits DEF Accs, Done
<1>2. \A vs, y : Is(vs, y).pieces = vs /\ Is(vs, y).from = y
    OBVIOUS
<1>3. Tokens(x, b) = 0 \/ (/\ Tokens(x, b) <= MaxTokens
                           /\ us # <<>> /\ us[Len(us)] = Span(x, b))
    BY DEF Done, Left
<1>4. CASE Tokens(x, b) = 0
    <2>1. new = Is(us, x)
        <3>1. ~(Tokens(x, b) > MaxTokens) /\ ~(Tokens(x, b) > 0)
            BY <1>1, <1>4
        <3> QED
            BY <3>1 DEF AtBoundary
    <2> HIDE DEF new, Is, x, us
    <2>2. Done(new, a, b, twice)
        BY <1>1, <2>1
    <2> QED
        BY <2>2 DEF new
<1>5. CASE Tokens(x, b) # 0
    <2> DEFINE s == Span(x, b)  vs == Append(us, s)
    <2>1. Tokens(x, b) <= MaxTokens /\ us # <<>> /\ us[Len(us)] = s
        BY <1>3, <1>5
    <2>2. new = Is(vs, x)
        <3>1. ~(Tokens(x, b) > MaxTokens) /\ Tokens(x, b) > 0
            BY <1>1, <1>5, <2>1
        <3> QED
            BY <3>1 DEF AtBoundary
    <2>3. s \in twice /\ s \in Spans
        BY <1>1, SpanIs
    <2>4. s = Span(x, b)
        OBVIOUS
    <2> HIDE DEF s
    <2>5. Chain(vs, a, b, twice)
        <3>1. us[Len(us)] \in twice
            BY <2>1, <2>3
        <3>2. Chain(Append(us, us[Len(us)]), a, b, twice)
            BY <1>1, <2>1, <3>1, ChainAgain
        <3> QED
            BY <2>1, <3>2
    <2>6. vs # <<>> /\ vs[Len(vs)] = s
        BY <1>1, <2>3, AppendProperties
    <2>7. Is(vs, x) \in Accs
        BY <1>1, <2>5, AccIs
    <2> HIDE DEF new, Is, vs, x, us
    <2>8. Done(new, a, b, twice)
        BY <1>1, <1>2, <2>1, <2>2, <2>4, <2>5, <2>6, <2>7 DEF Done, Left
    <2> QED
        BY <2>8 DEF new
<1> QED
    BY <1>4, <1>5

\* Each end of a sentence has a word of its own before it.
LEMMA EndsAre ==
    ASSUME NEW p \in Spans
    PROVE  LET ends == SentenceEnds(p) IN
           /\ ends \subseteq Nat /\ IsFiniteSet(ends)
           /\ \A e \in ends : p.from < e /\ e <= p.to
           /\ \A e \in ends, x \in ends \cup {p.from} : x < e => Tokens(x, e) > 0
<1> DEFINE ends == SentenceEnds(p)
           Ends(i, e) == /\ i \in Nat /\ p.from <= i /\ i <= p.to - 2 /\ text[i] = "stop"
                         /\ e = AfterSentence(p, i)
<1>1. p.from \in Nat /\ p.to \in Nat
    BY DEF Spans
<1>2. \A e \in ends : \E i : Ends(i, e)
    <2>1. \A i \in p.from .. p.to - 2 : i \in Nat /\ p.from <= i /\ i <= p.to - 2
        BY <1>1
    <2> QED
        BY <2>1 DEF SentenceEnds
<1>3. \A i, e : Ends(i, e) =>
          /\ e \in Nat /\ p.from < e /\ e <= p.to
          /\ e = i + 1 \/ (e = i + 2 /\ text[i + 1] = "blank")
          /\ e = i + 1 => ~(i + 1 < p.to /\ text[i + 1] = "blank")
    BY <1>1 DEF AfterSentence
<1>4. ends \subseteq Nat /\ \A e \in ends : p.from < e /\ e <= p.to
    BY <1>2, <1>3
<1>5. IsFiniteSet(ends)
    <2>1. ends \subseteq 0 .. p.to
        BY <1>1, <1>4
    <2>2. IsFiniteSet(0 .. p.to)
        BY <1>1, FS_Interval
    <2> QED
        BY <2>1, <2>2, FS_Subset
<1>6. ASSUME NEW e \in ends, NEW x \in ends \cup {p.from}, x < e
      PROVE  Tokens(x, e) > 0
    <2>1. x \in Nat /\ e \in Nat
        BY <1>1, <1>4, <1>6
    <2>2. PICK i : Ends(i, e)
        BY <1>2
    <2>3. i \in Nat /\ text[i] = "stop" /\ p.from <= i /\ i < e /\ (e = i + 1 \/ e = i + 2)
        BY <1>3, <2>2
    <2> HIDE DEF ends
    <2>4. x <= i
        <3>1. CASE x = p.from
            BY <2>3, <3>1
        <3>2. CASE x \in ends /\ e = i + 1
            BY <1>6, <2>1, <2>3, <3>2
        <3>3. CASE x \in ends /\ e = i + 2
            <4>1. PICK j : Ends(j, x)
                BY <1>2, <3>3
            <4>2. text[i + 1] = "blank"
                <5>1. e = i + 1 \/ (e = i + 2 /\ text[i + 1] = "blank")
                    BY <1>3, <2>2
                <5> QED
                    BY <2>3, <3>3, <5>1
            <4>3. /\ j \in Nat /\ text[j] = "stop"
                  /\ x = j + 1 \/ (x = j + 2 /\ text[j + 1] = "blank")
                BY <1>3, <4>1
            <4> SUFFICES ASSUME x = i + 1 PROVE FALSE
                BY <1>6, <2>1, <2>3, <3>3
            <4>4. j = i \/ j + 1 = i
                BY <2>3, <4>3
            <4>5. CASE j = i
                <5>1. x = e
                    BY <2>2, <4>1, <4>5
                <5> QED
                    BY <1>6, <2>1, <5>1
            <4>6. CASE j + 1 = i
                <5>1. x # j + 1
                    BY <2>3, <4>3, <4>6
                <5>2. text[i] = "blank"
                    BY <4>3, <4>6, <5>1
                <5> QED
                    BY <2>3, <5>2
            <4> QED
                BY <4>4, <4>5, <4>6
        <3> QED
            BY <1>6, <2>3, <3>1, <3>2, <3>3
    <2>5. i \in TokensIn(x, e)
        <3>1. text[i] \in TokenSymbols
            BY <2>3 DEF TokenSymbols
        <3> QED
            BY <2>1, <2>3, <2>4, <3>1, TokensAre
    <2>6. Tokens(x, e) \in Nat /\ Tokens(x, e) # 0
        BY <2>1, <2>5, TokensAre
    <2> QED
        BY <2>6
<1> QED
    BY <1>4, <1>5, <1>6

\* The boundaries of a paragraph do not fall.
LEMMA BoundariesAre ==
    ASSUME NEW p \in Spans, p.from < p.to
    PROVE  LET b == Boundaries(p)  last == LastBoundary(p) IN
           /\ last \in Nat /\ last > 0 /\ b \in [0 .. last -> Nat] /\ b[0] = p.from /\ b[last] = p.to
           /\ \A k \in 0 .. last : p.from <= b[k] /\ b[k] <= p.to
           /\ \A k \in 1 .. last : /\ b[k - 1] <= b[k]
                                   /\ b[k] = p.to \/ b[k] \in SentenceEnds(p)
                                   /\ k < last => b[k] \in SentenceEnds(p)
<1> DEFINE b == Boundaries(p)  last == LastBoundary(p)  ends == SentenceEnds(p)
           n == Cardinality(ends)  s == Ascending(ends)
<1>1. p.from \in Nat /\ p.to \in Nat
    BY DEF Spans
<1>2. ends \subseteq Nat /\ IsFiniteSet(ends) /\ \A e \in ends : p.from < e /\ e <= p.to
    BY EndsAre
<1>3. /\ n \in Nat /\ \A k \in 1 .. n : s[k] \in ends
      /\ \A i, j \in 1 .. n : i < j => s[i] < s[j]
    BY <1>2, AscendingIs
<1>4. last = n + 1
    BY DEF LastBoundary
<1>5. b = [k \in 0 .. last |-> IF k = 0 THEN p.from ELSE IF k < last THEN s[k] ELSE p.to]
    BY DEF Boundaries
<1> HIDE DEF b, last, n, s, ends
<1>6. last \in Nat /\ last > 0 /\ 0 \in 0 .. last /\ last \in 0 .. last /\ last # 0
    BY <1>3, <1>4
<1>7. b[0] = p.from /\ b[last] = p.to
    BY <1>5, <1>6
<1>8. \A k \in 1 .. last : k < last => k \in 1 .. n /\ b[k] = s[k] /\ b[k] \in ends
    BY <1>3, <1>4, <1>5
<1>9. \A k \in 0 .. last : b[k] \in Nat /\ p.from <= b[k] /\ b[k] <= p.to
    <2> SUFFICES ASSUME NEW k \in 0 .. last
                 PROVE  b[k] \in Nat /\ p.from <= b[k] /\ b[k] <= p.to
        OBVIOUS
    <2>1. k = 0 \/ k = last \/ (k \in 1 .. last /\ k < last)
        BY <1>6
    <2>2. CASE k = 0
        BY <1>1, <1>7, <2>2
    <2>3. CASE k = last
        BY <1>1, <1>7, <2>3
    <2>4. CASE k \in 1 .. last /\ k < last
        <3>1. b[k] \in ends
            BY <1>8, <2>4
        <3>2. b[k] \in Nat /\ p.from < b[k] /\ b[k] <= p.to
            BY <1>2, <3>1
        <3> QED
            BY <1>1, <3>2
    <2> QED
        BY <2>1, <2>2, <2>3, <2>4
<1>10. b \in [0 .. last -> Nat]
    BY <1>5, <1>9
<1>11. ASSUME NEW k \in 1 .. last
       PROVE  b[k - 1] <= b[k] /\ (b[k] = p.to \/ b[k] \in ends) /\ (k < last => b[k] \in ends)
    <2>1. k - 1 \in 0 .. last /\ k \in 0 .. last
        BY <1>6
    <2>2. CASE k = last
        BY <1>7, <1>9, <2>1, <2>2
    <2>3. CASE k # last
        <3>1. k < last
            BY <2>3, <1>6
        <3>2. k \in 1 .. n /\ b[k] = s[k] /\ b[k] \in ends
            BY <1>8, <3>1
        <3>3. CASE k = 1
            <4>1. k - 1 = 0 /\ b[0] = p.from
                BY <1>7, <3>3
            <4>2. b[k] \in Nat /\ p.from < b[k]
                BY <1>2, <3>2
            <4> QED
                BY <1>1, <3>2, <4>1, <4>2
        <3>4. CASE k # 1
            <4>1. k - 1 \in 1 .. last /\ k - 1 < last /\ k - 1 < k
                BY <1>6, <3>1, <3>4
            <4>2. k - 1 \in 1 .. n /\ b[k - 1] = s[k - 1]
                BY <1>8, <4>1
            <4>3. s[k - 1] < s[k]
                BY <1>3, <3>2, <4>1, <4>2
            <4>4. s[k - 1] \in Nat /\ s[k] \in Nat
                BY <1>2, <1>3, <3>2, <4>2
            <4>5. b[k - 1] <= b[k]
                BY <3>2, <4>2, <4>3, <4>4
            <4> QED
                BY <3>2, <4>5
        <3> QED
            BY <3>2, <3>3, <3>4
    <2> QED
        BY <2>2, <2>3
<1> QED
    BY <1>6, <1>7, <1>9, <1>10, <1>11 DEF b, last, ends

\* Whatever the round has, what it passes on has the type of what it got.
LEMMA RoundIsTyped ==
    ASSUME NEW acc \in Accs, NEW before \in Nat, NEW b \in Nat, NEW end
    PROVE  AtBoundary(acc, before, b, end) \in Accs
<1> DEFINE us == acc.pieces  x == acc.from
           cut == Tokens(x, b) > MaxTokens /\ b # end /\ before > x
           y == IF cut THEN before ELSE x
           vs == IF cut THEN Append(us, Span(x, y)) ELSE us
<1>1. AtBoundary(acc, before, b, end) =
          IF Tokens(y, b) > MaxTokens THEN [pieces |-> vs \o HardSlices(y, b), from |-> b]
          ELSE IF ~(Tokens(x, b) > MaxTokens) /\ b = end /\ Tokens(y, b) > 0
          THEN [pieces |-> Append(vs, Span(y, b)), from |-> y]
          ELSE [pieces |-> vs, from |-> y]
    BY DEF AtBoundary
<1>2. us \in Seq(Spans) /\ x \in Nat
    BY DEF Accs
<1>3. y \in Nat
    BY <1>2
<1>4. Span(x, y) \in Spans /\ Span(y, b) \in Spans
    BY <1>2, <1>3, SpanIs
<1>5. vs \in Seq(Spans)
    BY <1>2, <1>4, AppendProperties
<1> HIDE DEF vs, y
<1>6. Append(vs, Span(y, b)) \in Seq(Spans)
    BY <1>4, <1>5, AppendProperties
<1>7. Tokens(y, b) > MaxTokens => vs \o HardSlices(y, b) \in Seq(Spans)
    <2> SUFFICES ASSUME Tokens(y, b) > MaxTokens
                 PROVE  vs \o HardSlices(y, b) \in Seq(Spans)
        OBVIOUS
    <2>1. Tokens(y, b) \in Nat
        BY <1>3, TokensAre
    <2>2. Tokens(y, b) > 0
        BY <2>1, Limits
    <2>3. HardSlices(y, b) \in Seq(Spans)
        BY <1>3, <2>2, SlicesAre DEF Chain
    <2> QED
        BY <1>5, <2>3, ConcatProperties
<1> QED
    BY <1>1, <1>3, <1>5, <1>6, <1>7 DEF Accs

\* What may come twice, and where the loop stands at a boundary.
Twice(p) == {s \in Spans : s.to = p.to /\ p.to \in SentenceEnds(p)}

Pending(p, acc, b) ==
    /\ acc \in Accs
    /\ b = p.to => Done(acc, p.from, p.to, Twice(p))
    /\ b # p.to => /\ acc.from \in SentenceEnds(p) \cup {p.from}
                   /\ p.from <= acc.from /\ acc.from <= b
                   /\ Tokens(acc.from, b) <= MaxTokens
                   /\ Chain(acc.pieces, p.from, acc.from, Twice(p))

\* One round keeps it.
LEMMA RoundIs ==
    ASSUME NEW p \in Spans, p.from < p.to, NEW k \in 1 .. LastBoundary(p), NEW acc,
           Pending(p, acc, Boundaries(p)[k - 1])
    PROVE  Pending(p, AtBoundary(acc, Boundaries(p)[k - 1], Boundaries(p)[k], p.to),
                   Boundaries(p)[k])
<1> DEFINE b == Boundaries(p)  last == LastBoundary(p)  ends == SentenceEnds(p)
           before == b[k - 1]  at == b[k]  a == p.from  end == p.to
           new == AtBoundary(acc, before, at, end)
<1>1. a \in Nat /\ end \in Nat
    BY DEF Spans
<1>2. /\ last \in Nat /\ last > 0 /\ b \in [0 .. last -> Nat] /\ b[0] = a /\ b[last] = end
      /\ \A j \in 0 .. last : a <= b[j] /\ b[j] <= end
      /\ \A j \in 1 .. last : /\ b[j - 1] <= b[j]
                              /\ b[j] = end \/ b[j] \in ends
                              /\ j < last => b[j] \in ends
    BY BoundariesAre
<1>3. k - 1 \in 0 .. last /\ k \in 0 .. last
    BY <1>2
<1>4. /\ before \in Nat /\ at \in Nat /\ before <= at /\ at <= end /\ a <= before
      /\ at = end \/ at \in ends
    BY <1>2, <1>3
<1>5. before = end => end \in ends
    <2> SUFFICES ASSUME before = end PROVE end \in ends
        OBVIOUS
    <2>1. k - 1 # 0
        BY <1>1, <1>2
    <2>2. k - 1 \in 1 .. last /\ k - 1 < last
        BY <1>2, <2>1
    <2> QED
        BY <1>2, <2>2
<1>6. before # end => before \in ends \cup {a}
    <2>1. k - 1 = 0 \/ k - 1 \in 1 .. last
        BY <1>2
    <2> QED
        BY <1>2, <2>1
<1>7. /\ acc \in Accs
      /\ before = end => Done(acc, a, end, Twice(p))
      /\ before # end => /\ acc.from \in ends \cup {a} /\ a <= acc.from /\ acc.from <= before
                         /\ Tokens(acc.from, before) <= MaxTokens
                         /\ Chain(acc.pieces, a, acc.from, Twice(p))
    BY DEF Pending
<1>8. acc.from \in Nat /\ acc.pieces \in Seq(Spans)
    BY <1>7 DEF Accs
<1>9. end \in ends => \A x \in Nat : Span(x, end) \in Twice(p)
    BY <1>1, SpanIs DEF Twice
<1>10. new \in Accs
    BY <1>4, <1>7, RoundIsTyped
<1>11. \A e \in ends, x \in ends \cup {a} : x < e => Tokens(x, e) > 0
    BY EndsAre
<1> HIDE DEF b, last, ends, before, at, a, end
<1>12. CASE at = end
    <2>1. CASE before = end
        <3>1. Done(AtBoundary(acc, before, end, end), a, end, Twice(p))
            BY <1>1, <1>4, <1>5, <1>7, <1>9, <2>1, RoundAgain
        <3>2. Done(new, a, end, Twice(p))
            BY <1>12, <3>1
        <3> QED
            BY <1>10, <1>12, <3>2 DEF Pending, a, end, new, b, before, at
    <2>2. CASE before # end
        <3>1. acc.from <= end
            BY <1>1, <1>4, <1>7, <1>8, <2>2
        <3>2. Done(AtBoundary(acc, before, end, end), a, end, Twice(p))
            BY <1>1, <1>4, <1>7, <2>2, <3>1, RoundAtEnd
        <3>3. Done(new, a, end, Twice(p))
            BY <1>12, <3>2
        <3> QED
            BY <1>10, <1>12, <3>3 DEF Pending, a, end, new, b, before, at
    <2> QED
        BY <2>1, <2>2
<1>13. CASE at # end
    <2>1. before # end
        BY <1>1, <1>4, <1>13
    <2>2. acc.from < before => Tokens(acc.from, before) > 0
        <3>1. acc.from < before => before # a
            BY <1>1, <1>4, <1>7, <1>8, <2>1
        <3> QED
            BY <1>6, <1>7, <1>11, <2>1, <3>1
    <2>3. /\ new.from \in {acc.from, before, at}
          /\ a <= new.from /\ new.from <= at /\ Tokens(new.from, at) <= MaxTokens
          /\ Chain(new.pieces, a, new.from, Twice(p))
        BY <1>1, <1>4, <1>7, <1>8, <1>13, <2>1, <2>2, RoundInside
    <2>4. new.from \in ends \cup {a}
        BY <1>4, <1>6, <1>7, <1>13, <2>1, <2>3
    <2> HIDE DEF new
    <2>5. Pending(p, new, at)
        BY <1>10, <1>13, <2>3, <2>4 DEF Pending, a, end, ends
    <2> QED
        BY <2>5 DEF new, before, at, b, end
<1> QED
    BY <1>12, <1>13

SplitBody(p, f, k) ==
    IF k = 0 THEN [pieces |-> <<>>, from |-> p.from]
    ELSE AtBoundary(f[k - 1], Boundaries(p)[k - 1], Boundaries(p)[k], p.to)

\* The loop is one recursive function.
LEMMA SplitSolves ==
    ASSUME NEW p \in Spans, p.from < p.to
    PROVE  \E f : f = [k \in 0 .. LastBoundary(p) |-> SplitBody(p, f, k)]
<1> DEFINE b == Boundaries(p)  last == LastBoundary(p)  base == [pieces |-> <<>>, from |-> p.from]
           step == [x \in (1 .. last) \X Accs |-> AtBoundary(x[2], b[x[1] - 1], b[x[1]], p.to)]
<1>1. last \in Nat /\ b \in [0 .. last -> Nat]
    BY BoundariesAre
<1>2. base \in Accs
    <2>1. <<>> \in Seq(Spans)
        BY EmptySeq
    <2> QED
        BY <2>1 DEF Accs, Spans
<1>3. base = [pieces |-> <<>>, from |-> p.from]
    OBVIOUS
<1> HIDE DEF b, last, base
<1>4. ASSUME NEW k \in 1 .. last, NEW acc \in Accs
      PROVE  AtBoundary(acc, b[k - 1], b[k], p.to) \in Accs
    <2>1. k - 1 \in 0 .. last /\ k \in 0 .. last
        BY <1>1
    <2>2. b[k - 1] \in Nat /\ b[k] \in Nat
        BY <1>1, <2>1
    <2> QED
        BY <2>2, RoundIsTyped
<1>5. step \in StepsOf(last, Accs)
    <2>1. \A x \in (1 .. last) \X Accs : x[1] \in 1 .. last /\ x[2] \in Accs
        OBVIOUS
    <2> QED
        BY <1>4, <2>1 DEF StepsOf
<1>6. \A k \in 1 .. last, acc \in Accs :
          step[<<k, acc>>] = AtBoundary(acc, b[k - 1], b[k], p.to)
    OBVIOUS
<1> HIDE DEF step
<1>7. PICK f : Recurs(f, last, Accs, base, step)
    BY <1>1, <1>2, <1>5, RecursionSolves
<1>8. ASSUME NEW k \in 0 .. last PROVE f[k] = SplitBody(p, f, k)
    <2>1. CASE k = 0
        BY <1>3, <1>7, <2>1 DEF SplitBody, Recurs
    <2>2. CASE k # 0
        <3>1. k \in 1 .. last /\ k - 1 \in 0 .. last
            BY <1>1, <2>2
        <3>2. f[k] = AtBoundary(f[k - 1], b[k - 1], b[k], p.to)
            BY <1>6, <1>7, <3>1 DEF Recurs
        <3> QED
            BY <2>2, <3>2 DEF SplitBody, b
    <2> QED
        BY <2>1, <2>2
<1>9. f = [k \in 0 .. last |-> SplitBody(p, f, k)]
    <2>1. f = [k \in 0 .. last |-> f[k]]
        BY <1>7 DEF Recurs
    <2> QED
        BY <1>8, <2>1
<1> QED
    BY <1>9 DEF last

\* The pieces of a paragraph are a chain; the last may come twice.
LEMMA PiecesAre ==
    ASSUME NEW p \in Spans, Tokens(p.from, p.to) > 0
    PROVE  Chain(SplitOversized(p), p.from, p.to, Twice(p))
<1> DEFINE last == LastBoundary(p)  b == Boundaries(p)
           split == CHOOSE f : f = [k \in 0 .. last |-> SplitBody(p, f, k)]
           pieces == split[last].pieces
           notBlank == Ascending({k \in DOMAIN pieces : Length(pieces[k]) > 0})
<1>1. p.from \in Nat /\ p.to \in Nat /\ p.from < p.to
    <2>1. p.from \in Nat /\ p.to \in Nat
        BY DEF Spans
    <2>2. p.to <= p.from => Tokens(p.from, p.to) = 0
        BY <2>1, TokensAre
    <2> QED
        BY <2>1, <2>2
<1>2. split = [k \in 0 .. last |-> SplitBody(p, split, k)]
    BY <1>1, SplitSolves
<1>3. SplitOversized(p) = [k \in DOMAIN notBlank |-> pieces[notBlank[k]]]
    BY DEF SplitOversized, SplitBody
<1>4. last \in Nat /\ last > 0 /\ b[0] = p.from /\ b[last] = p.to
    BY <1>1, BoundariesAre
<1> HIDE DEF split, last
<1>5. /\ split[0] = [pieces |-> <<>>, from |-> p.from]
      /\ \A k \in 1 .. last : split[k] = AtBoundary(split[k - 1], b[k - 1], b[k], p.to)
    <2>1. 0 \in 0 .. last /\ \A k \in 1 .. last : k \in 0 .. last /\ k # 0
        BY <1>4
    <2>2. \A k \in 0 .. last : split[k] = SplitBody(p, split, k)
        BY <1>2
    <2> QED
        BY <2>1, <2>2 DEF SplitBody
<1> DEFINE T == {k \in 0 .. last : Pending(p, split[k], b[k])}
<1>6. 0 \in T
    <2>1. Chain(<<>>, p.from, p.from, Twice(p)) /\ Tokens(p.from, p.from) <= MaxTokens
        <3>1. p.from <= p.from
            BY <1>1
        <3>2. TokensIn(p.from, p.from) = {} /\ Tokens(p.from, p.from) = 0
            BY <1>1, <3>1, TokensAre
        <3> QED
            BY <1>1, <3>2, ChainNone, Limits
    <2>2. split[0] \in Accs /\ split[0].from = p.from /\ split[0].pieces = <<>>
        <3>1. [pieces |-> <<>>, from |-> p.from] \in Accs
            BY <1>1, <2>1, AccIs
        <3> QED
            BY <1>5, <3>1
    <2>3. b[0] # p.to /\ b[0] = p.from /\ p.from <= p.from /\ 0 \in 0 .. last
        BY <1>1, <1>4
    <2> HIDE DEF b
    <2> QED
        BY <2>1, <2>2, <2>3 DEF Pending
<1>7. ASSUME NEW k \in 1 .. last, k - 1 \in T PROVE k \in T
    <2>1. Pending(p, split[k - 1], b[k - 1]) /\ k \in 0 .. last
        BY <1>4, <1>7
    <2>2. Pending(p, AtBoundary(split[k - 1], b[k - 1], b[k], p.to), b[k])
        BY <1>1, <2>1, RoundIs DEF last
    <2> QED
        BY <1>5, <2>1, <2>2
<1> HIDE DEF T
<1>8. last \in T
    <2>1. \A k \in 0 .. last : k \in T
        BY <1>4, <1>6, <1>7, UpTo
    <2> QED
        BY <1>4, <2>1
<1>9. Chain(pieces, p.from, p.to, Twice(p))
    BY <1>4, <1>8 DEF T, Pending, Done
<1> HIDE DEF pieces
<1>10. /\ pieces \in Seq(Spans) /\ Len(pieces) \in Nat /\ DOMAIN pieces = 1 .. Len(pieces)
       /\ \A k \in 1 .. Len(pieces) : Length(pieces[k]) > 0
    <2>1. pieces \in Seq(Spans) /\ \A k \in 1 .. Len(pieces) : Length(pieces[k]) \in 1 .. MaxTokens
        BY <1>9 DEF Chain, IsUnit
    <2>2. \A k \in 1 .. MaxTokens : k > 0
        BY Limits
    <2> QED
        BY <2>1, <2>2, LenProperties
<1>11. {k \in DOMAIN pieces : Length(pieces[k]) > 0} = 1 .. Len(pieces)
    BY <1>10
<1>12. notBlank = [k \in 1 .. Len(pieces) |-> k]
    BY <1>10, <1>11, AscendingFirst
<1>13. [k \in DOMAIN notBlank |-> pieces[notBlank[k]]] = pieces
    <2>1. pieces = [k \in 1 .. Len(pieces) |-> pieces[k]]
        BY <1>10
    <2> HIDE DEF notBlank
    <2> QED
        BY <1>12, <2>1
<1> QED
    BY <1>3, <1>9, <1>13

-----------------------------------------------------------------------------
(* The paragraphs of a draft.                                              *)

\* A draft begins with a token, and a break stands between two tokens or blanks.
LEMMA DraftIs ==
    ASSUME text \in Drafts
    PROVE  /\ Len(text) \in Nat /\ Len(text) > 0 /\ DOMAIN text = 1 .. Len(text)
           /\ Whole.from = 1 /\ Whole.to = Len(text) + 1 /\ Whole \in Spans
           /\ text[1] \in TokenSymbols
           /\ \A i \in 1 .. Len(text) :
                  text[i] = "break" => /\ i > 1 /\ i < Len(text)
                                       /\ text[i] \notin TokenSymbols /\ text[i + 1] \in TokenSymbols
<1>1. PICK n \in 1 .. MaxLength : text \in [1 .. n -> Symbols]
    BY DEF Drafts
<1>2. n \in Nat /\ n > 0 /\ 1 \in 1 .. n
    BY Limits
<1>3. Len(text) = n /\ DOMAIN text = 1 .. n
    BY <1>1, <1>2
<1>4. Whole.from = 1 /\ Whole.to = Len(text) + 1 /\ Whole \in Spans
    BY <1>2, <1>3 DEF Whole, Span, Spans
<1>5. IsText(text)
    BY DEF Drafts
<1>6. \A i \in 1 .. n :
          /\ text[i] = "blank" => i > 1
          /\ text[i] = "break" => i > 1 /\ i < n /\ text[i + 1] \in TokenSymbols
    BY <1>3, <1>5 DEF IsText
<1>7. text[1] \in TokenSymbols
    <2>1. text[1] \in Symbols /\ text[1] # "blank" /\ text[1] # "break"
        BY <1>1, <1>2, <1>6
    <2> QED
        BY <2>1 DEF Symbols
<1>8. "break" \notin TokenSymbols
    BY DEF TokenSymbols
<1> QED
    BY <1>2, <1>3, <1>4, <1>6, <1>7, <1>8

\* Paragraphs begin with a token and end at a break or with the draft.
LEMMA ParagraphsAre ==
    ASSUME text \in Drafts
    PROVE  LET ps == Paragraphs  n == Len(ps) IN
           /\ ps \in Seq(Spans) /\ n \in Nat /\ n > 0 /\ DOMAIN ps = 1 .. n
           /\ ps[1].from = 1 /\ ps[n].to = Whole.to
           /\ \A k \in 1 .. n : /\ ps[k].from >= 1 /\ ps[k].from < ps[k].to /\ ps[k].to <= Whole.to
                                /\ Length(ps[k]) > 0
           /\ \A k \in 1 .. n - 1 : TokensIn(ps[k].to, ps[k + 1].from) = {}
           /\ \A j, k \in 1 .. n : j < k => ps[j].to <= ps[k].from
<1> DEFINE breaks == {i \in DOMAIN text : text[i] = "break"}
           S == {1} \cup {i + 1 : i \in breaks}
           starts == Ascending(S)  n == Cardinality(S)
           ends(s) == {i \in breaks : i > s} \cup {Whole.to}
           end(s) == Min(ends(s))
           L == Len(text)
           ps == Paragraphs
<1>1. L \in Nat /\ L > 0 /\ Whole.to = L + 1 /\ text[1] \in TokenSymbols
    BY DraftIs
<1>2. \A i \in breaks : /\ i \in Nat /\ i > 1 /\ i < L
                        /\ text[i] \notin TokenSymbols /\ text[i + 1] \in TokenSymbols
    BY DraftIs
<1>3. \A s \in S : s = 1 \/ (s - 1 \in breaks /\ s - 1 + 1 = s)
    BY <1>2
<1>4. \A i \in breaks : i + 1 \in S
    OBVIOUS
<1>5. 1 \in S
    OBVIOUS
<1>6. \A s : ends(s) = {i \in breaks : i > s} \cup {Whole.to}
    OBVIOUS
<1>7. ps = [k \in DOMAIN starts |-> Span(starts[k], end(starts[k]))]
    BY DEF Paragraphs
<1> HIDE DEF L, breaks, S, ends, ps
<1>8. \A s \in S : s \in Nat /\ s >= 1 /\ s <= L /\ text[s] \in TokenSymbols
    <2> SUFFICES ASSUME NEW s \in S
                 PROVE  s \in Nat /\ s >= 1 /\ s <= L /\ text[s] \in TokenSymbols
        OBVIOUS
    <2>1. CASE s = 1
        BY <1>1, <2>1
    <2>2. CASE s - 1 \in breaks /\ s - 1 + 1 = s
        BY <1>1, <1>2, <2>2
    <2> QED
        BY <1>3, <2>1, <2>2
<1>9. S \subseteq Nat /\ IsFiniteSet(S)
    <2>1. S \subseteq 0 .. L
        BY <1>1, <1>8
    <2>2. IsFiniteSet(0 .. L)
        BY <1>1, FS_Interval
    <2> QED
        BY <1>8, <2>1, <2>2, FS_Subset
<1>10. /\ n \in Nat /\ DOMAIN starts = 1 .. n /\ \A k \in 1 .. n : starts[k] \in S
       /\ \A i, j \in 1 .. n : i < j => starts[i] < starts[j]
       /\ \A s \in S : \E k \in 1 .. n : starts[k] = s
    BY <1>9, AscendingIs
<1>11. ASSUME NEW k \in 1 .. n, NEW s \in S
       PROVE  (s < starts[k] => k > 1) /\ (s > starts[k] => k < n /\ s >= starts[k + 1])
    BY <1>9, AscendingNext
<1>12. ASSUME NEW s \in S
       PROVE  /\ end(s) \in Nat /\ s < end(s) /\ end(s) <= Whole.to
              /\ end(s) \in breaks \/ end(s) = Whole.to
              /\ \A i \in breaks : i > s => end(s) <= i
    <2>1. ends(s) \subseteq Nat /\ Whole.to \in ends(s)
        BY <1>1, <1>2, <1>6
    <2>2. end(s) \in ends(s) /\ \A j \in ends(s) : end(s) <= j
        BY <2>1, LeastOf
    <2> HIDE DEF end
    <2>3. end(s) = Whole.to \/ (end(s) \in breaks /\ end(s) > s)
        BY <1>6, <2>2
    <2>4. s < end(s)
        BY <1>1, <1>2, <1>8, <2>3
    <2> QED
        BY <1>6, <2>1, <2>2, <2>3, <2>4
<1> HIDE DEF starts, n, end
<1>13. \A k \in 1 .. n : starts[k] \in Nat /\ starts[k] >= 1 /\ text[starts[k]] \in TokenSymbols
    BY <1>8, <1>10
<1>14. n > 0 /\ starts[1] = 1
    <2>1. PICK k \in 1 .. n : starts[k] = 1
        BY <1>5, <1>10
    <2>2. 1 \in 1 .. n
        BY <1>10
    <2>3. k # 1 => starts[1] < starts[k]
        BY <1>10, <2>2
    <2> QED
        BY <1>10, <1>13, <2>1, <2>2, <2>3
<1>15. ASSUME NEW k \in 1 .. n - 1
       PROVE  end(starts[k]) \in breaks /\ starts[k + 1] = end(starts[k]) + 1
    <2> DEFINE s == starts[k]  t == starts[k + 1]  e == end(starts[k])
    <2>1. k \in 1 .. n /\ k + 1 \in 1 .. n /\ k < k + 1
        BY <1>10
    <2>2. s \in S /\ t \in S /\ s < t
        BY <1>10, <2>1
    <2>3. s \in Nat /\ t \in Nat /\ s >= 1 /\ text[s] \in TokenSymbols
        BY <1>8, <2>2
    <2>4. /\ e \in Nat /\ s < e /\ e <= Whole.to
          /\ e \in breaks \/ e = Whole.to
          /\ \A i \in breaks : i > s => e <= i
        BY <1>12, <2>2
    <2>5. \A x \in S : x > s => x >= t
        BY <1>11, <2>1
    <2> HIDE DEF s, t, e
    <2>6. t - 1 \in breaks /\ t - 1 > s
        <3>1. t # 1
            BY <2>2, <2>3
        <3>2. t - 1 \in breaks /\ t - 1 >= s
            BY <1>3, <2>2, <2>3, <3>1
        <3>3. t - 1 # s
            BY <1>2, <2>3, <3>2
        <3> QED
            BY <2>3, <3>2, <3>3
    <2>7. e <= t - 1 /\ t - 1 < L
        BY <1>2, <2>4, <2>6
    <2>8. e \in breaks
        BY <1>1, <2>3, <2>4, <2>7
    <2>9. e + 1 >= t
        <3>1. e + 1 \in S /\ e + 1 > s
            BY <1>4, <2>3, <2>4, <2>8
        <3> QED
            BY <2>5, <3>1
    <2>10. t = e + 1
        BY <2>3, <2>4, <2>7, <2>9
    <2> QED
        BY <2>8, <2>10 DEF s, t, e
<1>16. end(starts[n]) = Whole.to
    <2> DEFINE s == starts[n]  e == end(starts[n])
    <2>1. n \in 1 .. n
        BY <1>10, <1>14
    <2>2. s \in S /\ s \in Nat
        BY <1>10, <1>13, <2>1
    <2>3. e \in Nat /\ s < e /\ (e \in breaks \/ e = Whole.to)
        BY <1>12, <2>2
    <2>4. \A x \in S : ~(x > s)
        BY <1>10, <1>11, <2>1
    <2> HIDE DEF s, e
    <2>5. e \notin breaks
        <3> SUFFICES ASSUME e \in breaks PROVE FALSE
            OBVIOUS
        <3>1. e + 1 \in S /\ e + 1 > s
            BY <1>4, <2>2, <2>3
        <3> QED
            BY <2>4, <3>1
    <2>6. e = Whole.to
        BY <2>3, <2>5
    <2> QED
        BY <2>6 DEF e, s
<1>17. \A k \in 1 .. n : starts[k] \in S
    BY <1>10
<1>18. ASSUME NEW k \in 1 .. n
       PROVE  /\ ps[k] = Span(starts[k], end(starts[k])) /\ ps[k] \in Spans
              /\ ps[k].from = starts[k] /\ ps[k].to = end(starts[k])
              /\ Length(ps[k]) = Tokens(starts[k], end(starts[k]))
    <2>1. ps[k] = Span(starts[k], end(starts[k]))
        BY <1>7, <1>10
    <2>2. starts[k] \in Nat /\ end(starts[k]) \in Nat
        BY <1>12, <1>13, <1>17
    <2> QED
        BY <2>1, <2>2, SpanIs
<1>19. /\ ps \in Seq(Spans) /\ Len(ps) = n /\ DOMAIN ps = 1 .. n
    <2>1. ps \in [1 .. n -> Spans]
        BY <1>7, <1>10, <1>18
    <2> QED
        BY <1>10, <2>1
<1>20. ASSUME NEW k \in 1 .. n
       PROVE  /\ ps[k].from >= 1 /\ ps[k].from < ps[k].to /\ ps[k].to <= Whole.to
              /\ Length(ps[k]) > 0
    <2>1. starts[k] \in S
        BY <1>17
    <2>2. end(starts[k]) \in Nat /\ starts[k] < end(starts[k]) /\ end(starts[k]) <= Whole.to
        BY <1>12, <2>1
    <2>3. starts[k] \in Nat /\ starts[k] >= 1 /\ text[starts[k]] \in TokenSymbols
        BY <1>13
    <2>4. starts[k] \in TokensIn(starts[k], end(starts[k]))
        <3>1. starts[k] <= starts[k]
            BY <2>3
        <3> QED
            BY <2>2, <2>3, <3>1, TokensAre
    <2>5. Tokens(starts[k], end(starts[k])) \in Nat /\ Tokens(starts[k], end(starts[k])) # 0
        BY <2>2, <2>3, <2>4, TokensAre
    <2>6. Tokens(starts[k], end(starts[k])) > 0
        BY <2>5
    <2> QED
        BY <1>18, <2>2, <2>3, <2>6
<1>21. ASSUME NEW k \in 1 .. n - 1 PROVE TokensIn(ps[k].to, ps[k + 1].from) = {}
    <2> DEFINE e == end(starts[k])
    <2>1. k \in 1 .. n /\ k + 1 \in 1 .. n
        BY <1>10
    <2>2. e \in breaks /\ starts[k + 1] = e + 1
        BY <1>15
    <2>3. ps[k].to = e /\ ps[k + 1].from = e + 1
        BY <1>18, <2>1, <2>2
    <2>4. e \in Nat /\ e + 1 \in Nat /\ text[e] \notin TokenSymbols
        BY <1>2, <2>2
    <2> HIDE DEF e
    <2>5. TokensIn(e, e + 1) = {}
        <3> SUFFICES ASSUME NEW i \in TokensIn(e, e + 1) PROVE FALSE
            OBVIOUS
        <3>1. i \in Nat /\ e <= i /\ i < e + 1 /\ text[i] \in TokenSymbols
            BY <2>4, TokensAre
        <3>2. i = e
            BY <2>4, <3>1
        <3> QED
            BY <2>4, <3>1, <3>2
    <2> QED
        BY <2>3, <2>5
<1>22. ASSUME NEW j \in 1 .. n, NEW k \in 1 .. n, j < k PROVE ps[j].to <= ps[k].from
    <2>1. j \in 1 .. n - 1 /\ j + 1 \in 1 .. n /\ (j + 1 = k \/ j + 1 < k)
        BY <1>10, <1>22
    <2>2. starts[j + 1] = end(starts[j]) + 1 /\ end(starts[j]) \in Nat
        BY <1>2, <1>15, <2>1
    <2>3. j + 1 < k => starts[j + 1] < starts[k]
        BY <1>10, <2>1
    <2>4. starts[j + 1] \in Nat /\ starts[k] \in Nat
        BY <1>13, <2>1
    <2>5. ps[j].to = end(starts[j]) /\ ps[k].from = starts[k]
        BY <1>18
    <2>6. end(starts[j]) <= starts[k]
        BY <2>1, <2>2, <2>3, <2>4
    <2> QED
        BY <2>5, <2>6
<1>23. ps[1].from = 1 /\ ps[n].to = Whole.to
    <2>1. 1 \in 1 .. n /\ n \in 1 .. n
        BY <1>10, <1>14
    <2> QED
        BY <1>14, <1>16, <1>18, <2>1
<1> QED
    BY <1>10, <1>14, <1>19, <1>20, <1>21, <1>22, <1>23 DEF ps

\* A paragraph that fits is within [a, b), or outside.
Intact(p, a, b) == b <= p.from \/ p.to <= a \/ (a <= p.from /\ p.to <= b)

Fits(p) == p \in ToSet(Paragraphs) /\ Length(p) <= MaxTokens

\* What comes twice is a piece itself.
LEMMA TwoOfOne ==
    ASSUME NEW p \in Spans, NEW us, Chain(us, p.from, p.to, Twice(p))
    PROVE  Chain(us, p.from, p.to, {u \in ToSet(us) : u.to = p.to /\ p.to \in SentenceEnds(p)})
<1> DEFINE twice == {u \in ToSet(us) : u.to = p.to /\ p.to \in SentenceEnds(p)}
<1>1. us \in Seq(Spans) /\ Len(us) \in Nat /\ DOMAIN us = 1 .. Len(us)
    BY LenProperties DEF Chain
<1>2. p.to \in Nat
    BY DEF Spans
<1>3. ASSUME NEW i \in 1 .. Len(us) - 1 PROVE Follows(us[i], us[i + 1], twice)
    <2> DEFINE u == us[i]  v == us[i + 1]
    <2>1. i + 1 \in 1 .. Len(us) /\ i \in 1 .. Len(us)
        BY <1>1
    <2>2. Follows(u, v, Twice(p)) /\ IsUnit(u, p.from, p.to) /\ IsUnit(v, p.from, p.to)
        BY <2>1 DEF Chain
    <2>3. u.from \in Nat /\ u.to \in Nat /\ v.from \in Nat /\ v.to \in Nat /\ v.to <= p.to
          /\ v = Span(v.from, v.to)
        BY <2>2 DEF IsUnit, Spans, Span
    <2>4. v \in ToSet(us)
        BY <1>1, <2>1 DEF ToSet
    <2> HIDE DEF u, v
    <2>5. u.to <= v.from \/ Span(v.from, u.to) \in twice
        <3> SUFFICES ASSUME ~(u.to <= v.from) PROVE Span(v.from, u.to) \in twice
            OBVIOUS
        <3>1. Span(v.from, u.to) \in Twice(p)
            BY <2>2 DEF Follows
        <3>2. u.to = p.to /\ p.to \in SentenceEnds(p)
            BY <2>3, <3>1, SpanIs DEF Twice
        <3>3. u.to <= v.to
            BY <2>2 DEF Follows
        <3>4. v.to = p.to
            BY <1>2, <2>3, <3>2, <3>3
        <3> QED
            BY <2>3, <2>4, <3>2, <3>4
    <2> HIDE DEF twice
    <2>6. Follows(u, v, twice)
        BY <2>2, <2>5 DEF Follows
    <2> QED
        BY <2>6 DEF u, v
<1> HIDE DEF twice
<1>4. Chain(us, p.from, p.to, twice)
    BY <1>3 DEF Chain
<1> QED
    BY <1>4 DEF twice

\* A paragraph, or its pieces.
LEMMA ExpandIs ==
    ASSUME text \in Drafts, NEW p \in ToSet(Paragraphs)
    PROVE  /\ Chain(Expand(p), p.from, p.to, PiecesTwice)
           /\ Length(p) <= MaxTokens => Expand(p) = <<p>>
<1>1. p \in Spans /\ p.from \in Nat /\ p.to \in Nat /\ p.from < p.to /\ Length(p) > 0
    <2>1. PICK k \in DOMAIN Paragraphs : p = Paragraphs[k]
        BY DEF ToSet
    <2>2. /\ Paragraphs \in Seq(Spans) /\ k \in 1 .. Len(Paragraphs)
          /\ Paragraphs[k].from < Paragraphs[k].to /\ Length(Paragraphs[k]) > 0
        BY ParagraphsAre, <2>1
    <2>3. Paragraphs[k] \in Spans
        BY <2>2, ElementOfSeq
    <2> QED
        BY <2>1, <2>2, <2>3 DEF Spans
<1>2. p = Span(p.from, p.to) /\ Length(p) = Tokens(p.from, p.to)
    BY <1>1 DEF Spans, Span, Length
<1>3. Tokens(p.from, p.to) \in Nat /\ MaxTokens \in Nat
    BY <1>1, TokensAre, Limits
<1>4. CASE Length(p) <= MaxTokens
    <2>1. Expand(p) = <<p>>
        BY <1>4 DEF Expand
    <2>2. Tokens(p.from, p.to) \in 1 .. MaxTokens /\ p.from <= p.to
        BY <1>1, <1>2, <1>3, <1>4
    <2>3. Chain(<<Span(p.from, p.to)>>, p.from, p.to, PiecesTwice)
        BY <1>1, <2>2, ChainOne
    <2> QED
        BY <1>2, <2>1, <2>3
<1>5. CASE ~(Length(p) <= MaxTokens)
    <2> DEFINE us == SplitOversized(p)
               twice == {u \in ToSet(us) : u.to = p.to /\ p.to \in SentenceEnds(p)}
    <2>1. Expand(p) = us /\ Length(p) > MaxTokens
        BY <1>2, <1>3, <1>5 DEF Expand
    <2>2. Chain(us, p.from, p.to, Twice(p))
        BY <1>1, <1>2, PiecesAre
    <2>3. Chain(us, p.from, p.to, twice)
        BY <1>1, <2>2, TwoOfOne
    <2>4. twice \subseteq PiecesTwice
        <3> SUFFICES ASSUME NEW u \in twice PROVE u \in PiecesTwice
            OBVIOUS
        <3>1. p \in {q \in ToSet(Paragraphs) : Length(q) > MaxTokens /\ q.to \in SentenceEnds(q)}
            BY <2>1
        <3>2. u \in {piece \in ToSet(SplitOversized(p)) : piece.to = p.to}
            OBVIOUS
        <3> QED
            BY <3>1, <3>2, Zenon DEF PiecesTwice
    <2> HIDE DEF us, twice
    <2>5. Chain(us, p.from, p.to, PiecesTwice)
        BY <2>3, <2>4, ChainGrows
    <2> QED
        BY <1>5, <2>1, <2>5
<1> QED
    BY <1>4, <1>5

\* The paragraphs so far.
AreExpanded(us, k) ==
    /\ Chain(us, 1, IF k = 0 THEN 1 ELSE Paragraphs[k].to, PiecesTwice)
    /\ \A p, i : Fits(p) /\ i \in 1 .. Len(us) => Intact(p, us[i].from, us[i].to)

\* One more paragraph, as it is or in pieces, continues the chain.
LEMMA ExpandNext ==
    ASSUME text \in Drafts, NEW k \in 1 .. Len(Paragraphs), NEW us, AreExpanded(us, k - 1)
    PROVE  AreExpanded(us \o Expand(Paragraphs[k]), k)
<1> DEFINE ps == Paragraphs  n == Len(ps)  q == ps[k]  vs == Expand(q)  ws == us \o vs
           b == IF k - 1 = 0 THEN 1 ELSE ps[k - 1].to
<1>1. /\ ps \in Seq(Spans) /\ n \in Nat /\ n > 0 /\ DOMAIN ps = 1 .. n
      /\ ps[1].from = 1
      /\ \A i \in 1 .. n : ps[i].from >= 1 /\ ps[i].from < ps[i].to
      /\ \A i \in 1 .. n - 1 : TokensIn(ps[i].to, ps[i + 1].from) = {}
      /\ \A i, j \in 1 .. n : i < j => ps[i].to <= ps[j].from
    BY ParagraphsAre
<1>2. \A i \in 1 .. n : ps[i] \in Spans /\ ps[i].from \in Nat /\ ps[i].to \in Nat
    <2>1. \A i \in 1 .. n : ps[i] \in Spans
        BY <1>1, ElementOfSeq
    <2> QED
        BY <2>1 DEF Spans
<1>3. k \in Nat /\ k \in 1 .. n /\ (k - 1 # 0 => k - 1 \in 1 .. n - 1 /\ k - 1 \in 1 .. n)
    BY <1>1
<1>4. q \in ToSet(ps)
    BY <1>1 DEF ToSet
<1>5. Chain(vs, q.from, q.to, PiecesTwice) /\ (Length(q) <= MaxTokens => vs = <<q>>)
    BY <1>4, ExpandIs
<1>6. Chain(us, 1, b, PiecesTwice)
    BY DEF AreExpanded
<1>7. \A p, i : Fits(p) /\ i \in 1 .. Len(us) => Intact(p, us[i].from, us[i].to)
    BY DEF AreExpanded
<1>8. b \in Nat /\ 1 <= b /\ b <= q.from /\ q.from <= q.to /\ TokensIn(b, q.from) = {}
    <2>1. CASE k - 1 = 0
        <3>1. b = 1 /\ q.from = 1 /\ q.from < q.to /\ q.to \in Nat
            BY <1>1, <1>2, <1>3, <2>1
        <3>2. 1 <= 1 /\ TokensIn(1, 1) = {}
            BY TokensAre
        <3> HIDE DEF b, q
        <3> QED
            BY <3>1, <3>2
    <2>2. CASE k - 1 # 0
        <3>1. /\ b = ps[k - 1].to /\ k - 1 + 1 = k /\ k - 1 < k
              /\ k - 1 \in 1 .. n - 1 /\ k - 1 \in 1 .. n
            BY <1>3, <2>2
        <3>2. b <= q.from /\ TokensIn(ps[k - 1].to, ps[k - 1 + 1].from) = {}
            BY <1>1, <1>3, <3>1
        <3>3. TokensIn(b, q.from) = {}
            BY <3>1, <3>2
        <3>4. b \in Nat /\ q.from \in Nat /\ q.to \in Nat /\ q.from < q.to
              /\ ps[k - 1].from >= 1 /\ ps[k - 1].from \in Nat /\ ps[k - 1].from < b
            BY <1>1, <1>2, <1>3, <3>1
        <3>5. 1 <= b /\ q.from <= q.to
            BY <3>4
        <3> QED
            BY <3>2, <3>3, <3>4, <3>5
    <2> QED
        BY <2>1, <2>2
<1>9. Chain(ws, 1, q.to, PiecesTwice)
    <2>1. q.from \in Nat /\ q.to \in Nat
        BY <1>2, <1>3
    <2>2. 1 \in Nat
        OBVIOUS
    <2> HIDE DEF b, q, vs
    <2> QED
        BY <1>5, <1>6, <1>8, <2>1, <2>2, ChainsJoin
<1>10. ASSUME NEW p, Fits(p), NEW i \in 1 .. Len(vs) PROVE Intact(p, vs[i].from, vs[i].to)
    <2>1. PICK j \in 1 .. n : p = ps[j]
        BY <1>1, <1>10 DEF Fits, ToSet
    <2>2. p.from \in Nat /\ p.to \in Nat /\ q.from \in Nat /\ q.to \in Nat
        BY <1>2, <1>3, <2>1
    <2>3. IsUnit(vs[i], q.from, q.to)
        BY <1>5 DEF Chain
    <2>4. /\ vs[i].from \in Nat /\ vs[i].to \in Nat
          /\ q.from <= vs[i].from /\ vs[i].to <= q.to
        BY <2>3 DEF IsUnit, Spans
    <2>5. j = k \/ j < k \/ k < j
        BY <1>3
    <2>6. CASE j = k
        <3>1. p = q /\ Length(q) <= MaxTokens
            BY <1>10, <2>1, <2>6 DEF Fits
        <3>2. vs = <<q>>
            BY <1>5, <3>1
        <3>3. vs[i] = q
            <4> HIDE DEF vs, q
            <4>1. Len(vs) = 1
                BY <3>2
            <4>2. i = 1
                BY <4>1
            <4> QED
                BY <3>2, <4>2
        <3> HIDE DEF vs, q
        <3> QED
            BY <2>2, <3>1, <3>3 DEF Intact
    <2>7. CASE j < k
        <3>1. p.to <= q.from
            BY <1>1, <1>3, <2>1, <2>7
        <3> HIDE DEF vs, q
        <3> QED
            BY <2>2, <2>4, <3>1 DEF Intact
    <2>8. CASE k < j
        <3>1. q.to <= p.from
            BY <1>1, <1>3, <2>1, <2>8
        <3> HIDE DEF vs, q
        <3> QED
            BY <2>2, <2>4, <3>1 DEF Intact
    <2> QED
        BY <2>5, <2>6, <2>7, <2>8
<1>11. us \in Seq(Spans) /\ vs \in Seq(Spans) /\ Len(us) \in Nat /\ Len(vs) \in Nat
    BY <1>5, <1>6, LenProperties DEF Chain
<1> HIDE DEF vs
<1>12. ASSUME NEW p, NEW i, Fits(p), i \in 1 .. Len(ws) PROVE Intact(p, ws[i].from, ws[i].to)
    <2>1. /\ Len(ws) = Len(us) + Len(vs)
          /\ \A j \in 1 .. Len(us) + Len(vs) :
                 ws[j] = IF j <= Len(us) THEN us[j] ELSE vs[j - Len(us)]
        BY <1>11, ConcatProperties
    <2>2. i \in 1 .. Len(us) + Len(vs)
        BY <1>12, <2>1
    <2>3. CASE i <= Len(us)
        <3>1. i \in 1 .. Len(us) /\ ws[i] = us[i]
            BY <1>11, <2>1, <2>2, <2>3
        <3> QED
            BY <1>7, <1>12, <3>1
    <2>4. CASE ~(i <= Len(us))
        <3>1. i - Len(us) \in 1 .. Len(vs) /\ ws[i] = vs[i - Len(us)]
            BY <1>11, <2>1, <2>2, <2>4
        <3> QED
            BY <1>10, <1>12, <3>1
    <2> QED
        BY <2>3, <2>4
<1>13. k # 0
    BY <1>3
<1> HIDE DEF ws
<1>14. AreExpanded(ws, k)
    BY <1>9, <1>12, <1>13 DEF AreExpanded
<1> QED
    BY <1>14 DEF ws, vs

-----------------------------------------------------------------------------
(* The units of a draft.                                                   *)

\* The units of a chain begin and end one after the other.
LEMMA ChainRises ==
    ASSUME NEW a, NEW b, NEW twice, NEW us, Chain(us, a, b, twice),
           NEW i \in 1 .. Len(us), NEW j \in 1 .. Len(us), i <= j
    PROVE  us[i].from <= us[j].from /\ us[i].to <= us[j].to
<1> DEFINE n == Len(us)
           T == {d \in 0 .. n : i + d <= n => us[i].from <= us[i + d].from
                                              /\ us[i].to <= us[i + d].to}
<1>1. n \in Nat /\ i \in Nat /\ j \in Nat
    BY LenProperties DEF Chain
<1>2. \A k \in 1 .. n : us[k].from \in Nat /\ us[k].to \in Nat
    BY DEF Chain, IsUnit, Spans
<1>3. \A k \in 1 .. n - 1 : us[k].from <= us[k + 1].from /\ us[k].to <= us[k + 1].to
    BY DEF Chain, Follows
<1> HIDE DEF n
<1>4. i \in 1 .. n /\ j \in 1 .. n
    BY DEF n
<1>5. 0 \in T
    <2>1. i + 0 = i /\ us[i].from <= us[i].from /\ us[i].to <= us[i].to /\ 0 \in 0 .. n
        BY <1>1, <1>2, <1>4
    <2> QED
        BY <2>1
<1>6. ASSUME NEW d \in 1 .. n, d - 1 \in T PROVE d \in T
    <2> SUFFICES ASSUME i + d <= n
                 PROVE  us[i].from <= us[i + d].from /\ us[i].to <= us[i + d].to
        BY <1>1
    <2> DEFINE k == i + (d - 1)
    <2>1. k \in 1 .. n - 1 /\ k \in 1 .. n /\ k + 1 \in 1 .. n /\ k + 1 = i + d /\ k <= n
        BY <1>1, <1>4
    <2>2. us[i].from <= us[k].from /\ us[i].to <= us[k].to
        BY <1>6, <2>1
    <2> HIDE DEF k
    <2>3. us[k].from <= us[k + 1].from /\ us[k].to <= us[k + 1].to
        BY <1>3, <2>1
    <2>4. us[i].from <= us[k + 1].from /\ us[i].to <= us[k + 1].to
        BY <1>2, <1>4, <2>1, <2>2, <2>3
    <2> QED
        BY <2>1, <2>4
<1> HIDE DEF T
<1>7. j - i \in T
    <2>1. \A d \in 0 .. n : d \in T
        BY <1>1, <1>5, <1>6, UpTo
    <2>2. j - i \in 0 .. n
        BY <1>1, <1>4
    <2> QED
        BY <2>1, <2>2
<1>8. i + (j - i) = j /\ j <= n
    BY <1>1, <1>4
<1> QED
    BY <1>7, <1>8 DEF T

\* What is intact in two spans is so in the one from the first to the second.
LEMMA IntactJoined ==
    ASSUME NEW p, p.from \in Nat, p.to \in Nat,
           NEW a \in Nat, NEW b \in Nat, NEW c \in Nat, NEW d \in Nat,
           a <= b, a <= c, b <= d, c <= d, Intact(p, a, b), Intact(p, c, d)
    PROVE  Intact(p, a, d)
BY DEF Intact

GroupBody(expanded, f, i) == IF i = 0 THEN FALSE ELSE ~(f[i - 1] /\ Joins(expanded, i - 1))

\* The recursion of Group has a solution, which obeys its equation.
LEMMA GroupSolves ==
    ASSUME NEW us, NEW n \in Nat
    PROVE  /\ \E f : f = [i \in 0 .. n |-> GroupBody(us, f, i)]
           /\ \A f : f = [i \in 0 .. n |-> GroupBody(us, f, i)] =>
                  /\ f[0] = FALSE
                  /\ \A i \in 1 .. n : f[i] = ~(f[i - 1] /\ Joins(us, i - 1))
<1> DEFINE step == [x \in (1 .. n) \X BOOLEAN |-> ~(x[2] /\ Joins(us, x[1] - 1))]
<1>1. step \in StepsOf(n, BOOLEAN)
    BY DEF StepsOf
<1>2. \A i \in 1 .. n, v \in BOOLEAN : step[<<i, v>>] = ~(v /\ Joins(us, i - 1))
    OBVIOUS
<1> HIDE DEF step
<1>3. FALSE \in BOOLEAN
    OBVIOUS
<1>4. PICK f : Recurs(f, n, BOOLEAN, FALSE, step)
    BY <1>1, <1>3, RecursionSolves
<1>5. ASSUME NEW i \in 0 .. n PROVE f[i] = GroupBody(us, f, i)
    <2>1. CASE i = 0
        BY <1>4, <2>1 DEF Recurs, GroupBody
    <2>2. CASE i # 0
        <3>1. i \in 1 .. n /\ i - 1 \in 0 .. n
            BY <2>2
        <3>2. f[i - 1] \in BOOLEAN /\ f[i] = step[<<i, f[i - 1]>>]
            BY <1>4, <3>1 DEF Recurs
        <3>3. f[i] = ~(f[i - 1] /\ Joins(us, i - 1))
            BY <1>2, <3>1, <3>2
        <3> QED
            BY <2>2, <3>3 DEF GroupBody
    <2> QED
        BY <2>1, <2>2
<1>6. f = [i \in 0 .. n |-> GroupBody(us, f, i)]
    <2>1. f = [i \in 0 .. n |-> f[i]]
        BY <1>4 DEF Recurs
    <2> QED
        BY <1>5, <2>1
<1>7. ASSUME NEW g, g = [i \in 0 .. n |-> GroupBody(us, g, i)]
      PROVE  /\ g[0] = FALSE
             /\ \A i \in 1 .. n : g[i] = ~(g[i - 1] /\ Joins(us, i - 1))
    <2>1. 0 \in 0 .. n /\ \A i \in 1 .. n : i \in 0 .. n /\ i # 0
        OBVIOUS
    <2>2. \A i \in 0 .. n : g[i] = GroupBody(us, g, i)
        BY <1>7, Zenon
    <2> QED
        BY <2>1, <2>2 DEF GroupBody
<1> QED
    BY <1>6, <1>7

Begins(f, us, n) ==
    /\ f[0] = FALSE
    /\ \A i \in 1 .. n : f[i] = ~(f[i - 1] /\ Joins(us, i - 1))

LastOf(us, i) == IF Joins(us, i) THEN i + 1 ELSE i

Heads(h, m, us, n) ==
    /\ m \in Nat /\ m > 0 /\ h \in [1 .. m -> 1 .. n] /\ DOMAIN h = 1 .. m
    /\ h[1] = 1 /\ LastOf(us, h[m]) = n
    /\ \A j \in 1 .. m - 1 : h[j + 1] = LastOf(us, h[j]) + 1

\* The units that begin: each heading takes what it is joined with.
LEMMA HeadsAre ==
    ASSUME NEW us, NEW n \in Nat, n > 0, NEW f, Begins(f, us, n), ~Joins(us, n),
           NEW H, H \subseteq 1 .. n, \A i \in 1 .. n : i \in H <=> f[i]
    PROVE  Heads(Ascending(H), Cardinality(H), us, n)
<1> DEFINE h == Ascending(H)  m == Cardinality(H)
           last(i) == LastOf(us, i)
<1> USE DEF Begins, LastOf
<1>1. H \subseteq Nat /\ IsFiniteSet(H) /\ H \subseteq 1 .. n
    <2>1. IsFiniteSet(1 .. n) /\ H \subseteq 1 .. n /\ 1 .. n \subseteq Nat
        BY FS_Interval
    <2>2. IsFiniteSet(H)
        BY <2>1, FS_Subset
    <2> QED
        BY <2>1, <2>2
<1>2. /\ m \in Nat /\ h \in [1 .. m -> H] /\ DOMAIN h = 1 .. m
      /\ \A i, j \in 1 .. m : i < j => h[i] < h[j]
      /\ \A x \in H : \E i \in 1 .. m : h[i] = x
    BY <1>1, AscendingIs
<1>3. ASSUME NEW j \in 1 .. m, NEW x \in H
      PROVE  x > h[j] => j < m /\ x >= h[j + 1]
    BY <1>1, AscendingNext
<1>4. \A i \in 1 .. n : i \in H <=> f[i]
    OBVIOUS
<1>5. \A i : last(i) = IF Joins(us, i) THEN i + 1 ELSE i
    OBVIOUS
<1> HIDE DEF h, m, last
<1>6. 1 \in H
    <2>1. 1 \in 1 .. n /\ 1 - 1 = 0
        OBVIOUS
    <2>2. f[1] = ~(f[0] /\ Joins(us, 0))
        BY <2>1
    <2> QED
        BY <1>4, <2>1, <2>2
<1>7. m > 0 /\ h[1] = 1
    <2>1. PICK k \in 1 .. m : h[k] = 1
        BY <1>2, <1>6
    <2>2. 1 \in 1 .. m /\ m > 0 /\ m \in 1 .. m
        BY <1>2
    <2>3. h[1] \in 1 .. n
        BY <1>1, <1>2, <2>2
    <2>4. k # 1 => h[1] < h[k]
        BY <1>2, <2>2
    <2> QED
        BY <2>1, <2>2, <2>3, <2>4
<1>8. ASSUME NEW i \in H
      PROVE  /\ i \in 1 .. n
             /\ ~Joins(us, i) /\ i < n => i + 1 \in H
             /\ Joins(us, i) => /\ i + 1 <= n /\ i + 1 \notin H
                                /\ i + 1 < n => i + 2 \in H
    <2>1. i \in 1 .. n /\ f[i]
        BY <1>1, <1>4
    <2>2. i < n => i + 1 \in 1 .. n /\ f[i + 1] = ~(f[i] /\ Joins(us, i))
        <3> DEFINE k == i + 1
        <3>1. i < n => k \in 1 .. n /\ k - 1 = i
            BY <2>1
        <3> HIDE DEF k
        <3>2. k \in 1 .. n => f[k] = ~(f[k - 1] /\ Joins(us, k - 1))
            BY Zenon
        <3>3. i < n => k \in 1 .. n /\ f[k] = ~(f[i] /\ Joins(us, i))
            BY <3>1, <3>2, Zenon
        <3> QED
            BY <3>3, Zenon DEF k
    <2>3. Joins(us, i) => i < n
        BY <2>1
    <2>4. i + 1 < n => i + 2 \in 1 .. n /\ f[i + 2] = ~(f[i + 1] /\ Joins(us, i + 1))
        <3> DEFINE k == i + 2
        <3>1. i + 1 < n => k \in 1 .. n /\ k - 1 = i + 1
            BY <2>1
        <3> HIDE DEF k
        <3>2. k \in 1 .. n => f[k] = ~(f[k - 1] /\ Joins(us, k - 1))
            BY Zenon
        <3>3. i + 1 < n => k \in 1 .. n /\ f[k] = ~(f[i + 1] /\ Joins(us, i + 1))
            BY <3>1, <3>2, Zenon
        <3> QED
            BY <3>3, Zenon DEF k
    <2>5. i < n => i + 1 <= n
        BY <2>1
    <2>6. ~Joins(us, i) /\ i < n => i + 1 \in H
        BY <1>4, <2>1, <2>2
    <2>7. Joins(us, i) => ~f[i + 1]
        BY <2>1, <2>2, <2>3
    <2>8. Joins(us, i) => i + 1 \notin H
        BY <1>4, <2>2, <2>3, <2>7
    <2>9. Joins(us, i) /\ i + 1 < n => i + 2 \in H
        BY <1>4, <2>4, <2>7
    <2> QED
        BY <2>1, <2>3, <2>5, <2>6, <2>8, <2>9
<1>9. ASSUME NEW j \in 1 .. m - 1 PROVE h[j + 1] = last(h[j]) + 1
    <2> DEFINE i == h[j]  k == h[j + 1]
    <2>1. j \in 1 .. m /\ j + 1 \in 1 .. m /\ j < j + 1
        BY <1>2
    <2>2. i \in H /\ k \in H /\ i < k
        BY <1>2, <2>1
    <2>3. i \in 1 .. n /\ k \in 1 .. n
        BY <1>1, <2>2
    <2>4. \A x \in H : x > i => x >= k
        BY <1>3, <2>1
    <2> HIDE DEF i, k
    <2>5. CASE Joins(us, i)
        <3>1. i + 1 <= n /\ i + 1 \notin H /\ (i + 1 < n => i + 2 \in H)
            BY <1>8, <2>2, <2>5
        <3>2. k # i + 1
            BY <2>2, <3>1
        <3>3. i + 2 \in H
            BY <2>2, <2>3, <3>1, <3>2
        <3>4. i + 2 >= k
            BY <2>3, <2>4, <3>3
        <3>5. k = i + 2 /\ last(i) = i + 1
            BY <1>5, <2>2, <2>3, <2>5, <3>2, <3>4
        <3> QED
            BY <2>3, <3>5 DEF i, k
    <2>6. CASE ~Joins(us, i)
        <3>1. i + 1 \in H
            BY <1>8, <2>2, <2>3, <2>6
        <3>2. i + 1 >= k
            BY <2>3, <2>4, <3>1
        <3>3. k = i + 1 /\ last(i) = i
            BY <1>5, <2>2, <2>3, <2>6, <3>2
        <3> QED
            BY <3>3 DEF i, k
    <2> QED
        BY <2>5, <2>6
<1>10. last(h[m]) = n
    <2> DEFINE i == h[m]
    <2>1. m \in 1 .. m
        BY <1>2, <1>7
    <2>2. i \in H
        BY <1>2, <2>1
    <2>3. \A x \in H : ~(x > i)
        <3> SUFFICES ASSUME NEW x \in H, x > i PROVE FALSE
            OBVIOUS
        <3>1. m < m
            BY <1>3, <2>1
        <3> QED
            BY <1>2, <3>1
    <2> HIDE DEF i
    <2>4. i \in 1 .. n
        BY <1>1, <2>2
    <2>5. CASE Joins(us, i)
        <3>1. i + 1 <= n /\ (i + 1 < n => i + 2 \in H)
            BY <1>8, <2>2, <2>5
        <3>2. i + 1 = n
            BY <2>3, <2>4, <3>1
        <3> QED
            BY <1>5, <2>5, <3>2 DEF i
    <2>6. CASE ~Joins(us, i)
        <3>1. i < n => i + 1 \in H
            BY <1>8, <2>2, <2>6
        <3>2. i = n
            BY <2>3, <2>4, <3>1
        <3> QED
            BY <1>5, <2>6, <3>2 DEF i
    <2> QED
        BY <2>5, <2>6
<1>11. h \in [1 .. m -> 1 .. n]
    BY <1>1, <1>2
<1> HIDE DEF LastOf
<1>12. Heads(h, m, us, n)
    BY <1>2, <1>7, <1>9, <1>10, <1>11 DEF Heads, last
<1> QED
    BY <1>12 DEF h, m

\* Joining headings keeps a chain, and divides nothing.
LEMMA GroupIs ==
    ASSUME NEW a, NEW b, NEW twice, NEW us, Chain(us, a, b, twice)
    PROVE  /\ Chain(Group(us), a, b, twice)
           /\ \A p : /\ p.from \in Nat /\ p.to \in Nat
                     /\ \A i \in 1 .. Len(us) : Intact(p, us[i].from, us[i].to)
                     => \A j \in 1 .. Len(Group(us)) : Intact(p, Group(us)[j].from, Group(us)[j].to)
<1> DEFINE n == Len(us)
           f == CHOOSE g : g = [i \in 0 .. n |-> GroupBody(us, g, i)]
           H == {i \in DOMAIN us : f[i]}
           h == Ascending(H)  m == Cardinality(H)
           unit(i) == IF Joins(us, i) THEN Span(us[i].from, us[i + 1].to) ELSE us[i]
           last(i) == IF Joins(us, i) THEN i + 1 ELSE i
           vs == Group(us)
<1>1. us \in Seq(Spans) /\ n \in Nat /\ DOMAIN us = 1 .. n
    BY LenProperties DEF Chain
<1>2. /\ \A i \in 1 .. n : IsUnit(us[i], a, b)
      /\ \A i \in 1 .. n - 1 : Follows(us[i], us[i + 1], twice)
      /\ us = <<>> => TokensIn(a, b) = {}
      /\ us # <<>> => TokensIn(a, us[1].from) = {} /\ TokensIn(us[n].to, b) = {}
    BY DEF Chain
<1>3. vs = [k \in DOMAIN h |-> unit(h[k])]
    BY DEF Group, GroupBody
<1>4. \E g : g = [i \in 0 .. n |-> GroupBody(us, g, i)]
    BY <1>1, GroupSolves
<1>5. f = [i \in 0 .. n |-> GroupBody(us, f, i)]
    BY <1>4
<1> HIDE DEF f
<1>6. f[0] = FALSE /\ \A i \in 1 .. n : f[i] = ~(f[i - 1] /\ Joins(us, i - 1))
    BY <1>1, <1>5, GroupSolves
<1>7. H = {i \in 1 .. n : f[i]}
    BY <1>1
<1>8. ~Joins(us, n) /\ \A i \in 1 .. n : Joins(us, i) => i < n
    BY <1>1 DEF Joins
<1>9. \A i \in 1 .. n : us[i].from \in Nat /\ us[i].to \in Nat /\ us[i].from <= us[i].to
                        /\ us[i] = Span(us[i].from, us[i].to) /\ us[i] \in Spans
                        /\ Length(us[i]) = Tokens(us[i].from, us[i].to)
                        /\ Length(us[i]) \in 1 .. MaxTokens
                        /\ a <= us[i].from /\ us[i].to <= b
    BY <1>2 DEF IsUnit, Spans, Span, Length
<1>10. \A i \in 1 .. n - 1 : us[i].from <= us[i + 1].from /\ us[i].to <= us[i + 1].to
    BY <1>2 DEF Follows
<1>11. \A i \in 1 .. n - 1 : Joins(us, i) => Tokens(us[i].from, us[i + 1].to) <= MaxTokens
    BY DEF Joins
<1>12. \A i : /\ unit(i) = IF Joins(us, i) THEN Span(us[i].from, us[i + 1].to) ELSE us[i]
              /\ last(i) = IF Joins(us, i) THEN i + 1 ELSE i
    OBVIOUS
<1> HIDE DEF unit, last
<1>13. ASSUME NEW i \in 1 .. n
       PROVE  /\ last(i) \in 1 .. n /\ i <= last(i)
              /\ unit(i).from = us[i].from /\ unit(i).to = us[last(i)].to
              /\ IsUnit(unit(i), a, b)
              /\ us[i].from <= us[last(i)].from /\ us[i].to <= us[last(i)].to
    <2>1. CASE ~Joins(us, i)
        <3>1. last(i) = i /\ unit(i) = us[i]
            BY <1>12, <2>1
        <3>2. IsUnit(us[i], a, b) /\ i <= i
            BY <1>1, <1>2
        <3>3. us[i].from <= us[i].from /\ us[i].to <= us[i].to
            BY <1>9
        <3> QED
            BY <3>1, <3>2, <3>3
    <2>2. CASE Joins(us, i)
        <3> DEFINE x == us[i].from  y == us[i + 1].to  s == Span(x, y)
        <3>1. i + 1 \in 1 .. n /\ i \in 1 .. n - 1 /\ i <= i + 1
            BY <1>1, <1>8, <2>2
        <3>2. last(i) = i + 1 /\ unit(i) = s
            BY <1>12, <2>2
        <3>3. /\ x \in Nat /\ y \in Nat /\ us[i].to \in Nat /\ x <= us[i].to /\ us[i].to <= y
              /\ a <= x /\ y <= b /\ Tokens(x, us[i].to) \in 1 .. MaxTokens
              /\ Tokens(x, y) <= MaxTokens
            BY <1>9, <1>10, <1>11, <2>2, <3>1
        <3>4. /\ s \in Spans /\ s.from = x /\ s.to = y /\ Length(s) = Tokens(x, y)
            BY <3>3, SpanIs
        <3>5. us[i].from <= us[i + 1].from /\ us[i].to <= us[i + 1].to
            BY <1>10, <3>1
        <3>6. x = us[i].from /\ y = us[i + 1].to
            OBVIOUS
        <3> HIDE DEF x, y, s
        <3>7. x <= x /\ Tokens(x, us[i].to) <= Tokens(x, y)
            BY <3>3, TokensGrow
        <3>8. Tokens(x, y) \in Nat /\ MaxTokens \in Nat
            BY <3>3, TokensAre, Limits
        <3>9. Length(s) \in 1 .. MaxTokens
            BY <3>3, <3>4, <3>7, <3>8
        <3>10. x <= y
            BY <3>3
        <3>11. IsUnit(s, a, b)
            BY <3>3, <3>4, <3>9, <3>10 DEF IsUnit
        <3> QED
            BY <3>1, <3>2, <3>4, <3>5, <3>6, <3>11
    <2> QED
        BY <2>1, <2>2
<1>14. CASE n = 0
    <2>1. H = {}
        BY <1>7, <1>14
    <2>2. m = 0
        BY <2>1, FS_EmptySet
    <2>3. h \in [1 .. 0 -> H] /\ DOMAIN h = 1 .. 0
        <3>1. {} \subseteq Nat /\ IsFiniteSet({})
            BY FS_EmptySet
        <3> HIDE DEF m, h, H
        <3>2. h \in [1 .. m -> H] /\ DOMAIN h = 1 .. m
            <4>1. Ascending({}) \in [1 .. Cardinality({}) -> {}]
                BY <3>1, AscendingIs
            <4> QED
                BY <2>1, <4>1 DEF h, m, H
        <3> QED
            BY <2>2, <3>2
    <2> HIDE DEF h, H, m
    <2>4. vs = <<>> /\ Len(vs) = 0
        <3>1. DOMAIN h = {}
            BY <2>3
        <3>2. vs = <<>>
            BY <1>3, <3>1
        <3> QED
            BY <3>2, EmptySeq
    <2>5. TokensIn(a, b) = {}
        BY <1>1, <1>2, <1>14, EmptySeq
    <2>6. Chain(<<>>, a, b, twice)
        <3>1. <<>> \in Seq(Spans) /\ Len(<<>>) = 0
            BY EmptySeq
        <3> QED
            BY <2>5, <3>1 DEF Chain
    <2> HIDE DEF vs
    <2>7. Chain(vs, a, b, twice) /\ \A j \in 1 .. Len(vs) : FALSE
        BY <2>4, <2>6
    <2> QED
        BY <2>7 DEF vs
<1>15. CASE n > 0
    <2>1. /\ m \in Nat /\ m > 0 /\ h \in [1 .. m -> 1 .. n] /\ DOMAIN h = 1 .. m
          /\ h[1] = 1 /\ last(h[m]) = n
          /\ \A j \in 1 .. m - 1 : h[j + 1] = last(h[j]) + 1
        <3> HIDE DEF n, H
        <3>1. n \in Nat /\ n > 0 /\ ~Joins(us, n) /\ Begins(f, us, n)
            BY <1>1, <1>6, <1>8, <1>15 DEF Begins
        <3>2. Heads(Ascending(H), Cardinality(H), us, n)
            <4>1. H \subseteq 1 .. n /\ \A i \in 1 .. n : i \in H <=> f[i]
                BY <1>7
            <4> QED
                BY <3>1, <4>1, HeadsAre
        <3> QED
            BY <3>2 DEF Heads, LastOf, last
    <2> HIDE DEF h, H, m, n
    <2>2. \A j \in 1 .. m : h[j] \in 1 .. n /\ IsUnit(unit(h[j]), a, b) /\ unit(h[j]) \in Spans
        BY <1>13, <2>1 DEF IsUnit
    <2>3. vs = [k \in 1 .. m |-> unit(h[k])]
        BY <1>3, <2>1
    <2> HIDE DEF vs
    <2>4. vs \in Seq(Spans) /\ Len(vs) = m /\ \A j \in 1 .. m : vs[j] = unit(h[j])
        <3>1. vs \in [1 .. m -> Spans]
            BY <2>2, <2>3
        <3> QED
            BY <2>1, <2>3, <3>1
    <2>5. \A j \in 1 .. m : IsUnit(vs[j], a, b)
        BY <2>2, <2>4
    <2>6. ASSUME NEW j \in 1 .. m - 1 PROVE Follows(vs[j], vs[j + 1], twice)
        <3> DEFINE i == h[j]  k == last(i)  l == last(k + 1)  u == us[k]  v == us[k + 1]
        <3>1. j \in 1 .. m /\ j + 1 \in 1 .. m
            BY <2>1
        <3>2. i \in 1 .. n /\ h[j + 1] = k + 1 /\ h[j + 1] \in 1 .. n
            BY <2>1, <3>1
        <3>3. /\ k \in 1 .. n /\ unit(i).from = us[i].from /\ unit(i).to = u.to
              /\ us[i].from <= u.from
            BY <1>13, <3>2
        <3>4. k + 1 \in 1 .. n /\ k \in 1 .. n - 1
            BY <1>1, <3>2, <3>3
        <3>5. /\ l \in 1 .. n /\ unit(k + 1).from = v.from /\ unit(k + 1).to = us[l].to
              /\ v.to <= us[l].to
            BY <1>13, <3>4
        <3>6. Follows(u, v, twice)
            BY <1>2, <3>4
        <3>7. /\ us[i].from \in Nat /\ u.from \in Nat /\ u.to \in Nat
              /\ v.from \in Nat /\ v.to \in Nat /\ us[l].to \in Nat
            BY <1>9, <3>2, <3>3, <3>4, <3>5
        <3>8. vs[j] = unit(i) /\ vs[j + 1] = unit(k + 1)
            BY <2>4, <3>1, <3>2
        <3> HIDE DEF i, k, l, u, v
        <3>9. u.from <= v.from /\ u.to <= v.to
            BY <3>6 DEF Follows
        <3>10. us[i].from <= v.from /\ u.to <= us[l].to
            BY <3>3, <3>5, <3>7, <3>9
        <3>11. TokensIn(u.to, v.from) = {} /\ (u.to <= v.from \/ Span(v.from, u.to) \in twice)
            BY <3>6 DEF Follows
        <3> QED
            BY <3>3, <3>5, <3>8, <3>10, <3>11 DEF Follows
    <2>7. vs # <<>> /\ vs[1].from = us[1].from /\ vs[Len(vs)].to = us[n].to
        <3>1. 1 \in 1 .. m /\ m \in 1 .. m
            BY <2>1
        <3>2. vs[1] = unit(1) /\ vs[m] = unit(h[m]) /\ 1 \in 1 .. n /\ h[m] \in 1 .. n
            BY <2>1, <2>4, <3>1
        <3>3. unit(1).from = us[1].from /\ unit(h[m]).to = us[n].to
            BY <1>13, <2>1, <3>2
        <3>4. vs # <<>>
            BY <2>1, <2>4, EmptySeq
        <3> QED
            BY <2>4, <3>2, <3>3, <3>4
    <2>8. us # <<>>
        BY <1>1, <1>15, EmptySeq DEF n
    <2>9. TokensIn(a, vs[1].from) = {} /\ TokensIn(vs[Len(vs)].to, b) = {}
        BY <1>2, <2>7, <2>8
    <2>10. Chain(vs, a, b, twice)
        BY <2>4, <2>5, <2>6, <2>7, <2>9 DEF Chain
    <2>11. ASSUME NEW p, p.from \in Nat, p.to \in Nat,
                  \A i \in 1 .. n : Intact(p, us[i].from, us[i].to),
                  NEW j \in 1 .. m
           PROVE  Intact(p, vs[j].from, vs[j].to)
        <3> DEFINE i == h[j]  k == last(i)
        <3>1. i \in 1 .. n /\ vs[j] = unit(i)
            BY <2>2, <2>4
        <3>2. /\ k \in 1 .. n /\ unit(i).from = us[i].from /\ unit(i).to = us[k].to
              /\ us[i].from <= us[k].from /\ us[i].to <= us[k].to
            BY <1>13, <3>1
        <3>3. /\ us[i].from \in Nat /\ us[i].to \in Nat /\ us[i].from <= us[i].to
              /\ us[k].from \in Nat /\ us[k].to \in Nat /\ us[k].from <= us[k].to
            BY <1>9, <3>1, <3>2
        <3>4. Intact(p, us[i].from, us[i].to) /\ Intact(p, us[k].from, us[k].to)
            BY <2>11, <3>1, <3>2
        <3> HIDE DEF i, k
        <3>5. Intact(p, us[i].from, us[k].to)
            BY <2>11, <3>2, <3>3, <3>4, IntactJoined
        <3> QED
            BY <3>1, <3>2, <3>5
    <2> QED
        BY <2>4, <2>10, <2>11 DEF vs, n
<1> QED
    BY <1>1, <1>14, <1>15

UnitsBody(f, k) == IF k = 0 THEN <<>> ELSE f[k - 1] \o Expand(Paragraphs[k])

\* The recursion of Units has a solution, which obeys its equation.
LEMMA UnitsSolve ==
    ASSUME text \in Drafts
    PROVE  \E f : f = [k \in 0 .. Len(Paragraphs) |-> UnitsBody(f, k)]
<1> DEFINE n == Len(Paragraphs)
           step == [x \in (1 .. n) \X Seq(Spans) |-> x[2] \o Expand(Paragraphs[x[1]])]
<1>1. n \in Nat /\ DOMAIN Paragraphs = 1 .. n
    BY ParagraphsAre
<1> HIDE DEF n
<1>2. ASSUME NEW k \in 1 .. n, NEW us \in Seq(Spans) PROVE us \o Expand(Paragraphs[k]) \in Seq(Spans)
    <2>1. Paragraphs[k] \in ToSet(Paragraphs)
        BY <1>1 DEF ToSet
    <2>2. Expand(Paragraphs[k]) \in Seq(Spans)
        BY <2>1, ExpandIs DEF Chain
    <2> QED
        BY <2>2, ConcatProperties
<1>3. step \in StepsOf(n, Seq(Spans))
    <2>1. \A x \in (1 .. n) \X Seq(Spans) : x[1] \in 1 .. n /\ x[2] \in Seq(Spans)
        OBVIOUS
    <2> QED
        BY <1>2, <2>1 DEF StepsOf
<1>4. \A k \in 1 .. n, us \in Seq(Spans) : step[<<k, us>>] = us \o Expand(Paragraphs[k])
    OBVIOUS
<1> HIDE DEF step
<1>5. <<>> \in Seq(Spans)
    BY EmptySeq
<1>6. PICK f : Recurs(f, n, Seq(Spans), <<>>, step)
    BY <1>1, <1>3, <1>5, RecursionSolves
<1>7. ASSUME NEW k \in 0 .. n PROVE f[k] = UnitsBody(f, k)
    <2>1. CASE k = 0
        BY <1>6, <2>1 DEF Recurs, UnitsBody
    <2>2. CASE k # 0
        <3>1. k \in 1 .. n /\ k - 1 \in 0 .. n
            BY <1>1, <2>2
        <3>2. f[k - 1] \in Seq(Spans) /\ f[k] = step[<<k, f[k - 1]>>]
            BY <1>6, <3>1 DEF Recurs
        <3>3. f[k] = f[k - 1] \o Expand(Paragraphs[k])
            BY <1>4, <3>1, <3>2
        <3> QED
            BY <2>2, <3>3 DEF UnitsBody
    <2> QED
        BY <2>1, <2>2
<1>8. f = [k \in 0 .. n |-> UnitsBody(f, k)]
    <2>1. f = [k \in 0 .. n |-> f[k]]
        BY <1>6 DEF Recurs
    <2> QED
        BY <1>7, <2>1
<1> QED
    BY <1>8 DEF n

\* The units are a chain that covers the draft and divides no paragraph that fits.
GoodUnits(us) ==
    /\ Chain(us, 1, Whole.to, PiecesTwice)
    /\ \A p, i : Fits(p) /\ i \in 1 .. Len(us) => Intact(p, us[i].from, us[i].to)

\* The units of a draft are a chain over all of it, and divide no paragraph that fits.
LEMMA UnitsAre ==
    ASSUME text \in Drafts
    PROVE  GoodUnits(Units)
<1> DEFINE ps == Paragraphs  n == Len(ps)
           f == CHOOSE g : g = [k \in 0 .. n |-> UnitsBody(g, k)]
           us == f[n]
<1>1. f = [k \in 0 .. n |-> UnitsBody(f, k)]
    BY UnitsSolve
<1>2. Units = Group(us)
    BY DEF Units, UnitsBody
<1>3. /\ ps \in Seq(Spans) /\ n \in Nat /\ n > 0 /\ DOMAIN ps = 1 .. n /\ ps[n].to = Whole.to
    BY ParagraphsAre
<1> HIDE DEF f, n
<1>4. f[0] = <<>> /\ \A k \in 1 .. n : f[k] = f[k - 1] \o Expand(ps[k])
    <2>1. 0 \in 0 .. n /\ \A k \in 1 .. n : k \in 0 .. n /\ k # 0
        BY <1>3
    <2>2. \A k \in 0 .. n : f[k] = UnitsBody(f, k)
        BY <1>1
    <2> QED
        BY <2>1, <2>2 DEF UnitsBody
<1> DEFINE T == {k \in 0 .. n : AreExpanded(f[k], k)}
<1>5. 0 \in T
    <2>1. TokensIn(1, 1) = {} /\ 1 \in Nat
        <3>1. 1 <= 1
            OBVIOUS
        <3> QED
            BY <3>1, TokensAre
    <2>2. Chain(<<>>, 1, 1, PiecesTwice)
        BY <2>1, ChainNone
    <2>3. Len(<<>>) = 0 /\ \A i : ~(i \in 1 .. 0)
        OBVIOUS
    <2>4. AreExpanded(<<>>, 0)
        BY <2>2, <2>3 DEF AreExpanded
    <2> QED
        BY <1>3, <1>4, <2>4
<1>6. ASSUME NEW k \in 1 .. n, k - 1 \in T PROVE k \in T
    <2>1. AreExpanded(f[k - 1], k - 1) /\ k \in 0 .. n
        BY <1>3, <1>6
    <2>2. AreExpanded(f[k - 1] \o Expand(ps[k]), k)
        BY <2>1, ExpandNext DEF n
    <2> QED
        BY <1>4, <2>1, <2>2
<1> HIDE DEF T
<1>7. n \in T
    <2>1. \A k \in 0 .. n : k \in T
        BY <1>3, <1>5, <1>6, UpTo
    <2> QED
        BY <1>3, <2>1
<1>8. AreExpanded(us, n) /\ n # 0
    BY <1>3, <1>7 DEF T
<1> HIDE DEF us, ps
<1>9. /\ Chain(us, 1, Whole.to, PiecesTwice)
      /\ \A p, i : Fits(p) /\ i \in 1 .. Len(us) => Intact(p, us[i].from, us[i].to)
    BY <1>3, <1>8 DEF AreExpanded, ps
<1>10. \A p : Fits(p) => p.from \in Nat /\ p.to \in Nat
    <2> SUFFICES ASSUME NEW p, Fits(p) PROVE p.from \in Nat /\ p.to \in Nat
        OBVIOUS
    <2>1. PICK k \in 1 .. n : p = ps[k]
        BY <1>3 DEF Fits, ToSet, ps
    <2>2. p \in Spans
        BY <1>3, <2>1, ElementOfSeq DEF n
    <2> QED
        BY <2>2 DEF Spans
<1> DEFINE vs == Group(us)
<1>11. Chain(vs, 1, Whole.to, PiecesTwice)
    BY <1>9, GroupIs
<1>12. ASSUME NEW p, NEW j, Fits(p), j \in 1 .. Len(vs) PROVE Intact(p, vs[j].from, vs[j].to)
    <2>1. p.from \in Nat /\ p.to \in Nat
        BY <1>10, <1>12
    <2>2. \A i \in 1 .. Len(us) : Intact(p, us[i].from, us[i].to)
        BY <1>9, <1>12
    <2> QED
        BY <1>9, <1>12, <2>1, <2>2, GroupIs
<1>13. GoodUnits(vs)
    <2> HIDE DEF vs
    <2> QED
        BY <1>11, <1>12 DEF GoodUnits
<1> QED
    BY <1>2, <1>13

-----------------------------------------------------------------------------
(* Packing the units.                                                      *)

Covered(cs) == UNION {TokensOf(cs[k]) : k \in DOMAIN cs}

InOrder(cs) ==
    \A k \in 2 .. Len(cs) : cs[k - 1].from <= cs[k].from /\ cs[k - 1].to <= cs[k].to

Limited(cs, us) ==
    /\ \A k \in DOMAIN cs :
           /\ Length(cs[k]) \in 1 .. MaxTokens
           /\ Length(cs[k]) > TargetTokens => cs[k] \in ToSet(us) \cup {Whole}
    /\ \A k \in 2 .. Len(cs) :
           \/ Cardinality(TokensOf(cs[k - 1]) \cap TokensOf(cs[k])) <= OverlapTokens
           \/ Span(cs[k].from, cs[k - 1].to) \in PiecesTwice
    /\ Len(cs) > 1 => Len(cs) <= Len(us)

Undivided(cs) ==
    \A p \in ToSet(Paragraphs), k \in DOMAIN cs :
        Length(p) <= MaxTokens => TokensOf(p) \cap TokensOf(cs[k]) \in {{}, TokensOf(p)}

\* The last chunk ends in unit last; the next one, which begins with unit
\* next, repeats no more of it than fits the overlap.
Packed(cs, us, next) ==
    /\ GoodUnits(us) /\ next \in 1 .. Len(us) /\ Len(cs) < next
    /\ cs = <<>> => next = 1
    /\ cs # <<>> => \E begin, last \in 1 .. Len(us) :
           /\ cs[Len(cs)] = Span(us[begin].from, us[last].to)
           /\ Covered(cs) = TokensIn(1, us[last].to)
           /\ begin < next /\ begin <= last /\ next <= last + 1
           /\ next <= last => Tokens(us[next].from, us[last].to) <= OverlapTokens

\* A span with one more chunk.
LEMMA OneMore ==
    ASSUME NEW cs \in Seq(Spans), NEW c \in Spans
    PROVE  LET ds == Append(cs, c)  n == Len(cs) IN
           /\ n \in Nat /\ ds \in Seq(Spans) /\ Len(ds) = n + 1 /\ ds # <<>>
           /\ DOMAIN cs = 1 .. n /\ DOMAIN ds = 1 .. n + 1
           /\ \A k \in 1 .. n : ds[k] = cs[k]
           /\ ds[n + 1] = c
           /\ Covered(ds) = Covered(cs) \cup TokensOf(c)
<1> DEFINE ds == Append(cs, c)  n == Len(cs)
<1>1. n \in Nat /\ DOMAIN cs = 1 .. n
    BY LenProperties
<1>2. /\ ds \in Seq(Spans) /\ Len(ds) = n + 1
      /\ \A k \in 1 .. n : ds[k] = cs[k]
      /\ ds[n + 1] = c
    BY <1>1, AppendProperties
<1> HIDE DEF ds, n
<1>3. DOMAIN ds = 1 .. n + 1
    BY <1>2, LenProperties
<1>4. ds # <<>>
    BY <1>1, <1>2, EmptySeq
<1>5. \A k : k \in 1 .. n + 1 <=> k \in 1 .. n \/ k = n + 1
    BY <1>1
<1>6. Covered(ds) = Covered(cs) \cup TokensOf(c)
    <2>1. ASSUME NEW i \in Covered(ds) PROVE i \in Covered(cs) \cup TokensOf(c)
        <3>1. PICK k \in 1 .. n + 1 : i \in TokensOf(ds[k])
            BY <1>3 DEF Covered
        <3> QED
            BY <1>1, <1>2, <1>5, <3>1 DEF Covered
    <2>2. ASSUME NEW i \in Covered(cs) PROVE i \in Covered(ds)
        <3>1. PICK k \in 1 .. n : i \in TokensOf(cs[k])
            BY <1>1 DEF Covered
        <3> QED
            BY <1>2, <1>3, <1>5, <3>1 DEF Covered
    <2>3. ASSUME NEW i \in TokensOf(c) PROVE i \in Covered(ds)
        BY <1>2, <1>3, <1>5 DEF Covered
    <2> QED
        BY <2>1, <2>2, <2>3
<1> QED
    BY <1>1, <1>2, <1>3, <1>4, <1>6 DEF ds, n

\* The units that a chunk is made of.
LEMMA ChunkIs ==
    ASSUME NEW us, GoodUnits(us), NEW f \in 1 .. Len(us), NEW e \in f .. Len(us),
           \A j \in f + 1 .. e : Tokens(us[f].from, us[j].to) <= TargetTokens
    PROVE  LET c == Span(us[f].from, us[e].to) IN
           /\ c \in Spans /\ c.from = us[f].from /\ c.to = us[e].to /\ c.from <= c.to
           /\ c.from \in Nat /\ c.to \in Nat
           /\ Length(c) \in 1 .. MaxTokens /\ (Length(c) > TargetTokens => c \in ToSet(us))
           /\ TokensOf(c) = TokensIn(us[f].from, us[e].to)
<1> DEFINE n == Len(us)  x == us[f].from  y == us[e].to  c == Span(x, y)
<1>1. us \in Seq(Spans) /\ n \in Nat /\ DOMAIN us = 1 .. n /\ Chain(us, 1, Whole.to, PiecesTwice)
    BY LenProperties DEF GoodUnits, Chain
<1>2. f \in 1 .. n /\ e \in 1 .. n /\ f <= e /\ f \in Nat /\ e \in Nat
    BY <1>1
<1>3. \A i \in 1 .. n : us[i].from \in Nat /\ us[i].to \in Nat /\ us[i].from <= us[i].to
                        /\ us[i] = Span(us[i].from, us[i].to)
                        /\ Tokens(us[i].from, us[i].to) \in 1 .. MaxTokens
    BY <1>1 DEF Chain, IsUnit, Spans, Span, Length
<1>4. us[f].from <= us[e].from /\ us[f].to <= us[e].to
    BY <1>1, <1>2, ChainRises
<1>5. x \in Nat /\ y \in Nat /\ x <= us[f].to /\ us[f].to <= y /\ us[f].to \in Nat /\ x <= y
    BY <1>2, <1>3, <1>4
<1>6. c \in Spans /\ c.from = x /\ c.to = y /\ Length(c) = Tokens(x, y)
    BY <1>5, SpanIs
<1>7. Tokens(x, us[f].to) <= Tokens(x, y)
    <2>1. x <= x
        BY <1>5
    <2> QED
        BY <1>5, <2>1, TokensGrow
<1>8. /\ Tokens(x, y) \in Nat /\ Tokens(x, us[f].to) \in 1 .. MaxTokens
      /\ MaxTokens \in Nat /\ TargetTokens \in Nat /\ TargetTokens <= MaxTokens
    BY <1>2, <1>3, <1>5, TokensAre, Limits
<1>9. e # f => Tokens(x, y) <= TargetTokens
    <2>1. e # f => e \in f + 1 .. e
        BY <1>2
    <2> QED
        BY <2>1
<1>10. e = f => c = us[f] /\ us[f] \in ToSet(us)
    BY <1>1, <1>2, <1>3 DEF ToSet
<1>11. e = f => Tokens(x, y) \in 1 .. MaxTokens
    BY <1>8
<1>12. Length(c) \in 1 .. MaxTokens /\ (Length(c) > TargetTokens => c \in ToSet(us))
    <2> HIDE DEF c, x, y
    <2>1. CASE e = f
        BY <1>6, <1>10, <1>11, <2>1
    <2>2. CASE e # f
        <3>1. Tokens(x, y) \in 1 .. MaxTokens /\ ~(Tokens(x, y) > TargetTokens)
            BY <1>7, <1>8, <1>9, <2>2
        <3> QED
            BY <1>6, <3>1
    <2> QED
        BY <2>1, <2>2
<1>13. TokensOf(c) = TokensIn(x, y)
    BY <1>6 DEF TokensOf
<1> QED
    BY <1>5, <1>6, <1>12, <1>13

\* The chunk after another: what it repeats, and what it adds.
LEMMA ChunkAfter ==
    ASSUME NEW us, GoodUnits(us), NEW f \in 1 .. Len(us), NEW e \in f .. Len(us),
           \A k \in f .. Len(us) :
               (\A j \in f + 1 .. k : Tokens(us[f].from, us[j].to) <= TargetTokens) => k <= e,
           NEW begin \in 1 .. Len(us), NEW last \in 1 .. Len(us),
           begin < f, begin <= last, f <= last + 1,
           f <= last => Tokens(us[f].from, us[last].to) <= OverlapTokens
    PROVE  /\ us[begin].from <= us[f].from /\ us[last].to <= us[e].to
           /\ TokensIn(us[last].to, us[f].from) = {}
           /\ \/ Tokens(us[f].from, us[last].to) <= OverlapTokens
              \/ Span(us[f].from, us[last].to) \in PiecesTwice
<1> DEFINE n == Len(us)
<1>1. us \in Seq(Spans) /\ n \in Nat /\ Chain(us, 1, Whole.to, PiecesTwice)
    BY LenProperties DEF GoodUnits, Chain
<1>2. \A i \in 1 .. n : us[i].from \in Nat /\ us[i].to \in Nat /\ us[i].from <= us[i].to
    BY <1>1 DEF Chain, IsUnit, Spans
<1>3. /\ f \in 1 .. n /\ e \in 1 .. n /\ begin \in 1 .. n /\ last \in 1 .. n
      /\ f <= e /\ begin <= f
    BY <1>1
<1>4. us[begin].from <= us[f].from
    BY <1>1, <1>3, ChainRises
<1>5. CASE f <= last
    <2>1. ASSUME NEW j \in f + 1 .. last PROVE Tokens(us[f].from, us[j].to) <= TargetTokens
        <3>1. j \in 1 .. n /\ j <= last
            BY <1>1, <1>3
        <3>2. us[j].to <= us[last].to /\ us[f].from <= us[f].from
            BY <1>1, <1>2, <1>3, <3>1, ChainRises
        <3>3. Tokens(us[f].from, us[j].to) <= Tokens(us[f].from, us[last].to)
            BY <1>2, <1>3, <3>1, <3>2, TokensGrow
        <3>4. Tokens(us[f].from, us[j].to) \in Nat /\ Tokens(us[f].from, us[last].to) \in Nat
            BY <1>2, <1>3, <3>1, TokensAre
        <3> QED
            BY <1>5, <3>3, <3>4, Limits
    <2>2. last <= e
        <3>1. last \in f .. n
            BY <1>1, <1>3, <1>5
        <3> QED
            BY <2>1, <3>1
    <2>3. us[last].to <= us[e].to /\ us[f].from <= us[last].from
        BY <1>1, <1>3, <1>5, <2>2, ChainRises
    <2>4. us[f].from <= us[last].to
        BY <1>2, <1>3, <2>3
    <2>5. TokensIn(us[last].to, us[f].from) = {}
        BY <1>2, <1>3, <2>4, TokensAre
    <2> QED
        BY <1>4, <1>5, <2>3, <2>5
<1>6. CASE ~(f <= last)
    <2>1. f = last + 1 /\ last \in 1 .. n - 1 /\ last <= e
        BY <1>1, <1>3, <1>6
    <2>2. Follows(us[last], us[f], PiecesTwice)
        BY <1>1, <2>1 DEF Chain
    <2>3. us[last].to <= us[e].to
        BY <1>1, <1>3, <2>1, ChainRises
    <2>4. us[last].to <= us[f].from => Tokens(us[f].from, us[last].to) = 0
        BY <1>2, <1>3, TokensAre
    <2>5. 0 <= OverlapTokens
        BY Limits
    <2> QED
        BY <1>4, <2>2, <2>3, <2>4, <2>5 DEF Follows
<1> QED
    BY <1>5, <1>6

\* What is intact in a span is within it or has nothing of it.
LEMMA IntactTokens ==
    ASSUME NEW p \in Spans, NEW c \in Spans, Intact(p, c.from, c.to)
    PROVE  TokensOf(p) \cap TokensOf(c) \in {{}, TokensOf(p)}
<1>1. p.from \in Nat /\ p.to \in Nat /\ c.from \in Nat /\ c.to \in Nat
    BY DEF Spans
<1>2. /\ \A i : i \in TokensOf(p)
                <=> i \in Nat /\ p.from <= i /\ i < p.to /\ text[i] \in TokenSymbols
      /\ \A i : i \in TokensOf(c)
                <=> i \in Nat /\ c.from <= i /\ i < c.to /\ text[i] \in TokenSymbols
    BY <1>1, TokensAre DEF TokensOf
<1>3. CASE c.to <= p.from \/ p.to <= c.from
    <2>1. \A i : ~(i \in TokensOf(p) /\ i \in TokensOf(c))
        BY <1>1, <1>2, <1>3
    <2>2. TokensOf(p) \cap TokensOf(c) = {}
        BY <2>1
    <2> QED
        BY <2>2
<1>4. CASE c.from <= p.from /\ p.to <= c.to
    <2>1. \A i : i \in TokensOf(p) => i \in TokensOf(c)
        BY <1>1, <1>2, <1>4
    <2>2. TokensOf(p) \cap TokensOf(c) = TokensOf(p)
        BY <2>1
    <2> QED
        BY <2>2
<1> QED
    BY <1>3, <1>4 DEF Intact

\* The chunks have the tokens up to the given symbol.
CoversTo(cs, to) == Covered(cs) = TokensIn(1, to)

\* A chunk that begins with unit f takes the units up to e, and not one more.
Fills(us, f, e) ==
    /\ e \in f .. Len(us)
    /\ \A j \in f + 1 .. e : Tokens(us[f].from, us[j].to) <= TargetTokens
    /\ \A k \in f .. Len(us) :
           (\A j \in f + 1 .. k : Tokens(us[f].from, us[j].to) <= TargetTokens) => k <= e

\* One more chunk keeps what the properties say of the chunks.
LEMMA PackKeeps ==
    ASSUME text \in Drafts, NEW cs \in Seq(Spans), NEW us, NEW f, Packed(cs, us, f),
           InOrder(cs), Limited(cs, us), Undivided(cs), NEW e, Fills(us, f, e),
           NEW ds, ds = Append(cs, Span(us[f].from, us[e].to))
    PROVE  /\ ds \in Seq(Spans) /\ Len(ds) = Len(cs) + 1 /\ ds # <<>>
           /\ ds[Len(ds)] = Span(us[f].from, us[e].to)
           /\ InOrder(ds) /\ Limited(ds, us) /\ Undivided(ds)
           /\ CoversTo(ds, us[e].to)
<1>0. /\ e \in f .. Len(us)
      /\ \A j \in f + 1 .. e : Tokens(us[f].from, us[j].to) <= TargetTokens
      /\ \A k \in f .. Len(us) :
             (\A j \in f + 1 .. k : Tokens(us[f].from, us[j].to) <= TargetTokens) => k <= e
    BY DEF Fills
<1> USE <1>0
<1> DEFINE c == Span(us[f].from, us[e].to)  n == Len(cs)
<1>1. GoodUnits(us) /\ f \in 1 .. Len(us) /\ Len(us) \in Nat /\ n < f
    BY LenProperties DEF Packed, GoodUnits, Chain
<1>2. /\ c \in Spans /\ c.from = us[f].from /\ c.to = us[e].to /\ c.from <= c.to
      /\ c.from \in Nat /\ c.to \in Nat
      /\ Length(c) \in 1 .. MaxTokens /\ (Length(c) > TargetTokens => c \in ToSet(us))
      /\ TokensOf(c) = TokensIn(us[f].from, us[e].to)
    BY <1>1, ChunkIs
<1>3. ds = Append(cs, c)
    OBVIOUS
<1>4. f \in 1 .. Len(us) /\ e \in 1 .. Len(us) /\ f <= e
    BY <1>1
<1> HIDE DEF c
<1>5. /\ n \in Nat /\ ds \in Seq(Spans) /\ Len(ds) = n + 1 /\ ds # <<>>
      /\ DOMAIN cs = 1 .. n /\ DOMAIN ds = 1 .. n + 1
      /\ \A k \in 1 .. n : ds[k] = cs[k]
      /\ ds[n + 1] = c
      /\ Covered(ds) = Covered(cs) \cup TokensOf(c)
    BY <1>2, <1>3, OneMore
<1>6. n = 0 <=> cs = <<>>
    BY EmptySeq
<1> HIDE DEF n
<1>7. \A k \in 1 .. n : cs[k] \in Spans /\ cs[k].from \in Nat /\ cs[k].to \in Nat
    <2>1. \A k \in 1 .. n : cs[k] \in Spans
        BY ElementOfSeq DEF n
    <2> QED
        BY <2>1 DEF Spans
<1>8. n > 0 => /\ cs[n].from <= c.from /\ cs[n].to <= c.to
               /\ TokensIn(cs[n].to, c.from) = {}
               /\ Covered(cs) = TokensIn(1, cs[n].to)
               /\ \/ Tokens(c.from, cs[n].to) <= OverlapTokens
                  \/ Span(c.from, cs[n].to) \in PiecesTwice
    <2> SUFFICES ASSUME n > 0
                 PROVE  /\ cs[n].from <= c.from /\ cs[n].to <= c.to
                        /\ TokensIn(cs[n].to, c.from) = {}
                        /\ Covered(cs) = TokensIn(1, cs[n].to)
                        /\ \/ Tokens(c.from, cs[n].to) <= OverlapTokens
                           \/ Span(c.from, cs[n].to) \in PiecesTwice
        OBVIOUS
    <2>1. cs # <<>>
        BY <1>6
    <2>2. PICK begin \in 1 .. Len(us), last \in 1 .. Len(us) :
              /\ cs[Len(cs)] = Span(us[begin].from, us[last].to)
              /\ Covered(cs) = TokensIn(1, us[last].to)
              /\ begin < f /\ begin <= last /\ f <= last + 1
              /\ f <= last => Tokens(us[f].from, us[last].to) <= OverlapTokens
        BY <2>1 DEF Packed
    <2>3. cs[n] = Span(us[begin].from, us[last].to)
        BY <2>2 DEF n
    <2>4. cs[n].from = us[begin].from /\ cs[n].to = us[last].to
        BY <2>3 DEF Span
    <2>5. /\ us[begin].from <= us[f].from /\ us[last].to <= us[e].to
          /\ TokensIn(us[last].to, us[f].from) = {}
          /\ \/ Tokens(us[f].from, us[last].to) <= OverlapTokens
             \/ Span(us[f].from, us[last].to) \in PiecesTwice
        BY <1>1, <1>4, <2>2, ChunkAfter
    <2> QED
        BY <1>2, <2>2, <2>4, <2>5
<1>9. \A k : k \in 2 .. n + 1 => k \in 2 .. n \/ (n > 0 /\ k = n + 1 /\ k - 1 = n)
    BY <1>5
<1>10. \A k : k \in 1 .. n + 1 => k \in 1 .. n \/ k = n + 1
    BY <1>5
<1>11. \A k \in 2 .. n : k \in 1 .. n /\ k - 1 \in 1 .. n
    BY <1>5
<1>12. n > 0 => n \in 1 .. n
    BY <1>5
<1>13. InOrder(ds)
    <2> SUFFICES ASSUME NEW k \in 2 .. n + 1
                 PROVE  ds[k - 1].from <= ds[k].from /\ ds[k - 1].to <= ds[k].to
        BY <1>5 DEF InOrder
    <2>1. CASE k \in 2 .. n
        <3>1. cs[k - 1].from <= cs[k].from /\ cs[k - 1].to <= cs[k].to
            BY <2>1 DEF InOrder, n
        <3>2. ds[k] = cs[k] /\ ds[k - 1] = cs[k - 1]
            BY <1>5, <1>11, <2>1
        <3> QED
            BY <3>1, <3>2
    <2>2. CASE n > 0 /\ k = n + 1 /\ k - 1 = n
        <3>1. ds[k] = c /\ ds[k - 1] = cs[n]
            BY <1>5, <1>12, <2>2
        <3> QED
            BY <1>8, <2>2, <3>1
    <2> QED
        BY <1>9, <2>1, <2>2
<1>14. Limited(ds, us)
    <2>1. ASSUME NEW k \in 1 .. n + 1
          PROVE  /\ Length(ds[k]) \in 1 .. MaxTokens
                 /\ Length(ds[k]) > TargetTokens => ds[k] \in ToSet(us) \cup {Whole}
        <3>1. CASE k \in 1 .. n
            <4>1. /\ Length(cs[k]) \in 1 .. MaxTokens
                  /\ Length(cs[k]) > TargetTokens => cs[k] \in ToSet(us) \cup {Whole}
                BY <1>5, <3>1 DEF Limited
            <4> QED
                BY <1>5, <3>1, <4>1
        <3>2. CASE k = n + 1
            BY <1>2, <1>5, <3>2
        <3> QED
            BY <1>10, <3>1, <3>2
    <2>2. ASSUME NEW k \in 2 .. n + 1
          PROVE  \/ Cardinality(TokensOf(ds[k - 1]) \cap TokensOf(ds[k])) <= OverlapTokens
                 \/ Span(ds[k].from, ds[k - 1].to) \in PiecesTwice
        <3>1. CASE k \in 2 .. n
            <4>1. \/ Cardinality(TokensOf(cs[k - 1]) \cap TokensOf(cs[k])) <= OverlapTokens
                  \/ Span(cs[k].from, cs[k - 1].to) \in PiecesTwice
                BY <3>1 DEF Limited, n
            <4>2. ds[k] = cs[k] /\ ds[k - 1] = cs[k - 1]
                BY <1>5, <1>11, <3>1
            <4> QED
                BY <4>1, <4>2
        <3>2. CASE n > 0 /\ k = n + 1 /\ k - 1 = n
            <4> DEFINE d == cs[n]
            <4>1. ds[k] = c /\ ds[k - 1] = d
                BY <1>5, <1>12, <3>2
            <4>2. d.from \in Nat /\ d.to \in Nat /\ d \in Spans
                BY <1>7, <1>12, <3>2
            <4>3. \/ Tokens(c.from, d.to) <= OverlapTokens
                  \/ Span(c.from, d.to) \in PiecesTwice
                BY <1>8, <3>2
            <4> HIDE DEF d
            <4>4. TokensOf(d) \cap TokensOf(c) \subseteq TokensIn(c.from, d.to)
                <5>1. /\ \A i : i \in TokensIn(d.from, d.to)
                              <=> i \in Nat /\ d.from <= i /\ i < d.to /\ text[i] \in TokenSymbols
                      /\ \A i : i \in TokensIn(c.from, c.to)
                              <=> i \in Nat /\ c.from <= i /\ i < c.to /\ text[i] \in TokenSymbols
                      /\ \A i : i \in TokensIn(c.from, d.to)
                              <=> i \in Nat /\ c.from <= i /\ i < d.to /\ text[i] \in TokenSymbols
                    BY <1>2, <4>2, TokensAre
                <5> QED
                    BY <5>1 DEF TokensOf
            <4>5. IsFiniteSet(TokensIn(c.from, d.to))
                BY <1>2, <4>2, TokensAre
            <4> DEFINE both == TokensOf(d) \cap TokensOf(c)
            <4>6. /\ Cardinality(both) <= Tokens(c.from, d.to)
                  /\ Cardinality(both) \in Nat /\ Tokens(c.from, d.to) \in Nat
                BY <4>4, <4>5, FS_Subset, FS_CardinalityType DEF Tokens
            <4> HIDE DEF both
            <4>7. Tokens(c.from, d.to) <= OverlapTokens => Cardinality(both) <= OverlapTokens
                BY <4>6, Limits
            <4> QED
                BY <4>1, <4>3, <4>7 DEF both
        <3> QED
            BY <1>9, <3>1, <3>2
    <2>3. n + 1 <= Len(us)
        BY <1>1, <1>5
    <2> QED
        BY <1>5, <2>1, <2>2, <2>3 DEF Limited
<1>15. ASSUME NEW p \in ToSet(Paragraphs), Length(p) <= MaxTokens
       PROVE  TokensOf(p) \cap TokensOf(c) \in {{}, TokensOf(p)}
    <2>1. p \in Spans /\ p.from \in Nat /\ p.to \in Nat
        <3>1. PICK k \in DOMAIN Paragraphs : p = Paragraphs[k]
            BY DEF ToSet
        <3>2. Paragraphs \in Seq(Spans) /\ DOMAIN Paragraphs = 1 .. Len(Paragraphs)
            BY ParagraphsAre
        <3>3. p \in Spans
            BY <3>1, <3>2, ElementOfSeq
        <3> QED
            BY <3>3 DEF Spans
    <2>2. Fits(p)
        BY <1>15 DEF Fits
    <2>3. Intact(p, us[f].from, us[f].to) /\ Intact(p, us[e].from, us[e].to)
        BY <1>1, <1>4, <2>2 DEF GoodUnits
    <2>4. Chain(us, 1, Whole.to, PiecesTwice)
        BY <1>1 DEF GoodUnits
    <2>5. us[f].from <= us[e].from /\ us[f].to <= us[e].to
        BY <1>4, <2>4, ChainRises
    <2>6. \A i \in 1 .. Len(us) : us[i].from \in Nat /\ us[i].to \in Nat /\ us[i].from <= us[i].to
        BY <2>4 DEF Chain, IsUnit, Spans
    <2>7. Intact(p, us[f].from, us[e].to)
        BY <1>4, <2>1, <2>3, <2>5, <2>6, IntactJoined
    <2> QED
        BY <1>2, <2>1, <2>7, IntactTokens
<1>16. Undivided(ds)
    <2> SUFFICES ASSUME NEW p \in ToSet(Paragraphs), NEW k \in 1 .. n + 1, Length(p) <= MaxTokens
                 PROVE  TokensOf(p) \cap TokensOf(ds[k]) \in {{}, TokensOf(p)}
        BY <1>5 DEF Undivided
    <2>1. CASE k \in 1 .. n
        <3>1. TokensOf(p) \cap TokensOf(cs[k]) \in {{}, TokensOf(p)}
            BY <1>5, <2>1 DEF Undivided
        <3> QED
            BY <1>5, <2>1, <3>1
    <2>2. CASE k = n + 1
        BY <1>5, <1>15, <2>2
    <2> QED
        BY <1>10, <2>1, <2>2
<1>17. Covered(ds) = TokensIn(1, us[e].to)
    <2>1. 1 <= c.from /\ 1 \in Nat
        <3>1. IsUnit(us[f], 1, Whole.to)
            BY <1>1 DEF GoodUnits, Chain
        <3> QED
            BY <1>2, <3>1 DEF IsUnit
    <2>2. TokensOf(c) = TokensIn(c.from, c.to)
        BY DEF TokensOf
    <2>3. CASE n = 0
        <3>1. Covered(cs) = {}
            BY <1>5, <2>3 DEF Covered
        <3>2. f = 1
            BY <1>6, <2>3 DEF Packed
        <3>3. us # <<>> /\ Chain(us, 1, Whole.to, PiecesTwice)
            BY <1>1, EmptySeq DEF GoodUnits
        <3>4. TokensIn(1, c.from) = {}
            BY <1>2, <3>2, <3>3 DEF Chain
        <3>5. TokensIn(1, c.to) = TokensIn(1, c.from) \cup TokensIn(c.from, c.to)
            BY <1>2, <2>1, TokensSplit
        <3> QED
            BY <1>2, <1>5, <2>2, <3>1, <3>4, <3>5
    <2>4. CASE n # 0
        <3> DEFINE x == c.from  y == c.to  z == cs[n].to
        <3>1. n > 0 /\ n \in 1 .. n
            BY <1>5, <2>4
        <3>2. Covered(cs) = TokensIn(1, z) /\ z <= y /\ TokensIn(z, x) = {}
            BY <1>8, <3>1
        <3>3. x \in Nat /\ y \in Nat /\ z \in Nat /\ x <= y /\ 1 <= x
            BY <1>2, <1>7, <2>1, <3>1
        <3>4. Covered(ds) = TokensIn(1, z) \cup TokensIn(x, y)
            BY <1>5, <2>2, <3>2
        <3>5. y = us[e].to
            BY <1>2
        <3> HIDE DEF x, y, z
        <3>6. /\ \A i : i \in TokensIn(1, z)
                        <=> i \in Nat /\ 1 <= i /\ i < z /\ text[i] \in TokenSymbols
              /\ \A i : i \in TokensIn(x, y)
                        <=> i \in Nat /\ x <= i /\ i < y /\ text[i] \in TokenSymbols
              /\ \A i : i \in TokensIn(z, x)
                        <=> i \in Nat /\ z <= i /\ i < x /\ text[i] \in TokenSymbols
              /\ \A i : i \in TokensIn(1, y)
                        <=> i \in Nat /\ 1 <= i /\ i < y /\ text[i] \in TokenSymbols
            BY <2>1, <3>3, TokensAre
        <3>7. ASSUME NEW i \in TokensIn(1, y) PROVE i \in TokensIn(1, z) \/ i \in TokensIn(x, y)
            <4>1. i \in Nat /\ 1 <= i /\ i < y /\ text[i] \in TokenSymbols
                BY <3>6
            <4>2. ~(z <= i /\ i < x)
                BY <3>2, <3>6, <4>1
            <4> QED
                BY <3>3, <3>6, <4>1, <4>2
        <3>8. ASSUME NEW i, i \in TokensIn(1, z) \/ i \in TokensIn(x, y) PROVE i \in TokensIn(1, y)
            BY <3>2, <3>3, <3>6, <3>8
        <3>9. TokensIn(1, z) \cup TokensIn(x, y) = TokensIn(1, y)
            BY <3>7, <3>8
        <3> QED
            BY <3>4, <3>5, <3>9
    <2> QED
        BY <2>3, <2>4
<1>18. Len(ds) = Len(cs) + 1 /\ ds[Len(ds)] = c
    BY <1>5 DEF n
<1> QED
    BY <1>5, <1>13, <1>14, <1>16, <1>17, <1>18 DEF c, CoversTo

\* The last unit of the next chunk, and the unit after it to begin with.
LEMMA PackedToIs ==
    ASSUME Len(units) \in Nat, first \in 1 .. Len(units)
    PROVE  /\ PackedTo \in first .. Len(units)
           /\ \A j \in first + 1 .. PackedTo : Tokens(units[first].from, units[j].to) <= TargetTokens
           /\ \A k \in first .. Len(units) :
                  (\A j \in first + 1 .. k : Tokens(units[first].from, units[j].to) <= TargetTokens)
                  => k <= PackedTo
<1> DEFINE n == Len(units)
           Fit(k) == \A j \in first + 1 .. k : Tokens(units[first].from, units[j].to) <= TargetTokens
           S == {k \in first .. n : Fit(k)}
<1>1. PackedTo = Max(S)
    BY DEF PackedTo
<1>2. first \in S
    <2>1. first \in first .. n /\ \A j : ~(j \in first + 1 .. first)
        OBVIOUS
    <2> QED
        BY <2>1
<1>3. \A k : k \in S <=> k \in first .. n /\ Fit(k)
    OBVIOUS
<1>4. S \subseteq 0 .. n
    OBVIOUS
<1>5. n \in Nat
    OBVIOUS
<1> HIDE DEF S, n
<1>6. S # {}
    BY <1>2
<1>7. Max(S) \in S /\ \A j \in S : j <= Max(S)
    BY <1>4, <1>5, <1>6, GreatestOf
<1>8. PackedTo \in first .. n /\ Fit(PackedTo) /\ \A k \in first .. n : Fit(k) => k <= PackedTo
    BY <1>1, <1>3, <1>7
<1> QED
    BY <1>8 DEF n

\* The next chunk begins behind the first unit of this one, and no later than behind its last.
LEMMA NextFirstIs ==
    ASSUME first \in Nat, NEW last \in Nat, first <= last
    PROVE  /\ NextFirst(last) \in first + 1 .. last + 1
           /\ NextFirst(last) <= last =>
                  Tokens(units[NextFirst(last)].from, units[last].to) <= OverlapTokens
<1> DEFINE Fit(k) == Tokens(units[k].from, units[last].to) <= OverlapTokens
           R == {k \in first .. last : Fit(k)}
<1>1. NextFirst(last) = IF R = {} \/ Min(R) = first THEN last + 1 ELSE Min(R)
    BY DEF NextFirst
<1>2. R \subseteq Nat /\ \A k \in R : k \in first .. last /\ Fit(k)
    OBVIOUS
<1> HIDE DEF R, Fit
<1>3. CASE R = {} \/ Min(R) = first
    <2>1. NextFirst(last) = last + 1
        BY <1>1, <1>3
    <2> QED
        BY <2>1
<1>4. CASE ~(R = {} \/ Min(R) = first)
    <2>1. NextFirst(last) = Min(R)
        BY <1>1, <1>4
    <2>2. Min(R) \in R
        BY <1>2, <1>4, LeastOf
    <2>3. Min(R) \in first .. last /\ Fit(Min(R)) /\ Min(R) # first
        BY <1>2, <1>4, <2>2
    <2>4. Min(R) \in first + 1 .. last + 1
        BY <2>3
    <2> QED
        BY <2>1, <2>3, <2>4 DEF Fit
<1> QED
    BY <1>3, <1>4

\* What is said of the chunks depends on the draft alone.
LEMMA SameTokens ==
    ASSUME text' = text
    PROVE  \A a, b : TokensIn(a, b)' = TokensIn(a, b) /\ Tokens(a, b)' = Tokens(a, b)
BY DEF TokensIn, Tokens

\* What is made from the text alone does not change while the text does not.
LEMMA SameParagraphs ==
    ASSUME text' = text
    PROVE  Paragraphs' = Paragraphs /\ Whole' = Whole
BY DEF Paragraphs, Whole, Ascending, Span

\* The boundaries of a paragraph are made from the text alone.
LEMMA SameBoundaries ==
    ASSUME text' = text
    PROVE  \A p : /\ Boundaries(p)' = Boundaries(p) /\ LastBoundary(p)' = LastBoundary(p)
                  /\ SentenceEnds(p)' = SentenceEnds(p)
BY DEF Boundaries, LastBoundary, SentenceEnds, AfterSentence, Ascending

\* A round of _split_oversized() depends on the text alone.
LEMMA SameRounds ==
    ASSUME text' = text
    PROVE  \A acc, before, b, end :
               AtBoundary(acc, before, b, end)' = AtBoundary(acc, before, b, end)
BY DEF AtBoundary, Tokens, TokensIn, HardSlices, Ascending, Span, Length

SplitFunction(p, f) == [k \in 0 .. LastBoundary(p) |-> SplitBody(p, f, k)]
SplitRounds(p) == CHOOSE f : f = SplitFunction(p, f)
NotBlank(f, p) ==
    LET pieces == f[LastBoundary(p)].pieces
        notBlank == Ascending({k \in DOMAIN pieces : Length(pieces[k]) > 0})
    IN  [k \in DOMAIN notBlank |-> pieces[notBlank[k]]]

\* The pieces of a paragraph are made from the text alone.
LEMMA SamePieces ==
    ASSUME text' = text, NEW p
    PROVE  SplitOversized(p)' = SplitOversized(p)
<1>1. \A f, k : SplitBody(p, f, k)' = SplitBody(p, f, k)
    BY SameBoundaries, SameRounds, Zenon DEF SplitBody
<1>2. \A f : SplitFunction(p, f)' = SplitFunction(p, f)
    BY <1>1, SameBoundaries DEF SplitFunction
<1>3. SplitRounds(p)' = SplitRounds(p)
    BY <1>2 DEF SplitRounds
<1>4. \A f : NotBlank(f, p)' = NotBlank(f, p)
    BY DEF NotBlank, LastBoundary, SentenceEnds, AfterSentence, Length, Tokens, TokensIn, Ascending
<1>5. SplitOversized(p) = NotBlank(SplitRounds(p), p)
    BY DEF SplitOversized, SplitRounds, SplitFunction, SplitBody, NotBlank
<1>6. SplitOversized(p)' = NotBlank(SplitRounds(p), p)'
    BY DEF SplitOversized, SplitRounds, SplitFunction, SplitBody, NotBlank
<1> QED
    BY <1>3, <1>4, <1>5, <1>6

\* Which pieces come twice depends on the text alone.
LEMMA SameTwice ==
    ASSUME text' = text
    PROVE  PiecesTwice' = PiecesTwice
<1>1. \A p : Length(p)' = Length(p)
    BY DEF Length, Tokens, TokensIn
<1>2. \A p : SplitOversized(p)' = SplitOversized(p)
    BY SamePieces
<1> QED
    BY <1>1, <1>2, SameParagraphs, SameBoundaries DEF PiecesTwice, ToSet

\* What holds of given chunks and units holds as long as the text is the same.
LEMMA SameChunks ==
    ASSUME text' = text
    PROVE  /\ \A s : TokensOf(s)' = TokensOf(s) /\ Length(s)' = Length(s)
           /\ \A cs : Covered(cs)' = Covered(cs)
           /\ \A cs, us : Limited(cs, us)' <=> Limited(cs, us)
           /\ \A cs : Undivided(cs)' <=> Undivided(cs)
           /\ \A us : GoodUnits(us)' <=> GoodUnits(us)
<1>1. \A s : TokensOf(s)' = TokensOf(s) /\ Length(s)' = Length(s)
    BY DEF TokensOf, TokensIn, Length, Tokens
<1>2. \A cs : Covered(cs)' = Covered(cs)
    BY DEF Covered, TokensOf, TokensIn
<1>3. \A cs, us : Limited(cs, us)' <=> Limited(cs, us)
    BY <1>1, SameTwice, SameParagraphs DEF Limited
<1>4. \A cs : Undivided(cs)' <=> Undivided(cs)
    BY <1>1, SameParagraphs DEF Undivided
<1>5. \A us, a, b, twice : Chain(us, a, b, twice)' <=> Chain(us, a, b, twice)
    <2>1. \A u, a, b : IsUnit(u, a, b)' <=> IsUnit(u, a, b)
        BY <1>1 DEF IsUnit
    <2>2. \A u, v, twice : Follows(u, v, twice)' <=> Follows(u, v, twice)
        BY SameTokens DEF Follows
    <2> QED
        BY <2>1, <2>2, SameTokens DEF Chain
<1>6. \A p : Fits(p)' <=> Fits(p)
    BY <1>1, SameParagraphs DEF Fits
<1>7. \A us : GoodUnits(us)' <=> GoodUnits(us)
    BY <1>5, <1>6, SameTwice, SameParagraphs DEF GoodUnits
<1> QED
    BY <1>1, <1>2, <1>3, <1>4, <1>7

\* How far given chunks have packed given units depends on the text alone.
LEMMA SamePacked ==
    ASSUME text' = text
    PROVE  \A cs, us, next : Packed(cs, us, next)' <=> Packed(cs, us, next)
BY SameChunks, SameTokens DEF Packed

-----------------------------------------------------------------------------
(* The inductive invariant.                                                *)

PInv ==
    /\ text \in Drafts /\ pc \in {"chunk", "pack", "done"} /\ chunks \in Seq(Spans)
    /\ InOrder(chunks) /\ Limited(chunks, units) /\ Undivided(chunks)
    /\ pc = "chunk" => chunks = <<>> /\ first = 1
    /\ pc = "pack" => Packed(chunks, units, first)
    /\ pc = "done" => Covered(chunks) = TokensOf(Whole)

\* No chunks, and one.
LEMMA NoChunks ==
    ASSUME NEW us
    PROVE  <<>> \in Seq(Spans) /\ InOrder(<<>>) /\ Limited(<<>>, us) /\ Undivided(<<>>)
<1>1. <<>> \in Seq(Spans) /\ Len(<<>>) = 0 /\ DOMAIN <<>> = {}
    BY EmptySeq
<1>2. \A k : ~(k \in 2 .. 0)
    OBVIOUS
<1> QED
    BY <1>1, <1>2 DEF InOrder, Limited, Undivided

\* The whole draft as the only chunk, when it fits.
LEMMA OneChunk ==
    ASSUME text \in Drafts, Length(Whole) \in 1 .. MaxTokens, NEW us, NEW cs, cs = <<Whole>>
    PROVE  /\ cs \in Seq(Spans) /\ InOrder(cs) /\ Limited(cs, us) /\ Undivided(cs)
           /\ Covered(cs) = TokensOf(Whole)
<1>1. Whole \in Spans /\ Whole.from = 1 /\ Whole.to \in Nat
    BY DraftIs
<1>2. cs \in Seq(Spans) /\ Len(cs) = 1 /\ DOMAIN cs = {1} /\ cs[1] = Whole
    BY <1>1
<1>3. \A k : ~(k \in 2 .. 1)
    OBVIOUS
<1>4. InOrder(cs)
    BY <1>2, <1>3 DEF InOrder
<1>5. Limited(cs, us)
    BY <1>2, <1>3 DEF Limited
<1>6. Covered(cs) = TokensOf(Whole)
    BY <1>2 DEF Covered
<1>7. ASSUME NEW p \in ToSet(Paragraphs) PROVE TokensOf(p) \cap TokensOf(Whole) \in {{}, TokensOf(p)}
    <2>1. PICK k \in 1 .. Len(Paragraphs) : p = Paragraphs[k]
        BY ParagraphsAre DEF ToSet
    <2>2. /\ Paragraphs \in Seq(Spans)
          /\ Paragraphs[k].from >= 1 /\ Paragraphs[k].to <= Whole.to
        BY ParagraphsAre
    <2>3. p \in Spans /\ p.from \in Nat /\ p.to \in Nat
        <3>1. p \in Spans
            BY <2>1, <2>2, ElementOfSeq
        <3> QED
            BY <3>1 DEF Spans
    <2>4. Intact(p, Whole.from, Whole.to)
        BY <1>1, <2>1, <2>2, <2>3 DEF Intact
    <2> QED
        BY <1>1, <2>3, <2>4, IntactTokens
<1>8. Undivided(cs)
    BY <1>2, <1>7 DEF Undivided
<1> QED
    BY <1>2, <1>4, <1>5, <1>6, <1>8

\* A draft has a token: no draft is blank.
LEMMA WholeHasTokens ==
    ASSUME text \in Drafts
    PROVE  Length(Whole) \in Nat \ {0} /\ TokensOf(Whole) # {}
<1>1. /\ Whole \in Spans /\ Whole.from = 1 /\ Whole.to \in Nat /\ Whole.to > 1
      /\ text[1] \in TokenSymbols
    <2>1. /\ Whole \in Spans /\ Whole.from = 1 /\ Whole.to = Len(text) + 1
          /\ Len(text) \in Nat /\ Len(text) > 0 /\ text[1] \in TokenSymbols
        BY DraftIs
    <2> QED
        BY <2>1
<1>2. 1 \in TokensIn(Whole.from, Whole.to)
    <2>1. 1 \in Nat /\ 1 <= 1 /\ 1 < Whole.to
        BY <1>1
    <2> QED
        BY <1>1, <2>1, TokensAre
<1>3. 1 \in Nat
    OBVIOUS
<1> QED
    BY <1>1, <1>2, <1>3, TokensAre DEF TokensOf, Length

\* Nothing is packed yet.
LEMMA InitPInv == Init => PInv
BY NoChunks DEF Init, PInv

\* A draft that fits is packed at once.
LEMMA ChunkWholePInv ==
    ASSUME PInv, ChunkWhole
    PROVE  PInv'
<1>1. text' = text /\ units' = units /\ chunks' = <<Whole>> /\ pc' = "done" /\ text \in Drafts
    BY DEF PInv, ChunkWhole
<1>2. Length(Whole) \in 1 .. MaxTokens
    BY <1>1, WholeHasTokens, Limits DEF ChunkWhole
<1>3. /\ chunks' \in Seq(Spans) /\ InOrder(chunks') /\ Limited(chunks', units')
      /\ Undivided(chunks') /\ Covered(chunks') = TokensOf(Whole)
    BY <1>1, <1>2, OneChunk
<1>4. /\ \A s : TokensOf(s)' = TokensOf(s)
      /\ \A cs : Covered(cs)' = Covered(cs)
      /\ \A cs, us : Limited(cs, us)' <=> Limited(cs, us)
      /\ \A cs : Undivided(cs)' <=> Undivided(cs)
      /\ Whole' = Whole
    BY <1>1, SameChunks, SameParagraphs
<1>5. /\ InOrder(chunks)' /\ Limited(chunks, units)' /\ Undivided(chunks)'
      /\ Covered(chunks)' = TokensOf(Whole)'
    BY <1>3, <1>4 DEF InOrder
<1> QED
    BY <1>1, <1>3, <1>5 DEF PInv

\* The units of the draft are there, and no chunk has been made.
LEMMA BeginPackingPInv ==
    ASSUME PInv, BeginPacking
    PROVE  PInv'
<1>1. /\ text' = text /\ units' = Units /\ chunks' = chunks /\ first' = first /\ pc' = "pack"
      /\ text \in Drafts /\ chunks = <<>> /\ first = 1
    BY DEF PInv, BeginPacking
<1>2. GoodUnits(Units)
    BY <1>1, UnitsAre
<1>3. Units # <<>> /\ Units \in Seq(Spans)
    <2>1. Chain(Units, 1, Whole.to, PiecesTwice)
        BY <1>2 DEF GoodUnits
    <2>2. Units = <<>> => TokensIn(1, Whole.to) = {}
        BY <2>1 DEF Chain
    <2>3. TokensIn(1, Whole.to) # {}
        BY <1>1, WholeHasTokens, DraftIs DEF TokensOf
    <2>4. Units \in Seq(Spans)
        BY <2>1 DEF Chain
    <2> QED
        BY <2>2, <2>3, <2>4
<1> DEFINE us == Units
<1>4. us = units'
    BY <1>1
<1>5. GoodUnits(us) /\ us # <<>> /\ us \in Seq(Spans)
    BY <1>2, <1>3
<1> HIDE DEF us
<1>6. 1 \in 1 .. Len(us)
    <2>1. Len(us) \in Nat /\ Len(us) # 0
        BY <1>5, LenProperties, EmptySeq
    <2> QED
        BY <2>1
<1>7. Packed(<<>>, us, 1)
    <2>1. Len(<<>>) = 0 /\ 0 < 1
        BY EmptySeq
    <2> QED
        BY <1>5, <1>6, <2>1 DEF Packed
<1>8. <<>> \in Seq(Spans) /\ InOrder(<<>>) /\ Limited(<<>>, us) /\ Undivided(<<>>)
    BY NoChunks
<1>9. /\ \A cs, vs, next : Packed(cs, vs, next)' <=> Packed(cs, vs, next)
      /\ \A cs, vs : Limited(cs, vs)' <=> Limited(cs, vs)
      /\ \A cs : Undivided(cs)' <=> Undivided(cs)
    BY <1>1, SameChunks, SamePacked
<1>10. chunks' = <<>> /\ first' = 1 /\ units' = us
    BY <1>1, <1>4
<1>11. InOrder(chunks)' /\ Limited(chunks, units)' /\ Undivided(chunks)' /\ Packed(chunks, units, first)'
    BY <1>7, <1>8, <1>9, <1>10 DEF InOrder
<1> QED
    BY <1>1, <1>8, <1>10, <1>11 DEF PInv

\* What holds of chunks and units holds of them in the next state.
LEMMA PrimedChunks ==
    ASSUME text' = text
    PROVE  \A cs, us, next :
               /\ chunks' = cs => /\ InOrder(chunks)' <=> InOrder(cs)
                                  /\ Undivided(chunks)' <=> Undivided(cs)
                                  /\ Covered(chunks)' = Covered(cs)
               /\ chunks' = cs /\ units' = us => (Limited(chunks, units)' <=> Limited(cs, us))
               /\ chunks' = cs /\ units' = us /\ first' = next =>
                      (Packed(chunks, units, first)' <=> Packed(cs, us, next))
               /\ TokensOf(Whole)' = TokensOf(Whole)
<1>1. /\ \A cs, vs, next : Packed(cs, vs, next)' <=> Packed(cs, vs, next)
      /\ \A cs, vs : Limited(cs, vs)' <=> Limited(cs, vs)
      /\ \A cs : Undivided(cs)' <=> Undivided(cs)
      /\ \A cs : Covered(cs)' = Covered(cs)
      /\ \A s : TokensOf(s)' = TokensOf(s)
      /\ Whole' = Whole
    BY SameChunks, SamePacked, SameParagraphs
<1> TAKE cs, us, next
<1>2. ASSUME chunks' = cs
      PROVE  InOrder(chunks)' <=> InOrder(cs)
    BY <1>2 DEF InOrder
<1>3. ASSUME chunks' = cs
      PROVE  Undivided(chunks)' <=> Undivided(cs)
    <2>1. Undivided(cs)' <=> Undivided(cs)
        BY <1>1
    <2> QED
        BY <1>3, <2>1 DEF Undivided
<1>4. ASSUME chunks' = cs
      PROVE  Covered(chunks)' = Covered(cs)
    <2>1. Covered(cs)' = Covered(cs)
        BY <1>1
    <2> QED
        BY <1>4, <2>1 DEF Covered
<1>5. ASSUME chunks' = cs, units' = us
      PROVE  Limited(chunks, units)' <=> Limited(cs, us)
    <2>1. Limited(cs, us)' <=> Limited(cs, us)
        BY <1>1
    <2> QED
        BY <1>5, <2>1 DEF Limited
<1>6. ASSUME chunks' = cs, units' = us, first' = next
      PROVE  Packed(chunks, units, first)' <=> Packed(cs, us, next)
    <2>1. Packed(cs, us, next)' <=> Packed(cs, us, next)
        BY <1>1
    <2> QED
        BY <1>6, <2>1 DEF Packed
<1>7. TokensOf(Whole)' = TokensOf(Whole)
    BY <1>1 DEF TokensOf
<1> QED
    BY <1>2, <1>3, <1>4, <1>5, <1>6, <1>7

\* A chunk more, and either the draft is packed or the next chunk begins behind the overlap.
LEMMA PackChunkPInv ==
    ASSUME PInv, PackChunk
    PROVE  PInv'
<1> DEFINE n == Len(units)  e == PackedTo  c == Span(units[first].from, units[e].to)
           ds == Append(chunks, c)
<1>1. /\ text' = text /\ units' = units /\ chunks' = ds /\ pc = "pack"
      /\ e = n => pc' = "done" /\ first' = first
      /\ e # n => pc' = pc /\ first' = NextFirst(e)
      /\ text \in Drafts /\ chunks \in Seq(Spans)
      /\ InOrder(chunks) /\ Limited(chunks, units) /\ Undivided(chunks)
      /\ Packed(chunks, units, first)
    BY DEF PInv, PackChunk
<1>2. GoodUnits(units) /\ first \in 1 .. n /\ Len(chunks) < first /\ n \in Nat
    BY <1>1, LenProperties DEF Packed, GoodUnits, Chain
<1>3. /\ e \in first .. n
      /\ \A j \in first + 1 .. e : Tokens(units[first].from, units[j].to) <= TargetTokens
      /\ \A k \in first .. n :
             (\A j \in first + 1 .. k : Tokens(units[first].from, units[j].to) <= TargetTokens)
             => k <= e
    BY <1>2, PackedToIs
<1>4. first \in Nat /\ e \in Nat /\ e \in 1 .. n /\ first <= e /\ e <= n
    BY <1>2, <1>3
<1>5. c = Span(units[first].from, units[e].to) /\ ds = Append(chunks, c)
    OBVIOUS
<1>6. Len(chunks) \in Nat
    BY <1>1, LenProperties
<1> HIDE DEF e, c, ds
<1>7. /\ ds \in Seq(Spans) /\ Len(ds) = Len(chunks) + 1 /\ ds # <<>>
      /\ ds[Len(ds)] = c
      /\ InOrder(ds) /\ Limited(ds, units) /\ Undivided(ds)
      /\ Covered(ds) = TokensIn(1, units[e].to)
    <2>1. Fills(units, first, e)
        BY <1>3 DEF Fills
    <2>3. ds = Append(chunks, Span(units[first].from, units[e].to))
        BY <1>5
    <2>4. c = Span(units[first].from, units[e].to)
        BY <1>5
    <2>5. /\ text \in Drafts /\ chunks \in Seq(Spans)
          /\ InOrder(chunks) /\ Limited(chunks, units) /\ Undivided(chunks)
          /\ Packed(chunks, units, first)
        BY <1>1
    <2>6. ds \in Seq(Spans)
        BY <2>1, <2>3, <2>5, PackKeeps
    <2>7. Len(ds) = Len(chunks) + 1 /\ ds # <<>>
        BY <2>1, <2>3, <2>5, PackKeeps
    <2>8. ds[Len(ds)] = Span(units[first].from, units[e].to)
        BY <2>1, <2>3, <2>5, PackKeeps
    <2>9. InOrder(ds) /\ Limited(ds, units) /\ Undivided(ds)
        BY <2>1, <2>3, <2>5, PackKeeps, Zenon
    <2>10. CoversTo(ds, units[e].to)
        BY <2>1, <2>3, <2>5, PackKeeps, Zenon
    <2> QED
        BY <2>4, <2>6, <2>7, <2>8, <2>9, <2>10 DEF CoversTo
<1>8. chunks' = ds /\ units' = units
    BY <1>1
<1>9. InOrder(chunks)' /\ Limited(chunks, units)' /\ Undivided(chunks)'
    BY <1>1, <1>7, <1>8, PrimedChunks
<1> HIDE DEF n
<1>10. CASE e = n
    <2>1. Chain(units, 1, Whole.to, PiecesTwice)
        BY <1>2 DEF GoodUnits
    <2>2. n > 0 /\ n \in 1 .. n
        BY <1>2, <1>4
    <2>3. units # <<>>
        BY <2>2, EmptySeq DEF n
    <2>4. TokensIn(units[n].to, Whole.to) = {}
        BY <2>1, <2>3 DEF Chain, n
    <2>5. IsUnit(units[n], 1, Whole.to)
        BY <2>1, <2>2 DEF Chain, n
    <2>6. /\ units[n].to \in Nat /\ units[n].to <= Whole.to /\ 1 <= units[n].to
          /\ Whole.to \in Nat /\ Whole.from = 1
        <3>1. /\ units[n].from \in Nat /\ units[n].to \in Nat /\ 1 <= units[n].from
              /\ units[n].from <= units[n].to /\ units[n].to <= Whole.to
            BY <2>5 DEF IsUnit, Spans
        <3>2. Whole.to \in Nat /\ Whole.from = 1
            BY <1>1, DraftIs DEF Spans
        <3> QED
            BY <3>1, <3>2
    <2>7. TokensIn(1, Whole.to) = TokensIn(1, units[n].to) \cup TokensIn(units[n].to, Whole.to)
        <3>1. 1 \in Nat
            OBVIOUS
        <3> QED
            BY <2>6, <3>1, TokensSplit
    <2>8. Covered(ds) = TokensOf(Whole)
        BY <1>7, <1>10, <2>4, <2>6, <2>7 DEF TokensOf
    <2>9. Covered(chunks)' = TokensOf(Whole)'
        BY <1>1, <1>8, <2>8, PrimedChunks
    <2>10. pc' = "done"
        BY <1>1, <1>10
    <2> QED
        BY <1>1, <1>7, <1>9, <2>9, <2>10 DEF PInv
<1>11. CASE e # n
    <2> DEFINE g == NextFirst(e)
    <2>1. /\ g \in first + 1 .. e + 1
          /\ g <= e => Tokens(units[g].from, units[e].to) <= OverlapTokens
        BY <1>4, NextFirstIs
    <2>2. pc' = "pack" /\ first' = g
        BY <1>1, <1>11
    <2> HIDE DEF g
    <2>3. g \in 1 .. n /\ first < g /\ g <= e + 1 /\ Len(ds) < g
        BY <1>2, <1>4, <1>6, <1>7, <1>11, <2>1
    <2>4. Packed(ds, units, g)
        <3>1. first \in 1 .. Len(units) /\ e \in 1 .. Len(units) /\ g \in 1 .. Len(units)
            BY <1>2, <1>4, <2>3 DEF n
        <3>2. \E begin, last \in 1 .. Len(units) :
                 /\ ds[Len(ds)] = Span(units[begin].from, units[last].to)
                 /\ Covered(ds) = TokensIn(1, units[last].to)
                 /\ begin < g /\ begin <= last /\ g <= last + 1
                 /\ g <= last => Tokens(units[g].from, units[last].to) <= OverlapTokens
            BY <1>4, <1>5, <1>7, <2>1, <2>3, <3>1
        <3> QED
            BY <1>2, <1>7, <2>3, <3>1, <3>2 DEF Packed
    <2>5. Packed(chunks, units, first)'
        BY <1>1, <1>8, <2>2, <2>4, PrimedChunks
    <2> QED
        BY <1>1, <1>7, <1>9, <2>2, <2>5 DEF PInv
<1> QED
    BY <1>10, <1>11

\* What changes nothing keeps the invariant.
LEMMA StutterPInv ==
    ASSUME PInv, UNCHANGED vars
    PROVE  PInv'
<1>1. /\ text' = text /\ units' = units /\ chunks' = chunks /\ pc' = pc /\ first' = first
    BY DEF vars
<1>2. /\ InOrder(chunks)' <=> InOrder(chunks)
      /\ Undivided(chunks)' <=> Undivided(chunks)
      /\ Covered(chunks)' = Covered(chunks)
      /\ Limited(chunks, units)' <=> Limited(chunks, units)
      /\ Packed(chunks, units, first)' <=> Packed(chunks, units, first)
      /\ TokensOf(Whole)' = TokensOf(Whole)
    BY <1>1, PrimedChunks
<1> QED
    BY <1>1, <1>2 DEF PInv

\* In every state the chunks made so far cover the units packed so far, and the
\* next one begins behind the overlap: what _pack() keeps, round by round.
THEOREM PackingInvariant == Spec => []PInv
<1>1. PInv /\ [Next]_vars => PInv'
    BY ChunkWholePInv, BeginPackingPInv, PackChunkPInv, StutterPInv DEF Next
<1> QED
    BY <1>1, InitPInv, PTL DEF Spec

\* Whatever the draft and the limits, every word of the draft is in a chunk,
\* and the chunks follow one another: chunk() loses nothing.
THEOREM NothingLost == Spec => []NothingIsLost
<1>1. PInv => NothingIsLost
    BY DEF PInv, NothingIsLost, Covered, InOrder
<1> QED
    BY <1>1, PackingInvariant, PTL

\* Whatever the draft and the limits, chunks keep the maximum, the target
\* and the overlap, save for a piece that comes twice, and packing ends.
THEOREM LimitsRespected == Spec => []ChunksRespectLimits
<1>1. PInv => ChunksRespectLimits
    BY DEF PInv, ChunksRespectLimits, Limited
<1> QED
    BY <1>1, PackingInvariant, PTL

\* Whatever the draft and the limits, no chunk has a part of a paragraph that
\* fits one.
THEOREM ParagraphsWhole == Spec => []ParagraphsStayWhole
<1>1. PInv => ParagraphsStayWhole
    BY DEF PInv, ParagraphsStayWhole, Undivided
<1> QED
    BY <1>1, PackingInvariant, PTL
=============================================================================
