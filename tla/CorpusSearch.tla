---------------------------- MODULE CorpusSearch -----------------------------
(***************************************************************************)
(* Hybrid retrieval (src/src/editorial_team/artifacts/retrieval.py,        *)
(* fusion.py, lexical.py) over the chunks that list_searchable_chunks() of *)
(* store.py finds, while other processes go on saving artifacts.           *)
(*                                                                         *)
(* Embeddings, BM25 and the reranker are the orders they put chunks in:    *)
(* any scores, ties included.  A chunk is its identifier, a number: the    *)
(* order of the hashes that break ties.  The vector cache, whose keys hold *)
(* everything a vector depends on, does not show in any result.            *)
(***************************************************************************)
EXTENDS Integers, Sequences, FiniteSets, SequencesExt

CONSTANTS
    Artifacts,    \* each a set of chunks: what one statement of the store adds
    ConvOf,       \* the conversation of each chunk
    TimeOf,       \* created_at of each chunk, in half seconds
    Relevances,   \* dense, bm25 and cross-encoder scores the chunks may have
    Requests,     \* searches that may be asked for
    DenseDepth, BM25Depth, FusedDepth, RerankDepth, RRFK,
    None

Chunks == UNION Artifacts

\* HybridRetriever.__init__()
DepthsAreValid ==
    /\ {DenseDepth, BM25Depth, FusedDepth, RerankDepth, RRFK} \subseteq Nat \ {0}
    /\ RerankDepth <= FusedDepth

\* Chunks of no two artifacts are the same.
ASSUME DepthAssumption == DepthsAreValid
ASSUME ArtifactAssumption ==
    /\ Chunks \subseteq Nat
    /\ \A a \in Artifacts : IsFiniteSet(a)
    /\ \A a, b \in Artifacts : a # b => a \cap b = {}
    /\ TimeOf \in [Chunks -> Nat]

ASSUME RelevanceAssumption ==
    \A r \in Relevances : {r.dense, r.bm25, r.cross} \subseteq [Chunks -> Int]

\* SearchRequest.__post_init__()
IsRequest(request) ==
    /\ DOMAIN request = {"conv", "from", "to", "preferRecent", "topK", "rerank"}
    /\ {request.from, request.to} \subseteq Nat \cup {None}
    /\ request.from # None /\ request.to # None => request.from <= request.to
    /\ {request.preferRecent, request.rerank} \subseteq BOOLEAN
    /\ request.topK \in 1 .. 10

ASSUME RequestAssumption == \A request \in Requests : IsRequest(request)

VARIABLES
    stored,     \* chunks in the store
    relevance,  \* the scores they have
    last        \* the last search: its request, the store it saw, its stages

vars == <<stored, relevance, last>>

NoSearch == [request |-> None, stored |-> {}, stages |-> None]

Init ==
    /\ stored = {}
    /\ relevance \in Relevances
    /\ last = NoSearch

Save ==
    \E a \in Artifacts :
        /\ ~(a \subseteq stored)
        /\ stored' = stored \cup a
        /\ UNCHANGED <<relevance, last>>

\* timestamp_to_json() writes no fraction when it is zero, and the bounds are
\* compared as text: ".500000Z" comes before "Z".
AsText(t) == 2 * (t \div 2) + (1 - (t % 2))

EligibleAnywhere(request, chunks) ==  \* mutant: the corpus of all conversations
    {c \in chunks :
        /\ request.from # None => AsText(TimeOf[c]) >= AsText(request.from)
        /\ request.to # None => AsText(TimeOf[c]) <= AsText(request.to)}

\* list_searchable_chunks()
Eligible(request, chunks) ==
    {c \in chunks :
        /\ ConvOf[c] = request.conv
        /\ request.from # None => AsText(TimeOf[c]) >= AsText(request.from)
        /\ request.to # None => AsText(TimeOf[c]) <= AsText(request.to)}

\* Tuples, as sort keys, are compared from left to right.
Before(key, other) ==
    \E i \in DOMAIN key : key[i] < other[i] /\ \A k \in 1 .. i - 1 : key[k] = other[k]

\* sorted() leaves what its key does not order as it found it, and a set is
\* found in any order: every arrangement of S that respects the key.
Sorted(S, key(_)) ==
    {s \in SetToSeqs(S) : \A i, k \in DOMAIN s : i < k => ~Before(key(s[k]), key(s[i]))}
Top(s, depth) == SubSeq(s, 1, IF Len(s) < depth THEN Len(s) ELSE depth)
Rank(ranking, c) == CHOOSE i \in DOMAIN ranking : ranking[i] = c

DenseKey(c) == <<-relevance.dense[c], c>>
BM25Key(c) == <<-relevance.bm25[c], c>>

\* 1 / (k + rank), over a common denominator.
Denominator[rank \in Nat] == IF rank = 0 THEN 1 ELSE (RRFK + rank) * Denominator[rank - 1]
Reciprocal(rank) ==
    Denominator[IF DenseDepth > BM25Depth THEN DenseDepth ELSE BM25Depth] \div (RRFK + rank)

LastForAbsent(ranking, c) ==  \* mutant: a chunk not in the ranking has rank 0
    Reciprocal(IF c \in ToSet(ranking) THEN Rank(ranking, c) ELSE 0)

\* What a ranking adds to the score of a chunk.
Contribution(ranking, c) ==
    IF c \in ToSet(ranking) THEN Reciprocal(Rank(ranking, c)) ELSE 0

\* reciprocal_rank_fusion()
RRFScore(dense, bm25, c) == Contribution(dense, c) + Contribution(bm25, c)

FusedKeyOfScore(dense, bm25, c) ==  \* mutant: ties are left as they are found
    <<-RRFScore(dense, bm25, c)>>
FusedKey(dense, bm25, c) == <<-RRFScore(dense, bm25, c), c>>

\* order() of _finalize()
FinalKey(request, dense, bm25, c) ==
    <<IF request.rerank THEN -relevance.cross[c] ELSE -RRFScore(dense, bm25, c),
      -RRFScore(dense, bm25, c),
      IF request.preferRecent THEN -TimeOf[c] ELSE 0,
      c>>

Remember(request, stages) ==
    last' = [request |-> request, stored |-> stored, stages |-> stages]

FewCandidates(request, fused) ==  \* mutant: no more are reranked than are asked for
    IF request.rerank THEN Top(Top(fused, RerankDepth), request.topK) ELSE fused
Candidates(request, fused) == IF request.rerank THEN Top(fused, RerankDepth) ELSE fused

\* The rankings there may be: both branches fused, and the final order.
FusedRankings(dense, bm25) ==
    LET key(c) == FusedKey(dense, bm25, c)
    IN  Sorted(ToSet(dense) \cup ToSet(bm25), key)
FinalRankings(request, dense, bm25, fused) ==
    LET key(c) == FinalKey(request, dense, bm25, c)
    IN  Sorted(ToSet(Candidates(request, fused)), key)

StagesFrom(request, dense, bm25) ==
    UNION {{[dense |-> dense, bm25 |-> bm25, fused |-> Top(all, FusedDepth),
             results |-> Top(final, request.topK)] :
               final \in FinalRankings(request, dense, bm25, Top(all, FusedDepth))} :
           all \in FusedRankings(dense, bm25)}

\* search_with_stages(), on the chunks of a store; an empty corpus makes empty
\* stages.
StagesOf(request, chunks) ==
    LET corpus == Eligible(request, chunks)
    IN  UNION {StagesFrom(request, Top(dense, DenseDepth), Top(bm25, BM25Depth)) :
                   dense \in Sorted(corpus, DenseKey), bm25 \in Sorted(corpus, BM25Key)}

Search ==
    /\ \E request \in Requests :
           \E stages \in StagesOf(request, stored) : Remember(request, stages)
    /\ UNCHANGED <<stored, relevance>>

\* The query of the database, the embeddings or the reranker fail: an error.
SearchFails ==
    /\ last' = NoSearch
    /\ UNCHANGED <<stored, relevance>>

Next == Save \/ Search \/ SearchFails

Spec == Init /\ [][Next]_vars
-----------------------------------------------------------------------------
Answered(search) == search.stages # None
Seen(search) == ToSet(search.stages.dense) \cup ToSet(search.stages.bm25)

\* Whatever a stage ranked is of the conversation that asked, and within its
\* time bounds, give or take less than a second; the results are distinct,
\* were fused, and are no more than asked for (README.md:443-445).
ResultsInScope ==
    Answered(last) =>
        LET request == last.request
            results == last.stages.results
        IN  /\ \A c \in Seen(last) :
                   /\ ConvOf[c] = request.conv
                   /\ request.from # None => TimeOf[c] > request.from - 2
                   /\ request.to # None => TimeOf[c] < request.to + 2
            /\ ToSet(results) \subseteq ToSet(last.stages.fused) \cap last.stored
            /\ Cardinality(ToSet(results)) = Len(results)
            /\ Len(results) <= request.topK

\* Without reranking, a chunk that both rankings place before another one is
\* before it in the results, whatever the depths cut off: there is no other
\* in them without it (fusion.py:24-70).
Precedes(results, c, d) ==
    c \in ToSet(results) /\ Rank(results, c) < Rank(results, d)
BetterInBothComesFirst ==
    Answered(last) /\ ~last.request.rerank =>
        \A d \in ToSet(last.stages.results), c \in Eligible(last.request, last.stored) :
            /\ Before(DenseKey(c), DenseKey(d)) /\ Before(BM25Key(c), BM25Key(d))
            => Precedes(last.stages.results, c, d)

\* The same search of the same store has the same answer, of which a smaller
\* top_k is the beginning, in whatever order sets and rows are found.
SameSearch(search, other) ==
    /\ search.stored = other.stored
    /\ [search.request EXCEPT !.topK = 0] = [other.request EXCEPT !.topK = 0]
SearchIsDeterministic ==
    [][Answered(last) /\ Answered(last') /\ SameSearch(last, last') =>
               \/ IsPrefix(last.stages.results, last'.stages.results)
               \/ IsPrefix(last'.stages.results, last.stages.results)]_vars

\* "inclusive UTC created_from and created_to filters" (README.md:443-444):
\* the dense ranking, when its depth cuts nothing off, has exactly the chunks
\* of the conversation that were created within the bounds.
InWindow(request, t) ==
    /\ request.from # None => t >= request.from
    /\ request.to # None => t <= request.to
WindowIsInclusive ==
    Answered(last) =>
        LET corpus == {c \in last.stored : /\ ConvOf[c] = last.request.conv
                                           /\ InWindow(last.request, TimeOf[c])}
        IN  Len(last.stages.dense) < DenseDepth => ToSet(last.stages.dense) = corpus
=============================================================================
