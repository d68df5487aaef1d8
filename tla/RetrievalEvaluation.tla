-------------------------- MODULE RetrievalEvaluation -------------------------
(***************************************************************************)
(* The measurement of the retrieval (src/src/editorial_team/evaluation/    *)
(* retrieval_runner.py, retrieval_metrics.py): one case, a query with the  *)
(* chunks that answer it, is searched without and with reranking in a      *)
(* store seeded for it; each ranking is scored and compared.               *)
(*                                                                         *)
(* A score is a fraction <<numerator, denominator>>.  The discounts of     *)
(* nDCG are whole numbers that fall as 1 / log2(position + 1) does.        *)
(***************************************************************************)
EXTENDS CorpusSearch

CONSTANTS
    Cases,      \* requests with their golden chunks
    KValues,    \* k_values
    Discount    \* of each position

ASSUME EvaluationAssumption ==
    /\ KValues # {} /\ \A k \in KValues : k \in 1 .. 10 /\ k <= Len(Discount)
    /\ Discount \in Seq(Nat \ {0})
    /\ \A i, j \in DOMAIN Discount : i < j => Discount[i] > Discount[j]
    /\ \A case \in Cases :
           IsRequest(case.request) /\ case.golden \subseteq Chunks /\ IsFiniteSet(case.golden)

VARIABLE report  \* on the last case that was evaluated

evaluationVars == <<vars, report>>

NoReport ==
    [golden |-> {}, on |-> NoSearch, off |-> NoSearch, status |-> "not_applicable"]
EvaluationInit == Init /\ report = NoReport

-----------------------------------------------------------------------------
(* metrics_at_k(), for golden chunks there are.                            *)

\* What the results up to each position are worth, if some positions count.
Gains(positions) ==
    LET gain[n \in Nat] ==
            IF n = 0 THEN 0
            ELSE gain[n - 1] + (IF n \in positions THEN Discount[n] ELSE 0)
    IN  gain

Relevant(predictions, golden, k) ==
    {i \in DOMAIN predictions : i <= k /\ predictions[i] \in golden}
First(positions) == CHOOSE i \in positions : \A j \in positions : i <= j

IdealOfAll(golden, k) ==  \* mutant: as if all golden chunks fitted in k results
    Gains(DOMAIN Discount)[Cardinality(golden)]
Ideal(golden, k) ==
    Gains(DOMAIN Discount)[IF Cardinality(golden) < k THEN Cardinality(golden) ELSE k]

MetricsAtK(predictions, golden, k) ==
    LET relevant == Relevant(predictions, golden, k) IN
    [hit |-> IF relevant = {} THEN 0 ELSE 1,
     precision |-> <<Cardinality(relevant), k>>,
     recall |-> <<Cardinality(relevant), Cardinality(golden)>>,
     mrr |-> IF relevant = {} THEN <<0, 1>> ELSE <<1, First(relevant)>>,
     ndcg |-> <<Gains(relevant)[k], Ideal(golden, k)>>]

-----------------------------------------------------------------------------
(* _run_condition(), _analysis() and _deltas() for one case.               *)

LargestK == CHOOSE k \in KValues : \A j \in KValues : j <= k

\* One search, as deep as the largest k, serves every k.
AsRun(request, rerank) == [request EXCEPT !.topK = LargestK, !.rerank = rerank]

\* The best position of a golden chunk in a ranking; 0 if there is none.
Best(ranking, golden) ==
    LET positions == Relevant(ranking, golden, Len(ranking)) IN
    IF positions = {} THEN 0 ELSE First(positions)
ComesFirst(position, other) ==  \* mutant: a place that is missing is before any other
    position < other
Beats(position, other) == position # 0 /\ (other = 0 \/ position < other)

BranchFindings(dense, bm25) ==
    {finding \in {"dense_above", "bm25_above"} :
        IF finding = "dense_above" THEN Beats(dense, bm25) ELSE Beats(bm25, dense)}

\* The sentences of the report, in short.
Analysis(stages, golden) ==
    LET dense == Best(stages.dense, golden)
        bm25 == Best(stages.bm25, golden)
        rrf == Best(stages.fused, golden)
        final == Best(stages.results, golden)
        branches == BranchFindings(dense, bm25)
                    \cup IF rrf # 0 /\ (dense # 0) # (bm25 # 0) THEN {"one_branch"} ELSE {}
    IN  branches
        \cup (IF golden # {} /\ rrf = 0 THEN {"not_recovered"} ELSE {})
        \cup (IF golden # {} /\ rrf # 0 /\ branches = {} THEN {"both_branches"} ELSE {})
        \cup (IF rrf # 0 /\ final # 0 /\ final < rrf THEN {"promoted"} ELSE {})
        \cup (IF rrf # 0 /\ final # 0 /\ final > rrf THEN {"demoted"} ELSE {})
        \cup (IF golden = {} THEN {"out_of_corpus"} ELSE {})

Row(request, stages, golden) ==
    [request |-> request, stored |-> stored, stages |-> stages,
     metrics |-> IF golden = {} THEN None
                 ELSE [k \in KValues |-> MetricsAtK(stages.results, golden, k)],
     findings |-> Analysis(stages, golden)]

\* Whether reranking has raised nDCG; the ideal is the same in both conditions.
Status(on, off) ==
    IF on.metrics = None THEN "not_applicable"
    ELSE LET with == on.metrics[LargestK].ndcg[1]
             without == off.metrics[LargestK].ndcg[1]
         IN  IF with > without THEN "improved"
             ELSE IF with < without THEN "worsened" ELSE "unchanged"

EvaluateRequest(request, goldens) ==
    LET without == AsRun(request, FALSE)
        with == AsRun(request, TRUE)
    IN  \E plain \in StagesOf(without, stored), reranked \in StagesOf(with, stored) :
            \E golden \in goldens :
                LET off == Row(without, plain, golden)
                    on == Row(with, reranked, golden)
                IN  report' = [golden |-> golden, off |-> off, on |-> on,
                               status |-> Status(on, off)]

Evaluate ==
    /\ \E request \in {case.request : case \in Cases} :
           EvaluateRequest(request, {case.golden : case \in {c \in Cases : c.request = request}})
    /\ last' = NoSearch
    /\ UNCHANGED <<stored, relevance>>

EvaluationNext == \/ Next /\ report' = NoReport
                  \/ Evaluate

EvaluationSpec == EvaluationInit /\ [][EvaluationNext]_evaluationVars

-----------------------------------------------------------------------------
Measured(row) == Answered(row) /\ row.metrics # None

\* The scores at a k are those of the results a caller of search() gets who
\* asks for k: the runner takes them from one deeper search
\* (retrieval_runner.py:130-140).
ScoresAreOfSearches ==
    \A row \in {report.on, report.off} : Measured(row) =>
        \A k \in KValues :
            \A stages \in StagesOf([row.request EXCEPT !.topK = k], row.stored) :
                row.metrics[k] = MetricsAtK(stages.results, report.golden, k)

\* The best result there is: golden chunks first.
Reaches(fraction) == fraction[1] = fraction[2]
IsBest(predictions, golden, k) ==
    \A i \in 1 .. k :
        i <= Cardinality(golden) => i <= Len(predictions) /\ predictions[i] \in golden

\* nDCG lies between nothing and one, is one exactly for the best result there
\* is, a beginning of golden chunks, and nothing exactly when there is no hit;
\* a larger k loses no hit and no recall (retrieval_metrics.py:20-42).
ScoresAreSound ==
    \A row \in {report.on, report.off} : Measured(row) =>
        \A k \in KValues :
            LET score == row.metrics[k] IN
            /\ score.ndcg[1] <= score.ndcg[2]
            /\ Reaches(score.ndcg) <=> IsBest(row.stages.results, report.golden, k)
            /\ (score.hit = 0) <=> (score.ndcg[1] = 0)
            /\ \A j \in KValues : j <= k =>
                   /\ row.metrics[j].hit <= score.hit
                   /\ row.metrics[j].recall[1] <= score.recall[1]

\* A chunk has a better place in the results of a row than in the other's.
PlaceIn(row, chunk) == CHOOSE i \in DOMAIN row.stages.results : row.stages.results[i] = chunk
Raises(row, other, chunk) ==
    /\ chunk \in ToSet(row.stages.results)
    /\ chunk \in ToSet(other.stages.results) => PlaceIn(row, chunk) < PlaceIn(other, chunk)

\* Golden chunks in a ranking, and whether the first of them comes before
\* any in another ranking.
Has(ranking, golden) == ToSet(ranking) \cap golden # {}
IsAhead(ranking, other, golden) ==
    \E i \in DOMAIN ranking :
        ranking[i] \in golden /\ \A k \in DOMAIN other : other[k] \in golden => i < k

\* A branch is said to be ahead exactly when it is; evidence said to come from
\* one branch is all from there, evidence said to be in both is in both,
\* neither ahead.
BranchesAreTold(findings, stages, golden) ==
    LET evidence == ToSet(stages.fused) \cap golden IN
    /\ "dense_above" \in findings <=> IsAhead(stages.dense, stages.bm25, golden)
    /\ "bm25_above" \in findings <=> IsAhead(stages.bm25, stages.dense, golden)
    /\ "one_branch" \in findings =>
           /\ evidence # {}
           /\ \/ evidence \subseteq ToSet(stages.dense) \ ToSet(stages.bm25)
              \/ evidence \subseteq ToSet(stages.bm25) \ ToSet(stages.dense)
    /\ "both_branches" \in findings =>
           /\ Has(stages.dense, golden) /\ Has(stages.bm25, golden) /\ evidence # {}
           /\ ~IsAhead(stages.dense, stages.bm25, golden)
           /\ ~IsAhead(stages.bm25, stages.dense, golden)

\* Where no stage is said to have recovered any, fusion and the results have
\* not, and no branch has either, unless the fused ranking is full of other
\* chunks: there the sentence (retrieval_runner.py:203) may be false of a
\* branch, beside one that says this branch is ahead (README, section 5).
\* A first golden chunk said to be promoted or demoted has moved, and is only
\* moved by reranking or, what the sentence does not say, a preference for
\* recent chunks.
OutcomeIsTold(findings, request, stages, golden) ==
    /\ "not_recovered" \in findings =>
           /\ ~Has(stages.fused, golden) /\ ~Has(stages.results, golden)
           /\ Has(stages.dense, golden) \/ Has(stages.bm25, golden) =>
                  Len(stages.fused) = FusedDepth
    /\ "promoted" \in findings => IsAhead(stages.results, stages.fused, golden)
    /\ "demoted" \in findings =>
           Has(stages.results, golden) /\ IsAhead(stages.fused, stages.results, golden)
    /\ {"promoted", "demoted"} \cap findings # {} => request.rerank \/ request.preferRecent
    /\ findings # {}

\* What the report says of a case is what its rankings show.  Reranking that is
\* said to improve a case has raised one of its golden chunks or found one
\* more; where it is said to worsen it, the search without it has
\* (retrieval_runner.py:187-215, 237-259).
FindingsMatchRankings ==
    /\ report.status = "improved" =>
           \E chunk \in report.golden : Raises(report.on, report.off, chunk)
    /\ report.status = "worsened" =>
           \E chunk \in report.golden : Raises(report.off, report.on, chunk)
    /\ \A row \in {report.on, report.off} : Answered(row) =>
           /\ BranchesAreTold(row.findings, row.stages, report.golden)
           /\ OutcomeIsTold(row.findings, row.request, row.stages, report.golden)
=============================================================================
