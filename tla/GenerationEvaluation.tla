------------------------- MODULE GenerationEvaluation -------------------------
(***************************************************************************)
(* The measurement of answers that are generated from retrieved chunks     *)
(* (src/src/editorial_team/evaluation/generation_runner.py and             *)
(* generation_cache.py): every case with reranking, some once more without *)
(* it; the scores of a judge, kept in a file across evaluations; and the   *)
(* comparison of the two.                                                  *)
(*                                                                         *)
(* Generator and judge are language models: any answer, any score, or an   *)
(* exception, which ends the evaluation.  What is retrieved depends on the *)
(* case and on reranking alone.                                            *)
(***************************************************************************)
EXTENDS Integers, Sequences, FiniteSets, Functions

CONSTANTS
    CaseCount,     \* cases are numbered in their order
    Compared,      \* those with compare_rerank_off
    MetricCount,   \* of GenerationMetric
    Contexts,      \* what may be retrieved for a case
    Answers,
    MaxScore,      \* scores are counted in steps from 0
    MaxEvaluations \* bound: evaluations on one file

VARIABLES
    retrieved,    \* contexts for each case, by condition
    condition,    \* that is being measured, "none" before and after
    rows,         \* scores of each case measured, by condition
    answer,       \* the answer to the next case
    scores,       \* its scores, metric after metric
    cache,        \* the file of the judge cache: scores by key
    comparison,   \* cases improved, worsened and unchanged
    evaluations   \* evaluations begun

vars == <<retrieved, condition, rows, answer, scores, cache, comparison, evaluations>>

Conditions == {"on", "off"}
NoAnswer == "none"
NoComparison == [improved |-> {}, worsened |-> {}, unchanged |-> {}]
NoRows == [c \in Conditions |-> <<>>]

Init ==
    /\ retrieved \in [Conditions -> [1 .. CaseCount -> Contexts]]
    /\ condition = "none"
    /\ rows = NoRows
    /\ answer = NoAnswer /\ scores = <<>>
    /\ cache = <<>>
    /\ comparison = NoComparison
    /\ evaluations = 0

-----------------------------------------------------------------------------
\* The cases of a condition, in their order.
CasesOf(c) ==
    SelectSeq([i \in 1 .. CaseCount |-> i], LAMBDA i : c = "on" \/ i \in Compared)

IsMeasured(c) == Len(rows[c]) = Len(CasesOf(c))
Case == CasesOf(condition)[Len(rows[condition]) + 1]

\* run_generation_evaluation(); JudgeCache loads the file.
Begin ==
    /\ condition = "none" /\ evaluations < MaxEvaluations
    /\ condition' = "on"
    /\ rows' = NoRows
    /\ comparison' = NoComparison
    /\ evaluations' = evaluations + 1
    /\ UNCHANGED <<retrieved, answer, scores, cache>>

Generate ==
    /\ condition # "none" /\ ~IsMeasured(condition) /\ answer = NoAnswer
    /\ answer' \in Answers
    /\ UNCHANGED <<retrieved, condition, rows, scores, cache, comparison, evaluations>>

\* cache_key(): what is judged, never the condition.
Key == <<Case, Len(scores) + 1, retrieved[condition][Case], answer>>

Put(score) == cache' = [key \in DOMAIN cache \cup {Key} |-> IF key = Key THEN score ELSE cache[key]]

Judge ==
    /\ answer # NoAnswer /\ Len(scores) < MetricCount
    /\ \/ /\ Key \in DOMAIN cache
          /\ scores' = Append(scores, cache[Key])
          /\ UNCHANGED cache
       \/ /\ Key \notin DOMAIN cache
          /\ \E score \in 0 .. MaxScore : scores' = Append(scores, score) /\ Put(score)
    /\ UNCHANGED <<retrieved, condition, rows, answer, comparison, evaluations>>

EndCase ==
    /\ Len(scores) = MetricCount
    /\ rows' = [rows EXCEPT ![condition] = Append(@, scores)]
    /\ answer' = NoAnswer /\ scores' = <<>>
    /\ UNCHANGED <<retrieved, condition, cache, comparison, evaluations>>

Switch ==
    /\ condition = "on" /\ IsMeasured("on")
    /\ condition' = "off"
    /\ UNCHANGED <<retrieved, rows, answer, scores, cache, comparison, evaluations>>

\* The row of a case in a condition, and the sum of its scores: the means
\* the code takes are over the same metrics.
RowOf(c, case) == rows[c][CHOOSE i \in DOMAIN rows[c] : CasesOf(c)[i] = case]
Total(c, case) == FoldFunction(+, 0, RowOf(c, case))
Delta(case) == Total("off", case) - Total("on", case)

\* _comparison()
Compare ==
    /\ condition = "off" /\ IsMeasured("off")
    /\ comparison' = [improved |-> {case \in Compared : Delta(case) > 0},
                      worsened |-> {case \in Compared : Delta(case) < 0},
                      unchanged |-> {case \in Compared : Delta(case) = 0}]
    /\ condition' = "none"
    /\ UNCHANGED <<retrieved, rows, answer, scores, cache, evaluations>>

\* A model raises, or the process ends; if it does while put() writes the
\* file, that cannot be read any more, and counts as empty.
Abort ==
    /\ condition # "none"
    /\ condition' = "none"
    /\ rows' = NoRows
    /\ answer' = NoAnswer /\ scores' = <<>>
    /\ \/ UNCHANGED cache
       \/ /\ answer # NoAnswer /\ Len(scores) < MetricCount /\ Key \notin DOMAIN cache
          /\ cache' = <<>>
    /\ UNCHANGED <<retrieved, comparison, evaluations>>

Next == Begin \/ Generate \/ Judge \/ EndCase \/ Switch \/ Compare \/ Abort

Spec == Init /\ [][Next]_vars

-----------------------------------------------------------------------------
\* The cases under "Reranking comparison" (generation_reporting.py:48-52) are
\* those that reranking has improved or worsened, as src/README.md:711-713
\* reads them: their scores with it are above, or below, those without.  The
\* runner subtracts the other way round (generation_runner.py:226-228).
ImprovedByReranking ==
    /\ \A case \in comparison.improved : Total("on", case) > Total("off", case)
    /\ \A case \in comparison.worsened : Total("on", case) < Total("off", case)
=============================================================================
