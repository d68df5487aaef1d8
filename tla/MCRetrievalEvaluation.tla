------------------------ MODULE MCRetrievalEvaluation -------------------------
(* Instances of RetrievalEvaluation for TLC, on the chunks and the         *)
(* searches of MCCorpusSearch.                                             *)
EXTENDS RetrievalEvaluation, MCCorpusSearch

\* No golden chunk, one, and two in scope beside one that is not, with and
\* without a preference for recent chunks.
MCCases ==
    {[request |-> Request(None, None, preferRecent, 1, FALSE), golden |-> golden] :
        preferRecent \in BOOLEAN, golden \in {{}, {1}, {2, 3, 4}}}

\* 1000 / log2(i + 1)
MCDiscount == <<1000, 631, 500>>
=============================================================================
