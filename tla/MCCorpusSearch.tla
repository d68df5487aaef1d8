-------------------------- MODULE MCCorpusSearch ----------------------------
(* Runs for TLC: three chunks of the conversation that asks, two of them   *)
(* of one artifact, and one of another conversation that fits any query.   *)
EXTENDS CorpusSearch

MCArtifacts == {{1, 3}, {2}, {4}}
MCConvOf == <<"a", "a", "a", "b">>
MCTimeOf == <<3, 4, 3, 3>>

\* Every weak order of the chunks of the conversation in both rankings.
Orders ==
    {s \in [Chunks -> 0 .. 2] :
        /\ s[4] = 2
        /\ \A c \in 1 .. 3 : s[c] > 0 => \E d \in 1 .. 3 : s[d] = s[c] - 1}
MCRelevances ==
    [dense : Orders, bm25 : Orders, cross : {<<0, 0, 0, 2>>, <<0, 1, 2, 2>>}]

Request(from, to, preferRecent, topK, rerank) ==
    [conv |-> "a", from |-> from, to |-> to, preferRecent |-> preferRecent,
     topK |-> topK, rerank |-> rerank]

\* The bound 2 is a whole second, half a second before chunks 1 and 3.
MCRequests ==
    {Request(None, None, FALSE, k, FALSE) : k \in {1, 3}}
    \cup {Request(None, None, TRUE, k, TRUE) : k \in {1, 2}}
    \cup {Request(None, None, TRUE, 3, FALSE),
          Request(2, None, FALSE, 3, FALSE), Request(None, 2, FALSE, 3, FALSE)}
=============================================================================
