--------------------------- MODULE ArtifactLedger ---------------------------
(***************************************************************************)
(* What the artifact store promises (README.md:385-396): the outputs of a  *)
(* run are saved together or not at all, never change, and saving the same *)
(* run again changes nothing.                                              *)
(***************************************************************************)
EXTENDS FiniteSets

CONSTANT Runs  \* non-empty sets of artifacts [task, producer, conv, content]

VARIABLE artifacts

Init == artifacts = {}

StoredRun(task) == {a \in artifacts : a.task = task}

\* A run conflicts with other outputs stored for its task.
Conflicts(run) ==
    \E a \in run : StoredRun(a.task) \notin {{}, run}

Save(run) ==
    /\ ~Conflicts(run)
    /\ artifacts' = artifacts \cup run

Next == \E run \in Runs : Save(run)

Spec == Init /\ [][Next]_artifacts
=============================================================================
