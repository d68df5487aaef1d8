--------------------------- MODULE MCArtifactStore --------------------------
(* Runs for TLC: for one task, runs of the Writer alone and runs with the  *)
(* Editor whose texts differ here and there; for another task, one run.    *)
EXTENDS ArtifactStore

Artifact(task, producer, text) ==
    [task |-> task, producer |-> producer, conv |-> "chat", content |-> text]

MCRuns ==
    {{Artifact("k1", "writer", x)} : x \in {"x", "y"}}
    \cup {{Artifact("k1", "writer", "x"), Artifact("k1", "editor", y)} : y \in {"x", "y"}}
    \cup {{Artifact("k2", "writer", "x"), Artifact("k2", "editor", "x")}}
=============================================================================
