-------------------------- MODULE MCWorkflowRuntime --------------------------
(* Instances of WorkflowRuntime small enough for TLC. *)
EXTENDS WorkflowRuntime, TLC

CONSTANTS s1, s2, s3

\* A drafting step behind the red line, the publishing step paired with it, and an
\* independent step that runs beside them.
GateDep == s1 :> {} @@ s2 :> {s1} @@ s3 :> {}

\* A chain.
PairDep == s1 :> {} @@ s2 :> {s1}

WorkerSymmetry == Permutations(Worker)
=============================================================================
