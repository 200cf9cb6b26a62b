--------------------------- MODULE MCRunnerQueue ---------------------------
(* Instances of RunnerQueue for TLC. *)
EXTENDS RunnerQueue, TLC

CONSTANTS j1, j2, j3

MCJobs == {j1, j2, j3}

\* A job without duration (a preprocessing entry, or an empty experiment) and
\* two different positive ones.
MCDuration == j1 :> 0 @@ j2 :> 2 @@ j3 :> 3

=============================================================================
