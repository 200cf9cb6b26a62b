---------------------------- MODULE MCCollection ----------------------------
(* Instances of Collection for TLC.  Three statuses: one to start from and   *)
(* one for each of two concurrent updates.                                   *)
EXTENDS Collection, TLC

CONSTANTS pending, executing, cancelled

MCStatuses == {pending, executing, cancelled}

\* The statuses other than the first one are interchangeable.
Symmetry == Permutations({executing, cancelled})

=============================================================================
