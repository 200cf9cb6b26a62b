----------------------------- MODULE MCWaitlist -----------------------------
(* Instances of Waitlist for TLC. *)
EXTENDS Waitlist, TLC

CONSTANTS j1, j2, j3

MCJobs == {j1, j2, j3}

\* Two equal durations, so that order is what tells the jobs apart, and a longer one.
MCDuration == j1 :> 1 @@ j2 :> 1 @@ j3 :> 2

=============================================================================
