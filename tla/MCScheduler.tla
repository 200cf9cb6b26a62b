---------------------------- MODULE MCScheduler ----------------------------
(***************************************************************************)
(* Two bookings, the second of which begins when the first ends, and two   *)
(* jobs: one of the first booker, one of somebody else.                    *)
(***************************************************************************)
EXTENDS Scheduler

CONSTANTS b1, b2, alice, bob, j1, j2

MCStartUtc == b1 :> 1 @@ b2 :> 3
MCEndUtc == b1 :> 3 @@ b2 :> 4

\* The second booking leaves time between the two.
MCLaterStart == b1 :> 1 @@ b2 :> 5
MCLaterEnd == b1 :> 3 @@ b2 :> 6

MCBooker == b1 :> alice @@ b2 :> bob
MCDuration == j1 :> 1 @@ j2 :> 1
MCOwner == j1 :> alice @@ j2 :> bob

=============================================================================
