----------------------------- MODULE MCBookings -----------------------------
(* Instances of Bookings for TLC.  Users are interchangeable, and so are     *)
(* booking ids.                                                              *)
EXTENDS Bookings, TLC

Symmetry == Permutations(Users) \cup Permutations(Ids)

=============================================================================
