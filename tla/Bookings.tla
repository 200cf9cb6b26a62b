------------------------------ MODULE Bookings ------------------------------
(***************************************************************************)
(* The booking service (app/services/booking) as the API drives it: users  *)
(* and the time slots they book on the one backend, kept in SQLite.  The   *)
(* handlers of the API never await between their queries, so a request is  *)
(* one step.  Time is discrete; the length of a day is a parameter.        *)
(*                                                                         *)
(* The scheduled events of a booking belong to the scheduler and are not   *)
(* modelled here.                                                          *)
(***************************************************************************)
EXTENDS Integers, FiniteSets

CONSTANTS
  Users,        \* the user ids that MSS may send
  Ids,          \* the booking ids (fresh uuids, so this bounds the bookings)
  MinSlot,      \* MIN_TIME_SLOT_LENGTH
  MaxSlot,      \* MAX_TIME_SLOT_LENGTH
  SlotsPerDay,  \* MAX_SLOTS_PER_DAY
  DayLength,    \* the time units of a day
  Grace,        \* how far in the past start_utc may be (one second in the code)
  Horizon       \* bound on the clock and on the end of a booking

ASSUME SettingsAssumption ==
  /\ MinSlot \in Nat
  /\ MaxSlot \in Nat
  /\ SlotsPerDay \in Nat
  /\ DayLength \in Nat \ {0}
  /\ Grace \in Nat
  /\ Horizon \in Nat

VARIABLES
  now,       \* get_utc_now()
  users,     \* the ids in the user table
  bookings,  \* the rows of the booking table
  used       \* the booking ids given out so far

vars == <<now, users, bookings, used>>

Booking ==
  {b \in [id : Ids, user : Users, start : 0..Horizon, end : 0..Horizon] :
     b.end - b.start \in MinSlot..MaxSlot}

TypeOK ==
  /\ now \in 0..Horizon
  /\ users \in SUBSET Users
  /\ bookings \in SUBSET Booking
  /\ used \in SUBSET Ids

Init ==
  /\ now = 0
  /\ users = {}
  /\ bookings = {}
  /\ used = {}

-----------------------------------------------------------------------------
(* Queries.                                                                *)

IsActive(b) == b.start <= now /\ now <= b.end
IsComplete(b) == b.end < now

FaultOverlapping(s, e) == {b \in bookings : b.start < e /\ b.start >= s}

\* _get_overlapping_bookings
Overlapping(s, e) == {b \in bookings : b.start < e /\ b.end > s}

\* _validate_no_overlap
ValidateNoOverlap(s, e) == Overlapping(s, e) = {}

\* get_day_range: the first instant of the day of t; the day ends DayLength later.
DayStart(t) == t - (t % DayLength)

\* The bookings that get_active_booking may return: it takes the first row.
ActiveBookings == {b \in bookings : IsActive(b)}

\* The bookings that get_next_booking may return: the earliest that starts now or later.
NextBookings ==
  {b \in bookings : /\ b.start >= now
                    /\ \A c \in bookings : c.start >= now => b.start <= c.start}

FaultValidSlot(s, e) ==
  /\ s >= now - Grace
  /\ e >= s
  /\ e >= now - Grace
  /\ e - s <= MaxSlot

\* NewBookingInfo: the checks on the request itself.
ValidSlot(s, e) ==
  /\ s >= now - Grace
  /\ e >= s
  /\ e >= now - Grace
  /\ e - s <= MaxSlot
  /\ e - s >= MinSlot

FaultValidateMaxSlots(u, s) ==
  Cardinality({b \in Overlapping(DayStart(s), DayStart(s) + DayLength) :
                 b.user = u}) <= SlotsPerDay

\* _validate_max_slots: bookings of the user that touch the day of the new start.
ValidateMaxSlots(u, s) ==
  Cardinality({b \in Overlapping(DayStart(s), DayStart(s) + DayLength) :
                 b.user = u}) < SlotsPerDay

-----------------------------------------------------------------------------
(* Requests.                                                               *)

\* The API looks the user up and creates it when it is unknown.
EnsureUser(u) == users' = users \cup {u}

\* POST /bookings: the user is there afterwards, also when the booking is
\* refused with a conflict or for exceeding the daily maximum.
CreateBooking(u, id, s, e) ==
  /\ ValidSlot(s, e)
  /\ EnsureUser(u)
  /\ \/ /\ id \notin used
        /\ ValidateNoOverlap(s, e)
        /\ ValidateMaxSlots(u, s)
        /\ bookings' = bookings \cup
             {[id |-> id, user |-> u, start |-> s, end |-> e]}
        /\ used' = used \cup {id}
     \/ /\ ~ ValidateNoOverlap(s, e) \/ ~ ValidateMaxSlots(u, s)
        /\ UNCHANGED <<bookings, used>>
  /\ UNCHANGED now

FaultCancelBooking(u, b, admin) ==
  /\ u \in users
  /\ b \in bookings
  /\ b.user = u \/ admin
  /\ ~ IsComplete(b)
  /\ bookings' = bookings \ {b}
  /\ UNCHANGED <<now, users, used>>

\* POST /bookings/{id}/cancel, by the owner or an admin.
CancelBooking(u, b, admin) ==
  /\ u \in users
  /\ b \in bookings
  /\ b.user = u \/ admin
  /\ ~ IsActive(b)
  /\ ~ IsComplete(b)
  /\ bookings' = bookings \ {b}
  /\ UNCHANGED <<now, users, used>>

\* POST /users, and POST /token for an unknown user.
CreateUser(u) ==
  /\ u \notin users
  /\ users' = users \cup {u}
  /\ UNCHANGED <<now, bookings, used>>

FaultDeleteUserProfile(u) ==
  /\ u \in users
  /\ bookings' = {b \in bookings : ~ (b.user = u /\ b.start > now)}
  /\ users' = users \ {u}
  /\ UNCHANGED <<now, used>>

\* DELETE /me and DELETE /users/{id}: bookings that are not over are deleted
\* with the user, those of the past stay.
DeleteUserProfile(u) ==
  /\ u \in users
  /\ bookings' = {b \in bookings : ~ (b.user = u /\ b.end > now)}
  /\ users' = users \ {u}
  /\ UNCHANGED <<now, used>>

Tick ==
  /\ now < Horizon
  /\ now' = now + 1
  /\ UNCHANGED <<users, bookings, used>>

Next ==
  \/ \E u \in Users, id \in Ids, s, e \in 0..Horizon : CreateBooking(u, id, s, e)
  \/ \E u \in Users, b \in bookings, admin \in BOOLEAN : CancelBooking(u, b, admin)
  \/ \E u \in Users : CreateUser(u) \/ DeleteUserProfile(u)
  \/ Tick

Spec == Init /\ [][Next]_vars

-----------------------------------------------------------------------------
(* Properties.                                                             *)

\* The backend is never booked twice for the same time.  Slots may touch.
NoOverlap ==
  \A a, b \in bookings : a # b => a.end <= b.start \/ b.end <= a.start

\* No user has more than SlotsPerDay bookings that start on the same day, in
\* whatever order they were made and whatever was cancelled in between.
StartsPerDay(u, d) == {b \in bookings : b.user = u /\ DayStart(b.start) = d}

SlotLimit ==
  \A u \in Users, b \in bookings :
    Cardinality(StartsPerDay(u, DayStart(b.start))) <= SlotsPerDay

\* Two bookings are active at once only at the instant where one hands over to
\* the other; get_active_booking may then return either of them.
ActiveOnlyAmbiguousAtHandover ==
  \A a, b \in ActiveBookings :
    a # b => (a.end = now /\ b.start = now) \/ (b.end = now /\ a.start = now)

\* A booking that is not over always has an owner in the user table, so the
\* queries that join on it, and the booker test of the scheduler, are meaningful.
UnfinishedBookingsHaveOwner ==
  \A b \in bookings : b.end > now => b.user \in users

\* A slot that has begun is never taken away, except together with its owner's
\* account: "If the booking has already started, canceling fails" (service.py:132).
\* The documentation says otherwise: "User can delete their own booking as long as it
\* has not yet expired" (booking_and_queuing.md:15).
BegunSlotsAreKept ==
  [][\A b \in bookings : (b.start <= now /\ b \notin bookings') =>
       b.user \in users \ users']_vars

=============================================================================
