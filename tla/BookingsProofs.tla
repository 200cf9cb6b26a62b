--------------------------- MODULE BookingsProofs ---------------------------
(***************************************************************************)
(* Proofs about the bookings: about the table of them (Bookings) for any   *)
(* users, booking ids and settings, and about the jobs and timers that are *)
(* scheduled around them (Scheduler) for any jobs, durations and bookings  *)
(* that do not overlap.                                                    *)
(***************************************************************************)
EXTENDS Bookings, Scheduler, DataLemmas

\* The parts of a row of the booking table.
LEMMA BookingParts ==
  ASSUME NEW b \in Booking
  PROVE  /\ b.id \in Ids /\ b.user \in Users
         /\ b.start \in Int /\ b.end \in Int
         /\ b.start \in 0..Horizon /\ b.end \in 0..Horizon
         /\ MinSlot <= b.end - b.start /\ b.end - b.start <= MaxSlot
         /\ b.start <= b.end
BY SettingsAssumption DEF Booking

\* The row that create_booking inserts for a slot that NewBookingInfo accepted.
LEMMA NewBooking ==
  ASSUME TypeOK, NEW u \in Users, NEW id \in Ids,
         NEW s \in 0..Horizon, NEW e \in 0..Horizon, ValidSlot(s, e)
  PROVE  [id |-> id, user |-> u, start |-> s, end |-> e] \in Booking
BY SettingsAssumption DEF ValidSlot, Booking, TypeOK

\* Initially every variable has its type.
LEMMA InitType == Init => TypeOK
BY SettingsAssumption DEF Init, TypeOK

\* Every request, and the passing of time, keeps the type of every variable.
LEMMA NextType == TypeOK /\ [Next]_vars => TypeOK'
<1> SUFFICES ASSUME TypeOK, [Next]_vars PROVE TypeOK'
  OBVIOUS
<1>1. ASSUME NEW u \in Users, NEW id \in Ids, NEW s \in 0..Horizon,
             NEW e \in 0..Horizon, CreateBooking(u, id, s, e)
      PROVE  TypeOK'
  <2>1. [id |-> id, user |-> u, start |-> s, end |-> e] \in Booking
    BY <1>1, NewBooking DEF CreateBooking
  <2> QED
    BY <1>1, <2>1 DEF CreateBooking, EnsureUser, TypeOK
<1>2. ASSUME NEW u \in Users, NEW b \in bookings, NEW admin \in BOOLEAN,
             CancelBooking(u, b, admin)
      PROVE  TypeOK'
  BY <1>2 DEF CancelBooking, TypeOK
<1>3. ASSUME NEW u \in Users, CreateUser(u) PROVE TypeOK'
  BY <1>3 DEF CreateUser, TypeOK
<1>4. ASSUME NEW u \in Users, DeleteUserProfile(u) PROVE TypeOK'
  BY <1>4 DEF DeleteUserProfile, TypeOK
<1>5. CASE Tick
  BY <1>5, SettingsAssumption DEF Tick, TypeOK
<1>6. CASE UNCHANGED vars
  BY <1>6 DEF vars, TypeOK
<1> QED
  BY <1>1, <1>2, <1>3, <1>4, <1>5, <1>6 DEF Next

\* The tables and the clock always have their types; every row has a length
\* between the configured minimum and maximum.
THEOREM TypeCorrect == Spec => []TypeOK
BY InitType, NextType, PTL DEF Spec

-----------------------------------------------------------------------------
\* The requests that only delete rows, and the clock, cannot create an overlap.
LEMMA FewerBookings ==
  ASSUME [Next]_vars,
         ~ \E u \in Users, id \in Ids, s, e \in 0..Horizon : CreateBooking(u, id, s, e)
  PROVE  bookings' \subseteq bookings
BY DEF Next, CancelBooking, CreateUser, DeleteUserProfile, Tick, vars

\* create_booking inserts only what _validate_no_overlap let through.
LEMMA NextNoOverlap == TypeOK /\ NoOverlap /\ [Next]_vars => NoOverlap'
<1> SUFFICES ASSUME TypeOK, NoOverlap, [Next]_vars PROVE NoOverlap'
  OBVIOUS
<1>1. ASSUME NEW u \in Users, NEW id \in Ids, NEW s \in 0..Horizon,
             NEW e \in 0..Horizon, CreateBooking(u, id, s, e)
      PROVE  NoOverlap'
  <2> DEFINE new == [id |-> id, user |-> u, start |-> s, end |-> e]
  <2>1. CASE UNCHANGED bookings
    BY <2>1 DEF NoOverlap
  <2>2. CASE ValidateNoOverlap(s, e) /\ bookings' = bookings \cup {new}
    <3>1. new.start = s /\ new.end = e /\ s \in Int /\ e \in Int
      OBVIOUS
    <3>2. ASSUME NEW b \in bookings
          PROVE  /\ b.start \in Int /\ b.end \in Int
                 /\ b.end <= s \/ e <= b.start
      <4>1. b.start \in Int /\ b.end \in Int
        BY BookingParts DEF TypeOK
      <4> QED
        BY <2>2, <3>1, <4>1 DEF ValidateNoOverlap, Overlapping
    <3> HIDE DEF new
    <3> QED
      BY <2>2, <3>1, <3>2 DEF NoOverlap
  <2> QED
    BY <1>1, <2>1, <2>2 DEF CreateBooking
<1>2. CASE ~ \E u \in Users, id \in Ids, s, e \in 0..Horizon : CreateBooking(u, id, s, e)
  BY <1>2, FewerBookings DEF NoOverlap
<1> QED
  BY <1>1, <1>2

\* Initially there is no booking.
LEMMA InitNoOverlap == Init => NoOverlap
BY DEF Init, NoOverlap

\* The backend is never booked twice for the same time, whatever is created,
\* cancelled and deleted in between.
THEOREM NoOverlapCorrect == Spec => []NoOverlap
BY InitType, NextType, InitNoOverlap, NextNoOverlap, PTL DEF Spec

\* Two slots that do not overlap share at most an instant.
LEMMA HandoverFromNoOverlap == TypeOK /\ NoOverlap => ActiveOnlyAmbiguousAtHandover
<1> SUFFICES ASSUME TypeOK, NoOverlap,
                    NEW a \in ActiveBookings, NEW b \in ActiveBookings, a # b
             PROVE  \/ a.end = now /\ b.start = now
                    \/ b.end = now /\ a.start = now
  BY DEF ActiveOnlyAmbiguousAtHandover
<1>1. a \in bookings /\ b \in bookings /\ a \in Booking /\ b \in Booking
  BY DEF ActiveBookings, TypeOK
<1>2. a.start <= now /\ now <= a.end /\ b.start <= now /\ now <= b.end
  BY DEF ActiveBookings, IsActive
<1>3. a.end <= b.start \/ b.end <= a.start
  BY <1>1 DEF NoOverlap
<1>4. /\ a.start \in Int /\ a.end \in Int /\ b.start \in Int /\ b.end \in Int
      /\ now \in Int
  BY <1>1, BookingParts DEF TypeOK
<1> QED
  BY <1>2, <1>3, <1>4

\* get_active_booking has one answer, except at the instant of a handover.
THEOREM HandoverCorrect == Spec => []ActiveOnlyAmbiguousAtHandover
BY InitType, NextType, InitNoOverlap, NextNoOverlap, HandoverFromNoOverlap, PTL DEF Spec

-----------------------------------------------------------------------------
\* A new booking comes with its user, and a user leaves with the bookings that
\* are not over.
LEMMA NextOwner ==
  TypeOK /\ UnfinishedBookingsHaveOwner /\ [Next]_vars => UnfinishedBookingsHaveOwner'
<1> SUFFICES ASSUME TypeOK, UnfinishedBookingsHaveOwner, [Next]_vars
             PROVE  UnfinishedBookingsHaveOwner'
  OBVIOUS
<1> USE DEF UnfinishedBookingsHaveOwner
<1>1. ASSUME NEW u \in Users, NEW id \in Ids, NEW s \in 0..Horizon,
             NEW e \in 0..Horizon, CreateBooking(u, id, s, e)
      PROVE  UnfinishedBookingsHaveOwner'
  BY <1>1 DEF CreateBooking, EnsureUser
<1>2. ASSUME NEW u \in Users, NEW b \in bookings, NEW admin \in BOOLEAN,
             CancelBooking(u, b, admin)
      PROVE  UnfinishedBookingsHaveOwner'
  BY <1>2 DEF CancelBooking
<1>3. ASSUME NEW u \in Users, CreateUser(u) PROVE UnfinishedBookingsHaveOwner'
  BY <1>3 DEF CreateUser
<1>4. ASSUME NEW u \in Users, DeleteUserProfile(u)
      PROVE  UnfinishedBookingsHaveOwner'
  BY <1>4 DEF DeleteUserProfile
<1>5. CASE Tick
  <2>1. ASSUME NEW b \in bookings PROVE b.end \in Int /\ now \in Int
    BY BookingParts DEF TypeOK
  <2> QED
    BY <1>5, <2>1 DEF Tick
<1>6. CASE UNCHANGED vars
  BY <1>6 DEF vars
<1> QED
  BY <1>1, <1>2, <1>3, <1>4, <1>5, <1>6 DEF Next

\* Initially there is no booking.
LEMMA InitOwner == Init => UnfinishedBookingsHaveOwner
BY DEF Init, UnfinishedBookingsHaveOwner

\* A booking that is not over always belongs to a user that exists.
THEOREM OwnerCorrect == Spec => []UnfinishedBookingsHaveOwner
BY InitType, NextType, InitOwner, NextOwner, PTL DEF Spec

\* What a step may do to a slot that has begun.
BegunKept ==
  \A b \in bookings : (b.start <= now /\ b \notin bookings') => b.user \in users \ users'

\* cancel_booking refuses a slot that has begun, whether it is active or over;
\* deleting the user takes it away.
LEMMA NextBegunKept == TypeOK /\ [Next]_vars => [BegunKept]_vars
<1> SUFFICES ASSUME TypeOK, Next PROVE BegunKept
  OBVIOUS
<1> SUFFICES ASSUME NEW b \in bookings, b.start <= now, b \notin bookings'
             PROVE  b.user \in users \ users'
  BY DEF BegunKept
<1>1. /\ b.start \in Int /\ b.end \in Int /\ now \in Int
  BY BookingParts DEF TypeOK
<1>2. ASSUME NEW u \in Users, NEW c \in bookings, NEW admin \in BOOLEAN,
             CancelBooking(u, c, admin)
      PROVE  FALSE
  <2>1. c = b
    BY <1>2 DEF CancelBooking
  <2> QED
    BY <1>1, <1>2, <2>1 DEF CancelBooking, IsActive, IsComplete
<1>3. ASSUME NEW u \in Users, DeleteUserProfile(u)
      PROVE  b.user \in users \ users'
  BY <1>3 DEF DeleteUserProfile
<1> QED
  BY <1>2, <1>3 DEF Next, CreateBooking, CreateUser, Tick

\* A slot that has begun is taken away only together with its owner's account.
THEOREM BegunSlotsCorrect == Spec => BegunSlotsAreKept
<1>1. Spec => [][BegunKept]_vars
  BY InitType, NextType, NextBegunKept, PTL DEF Spec
<1> QED
  BY <1>1 DEF BegunSlotsAreKept, BegunKept

-----------------------------------------------------------------------------
\* The inductive form of SlotLimit, for every day.
DailyLimit ==
  /\ IsFiniteSet(bookings)
  /\ \A u \in Users, d \in Int : Cardinality(StartsPerDay(u, d)) <= SlotsPerDay

\* The day of an instant contains it (get_day_range).
LEMMA DayContains ==
  ASSUME NEW t \in Nat
  PROVE  /\ DayStart(t) \in Int
         /\ DayStart(t) <= t /\ t < DayStart(t) + DayLength
BY SettingsAssumption DEF DayStart

\* A slot that starts on the day of s is one that _validate_max_slots counts:
\* this takes a minimal length, a slot of no length at midnight is not counted.
LEMMA StartsAreCounted ==
  ASSUME TypeOK, MinSlot > 0, NEW u \in Users, NEW s \in 0..Horizon
  PROVE  StartsPerDay(u, DayStart(s)) \subseteq
           {b \in Overlapping(DayStart(s), DayStart(s) + DayLength) : b.user = u}
<1> SUFFICES ASSUME NEW b \in bookings, b.user = u, DayStart(b.start) = DayStart(s)
             PROVE  b.start < DayStart(s) + DayLength /\ b.end > DayStart(s)
  BY DEF StartsPerDay, Overlapping
<1>1. /\ b.start \in Nat /\ b.end \in Int
      /\ MinSlot <= b.end - b.start
  BY BookingParts, SettingsAssumption DEF TypeOK
<1>2. /\ DayStart(b.start) \in Int
      /\ DayStart(b.start) <= b.start /\ b.start < DayStart(b.start) + DayLength
  BY <1>1, DayContains
<1> QED
  BY <1>1, <1>2, SettingsAssumption

\* create_booking counts before it inserts.
LEMMA NextDailyLimit ==
  ASSUME MinSlot > 0
  PROVE  TypeOK /\ DailyLimit /\ [Next]_vars => DailyLimit'
<1> SUFFICES ASSUME TypeOK, DailyLimit, [Next]_vars PROVE DailyLimit'
  OBVIOUS
<1>0. ASSUME NEW v \in Users, NEW d \in Int
      PROVE  /\ IsFiniteSet(StartsPerDay(v, d))
             /\ Cardinality(StartsPerDay(v, d)) \in Nat
             /\ Cardinality(StartsPerDay(v, d)) <= SlotsPerDay
  <2>1. StartsPerDay(v, d) \subseteq bookings
    BY DEF StartsPerDay
  <2> QED
    BY <2>1, FS_Subset, FS_CardinalityType DEF DailyLimit
<1>1. ASSUME NEW u \in Users, NEW id \in Ids, NEW s \in 0..Horizon,
             NEW e \in 0..Horizon, CreateBooking(u, id, s, e)
      PROVE  DailyLimit'
  <2> DEFINE new == [id |-> id, user |-> u, start |-> s, end |-> e]
             counted == {b \in Overlapping(DayStart(s), DayStart(s) + DayLength) :
                           b.user = u}
  <2>1. CASE UNCHANGED bookings
    BY <2>1 DEF DailyLimit, StartsPerDay
  <2>2. CASE ValidateMaxSlots(u, s) /\ bookings' = bookings \cup {new}
    <3>1. IsFiniteSet(bookings')
      BY <2>2, FS_AddElement DEF DailyLimit
    <3>2. counted \subseteq bookings
      BY DEF Overlapping
    <3>3. Cardinality(counted) < SlotsPerDay /\ IsFiniteSet(counted)
      BY <2>2, <3>2, FS_Subset DEF ValidateMaxSlots, DailyLimit
    <3>4. ASSUME NEW v \in Users, NEW d \in Int
          PROVE  Cardinality(StartsPerDay(v, d)') <= SlotsPerDay
      <4>1. CASE v = u /\ d = DayStart(s)
        <5>1. StartsPerDay(v, d)' = StartsPerDay(v, d) \cup {new}
          BY <2>2, <4>1 DEF StartsPerDay, DayStart
        <5>2. StartsPerDay(v, d) \subseteq counted
          BY <4>1, StartsAreCounted
        <5>3. Cardinality(StartsPerDay(v, d)) < SlotsPerDay
          <6>1. Cardinality(StartsPerDay(v, d)) <= Cardinality(counted)
            BY <3>3, <5>2, FS_Subset
          <6>2. Cardinality(counted) \in Nat
            BY <3>3, FS_CardinalityType
          <6> HIDE DEF counted
          <6> QED
            BY <1>0, <3>3, <6>1, <6>2, SettingsAssumption
        <5>4. Cardinality(StartsPerDay(v, d) \cup {new})
                <= Cardinality(StartsPerDay(v, d)) + 1
          <6> HIDE DEF new
          <6>1. \/ Cardinality(StartsPerDay(v, d) \cup {new}) = Cardinality(StartsPerDay(v, d))
                \/ Cardinality(StartsPerDay(v, d) \cup {new}) = Cardinality(StartsPerDay(v, d)) + 1
            BY <1>0, FS_AddElement
          <6> QED
            BY <1>0, <6>1
        <5>5. Cardinality(StartsPerDay(v, d) \cup {new}) \in Nat
          BY <1>0, FS_AddElement, FS_CardinalityType
        <5> HIDE DEF new
        <5> QED
          BY <1>0, <5>1, <5>3, <5>4, <5>5, SettingsAssumption
      <4>2. CASE ~ (v = u /\ d = DayStart(s))
        <5>1. StartsPerDay(v, d)' = StartsPerDay(v, d)
          BY <2>2, <4>2 DEF StartsPerDay, DayStart
        <5> QED
          BY <1>0, <5>1
      <4> QED
        BY <4>1, <4>2
    <3> QED
      BY <3>1, <3>4 DEF DailyLimit
  <2> QED
    BY <1>1, <2>1, <2>2 DEF CreateBooking
<1>2. CASE ~ \E u \in Users, id \in Ids, s, e \in 0..Horizon : CreateBooking(u, id, s, e)
  <2>1. bookings' \subseteq bookings
    BY <1>2, FewerBookings
  <2>2. IsFiniteSet(bookings')
    BY <2>1, FS_Subset DEF DailyLimit
  <2>3. ASSUME NEW v \in Users, NEW d \in Int
        PROVE  Cardinality(StartsPerDay(v, d)') <= SlotsPerDay
    <3>1. StartsPerDay(v, d)' \subseteq StartsPerDay(v, d)
      BY <2>1 DEF StartsPerDay, DayStart
    <3>2. /\ Cardinality(StartsPerDay(v, d)') <= Cardinality(StartsPerDay(v, d))
          /\ IsFiniteSet(StartsPerDay(v, d)')
      BY <1>0, <3>1, FS_Subset
    <3>3. Cardinality(StartsPerDay(v, d)') \in Nat
      BY <3>2, FS_CardinalityType
    <3> QED
      BY <1>0, <3>2, <3>3, SettingsAssumption
  <2> QED
    BY <2>2, <2>3 DEF DailyLimit
<1> QED
  BY <1>1, <1>2

\* Initially there is no booking.
LEMMA InitDailyLimit == Init => DailyLimit
<1> SUFFICES ASSUME Init, NEW u \in Users, NEW d \in Int
             PROVE  IsFiniteSet(bookings) /\ Cardinality(StartsPerDay(u, d)) <= SlotsPerDay
  BY FS_EmptySet DEF DailyLimit, Init
<1>1. bookings = {} /\ StartsPerDay(u, d) = {}
  BY DEF Init, StartsPerDay
<1> QED
  BY <1>1, FS_EmptySet, SettingsAssumption

\* A limit for every day is a limit for the days of the bookings.
LEMMA SlotLimitFromDaily == TypeOK /\ DailyLimit => SlotLimit
<1> SUFFICES ASSUME TypeOK, DailyLimit, NEW u \in Users, NEW b \in bookings
             PROVE  Cardinality(StartsPerDay(u, DayStart(b.start))) <= SlotsPerDay
  BY DEF SlotLimit
<1>1. b.start \in Nat
  BY BookingParts, SettingsAssumption DEF TypeOK
<1> QED
  BY <1>1, DayContains DEF DailyLimit

\* With a positive minimal slot length, no user ever has more than SlotsPerDay
\* bookings that start on the same day.
THEOREM SlotLimitCorrect ==
  ASSUME MinSlot > 0
  PROVE  Spec => []SlotLimit
<1>1. TypeOK /\ DailyLimit /\ [Next]_vars => DailyLimit'
  BY NextDailyLimit
<1> QED
  BY <1>1, InitType, NextType, InitDailyLimit, SlotLimitFromDaily, PTL DEF Spec


-----------------------------------------------------------------------------
(* Scheduler: the idle timers.                                             *)

Timers == [due : Int, left : Int]
Arrivals == [job : Jobs, booking : SUBSET Slots]
AtMostOne == {{}} \cup {{b} : b \in Slots}
Resets == [booking : AtMostOne, at : {"read", "cancel", "compute", "schedule"},
           restart : Nat, maxIdle : {0, MaxIdle}, times : Int]
Tasks == [at : {"idle", "end", "cleanup", "move", "timer", "scan", "popped", "moving"},
          booking : AtMostOne, was : Timers, limit : SUBSET Int, job : SUBSET Jobs]

\* The types of what the timers depend on.
SchedulerTypes ==
  /\ clock \in Nat
  /\ removal = [b \in Slots |-> removal[b]]
  /\ timer \in [Slots -> Timers]
  /\ pre \in Seq(Arrivals)
  /\ waitlist \in Seq(Jobs)
  /\ reset \in [Workers -> Resets]
  /\ task \in Tasks
  /\ cleared \in SUBSET Slots

\* A timer that is not to be repeated is set only behind a job.
RestartsLater ==
  \A w \in Workers : reset[w].booking # {} => reset[w].maxIdle > 0 \/ reset[w].restart > 0

\* The timer of a booking is cancelled for good by its removal or after its end.
ClearedAtEnd ==
  /\ \A b \in cleared : TimerRemoved(b) \/ EndUtc[b] <= clock
  /\ task.at = "end" => \A b \in task.booking : EndUtc[b] <= clock

\* After that its timer runs only if it was overtaken.
TimerOvertaken ==
  \A b \in cleared : timer[b] # NoTimer \/ Running(b) => b \in overtaken

\* And so does a reset that has read the booking, unless the booking is over: such a
\* reset will find that no time is left.
ResetOvertaken ==
  \A b \in cleared, w \in Workers : Resetting(w, b) =>
    b \in overtaken \/ (EndUtc[b] <= clock /\ reset[w].at # "schedule")

\* The inductive invariant.
SchedulerInv ==
  SchedulerTypes /\ RestartsLater /\ ClearedAtEnd /\ TimerOvertaken /\ ResetOvertaken

\* The numbers of a booking.
LEMMA SlotFacts ==
  /\ \A b \in Slots : /\ StartUtc[b] \in Nat \ {0} /\ EndUtc[b] \in Nat
                      /\ StartUtc[b] < EndUtc[b]
  /\ \A j \in Jobs : Duration[j] \in Nat \ {0}
  /\ MaxIdle \in Nat \ {0}
BY SlotAssumption, JobAssumption, IdleAssumption

\* A call that begins has its type, whatever booking, delay and idle time it gets.
LEMMA ResetType ==
  ASSUME NEW b \in Slots, NEW restart \in Nat, NEW maxIdle \in {0, MaxIdle}
  PROVE  /\ Reset(b, restart, maxIdle) \in Resets
         /\ Reset(b, restart, maxIdle).at = "read"
         /\ Reset(b, restart, maxIdle).maxIdle = maxIdle
         /\ Reset(b, restart, maxIdle).restart = restart
BY DEF Reset, Resets, AtMostOne

LEMMA NothingTypes == NoReset \in Resets /\ NoTimer \in Timers /\ NoTask \in Tasks
BY DEF NoReset, Resets, NoTimer, Timers, NoTask, Tasks, AtMostOne

\* At first nothing is scheduled but the events.
LEMMA InitScheduler == SchedulerInit => SchedulerInv
<1> SUFFICES ASSUME SchedulerInit PROVE SchedulerInv
  OBVIOUS
<1>1. SchedulerTypes
  BY NothingTypes, EmptySeq DEF SchedulerInit, SchedulerTypes
<1>2. RestartsLater
  BY DEF SchedulerInit, RestartsLater, NoReset
<1>3. ClearedAtEnd /\ TimerOvertaken /\ ResetOvertaken
  BY DEF SchedulerInit, ClearedAtEnd, TimerOvertaken, ResetOvertaken, NoTask
<1> QED
  BY <1>1, <1>2, <1>3 DEF SchedulerInv

\* What the timers depend on stays, except for the handler in progress, which comes
\* to no timer.
LEMMA TaskKeeps ==
  ASSUME SchedulerInv, SchedulerTypes', UNCHANGED <<clock, timer, reset, historyVars>>,
         \A b \in Slots : TimerRemoved(b) => TimerRemoved(b)',
         \A b \in cleared : Running(b)' => Running(b) \/ timer[b] # NoTimer,
         task'.at = "end" => \A b \in task'.booking : EndUtc[b] <= clock
  PROVE  SchedulerInv'
<1>0. /\ RestartsLater /\ ClearedAtEnd /\ TimerOvertaken /\ ResetOvertaken
      /\ cleared' = cleared /\ overtaken' = overtaken
  BY DEF SchedulerInv, historyVars
<1>1. RestartsLater'
  BY <1>0 DEF RestartsLater
<1>2. ClearedAtEnd'
  BY <1>0 DEF ClearedAtEnd, SchedulerInv, SchedulerTypes
<1>3. TimerOvertaken'
  BY <1>0 DEF TimerOvertaken
<1>4. ResetOvertaken'
  BY <1>0 DEF ResetOvertaken, Resetting
<1> QED
  BY <1>1, <1>2, <1>3, <1>4 DEF SchedulerInv

\* ReadForReset: a booking that is being removed is noted; one whose timer was
\* cancelled otherwise is over.
LEMMA ReadKeeps ==
  ASSUME SchedulerInv, NEW w \in Workers, ReadForReset(w) PROVE SchedulerInv'
<1>0. SchedulerTypes /\ RestartsLater /\ ClearedAtEnd /\ TimerOvertaken /\ ResetOvertaken
  BY DEF SchedulerInv
<1>1. /\ UNCHANGED <<clock, removal, timer, pre, waitlist, task, cleared>>
      /\ overtaken' = overtaken \cup
                        {b \in reset[w].booking : b \in stored /\ TimerRemoved(b)}
      /\ reset[w] \in Resets
  BY <1>0 DEF ReadForReset, SchedulerTypes, jobVars
<1>2. \/ reset' = [reset EXCEPT ![w] = NoReset]
      \/ reset[w].booking \subseteq stored /\ reset' = [reset EXCEPT ![w].at = "cancel"]
  BY DEF ReadForReset
<1> DEFINE r == reset'[w]
<1>3. /\ reset' \in [Workers -> Resets] /\ \A v \in Workers \ {w} : reset'[v] = reset[v]
      /\ r.at # "schedule"
      /\ r.booking = {} \/ (r.booking = reset[w].booking /\ r.restart = reset[w].restart
                             /\ r.maxIdle = reset[w].maxIdle
                             /\ reset[w].booking \subseteq stored)
  <2>1. CASE reset' = [reset EXCEPT ![w] = NoReset]
    <3>1. NoReset \in Resets /\ NoReset.at # "schedule" /\ NoReset.booking = {}
      BY NothingTypes DEF NoReset
    <3> QED
      BY <1>0, <2>1, <3>1 DEF SchedulerTypes
  <2>2. CASE reset[w].booking \subseteq stored /\ reset' = [reset EXCEPT ![w].at = "cancel"]
    <3> DEFINE t == [reset[w] EXCEPT !.at = "cancel"]
    <3>1. /\ t \in Resets /\ t.at = "cancel" /\ t.booking = reset[w].booking
          /\ t.restart = reset[w].restart /\ t.maxIdle = reset[w].maxIdle
      BY <1>1 DEF Resets
    <3>2. reset' = [reset EXCEPT ![w] = t]
      BY <2>2
    <3> HIDE DEF t
    <3> QED
      BY <1>0, <2>2, <3>1, <3>2 DEF SchedulerTypes
  <2> QED
    BY <1>2, <2>1, <2>2
<1> HIDE DEF r
<1>4. SchedulerTypes'
  BY <1>0, <1>1, <1>3 DEF SchedulerTypes
<1>5. RestartsLater'
  <2> SUFFICES ASSUME NEW v \in Workers, reset'[v].booking # {}
               PROVE  reset'[v].maxIdle > 0 \/ reset'[v].restart > 0
    BY DEF RestartsLater
  <2>1. CASE v = w
    BY <1>0, <1>3, <2>1 DEF RestartsLater, r
  <2>2. CASE v # w
    BY <1>0, <1>3, <2>2 DEF RestartsLater
  <2> QED
    BY <2>1, <2>2
<1>6. ClearedAtEnd'
  BY <1>0, <1>1 DEF ClearedAtEnd, TimerRemoved
<1>7. TimerOvertaken'
  BY <1>0, <1>1 DEF TimerOvertaken, Running
<1>8. ResetOvertaken'
  <2> SUFFICES ASSUME NEW b \in cleared, NEW v \in Workers, Resetting(v, b)'
               PROVE  b \in overtaken' \/ (EndUtc[b] <= clock /\ reset'[v].at # "schedule")
    BY <1>1 DEF ResetOvertaken
  <2>1. CASE v = w
    <3>1. b \in reset[w].booking /\ b \in stored /\ reset'[v].at # "schedule"
      BY <1>3, <2>1 DEF Resetting, r
    <3>2. TimerRemoved(b) \/ EndUtc[b] <= clock
      BY <1>0 DEF ClearedAtEnd
    <3> QED
      BY <1>1, <3>1, <3>2
  <2>2. CASE v # w
    BY <1>0, <1>1, <1>3, <2>2 DEF ResetOvertaken, Resetting
  <2> QED
    BY <2>1, <2>2
<1> QED
  BY <1>4, <1>5, <1>6, <1>7, <1>8 DEF SchedulerInv

\* A step of the reset at w behind its read, to r: it sets the timer of its booking b
\* or none, and schedules nothing for a booking that is over.
LEMMA ResetStepKeeps ==
  ASSUME SchedulerInv, NEW w \in Workers, NEW r \in Resets, reset[w].at # "read",
         reset' = [reset EXCEPT ![w] = r],
         timer' \in [Slots -> Timers],
         UNCHANGED <<clock, removal, pre, waitlist, task, historyVars>>,
         \/ r.booking = {}
         \/ /\ r.booking = reset[w].booking
            /\ r.maxIdle = reset[w].maxIdle /\ r.restart = reset[w].restart,
         \A b \in Slots : timer'[b] = timer[b] \/ timer'[b] = NoTimer
                           \/ (b \in reset[w].booking /\ reset[w].at = "schedule"),
         \A b \in r.booking : r.at = "schedule" => clock < EndUtc[b]
  PROVE  SchedulerInv'
<1>0. /\ SchedulerTypes /\ RestartsLater /\ ClearedAtEnd /\ TimerOvertaken
      /\ ResetOvertaken /\ cleared' = cleared /\ overtaken' = overtaken
  BY DEF SchedulerInv, historyVars
<1>1. /\ reset' \in [Workers -> Resets] /\ reset'[w] = r
      /\ \A v \in Workers \ {w} : reset'[v] = reset[v]
  BY <1>0 DEF SchedulerTypes
<1>2. SchedulerTypes'
  BY <1>0, <1>1 DEF SchedulerTypes
<1>3. RestartsLater'
  <2> SUFFICES ASSUME NEW v \in Workers, reset'[v].booking # {}
               PROVE  reset'[v].maxIdle > 0 \/ reset'[v].restart > 0
    BY DEF RestartsLater
  <2>1. CASE v = w
    BY <1>0, <1>1, <2>1 DEF RestartsLater
  <2>2. CASE v # w
    BY <1>0, <1>1, <2>2 DEF RestartsLater
  <2> QED
    BY <2>1, <2>2
<1>4. ClearedAtEnd'
  BY <1>0 DEF ClearedAtEnd, TimerRemoved
<1>5. TimerOvertaken'
  <2> SUFFICES ASSUME NEW b \in cleared, timer'[b] # NoTimer \/ Running(b)
               PROVE  b \in overtaken
    BY <1>0 DEF TimerOvertaken, Running
  <2>1. CASE timer[b] # NoTimer \/ Running(b)
    BY <1>0, <2>1 DEF TimerOvertaken
  <2>2. CASE b \in reset[w].booking /\ reset[w].at = "schedule"
    BY <1>0, <2>2 DEF ResetOvertaken, Resetting
  <2>3. b \in Slots
    BY <1>0 DEF SchedulerTypes
  <2> QED
    BY <2>1, <2>2, <2>3
<1>6. ResetOvertaken'
  <2> SUFFICES ASSUME NEW b \in cleared, NEW v \in Workers, Resetting(v, b)'
               PROVE  b \in overtaken \/ (EndUtc[b] <= clock /\ reset'[v].at # "schedule")
    BY <1>0 DEF ResetOvertaken
  <2>1. CASE v = w
    <3>1. b \in reset[w].booking /\ b \in r.booking
      BY <1>1, <2>1 DEF Resetting
    <3>2. b \in overtaken \/ EndUtc[b] <= clock
      BY <1>0, <3>1 DEF ResetOvertaken, Resetting
    <3>3. EndUtc[b] \in Nat /\ clock \in Nat
      BY <1>0, SlotFacts DEF SchedulerTypes
    <3>4. EndUtc[b] <= clock => r.at # "schedule"
      BY <3>1, <3>3
    <3> QED
      BY <1>1, <2>1, <3>2, <3>4
  <2>2. CASE v # w
    BY <1>0, <1>1, <2>2 DEF ResetOvertaken, Resetting
  <2> QED
    BY <2>1, <2>2
<1> QED
  BY <1>2, <1>3, <1>4, <1>5, <1>6 DEF SchedulerInv

LEMMA CancelKeeps ==
  ASSUME SchedulerInv, NEW w \in Workers, CancelForReset(w) PROVE SchedulerInv'
<1>0. SchedulerTypes
  BY DEF SchedulerInv
<1> DEFINE r == [reset[w] EXCEPT !.at = "compute"]
<1>1. reset[w] \in Resets
  BY <1>0 DEF SchedulerTypes
<1>2. /\ r \in Resets /\ r.at = "compute" /\ r.booking = reset[w].booking
      /\ r.restart = reset[w].restart /\ r.maxIdle = reset[w].maxIdle
  BY <1>1 DEF Resets
<1>3. /\ UNCHANGED <<clock, removal, pre, waitlist, task, historyVars>>
      /\ reset' = [reset EXCEPT ![w] = r] /\ reset[w].at # "read"
  BY DEF CancelForReset, jobVars
<1>4. /\ timer' \in [Slots -> Timers]
      /\ \A b \in Slots : timer'[b] = timer[b] \/ timer'[b] = NoTimer
  BY <1>0, NothingTypes DEF CancelForReset, SchedulerTypes
<1> HIDE DEF r
<1> QED
  BY <1>2, <1>3, <1>4, ResetStepKeeps

\* The arithmetic of reset_idleness_timer: what it schedules is not over.
LEMMA ComputeKeeps ==
  ASSUME SchedulerInv, NEW w \in Workers, ComputeRepeats(w) PROVE SchedulerInv'
<1>0. SchedulerTypes /\ RestartsLater
  BY DEF SchedulerInv
<1>1. /\ reset[w] \in Resets /\ reset[w].restart \in Nat /\ reset[w].maxIdle \in {0, MaxIdle}
      /\ reset[w].booking \in AtMostOne
  BY <1>0 DEF SchedulerTypes, Resets
<1>2. /\ UNCHANGED <<clock, removal, pre, waitlist, task, historyVars>>
      /\ reset[w].at # "read"
      /\ timer' \in [Slots -> Timers] /\ \A b \in Slots : timer'[b] = timer[b]
  BY <1>0 DEF ComputeRepeats, jobVars, SchedulerTypes
<1> DEFINE maxIdle == reset[w].maxIdle
           rest(b) == EndUtc[b] - clock - reset[w].restart
           times(b) == IF maxIdle > 0 THEN rest(b) \div maxIdle ELSE 0
           r(b) == [reset[w] EXCEPT !.at = "schedule", !.times = times(b)]
<1>3. PICK b \in reset[w].booking :
        reset' = IF rest(b) < maxIdle
                 THEN [reset EXCEPT ![w] = NoReset]
                 ELSE [reset EXCEPT ![w].at = "schedule", ![w].times = times(b)]
  BY DEF ComputeRepeats
<1>4. /\ reset[w].booking = {b} /\ b \in Slots
      /\ EndUtc[b] \in Nat /\ clock \in Nat /\ MaxIdle \in Nat \ {0}
      /\ maxIdle > 0 \/ reset[w].restart > 0
  <2>1. reset[w].booking = {b} /\ b \in Slots
    BY <1>1 DEF AtMostOne
  <2>2. maxIdle > 0 \/ reset[w].restart > 0
    BY <1>0, <2>1 DEF RestartsLater
  <2> QED
    BY <1>0, <2>1, <2>2, SlotFacts DEF SchedulerTypes
<1>5. CASE rest(b) < maxIdle
  <2>1. NoReset \in Resets /\ NoReset.booking = {}
    BY NothingTypes DEF NoReset
  <2>2. reset' = [reset EXCEPT ![w] = NoReset]
    BY <1>3, <1>5
  <2> QED
    BY <1>2, <2>1, <2>2, ResetStepKeeps
<1>6. CASE ~ (rest(b) < maxIdle)
  <2>1. reset' = [reset EXCEPT ![w] = r(b)]
    BY <1>3, <1>6
  <2>2. rest(b) \in Int /\ maxIdle \in Nat
    BY <1>1, <1>4
  <2>3. clock < EndUtc[b]
    BY <1>1, <1>4, <1>6
  <2>4. times(b) \in Int
    <3> DEFINE n == rest(b)
               m == maxIdle
    <3>1. n \in Int /\ m \in Nat
      BY <2>2
    <3> HIDE DEF n, m
    <3>2. m > 0 => n \div m \in Int
      BY <3>1
    <3> QED
      BY <3>2 DEF n, m
  <2> HIDE DEF times, rest
  <2>5. /\ r(b) \in Resets /\ r(b).at = "schedule" /\ r(b).booking = reset[w].booking
        /\ r(b).restart = reset[w].restart /\ r(b).maxIdle = reset[w].maxIdle
    BY <1>1, <2>4 DEF Resets
  <2> DEFINE t == r(b)
  <2>6. /\ t \in Resets /\ t.booking = reset[w].booking
        /\ t.restart = reset[w].restart /\ t.maxIdle = reset[w].maxIdle
        /\ reset' = [reset EXCEPT ![w] = t]
        /\ \A c \in t.booking : clock < EndUtc[c]
    BY <1>4, <2>1, <2>3, <2>5
  <2> HIDE DEF t, r
  <2> QED
    BY <1>2, <2>6, ResetStepKeeps
<1> QED
  BY <1>5, <1>6

LEMMA ScheduleKeeps ==
  ASSUME SchedulerInv, NEW w \in Workers, ScheduleTimer(w) PROVE SchedulerInv'
<1>0. SchedulerTypes
  BY DEF SchedulerInv
<1>1. reset[w] \in Resets /\ clock \in Nat
  BY <1>0 DEF SchedulerTypes
<1> DEFINE t == [due |-> clock + reset[w].restart, left |-> reset[w].times]
<1>2. t \in Timers
  BY <1>1 DEF Resets, Timers
<1>3. /\ UNCHANGED <<clock, removal, pre, waitlist, task, historyVars>>
      /\ reset' = [reset EXCEPT ![w] = NoReset] /\ reset[w].at = "schedule"
      /\ timer' = [b \in Slots |-> IF b \in reset[w].booking THEN t ELSE timer[b]]
  BY DEF ScheduleTimer, jobVars
<1> HIDE DEF t
<1>4. /\ timer' \in [Slots -> Timers]
      /\ \A b \in Slots : timer'[b] = timer[b] \/ b \in reset[w].booking
  BY <1>0, <1>2, <1>3 DEF SchedulerTypes
<1>5. NoReset \in Resets /\ NoReset.booking = {}
  BY NothingTypes DEF NoReset
<1> QED
  BY <1>3, <1>4, <1>5, ResetStepKeeps

\* A reset that begins has nothing read.
LEMMA ResetBegins ==
  ASSUME SchedulerInv, NEW w \in Workers, NEW b \in Slots, NEW restart \in Nat,
         NEW maxIdle \in {0, MaxIdle}, maxIdle > 0 \/ restart > 0,
         reset' = [reset EXCEPT ![w] = Reset(b, restart, maxIdle)]
  PROVE  /\ reset' \in [Workers -> Resets]
         /\ RestartsLater'
         /\ \A v \in Workers, c \in Slots : Resetting(v, c)' =>
              Resetting(v, c) /\ reset'[v] = reset[v]
<1> DEFINE r == Reset(b, restart, maxIdle)
<1>0. SchedulerTypes /\ RestartsLater
  BY DEF SchedulerInv
<1>1. r \in Resets /\ r.at = "read" /\ r.maxIdle = maxIdle /\ r.restart = restart
  BY ResetType
<1>2. reset' = [reset EXCEPT ![w] = r]
  OBVIOUS
<1> HIDE DEF r
<1>3. /\ reset' \in [Workers -> Resets] /\ reset'[w] = r
      /\ \A v \in Workers \ {w} : reset'[v] = reset[v]
  BY <1>0, <1>1, <1>2 DEF SchedulerTypes
<1>4. RestartsLater'
  BY <1>0, <1>1, <1>3 DEF RestartsLater
<1>5. \A v \in Workers, c \in Slots : Resetting(v, c)' =>
        Resetting(v, c) /\ reset'[v] = reset[v]
  BY <1>1, <1>3 DEF Resetting
<1> QED
  BY <1>3, <1>4, <1>5

\* A step in which a reset may begin, and nothing else that the timers depend on.
LEMMA BeginKeeps ==
  ASSUME SchedulerInv, SchedulerTypes', RestartsLater',
         UNCHANGED <<clock, removal, timer, historyVars>>,
         task' = task \/ (task.at = "popped" /\ task' = [task EXCEPT !.at = "moving"]),
         \A v \in Workers, c \in Slots : Resetting(v, c)' =>
           Resetting(v, c) /\ reset'[v] = reset[v]
  PROVE  SchedulerInv'
<1>0. /\ SchedulerTypes /\ ClearedAtEnd /\ TimerOvertaken /\ ResetOvertaken
      /\ cleared' = cleared /\ overtaken' = overtaken
  BY DEF SchedulerInv, historyVars
<1>1. /\ \A b : Running(b)' => Running(b)
      /\ task'.at = "end" => task.at = "end" /\ task'.booking = task.booking
  <2>1. CASE task' = task
    BY <2>1 DEF Running
  <2>2. CASE task.at = "popped" /\ task' = [task EXCEPT !.at = "moving"]
    <3>1. task \in Tasks
      BY <1>0 DEF SchedulerTypes
    <3>2. task'.at = "moving" /\ task'.booking = task.booking
      BY <2>2, <3>1 DEF Tasks
    <3> QED
      BY <2>2, <3>2 DEF Running
  <2> QED
    BY <2>1, <2>2
<1>2. ClearedAtEnd'
  BY <1>0, <1>1 DEF ClearedAtEnd, TimerRemoved
<1>3. TimerOvertaken'
  BY <1>0, <1>1 DEF TimerOvertaken
<1>4. ResetOvertaken'
  BY <1>0 DEF ResetOvertaken, SchedulerTypes
<1> QED
  BY <1>2, <1>3, <1>4 DEF SchedulerInv

\* A job that preprocessing admits is one, and so is its booking.
LEMMA PreprocessKeeps ==
  ASSUME SchedulerInv, Preprocess PROVE SchedulerInv'
<1>0. SchedulerTypes /\ RestartsLater
  BY DEF SchedulerInv
<1>1. /\ UNCHANGED <<clock, removal, timer, historyVars, task>>
      /\ pre # <<>> /\ pre' = Tail(pre)
  BY DEF Preprocess
<1>2. Head(pre) \in Arrivals /\ pre' \in Seq(Arrivals)
  BY <1>0, <1>1, Shifted DEF SchedulerTypes
<1> DEFINE j == Head(pre).job
           s == Head(pre).booking
<1>3. j \in Jobs /\ s \in SUBSET Slots
  BY <1>2 DEF Arrivals
<1>4. TryNormal(j) \/ \E b \in s : TryBooked(j, b)
  BY DEF Preprocess
<1> HIDE DEF j, s
<1>5. waitlist' \in Seq(Jobs)
  <2>1. waitlist' = waitlist \/ waitlist' = Append(waitlist, j)
    BY <1>4 DEF TryNormal, TryBooked, PushToWaitlist
  <2>2. waitlist \in Seq(Jobs) /\ Append(waitlist, j) \in Seq(Jobs)
    BY <1>0, <1>3, Added DEF SchedulerTypes
  <2> QED
    BY <2>1, <2>2
<1>6. \/ reset' = reset
      \/ \E b \in s : reset' = [reset EXCEPT !["preprocessing"] =
                                   Reset(b, Duration[j], MaxIdle)]
  BY <1>4 DEF TryNormal, TryBooked
<1>7. /\ reset' \in [Workers -> Resets]
      /\ RestartsLater'
      /\ \A v \in Workers, c \in Slots : Resetting(v, c)' =>
           Resetting(v, c) /\ reset'[v] = reset[v]
  <2>1. CASE reset' = reset
    BY <1>0, <2>1 DEF SchedulerTypes, RestartsLater, Resetting
  <2>2. ASSUME NEW b \in s,
               reset' = [reset EXCEPT !["preprocessing"] = Reset(b, Duration[j], MaxIdle)]
        PROVE  <1>7!:
    <3>1. /\ b \in Slots /\ Duration[j] \in Nat /\ MaxIdle \in {0, MaxIdle} /\ MaxIdle > 0
          /\ "preprocessing" \in Workers
      BY <1>3, SlotFacts DEF Workers
    <3> QED
      BY <2>2, <3>1, ResetBegins
  <2> QED
    BY <1>6, <2>1, <2>2
<1>8. SchedulerTypes'
  BY <1>0, <1>1, <1>2, <1>5, <1>7 DEF SchedulerTypes, historyVars
<1> QED
  BY <1>1, <1>7, <1>8, BeginKeeps

LEMMA StartEventKeeps ==
  ASSUME SchedulerInv, NEW b \in Slots, StartEvent(b) PROVE SchedulerInv'
<1>0. SchedulerTypes
  BY DEF SchedulerInv
<1>1. /\ UNCHANGED <<clock, removal, timer, historyVars, task, pre, waitlist>>
      /\ reset' = [reset EXCEPT !["general"] = Reset(b, 0, MaxIdle)]
  BY DEF StartEvent, jobVars
<1>2. 0 \in Nat /\ MaxIdle \in {0, MaxIdle} /\ MaxIdle > 0 /\ "general" \in Workers
  BY SlotFacts DEF Workers
<1>3. /\ reset' \in [Workers -> Resets]
      /\ RestartsLater'
      /\ \A v \in Workers, c \in Slots : Resetting(v, c)' =>
           Resetting(v, c) /\ reset'[v] = reset[v]
  BY <1>1, <1>2, ResetBegins
<1>4. SchedulerTypes'
  BY <1>0, <1>1, <1>3 DEF SchedulerTypes, historyVars
<1> QED
  BY <1>1, <1>3, <1>4, BeginKeeps

LEMMA ReadActiveKeeps ==
  ASSUME SchedulerInv, ReadActiveBooking PROVE SchedulerInv'
<1>0. SchedulerTypes /\ RestartsLater
  BY DEF SchedulerInv
<1>1. /\ UNCHANGED <<clock, removal, timer, historyVars, pre, waitlist>>
      /\ task.at = "popped" /\ task' = [task EXCEPT !.at = "moving"]
  BY DEF ReadActiveBooking, jobVars
<1>2. task \in Tasks /\ task' \in Tasks /\ task.job \in SUBSET Jobs
  BY <1>0, <1>1 DEF SchedulerTypes, Tasks
<1>3. \/ reset' = reset
      \/ \E a \in Active, j \in task.job :
           reset' = [reset EXCEPT !["general"] = Reset(a, Duration[j], 0)]
  BY DEF ReadActiveBooking
<1>4. /\ reset' \in [Workers -> Resets]
      /\ RestartsLater'
      /\ \A v \in Workers, c \in Slots : Resetting(v, c)' =>
           Resetting(v, c) /\ reset'[v] = reset[v]
  <2>1. CASE reset' = reset
    BY <1>0, <2>1 DEF SchedulerTypes, RestartsLater, Resetting
  <2>2. ASSUME NEW a \in Active, NEW j \in task.job,
               reset' = [reset EXCEPT !["general"] = Reset(a, Duration[j], 0)]
        PROVE  <1>4!:
    <3>1. /\ a \in Slots /\ Duration[j] \in Nat /\ 0 \in {0, MaxIdle} /\ Duration[j] > 0
          /\ "general" \in Workers
      BY <1>2, SlotFacts DEF Workers, Active, stored
    <3> QED
      BY <2>2, <3>1, ResetBegins
  <2> QED
    BY <1>3, <2>1, <2>2
<1>5. SchedulerTypes'
  BY <1>0, <1>1, <1>2, <1>4 DEF SchedulerTypes, historyVars
<1> QED
  BY <1>1, <1>4, <1>5, BeginKeeps

\* The timer of b is cancelled for good, and b is noted if something is under way.
LEMMA ClearKeeps ==
  ASSUME SchedulerInv, NEW b \in Slots, ClearTimer(b), task' \in Tasks,
         UNCHANGED <<clock, pre, waitlist, reset>>,
         removal' = [c \in Slots |-> removal'[c]],
         \A c \in Slots : TimerRemoved(c) => TimerRemoved(c)',
         TimerRemoved(b)' \/ EndUtc[b] <= clock,
         task' = task \/ (task.at = "end" /\ task'.at = "cleanup")
  PROVE  SchedulerInv'
<1>0. /\ SchedulerTypes /\ RestartsLater /\ ClearedAtEnd /\ TimerOvertaken /\ ResetOvertaken
  BY DEF SchedulerInv
<1>1. /\ timer' = [timer EXCEPT ![b] = NoTimer] /\ cleared' = cleared \cup {b}
      /\ overtaken' = IF UnderWay(b) THEN overtaken \cup {b} ELSE overtaken
  BY DEF ClearTimer
<1>2. /\ timer' \in [Slots -> Timers] /\ timer'[b] = NoTimer
      /\ \A c \in Slots : c # b => timer'[c] = timer[c]
      /\ cleared' \in SUBSET Slots /\ overtaken \subseteq overtaken'
      /\ UnderWay(b) => b \in overtaken'
  BY <1>0, <1>1, NothingTypes DEF SchedulerTypes
<1>3. /\ \A c : Running(c)' => Running(c)
      /\ task'.at = "end" => task' = task
  BY DEF Running
<1>4. SchedulerTypes'
  BY <1>0, <1>2 DEF SchedulerTypes
<1>5. RestartsLater'
  BY <1>0 DEF RestartsLater
<1>6. ClearedAtEnd'
  BY <1>0, <1>1, <1>3 DEF ClearedAtEnd, SchedulerTypes
<1>7. TimerOvertaken'
  <2> SUFFICES ASSUME NEW c \in cleared', timer'[c] # NoTimer \/ Running(c)'
               PROVE  c \in overtaken'
    BY DEF TimerOvertaken
  <2>1. CASE c = b
    BY <1>2, <1>3, <2>1 DEF UnderWay
  <2>2. CASE c # b
    BY <1>0, <1>1, <1>2, <1>3, <2>2 DEF TimerOvertaken
  <2> QED
    BY <2>1, <2>2
<1>8. ResetOvertaken'
  <2> SUFFICES ASSUME NEW c \in cleared', NEW w \in Workers, Resetting(w, c)'
               PROVE  c \in overtaken' \/ (EndUtc[c] <= clock /\ reset[w].at # "schedule")
    BY DEF ResetOvertaken
  <2>0. Resetting(w, c)
    BY DEF Resetting
  <2>1. CASE c = b
    BY <1>2, <2>0, <2>1 DEF UnderWay
  <2>2. CASE c # b
    BY <1>0, <1>1, <1>2, <2>0, <2>2 DEF ResetOvertaken
  <2> QED
    BY <2>1, <2>2
<1> QED
  BY <1>4, <1>5, <1>6, <1>7, <1>8 DEF SchedulerInv

LEMMA ClearAtEndKeeps ==
  ASSUME SchedulerInv, ClearAtEnd PROVE SchedulerInv'
<1>0. SchedulerTypes /\ ClearedAtEnd
  BY DEF SchedulerInv
<1>1. PICK b \in task.booking : ClearTimer(b)
  BY DEF ClearAtEnd
<1>2. /\ task.at = "end" /\ task' = [task EXCEPT !.at = "cleanup"]
      /\ UNCHANGED <<clock, removal, pre, waitlist, reset>>
  BY DEF ClearAtEnd, jobVars
<1>3. task \in Tasks /\ task' \in Tasks /\ task'.at = "cleanup" /\ b \in Slots
  BY <1>0, <1>2 DEF SchedulerTypes, Tasks, AtMostOne
<1>4. EndUtc[b] <= clock
  BY <1>0, <1>2 DEF ClearedAtEnd
<1>5. /\ removal' = [c \in Slots |-> removal'[c]]
      /\ \A c \in Slots : TimerRemoved(c) => TimerRemoved(c)'
  BY <1>0, <1>2 DEF SchedulerTypes, TimerRemoved
<1> QED
  BY <1>1, <1>2, <1>3, <1>4, <1>5, ClearKeeps

\* A removal goes on from one command to the next.
LEMMA RemovalGoesOn ==
  ASSUME SchedulerTypes, NEW b \in Slots, NEW from, NEW to, removal[b] = from,
         removal' = [removal EXCEPT ![b] = to],
         from \in {"none", "begun"} \/ to \in {"start", "end", "removed"}
  PROVE  /\ removal' = [c \in Slots |-> removal'[c]] /\ removal'[b] = to
         /\ \A c \in Slots : TimerRemoved(c) => TimerRemoved(c)'
<1>1. /\ removal' = [c \in Slots |-> removal'[c]] /\ removal'[b] = to
      /\ \A c \in Slots : c # b => removal'[c] = removal[c]
  BY DEF SchedulerTypes
<1>2. ASSUME NEW c \in Slots, TimerRemoved(c) PROVE TimerRemoved(c)'
  <2>1. CASE c = b
    BY <1>1, <1>2, <2>1 DEF TimerRemoved
  <2>2. CASE c # b
    BY <1>1, <1>2, <2>2 DEF TimerRemoved
  <2> QED
    BY <2>1, <2>2
<1> QED
  BY <1>1, <1>2

LEMMA RemovalKeeps ==
  ASSUME SchedulerInv, NEW b \in Slots,
         \/ BeginRemoval(b) \/ RemoveTimer(b) \/ RemoveStartEvent(b)
         \/ RemoveEndEvent(b) \/ DeleteRow(b)
  PROVE  SchedulerInv'
<1>0. SchedulerTypes /\ ClearedAtEnd
  BY DEF SchedulerInv
<1>1. CASE RemoveTimer(b)
  <2>1. /\ removal[b] = "begun" /\ removal' = [removal EXCEPT ![b] = "timer"]
        /\ ClearTimer(b) /\ UNCHANGED <<clock, pre, waitlist, reset, task>>
    BY <1>1 DEF RemoveTimer, jobVars
  <2>2. /\ removal' = [c \in Slots |-> removal'[c]] /\ removal'[b] = "timer"
        /\ \A c \in Slots : TimerRemoved(c) => TimerRemoved(c)'
    BY <1>0, <2>1, RemovalGoesOn
  <2>3. TimerRemoved(b)' /\ task' \in Tasks
    BY <1>0, <2>1, <2>2 DEF TimerRemoved, SchedulerTypes
  <2> QED
    BY <2>1, <2>2, <2>3, ClearKeeps
<1>2. CASE BeginRemoval(b) \/ RemoveStartEvent(b) \/ RemoveEndEvent(b) \/ DeleteRow(b)
  <2>1. UNCHANGED <<clock, timer, pre, waitlist, reset, task, historyVars>>
    BY <1>2 DEF BeginRemoval, RemoveStartEvent, RemoveEndEvent, DeleteRow, jobVars
  <2>2. /\ removal' = [c \in Slots |-> removal'[c]]
        /\ \A c \in Slots : TimerRemoved(c) => TimerRemoved(c)'
    <3>1. CASE BeginRemoval(b)
      BY <1>0, <3>1, RemovalGoesOn DEF BeginRemoval
    <3>2. CASE RemoveStartEvent(b)
      BY <1>0, <3>2, RemovalGoesOn DEF RemoveStartEvent
    <3>3. CASE RemoveEndEvent(b)
      BY <1>0, <3>3, RemovalGoesOn DEF RemoveEndEvent
    <3>4. CASE DeleteRow(b)
      BY <1>0, <3>4, RemovalGoesOn DEF DeleteRow
    <3> QED
      BY <1>2, <3>1, <3>2, <3>3, <3>4
  <2>3. SchedulerTypes'
    BY <1>0, <2>1, <2>2 DEF SchedulerTypes, historyVars
  <2>4. /\ \A c \in cleared : Running(c)' => Running(c)
        /\ task'.at = "end" => \A c \in task'.booking : EndUtc[c] <= clock
    BY <1>0, <2>1 DEF Running, ClearedAtEnd
  <2> QED
    BY <2>1, <2>2, <2>3, <2>4, TaskKeeps
<1> QED
  BY <1>1, <1>2

\* Steps that change only jobs and lists.
LEMMA JobStepKeeps ==
  ASSUME SchedulerInv,
         \/ \E j \in Jobs : Submit(j) \/ Delete(j)
         \/ EnqueueAdmitted
         \/ \E line \in Lines : TakeJob(line)
  PROVE  SchedulerInv'
<1>0. SchedulerTypes /\ ClearedAtEnd
  BY DEF SchedulerInv
<1>1. UNCHANGED <<clock, removal, timer, reset, task, historyVars>>
  BY DEF Submit, Delete, EnqueueAdmitted, TakeJob
<1>2. pre' \in Seq(Arrivals)
  <2>1. ASSUME NEW j \in Jobs, Submit(j) PROVE pre' \in Seq(Arrivals)
    <3>1. PICK s \in {{}} \cup {{a} : a \in Active} :
            pre' = Append(pre, [job |-> j, booking |-> s])
      BY <2>1 DEF Submit
    <3>2. [job |-> j, booking |-> s] \in Arrivals
      BY DEF Arrivals, Active, stored
    <3> QED
      BY <1>0, <3>1, <3>2, Added DEF SchedulerTypes
  <2>2. ASSUME NEW j \in Jobs, Delete(j) PROVE pre' \in Seq(Arrivals)
    <3>1. pre' = pre \/ \E i \in DOMAIN pre : pre' = RemoveAt(pre, i)
      BY <2>2 DEF Delete
    <3>2. pre \in Seq(Arrivals) /\ DOMAIN pre = 1..Len(pre)
      BY <1>0 DEF SchedulerTypes
    <3> QED
      BY <3>1, <3>2, RemovedAt
  <2>3. CASE pre' = pre
    BY <1>0, <2>3 DEF SchedulerTypes
  <2> QED
    BY <2>1, <2>2, <2>3 DEF EnqueueAdmitted, TakeJob
<1>3. waitlist' \in Seq(Jobs)
  <2>1. waitlist' = waitlist \/ \E j \in Jobs : waitlist' = RemoveFirst(waitlist, j)
    BY DEF Submit, Delete, EnqueueAdmitted, TakeJob
  <2>2. waitlist \in Seq(Jobs) /\ \A j : RemoveFirst(waitlist, j) \in Seq(Jobs)
    BY <1>0, RemoveFirstSpec DEF SchedulerTypes
  <2> QED
    BY <2>1, <2>2
<1>4. SchedulerTypes'
  BY <1>0, <1>1, <1>2, <1>3 DEF SchedulerTypes, historyVars
<1>5. /\ \A c \in cleared : Running(c)' => Running(c)
      /\ \A c \in Slots : TimerRemoved(c) => TimerRemoved(c)'
      /\ task'.at = "end" => \A c \in task'.booking : EndUtc[c] <= clock
  BY <1>0, <1>1 DEF Running, TimerRemoved, ClearedAtEnd
<1> QED
  BY <1>1, <1>4, <1>5, TaskKeeps

\* A step of the handler, to the task t, that leaves the timers alone.
LEMMA HandlerKeeps ==
  ASSUME SchedulerInv, NEW t \in Tasks, task' = t, waitlist' \in Seq(Jobs),
         UNCHANGED <<clock, removal, timer, pre, reset, historyVars>>,
         \/ t.at = "idle"
         \/ t.booking = task.booking /\ t.at = task.at /\ t.at # "end"
         \/ t.at = "end" /\ \A b \in t.booking : EndUtc[b] <= clock
         \/ t.at = "timer" /\ \A b \in t.booking : timer[b] # NoTimer
         \/ t.booking = task.booking /\ task.at = "cleanup" /\ t.at = "move"
         \/ t.booking = task.booking /\ task.at = "timer" /\ t.at = "scan"
         \/ t.booking = task.booking /\ task.at = "scan" /\ t.at = "popped"
  PROVE  SchedulerInv'
<1>1. SchedulerTypes'
  BY DEF SchedulerInv, SchedulerTypes, historyVars
<1>2. \A b \in cleared : Running(b)' => Running(b) \/ timer[b] # NoTimer
  BY DEF Running
<1>3. \A c \in Slots : TimerRemoved(c) => TimerRemoved(c)'
  BY DEF TimerRemoved
<1>4. task'.at = "end" => \A b \in task'.booking : EndUtc[b] <= clock
  OBVIOUS
<1> QED
  BY <1>1, <1>2, <1>3, <1>4, TaskKeeps

\* What _pop_waitlist_to_booking takes is a position of the waitlist.
LEMMA ShortEnoughIs ==
  ASSUME SchedulerTypes, ShortEnough # 0
  PROVE  ShortEnough \in 1..Len(waitlist)
<1> DEFINE fits(j) == \A time \in task.limit : Duration[j] < time
           good == {i \in 1..Len(waitlist) : fits(waitlist[i])}
<1>1. Len(waitlist) \in Nat /\ DOMAIN waitlist = 1..Len(waitlist)
  BY LenProperties DEF SchedulerTypes
<1>2. ShortEnough = IF good # {} THEN Min(good) ELSE 0
  BY <1>1 DEF ShortEnough, SelectInSeq
<1>3. good \in SUBSET (1..Len(waitlist))
  OBVIOUS
<1> HIDE DEF good
<1>4. good # {} /\ ShortEnough = Min(good)
  BY <1>2
<1>5. Min(good) \in good
  BY <1>1, <1>3, <1>4, FirstOfIndices
<1> QED
  BY <1>3, <1>4, <1>5

\* The events and the first steps of a handler.
LEMMA EventKeeps ==
  ASSUME SchedulerInv, NEW b \in Slots, EndEvent(b) \/ TimerFires(b)
  PROVE  SchedulerInv'
<1>0. SchedulerTypes
  BY DEF SchedulerInv
<1>1. UNCHANGED <<clock, removal, timer, pre, waitlist, reset, historyVars>>
  BY DEF EndEvent, TimerFires, jobVars
<1>2. waitlist' \in Seq(Jobs) /\ timer[b] \in Timers
  BY <1>0, <1>1 DEF SchedulerTypes
<1> DEFINE e == [NoTask EXCEPT !.at = "end", !.booking = {b}]
           t == [NoTask EXCEPT !.at = "timer", !.booking = {b}, !.was = timer[b]]
<1>3. e \in Tasks /\ e.at = "end" /\ e.booking = {b}
  BY NothingTypes DEF NoTask, Tasks, AtMostOne
<1>4. t \in Tasks /\ t.at = "timer" /\ t.booking = {b}
  BY <1>2, NothingTypes DEF NoTask, Tasks, AtMostOne
<1>5. NoTask \in Tasks /\ NoTask.at = "idle"
  BY NothingTypes DEF NoTask
<1>6. \/ task' = NoTask
      \/ task' = e /\ EndUtc[b] <= clock
      \/ task' = t /\ timer[b] # NoTimer
  BY DEF EndEvent, TimerFires
<1> HIDE DEF e, t
<1>7. CASE task' = NoTask
  BY <1>1, <1>2, <1>5, <1>7, HandlerKeeps
<1>8. CASE task' = e /\ EndUtc[b] <= clock
  BY <1>1, <1>2, <1>3, <1>8, HandlerKeeps
<1>9. CASE task' = t /\ timer[b] # NoTimer
  BY <1>1, <1>2, <1>4, <1>9, HandlerKeeps
<1> QED
  BY <1>6, <1>7, <1>8, <1>9

\* What get_next_booking tells is a time.
LEMMA ReadNextKeeps ==
  ASSUME SchedulerInv, ReadNextBooking PROVE SchedulerInv'
<1>0. SchedulerTypes
  BY DEF SchedulerInv
<1>1. /\ UNCHANGED <<clock, removal, timer, pre, waitlist, reset, historyVars>>
      /\ task.at \in {"cleanup", "timer"}
  BY DEF ReadNextBooking, jobVars
<1> DEFINE limit == {StartUtc[b] - clock : b \in Upcoming}
           at == IF task.at = "cleanup" THEN "move" ELSE "scan"
           t == [task EXCEPT !.at = at, !.limit = limit]
<1>2. limit \in SUBSET Int
  BY <1>0, SlotFacts DEF SchedulerTypes, Upcoming, stored
<1> HIDE DEF limit
<1>3. t \in Tasks /\ t.booking = task.booking /\ t.at = at
  BY <1>0, <1>2 DEF SchedulerTypes, Tasks
<1>4. task' = t
  BY DEF ReadNextBooking, limit
<1>5. \/ task.at = "cleanup" /\ at = "move"
      \/ task.at = "timer" /\ at = "scan"
  BY <1>1
<1> HIDE DEF t, at
<1>6. waitlist' \in Seq(Jobs)
  BY <1>0, <1>1 DEF SchedulerTypes
<1> QED
  BY <1>1, <1>3, <1>4, <1>5, <1>6, HandlerKeeps

\* The cleanup moves jobs one by one.
LEMMA CleanupKeeps ==
  ASSUME SchedulerInv, MoveToNormal \/ EnqueueMoved \/ CleanupEnds
  PROVE  SchedulerInv'
<1>0. SchedulerTypes
  BY DEF SchedulerInv
<1>1. /\ UNCHANGED <<clock, removal, timer, pre, reset, historyVars>> /\ task.at = "move"
      /\ task \in Tasks /\ waitlist \in Seq(Jobs) /\ DOMAIN waitlist = 1..Len(waitlist)
  <2>1. CASE MoveToNormal
    BY <2>1, <1>0 DEF MoveToNormal, SchedulerTypes
  <2>2. CASE EnqueueMoved
    <3>1. UNCHANGED <<clock, removal, timer, pre, reset, historyVars>> /\ task.at = "move"
      BY <2>2 DEF EnqueueMoved
    <3>2. task \in Tasks /\ waitlist \in Seq(Jobs)
      BY <1>0 DEF SchedulerTypes
    <3> QED
      BY <3>1, <3>2
  <2>3. CASE CleanupEnds
    BY <2>3, <1>0 DEF CleanupEnds, SchedulerTypes, jobVars
  <2> QED
    BY <2>1, <2>2, <2>3
<1>2. NoTask \in Tasks /\ NoTask.at = "idle"
  BY NothingTypes DEF NoTask
<1>3. CASE MoveToNormal
  <2>1. PICK i \in DOMAIN waitlist : /\ waitlist' = RemoveAt(waitlist, i)
                                     /\ task' = [task EXCEPT !.job = {waitlist[i]}]
    BY <1>3 DEF MoveToNormal
  <2>2. waitlist' \in Seq(Jobs) /\ waitlist[i] \in Jobs
    BY <1>1, <2>1, RemovedAt
  <2> DEFINE t == [task EXCEPT !.job = {waitlist[i]}]
  <2>3. t \in Tasks /\ t.at = task.at /\ t.booking = task.booking
    BY <1>1, <2>2 DEF Tasks
  <2>4. task' = t
    BY <2>1
  <2> HIDE DEF t
  <2> QED
    BY <1>1, <2>2, <2>3, <2>4, HandlerKeeps
<1>4. CASE EnqueueMoved
  <2>1. PICK j \in task.job :
          \/ task' = NoTask
          \/ task' = [task EXCEPT !.job = {},
                                  !.limit = {time - Duration[j] : time \in @}]
    BY <1>4 DEF EnqueueMoved
  <2>2. waitlist' \in Seq(Jobs)
    BY <1>1, <1>4 DEF EnqueueMoved
  <2> DEFINE limit == {time - Duration[j] : time \in task.limit}
             t == [task EXCEPT !.job = {}, !.limit = limit]
  <2>3. limit \in SUBSET Int
    <3>1. j \in Jobs /\ task.limit \in SUBSET Int
      BY <1>1 DEF Tasks
    <3>2. Duration[j] \in Int
      BY <3>1, SlotFacts
    <3> QED
      BY <3>1, <3>2
  <2>4. task' = NoTask \/ task' = t
    BY <2>1
  <2> HIDE DEF limit
  <2>5. t \in Tasks /\ t.at = task.at /\ t.booking = task.booking
    BY <1>1, <2>3 DEF Tasks
  <2> HIDE DEF t
  <2>6. CASE task' = NoTask
    BY <1>1, <1>2, <2>2, <2>6, HandlerKeeps
  <2>7. CASE task' = t
    BY <1>1, <2>2, <2>5, <2>7, HandlerKeeps
  <2> QED
    BY <2>4, <2>6, <2>7
<1>5. CASE CleanupEnds
  <2>1. task' = NoTask /\ waitlist' \in Seq(Jobs)
    BY <1>1, <1>5 DEF CleanupEnds, jobVars
  <2> QED
    BY <1>1, <1>2, <2>1, HandlerKeeps
<1> QED
  BY <1>3, <1>4, <1>5

\* The run of a timer comes to its end: what becomes of the timer is overtaken if the
\* booking is over.
LEMMA RunEndKeeps ==
  ASSUME SchedulerInv, RunReturns \/ RunRaises, UNCHANGED waitlist,
         task.at \in {"scan", "moving"},
         UNCHANGED <<clock, removal, pre, reset, historyVars>>
  PROVE  SchedulerInv'
<1>0. /\ SchedulerTypes /\ RestartsLater /\ ClearedAtEnd /\ TimerOvertaken
      /\ ResetOvertaken /\ cleared' = cleared /\ overtaken' = overtaken
  BY DEF SchedulerInv, historyVars
<1>1. task' = NoTask /\ NoTask \in Tasks /\ NoTask.at = "idle"
  BY NothingTypes DEF RunReturns, RunRaises, NoTask
<1>2. /\ timer' \in [Slots -> Timers]
      /\ \A b \in Slots : \/ timer'[b] = timer[b] \/ timer'[b] = NoTimer
                          \/ b \in task.booking
  <2>1. CASE RunReturns
    <3>1. PICK b \in task.booking : \E t \in AfterRun(b) : timer' = [timer EXCEPT ![b] = t]
      BY <2>1 DEF RunReturns
    <3>2. PICK t \in AfterRun(b) : timer' = [timer EXCEPT ![b] = t]
      BY <3>1
    <3>3. b \in Slots /\ task.was \in Timers /\ clock \in Nat /\ timer[b] \in Timers
      BY <1>0, <3>1 DEF SchedulerTypes, Tasks, AtMostOne
    <3>4. MaxIdle \in Nat
      BY SlotFacts
    <3> DEFINE again == [due |-> clock + MaxIdle, left |-> task.was.left - 1]
    <3>5. again \in Timers
      BY <3>3, <3>4 DEF Timers
    <3> HIDE DEF again
    <3>6. t = again \/ t = timer[b] \/ t = NoTimer
      BY <3>2 DEF AfterRun, again
    <3>7. t \in Timers
      BY <3>3, <3>5, <3>6, NothingTypes
    <3> QED
      BY <1>0, <3>1, <3>2, <3>3, <3>7 DEF SchedulerTypes
  <2>2. CASE RunRaises
    BY <1>0, <2>2, NothingTypes DEF RunRaises, SchedulerTypes
  <2> QED
    BY <2>1, <2>2
<1>3. SchedulerTypes'
  BY <1>0, <1>1, <1>2 DEF SchedulerTypes
<1>4. RestartsLater'
  BY <1>0 DEF RestartsLater
<1>5. ClearedAtEnd'
  BY <1>0, <1>1 DEF ClearedAtEnd, TimerRemoved
<1>6. TimerOvertaken'
  <2> SUFFICES ASSUME NEW b \in cleared, timer'[b] # NoTimer PROVE b \in overtaken
    BY <1>0, <1>1 DEF TimerOvertaken, Running
  <2>1. b \in Slots
    BY <1>0 DEF SchedulerTypes
  <2>2. CASE b \in task.booking
    BY <1>0, <2>2 DEF TimerOvertaken, Running
  <2>3. CASE timer'[b] = timer[b]
    BY <1>0, <2>3 DEF TimerOvertaken
  <2> QED
    BY <1>2, <2>1, <2>2, <2>3
<1>7. ResetOvertaken'
  BY <1>0 DEF ResetOvertaken, Resetting
<1> QED
  BY <1>3, <1>4, <1>5, <1>6, <1>7 DEF SchedulerInv

\* A run of a timer finds a job, or comes to its end.
LEMMA RunKeeps ==
  ASSUME SchedulerInv, PopToBooking \/ EnqueueOnBooked PROVE SchedulerInv'
<1>0. SchedulerTypes
  BY DEF SchedulerInv
<1>1. UNCHANGED <<clock, removal, pre, reset, historyVars>> /\ task.at \in {"scan", "moving"}
  BY DEF PopToBooking, EnqueueOnBooked
<1>2. \/ UNCHANGED waitlist /\ (RunReturns \/ RunRaises)
      \/ /\ ShortEnough # 0 /\ waitlist' = RemoveAt(waitlist, ShortEnough)
         /\ task.at = "scan" /\ UNCHANGED timer
         /\ task' = [task EXCEPT !.at = "popped", !.job = {waitlist[ShortEnough]}]
  BY DEF PopToBooking, EnqueueOnBooked
<1>3. CASE UNCHANGED waitlist /\ (RunReturns \/ RunRaises)
  BY <1>1, <1>3, RunEndKeeps
<1>4. CASE /\ ShortEnough # 0 /\ waitlist' = RemoveAt(waitlist, ShortEnough)
           /\ task.at = "scan" /\ UNCHANGED timer
           /\ task' = [task EXCEPT !.at = "popped", !.job = {waitlist[ShortEnough]}]
  <2> DEFINE k == ShortEnough
             t == [task EXCEPT !.at = "popped", !.job = {waitlist[k]}]
  <2>1. k \in 1..Len(waitlist) /\ waitlist \in Seq(Jobs) /\ task \in Tasks
    BY <1>0, <1>4, ShortEnoughIs DEF SchedulerTypes
  <2>2. waitlist' = RemoveAt(waitlist, k) /\ task' = t
    BY <1>4
  <2> HIDE DEF k
  <2>3. waitlist' \in Seq(Jobs) /\ waitlist[k] \in Jobs
    BY <2>1, <2>2, RemovedAt
  <2>4. t \in Tasks /\ t.at = "popped" /\ t.booking = task.booking
    BY <2>1, <2>3 DEF Tasks
  <2> HIDE DEF t
  <2> QED
    BY <1>1, <1>4, <2>2, <2>3, <2>4, HandlerKeeps
<1> QED
  BY <1>2, <1>3, <1>4

\* What is over stays over.
LEMMA ClockTicksKeeps ==
  ASSUME SchedulerInv, ClockTicks PROVE SchedulerInv'
<1>0. /\ SchedulerTypes /\ RestartsLater /\ ClearedAtEnd /\ TimerOvertaken /\ ResetOvertaken
  BY DEF SchedulerInv
<1>1. /\ UNCHANGED <<removal, timer, pre, waitlist, reset, task, cleared, overtaken>>
      /\ clock' = clock + 1 /\ clock \in Nat
  BY <1>0 DEF ClockTicks, SchedulerTypes, jobVars, historyVars
<1>2. \A b \in Slots : EndUtc[b] <= clock => EndUtc[b] <= clock'
  BY <1>1, SlotFacts
<1>3. SchedulerTypes' /\ RestartsLater' /\ TimerOvertaken'
  BY <1>0, <1>1 DEF SchedulerTypes, RestartsLater, TimerOvertaken, Running
<1>4. ClearedAtEnd'
  <2>1. cleared \subseteq Slots /\ task.booking \subseteq Slots
    BY <1>0 DEF SchedulerTypes, Tasks, AtMostOne
  <2> QED
    BY <1>0, <1>1, <1>2, <2>1 DEF ClearedAtEnd, TimerRemoved
<1>5. ResetOvertaken'
  BY <1>0, <1>1, <1>2 DEF ResetOvertaken, Resetting, SchedulerTypes
<1> QED
  BY <1>3, <1>4, <1>5 DEF SchedulerInv

\* Every step of the scheduler keeps the invariant.
LEMMA NextScheduler == SchedulerInv /\ [SchedulerNext]_schedulerVars => SchedulerInv'
<1> SUFFICES ASSUME SchedulerInv, [SchedulerNext]_schedulerVars PROVE SchedulerInv'
  OBVIOUS
<1>1. ASSUME NEW w \in Workers,
             ReadForReset(w) \/ CancelForReset(w) \/ ComputeRepeats(w) \/ ScheduleTimer(w)
      PROVE  SchedulerInv'
  BY <1>1, ReadKeeps, CancelKeeps, ComputeKeeps, ScheduleKeeps
<1>2. CASE \/ \E j \in Jobs : Submit(j) \/ Delete(j)
           \/ EnqueueAdmitted
           \/ \E line \in Lines : TakeJob(line)
  BY <1>2, JobStepKeeps
<1>3. CASE Preprocess
  BY <1>3, PreprocessKeeps
<1>4. ASSUME NEW b \in Slots, StartEvent(b) \/ EndEvent(b) \/ TimerFires(b)
      PROVE  SchedulerInv'
  BY <1>4, StartEventKeeps, EventKeeps
<1>5. CASE \/ ClearAtEnd \/ ReadNextBooking \/ MoveToNormal \/ EnqueueMoved \/ CleanupEnds
  BY <1>5, ClearAtEndKeeps, ReadNextKeeps, CleanupKeeps
<1>6. CASE PopToBooking \/ ReadActiveBooking \/ EnqueueOnBooked
  BY <1>6, RunKeeps, ReadActiveKeeps
<1>7. ASSUME NEW b \in Slots,
             \/ BeginRemoval(b) \/ RemoveTimer(b) \/ RemoveStartEvent(b)
             \/ RemoveEndEvent(b) \/ DeleteRow(b)
      PROVE  SchedulerInv'
  BY <1>7, RemovalKeeps
<1>8. CASE ClockTicks
  BY <1>8, ClockTicksKeeps
<1>9. CASE UNCHANGED schedulerVars
  BY <1>9 DEF schedulerVars, SchedulerInv, SchedulerTypes, RestartsLater, ClearedAtEnd,
              TimerOvertaken, ResetOvertaken, Running, Resetting, TimerRemoved
<1> QED
  BY <1>1, <1>2, <1>3, <1>4, <1>5, <1>6, <1>7, <1>8, <1>9 DEF SchedulerNext

\* However the workers and the API interleave, and whatever the delays, no timer
\* outlives the end or the removal of its booking but one that was overtaken.
THEOREM TimerCorrect == SchedulerSpec => []TimerEndsUnlessOvertaken
<1>1. SchedulerInv => TimerEndsUnlessOvertaken
  BY DEF SchedulerInv, TimerOvertaken, TimerEndsUnlessOvertaken
<1> QED
  BY <1>1, InitScheduler, NextScheduler, PTL DEF SchedulerSpec
=============================================================================
