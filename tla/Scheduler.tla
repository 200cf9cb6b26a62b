----------------------------- MODULE Scheduler -----------------------------
(***************************************************************************)
(* Where a job goes and when: admission to the execution queues against    *)
(* the bookings, the events of a booking and its idle timer, the moves     *)
(* from the waitlist, and the removal of bookings.                         *)
(*                                                                         *)
(* Three processes interleave: the preprocessing worker, the general       *)
(* worker, which runs the events and the timers one after the other, and   *)
(* the API, which removes bookings and jobs.  A step is one access to what *)
(* they share: the bookings table, or RQ's jobs.  Time is discrete and     *)
(* waits for nobody: every handler may be late, and slow.                  *)
(***************************************************************************)
EXTENDS Integers, Sequences, SequencesExt, FiniteSets, FiniteSetsExt

CONSTANTS
  Jobs,       \* the job ids; each is submitted at most once
  Duration,   \* Duration[j]: the estimated duration of job j
  Owner,      \* Owner[j]: the user of job j
  Slots,      \* the ids of the bookings that were made
  StartUtc,   \* StartUtc[b] and EndUtc[b]: the span of booking b
  EndUtc,
  Booker,     \* Booker[b]: the user of booking b
  MaxIdle,    \* MAX_IDLE_TIME
  LastTick,   \* bound on the clock
  MaxRemovals \* bound on the number of bookings that are removed

ASSUME JobAssumption == Duration \in [Jobs -> Nat \ {0}]
ASSUME SlotAssumption ==
  /\ StartUtc \in [Slots -> Nat \ {0}]
  /\ EndUtc \in [Slots -> Nat]
  /\ \A b \in Slots : StartUtc[b] < EndUtc[b]
  /\ \A b, c \in Slots : b # c => EndUtc[b] <= StartUtc[c] \/ EndUtc[c] <= StartUtc[b]
ASSUME UserAssumption == DOMAIN Owner = Jobs /\ DOMAIN Booker = Slots
ASSUME IdleAssumption == MaxIdle \in Nat \ {0}
ASSUME BoundAssumption == LastTick \in Nat /\ MaxRemovals \in Nat

VARIABLES
  clock,     \* the clock
  removal,   \* removal[b]: how far the API has come with removing booking b
  startEv,   \* the bookings whose start event is scheduled
  endEv,     \* the bookings whose end event is scheduled
  timer,     \* timer[b]: the idle timer of booking b: when due, and repeats left
  pre,       \* the preprocessing queue: jobs with the booking they came in
  admitted,  \* the job that preprocessing has admitted and not yet enqueued
  waitlist,  \* the waitlist
  queue,     \* queue.normal and queue.booked: the execution queues
  reset,     \* reset[w]: the call of reset_idleness_timer in progress at worker w
  task,      \* the handler that the general worker runs
  seen,      \* history: the jobs submitted so far
  deleted,   \* the jobs that were cancelled and deleted
  cleared,   \* history: the bookings whose timer was cancelled for good
  overtaken  \* history: of these, the ones with a reset or a run under way

schedulerVars == <<clock, removal, startEv, endEv, timer, pre, admitted, waitlist,
                   queue, reset, task, seen, deleted, cleared, overtaken>>
jobVars == <<pre, admitted, waitlist, queue, seen, deleted>>
eventVars == <<startEv, endEv>>
historyVars == <<cleared, overtaken>>

Lines == {"normal", "booked"}
Workers == {"preprocessing", "general"}
NoTimer == [due |-> 0, left |-> 0]

\* The local variables of reset_idleness_timer: its booking, if it is in progress,
\* where it is, its parameters, and the repetitions it has computed.
NoReset == [booking |-> {}, at |-> "read", restart |-> 0, maxIdle |-> 0, times |-> 0]
Reset(b, restart, maxIdle) ==
  [booking |-> {b}, at |-> "read", restart |-> restart, maxIdle |-> maxIdle,
   times |-> 0]

\* The local variables of the general worker's handler: where it is, its booking,
\* for a timer what it was when it was taken, the time to the next booking if there
\* is one, and the job in its hand.
NoTask == [at |-> "idle", booking |-> {}, was |-> NoTimer, limit |-> {}, job |-> {}]

\* submit_booking has scheduled both events of each booking.
SchedulerInit ==
  /\ clock = 0
  /\ removal = [b \in Slots |-> "none"]
  /\ startEv = Slots
  /\ endEv = Slots
  /\ timer = [b \in Slots |-> NoTimer]
  /\ pre = <<>>
  /\ admitted = {}
  /\ waitlist = <<>>
  /\ queue = [line \in Lines |-> <<>>]
  /\ reset = [w \in Workers |-> NoReset]
  /\ task = NoTask
  /\ seen = {}
  /\ deleted = {}
  /\ cleared = {}
  /\ overtaken = {}

-----------------------------------------------------------------------------
(* Queries.                                                                *)

stored == {b \in Slots : removal[b] # "removed"}

\* get_active_booking may return any of these.
Active == {b \in stored : StartUtc[b] <= clock /\ clock <= EndUtc[b]}

\* get_next_booking, as a set of at most one booking.
Upcoming ==
  {b \in stored :
     /\ StartUtc[b] >= clock
     /\ \A c \in stored : StartUtc[c] >= clock => StartUtc[b] <= StartUtc[c]}

\* total_duration of a queue: the jobs on the list.
Total(line) == MapThenSumSet(LAMBDA j : Duration[j], ToSet(queue[line]))

PushToWaitlist(j) == waitlist' = Append(waitlist, j)

Enqueue(line, j) == queue' = [queue EXCEPT ![line] = Append(@, j)]

-----------------------------------------------------------------------------
(* reset_idleness_timer: the booking is read, the old timer is cancelled,  *)
(* the repetitions are computed, the new timer is scheduled.               *)

\* A reset of b has read its row; or its timer is being run.
Resetting(w, b) == b \in reset[w].booking /\ reset[w].at # "read"
Running(b) == task.at \in {"timer", "scan", "popped", "moving"} /\ b \in task.booking
UnderWay(b) == Running(b) \/ \E w \in Workers : Resetting(w, b)

\* Has the API cancelled the timer of b for the removal of b?
TimerRemoved(b) == removal[b] \in {"timer", "start", "end", "removed"}

FaultReadForReset(w) ==
  /\ reset[w].booking # {}
  /\ reset[w].at = "read"
  /\ reset' = [reset EXCEPT ![w].at = "cancel"]
  /\ overtaken' = overtaken \cup
                    {b \in reset[w].booking : b \in stored /\ TimerRemoved(b)}
  /\ UNCHANGED <<clock, removal, eventVars, timer, jobVars, task, cleared>>

\* Without its row nothing is reset.
ReadForReset(w) ==
  /\ reset[w].booking # {}
  /\ reset[w].at = "read"
  /\ reset' = IF reset[w].booking \subseteq stored
              THEN [reset EXCEPT ![w].at = "cancel"]
              ELSE [reset EXCEPT ![w] = NoReset]
  /\ overtaken' = overtaken \cup
                    {b \in reset[w].booking : b \in stored /\ TimerRemoved(b)}
  /\ UNCHANGED <<clock, removal, eventVars, timer, jobVars, task, cleared>>

CancelForReset(w) ==
  /\ reset[w].at = "cancel"
  /\ timer' = [b \in Slots |-> IF b \in reset[w].booking THEN NoTimer ELSE timer[b]]
  /\ reset' = [reset EXCEPT ![w].at = "compute"]
  /\ UNCHANGED <<clock, removal, eventVars, jobVars, task, historyVars>>

\* Near the end of the booking, or after it, there is no new timer.
ComputeRepeats(w) ==
  /\ reset[w].at = "compute"
  /\ \E b \in reset[w].booking :
       LET duration == EndUtc[b] - clock - reset[w].restart
           maxIdle == reset[w].maxIdle
       IN reset' = IF duration < maxIdle
                   THEN [reset EXCEPT ![w] = NoReset]
                   ELSE [reset EXCEPT
                           ![w].at = "schedule",
                           ![w].times = IF maxIdle > 0 THEN duration \div maxIdle
                                                       ELSE 0]
  /\ UNCHANGED <<clock, removal, eventVars, timer, jobVars, task, historyVars>>

\* enqueue_in, with RQ's Repeat(times), which runs a job times more.
ScheduleTimer(w) ==
  /\ reset[w].at = "schedule"
  /\ timer' = [b \in Slots |->
                 IF b \in reset[w].booking
                 THEN [due |-> clock + reset[w].restart, left |-> reset[w].times]
                 ELSE timer[b]]
  /\ reset' = [reset EXCEPT ![w] = NoReset]
  /\ UNCHANGED <<clock, removal, eventVars, jobVars, task, historyVars>>

-----------------------------------------------------------------------------
(* Jobs come in, are compiled, and may be deleted.                         *)

\* submit_job_file stores the booking that is active at this moment.
Submit(j) ==
  /\ j \notin seen
  /\ seen' = seen \cup {j}
  /\ \E b \in {{}} \cup {{a} : a \in Active} :
       /\ (b = {}) = (Active = {})
       /\ pre' = Append(pre, [job |-> j, booking |-> b])
  /\ UNCHANGED <<clock, removal, eventVars, timer, admitted, waitlist, queue, reset,
                 task, deleted, historyVars>>

\* delete_job takes the job off the queues, and deletes its record.  A worker that
\* holds the job raises when it updates the record.  The job that is being compiled
\* is the head of pre.
Delete(j) ==
  /\ j \in seen \ deleted
  /\ deleted' = deleted \cup {j}
  /\ \/ /\ \A i \in DOMAIN pre : pre[i].job # j
        /\ UNCHANGED pre
     \/ \E i \in DOMAIN pre : pre[i].job = j /\ pre' = RemoveAt(pre, i)
  /\ waitlist' = RemoveFirst(waitlist, j)
  /\ queue' = [line \in Lines |-> RemoveFirst(queue[line], j)]
  /\ UNCHANGED <<clock, removal, eventVars, timer, admitted, reset, task, seen,
                 historyVars>>

\* _try_enqueue_on_normal_queue
TryNormal(j) ==
  /\ \/ /\ \E b \in Upcoming : Duration[j] > StartUtc[b] - clock - Total("normal")
        /\ PushToWaitlist(j)
        /\ UNCHANGED queue
     \/ /\ \A b \in Upcoming : Duration[j] <= StartUtc[b] - clock - Total("normal")
        /\ Enqueue("normal", j)
        /\ UNCHANGED waitlist
  /\ UNCHANGED <<admitted, reset>>

\* _try_enqueue_on_booked_queue: the booking may be over, or deleted, by now.
\* force_normal_queue is never set.  A job that is too long is failed.
TryBooked(j, b) ==
  IF b \in stored /\ Owner[j] = Booker[b]
  THEN /\ IF Duration[j] > EndUtc[b] - StartUtc[b] - Total("booked")
          THEN UNCHANGED <<admitted, reset>>
          ELSE /\ admitted' = {j}
               /\ reset' = [reset EXCEPT !["preprocessing"] =
                              Reset(b, Duration[j], MaxIdle)]
       /\ UNCHANGED <<waitlist, queue>>
  ELSE PushToWaitlist(j) /\ UNCHANGED <<queue, admitted, reset>>

Preprocess ==
  /\ admitted = {}
  /\ pre # <<>>
  /\ pre' = Tail(pre)
  /\ \/ Head(pre).booking = {} /\ TryNormal(Head(pre).job)
     \/ \E b \in Head(pre).booking : TryBooked(Head(pre).job, b)
  /\ UNCHANGED <<clock, removal, eventVars, timer, task, seen, deleted, historyVars>>

\* After the reset of the timer.
EnqueueAdmitted ==
  /\ reset["preprocessing"] = NoReset
  /\ \E j \in admitted :
       IF j \in deleted THEN UNCHANGED queue ELSE Enqueue("booked", j)
  /\ admitted' = {}
  /\ UNCHANGED <<clock, removal, eventVars, timer, pre, waitlist, reset, task, seen,
                 deleted, historyVars>>

\* The worker of an execution queue takes its next job (RunnerQueue, JobLifecycle).
TakeJob(line) ==
  /\ queue[line] # <<>>
  /\ queue' = [queue EXCEPT ![line] = Tail(@)]
  /\ UNCHANGED <<clock, removal, eventVars, timer, pre, admitted, waitlist, reset,
                 task, seen, deleted, historyVars>>

-----------------------------------------------------------------------------
(* The general worker: one handler at a time.                              *)

Idle == task = NoTask /\ reset["general"] = NoReset

StartEvent(b) ==
  /\ Idle
  /\ b \in startEv
  /\ StartUtc[b] <= clock
  /\ startEv' = startEv \ {b}
  /\ reset' = [reset EXCEPT !["general"] = Reset(b, 0, MaxIdle)]
  /\ UNCHANGED <<clock, removal, endEv, timer, jobVars, task, historyVars>>

\* post_booking_cleanup reads the booking, and returns if there is none.
EndEvent(b) ==
  /\ Idle
  /\ b \in endEv
  /\ EndUtc[b] <= clock
  /\ endEv' = endEv \ {b}
  /\ task' = IF b \in stored THEN [NoTask EXCEPT !.at = "end", !.booking = {b}]
                             ELSE NoTask
  /\ UNCHANGED <<clock, removal, startEv, timer, jobVars, reset, historyVars>>

\* The timer of b is cancelled for good: what is under way comes after it.
ClearTimer(b) ==
  /\ timer' = [timer EXCEPT ![b] = NoTimer]
  /\ cleared' = cleared \cup {b}
  /\ overtaken' = IF UnderWay(b) THEN overtaken \cup {b} ELSE overtaken

ClearAtEnd ==
  /\ task.at = "end"
  /\ \E b \in task.booking : ClearTimer(b)
  /\ task' = [task EXCEPT !.at = "cleanup"]
  /\ UNCHANGED <<clock, removal, eventVars, jobVars, reset>>

\* The timer is still RQ's while it runs: it can be cancelled and replaced.
TimerFires(b) ==
  /\ Idle
  /\ timer[b] # NoTimer
  /\ timer[b].due <= clock
  /\ task' = [NoTask EXCEPT !.at = "timer", !.booking = {b}, !.was = timer[b]]
  /\ UNCHANGED <<clock, removal, eventVars, timer, jobVars, reset, historyVars>>

\* get_next_booking, in the cleanup and in the run of a timer.
ReadNextBooking ==
  /\ task.at \in {"cleanup", "timer"}
  /\ task' = [task EXCEPT !.at = IF task.at = "cleanup" THEN "move" ELSE "scan",
                          !.limit = {StartUtc[b] - clock : b \in Upcoming}]
  /\ UNCHANGED <<clock, removal, eventVars, timer, jobVars, reset, historyVars>>

\* pop_many in the cleanup takes a job that is not too long.  Which of them, in
\* batches, is the subject of Waitlist; here it is left open.
MoveToNormal ==
  /\ task.at = "move"
  /\ task.job = {}
  /\ \E i \in DOMAIN waitlist :
       /\ \A time \in task.limit : Duration[waitlist[i]] <= time
       /\ waitlist' = RemoveAt(waitlist, i)
       /\ task' = [task EXCEPT !.job = {waitlist[i]}]
  /\ UNCHANGED <<clock, removal, eventVars, timer, pre, admitted, queue, reset, seen,
                 deleted, historyVars>>

\* A job without record makes the cleanup raise.
EnqueueMoved ==
  /\ task.at = "move"
  /\ \E j \in task.job :
       IF j \in deleted
       THEN task' = NoTask /\ UNCHANGED queue
       ELSE /\ task' = [task EXCEPT !.job = {},
                                    !.limit = {time - Duration[j] : time \in @}]
            /\ Enqueue("normal", j)
  /\ UNCHANGED <<clock, removal, eventVars, timer, pre, admitted, waitlist, reset, seen,
                 deleted, historyVars>>

\* pop_many has come to its end, or pop_job has raised: see Waitlist.
CleanupEnds ==
  /\ task.at = "move"
  /\ task.job = {}
  /\ task' = NoTask
  /\ UNCHANGED <<clock, removal, eventVars, timer, jobVars, reset, historyVars>>

-----------------------------------------------------------------------------
(* The run of a timer, _pop_waitlist_to_booking.                           *)

\* What RQ does with a timer that has run: it is scheduled anew while repetitions
\* are left.  If it was cancelled or reset during the run, under the same id, it is
\* left open what stays.
AfterRun(b) ==
  LET repeated == IF task.was.left = 0 THEN {}
                  ELSE {[due |-> clock + MaxIdle, left |-> task.was.left - 1]}
  IN IF timer[b] # task.was THEN repeated \cup {timer[b]}
     ELSE IF repeated = {} THEN {NoTimer} ELSE repeated

RunReturns ==
  /\ task' = NoTask
  /\ \E b \in task.booking : \E t \in AfterRun(b) : timer' = [timer EXCEPT ![b] = t]

\* A run that raises is not repeated.
RunRaises ==
  /\ task' = NoTask
  /\ timer' = [b \in Slots |->
                 IF b \in task.booking /\ timer[b] = task.was THEN NoTimer ELSE timer[b]]

\* pop_first: the first job on the waitlist that is shorter than the time to the
\* next booking.
ShortEnough ==
  SelectInSeq(waitlist, LAMBDA j : \A time \in task.limit : Duration[j] < time)

\* A cancel between the LRANGE of pop_first and its pop_job makes it raise.
PopToBooking ==
  /\ task.at = "scan"
  /\ \/ /\ ShortEnough = 0
        /\ RunReturns
        /\ UNCHANGED waitlist
     \/ /\ ShortEnough # 0
        /\ waitlist' = RemoveAt(waitlist, ShortEnough)
        /\ task' = [task EXCEPT !.at = "popped", !.job = {waitlist[ShortEnough]}]
        /\ UNCHANGED timer
     \/ /\ deleted # {}
        /\ RunRaises
        /\ UNCHANGED waitlist
  /\ UNCHANGED <<clock, removal, eventVars, pre, admitted, queue, reset, seen, deleted,
                 historyVars>>

\* The timer of the active booking is to run once more, after this job.
ReadActiveBooking ==
  /\ task.at = "popped"
  /\ task' = [task EXCEPT !.at = "moving"]
  /\ \/ Active = {} /\ UNCHANGED reset
     \/ \E a \in Active, j \in task.job :
          reset' = [reset EXCEPT !["general"] = Reset(a, Duration[j], 0)]
  /\ UNCHANGED <<clock, removal, eventVars, timer, jobVars, historyVars>>

\* After the reset.  A job without record makes the run raise.
EnqueueOnBooked ==
  /\ task.at = "moving"
  /\ reset["general"] = NoReset
  /\ \E j \in task.job :
       IF j \in deleted THEN RunRaises /\ UNCHANGED queue
                        ELSE RunReturns /\ Enqueue("booked", j)
  /\ UNCHANGED <<clock, removal, eventVars, pre, admitted, waitlist, reset, seen,
                 deleted, historyVars>>

-----------------------------------------------------------------------------
(* The API removes a booking: cancel_booking before it begins, or          *)
(* delete_user_profile of its owner before it ends.  The first command of  *)
(* _cancel_booking_from_queues follows the query by any delay.             *)

BeginRemoval(b) ==
  /\ removal[b] = "none"
  /\ clock < EndUtc[b]
  /\ Cardinality({c \in Slots : removal[c] # "none"}) < MaxRemovals
  /\ removal' = [removal EXCEPT ![b] = "begun"]
  /\ UNCHANGED <<clock, eventVars, timer, jobVars, reset, task, historyVars>>

RemoveTimer(b) ==
  /\ removal[b] = "begun"
  /\ ClearTimer(b)
  /\ removal' = [removal EXCEPT ![b] = "timer"]
  /\ UNCHANGED <<clock, eventVars, jobVars, reset, task>>

RemoveStartEvent(b) ==
  /\ removal[b] = "timer"
  /\ startEv' = startEv \ {b}
  /\ removal' = [removal EXCEPT ![b] = "start"]
  /\ UNCHANGED <<clock, endEv, timer, jobVars, reset, task, historyVars>>

RemoveEndEvent(b) ==
  /\ removal[b] = "start"
  /\ endEv' = endEv \ {b}
  /\ removal' = [removal EXCEPT ![b] = "end"]
  /\ UNCHANGED <<clock, startEv, timer, jobVars, reset, task, historyVars>>

DeleteRow(b) ==
  /\ removal[b] = "end"
  /\ removal' = [removal EXCEPT ![b] = "removed"]
  /\ UNCHANGED <<clock, eventVars, timer, jobVars, reset, task, historyVars>>

-----------------------------------------------------------------------------
ClockTicks ==
  /\ clock < LastTick
  /\ clock' = clock + 1
  /\ UNCHANGED <<removal, eventVars, timer, jobVars, reset, task, historyVars>>

SchedulerNext ==
  \/ \E w \in Workers :
       ReadForReset(w) \/ CancelForReset(w) \/ ComputeRepeats(w) \/ ScheduleTimer(w)
  \/ \E j \in Jobs : Submit(j) \/ Delete(j)
  \/ Preprocess \/ EnqueueAdmitted
  \/ \E line \in Lines : TakeJob(line)
  \/ \E b \in Slots : StartEvent(b) \/ EndEvent(b) \/ TimerFires(b)
  \/ ClearAtEnd \/ ReadNextBooking \/ MoveToNormal \/ EnqueueMoved \/ CleanupEnds
  \/ PopToBooking \/ ReadActiveBooking \/ EnqueueOnBooked
  \/ \E b \in Slots : \/ BeginRemoval(b) \/ RemoveTimer(b) \/ RemoveStartEvent(b)
                      \/ RemoveEndEvent(b) \/ DeleteRow(b)
  \/ ClockTicks

SchedulerSpec == SchedulerInit /\ [][SchedulerNext]_schedulerVars

-----------------------------------------------------------------------------
(* Properties.                                                             *)

\* The idle timer ends with its booking.  Once post_booking_cleanup or the removal
\* of a booking has cancelled its timer, however late, there is no timer of this
\* booking again, whatever resets and repeats timers; with one exception: the timer
\* was just running, or a call of reset_idleness_timer had read the row of the
\* booking before it was deleted and was not done when the timer was cancelled.
TimerEndsUnlessOvertaken ==
  \A b \in cleared : timer[b] # NoTimer => b \in overtaken

-----------------------------------------------------------------------------
(* What the documentation (docs/booking_and_queuing.md) says.              *)

\* "if a job's length is greater than the time left to the end of the slot, it
\* fails immediately": what preprocessing admits to the booked queue fits.
BookedJobFitsSlot ==
  [][\A b \in Slots :
       (admitted = {} /\ admitted' # {} /\ b \in Head(pre).booking) =>
         Duration[Head(pre).job] <= EndUtc[b] - clock]_schedulerVars

=============================================================================
