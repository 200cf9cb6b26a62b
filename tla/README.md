# A formal model of the Tergite backend

The Tergite backend (`src/app`) is the server in front of one quantum computer.
It takes jobs over HTTP, compiles them, runs them on the machine one at a time,
and processes the results. Users can book the machine for a time slot; outside
of the slots, and when a booker is idle, the others' jobs run.

This directory holds TLA+ models of the parts that are concurrent or stateful,
TLC configurations that check them on small instances, and proofs checked by
TLAPS.

## 1. The system

| Component | State it keeps | Operations | Modules |
|---|---|---|---|
| Static and runner queues (`libs/queues/types.py`) | a Redis list, two hashes, a running total of durations; an RQ queue of tickets | `enqueue`, `next`, `pop_job`, `pop_first`, `pop_many`, `cancel_job` | `StaticQueue`, `RunnerQueue`, `AbstractQueue` |
| Waitlist (`services/scheduler/tasks.py`) | one static queue without worker | push; move one to a booking; move as many as fit to the normal queue | `Waitlist` |
| Bookings and users (`services/booking`) | SQLite tables of users and bookings | create, cancel, delete account | `Bookings` |
| Job lifecycle (`services/scheduler/{tasks,utils,service}.py`) | the job record in Redis (`utils/redis_store.py`) | submit, `preprocess`, `execute`, `postprocess`, callbacks, cancel, delete | `JobLifecycle` |
| Scheduler timing (`tasks.py`, `service.py`) | RQ scheduled jobs, idle timers, both execution queues | admission against the bookings, resets and runs of the idle timer, post-booking cleanup, removal of bookings | `Scheduler` |
| Recalibration (`tasks.py`, `service.py`) | one RQ queue and its scheduled registry | start, stop, self-rescheduling | `Recalibration` |
| Redis collections (`utils/redis_store.py`) | hash of records, secondary indexes, expiry | insert, update, delete, find by index | `Collection`; `update` also in `JobLifecycle` |
| REST API (`api/`) | none of its own | handlers, authentication | as the requests of `Bookings` and `JobLifecycle` |
| MSS client (`services/external/mss`) | pipes of workers and API; Redis pub/sub; one websocket client with its readers | open, send, receive, time out; connect, retry, forward, reply | `MssPipe` |
| Quantify compiler (`libs/quantum_executor/quantify/{experiment,instruction,channel}.py`) | playbacks and clocks of the channels, the schedule | register instructions, merge the channels slot by slot, tail idle | `Schedule` |
| Executors (`libs/quantum_executor/{base,quantify}`) | the currents of the couplers, the file of results, a file lock | `preprocess`, `run`, bias and reset, save, discriminate or integrate | `Execution`, `Readout` |
| Device parameters, Qobj, converters, logging | – | parsing and formatting | not modelled |

### How the parts interact

A process per queue works on Redis (`start_bcc.sh` starts one RQ worker for each
queue), and the API process works on the same keys. The handlers of the API are
`async` functions that never await between the commands of one request, so the
API serves one request at a time; the workers run concurrently with it and with
each other. There are no transactions larger than one `MULTI`/`EXEC` pipeline.

A job goes `preprocessing queue -> (waitlist ->) normal or booked execution queue
-> postprocessing queue`. Each runner queue consists of two halves: the static
queue, which holds jobs in order, and an RQ queue of tickets. A ticket does not
name a job: the RQ worker that takes a ticket runs whatever is in front of the
static queue then (`_run_next_job`).

### What is hard

- Cancel and delete requests race with the workers at every Redis command:
  between the `LPOP` and the pipeline of `next`, between the `LRANGE` and the
  `pop_job` of `pop_many`, between the read and the write of `Collection.update`.
- Processes are killed between the two halves of an operation.
- Cached numbers (the running total, the duration in a storage id) go stale.
- Redis records expire on their own, and secondary indexes are kept by hand.
- Recalibrations reschedule themselves while requests start and stop them.
- The way to MSS goes over two pub/sub channels, which keep nothing, and over a client
  whose attempts to connect each leave a subscription and a reader behind.
- The instruments outlive the processes that use them: a bias that a job leaves
  on a coupler is there when the next one measures.
- A qubit has two numbers (its physical id, and its position in the SDK), and results
  are matched with experiments by their position after sorting names.
- Channels of a schedule drift apart by one tick for each operation they issue.
- Time: booking boundaries are inclusive on both sides, days are counted from
  the start of a slot, the waitlist is moved against the time that is left.

`PROJECT.json` lists these hazards at their lines together with the properties
that would show them going wrong.

## 2. The modules

### StaticQueue

The Redis commands of `StaticQueue` as functions on a record `[list, store,
total]`. A storage id (the string `uuid@@duration` in the code) is the record of
its two parts. `store` stands for the two hashes that are always written
together; payloads are not distinguished from their ids. `clear`, which only
tests call, is left out, and so is `current_job`, which is written by `next` and
never used for a decision.

### RunnerQueue and AbstractQueue

One runner queue, its producers, its worker, the cancelling API, and up to
`MaxCrashes` killed processes.

| Action | Code |
|---|---|
| `EnqueueAdd`, `EnqueueTicket` | the two halves of `RunnerQueue.enqueue` |
| `TakeTicket` | RQ's worker (external) |
| `NextLPop`, `NextTake` | the two round trips of `StaticQueue.next` |
| `Finish` | the executor function returns or raises in `_run_next_job` |
| `CancelPop`, `CancelTicket` | `RunnerQueue.cancel_job` |
| `WorkerCrash`, `ProducerCrash` | a killed process (external) |

Cancels use the true duration of the job or 0 (the record was read before the
duration was stored), and may name a job the queue has never seen. The tickets
are named after the stage by the callers of `enqueue`, and looked for under the
name of the queue by `cancel_job`; hence a cancel never finds one. That looks
like a slip, but `EveryEntryHasATicket` depends on it: with the names made equal
(a mutant), a cancel of a job that has left the list would take away the ticket of
another one, because tickets are interchangeable.

`AbstractQueue` is what the callers count on: FIFO, withdrawal of what waits,
each job started at most once; a job may be lost when its worker dies.

### Waitlist

The waitlist with the preprocessing worker that pushes, the API that cancels and
deletes, and the general worker that moves jobs. A call of the general worker is
several steps (`Begin`, then `ReadBatch`, `PopFitting` and `EnqueuePopped` in
turn, and `End`), with its local variables in `mover`. The time to the next
booking is a parameter of the call, taken from `Limits`. The list is read in
batches; the index of the next batch is not adjusted for what was popped or
withdrawn in the meantime, and `shifted` (history, part of `mover`) records that an
entry has gone since the call began while entries of a later batch were still to come.
A call ends early (`Raise`) when `pop_job` finds no payload, or `update_job_stage` no
record, of a job that the API has taken away; `raised` keeps which job that was.

### Bookings

Users and bookings as the API changes them, with a discrete clock. A request is
one step: no handler awaits between its queries. Days are `DayLength` units
long. The RQ jobs that a booking schedules are not part of this module.

### JobLifecycle

The job record (status, stage, whether the duration and the result are stored)
under all workers and the API. Every read and write of the record is a step:
`update_job_stage` is read – read – write, `Collection.update` is read – write,
and the write puts back the whole record that was read. Where the code may raise,
both outcomes are there, with the exception handler that the code has: failures
inside `preprocess` and `execute` are logged as `FAILED`; failures of
`move_file`, `update_job_stage` and `read_job_from_hdf5` in `postprocess` are
outside of its `try` block, and leave the job as it is. Queues are kept to "where
the job is", and routing is a free choice; both are the business of the other
modules. Killed workers are not in this module.

The history variable `settled` holds the jobs whose cancel was written before the
check in `execute`, at a moment where no worker was in the middle of an update of
the same record. That restriction is what the code can promise: a cancel that
falls between the read and the write of a worker's update is lost, as TLC shows
when the restriction is dropped.

### Scheduler

Where a job goes and when. Three processes interleave: the preprocessing worker, the
general worker, which runs events and timers one after the other, and the API. A step is
one access to the bookings table or to RQ's jobs.

| Action | Code |
|---|---|
| `ReadForReset`, `CancelForReset`, `ComputeRepeats`, `ScheduleTimer` | `reset_idleness_timer`, in either worker, with its local variables in `reset` |
| `Submit`, `Delete` | `submit_job_file`, which fixes the booking that is active now; `delete_job` |
| `Preprocess` (`TryNormal`, `TryBooked`), `EnqueueAdmitted` | the end of `preprocess` and both `_try_enqueue_on_…`, before and after the reset |
| `StartEvent`, `EndEvent`, `ClearAtEnd` | the RQ jobs that `submit_booking` schedules: a reset, and the first half of `post_booking_cleanup` |
| `ReadNextBooking`, `MoveToNormal`, `EnqueueMoved`, `CleanupEnds` | `_pop_waitlist_to_normal_queue` |
| `TimerFires`, `ReadNextBooking`, `PopToBooking`, `ReadActiveBooking`, `EnqueueOnBooked` | `_pop_waitlist_to_booking`, run by the idle timer, with RQ's repetition at its end (`RunReturns`, `RunRaises`) |
| `BeginRemoval`, `RemoveTimer`, `RemoveStartEvent`, `RemoveEndEvent`, `DeleteRow` | `cancel_booking` before the start or `delete_user_profile` before the end, with `_cancel_booking_from_queues` |
| `TakeJob` | the workers of the normal and booked queues |

The clock waits for nobody: an event, a timer or any step of a handler may be late by any
time, or never come. (The RQ scheduler that releases events and timers is not even
started by `start_bcc.sh`; this module has no liveness properties.) Which jobs
`pop_many` moves, in batches and with its exceptions, is the subject of `Waitlist`; here
it moves any jobs that are not too long, and ends at any moment. A timer is RQ's while it
runs, and can be cancelled and replaced under its own id; what RQ does then at the end
of the run, repeat it or keep the new one, is left open. A booking of another owner or a
booking that is gone sends the job to the waitlist. `cleared` and `overtaken` are
history: the bookings whose timer was cancelled for good, by the end event or by the
removal, and those of them with a reset or a run under way at that moment.

### Schedule

One experiment, from the instructions of its Qobj to its Quantify schedule.

| Action | Code |
|---|---|
| `AddInstruction`, `AddAcquire` | `list_from_qobj_inst` of the classes of `instruction.py`, then `register_instruction` on the channel of each clock, with its playbacks |
| `AddUnmapped` | a name without a mapping: the job fails |
| `PlanChannels` | the slots, clock resources and frequencies at the start of `raw_schedule` |
| `ScheduleSlot` | one turn of its loop: the barrier and the operations of one slot |
| `TailIdle` | the idle operation at the end of each channel |

Times are on the 4 ns grid, to which raw times are rounded as `round()` does (to the
even line of two). `sync` and `dispatch` are the ticks that barriers and operations
have added; an operation starts at its slot plus both plus one, the ticks of the operations
before it in the slot included (`Waited`, `Issued`). Waveforms, amplitudes and ports do
not influence the schedule and are left out. The Qobj of the SDK lists the instructions
of a channel by time, except that acquisitions are a list of their own (`InOrder`).

### MssPipe

Senders (workers and the API) publish on the channel `outbox` and wait on `inbox`;
one client in the API process forwards over its websocket and publishes the replies.
Pub/sub is modelled by what it does: a message reaches exactly the subscriptions that
exist when it is published. An attempt to connect (`Enter`) subscribes and starts a
reader before the handshake; `Refuse` retries without `__aexit__`, so that the
readers of earlier attempts stay; `Strike` is the exception handler of the reader,
which unsubscribes the client's outbox for all of them. `Forward` and `Reply` are
the two halves of the handler around its `await`. `Drop` loses what is under way in
both directions. Redis, the websocket and MSS are external: MSS answers in order,
with success or an error.

### Readout and Execution

`Readout` holds the pure part: the map from SDK numbers to physical ids, what the
HDF5 file keeps, and the two ways to turn it into the memory of a result
(`Discriminated` for measurement level 2, `Integrated` for level 1), traces and
exceptions included. `Execution` is what happens around it: `Preprocess`, then under
the executor lock `Begin`, and for each experiment `SetBias`, `Measure`, `Reset`; then
`Store`, and `Postprocess`, which visits the file in any order. The wait for a ramp
may end early, at a reading error: what still ramps is `unsettled`, in any combination.
Each task has an executor of its own in a process of its own, and building one spans
every coupler (`Span`), in preprocessing without the lock; on a rack that was restarted
the first span sets the current to a minimum, as the comment at `spi_dac.py:246` warns.
`Fail` may come at any step; nothing but the lock is released then. `displaced` records
the couplers that a failed job or a span left off their currents. Only the currents, the
lock and the files are shared. The driver of the rack is not part of the source: it
keeps a current until it is told another. `Readout` takes the width of a register from
the classical bits, where the code takes it from the metadata or the memory slots: a bit
beyond the width of the code makes it raise, and the job fail.

### Recalibration

A chain of recalibrations on a plain RQ queue: each run schedules the next one.
The API (up or down, one request at a time), the worker and RQ's scheduler
interleave; `stop_recalibration` is split at its two reads and at each cancel.
`slipped`, `overlap` and `raced` are history: they record that a job was moved
between the two reads of a stop, or ran during the stop of an init. A failed,
timed-out or killed recalibration (`FailRun`) ends its chain.

### Collection

The jobs store: records that expire and two secondary indexes, one on the status,
one on a field that never changes. `insert`, `update` and `delete_many` consist
of a read (`Begin…`) and one pipeline (`Write`). The API makes a `Collection` for
each request, and deletes and inserts; the workers keep one for a task (`Open`),
and only update. The cleanup of expired entries is part of each pipeline when
the timer of the object says so. `clash` and `deleted` are history: the keys that
were written after a stale read, and those that were deleted.

## 3. The runs

| Run | Result | What it shows |
|---|---|---|
| `runner_queue` | pass, 200,852 states | 3 jobs (durations 0, 2, 3), 3 cancels, 1 crash: the invariants of section 4, the refinement of `AbstractQueue`, and that every job leaves |
| `waitlist` | pass, 1,057,365 states | 3 jobs, 2 calls, batches of 2: lists of one and of two batches |
| `bookings` | pass, 41,336 states | 2 users, 3 bookings, 2 days of 4 units, slots of 1 to 3 units, 2 slots per day |
| `job_lifecycle` | pass, 131,639 states | 1 job, 3 requests: cancels and deletes are effective, and the job settles |
| `job_lifecycle_sharing` | pass, 9,260 states | 2 jobs that share workers and lock: both settle |
| `recalibration` | pass, 104,271 states | 5 RQ jobs, 4 requests, starts or stops of the API, kills at any time |
| `collection` | pass, 3,157,763 states | 1 key, 3 statuses, the API and a worker, 5 instants, records that live for 2 |
| `scheduler` | pass, 4,753,155 states | 2 jobs, 2 adjacent bookings, one of which may be removed, 5 instants, every delay |
| `scheduler_fits` | violation | a booker's job is admitted that does not fit in the rest of the slot |
| `schedule` | pass, 1,075,380 states | a drive and two readout channels, every experiment of up to 4 registrations |
| `mss_pipe` | pass, 85,675 states | 3 events of 2 senders, 3 attempts to connect, 1 lost connection |
| `execution` | pass, 3,744,687 states | 2 jobs, each with any of 9 programs of up to 2 experiments, every measured state, ramps that are not waited for, one restart of a rack, failures anywhere |

Bounds. Three jobs are enough for a cancelled one, one that runs and one that
depends on the ticket of another; three cancels let the same job be cancelled
twice and another once. One crash reaches every place where a process can die,
and each is independent of the others as far as the properties go; the theorems
are for any number. Durations include 0, the value that a storage id has before
preprocessing, and two different positive ones. In `Waitlist` two jobs are
equally long, so that order matters, and the limits include no time, too little
for all, exactly enough, and a rest. In `Bookings` a slot can cross midnight
(`MaxSlot` 3 in days of 4), can touch another, and can lie on either day. Three
requests on one job give cancel/cancel/delete and any other order; jobs
interact only through the workers and the lock, which `job_lifecycle_sharing`
covers. `MaxCancels`, `MaxCrashes`, `MaxCalls`, `MaxRequests`, `MaxRemovals`, `MaxRestarts`,
`Horizon` and `LastTick` are the bounds; all but the last two are only in the guards of
the actions they bound.
`Recalibration` needs two chains with a successor each and a restart: five jobs
and four requests. `Waitlist` uses batches of 2 where the code has 100, so that three
entries span two batches. `Schedule` has raw times on a line of the grid, on the next
one, and half-way; four registrations allow two instructions of one channel in one
slot beside one of another channel there and a later one. The readout channels are
interchangeable, as are the jobs of `Execution`; no definition tells them apart.
`MssPipe` needs a sender with two events, for order, and one more to compete with it,
and three attempts: a reader that stays from a refused one, one whose connection is
lost, and one after it. The device of `Execution` has the qubits 6 and 7, so that no
SDK number is a physical id; its programs (`MCQobjs`) have crossed memory slots,
classical bits from the metadata, a qubit that is acquired twice, experiments without
acquisitions first or last, two qubits in one classical bit, a bias with two pulses on
one coupler, each measurement level and both ways of returning. `Collection` treats
keys independently of each other, so one key is enough; with five instants and a
lifetime of two a record can expire, be submitted again, and expire again. The
permuted statuses are all but the first, which no definition tells apart. In
`Scheduler` a booking of two units with an idle time of one has room for a first run and
for repetitions, is followed by another at once, and one job is its booker's, the other
not, so that both workers reset the same timer; one removal meets each of these steps. The
violation run has a gap between the bookings instead. One restart in `Execution` can
come with the preprocessing of the other job, at any step of a run, or at its beginning.

Deadlock is checked in `schedule` and `execution`, which have an end (`Done`,
`Terminated`) that they must reach. The other systems come to rest when the bounded
number of jobs, calls or requests is used up.

Fairness. `RunnerQueue` assumes that an enqueue or cancel in progress goes on and
that the worker keeps working (weak fairness); RQ gives every job a timeout, so
that `Finish` comes. `JobLifecycle` assumes the same of each worker, and strong
fairness of the steps that wait for something shared: the start of a job on a
queue's only worker (queues are FIFO) and the executor lock (two contenders at
most, each of which gives up at its timeout). Moving a job from the waitlist is
not assumed: it depends on bookings, and `EveryJobSettles` says so. `Recalibration`
assumes that the worker keeps working (every recalibration has a timeout), and nothing of
RQ's scheduler, which no worker of `start_bcc.sh` runs (line 263): `EveryQueuedRuns`
is about what is on the queue, not about what is scheduled. `MssPipe` assumes that the
event loop runs every reader that has something to do, that a pipe receives or gives
up in the end (`receive` has a timeout), and that MSS answers; not that a connection
comes about, or lasts.

## 4. Properties

*Runner queue.* `OneOutcome`: a job is started at most once, and never if a cancel
found it. `EveryEntryHasATicket`: jobs on the list never outnumber tickets.
`TotalNeverOverstates`: the cached total may be too low but not too high, except for the
job that a worker held when it was killed between the `LPOP` and the pipeline: that one
is counted until a cancel takes it, and there is at most one for each kill.
`ImplementsAbstractQueue`, `EveryJobLeaves`.

*Waitlist.* `MovedAtMostOnce`, `MovedFitsWindow` (what is moved fits before the
next booking), `NoOvertaking` (only longer jobs are passed over, unless the list was
shifted under a later batch), `LeavesNothingUnlessDisturbed` (what fits is left only by a
call under which the list was shifted, or which an exception ended; and the exception
is about a job that was cancelled or deleted). Both do happen, in the model as in the
code (section 6).

*Bookings.* `NoOverlap`, `SlotLimit` (by the day of the start),
`UnfinishedBookingsHaveOwner`, `BegunSlotsAreKept` (as the docstring of `cancel_booking`
has it; the documentation has something else, see section 6).

*Job lifecycle.* `CancelInTimeIsEffective`, `DeletedStaysDeleted`, `EveryJobSettles`.

*Recalibration.* `OneChainUnlessOverlap` and `StoppedUnlessSlipped` say that the
two races described in section 6 are the only ways in which
chains multiply or survive a stop, restarts and kills included.
`EveryQueuedRuns`.

*Collection.* `FindsByStatusUnlessClash` and `FoundIsStoredUnlessDeleteClash`: apart
from writes after a stale read the indexes are sound, and it takes a delete besides
to make a listing raise.

*Scheduler.* `TimerEndsUnlessOvertaken`: an idle timer that was cancelled at the end or
for the removal of its booking does not come back, although it is reset in two workers,
repeated by RQ and reset by the jobs it moves itself, each in several steps and with any
delay. The exception is a cancellation that overtakes: a run of the timer was under way,
or a reset had read the booking before its row was deleted. (TLC finds both: a
removed booking keeps a timer then.) A reset that comes after the end finds that no time
is left. `BookedJobFitsSlot`, from the documentation, is violated.

*Schedule.* `DistanceKept`: no operation overtakes or newly overlaps one of an earlier
slot, as long as the earlier channel still has work. `SlotAligned`: the channels start
a slot together, and each issues its operations one per tick in the order of the list.
`PhaseAsPlayedBack`: the phases that are emitted, some as differences, add up to those of
the playback. `AcquisitionsNumbered`: acquisitions are numbered in time, without gaps.

*MSS.* `ProcessedAtMostOnce`, `OutcomeIsOwn` (all pipes hear all replies, each reports
its own), `AcceptedInOrder` (a calibration only after its device),
`ConnectedListens` (a client is not connected and deaf, unless a reader raised since
its attempt began), `ServedWhileConnected`.

*Execution.* `MeasuredUnderOwnBias` (each experiment is measured under the currents it
asks for and otherwise those of before the first job). It has two exceptions, both facts
of the code: nothing is said of a coupler that is unsettled (a reading error ended the
wait for its ramp, or a span has moved it since the bias was set), nor, where the
experiment asks for nothing, of one that is displaced (by a job that failed before it
had put the current back, or by a span). `IntegratedOfOwnExperiment` (the values of a
result are those that their experiment measured, each once), `BitsOfOwnQubits` (each
qubit has its state in its own classical bit, if it shares it with no other qubit).

Types are checked where the proofs rest on them (runner queue, bookings,
recalibration, collections). Each property of a passing run has a mutant (an operator `Fault...` next to the
definition it changes) that breaks it.

## 5. Proofs

Every invariant of a passing run is also a theorem, for every value of the
constants. Three proof modules
are about two modules of the model each, whose definitions have different names for that
reason (`Spec` and `SchedulerSpec`, `PipeSpec`, `ScheduleSpec`).

| Module | Theorems about | Properties |
|---|---|---|
| `DataLemmas` | sequences, sums, folds, sorting, recursion | – |
| `RunnerQueueProofs` | `RunnerQueue` | `TypeOK`, `OneOutcome`, `EveryEntryHasATicket`, `TotalNeverOverstates`, `ImplementsAbstractQueue` |
| `WaitlistProofs` | `Waitlist` | `MovedAtMostOnce`, `MovedFitsWindow`, `LeavesNothingUnlessDisturbed`, `NoOvertaking` |
| `BookingsProofs` | `Bookings` | `TypeOK`, `NoOverlap`, `UnfinishedBookingsHaveOwner`, `BegunSlotsAreKept`, `SlotLimit` |
| | `Scheduler` | `TimerEndsUnlessOvertaken` |
| `JobLifecycleProofs` | `JobLifecycle` | `CancelInTimeIsEffective`, `DeletedStaysDeleted` |
| `CollectionProofs` | `Collection` | `TypeOK`, `FindsByStatusUnlessClash`, `FoundIsStoredUnlessDeleteClash` |
| `CalibrationProofs` | `Recalibration` | `TypeOK`, `StoppedUnlessSlipped`, `OneChainUnlessOverlap` |
| | `MssPipe` | `ProcessedAtMostOnce`, `OutcomeIsOwn`, `AcceptedInOrder`, `ConnectedListens` |
| `ExecutorProofs` | `Schedule` | `DistanceKept`, `SlotAligned`, `PhaseAsPlayedBack`, `AcquisitionsNumbered` |
| | `Execution` | `MeasuredUnderOwnBias`, `IntegratedOfOwnExperiment`, `BitsOfOwnQubits` |

TLC has checked each of the inductive invariants below on the run of its module
before it was proved.

*Data.* `DataLemmas` says what remains, and in which order, when an entry of a sequence
is removed (`RemoveFirst` is the `LREM` of the code), put in front or appended. Sums
over sets and `FoldLeft` are recursive functions on the subsets of a finite set: what
they satisfy is proved from a minimal set, or least number, that would not satisfy it
(`MinimalSubset` from the well-foundedness of inclusion on finite sets, `LeastIndex` on
numbers), since the induction theorems of the library, which take an operator as a
parameter, cannot be used. `SumExists` and `FoldExists` show that the recursive functions
exist, `SumAdd`, `SumRemove` and `DurationsChange` how a sum changes with its set, and
`FoldKeeps` that what each step of a fold keeps holds at its end. In the same way
`SortedExists` shows that a finite set can be sorted by any key, `Flattened` that
flattening a list of lists loses and repeats nothing, and `IteratesExist` that primitive
recursion defines a function.

*Runner queue.* `OneOutcome` is not inductive: one must know that what waits has not
been started or withdrawn. The inductive invariant is `OutcomeInv == TypeOK /\
EntriesAreLive /\ OneOutcome`; `EntriesAreLive` ties the list, the payloads, the id in
the worker's hand, the history and the names of the tickets together (and is a theorem,
`LiveCorrect`). `TicketsCorrect` adds that `adding` is finite; that tickets are named
after stages (in `EntriesAreLive`) is what keeps `CancelTicket` from lowering the
right-hand side. `TotalCorrect` adds that the payloads are finitely many (`TotalInv`):
a removal takes its duration off the total whether or not it was there, an addition adds
it once. `LostInv` adds that a kill leaves at most one payload behind, and that nothing
else does: what is in nobody's hand and not on the list is `lost`. `RefinementCorrect`: every step of the queue is a step of `AbstractQueue` or
changes nothing of it. `PendingFacts` says what the abstract queue sees as pending: the
listed ids, behind the id in the worker's hand if its payload is there. It needs
`OutcomeInv`: an id in hand that were in the list as well would be pending twice.

*Waitlist.* The invariant `WaitInv` has four parts besides types: each entry of the list
or in a hand has not been moved or withdrawn, and is there once (`Owned`); the time that
is left and the durations of what was moved add up to no more than the limit
(`InWindow`); what was there when the call began lies within its batches, and as long as
none of it is gone all batches but the last are full of it (`Placed`); and what the call
has read is too long for the time that is left, or among the entries it has in hand, as
long as nothing has shifted (`Visited`). The last two are about positions in a list from
which entries disappear: `shifted` is exactly the case where the entries of a later batch
do not stay where the call will look for them. `NoOvertaking` follows from
`Visited` as an action property. What an exception is due to is a second invariant,
`Traced`: what a call has read and is not stored any more was withdrawn, and what was
withdrawn, or has no record, was cancelled by the API.

*Bookings*, for any settings (`SettingsAssumption`). `HandoverCorrect` (two bookings are
active at once only at the instant where one ends and the next begins) is proved and not
in a run. `SlotLimitCorrect` assumes a positive minimal slot length: a slot of no length
at the very start of a day does not overlap that day in the sense of the code's query,
and would not be counted. It goes through `DailyLimit`, the same statement for every day,
whose step shows that the slots that start on a day are among those that the query counts.

*Scheduler*, for any jobs, bookings, idle time and delays. `SchedulerInv` has four parts
besides types. `ClearedAtEnd`: a timer is cancelled for good only after the end of its
booking or in its removal. `TimerOvertaken`: after that a timer of the booking, or a run
of one, means that it was overtaken. `ResetOvertaken` says the same of a reset that has
read the booking, with one way out: if the booking is over, the reset has not come to the
point of scheduling. That it never will is the arithmetic of `ComputeRepeats`, where the
time that is left is negative or nothing, and less than the idle time; for a timer that
is to run only once the idle time is 0, and it needs `RestartsLater`, that such a
timer is set behind a job of some length.

*Job lifecycle*, for any jobs and any number of requests. An update of a record is a
read, a decision and a write, in a worker and in the API, so that the inductive invariant
`LifeInv` has to say what each of them holds in between: a worker that is about to write
read a record at a place that updates it (`UpdatesBegun`); a request about a job that is
about to write read a record too, and the job has been submitted (`RequestHolds`,
`Fresh`). `Settled` strengthens the property itself: a job that was cancelled in time has
no record or one that says CANCELLED until it has ended, and so does what a worker that
updates it has read (`Effective`).

*Recalibration*, for any number of RQ jobs and of requests. The inductive invariant adds
three things:

- `Numbered`: what is live, or was before a stop, has a number that was given out, so
  that a new job is in no set yet;
- `StopFinds`: a stop that has read the queue holds all that was pending before it and
  is on the queue still, or it slipped; after the registry it holds all of it;
- `InitClears`: an init that nothing overlaps with finds all there is, so that nothing
  is live when it enqueues its own; `OneLive` then says that no two jobs are.

*MSS*, for any senders, events, plans and bounds. `PipeInv`: an event is at one place on
its way at most (`Once`), and at none before its pipe has sent it (`NotYet`); a reply,
wherever it is, and an outcome say what MSS has done (`RepliesTrue`, `OutcomesTrue`); a
pipe goes on only after its last event was accepted (`EarlierAccepted`); and from the
beginning of an attempt on somebody reads the channel, or a reader has raised (`Listens`).
No part speaks of which reader handles an event, or of how many there are: this is why the
readers that refused attempts leave behind do no harm until one of them raises.

*Collection*, for any keys, statuses, workers and settings. The inductive invariant adds
that an operation in progress was begun as the code begins it (`OperationsBegun`), that no
entry lies more than one lifetime ahead (`WithinTTL`), and two statements that are
stronger than the properties, because they also speak of entries that are over:
`EntriesAgree` for keys without clash, `RecordOutlives` for keys that were never
deleted. The second needs no fresh read: every update renews the record by a full
lifetime, which no entry exceeds. This is why overlapping updates alone cannot make
`find_by_index` raise.

*Schedule*, for any clocks, instructions and times. `BarrierInv` says that what has a
start has a slot that is scheduled already (`SlotsInOrder`), that the operations of a
channel end with its last tick (`WithinTicks`), and where an operation lies within its
slot; `DistanceKept` and `SlotAligned` are parts of it; the latter is proved from the counts
of waits and issued operations (`RankFacts`). `PlayInv` adds what a playback
holds when an instruction is put into it in order of time: the emitted phases add up
(`PhasesAdded`, a sum over a set that grows in the middle of the list), and acquisitions
are counted (`AcquisitionsCounted`). That the order of the list is the order in which the
operations start, which both properties are about, comes from `BarrierInv`.

*Execution*, for any jobs, programs, couplers and device: the executor lock (`Exclusive`:
at most one job is between its first bias and its last reset) together with `InPlace`
(what the settled currents are when an experiment is about to be measured) and with what
the currents and the remembered ones are at each step for the couplers that are not displaced.
For the results, `ResultsInv` follows the datasets of a job from the measurement to the
file: there are at most as many as experiments, each has the channels, the length and the
kind of values of its own experiment, and the file has them under their index; a finished
job has the values (`ValuesOf`) or the bits (`BitsOf`) of its experiments. The step that
matters is `Postprocess`. `ReadInOrder`: whatever the order of the visit, sorting by the
index gives the datasets in the order of the experiments, without gaps if the first
experiments, as many as the file has entries, all left one. If an experiment before them
left none, another one takes its place; the discrimination has then either raised, for
want of an acquire instruction at that place, or there is no such experiment.
`RegisterFacts`: `quantify_to_sdk_map` inverts the hardware map (`SdkOfPhysical`), so that
a classical bit with one qubit gets the state of that qubit. `DecimalBit`: the digits of
a number in Horner's form are those it was made of. The assumption
about experiments (`IsExperiment`) is what preprocessing leaves: an acquire instruction
for a qubit that the device does not have is not in the hardware map, and fails there
(`quantify/instruction.py:267`).

Only model-checked is liveness (`EveryJobLeaves`, `EveryJobSettles`, `EveryQueuedRuns`,
`ServedWhileConnected`): the prover has neither fairness nor `ENABLED`.

## 6. Where the code and its documentation differ

One difference has a run of its own, `scheduler_fits`. The others are visible in the
models, as an exception in a property, by stating the documented property and
running TLC, or by reading.

Queues, jobs and bookings:

- `pop_many` is to move every job that fits (`tasks.py:148`), but skips entries when the
  list is longer than one batch (`types.py:224`; `shifted`), and stops at the first job
  that was cancelled or deleted meanwhile (`types.py:237`, `tasks.py:793`; `raised`): the
  jobs behind it stay.
- "User can delete their own booking as long as it has not yet expired"
  (`booking_and_queuing.md:15`): not once it has begun (`service.py:162`, and the
  docstring at 132).
- A job that is longer than the time left in the slot is to fail
  (`booking_and_queuing.md:260`), but is compared with the whole length of the booking
  (`tasks.py:629`; run `scheduler_fits`).
- A terminal status is overwritten (`dtos.py:292`, against `service.py:309`): by a cancel
  that comes late, by a worker that writes back what it read before, and by a
  result that could not be sent to MSS (`utils.py:229`).
- The idle timer of a booking is to move others' jobs when the booker is idle
  (`booking_and_queuing.md:268`), but fires while the booked queue is busy (`tasks.py:230`,
  `tasks.py:650`).
- Adjacent bookings are both active at the instant of the handover
  (`booking/service.py:145`).
- `delete_user_profile` does not cancel jobs that are EXECUTING (`service.py:457`).
- A recalibration that fails ends its chain (`tasks.py:421`).
- `start_bcc.sh` starts no worker with `--with-scheduler` (line 263), on which booking
  events, idle timers and recalibrations depend.
- `total_duration` is "the total duration in seconds for all queued tasks"
  (`types.py:60`), but a cancel subtracts the duration of a job that the queue does
  not hold (`types.py:158`), and the job of a worker that was
  killed is counted although it is queued no more. `TotalNeverOverstates` is what is left.
- "A user can book only `MAX_SLOTS_PER_DAY` time slots per day"
  (`booking_and_queuing.md:287`): a day can be touched by one more, booked last, that
  starts the evening before (`booking/service.py:455`).
- "just make sure no other recalibration is running or scheduled"
  (`service.py:506`): one that is running is not seen, and goes on as a second
  chain (`raced`).
- "Cancels recalibration if scheduled or queued" (`service.py:537`): the queue is
  read before the registry, and a job that moves from the second to the first between
  the reads is missed (`slipped`).
- `get_next_job_on_queue` (`rq.py:110`) sorts by `started_at`: with a job that is
  scheduled and one that is queued it compares `None` with `None`.
- "the list of items that match" (`redis_store.py:303`): overlapping updates leave
  a key in the index of a status that it does not have, and a delete that overlaps
  with an update leaves an entry without record, on which `find_by_index` raises
  (`clash`, `deleted`).
- An update renews the expiry of the record but only the index entries of the
  fields it changes (`redis_store.py:417`): a record outlives its entries for user
  and job id, and is no longer found by them.
- "the interval between cleaning up indexes" (`redis_store.py:170`) starts anew with
  each `Collection` object, hence with each request.
- The booking of a job is fixed at submission (`service.py:247`): a job that is
  compiled after that booking goes to the waitlist, although `booking_and_queuing.md:249-252`
  sends it to the normal queue if it fits. After the last booking nothing empties the
  waitlist.
- "the pending jobs on the execution queue are accounted for"
  (`booking_and_queuing.md:280`) when a booking ends: they are not (`tasks.py:783`).
- The idle timer is to go with its booking (`service.py:632`, `tasks.py:164`), but a reset
  or a run that is under way brings it back (`overtaken`); a timer that a removed booking
  keeps goes on moving others' jobs to the booked queue until its repetitions are used up.
  No document speaks of it.
- Removing the last booking removes its end event (`service.py:639`), and with it what
  would have emptied the waitlist.

Executors:

- A barrier does not wait for channels past their last slot (`experiment.py:395`,
  against `experiment.py:317`), the exception in `DistanceKept`.
- `xarray_to_list` is to order channels by memory slot, but compares the physical ids of
  the dataset with the SDK numbers of the Qobj (`quantum_job/__init__.py:425-441`); on a
  device whose ids are not 0 to n-1 it silently takes the order of the channels.
  `test_xarray_to_list.py:134-136` has such ids on both sides.
- An experiment without channels is not in the file (`quantum_job/__init__.py:636`): the
  memory of a level 1 result is shorter then, and later values move up.
- `preprocess` builds an executor, and with it opens the SPI rack, without the lock
  (`tasks.py:118`); `run` closes the rack after every experiment (`executor.py:308`). The
  span command it gives to each coupler sets a current on the first use after a restart
  of the rack (`spi_dac.py:246-250`), also while a job measures.
- A ramp whose reading fails is not waited for (`spi_dac.py:198`): the measurement may
  start at another current than the one asked for.
- A job that fails between its bias and its reset leaves the currents as they are.
- `setp` and `shiftp` treat the sideband differently (`instruction.py:524`); a pulse of the
  library is rotated by degrees as if they were radians (`instruction.py:760`).
- Times off the 4 ns grid are rounded silently (`instruction.py:790`), of several `setf` on a
  channel only the earliest has an effect (`experiment.py:267`), and the label of the tail
  idle is the same on all channels (`experiment.py:450`).

MSS:

- An event that comes while the client is connecting, or reaches a second reader, ends
  the subscription: the connection is up and forwards nothing until it is lost
  (`mss/service.py:429`; `struck`).

## 7. What is not modelled

The Qiskit executor (numeric simulators), recalibration by the external autotuner,
waveforms and the discriminators' numbers, parsing of device parameters and conversion of
units, the Qobj data classes, tokens and roles, logging and settings: all of them
compute or parse, without state that several actors share. Workers that are killed are
modelled for the queues and for recalibration, not for the job record. The fields of a
job that no decision depends on (timestamps and the like) are left out.

## 8. Plan

1. Done: queues, waitlist, bookings, job lifecycle, scheduler timing, recalibration,
   collections, the MSS client, the Quantify compiler, the executor and its results; theorems
   for every invariant, for the refinement and for the other action properties.
2. What could follow: the checks of users and roles together with `delete_user_profile` on
   jobs and bookings at once; killed workers in `JobLifecycle`.
3. Proofs: what the liveness properties rest on, as invariants (for example that a queue
   with entries has a worker step that can be taken).
