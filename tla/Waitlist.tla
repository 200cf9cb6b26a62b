------------------------------ MODULE Waitlist ------------------------------
(***************************************************************************)
(* The waitlist, a StaticQueue that nothing runs, and the three kinds of   *)
(* processes that work on it:                                              *)
(*                                                                         *)
(*   - the preprocessing worker adds jobs (_push_to_waitlist);             *)
(*   - the API cancels and deletes jobs (pop_job, then the job record);    *)
(*   - the general worker moves jobs to an execution queue, either the     *)
(*     first one that is short enough (_pop_waitlist_to_booking, with      *)
(*     pop_first) or as many as fit (_pop_waitlist_to_normal_queue, with   *)
(*     pop_many).                                                          *)
(*                                                                         *)
(* pop_first and pop_many read the list in batches and remove the entries  *)
(* they choose one pipeline at a time, so that pushes, cancels and deletes *)
(* fall between any two of their steps.                                    *)
(***************************************************************************)
EXTENDS StaticQueue

CONSTANTS
  Jobs,        \* the job ids
  Duration,    \* Duration[j]: the estimated duration of job j
  BatchSize,   \* the number of entries one LRANGE reads (100 in the code)
  Limits,      \* the times to the next booking that a call may start with
  MaxCalls     \* bound on the number of calls of the general worker

ASSUME DurationAssumption == Duration \in [Jobs -> Nat]
ASSUME BatchAssumption == BatchSize \in Nat \ {0}
ASSUME BoundsAssumption == Limits \subseteq Nat /\ MaxCalls \in Nat

VARIABLES
  q,          \* the static queue of the waitlist
  pushed,     \* the jobs that were pushed so far
  records,    \* the jobs that have a record in the jobs store
  cancelled,  \* history: the jobs a cancel was requested for
  withdrawn,  \* history: the jobs a cancel found on the waitlist
  mover,      \* the call of the general worker in progress
  hand,       \* the storage id popped and not yet enqueued: at most one
  moved,      \* history: the storage ids enqueued for execution, in order
  calls       \* the number of calls so far

vars == <<q, pushed, records, cancelled, withdrawn, mover, hand, moved, calls>>

Sid(j) == StorageID(j, Duration[j])
Ids == {Sid(j) : j \in Jobs}

\* The local variables of a call: `kind` and `limit` are its parameters, `batch`
\* and `batches` its loop counter and bound, `entries` what is left to visit of
\* the batch it read, `available` the time that is left of the limit.  `seen` is
\* history: the ids that were on the list when the call began; `shifted` is
\* history too: was one of them gone when a batch after the first was read?
\* `raised` is the id, if any, over which an exception has ended the call.
NoCall == [kind |-> "none", limit |-> 0, batch |-> 0, batches |-> 0,
           entries |-> <<>>, available |-> 0, seen |-> {}, shifted |-> FALSE,
           raised |-> {}]

Init ==
  /\ q = EmptyQueue
  /\ pushed = {}
  /\ records = Jobs
  /\ cancelled = {}
  /\ withdrawn = {}
  /\ mover = NoCall
  /\ hand = <<>>
  /\ moved = <<>>
  /\ calls = 0

-----------------------------------------------------------------------------
(* _push_to_waitlist reads the job record, then adds; without a record it  *)
(* raises and nothing is added.                                            *)

Push(j) ==
  /\ j \notin pushed
  /\ j \in records
  /\ q' = Add(q, Sid(j))
  /\ pushed' = pushed \cup {j}
  /\ UNCHANGED <<records, cancelled, withdrawn, mover, hand, moved, calls>>

FaultCancelKeepsPayload(j) ==
  /\ j \in records
  /\ j \notin cancelled
  /\ q' = [q EXCEPT !.list = RemoveFirst(q.list, Sid(j))]
  /\ cancelled' = cancelled \cup {j}
  /\ withdrawn' = IF HasPayload(q, Sid(j)) THEN withdrawn \cup {j} ELSE withdrawn
  /\ UNCHANGED <<pushed, records, mover, hand, moved, calls>>

\* The part of cancel_job that concerns the waitlist.  The storage id is built
\* from the job record that was read, possibly before preprocessing stored the
\* duration, and then names nothing.  Each job is cancelled at most once here.
Cancel(j) ==
  /\ j \in records
  /\ j \notin cancelled
  /\ cancelled' = cancelled \cup {j}
  /\ \E d \in {Duration[j], 0} :
       /\ q' = PopJob(q, StorageID(j, d))
       /\ withdrawn' = IF HasPayload(q, StorageID(j, d)) THEN withdrawn \cup {j}
                       ELSE withdrawn
  /\ UNCHANGED <<pushed, records, mover, hand, moved, calls>>

\* delete_job deletes the record after it cancelled the job.
DeleteRecord(j) ==
  /\ j \in records
  /\ j \in cancelled
  /\ records' = records \ {j}
  /\ UNCHANGED <<q, pushed, cancelled, withdrawn, mover, hand, moved, calls>>

-----------------------------------------------------------------------------
(* The general worker.  One call at a time: the queue has one worker.      *)

\* The call reads the bookings, hence its limit, and the length of the list.
Begin(kind, limit) ==
  /\ mover.kind \in {"none", "ended"}
  /\ calls < MaxCalls
  /\ mover' = [kind |-> kind, limit |-> limit, batch |-> 0,
               batches |-> (Len(q.list) + BatchSize - 1) \div BatchSize,
               entries |-> <<>>, available |-> limit, seen |-> ToSet(q.list),
               shifted |-> FALSE, raised |-> {}]
  /\ calls' = calls + 1
  /\ UNCHANGED <<q, pushed, records, cancelled, withdrawn, hand, moved>>

FaultFits(call, id) == id.duration < call.available

\* _is_job_shorter is strict; pop_many takes what is not too long.
Fits(call, id) ==
  IF call.kind = "first" THEN id.duration < call.limit
                         ELSE id.duration <= call.available

FaultFirstFit(call) == SelectLastInSeq(call.entries, LAMBDA id : Fits(call, id))

\* The entries before the first one that fits are passed over.
FirstFit(call) == SelectInSeq(call.entries, LAMBDA id : Fits(call, id))

\* The LRANGE of the next batch, when nothing is left to visit in this one.
ReadBatch ==
  /\ mover.kind \in {"first", "many"}
  /\ hand = <<>>
  /\ FirstFit(mover) = 0
  /\ mover.batch < mover.batches
  /\ mover.kind = "many" => mover.available > 0
  /\ mover' = [mover EXCEPT
       !.batch = mover.batch + 1,
       !.shifted = @ \/ (mover.batch > 0 /\ ~ (mover.seen \subseteq ToSet(q.list))),
       !.entries = SubSeq(q.list, mover.batch * BatchSize + 1,
                          Min({(mover.batch + 1) * BatchSize, Len(q.list)}))]
  /\ UNCHANGED <<q, pushed, records, cancelled, withdrawn, hand, moved, calls>>

\* No batch is left, or no time.
End ==
  /\ mover.kind \in {"first", "many"}
  /\ hand = <<>>
  /\ FirstFit(mover) = 0
  /\ \/ mover.batch >= mover.batches
     \/ mover.kind = "many" /\ mover.available = 0
  /\ mover' = IF mover.kind = "first" THEN NoCall
              ELSE [mover EXCEPT !.kind = "ended", !.entries = <<>>]
  /\ UNCHANGED <<q, pushed, records, cancelled, withdrawn, hand, moved, calls>>

\* An exception over id ends the call: what it has not visited stays where it is.
Raise(id) ==
  mover' = IF mover.kind = "first" THEN NoCall
           ELSE [mover EXCEPT !.kind = "ended", !.entries = <<>>, !.raised = {id}]

\* pop_job of the first entry that fits, found or not.  When a cancel removed
\* it after the LRANGE, the ValidationError ends the call.
PopFitting ==
  /\ mover.kind \in {"first", "many"}
  /\ hand = <<>>
  /\ FirstFit(mover) # 0
  /\ LET id == mover.entries[FirstFit(mover)] IN
       /\ q' = PopJob(q, id)
       /\ \/ /\ HasPayload(q, id)
             /\ hand' = <<id>>
             /\ mover' = [mover EXCEPT
                  !.entries = SubSeq(@, FirstFit(mover) + 1, Len(@))]
          \/ /\ ~ HasPayload(q, id)
             /\ Raise(id)
             /\ UNCHANGED hand
  /\ UNCHANGED <<pushed, records, cancelled, withdrawn, moved, calls>>

FaultAvailableUnchanged ==
  /\ hand # <<>>
  /\ hand' = <<>>
  /\ IF hand[1].uuid \in records
     THEN /\ moved' = Append(moved, hand[1])
          /\ mover' = IF mover.kind = "first" THEN NoCall ELSE mover
     ELSE /\ Raise(hand[1])
          /\ UNCHANGED moved
  /\ UNCHANGED <<q, pushed, records, cancelled, withdrawn, calls>>

\* update_job_stage and enqueue for the popped job.  Without its record
\* update_job_stage raises, the job is dropped and the call ends.  pop_first has
\* returned one job and is done; pop_many resumes after its yield.
EnqueuePopped ==
  /\ hand # <<>>
  /\ hand' = <<>>
  /\ IF hand[1].uuid \in records
     THEN /\ moved' = Append(moved, hand[1])
          /\ mover' = IF mover.kind = "first" THEN NoCall
                      ELSE [mover EXCEPT !.available = @ - hand[1].duration]
     ELSE /\ Raise(hand[1])
          /\ UNCHANGED moved
  /\ UNCHANGED <<q, pushed, records, cancelled, withdrawn, calls>>

-----------------------------------------------------------------------------
Next ==
  \/ \E j \in Jobs : Push(j) \/ Cancel(j) \/ DeleteRecord(j)
  \/ \E kind \in {"first", "many"}, limit \in Limits : Begin(kind, limit)
  \/ ReadBatch \/ End \/ PopFitting \/ EnqueuePopped

Spec == Init /\ [][Next]_vars

-----------------------------------------------------------------------------
(* Properties.                                                             *)

\* A job is enqueued for execution at most once, and never when a cancel found
\* it on the waitlist, whatever the order of LRANGE, cancel and pop_job.
MovedAtMostOnce ==
  /\ IsInjective(moved)
  /\ \A n \in DOMAIN moved : moved[n].uuid \notin withdrawn

\* The time that pop_many still has, plus the jobs it moved, never exceeds the
\* time to the next booking that it was given.
MovedFitsWindow ==
  LET mine == mover.seen \cap ToSet(moved)
  IN mover.kind \in {"many", "ended"} =>
       mover.available + SumOfDurations(mine) <= mover.limit

\* No job is overtaken by a job that takes at least as long: whenever the worker
\* picks a job, every job in front of it on the waitlist is longer, unless the
\* list has shifted under the batches of the call.
NoOvertaking ==
  [][\A n \in DOMAIN q.list :
       (hand = <<>> /\ hand' = <<q.list[n]>> /\ ~ mover.shifted) =>
         \A m \in 1..(n - 1) : q.list[m].duration > q.list[n].duration]_vars

\* What of the list would still have fitted when the call came to its end.
LeftFitting ==
  {id \in ToSet(q.list) \cap mover.seen :
     mover.available > 0 /\ id.duration <= mover.available}

\* What a call of pop_many leaves on the waitlist.  When it runs to its end, no job
\* that was waiting when it began fits in the time that is left, unless the list has
\* become shorter before a batch after the first was read: the batch index does not
\* follow, and the entries that moved up are passed over.  When it is ended by an
\* exception, of pop_job (types.py:237) or of update_job_stage (tasks.py:793), that
\* exception is due to a job that the API has cancelled or deleted meanwhile.
\* Nothing else makes a call leave a job that fits.
LeavesNothingUnlessDisturbed ==
  mover.kind = "ended" =>
    /\ LeftFitting # {} => mover.shifted \/ mover.raised # {}
    /\ \A id \in mover.raised : id.uuid \in cancelled

=============================================================================
