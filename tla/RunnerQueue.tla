---------------------------- MODULE RunnerQueue ----------------------------
(***************************************************************************)
(* One RunnerQueue (app/libs/queues/types.py): a StaticQueue that keeps    *)
(* the jobs in order, and an RQ queue of anonymous tickets, each of which  *)
(* makes the RQ worker run whatever job is in front of the static queue    *)
(* at that moment (_run_next_job).                                         *)
(*                                                                         *)
(* Neither half is updated atomically with the other, and three kinds of   *)
(* processes interleave on them: the processes that enqueue (the API and   *)
(* the other workers), the single worker of the queue, and the API handler *)
(* that cancels.  Each action is one Redis command or pipeline.  The       *)
(* executing process, or one that enqueues, may also be killed between two *)
(* commands (RQ's job timeout, a restart), MaxCrashes times.               *)
(***************************************************************************)
EXTENDS StaticQueue

CONSTANTS
  Jobs,         \* the job ids that may be enqueued, each one once
  Duration,     \* Duration[j]: the estimated duration of job j
  MaxCancels,   \* bound on the number of cancel_job calls
  MaxCrashes    \* bound on the number of killed processes

ASSUME DurationAssumption == Duration \in [Jobs -> Nat]
ASSUME BoundsAssumption == MaxCancels \in Nat /\ MaxCrashes \in Nat

VARIABLES
  q,           \* the static queue
  tickets,     \* the rq job ids on the RQ queue, oldest first
  submitted,   \* the jobs passed to enqueue so far
  adding,      \* the jobs whose enqueue did the static add, not yet the ticket
  pc,          \* where the worker is in _run_next_job
  hand,        \* the storage id the worker holds, as a sequence of at most one
  cancelling,  \* the job whose cancel_job did pop_job, not yet cancel_rq_job
  cancels,     \* the number of cancel_job calls so far
  crashes,     \* the number of processes killed so far
  started,     \* history: the storage ids handed to the executor, in order
  withdrawn    \* history: the storage ids that a cancel_job found and removed

vars == <<q, tickets, submitted, adding, pc, hand, cancelling, cancels,
          crashes, started, withdrawn>>

Sid(j) == StorageID(j, Duration[j])
Ids == {Sid(j) : j \in Jobs}

\* The callers of enqueue name the ticket after the job and the stage
\* (scheduler/utils.py get_rq_job_id); cancel_job looks for one named after the
\* queue and the job (RunnerQueue.get_rq_job_id).  The two never coincide.
StageTicket(j) == [by |-> "stage", job |-> j]
QueueTicket(j) == [by |-> "queue", job |-> j]
Tickets == [by : {"stage", "queue"}, job : Jobs]

TypeOK ==
  /\ q \in QueueType(Ids)
  /\ tickets \in Seq(Tickets)
  /\ submitted \in SUBSET Jobs
  /\ adding \in SUBSET submitted
  /\ pc \in {"idle", "popping", "taking", "running"}
  /\ hand \in Seq(Ids)
  /\ Len(hand) = IF pc \in {"taking", "running"} THEN 1 ELSE 0
  /\ cancelling \in SUBSET Jobs
  /\ cancels \in Nat
  /\ crashes \in Nat
  /\ started \in Seq(Ids)
  /\ withdrawn \in SUBSET Ids

Init ==
  /\ q = EmptyQueue
  /\ tickets = <<>>
  /\ submitted = {}
  /\ adding = {}
  /\ pc = "idle"
  /\ hand = <<>>
  /\ cancelling = {}
  /\ cancels = 0
  /\ crashes = 0
  /\ started = <<>>
  /\ withdrawn = {}

-----------------------------------------------------------------------------
(* enqueue: first the static queue, then the ticket.                       *)

EnqueueAdd(j) ==
  /\ j \notin submitted
  /\ q' = Add(q, Sid(j))
  /\ submitted' = submitted \cup {j}
  /\ adding' = adding \cup {j}
  /\ UNCHANGED <<tickets, pc, hand, cancelling, cancels, crashes, started,
                 withdrawn>>

FaultTicketNamedAfterQueue(j) ==
  /\ j \in adding
  /\ tickets' = Append(tickets, QueueTicket(j))
  /\ adding' = adding \ {j}
  /\ UNCHANGED <<q, submitted, pc, hand, cancelling, cancels, crashes,
                 started, withdrawn>>

EnqueueTicket(j) ==
  /\ j \in adding
  /\ tickets' = Append(tickets, StageTicket(j))
  /\ adding' = adding \ {j}
  /\ UNCHANGED <<q, submitted, pc, hand, cancelling, cancels, crashes,
                 started, withdrawn>>

-----------------------------------------------------------------------------
(* The worker: a ticket, then _run_next_job, that is the LPOP of next, its *)
(* pipeline, and the call of the executor function.                        *)

\* RQ's worker takes the oldest ticket (external).
TakeTicket ==
  /\ pc = "idle"
  /\ tickets # <<>>
  /\ tickets' = Tail(tickets)
  /\ pc' = "popping"
  /\ UNCHANGED <<q, submitted, adding, hand, cancelling, cancels, crashes,
                 started, withdrawn>>

FaultNextRPop ==
  /\ pc = "popping"
  /\ \/ /\ q.list = <<>>
        /\ pc' = "idle"
        /\ UNCHANGED <<q, hand>>
     \/ /\ q.list # <<>>
        /\ hand' = <<Last(q.list)>>
        /\ q' = [q EXCEPT !.list = Front(q.list)]
        /\ pc' = "taking"
  /\ UNCHANGED <<tickets, submitted, adding, cancelling, cancels, crashes,
                 started, withdrawn>>

\* On an empty list LPOP returns None, whose duration raises a ValueError that
\* next does not catch: the ticket is used up.
NextLPop ==
  /\ pc = "popping"
  /\ \/ /\ q.list = <<>>
        /\ pc' = "idle"
        /\ UNCHANGED <<q, hand>>
     \/ /\ q.list # <<>>
        /\ hand' = <<Head(q.list)>>
        /\ q' = LPop(q)
        /\ pc' = "taking"
  /\ UNCHANGED <<tickets, submitted, adding, cancelling, cancels, crashes,
                 started, withdrawn>>

FaultTakeKeepsTotal ==
  /\ pc = "taking"
  /\ q' = [q EXCEPT !.store = q.store \ {hand[1]}]
  /\ \/ /\ HasPayload(q, hand[1])
        /\ started' = Append(started, hand[1])
        /\ pc' = "running"
        /\ UNCHANGED hand
     \/ /\ ~ HasPayload(q, hand[1])
        /\ pc' = "idle"
        /\ hand' = <<>>
        /\ UNCHANGED started
  /\ UNCHANGED <<tickets, submitted, adding, cancelling, cancels, crashes,
                 withdrawn>>

\* A payload that was deleted between the LPOP and the pipeline makes next
\* return None, and unpacking None fails the ticket.
NextTake ==
  /\ pc = "taking"
  /\ q' = Take(q, hand[1])
  /\ \/ /\ HasPayload(q, hand[1])
        /\ started' = Append(started, hand[1])
        /\ pc' = "running"
        /\ UNCHANGED hand
     \/ /\ ~ HasPayload(q, hand[1])
        /\ pc' = "idle"
        /\ hand' = <<>>
        /\ UNCHANGED started
  /\ UNCHANGED <<tickets, submitted, adding, cancelling, cancels, crashes,
                 withdrawn>>

FaultFinishKeepsHand ==
  /\ pc = "running"
  /\ pc' = "idle"
  /\ UNCHANGED <<q, tickets, submitted, adding, hand, cancelling, cancels,
                 crashes, started, withdrawn>>

\* The executor function returns or raises.
Finish ==
  /\ pc = "running"
  /\ pc' = "idle"
  /\ hand' = <<>>
  /\ UNCHANGED <<q, tickets, submitted, adding, cancelling, cancels, crashes,
                 started, withdrawn>>

-----------------------------------------------------------------------------
(* cancel_job: pop_job with the storage id the API computed from the job   *)
(* record it read, then cancel_rq_job.  The record may have been read      *)
(* before preprocessing stored the duration (the id then says 0), and the  *)
(* job may be in another queue, still unsubmitted, running or finished.    *)
(* The API serves one request at a time.                                   *)

FaultCancelKeepsPayload(j) ==
  /\ cancelling = {}
  /\ cancels < MaxCancels
  /\ q' = [q EXCEPT !.list = RemoveFirst(q.list, Sid(j)),
                    !.total = q.total - Duration[j]]
  /\ withdrawn' = IF HasPayload(q, Sid(j)) THEN withdrawn \cup {Sid(j)}
                  ELSE withdrawn
  /\ cancelling' = {j}
  /\ cancels' = cancels + 1
  /\ UNCHANGED <<tickets, submitted, adding, pc, hand, crashes, started>>

CancelPop(j) ==
  /\ cancelling = {}
  /\ cancels < MaxCancels
  /\ \E d \in {Duration[j], 0} :
       /\ q' = PopJob(q, StorageID(j, d))
       /\ withdrawn' = IF HasPayload(q, StorageID(j, d))
                       THEN withdrawn \cup {StorageID(j, d)} ELSE withdrawn
  /\ cancelling' = {j}
  /\ cancels' = cancels + 1
  /\ UNCHANGED <<tickets, submitted, adding, pc, hand, crashes, started>>

\* cancel_rq_job drops the ticket of that id, if the RQ queue has one.
CancelTicket(j) ==
  /\ j \in cancelling
  /\ tickets' = RemoveFirst(tickets, QueueTicket(j))
  /\ cancelling' = {}
  /\ UNCHANGED <<q, submitted, adding, pc, hand, cancels, crashes, started,
                 withdrawn>>

-----------------------------------------------------------------------------
(* A process is killed: the worker's work horse anywhere in _run_next_job, *)
(* or a process between the two halves of enqueue.                         *)

WorkerCrash ==
  /\ crashes < MaxCrashes
  /\ pc # "idle"
  /\ pc' = "idle"
  /\ hand' = <<>>
  /\ crashes' = crashes + 1
  /\ UNCHANGED <<q, tickets, submitted, adding, cancelling, cancels, started,
                 withdrawn>>

ProducerCrash(j) ==
  /\ crashes < MaxCrashes
  /\ j \in adding
  /\ adding' = adding \ {j}
  /\ crashes' = crashes + 1
  /\ UNCHANGED <<q, tickets, submitted, pc, hand, cancelling, cancels,
                 started, withdrawn>>

-----------------------------------------------------------------------------
WorkerStep == TakeTicket \/ NextLPop \/ NextTake \/ Finish

Next ==
  \/ \E j \in Jobs : \/ EnqueueAdd(j) \/ EnqueueTicket(j)
                     \/ CancelPop(j) \/ CancelTicket(j)
                     \/ ProducerCrash(j)
  \/ WorkerStep
  \/ WorkerCrash

Spec == Init /\ [][Next]_vars

\* A process that is not killed goes on: an enqueue in progress places its
\* ticket, a cancel in progress ends, and the RQ worker, whose jobs all have a
\* timeout, keeps taking tickets.
Fairness ==
  /\ \A j \in Jobs : WF_vars(EnqueueTicket(j)) /\ WF_vars(CancelTicket(j))
  /\ WF_vars(WorkerStep)

FairSpec == Spec /\ Fairness

-----------------------------------------------------------------------------
(* Properties.                                                             *)

\* No job is stranded on the static queue for want of a ticket: there are never
\* more jobs on the list than tickets that are waiting, about to be placed, in
\* the worker's hand before its LPOP, or destroyed by a crash.  Tickets are
\* anonymous, so cancel_job may remove a job but must never remove a ticket:
\* the one it removed could be the one another job depends on.
EveryEntryHasATicket ==
  Len(q.list) <= Len(tickets) + Cardinality(adding) + crashes
                 + (IF pc = "popping" THEN 1 ELSE 0)

\* A job leaves the queue in one way only.  It is handed to the executor at
\* most once, and never after a cancel_job found it, also when the cancel falls
\* between the LPOP and the pipeline of next.
OneOutcome ==
  /\ \A m, n \in 1..Len(started) : started[m] = started[n] => m = n
  /\ \A n \in 1..Len(started) : started[n] \notin withdrawn

\* Why OneOutcome holds.  The list has no duplicates and only ids with a payload;
\* the id that a worker popped is not on it any more; a payload is that of a job
\* that was submitted and has neither started nor been withdrawn; and every
\* ticket has the name that enqueue gave it, so that cancel_job finds none.
EntriesAreLive ==
  /\ \A m, n \in 1..Len(q.list) : q.list[m] = q.list[n] => m = n
  /\ \A n \in 1..Len(q.list) : q.list[n] \in q.store
  /\ pc = "taking" => /\ hand[1].uuid \in submitted
                      /\ \A n \in 1..Len(q.list) : q.list[n] # hand[1]
  /\ \A id \in q.store : /\ id.uuid \in submitted
                         /\ id \notin withdrawn
                         /\ \A n \in 1..Len(started) : started[n] # id
  /\ \A id \in withdrawn : id.uuid \in submitted
  /\ \A n \in 1..Len(started) : started[n].uuid \in submitted
  /\ \A n \in 1..Len(tickets) : tickets[n].by = "stage"

\* Without crashes a job that is submitted eventually starts or is withdrawn.
EveryJobLeaves ==
  \A j \in Jobs :
    (j \in submitted) ~>
      (Sid(j) \in ToSet(started) \cup withdrawn \/ crashes > 0)

\* Refinement of AbstractQueue.  What waits is the job that the worker holds
\* between LPOP and pipeline, as long as it has its payload, and the list;
\* a payload outside of these is what a killed worker left behind.
pending ==
  (IF pc = "taking" /\ HasPayload(q, hand[1]) THEN hand ELSE <<>>) \o q.list

lost == q.store \ ToSet(pending)

\* total_duration is never above what is queued: when every payload belongs to a
\* job that waits, it is at most the sum of the durations of the jobs that wait.
\* The one exception is a worker that was killed between the LPOP and the pipeline
\* of next: the job it held is counted until a cancel takes it, and there is at most
\* one such job for each kill.  A total that stays too high sends later jobs to the
\* waitlist.
TotalNeverOverstates ==
  /\ lost = {} => q.total <= SumOfDurations(ToSet(pending))
  /\ Cardinality(lost) <= crashes

Promise ==
  INSTANCE AbstractQueue WITH started <- ToSet(started)

\* The runner queue implements the FIFO queue with withdrawal of AbstractQueue.
ImplementsAbstractQueue == Promise!Spec

=============================================================================
