--------------------------- MODULE Recalibration ---------------------------
(***************************************************************************)
(* The recalibration of the device.  A recalibration is a job of a plain   *)
(* RQ queue that, when it is done, schedules the next one; such a chain is *)
(* started by init_recalibration (at the start of the API, or on request)  *)
(* and ended by stop_recalibration, which looks for jobs on the queue and  *)
(* in the registry of scheduled jobs and cancels them one by one.          *)
(*                                                                         *)
(* Three processes interleave: the API (one request at a time), the worker *)
(* of the queue, and RQ's scheduler, which moves scheduled jobs that are   *)
(* due to the queue.  The API may be killed and restarted.                 *)
(***************************************************************************)
EXTENDS Integers, Sequences, SequencesExt, FiniteSets

CONSTANTS
  MaxJobs,      \* bound on the number of RQ jobs created
  MaxRequests   \* bound on the number of requests, starts and stops of the API

ASSUME BoundsAssumption == MaxJobs \in Nat /\ MaxRequests \in Nat

VARIABLES
  queued,     \* the RQ jobs on the queue, oldest first
  scheduled,  \* the RQ jobs in the scheduled job registry
  running,    \* the RQ job the worker runs: at most one
  made,       \* the number of RQ jobs created; they are numbered
  api,        \* the request the API is serving
  requests,   \* the number of requests so far
  before,     \* history: the jobs that were pending when the last stop began
  slipped,    \* history: jobs released between the two reads of the last stop
  overlap,    \* history: a job ran, or slipped, during the stop in progress
  raced       \* history: this was so for some init

vars == <<queued, scheduled, running, made, api, requests, before, slipped,
          overlap, raced>>

RqJobs == 1..MaxJobs

Pending == ToSet(queued) \cup scheduled
Live == Pending \cup running

Ops == {"none", "init_now", "init_at", "stop", "shutdown"}

TypeOK ==
  /\ queued \in Seq(RqJobs)
  /\ scheduled \in SUBSET RqJobs
  /\ running \in SUBSET RqJobs
  /\ Cardinality(running) <= 1
  \* an RQ job is in one place at a time
  /\ IsInjective(queued)
  /\ ToSet(queued) \cap scheduled = {}
  /\ Pending \cap running = {}
  /\ made \in 0..MaxJobs
  /\ api \in [op : Ops, pc : {"down", "idle", "read", "cancel", "enqueue"},
              ids : SUBSET RqJobs]
  /\ requests \in 0..MaxRequests
  /\ before \in SUBSET RqJobs
  /\ slipped \in SUBSET RqJobs
  /\ overlap \in BOOLEAN
  /\ raced \in BOOLEAN

At(pc) == [op |-> "none", pc |-> pc, ids |-> {}]

Init ==
  /\ queued = <<>>
  /\ scheduled = {}
  /\ running = {}
  /\ made = 0
  /\ api = At("down")
  /\ requests = 0
  /\ before = {}
  /\ slipped = {}
  /\ overlap = FALSE
  /\ raced = FALSE

-----------------------------------------------------------------------------
(* The API.                                                                *)

\* stop_recalibration, first read: the ids on the queue.
ReadQueue(op) ==
  /\ requests < MaxRequests
  /\ requests' = requests + 1
  /\ api' = [op |-> op, pc |-> "read", ids |-> ToSet(queued)]
  /\ before' = Pending
  /\ slipped' = {}
  /\ overlap' = (running # {})
  /\ UNCHANGED <<queued, scheduled, running, made, raced>>

\* lifespan calls init_recalibration when the API starts, and
\* stop_recalibration when it ends or when it cannot start (MSS is not reached).
Startup == api.pc = "down" /\ ReadQueue("init_now")
Shutdown == api.pc \in {"idle", "down"} /\ ReadQueue("shutdown")

\* POST /recalibration/init, with or without a start_timestamp, and
\* POST /recalibration/cancel
RequestInit == api.pc = "idle" /\ \E op \in {"init_now", "init_at"} : ReadQueue(op)
RequestStop == api.pc = "idle" /\ ReadQueue("stop")

FaultReadScheduled ==
  /\ api.pc = "read"
  /\ api' = [api EXCEPT !.pc = "cancel"]
  /\ UNCHANGED <<queued, scheduled, running, made, requests, before, slipped,
                 overlap, raced>>

\* stop_recalibration, second read: the ids in the registry.
ReadScheduled ==
  /\ api.pc = "read"
  /\ api' = [api EXCEPT !.pc = "cancel", !.ids = @ \cup scheduled]
  /\ UNCHANGED <<queued, scheduled, running, made, requests, before, slipped,
                 overlap, raced>>

\* cancel_rq_job takes the job off the queue and the registry.  A job that has
\* been started meanwhile is marked as cancelled, and goes on.
CancelOne(id) ==
  /\ api.pc = "cancel"
  /\ id \in api.ids
  /\ api' = [api EXCEPT !.ids = @ \ {id}]
  /\ queued' = RemoveFirst(queued, id)
  /\ scheduled' = scheduled \ {id}
  /\ UNCHANGED <<running, made, requests, before, slipped, overlap, raced>>

\* stop_recalibration returns, to init_recalibration or to its handler.
StopReturns ==
  /\ api.pc = "cancel"
  /\ api.ids = {}
  /\ api' = CASE api.op = "stop"     -> At("idle")
              [] api.op = "shutdown" -> At("down")
              [] OTHER               -> [api EXCEPT !.pc = "enqueue"]
  /\ UNCHANGED <<queued, scheduled, running, made, requests, before, slipped,
                 overlap, raced>>

FaultEnqueueFirst ==
  /\ api.pc = "enqueue"
  /\ made < MaxJobs
  /\ made' = made + 1
  /\ queued' = Append(queued, made + 1)
  /\ scheduled' = IF api.op = "init_at" THEN scheduled \cup {made + 1}
                                       ELSE scheduled
  /\ api' = At("idle")
  /\ raced' = (raced \/ overlap)
  /\ UNCHANGED <<running, requests, before, slipped, overlap>>

\* init_recalibration: enqueue, or enqueue_at(start_timestamp).
EnqueueFirst ==
  /\ api.pc = "enqueue"
  /\ made < MaxJobs
  /\ made' = made + 1
  /\ \/ /\ api.op = "init_now"
        /\ queued' = Append(queued, made + 1)
        /\ UNCHANGED scheduled
     \/ /\ api.op = "init_at"
        /\ scheduled' = scheduled \cup {made + 1}
        /\ UNCHANGED queued
  /\ api' = At("idle")
  /\ raced' = (raced \/ overlap)
  /\ UNCHANGED <<running, requests, before, slipped, overlap>>

\* The API process is killed; Redis keeps what it holds.
Crash ==
  /\ api.pc # "down"
  /\ api' = At("down")
  /\ before' = {}
  /\ UNCHANGED <<queued, scheduled, running, made, requests, slipped, overlap,
                 raced>>

ApiStep ==
  \/ ReadScheduled \/ StopReturns \/ EnqueueFirst
  \/ \E id \in RqJobs : CancelOne(id)

-----------------------------------------------------------------------------
(* The worker and RQ's scheduler.                                          *)

InStop == api.pc \in {"read", "cancel", "enqueue"}

\* The worker takes the oldest job (external).
StartRun ==
  /\ running = {}
  /\ queued # <<>>
  /\ running' = {Head(queued)}
  /\ queued' = Tail(queued)
  /\ overlap' = (overlap \/ InStop)
  /\ UNCHANGED <<scheduled, made, api, requests, before, slipped, raced>>

FaultScheduleNext ==
  /\ running # {}
  /\ made < MaxJobs
  /\ made' = made + 1
  /\ scheduled' = scheduled \cup {made + 1}
  /\ queued' = queued \o SetToSeq(running)
  /\ running' = {}
  /\ UNCHANGED <<api, requests, before, slipped, overlap, raced>>

\* recalibrate succeeds and calls enqueue_in; the interval is always a float.
ScheduleNext ==
  /\ running # {}
  /\ made < MaxJobs
  /\ made' = made + 1
  /\ scheduled' = scheduled \cup {made + 1}
  /\ running' = {}
  /\ UNCHANGED <<queued, api, requests, before, slipped, overlap, raced>>

FaultFailRun ==
  /\ running # {}
  /\ UNCHANGED vars

\* The executor or MSS fails, the job times out, or the worker is killed: the
\* next recalibration is not scheduled.
FailRun ==
  /\ running # {}
  /\ running' = {}
  /\ UNCHANGED <<queued, scheduled, made, api, requests, before, slipped,
                 overlap, raced>>

\* RQ's scheduler moves a job that is due (external).
Release(id) ==
  /\ id \in scheduled
  /\ scheduled' = scheduled \ {id}
  /\ queued' = Append(queued, id)
  /\ slipped' = IF api.pc = "read" THEN slipped \cup {id} ELSE slipped
  /\ overlap' = (overlap \/ api.pc = "read")
  /\ UNCHANGED <<running, made, api, requests, before, raced>>

WorkerStep == StartRun \/ ScheduleNext \/ FailRun

-----------------------------------------------------------------------------
Next ==
  \/ Startup \/ Shutdown \/ RequestInit \/ RequestStop \/ ApiStep \/ Crash
  \/ WorkerStep
  \/ \E id \in RqJobs : Release(id)

Spec == Init /\ [][Next]_vars

\* The worker keeps working (every job has a timeout).  Nothing is assumed of the
\* scheduler: start_bcc.sh starts every worker without --with-scheduler, so that
\* whether a scheduled job is ever released depends on the deployment.
Fairness == WF_vars(StartRun) /\ WF_vars(ScheduleNext \/ FailRun)

FairSpec == Spec /\ Fairness

-----------------------------------------------------------------------------
(* Properties.                                                             *)

\* There is at most one chain of recalibrations, unless some init ran while a
\* recalibration was running, or while the scheduler moved a job between the two
\* reads of its stop.  Restarts and crashes of the API do not multiply chains.
OneChainUnlessOverlap == raced \/ Cardinality(Live) <= 1

\* A stop that has returned cancelled everything that was pending when it began,
\* except what the scheduler moved between its two reads.
StoppedUnlessSlipped ==
  api.pc \in {"idle", "enqueue", "down"} => before \cap Pending \subseteq slipped

\* Every recalibration that is on the queue is run or cancelled, however many
\* requests, restarts and failed recalibrations come before it.  Nothing is said of
\* one that is only scheduled, which waits for a scheduler.
EveryQueuedRuns ==
  \A id \in RqJobs : (id \in ToSet(queued)) ~> (id \notin ToSet(queued))

=============================================================================
