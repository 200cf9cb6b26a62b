---------------------------- MODULE JobLifecycle ----------------------------
(***************************************************************************)
(* The life of a job, from submission to its last status, as the workers   *)
(* of app/services/scheduler/tasks.py and the cancel and delete requests   *)
(* of the API see it through the job record in Redis.                      *)
(*                                                                         *)
(* The record is changed by read-modify-write.  Collection.update reads    *)
(* the whole record and later writes the whole record back, and            *)
(* update_job_stage reads once more before that, to compute the status:    *)
(*                                                                         *)
(*     r1  get_one in update_job_stage: the next status is computed        *)
(*     r2  get_one in Collection.update: the fields to be kept are read    *)
(*     w   the pipeline of Collection.update                               *)
(*                                                                         *)
(* A request of the API can fall between any two of these steps of a       *)
(* worker, and the other way round.  The queues are kept abstract here (a  *)
(* job is in one place at a time, which RunnerQueue and Waitlist justify). *)
(***************************************************************************)
EXTENDS Integers, FiniteSets

CONSTANTS
  Jobs,         \* the job ids; each is submitted at most once
  MaxRequests   \* bound on the number of cancel and delete requests

ASSUME BoundsAssumption == MaxRequests \in Nat

VARIABLES
  rec,       \* rec[j]: the record of job j, or NoRecord
  at,        \* at[j]: the queue job j is on, or the step of the worker that has it
  on,        \* on[j]: the execution queue chosen for job j
  step,      \* step[j]: where the worker is in the update of rec[j] it performs
  tmp,       \* tmp[j]: what that update has read: the next status and the record
  api,       \* the request the API is serving
  requests,  \* the number of cancel and delete requests so far
  settled    \* history: the jobs cancelled in time and undisturbed (see below)

vars == <<rec, at, on, step, tmp, api, requests, settled>>

Statuses == {"PENDING", "EXECUTING", "FAILED", "SUCCESSFUL", "CANCELLED"}

\* JobStatus.is_terminal
IsTerminal(s) == s \in {"CANCELLED", "FAILED", "SUCCESSFUL"}

\* The stages a job goes through after its registration (class Stage).
Stages == {"PRE_PROC_Q", "PRE_PROC_W", "EXEC_Q", "EXEC_W", "PST_PROC_Q",
           "PST_PROC_W", "FINAL_Q", "FINAL_W"}

\* _STAGE_STATUS_MAP
StageStatus(stage) ==
  CASE stage \in {"PRE_PROC_Q", "EXEC_Q"} -> "PENDING"
    [] stage = "FINAL_W" -> "SUCCESSFUL"
    [] OTHER -> "EXECUTING"

\* _get_next_status
NextStatus(s, stage) == IF IsTerminal(s) THEN s ELSE StageStatus(stage)

Record == [status : Statuses, stage : Stages,
           timed : BOOLEAN, result : BOOLEAN]
NoRecord == [status |-> "PENDING", stage |-> "none", timed |-> FALSE, result |-> FALSE]

\* Where a job can be.  The names of queues end in _q.
PreSteps  == {"pre_w", "compile", "duration", "route", "too_long", "to_waitlist",
              "to_exec", "pre_fail"}
ExecSteps == {"exec_w", "lock", "run", "check", "to_post", "exec_fail"}
PostSteps == {"move_file", "post_w", "read_file", "results", "mss", "post_fail",
              "final_q", "final_w"}
Places == {"new", "pre_q", "waitlist", "moving", "exec_q", "post_q", "ended",
           "withdrawn"} \cup PreSteps \cup ExecSteps \cup PostSteps

Idle == [op |-> "none", pc |-> "", job |-> {}, timed |-> FALSE, snap |-> NoRecord]

Init ==
  /\ rec = [j \in Jobs |-> NoRecord]
  /\ at = [j \in Jobs |-> "new"]
  /\ on = [j \in Jobs |-> "none"]
  /\ step = [j \in Jobs |-> "r1"]
  /\ tmp = [j \in Jobs |-> [status |-> "PENDING", snap |-> NoRecord]]
  /\ api = Idle
  /\ requests = 0
  /\ settled = {}

Exists(j) == rec[j] # NoRecord

-----------------------------------------------------------------------------
(* The two ways a worker changes the record.                               *)

\* Steps of the worker that has job j, from place `here` to place `next`.
Go(j, here, next) ==
  /\ at[j] = here
  /\ at' = [at EXCEPT ![j] = next]

\* The steps that Collection.update takes after the status was decided.  The
\* record that is written is the one that was read, with the new fields.
UpdateR2(j, here, missing) ==
  /\ at[j] = here /\ step[j] = "r2"
  /\ \/ /\ Exists(j)
        /\ tmp' = [tmp EXCEPT ![j].snap = rec[j]]
        /\ step' = [step EXCEPT ![j] = "w"]
        /\ UNCHANGED at
     \/ /\ ~ Exists(j)
        /\ Go(j, here, missing)
        /\ step' = [step EXCEPT ![j] = "r1"]
        /\ UNCHANGED tmp
  /\ UNCHANGED rec

UpdateW(j, here, stage, next) ==
  /\ step[j] = "w"
  /\ rec' = [rec EXCEPT ![j] =
               [tmp[j].snap EXCEPT !.status = tmp[j].status, !.stage = stage]]
  /\ step' = [step EXCEPT ![j] = "r1"]
  /\ Go(j, here, next)
  /\ UNCHANGED tmp

\* update_job_stage(jobs_store, job_id, stage): a missing record raises
\* ItemNotFoundError at either read.
UpdateJobStage(j, here, stage, next, missing) ==
  /\ \/ /\ at[j] = here /\ step[j] = "r1"
        /\ \/ /\ Exists(j)
              /\ tmp' = [tmp EXCEPT ![j].status = NextStatus(rec[j].status, stage)]
              /\ step' = [step EXCEPT ![j] = "r2"]
              /\ UNCHANGED at
           \/ /\ ~ Exists(j)
              /\ Go(j, here, missing)
              /\ UNCHANGED <<step, tmp>>
        /\ UNCHANGED rec
     \/ UpdateR2(j, here, missing)
     \/ UpdateW(j, here, stage, next)
  /\ UNCHANGED <<on, api, requests, settled>>

\* {**old_item, **updates}
Merge(old, updates) ==
  [f \in DOMAIN old |-> IF f \in DOMAIN updates THEN updates[f] ELSE old[f]]

\* jobs_store.update(job_id, updates): a status is written unconditionally.
Update(j, here, updates, next, missing) ==
  /\ at[j] = here
  /\ \/ /\ step[j] = "r1"
        /\ \/ /\ Exists(j)
              /\ tmp' = [tmp EXCEPT ![j].snap = rec[j]]
              /\ step' = [step EXCEPT ![j] = "w"]
              /\ UNCHANGED at
           \/ /\ ~ Exists(j)
              /\ Go(j, here, missing)
              /\ UNCHANGED <<step, tmp>>
        /\ UNCHANGED rec
     \/ /\ step[j] = "w"
        /\ rec' = [rec EXCEPT ![j] = Merge(tmp[j].snap, updates)]
        /\ step' = [step EXCEPT ![j] = "r1"]
        /\ Go(j, here, next)
        /\ UNCHANGED tmp
  /\ UNCHANGED <<on, api, requests, settled>>

\* A step that does not touch the record.
Local(j, here, next) ==
  /\ Go(j, here, next)
  /\ UNCHANGED <<rec, on, step, tmp, api, requests, settled>>

\* log_job_failure
Failed == [status |-> "FAILED"]

-----------------------------------------------------------------------------
(* POST /jobs: the record is inserted, then the job is enqueued.           *)


SubmitJobFile(j) ==
  /\ rec' = [rec EXCEPT ![j] = [status |-> "PENDING", stage |-> "PRE_PROC_Q",
                                timed |-> FALSE, result |-> FALSE]]
  /\ Go(j, "new", "pre_q")
  /\ UNCHANGED <<on, step, tmp, api, requests, settled>>

-----------------------------------------------------------------------------
(* preprocess, on the single worker of the preprocessing queue.            *)

\* the job file is read and validated first, which may raise
PreStart(j) ==
  /\ \A k \in Jobs : at[k] \notin PreSteps
  /\ Local(j, "pre_q", "pre_w") \/ Local(j, "pre_q", "pre_fail")
PreStage(j) == UpdateJobStage(j, "pre_w", "PRE_PROC_W", "compile", "pre_fail")
\* decoding and executor.preprocess, which may raise
Compile(j) == Local(j, "compile", "duration") \/ Local(j, "compile", "pre_fail")
StoreDuration(j) ==
  Update(j, "duration", [timed |-> TRUE], "route", "pre_fail")
\* _try_enqueue_on_normal_queue and _try_enqueue_on_booked_queue: the choice
\* depends on bookings and queue lengths.
Route(j) ==
  \/ Local(j, "route", "to_waitlist")
  \/ Local(j, "route", "too_long")
  \/ \E queue \in {"normal", "booked"} :
       /\ Go(j, "route", "to_exec")
       /\ on' = [on EXCEPT ![j] = queue]
       /\ UNCHANGED <<rec, step, tmp, api, requests, settled>>
TooLong(j) == Update(j, "too_long", Failed, "ended", "pre_fail")
\* _push_to_waitlist
PushToWaitlist(j) ==
  \/ Exists(j) /\ Local(j, "to_waitlist", "waitlist")
  \/ ~ Exists(j) /\ Local(j, "to_waitlist", "pre_fail")
ToExec(j) == UpdateJobStage(j, "to_exec", "EXEC_Q", "exec_q", "pre_fail")

FaultPreFail(j) ==
  /\ rec' = [rec EXCEPT ![j] = Merge(@, Failed)]
  /\ Go(j, "pre_fail", "ended")
  /\ UNCHANGED <<on, step, tmp, api, requests, settled>>

\* the except clauses: log_job_failure
PreFail(j) == Update(j, "pre_fail", Failed, "ended", "ended")

Preprocess(j) ==
  \/ PreStart(j) \/ PreStage(j) \/ Compile(j) \/ StoreDuration(j) \/ Route(j)
  \/ TooLong(j) \/ PushToWaitlist(j) \/ ToExec(j) \/ PreFail(j)

-----------------------------------------------------------------------------
(* _pop_waitlist_to_booking and _pop_waitlist_to_normal_queue, on the      *)
(* general worker: a failure to update the stage drops the job.            *)

PopWaitlist(j) ==
  /\ \A k \in Jobs : at[k] # "moving"
  /\ Go(j, "waitlist", "moving")
  /\ \E queue \in {"normal", "booked"} : on' = [on EXCEPT ![j] = queue]
  /\ UNCHANGED <<rec, step, tmp, api, requests, settled>>

MoveToExec(j) == UpdateJobStage(j, "moving", "EXEC_Q", "exec_q", "ended")

MoveFromWaitlist(j) == PopWaitlist(j) \/ MoveToExec(j)

-----------------------------------------------------------------------------
(* execute, on the single worker of each of the two execution queues; the  *)
(* executor lock keeps the two from running at once.                       *)

ExecStart(j) ==
  /\ \A k \in Jobs : on[k] = on[j] => at[k] \notin ExecSteps
  /\ Local(j, "exec_q", "exec_w")
ExecStage(j) == UpdateJobStage(j, "exec_w", "EXEC_W", "lock", "exec_fail")
AcquireLock(j) == (\A k \in Jobs : at[k] # "run") /\ Local(j, "lock", "run")
\* RQ's job timeout interrupts the wait for the lock
LockTimeout(j) == Local(j, "lock", "exec_fail")
\* executor.run, which may raise; the lock is released either way
Run(j) == Local(j, "run", "check") \/ Local(j, "run", "exec_fail")

FaultCheckCancelled(j) ==
  \/ Exists(j) /\ Local(j, "check", "to_post")
  \/ ~ Exists(j) /\ Local(j, "check", "exec_fail")

\* JobAlreadyCancelled ends the job as it is
CheckCancelled(j) ==
  \/ Exists(j) /\ rec[j].status = "CANCELLED" /\ Local(j, "check", "ended")
  \/ Exists(j) /\ rec[j].status # "CANCELLED" /\ Local(j, "check", "to_post")
  \/ ~ Exists(j) /\ Local(j, "check", "exec_fail")
ToPost(j) == UpdateJobStage(j, "to_post", "PST_PROC_Q", "post_q", "exec_fail")

FaultExecFail(j) == Local(j, "exec_fail", "ended")

ExecFail(j) == Update(j, "exec_fail", Failed, "ended", "ended")

Execute(j) ==
  \/ ExecStart(j) \/ ExecStage(j) \/ AcquireLock(j) \/ LockTimeout(j) \/ Run(j)
  \/ CheckCancelled(j) \/ ToPost(j) \/ ExecFail(j)

-----------------------------------------------------------------------------
(* postprocess and its callbacks, on the single postprocessing worker.     *)

PostStart(j) ==
  (\A k \in Jobs : at[k] \notin PostSteps) /\ Local(j, "post_q", "move_file")
\* move_file, update_job_stage and read_job_from_hdf5 are outside of the try:
\* what they raise is not a PostProcessingError, and the failure callback ignores it.
MoveFile(j) == Local(j, "move_file", "post_w") \/ Local(j, "move_file", "ended")
PostStage(j) == UpdateJobStage(j, "post_w", "PST_PROC_W", "read_file", "ended")
ReadFile(j) ==
  \/ Local(j, "read_file", "results")
  \/ Local(j, "read_file", "ended")
  \* the measurement level is not supported, or discrimination raises
  \/ Local(j, "read_file", "post_fail")
\* update_job_results
UpdateJobResults(j) ==
  Update(j, "results", [status |-> "SUCCESSFUL", result |-> TRUE], "mss", "post_fail")
\* update_job_in_mss, which may raise
UpdateInMss(j) == Local(j, "mss", "final_q") \/ Local(j, "mss", "post_fail")
\* postprocessing_failure_callback
PostFail(j) == Update(j, "post_fail", Failed, "ended", "ended")
\* postprocessing_success_callback; the job that update_job_stage returns is the
\* one it wrote
FinalQ(j) ==
  UpdateJobStage(j, "final_q", "FINAL_Q",
                 IF tmp[j].status = "SUCCESSFUL" THEN "final_w" ELSE "ended", "ended")
FinalW(j) == UpdateJobStage(j, "final_w", "FINAL_W", "ended", "ended")

Postprocess(j) ==
  \/ PostStart(j) \/ MoveFile(j) \/ PostStage(j) \/ ReadFile(j)
  \/ UpdateJobResults(j) \/ UpdateInMss(j) \/ PostFail(j) \/ FinalQ(j) \/ FinalW(j)

-----------------------------------------------------------------------------
(* POST /jobs/{id}/cancel and DELETE /jobs/{id}.  The API serves one at a  *)
(* time: it reads the record (for the storage id, hence whether the        *)
(* duration is known), visits the queues in the order of                   *)
(* _cancel_job_in_queues, and then updates, and deletes, the record.       *)

Request(j, op) ==
  /\ api.op = "none"
  /\ requests < MaxRequests
  /\ Exists(j)
  /\ api' = [op |-> op, pc |-> "waitlist", job |-> {j}, timed |-> rec[j].timed,
             snap |-> NoRecord]
  /\ requests' = requests + 1
  /\ UNCHANGED <<rec, at, on, step, tmp, settled>>

NextQueue(pc) ==
  CASE pc = "waitlist" -> "pre_q"
    [] pc = "pre_q"    -> "exec_q"
    [] pc = "exec_q"   -> "post_q"
    [] pc = "post_q"   -> "r2"

\* pop_job hits only when the storage id has the right duration; on the
\* preprocessing queue that is always 0.
VisitQueue(j) ==
  /\ api.job = {j}
  /\ api.pc \in {"waitlist", "pre_q", "exec_q", "post_q"}
  /\ api' = [api EXCEPT !.pc = NextQueue(@)]
  /\ at' = IF at[j] = api.pc /\ (api.pc = "pre_q" \/ api.timed)
           THEN [at EXCEPT ![j] = "withdrawn"] ELSE at
  /\ UNCHANGED <<rec, on, step, tmp, requests, settled>>

CancelRead(j) ==
  /\ api.job = {j}
  /\ api.pc = "r2"
  /\ \/ Exists(j) /\ api' = [api EXCEPT !.pc = "w", !.snap = rec[j]]
     \/ ~ Exists(j) /\ api' = Idle
  /\ UNCHANGED <<rec, at, on, step, tmp, requests, settled>>

\* A job that is cancelled before the check of execute, while its worker is not
\* in the middle of an update, counts as settled.
InTime(j) ==
  /\ step[j] = "r1"
  /\ at[j] \notin {"to_post", "post_q", "ended"} \cup PostSteps

CancelWrite(j) ==
  /\ api.job = {j}
  /\ api.pc = "w"
  /\ rec' = [rec EXCEPT ![j] = [api.snap EXCEPT !.status = "CANCELLED"]]
  /\ settled' = IF InTime(j) THEN settled \cup {j} ELSE settled
  /\ api' = IF api.op = "delete" THEN [api EXCEPT !.pc = "hdel"] ELSE Idle
  /\ UNCHANGED <<at, on, step, tmp, requests>>

DeleteRecord(j) ==
  /\ api.job = {j}
  /\ api.pc = "hdel"
  /\ rec' = [rec EXCEPT ![j] = NoRecord]
  /\ api' = Idle
  /\ UNCHANGED <<at, on, step, tmp, requests, settled>>

ServeRequest(j) == VisitQueue(j) \/ CancelRead(j) \/ CancelWrite(j) \/ DeleteRecord(j)

-----------------------------------------------------------------------------
Work(j) == Preprocess(j) \/ MoveFromWaitlist(j) \/ Execute(j) \/ Postprocess(j)

Next ==
  \E j \in Jobs :
    \/ SubmitJobFile(j)
    \/ Work(j)
    \/ \E op \in {"cancel", "delete"} : Request(j, op)
    \/ ServeRequest(j)

Spec == Init /\ [][Next]_vars

\* Every worker keeps working (RQ restarts after failures and every job has a
\* timeout), and the API completes the requests it accepted.  Moving a job off
\* the waitlist is left out: it depends on bookings.  StartFairness is strong
\* because workers are shared by the jobs.
Fairness ==
  \A j \in Jobs :
    /\ WF_vars(Preprocess(j)) /\ SF_vars(PreStart(j))
    /\ WF_vars(MoveToExec(j))
    /\ WF_vars(Execute(j)) /\ SF_vars(ExecStart(j)) /\ SF_vars(AcquireLock(j))
    /\ WF_vars(Postprocess(j)) /\ SF_vars(PostStart(j))
    /\ WF_vars(ServeRequest(j))

FairSpec == Spec /\ Fairness

-----------------------------------------------------------------------------
(* Properties.                                                             *)

\* A cancel that is written before the check of execute, and not in the middle
\* of a worker's update, is effective whatever the workers do afterwards: the
\* job is neither post-processed nor ever reported successful.
CancelInTimeIsEffective ==
  \A j \in settled :
    /\ rec[j].status # "SUCCESSFUL"
    /\ at[j] \notin {"post_q"} \cup PostSteps

\* Once a record is deleted while no worker is in the middle of an update of it,
\* no worker brings it back.
DeletedStaysDeleted ==
  [][\A j \in Jobs : (at[j] # "new" /\ ~ Exists(j) /\ step[j] # "w") =>
       rec'[j] = NoRecord]_vars

\* Every job comes to a terminal status, unless it stays on the waitlist, its
\* record is deleted, or postprocess dies outside of its try block.
AbandonedByPostprocess(j) ==
  at[j] = "ended" /\ rec[j].stage \in {"PST_PROC_Q", "PST_PROC_W"}

EveryJobSettles ==
  \A j \in Jobs :
    at[j] = "pre_q" ~> \/ at[j] = "waitlist"
                       \/ ~ Exists(j)
                       \/ IsTerminal(rec[j].status)
                       \/ AbandonedByPostprocess(j)

-----------------------------------------------------------------------------
=============================================================================
