-------------------------- MODULE JobLifecycleProofs --------------------------
(***************************************************************************)
(* Proofs about JobLifecycle for any set of jobs and number of requests: a *)
(* cancel in time is effective, and a deleted record stays deleted.        *)
(***************************************************************************)
EXTENDS JobLifecycle, TLAPS

-----------------------------------------------------------------------------
(* The inductive invariant.                                                *)

AnyRecord == Record \cup {NoRecord}

Reads == [status : Statuses, snap : AnyRecord]

ApiStates == [op : {"none", "cancel", "delete"},
              pc : {"", "waitlist", "pre_q", "exec_q", "post_q", "r2", "w", "hdel"},
              job : SUBSET Jobs, timed : BOOLEAN, snap : AnyRecord]

\* The types of what the proofs are about.
Shape == /\ rec \in [Jobs -> AnyRecord]
         /\ at \in [Jobs -> Places]
         /\ step \in [Jobs -> {"r1", "r2", "w"}]
         /\ tmp \in [Jobs -> Reads]
         /\ api \in ApiStates
         /\ settled \in SUBSET Jobs

\* Where a worker updates the stage of a job, and where it updates other fields.
StagePlaces == {"pre_w", "to_exec", "moving", "exec_w", "to_post", "post_w",
                "final_q", "final_w"}
FieldPlaces == {"duration", "too_long", "pre_fail", "exec_fail", "results", "post_fail"}
UpdatePlaces == StagePlaces \cup FieldPlaces

\* A worker in the middle of an update is where updates are made, and what it is
\* about to write back is a record that it has read.
UpdatesBegun ==
  \A j \in Jobs : /\ step[j] # "r1" => at[j] \in UpdatePlaces
                  /\ step[j] = "w" => tmp[j].snap \in Record

\* A job has no record before its submission.
Fresh == \A j \in Jobs : at[j] = "new" => rec[j] = NoRecord

\* Only the request that the API serves deletes records: the one that it is about
\* to write is still there.
RequestHolds ==
  \A j \in Jobs : api.job = {j} => /\ at[j] # "new"
                                   /\ api.pc \in {"w", "hdel"} => rec[j] # NoRecord
                                   /\ api.pc = "w" => api.snap \in Record

\* The places that a job cancelled in time never reaches.
Past == {"new", "to_post", "post_q"} \cup PostSteps

\* Until its worker is done with it, a cancelled job with the record r, in the
\* place p, at the step s of an update that has read t, is CANCELLED in the
\* record and in all that a worker has read of its status.
Effective(r, p, s, t) ==
  /\ p \notin Past
  /\ r.status # "SUCCESSFUL"
  /\ p # "ended" =>
       /\ r = NoRecord \/ r.status = "CANCELLED"
       /\ s # "r1" /\ p \in StagePlaces => t.status = "CANCELLED"
       /\ s = "w" /\ p = "duration" => t.snap.status = "CANCELLED"

Settled == \A j \in settled : Effective(rec[j], at[j], step[j], tmp[j])

LifeInv == Shape /\ UpdatesBegun /\ Fresh /\ RequestHolds /\ Settled

-----------------------------------------------------------------------------
(* Records.                                                                *)

\* A record and the absence of one are different, and both have a status.
LEMMA RecordFacts ==
  /\ NoRecord \notin Record
  /\ NoRecord.status = "PENDING"
  /\ \A r \in Record : r.status \in Statuses /\ r.stage \in Stages
BY DEF Record, NoRecord, Stages

\* What the updates of a worker make of the record that they have read.
LEMMA MergeFacts ==
  ASSUME NEW r \in Record
  PROVE  /\ Merge(r, Failed) \in Record /\ Merge(r, Failed).status = "FAILED"
         /\ Merge(r, [timed |-> TRUE]) \in Record
         /\ Merge(r, [timed |-> TRUE]).status = r.status
         /\ Merge(r, [status |-> "SUCCESSFUL", result |-> TRUE]) \in Record
<1>1. r = [status |-> r.status, stage |-> r.stage, timed |-> r.timed, result |-> r.result]
      /\ r.status \in Statuses /\ r.stage \in Stages
      /\ r.timed \in BOOLEAN /\ r.result \in BOOLEAN
  BY DEF Record
<1>d. DOMAIN r = {"status", "stage", "timed", "result"}
  BY <1>1
<1>2. Merge(r, Failed) = [status |-> "FAILED", stage |-> r.stage, timed |-> r.timed,
                          result |-> r.result]
  BY <1>d DEF Merge, Failed
<1>3. Merge(r, [timed |-> TRUE]) = [status |-> r.status, stage |-> r.stage, timed |-> TRUE,
                                    result |-> r.result]
  <2> DEFINE u == [timed |-> TRUE]
  <2>1. DOMAIN u = {"timed"} /\ u["timed"] = TRUE
    OBVIOUS
  <2> HIDE DEF u
  <2>2. Merge(r, u) = [f \in {"status", "stage", "timed", "result"} |->
                         IF f \in {"timed"} THEN u[f] ELSE r[f]]
    BY <1>d, <2>1 DEF Merge
  <2>3. Merge(r, u) = [status |-> r.status, stage |-> r.stage, timed |-> u["timed"],
                       result |-> r.result]
    BY <2>2
  <2> QED
    BY <2>1, <2>3 DEF u
<1>4. Merge(r, [status |-> "SUCCESSFUL", result |-> TRUE])
        = [status |-> "SUCCESSFUL", stage |-> r.stage, timed |-> r.timed, result |-> TRUE]
  <2> DEFINE u == [status |-> "SUCCESSFUL", result |-> TRUE]
  <2>1. DOMAIN u = {"status", "result"} /\ u["status"] = "SUCCESSFUL" /\ u["result"] = TRUE
    OBVIOUS
  <2> HIDE DEF u
  <2>2. Merge(r, u) = [f \in {"status", "stage", "timed", "result"} |->
                         IF f \in {"status", "result"} THEN u[f] ELSE r[f]]
    BY <1>d, <2>1 DEF Merge
  <2>3. Merge(r, u) = [status |-> u["status"], stage |-> r.stage, timed |-> r.timed,
                       result |-> u["result"]]
    BY <2>2
  <2> QED
    BY <2>1, <2>3 DEF u
<1>5. {"FAILED", "SUCCESSFUL"} \subseteq Statuses
  BY DEF Statuses
<1>6. \A s \in Statuses, g \in Stages, m, n \in BOOLEAN :
        LET v == [status |-> s, stage |-> g, timed |-> m, result |-> n]
        IN v \in Record /\ v.status = s
  BY DEF Record
<1>7. Merge(r, Failed) \in Record /\ Merge(r, Failed).status = "FAILED"
  BY <1>1, <1>2, <1>5, <1>6
<1>8. Merge(r, [timed |-> TRUE]) \in Record /\ Merge(r, [timed |-> TRUE]).status = r.status
  <2>1. PICK n \in BOOLEAN : n = TRUE
    OBVIOUS
  <2>2. Merge(r, [timed |-> TRUE]) = [status |-> r.status, stage |-> r.stage, timed |-> n,
                                      result |-> r.result]
    BY <1>3, <2>1, Zenon
  <2> QED
    BY <1>1, <1>6, <2>2
<1>9. Merge(r, [status |-> "SUCCESSFUL", result |-> TRUE]) \in Record
  <2>1. PICK n \in BOOLEAN : n = TRUE
    OBVIOUS
  <2>2. Merge(r, [status |-> "SUCCESSFUL", result |-> TRUE])
          = [status |-> "SUCCESSFUL", stage |-> r.stage, timed |-> r.timed, result |-> n]
    BY <1>4, <2>1, Zenon
  <2> QED
    BY <1>1, <1>5, <1>6, <2>2
<1> QED
  BY <1>7, <1>8, <1>9

-----------------------------------------------------------------------------
(* What a worker does to the record, in general.                           *)

\* A step of the worker of job j, to the record r, the place p, the step s of an
\* update, and what that has read, t. It deletes nothing, and brings a record
\* back only at the end of an update that had begun before.
Allowed(j, r, p, s, t) ==
  /\ r \in AnyRecord /\ p \in Places \ {"new"} /\ s \in {"r1", "r2", "w"} /\ t \in Reads
  /\ rec' = [rec EXCEPT ![j] = r] /\ at' = [at EXCEPT ![j] = p]
  /\ step' = [step EXCEPT ![j] = s] /\ tmp' = [tmp EXCEPT ![j] = t]
  /\ UNCHANGED <<api, settled>>
  /\ r = NoRecord => rec[j] = NoRecord
  /\ rec[j] = NoRecord /\ r # NoRecord => step[j] = "w" \/ at[j] = "new"
  /\ s # "r1" => p \in UpdatePlaces
  /\ s = "w" => t.snap \in Record
  /\ j \in settled => Effective(r, p, s, t)

WorkerStep(j) ==
  \E r \in AnyRecord, p \in Places, s \in {"r1", "r2", "w"}, t \in Reads : Allowed(j, r, p, s, t)

\* Such a step keeps the invariant.
LEMMA WorkerKeeps ==
  ASSUME LifeInv, NEW j \in Jobs, WorkerStep(j)
  PROVE  LifeInv'
<1> USE DEF LifeInv
<1>1. PICK r \in AnyRecord, p \in Places, s \in {"r1", "r2", "w"}, t \in Reads :
        Allowed(j, r, p, s, t)
  BY DEF WorkerStep
<1>2. /\ p # "new" /\ rec' = [rec EXCEPT ![j] = r] /\ at' = [at EXCEPT ![j] = p]
      /\ step' = [step EXCEPT ![j] = s] /\ tmp' = [tmp EXCEPT ![j] = t]
      /\ api' = api /\ settled' = settled
      /\ r = NoRecord => rec[j] = NoRecord
      /\ s # "r1" => p \in UpdatePlaces
      /\ s = "w" => t.snap \in Record
      /\ j \in settled => Effective(r, p, s, t)
  BY <1>1 DEF Allowed
<1>3. Shape'
  BY <1>2 DEF Shape
<1>4. \A k \in Jobs :
        /\ rec'[k] = IF k = j THEN r ELSE rec[k]
        /\ at'[k] = IF k = j THEN p ELSE at[k]
        /\ step'[k] = IF k = j THEN s ELSE step[k]
        /\ tmp'[k] = IF k = j THEN t ELSE tmp[k]
  BY <1>2 DEF Shape
<1>5. UpdatesBegun'
  BY <1>2, <1>4 DEF UpdatesBegun
<1>6. Fresh'
  BY <1>2, <1>4 DEF Fresh
<1>7. RequestHolds'
  BY <1>2, <1>4 DEF RequestHolds
<1>8. Settled'
  <2> SUFFICES ASSUME NEW k \in settled' PROVE Effective(rec'[k], at'[k], step'[k], tmp'[k])
    BY DEF Settled, Effective
  <2>1. k \in settled /\ k \in Jobs
    BY <1>2 DEF Shape
  <2>2. CASE k = j
    BY <1>2, <1>4, <2>1, <2>2
  <2>3. CASE k # j
    BY <1>4, <2>1, <2>3 DEF Settled
  <2> QED
    BY <2>2, <2>3
<1> QED
  BY <1>3, <1>5, <1>6, <1>7, <1>8

\* What DeletedStaysDeleted says of one step.
KeepsDeleted ==
  \A j \in Jobs : (at[j] # "new" /\ ~ Exists(j) /\ step[j] # "w") => rec'[j] = NoRecord

\* A worker brings back no record, unless it was in the middle of an update.
LEMMA WorkerKeepsDeleted ==
  ASSUME LifeInv, NEW j \in Jobs, WorkerStep(j)
  PROVE  KeepsDeleted
<1>1. PICK r \in AnyRecord, p \in Places, s \in {"r1", "r2", "w"}, t \in Reads :
        Allowed(j, r, p, s, t)
  BY DEF WorkerStep
<1>2. /\ rec' = [rec EXCEPT ![j] = r] /\ rec \in [Jobs -> AnyRecord]
      /\ rec[j] = NoRecord /\ r # NoRecord => step[j] = "w" \/ at[j] = "new"
  BY <1>1 DEF Allowed, LifeInv, Shape
<1>3. \A k \in Jobs : rec'[k] = IF k = j THEN r ELSE rec[k]
  BY <1>2
<1> QED
  BY <1>2, <1>3 DEF KeepsDeleted, Exists

\* A step that only moves a job, between updates and not to what a job that is
\* cancelled in time never reaches.
LEMMA LocalAllowed ==
  ASSUME LifeInv, NEW j \in Jobs, NEW next \in Places, next # "new",
         step[j] = "r1", at[j] # "ended", at' = [at EXCEPT ![j] = next],
         UNCHANGED <<rec, step, tmp, api, settled>>,
         next \in Past => at[j] \in Past
  PROVE  WorkerStep(j)
<1> USE DEF LifeInv
<1>1. /\ rec[j] \in AnyRecord /\ step[j] \in {"r1", "r2", "w"} /\ tmp[j] \in Reads
      /\ rec' = [rec EXCEPT ![j] = rec[j]]
      /\ step' = [step EXCEPT ![j] = step[j]] /\ tmp' = [tmp EXCEPT ![j] = tmp[j]]
      /\ api' = api /\ settled' = settled
  BY DEF Shape
<1>2. j \in settled => Effective(rec[j], next, step[j], tmp[j])
  BY DEF Settled, Effective
<1>3. Allowed(j, rec[j], next, step[j], tmp[j])
  BY <1>1, <1>2 DEF Allowed
<1> QED
  BY <1>1, <1>3 DEF WorkerStep

\* update_job_stage keeps a cancelled job cancelled: its status is computed from a
\* read that is later than the cancel.
LEMMA StageAllowed ==
  ASSUME LifeInv, NEW j \in Jobs, NEW here \in StagePlaces, NEW stage \in Stages,
         NEW next \in Places \ {"new"}, NEW missing \in Places \ {"new"},
         UpdateJobStage(j, here, stage, next, missing),
         next \in Past \/ missing \in Past => here \in Past
  PROVE  WorkerStep(j)
<1> USE DEF LifeInv
<1>0. /\ rec[j] \in AnyRecord /\ at[j] \in Places /\ tmp[j] \in Reads
      /\ at[j] = here /\ here # "ended" /\ here # "new" /\ here \in UpdatePlaces
      /\ rec = [rec EXCEPT ![j] = rec[j]] /\ at = [at EXCEPT ![j] = here]
      /\ step = [step EXCEPT ![j] = step[j]] /\ tmp = [tmp EXCEPT ![j] = tmp[j]]
      /\ api' = api /\ settled' = settled
  BY DEF Shape, UpdateJobStage, UpdateR2, UpdateW, Go, StagePlaces, UpdatePlaces
<1>1. CASE step[j] = "r1" /\ Exists(j)
  <2> DEFINE status == NextStatus(rec[j].status, stage)
             t == [tmp[j] EXCEPT !.status = status]
  <2>1. /\ tmp' = [tmp EXCEPT ![j] = t] /\ step' = [step EXCEPT ![j] = "r2"]
        /\ at' = at /\ rec' = rec
    BY <1>0, <1>1 DEF UpdateJobStage, UpdateR2, UpdateW, Shape
  <2>2. status \in Statuses
    BY <1>0, RecordFacts DEF NextStatus, StageStatus, Statuses, AnyRecord
  <2>3. rec[j].status = "CANCELLED" => status = "CANCELLED"
    BY DEF NextStatus, IsTerminal
  <2> HIDE DEF status
  <2>4. t \in Reads /\ t.status = status
    BY <1>0, <2>2 DEF Reads
  <2> HIDE DEF t
  <2>5. j \in settled => Effective(rec[j], here, "r2", t)
    BY <1>0, <1>1, <2>3, <2>4 DEF Settled, Effective, Exists
  <2>6. Allowed(j, rec[j], here, "r2", t)
    BY <1>0, <2>1, <2>4, <2>5 DEF Allowed
  <2> QED
    BY <1>0, <2>4, <2>6 DEF WorkerStep
<1>2. CASE step[j] = "r1" /\ ~ Exists(j)
  <2>1. at' = [at EXCEPT ![j] = missing] /\ UNCHANGED <<rec, step, tmp, api, settled>>
    BY <1>0, <1>2 DEF UpdateJobStage, UpdateR2, UpdateW, Go
  <2> QED
    BY <1>0, <1>2, <2>1, LocalAllowed
<1>3. CASE step[j] = "r2" /\ Exists(j)
  <2> DEFINE t == [tmp[j] EXCEPT !.snap = rec[j]]
  <2>1. /\ tmp' = [tmp EXCEPT ![j] = t] /\ step' = [step EXCEPT ![j] = "w"]
        /\ at' = at /\ rec' = rec
    BY <1>0, <1>3 DEF UpdateJobStage, UpdateR2, UpdateW, Shape
  <2>2. rec[j] \in Record
    BY <1>0, <1>3 DEF AnyRecord, Exists
  <2>3. t \in Reads /\ t.status = tmp[j].status /\ t.snap = rec[j]
    BY <1>0 DEF Reads
  <2> HIDE DEF t
  <2>4. j \in settled => Effective(rec[j], here, "w", t)
    BY <1>0, <1>3, <2>3 DEF Settled, Effective, StagePlaces
  <2>5. Allowed(j, rec[j], here, "w", t)
    BY <1>0, <2>1, <2>2, <2>3, <2>4 DEF Allowed
  <2> QED
    BY <1>0, <2>3, <2>5 DEF WorkerStep
<1>4. CASE step[j] = "r2" /\ ~ Exists(j)
  <2>1. /\ at' = [at EXCEPT ![j] = missing] /\ step' = [step EXCEPT ![j] = "r1"]
        /\ rec' = rec /\ tmp' = tmp
    BY <1>0, <1>4 DEF UpdateJobStage, UpdateR2, UpdateW, Go
  <2>2. j \in settled => Effective(rec[j], missing, "r1", tmp[j])
    BY <1>0, <1>4 DEF Settled, Effective
  <2>3. Allowed(j, rec[j], missing, "r1", tmp[j])
    BY <1>0, <2>1, <2>2 DEF Allowed
  <2> QED
    BY <1>0, <2>3 DEF WorkerStep
<1>5. CASE step[j] = "w"
  <2> DEFINE r == [tmp[j].snap EXCEPT !.status = tmp[j].status, !.stage = stage]
  <2>1. /\ rec' = [rec EXCEPT ![j] = r] /\ step' = [step EXCEPT ![j] = "r1"]
        /\ at' = [at EXCEPT ![j] = next] /\ tmp' = tmp
    BY <1>0, <1>5 DEF UpdateJobStage, UpdateR2, UpdateW, Go
  <2>2. tmp[j].snap \in Record /\ tmp[j].status \in Statuses
    BY <1>0, <1>5 DEF UpdatesBegun, Reads
  <2>3. r \in Record /\ r.status = tmp[j].status
    BY <2>2 DEF Record
  <2> HIDE DEF r
  <2>4. j \in settled => Effective(r, next, "r1", tmp[j])
    BY <1>0, <1>5, <2>3 DEF Settled, Effective
  <2>5. Allowed(j, r, next, "r1", tmp[j])
    BY <1>0, <1>5, <2>1, <2>3, <2>4, RecordFacts DEF Allowed, AnyRecord
  <2> QED
    BY <1>0, <2>3, <2>5 DEF WorkerStep, AnyRecord
<1> QED
  BY <1>1, <1>2, <1>3, <1>4, <1>5 DEF Shape

\* An update of other fields fails the job, and its worker is done with it, or
\* (the duration) leaves the status as it was read after the cancel.
LEMMA FieldAllowed ==
  ASSUME LifeInv, NEW j \in Jobs, NEW here \in FieldPlaces, NEW updates,
         NEW next \in Places \ {"new"}, NEW missing \in Places \ {"new"},
         Update(j, here, updates, next, missing),
         \A x \in Record : Merge(x, updates) \in Record,
         missing \in Past => here \in Past,
         here \notin Past =>
           \/ next = "ended" /\ \A x \in Record : Merge(x, updates).status = "FAILED"
           \/ /\ here = "duration" /\ next \notin Past
              /\ \A x \in Record : Merge(x, updates).status = x.status
  PROVE  WorkerStep(j)
<1> USE DEF LifeInv
<1>0. /\ rec[j] \in AnyRecord /\ at[j] \in Places /\ tmp[j] \in Reads
      /\ at[j] = here /\ here # "ended" /\ here # "new" /\ here \in UpdatePlaces
      /\ here \notin StagePlaces
      /\ rec = [rec EXCEPT ![j] = rec[j]] /\ at = [at EXCEPT ![j] = here]
      /\ step = [step EXCEPT ![j] = step[j]] /\ tmp = [tmp EXCEPT ![j] = tmp[j]]
      /\ api' = api /\ settled' = settled
  BY DEF Shape, Update, FieldPlaces, StagePlaces, UpdatePlaces
<1>1. CASE step[j] = "r1" /\ Exists(j)
  <2> DEFINE t == [tmp[j] EXCEPT !.snap = rec[j]]
  <2>1. /\ tmp' = [tmp EXCEPT ![j] = t] /\ step' = [step EXCEPT ![j] = "w"]
        /\ at' = at /\ rec' = rec
    BY <1>0, <1>1 DEF Update, Shape
  <2>2. rec[j] \in Record
    BY <1>0, <1>1 DEF AnyRecord, Exists
  <2>3. t \in Reads /\ t.status = tmp[j].status /\ t.snap = rec[j]
    BY <1>0 DEF Reads
  <2> HIDE DEF t
  <2>4. j \in settled => Effective(rec[j], here, "w", t)
    BY <1>0, <1>1, <2>3 DEF Settled, Effective, Exists
  <2>5. Allowed(j, rec[j], here, "w", t)
    BY <1>0, <2>1, <2>2, <2>3, <2>4 DEF Allowed
  <2> QED
    BY <1>0, <2>3, <2>5 DEF WorkerStep
<1>2. CASE step[j] = "r1" /\ ~ Exists(j)
  <2>1. at' = [at EXCEPT ![j] = missing] /\ UNCHANGED <<rec, step, tmp, api, settled>>
    BY <1>0, <1>2 DEF Update, Go
  <2> QED
    BY <1>0, <1>2, <2>1, LocalAllowed
<1>3. CASE step[j] = "w"
  <2> DEFINE r == Merge(tmp[j].snap, updates)
  <2>1. /\ rec' = [rec EXCEPT ![j] = r] /\ step' = [step EXCEPT ![j] = "r1"]
        /\ at' = [at EXCEPT ![j] = next] /\ tmp' = tmp
    BY <1>0, <1>3 DEF Update, Go
  <2>2. tmp[j].snap \in Record
    BY <1>3 DEF UpdatesBegun
  <2>3. r \in Record
    BY <2>2
  <2>4. here \notin Past =>
          \/ next = "ended" /\ r.status = "FAILED"
          \/ here = "duration" /\ next \notin Past /\ r.status = tmp[j].snap.status
    BY <2>2
  <2> HIDE DEF r
  <2>5. j \in settled => Effective(r, next, "r1", tmp[j])
    BY <1>0, <1>3, <2>4 DEF Settled, Effective, Past, PostSteps
  <2>6. Allowed(j, r, next, "r1", tmp[j])
    BY <1>0, <1>3, <2>1, <2>3, <2>5, RecordFacts DEF Allowed, AnyRecord
  <2> QED
    BY <1>0, <2>3, <2>6 DEF WorkerStep, AnyRecord
<1> QED
  BY <1>0, <1>1, <1>2, <1>3 DEF Update

-----------------------------------------------------------------------------
(* The steps of the workers.                                               *)

\* The names of all places, which the next lemmas look up.
LEMMA PlaceFacts ==
  /\ UpdatePlaces \subseteq Places /\ "ended" \in Places
  /\ {"check", "to_post", "post_q"} \subseteq Places
  /\ {"to_post", "post_q"} \cup PostSteps \subseteq Past
  /\ "ended" \notin UpdatePlaces /\ "new" \notin UpdatePlaces
BY DEF UpdatePlaces, StagePlaces, FieldPlaces, Places, PreSteps, ExecSteps, PostSteps, Past

\* Steps that do not touch the record.
LEMMA LocalSteps ==
  ASSUME LifeInv, NEW j \in Jobs, NEW here, NEW next \in Places \ {"new"},
         Local(j, here, next), here \notin UpdatePlaces \cup {"ended"},
         next \in Past => here \in Past
  PROVE  WorkerStep(j)
<1>1. /\ at[j] = here /\ at' = [at EXCEPT ![j] = next]
      /\ UNCHANGED <<rec, step, tmp, api, settled>>
  BY DEF Local, Go
<1>2. step[j] = "r1" /\ at[j] # "ended"
  BY <1>1 DEF LifeInv, UpdatesBegun, Shape
<1> QED
  BY <1>1, <1>2, LocalAllowed

\* preprocess
LEMMA PreprocessAllowed ==
  ASSUME LifeInv, NEW j \in Jobs, Preprocess(j)
  PROVE  WorkerStep(j)
<1> USE DEF Places, PreSteps, ExecSteps, PostSteps, Past, UpdatePlaces, StagePlaces,
            FieldPlaces, Stages
<1>1. CASE PreStart(j)
  BY <1>1, LocalSteps DEF PreStart
<1>2. CASE PreStage(j)
  BY <1>2, StageAllowed DEF PreStage
<1>3. CASE Compile(j)
  BY <1>3, LocalSteps DEF Compile
<1>4. CASE StoreDuration(j)
  BY <1>4, FieldAllowed, MergeFacts DEF StoreDuration
<1>5. CASE Route(j)
  <2>1. CASE Local(j, "route", "to_waitlist") \/ Local(j, "route", "too_long")
    BY <2>1, LocalSteps
  <2>2. CASE Go(j, "route", "to_exec") /\ UNCHANGED <<rec, step, tmp, api, requests, settled>>
    <3>1. /\ at[j] = "route" /\ at' = [at EXCEPT ![j] = "to_exec"]
          /\ UNCHANGED <<rec, step, tmp, api, settled>>
      BY <2>2 DEF Go
    <3>2. step[j] = "r1" /\ at[j] # "ended"
      BY <3>1 DEF LifeInv, UpdatesBegun, Shape
    <3> QED
      BY <3>1, <3>2, LocalAllowed
  <2> QED
    BY <1>5, <2>1, <2>2 DEF Route
<1>6. CASE TooLong(j)
  BY <1>6, FieldAllowed, MergeFacts DEF TooLong
<1>7. CASE PushToWaitlist(j)
  BY <1>7, LocalSteps DEF PushToWaitlist
<1>8. CASE ToExec(j)
  BY <1>8, StageAllowed DEF ToExec
<1>9. CASE PreFail(j)
  BY <1>9, FieldAllowed, MergeFacts DEF PreFail
<1> QED
  BY <1>1, <1>2, <1>3, <1>4, <1>5, <1>6, <1>7, <1>8, <1>9 DEF Preprocess

\* _pop_waitlist_to_booking and _pop_waitlist_to_normal_queue
LEMMA MoveAllowed ==
  ASSUME LifeInv, NEW j \in Jobs, MoveFromWaitlist(j)
  PROVE  WorkerStep(j)
<1> USE DEF Places, PreSteps, ExecSteps, PostSteps, Past, UpdatePlaces, StagePlaces,
            FieldPlaces, Stages
<1>1. CASE PopWaitlist(j)
  <2>1. /\ at[j] = "waitlist" /\ at' = [at EXCEPT ![j] = "moving"]
        /\ UNCHANGED <<rec, step, tmp, api, settled>>
    BY <1>1 DEF PopWaitlist, Go
  <2>2. step[j] = "r1" /\ at[j] # "ended"
    BY <2>1 DEF LifeInv, UpdatesBegun, Shape
  <2> QED
    BY <2>1, <2>2, LocalAllowed
<1>2. CASE MoveToExec(j)
  BY <1>2, StageAllowed DEF MoveToExec
<1> QED
  BY <1>1, <1>2 DEF MoveFromWaitlist

\* execute, whose check stops what was cancelled in time.
LEMMA ExecuteAllowed ==
  ASSUME LifeInv, NEW j \in Jobs, Execute(j)
  PROVE  WorkerStep(j)
<1> USE DEF Places, PreSteps, ExecSteps, PostSteps, Past, UpdatePlaces, StagePlaces,
            FieldPlaces, Stages
<1>1. CASE ExecStart(j)
  BY <1>1, LocalSteps DEF ExecStart
<1>2. CASE ExecStage(j)
  BY <1>2, StageAllowed DEF ExecStage
<1>3. CASE AcquireLock(j) \/ LockTimeout(j)
  BY <1>3, LocalSteps DEF AcquireLock, LockTimeout
<1>4. CASE Run(j)
  BY <1>4, LocalSteps DEF Run
<1>5. CASE CheckCancelled(j)
  <2>1. CASE Local(j, "check", "ended") \/ Local(j, "check", "exec_fail")
    BY <2>1, LocalSteps
  <2>2. CASE Exists(j) /\ rec[j].status # "CANCELLED" /\ Local(j, "check", "to_post")
    <3>1. /\ at[j] = "check" /\ at' = [at EXCEPT ![j] = "to_post"]
          /\ UNCHANGED <<rec, step, tmp, api, settled>>
      BY <2>2 DEF Local, Go
    <3>2. /\ rec[j] \in AnyRecord /\ step[j] = "r1" /\ tmp[j] \in Reads
          /\ rec' = [rec EXCEPT ![j] = rec[j]]
          /\ step' = [step EXCEPT ![j] = step[j]] /\ tmp' = [tmp EXCEPT ![j] = tmp[j]]
      BY <3>1 DEF LifeInv, UpdatesBegun, Shape
    <3>3. j \notin settled
      BY <2>2, <3>1 DEF LifeInv, Settled, Effective, Exists
    <3>4. Allowed(j, rec[j], "to_post", "r1", tmp[j])
      BY <3>1, <3>2, <3>3 DEF Allowed
    <3> QED
      BY <3>2, <3>4 DEF WorkerStep
  <2> QED
    BY <1>5, <2>1, <2>2 DEF CheckCancelled
<1>6. CASE ToPost(j)
  BY <1>6, StageAllowed DEF ToPost
<1>7. CASE ExecFail(j)
  BY <1>7, FieldAllowed, MergeFacts DEF ExecFail
<1> QED
  BY <1>1, <1>2, <1>3, <1>4, <1>5, <1>6, <1>7 DEF Execute

\* postprocess and its callbacks, where no job is that was cancelled in time.
LEMMA PostprocessAllowed ==
  ASSUME LifeInv, NEW j \in Jobs, Postprocess(j)
  PROVE  WorkerStep(j)
<1> USE DEF Places, PreSteps, ExecSteps, PostSteps, Past, UpdatePlaces, StagePlaces,
            FieldPlaces, Stages
<1>1. CASE PostStart(j) \/ MoveFile(j) \/ ReadFile(j) \/ UpdateInMss(j)
  BY <1>1, LocalSteps DEF PostStart, MoveFile, ReadFile, UpdateInMss
<1>2. CASE PostStage(j)
  BY <1>2, StageAllowed DEF PostStage
<1>3. CASE UpdateJobResults(j)
  BY <1>3, FieldAllowed, MergeFacts DEF UpdateJobResults
<1>4. CASE PostFail(j)
  BY <1>4, FieldAllowed, MergeFacts DEF PostFail
<1>5. CASE FinalQ(j)
  BY <1>5, StageAllowed DEF FinalQ
<1>6. CASE FinalW(j)
  BY <1>6, StageAllowed DEF FinalW
<1> QED
  BY <1>1, <1>2, <1>3, <1>4, <1>5, <1>6 DEF Postprocess

\* POST /jobs
LEMMA SubmitAllowed ==
  ASSUME LifeInv, NEW j \in Jobs, SubmitJobFile(j)
  PROVE  WorkerStep(j)
<1> DEFINE r == [status |-> "PENDING", stage |-> "PRE_PROC_Q", timed |-> FALSE, result |-> FALSE]
<1>1. r \in Record
  BY DEF Record, Statuses, Stages
<1> HIDE DEF r
<1>2. /\ rec' = [rec EXCEPT ![j] = r] /\ at[j] = "new" /\ at' = [at EXCEPT ![j] = "pre_q"]
      /\ UNCHANGED <<step, tmp, api, settled>>
  BY DEF SubmitJobFile, Go, r
<1>3. /\ step[j] \in {"r1", "r2", "w"} /\ tmp[j] \in Reads
      /\ step' = [step EXCEPT ![j] = step[j]] /\ tmp' = [tmp EXCEPT ![j] = tmp[j]]
  BY <1>2 DEF LifeInv, Shape
<1>4. step[j] = "r1" /\ j \notin settled
  BY <1>2, <1>3, PlaceFacts DEF LifeInv, UpdatesBegun, Settled, Effective, Past
<1>5. "pre_q" \in Places \ {"new"}
  BY DEF Places
<1>6. Allowed(j, r, "pre_q", step[j], tmp[j])
  BY <1>1, <1>2, <1>3, <1>4, <1>5, RecordFacts DEF Allowed, AnyRecord
<1> QED
  BY <1>1, <1>3, <1>5, <1>6 DEF WorkerStep, AnyRecord

-----------------------------------------------------------------------------
(* The requests of the API.                                                *)

\* The request is read, and the queues are visited: the record is left alone.
LEMMA VisitKeeps ==
  ASSUME LifeInv, NEW j \in Jobs,
         (\E op \in {"cancel", "delete"} : Request(j, op)) \/ VisitQueue(j) \/ CancelRead(j)
  PROVE  LifeInv' /\ KeepsDeleted
<1> USE DEF LifeInv
<1>0. /\ UNCHANGED <<rec, step, tmp, settled>>
      /\ rec[j] \in AnyRecord /\ api \in ApiStates
  BY DEF Request, VisitQueue, CancelRead, Shape
<1>d. KeepsDeleted
  BY <1>0 DEF KeepsDeleted, Exists
<1>1. CASE \E op \in {"cancel", "delete"} : Request(j, op)
  <2>1. PICK op \in {"cancel", "delete"} :
          /\ Exists(j) /\ at' = at
          /\ api' = [op |-> op, pc |-> "waitlist", job |-> {j}, timed |-> rec[j].timed,
                     snap |-> NoRecord]
    BY <1>1 DEF Request
  <2>2. rec[j] \in Record
    BY <1>0, <2>1 DEF Exists, AnyRecord
  <2>3. api' \in ApiStates
    BY <2>1, <2>2 DEF ApiStates, AnyRecord, Record
  <2>4. at[j] # "new"
    BY <2>1 DEF Fresh, Exists
  <2>5. Shape'
    BY <1>0, <2>1, <2>3 DEF Shape
  <2>6. RequestHolds'
    BY <2>1, <2>4 DEF RequestHolds
  <2>7. UpdatesBegun' /\ Fresh' /\ Settled'
    BY <1>0, <2>1 DEF UpdatesBegun, Fresh, Settled
  <2> QED
    BY <1>d, <2>5, <2>6, <2>7
<1>2. CASE VisitQueue(j)
  <2>1. /\ api.job = {j} /\ api.pc \in {"waitlist", "pre_q", "exec_q", "post_q"}
        /\ api' = [api EXCEPT !.pc = NextQueue(@)]
        /\ \/ at' = at
           \/ at[j] = api.pc /\ at' = [at EXCEPT ![j] = "withdrawn"]
    BY <1>2 DEF VisitQueue
  <2>2. /\ api' \in ApiStates /\ api'.job = api.job
        /\ api'.pc \in {"pre_q", "exec_q", "post_q", "r2"}
    BY <1>0, <2>1 DEF ApiStates, NextQueue
  <2>3. CASE at' = at
    <3>1. Shape'
      BY <1>0, <2>2, <2>3 DEF Shape
    <3>2. RequestHolds'
      BY <1>0, <2>2, <2>3 DEF RequestHolds
    <3>3. UpdatesBegun' /\ Fresh' /\ Settled'
      BY <1>0, <2>3 DEF UpdatesBegun, Fresh, Settled
    <3> QED
      BY <1>d, <3>1, <3>2, <3>3
  <2>4. CASE at[j] = api.pc /\ at' = [at EXCEPT ![j] = "withdrawn"]
    <3>1. \A k \in Jobs : at'[k] = IF k = j THEN "withdrawn" ELSE at[k]
      BY <2>4 DEF Shape
    <3>2. /\ "withdrawn" \in Places /\ "withdrawn" \notin Past /\ "withdrawn" \notin UpdatePlaces
          /\ "withdrawn" # "ended"
      BY DEF Places, Past, PostSteps, UpdatePlaces, StagePlaces, FieldPlaces
    <3>3. at[j] \notin UpdatePlaces /\ at[j] # "ended" /\ at[j] # "new"
      BY <2>1, <2>4 DEF UpdatePlaces, StagePlaces, FieldPlaces
    <3>4. step[j] = "r1"
      BY <3>3 DEF UpdatesBegun, Shape
    <3>5. Shape'
      BY <1>0, <2>2, <2>4, <3>2 DEF Shape
    <3>6. RequestHolds'
      BY <1>0, <2>2, <3>1 DEF RequestHolds
    <3>7. UpdatesBegun' /\ Fresh'
      BY <1>0, <3>1, <3>4 DEF UpdatesBegun, Fresh
    <3>8. Settled'
      <4> SUFFICES ASSUME NEW k \in settled
                   PROVE  Effective(rec[k], at'[k], step[k], tmp[k])
        BY <1>0 DEF Settled
      <4>1. Effective(rec[k], at[k], step[k], tmp[k]) /\ k \in Jobs
        BY DEF Settled, Shape
      <4>2. CASE k # j
        BY <3>1, <4>1, <4>2
      <4>3. CASE k = j
        BY <3>1, <3>2, <3>3, <3>4, <4>1, <4>3 DEF Effective
      <4> QED
        BY <4>2, <4>3
    <3> QED
      BY <1>d, <3>5, <3>6, <3>7, <3>8
  <2> QED
    BY <2>1, <2>3, <2>4
<1>3. CASE CancelRead(j)
  <2>1. /\ api.job = {j} /\ at' = at
        /\ \/ Exists(j) /\ api' = [api EXCEPT !.pc = "w", !.snap = rec[j]]
           \/ api' = Idle
    BY <1>3 DEF CancelRead
  <2>2. UpdatesBegun' /\ Fresh' /\ Settled'
    BY <1>0, <2>1 DEF UpdatesBegun, Fresh, Settled
  <2>3. CASE Exists(j) /\ api' = [api EXCEPT !.pc = "w", !.snap = rec[j]]
    <3>1. rec[j] \in Record /\ rec[j] # NoRecord
      BY <1>0, <2>3 DEF Exists, AnyRecord
    <3>2. /\ api' \in ApiStates /\ api'.job = {j} /\ api'.pc = "w" /\ api'.snap = rec[j]
      BY <1>0, <2>1, <2>3 DEF ApiStates
    <3>3. Shape'
      BY <1>0, <2>1, <3>2 DEF Shape
    <3>4. RequestHolds'
      BY <1>0, <2>1, <3>1, <3>2 DEF RequestHolds
    <3> QED
      BY <1>d, <2>2, <3>3, <3>4
  <2>4. CASE api' = Idle
    <3>1. api' \in ApiStates /\ api'.job = {}
      BY <2>4 DEF Idle, ApiStates, AnyRecord
    <3>2. Shape' /\ RequestHolds'
      BY <1>0, <2>1, <3>1 DEF Shape, RequestHolds
    <3> QED
      BY <1>d, <2>2, <3>2
  <2> QED
    BY <2>1, <2>3, <2>4
<1> QED
  BY <1>1, <1>2, <1>3

\* The cancel is written: the job is settled unless a worker was in the middle of
\* an update, or past the check.
LEMMA CancelWriteKeeps ==
  ASSUME LifeInv, NEW j \in Jobs, CancelWrite(j)
  PROVE  LifeInv' /\ KeepsDeleted
<1> USE DEF LifeInv
<1> DEFINE r == [api.snap EXCEPT !.status = "CANCELLED"]
<1>1. /\ api.job = {j} /\ api.pc = "w" /\ rec' = [rec EXCEPT ![j] = r]
      /\ settled' = IF InTime(j) THEN settled \cup {j} ELSE settled
      /\ UNCHANGED <<at, step, tmp>>
      /\ api' = [api EXCEPT !.pc = "hdel"] \/ api' = Idle
  BY DEF CancelWrite
<1>2. at[j] # "new" /\ rec[j] # NoRecord /\ api.snap \in Record
  BY <1>1 DEF RequestHolds
<1>3. r \in Record /\ r.status = "CANCELLED"
  BY <1>2 DEF Record, Statuses
<1> HIDE DEF r
<1>4. \A k \in Jobs : rec'[k] = IF k = j THEN r ELSE rec[k]
  BY <1>1 DEF Shape
<1>5. KeepsDeleted
  BY <1>2, <1>4 DEF KeepsDeleted, Exists
<1>6. api' \in ApiStates /\ (api'.job = {} \/ (api'.job = {j} /\ api'.pc = "hdel"))
  <2>1. CASE api' = Idle
    <3>1. Idle \in ApiStates /\ Idle.job = {}
      BY DEF Idle, ApiStates, AnyRecord
    <3> QED
      BY <2>1, <3>1
  <2>2. CASE api' = [api EXCEPT !.pc = "hdel"]
    <3>1. api \in ApiStates
      BY DEF Shape
    <3> QED
      BY <1>1, <2>2, <3>1 DEF ApiStates
  <2> QED
    BY <1>1, <2>1, <2>2
<1>7. Shape'
  BY <1>1, <1>3, <1>6 DEF Shape, AnyRecord
<1>8. UpdatesBegun'
  BY <1>1 DEF UpdatesBegun
<1>9. Fresh'
  BY <1>1, <1>2, <1>4 DEF Fresh
<1>10. RequestHolds'
  BY <1>1, <1>2, <1>3, <1>4, <1>6, RecordFacts DEF RequestHolds
<1>11. Settled'
  <2> SUFFICES ASSUME NEW k \in settled'
               PROVE  Effective(rec'[k], at[k], step[k], tmp[k])
    BY <1>1 DEF Settled
  <2>0. k \in Jobs
    BY <1>7 DEF Shape
  <2>1. CASE k # j
    BY <1>1, <1>4, <2>0, <2>1 DEF Settled
  <2>2. CASE k = j /\ j \in settled
    BY <1>3, <1>4, <2>2 DEF Settled, Effective
  <2>3. CASE k = j /\ InTime(j)
    BY <1>2, <1>3, <1>4, <2>3 DEF Effective, InTime, Past
  <2> QED
    BY <1>1, <2>1, <2>2, <2>3
<1> QED
  BY <1>5, <1>7, <1>8, <1>9, <1>10, <1>11

\* The record is deleted.
LEMMA DeleteKeeps ==
  ASSUME LifeInv, NEW j \in Jobs, DeleteRecord(j)
  PROVE  LifeInv' /\ KeepsDeleted
<1> USE DEF LifeInv
<1>1. /\ rec' = [rec EXCEPT ![j] = NoRecord] /\ api' = Idle
      /\ UNCHANGED <<at, step, tmp, settled>>
  BY DEF DeleteRecord
<1>2. \A k \in Jobs : rec'[k] = IF k = j THEN NoRecord ELSE rec[k]
  BY <1>1 DEF Shape
<1>3. KeepsDeleted
  BY <1>2 DEF KeepsDeleted, Exists
<1>4. api' \in ApiStates /\ api'.job = {}
  BY <1>1 DEF Idle, ApiStates, AnyRecord
<1>5. Shape' /\ RequestHolds'
  BY <1>1, <1>4 DEF Shape, RequestHolds, AnyRecord
<1>6. UpdatesBegun' /\ Fresh'
  BY <1>1, <1>2 DEF UpdatesBegun, Fresh
<1>7. Settled'
  <2> SUFFICES ASSUME NEW k \in settled
               PROVE  Effective(rec'[k], at[k], step[k], tmp[k])
    BY <1>1 DEF Settled
  <2>1. k \in Jobs /\ Effective(rec[k], at[k], step[k], tmp[k])
    BY DEF Settled, Shape
  <2> QED
    BY <1>2, <2>1, RecordFacts DEF Effective
<1> QED
  BY <1>3, <1>5, <1>6, <1>7

-----------------------------------------------------------------------------
(* The theorems.                                                           *)

\* Initially no job has a record.
LEMMA InitLife == Init => LifeInv
<1> SUFFICES ASSUME Init PROVE LifeInv
  OBVIOUS
<1>1. /\ \A j \in Jobs : rec[j] = NoRecord /\ at[j] = "new" /\ step[j] = "r1"
      /\ api = Idle /\ settled = {}
  BY DEF Init
<1>2. [status |-> "PENDING", snap |-> NoRecord] \in Reads
  BY DEF Reads, Statuses, AnyRecord
<1>3. Idle \in ApiStates /\ Idle.job = {}
  BY DEF Idle, ApiStates, AnyRecord
<1>4. Shape
  BY <1>2, <1>3 DEF Init, Shape, Places, AnyRecord
<1> QED
  BY <1>1, <1>3, <1>4 DEF LifeInv, UpdatesBegun, Fresh, RequestHolds, Settled

\* Every step of a worker or of the API keeps the invariant, and no step brings a
\* deleted record back.
LEMMA NextLife == LifeInv /\ [Next]_vars => LifeInv' /\ KeepsDeleted
<1> SUFFICES ASSUME LifeInv, [Next]_vars PROVE LifeInv' /\ KeepsDeleted
  OBVIOUS
<1>1. ASSUME NEW j \in Jobs, SubmitJobFile(j) PROVE LifeInv' /\ KeepsDeleted
  BY <1>1, SubmitAllowed, WorkerKeeps, WorkerKeepsDeleted
<1>2. ASSUME NEW j \in Jobs, Work(j) PROVE LifeInv' /\ KeepsDeleted
  <2>1. WorkerStep(j)
    BY <1>2, PreprocessAllowed, MoveAllowed, ExecuteAllowed, PostprocessAllowed DEF Work
  <2> QED
    BY <2>1, WorkerKeeps, WorkerKeepsDeleted
<1>3. ASSUME NEW j \in Jobs, NEW op \in {"cancel", "delete"}, Request(j, op)
      PROVE  LifeInv' /\ KeepsDeleted
  BY <1>3, VisitKeeps
<1>4. ASSUME NEW j \in Jobs, ServeRequest(j) PROVE LifeInv' /\ KeepsDeleted
  BY <1>4, VisitKeeps, CancelWriteKeeps, DeleteKeeps DEF ServeRequest
<1>5. CASE UNCHANGED vars
  BY <1>5 DEF vars, LifeInv, Shape, UpdatesBegun, Fresh, RequestHolds, Settled,
              KeepsDeleted, Exists
<1> QED
  BY <1>1, <1>2, <1>3, <1>4, <1>5 DEF Next

\* A job that was cancelled before the check of execute, at a moment where no worker
\* was in the middle of an update of its record, is never post-processed and never
\* SUCCESSFUL, for any number of jobs and requests.
THEOREM CancelCorrect == Spec => []CancelInTimeIsEffective
<1>1. LifeInv => CancelInTimeIsEffective
  BY DEF LifeInv, Settled, Effective, Past, CancelInTimeIsEffective
<1> QED
  BY <1>1, InitLife, NextLife, PTL DEF Spec

\* No worker brings a deleted record back, unless it was in the middle of an update.
THEOREM DeletedCorrect == Spec => DeletedStaysDeleted
<1>1. LifeInv /\ [Next]_vars
        => [\A j \in Jobs : (at[j] # "new" /\ ~ Exists(j) /\ step[j] # "w")
              => rec'[j] = NoRecord]_vars
  BY NextLife DEF KeepsDeleted
<1> QED
  BY <1>1, InitLife, NextLife, PTL DEF Spec, DeletedStaysDeleted

=============================================================================
