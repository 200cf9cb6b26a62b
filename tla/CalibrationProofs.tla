-------------------------- MODULE CalibrationProofs --------------------------
(***************************************************************************)
(* The calibration of the device and its way to MSS.  Recalibration: for   *)
(* any number of RQ jobs and requests, the only ways in which a stop       *)
(* misses a job, and in which chains multiply.  MssPipe: for any pipes,    *)
(* events and failures, what MSS is sent and what the senders are told.    *)
(***************************************************************************)
EXTENDS Recalibration, MssPipe, DataLemmas

-----------------------------------------------------------------------------
(***************************************************************************)
(* Recalibration: the invariant                                            *)
(***************************************************************************)

\* Numbers that were not given out yet are not in use.
Numbered == Live \subseteq 1..made /\ before \subseteq 1..made

\* A stop in progress has found, or is still to find in the registry, all that
\* was pending when it began and still is, except what slipped.
StopFinds ==
  /\ api.pc = "read" => before \cap ToSet(queued) \subseteq api.ids \cup slipped
  /\ api.pc = "cancel" => before \cap Pending \subseteq api.ids \cup slipped
  /\ StoppedUnlessSlipped

\* An init that nothing overlaps with finds, and cancels, all there is.
InitClears ==
  (api.op \in {"init_now", "init_at"} /\ ~ overlap) =>
    /\ api.pc = "read" => running = {} /\ ToSet(queued) \subseteq api.ids
    /\ api.pc = "cancel" => running = {} /\ Pending \subseteq api.ids
    /\ api.pc = "enqueue" => Live = {}

OneLive == raced \/ \A x, y \in Live : x = y

IInv == TypeOK /\ Numbered /\ StopFinds /\ InitClears /\ OneLive

(***************************************************************************)
(* The queue as a set of ids.                                              *)
(***************************************************************************)

\* RPUSH adds one id.
LEMMA AppendFacts ==
  ASSUME NEW S, NEW s \in Seq(S), IsInjective(s), NEW x \in S, x \notin ToSet(s)
  PROVE  /\ Append(s, x) \in Seq(S)
         /\ ToSet(Append(s, x)) = ToSet(s) \cup {x}
         /\ IsInjective(Append(s, x))
<1>1. /\ Append(s, x) \in Seq(S)
      /\ Len(s) \in Nat
      /\ Len(Append(s, x)) = Len(s) + 1
      /\ \A i \in 1..Len(s) : Append(s, x)[i] = s[i]
      /\ Append(s, x)[Len(s) + 1] = x
      /\ DOMAIN s = 1..Len(s)
      /\ DOMAIN Append(s, x) = 1..(Len(s) + 1)
  OBVIOUS
<1> DEFINE t == Append(s, x)
           n == Len(s)
<1> HIDE DEF t, n
<1>2. ToSet(t) = ToSet(s) \cup {x}
  BY <1>1 DEF ToSet, t, n
<1>3. IsInjective(t)
  <2> SUFFICES ASSUME NEW i \in 1..(n + 1), NEW j \in 1..(n + 1), t[i] = t[j]
               PROVE  i = j
    BY <1>1 DEF IsInjective, t, n
  <2>1. \A k \in 1..n : t[k] = s[k] /\ s[k] # x
    BY <1>1 DEF ToSet, t, n
  <2>2. t[n + 1] = x /\ n \in Nat
    BY <1>1 DEF t, n
  <2>3. \A k, l \in 1..n : s[k] = s[l] => k = l
    BY <1>1 DEF IsInjective, n
  <2> QED
    BY <2>1, <2>2, <2>3
<1> QED
  BY <1>1, <1>2, <1>3 DEF t

\* LPOP removes the id it returns.
LEMMA TailFacts ==
  ASSUME NEW S, NEW s \in Seq(S), IsInjective(s), s # <<>>
  PROVE  /\ Tail(s) \in Seq(S)
         /\ Head(s) \in ToSet(s)
         /\ Head(s) \in S
         /\ ToSet(Tail(s)) = ToSet(s) \ {Head(s)}
         /\ IsInjective(Tail(s))
<1>1. /\ Tail(s) \in Seq(S)
      /\ Head(s) = s[1]
      /\ Head(s) \in S
      /\ Len(s) \in Nat \ {0}
      /\ Len(Tail(s)) = Len(s) - 1
      /\ \A i \in 1..(Len(s) - 1) : Tail(s)[i] = s[i + 1]
      /\ DOMAIN s = 1..Len(s)
      /\ DOMAIN Tail(s) = 1..(Len(s) - 1)
  OBVIOUS
<1> DEFINE t == Tail(s)
           n == Len(s)
<1>2. \A i, j \in 1..n : s[i] = s[j] => i = j
  BY <1>1 DEF IsInjective
<1> HIDE DEF t, n
<1>3. n \in Nat \ {0} /\ \A i \in 1..(n - 1) : t[i] = s[i + 1]
  BY <1>1 DEF t, n
<1>4. ASSUME NEW k \in 2..n PROVE s[k] \in {t[i] : i \in 1..(n - 1)}
  <2>1. k - 1 \in 1..(n - 1) /\ (k - 1) + 1 = k
    BY <1>3
  <2>2. t[k - 1] = s[k]
    BY <1>3, <2>1
  <2> QED
    BY <2>1, <2>2
<1>5. ToSet(s) = {s[i] : i \in 1..n} /\ ToSet(t) = {t[i] : i \in 1..(n - 1)}
  BY <1>1 DEF ToSet, t, n
<1>6. {t[i] : i \in 1..(n - 1)} = {s[i] : i \in 1..n} \ {s[1]}
  <2>1. ASSUME NEW i \in 1..(n - 1)
        PROVE  t[i] \in {s[j] : j \in 1..n} \ {s[1]}
    <3>1. i + 1 \in 1..n /\ 1 \in 1..n /\ i + 1 # 1
      BY <1>3
    <3>2. t[i] = s[i + 1] /\ s[i + 1] # s[1]
      BY <1>2, <1>3, <3>1
    <3> QED
      BY <3>1, <3>2
  <2>2. ASSUME NEW k \in 1..n, s[k] # s[1]
        PROVE  s[k] \in {t[i] : i \in 1..(n - 1)}
    <3>1. k \in 2..n
      BY <1>3, <2>2
    <3> QED
      BY <3>1, <1>4
  <2> QED
    BY <2>1, <2>2
<1>7. IsInjective(t)
  BY <1>1, <1>2, <1>3 DEF IsInjective, t, n
<1>8. Head(s) = s[1] /\ Head(s) \in ToSet(s)
  BY <1>1, <1>3, <1>5
<1>9. ToSet(Tail(s)) = ToSet(s) \ {Head(s)}
  BY <1>5, <1>6, <1>8 DEF t
<1> QED
  BY <1>1, <1>7, <1>8, <1>9 DEF t

\* LREM removes the id, if it is there.
LEMMA RemoveFacts ==
  ASSUME NEW S, NEW s \in Seq(S), IsInjective(s), NEW e
  PROVE  /\ RemoveFirst(s, e) \in Seq(S)
         /\ ToSet(RemoveFirst(s, e)) \subseteq ToSet(s) \ {e}
         /\ IsInjective(RemoveFirst(s, e))
<1>1. \A m, n \in 1..Len(s) : s[m] = s[n] => m = n
  BY DEF IsInjective
<1> DEFINE r == RemoveFirst(s, e)
<1>2. /\ r \in Seq(S)
      /\ \A m, n \in 1..Len(r) : r[m] = r[n] => m = n
      /\ \A n \in 1..Len(r) : r[n] # e /\ \E m \in 1..Len(s) : s[m] = r[n]
  BY <1>1, RemoveFirstDistinct
<1> HIDE DEF r
<1> QED
  <2>1. DOMAIN r = 1..Len(r) /\ DOMAIN s = 1..Len(s)
    BY <1>2
  <2> QED
    BY <1>2, <2>1 DEF r, ToSet, IsInjective

(***************************************************************************)
(* The steps.                                                              *)
(***************************************************************************)

\* What the type says of the jobs, in one place.
LEMMA TypeFacts ==
  ASSUME TypeOK
  PROVE  /\ queued \in Seq(RqJobs) /\ IsInjective(queued)
         /\ ToSet(queued) \subseteq RqJobs
         /\ scheduled \subseteq RqJobs /\ running \subseteq RqJobs
         /\ before \subseteq RqJobs /\ slipped \subseteq RqJobs
         /\ ToSet(queued) \cap scheduled = {}
         /\ Pending \cap running = {}
<1>1. queued \in Seq(RqJobs)
  BY DEF TypeOK
<1>2. ToSet(queued) \subseteq RqJobs
  BY <1>1 DEF ToSet
<1> QED
  BY <1>1, <1>2 DEF TypeOK

\* The record of the API process, and the one it has between requests.
LEMMA ApiFacts ==
  /\ \A op \in Ops, pc \in {"down", "idle", "read", "cancel", "enqueue"},
        ids \in SUBSET RqJobs :
       [op |-> op, pc |-> pc, ids |-> ids]
         \in [op : Ops, pc : {"down", "idle", "read", "cancel", "enqueue"},
              ids : SUBSET RqJobs]
  /\ \A pc \in {"down", "idle"} :
       /\ At(pc).op = "none" /\ At(pc).pc = pc /\ At(pc).ids = {}
       /\ At(pc) \in [op : Ops, pc : {"down", "idle", "read", "cancel", "enqueue"},
                      ids : SUBSET RqJobs]
BY DEF At, Ops

\* The sets of at most one id have at most one element.
LEMMA SmallSets == Cardinality({}) <= 1 /\ \A x : Cardinality({x}) <= 1
BY FS_EmptySet, FS_Singleton

\* Nothing is pending, running or being served at first.
LEMMA InitInv == Init => IInv
<1> SUFFICES ASSUME Init PROVE IInv
  OBVIOUS
<1>1. queued = <<>> /\ ToSet(queued) = {} /\ queued \in Seq(RqJobs) /\ IsInjective(queued)
  BY DEF Init, ToSet, IsInjective
<1>2. Pending = {} /\ Live = {}
  BY <1>1 DEF Init, Pending, Live
<1>3. TypeOK
  <2>1. made \in 0..MaxJobs /\ requests \in 0..MaxRequests
    BY BoundsAssumption DEF Init
  <2>2. Cardinality(running) <= 1
    BY SmallSets DEF Init
  <2>3. api \in [op : Ops, pc : {"down", "idle", "read", "cancel", "enqueue"},
                 ids : SUBSET RqJobs]
    BY ApiFacts DEF Init
  <2> QED
    BY <1>1, <1>2, <2>1, <2>2, <2>3 DEF Init, TypeOK
<1> QED
  BY <1>2, <1>3, ApiFacts DEF Init, IInv, Numbered, StopFinds, StoppedUnlessSlipped,
    InitClears, OneLive

\* The first read of a stop.
LEMMA ReadQueueInv ==
  ASSUME IInv, NEW op \in Ops \ {"none"}, ReadQueue(op)
  PROVE  IInv'
<1> USE DEF IInv
<1>1. /\ queued' = queued /\ scheduled' = scheduled /\ running' = running
      /\ made' = made /\ raced' = raced
      /\ before' = Pending /\ slipped' = {} /\ overlap' = (running # {})
      /\ requests' = requests + 1 /\ requests < MaxRequests
  BY DEF ReadQueue
<1>2. Pending' = Pending /\ Live' = Live /\ ToSet(queued)' = ToSet(queued)
  BY <1>1 DEF Pending, Live
<1>3. api' = [op |-> op, pc |-> "read", ids |-> ToSet(queued)]
  BY DEF ReadQueue
<1>4. api'.op = op /\ api'.pc = "read" /\ api'.ids = ToSet(queued)
  BY <1>3
<1>5. TypeOK'
  <2>1. api' \in [op : Ops, pc : {"down", "idle", "read", "cancel", "enqueue"},
                  ids : SUBSET RqJobs]
    BY <1>3, TypeFacts, ApiFacts
  <2>2. before' \in SUBSET RqJobs
    BY <1>1, TypeFacts DEF Pending
  <2>3. requests' \in 0..MaxRequests
    BY <1>1, BoundsAssumption DEF TypeOK
  <2> QED
    BY <1>1, <1>2, <2>1, <2>2, <2>3 DEF TypeOK
<1>6. Numbered'
  BY <1>1, <1>2 DEF Numbered, Live
<1>7. StopFinds'
  BY <1>1, <1>2, <1>4 DEF StopFinds, StoppedUnlessSlipped
<1>8. InitClears'
  BY <1>1, <1>2, <1>4 DEF InitClears
<1>9. OneLive'
  BY <1>1, <1>2 DEF OneLive
<1> QED
  BY <1>5, <1>6, <1>7, <1>8, <1>9

\* The other steps of the API.
LEMMA ApiInv ==
  ASSUME IInv, ApiStep \/ Crash
  PROVE  IInv'
<1> USE DEF IInv
<1>t. api \in [op : Ops, pc : {"down", "idle", "read", "cancel", "enqueue"},
               ids : SUBSET RqJobs]
  BY DEF TypeOK
<1>1. CASE ReadScheduled
  <2>1. /\ UNCHANGED <<queued, scheduled, running, made, requests, before,
                       slipped, overlap, raced>>
        /\ api.pc = "read"
        /\ api' = [api EXCEPT !.pc = "cancel", !.ids = @ \cup scheduled]
    BY <1>1 DEF ReadScheduled
  <2>2. Pending' = Pending /\ Live' = Live /\ ToSet(queued)' = ToSet(queued)
    BY <2>1 DEF Pending, Live
  <2>3. api'.op = api.op /\ api'.pc = "cancel" /\ api'.ids = api.ids \cup scheduled
    BY <1>t, <2>1
  <2>4. TypeOK'
    BY <1>t, <2>1, <2>2, TypeFacts DEF TypeOK
  <2>5. StopFinds'
    BY <2>1, <2>2, <2>3 DEF StopFinds, StoppedUnlessSlipped, Pending
  <2>6. InitClears'
    BY <2>1, <2>2, <2>3 DEF InitClears, Pending
  <2>7. Numbered' /\ OneLive'
    BY <2>1, <2>2 DEF Numbered, OneLive
  <2> QED
    BY <2>4, <2>5, <2>6, <2>7
<1>2. ASSUME NEW id \in RqJobs, CancelOne(id) PROVE IInv'
  <2>1. /\ UNCHANGED <<running, made, requests, before, slipped, overlap, raced>>
        /\ api.pc = "cancel"
        /\ api' = [api EXCEPT !.ids = @ \ {id}]
        /\ queued' = RemoveFirst(queued, id)
        /\ scheduled' = scheduled \ {id}
    BY <1>2 DEF CancelOne
  <2>2. api'.op = api.op /\ api'.pc = "cancel" /\ api'.ids = api.ids \ {id}
    BY <1>t, <2>1
  <2>3. /\ queued' \in Seq(RqJobs)
        /\ ToSet(queued)' \subseteq ToSet(queued) \ {id}
        /\ IsInjective(queued)'
    BY <2>1, TypeFacts, RemoveFacts
  <2>4. Pending' \subseteq Pending \ {id} /\ Live' \subseteq Live
    BY <2>1, <2>3 DEF Pending, Live
  <2>5. TypeOK'
    BY <1>t, <2>1, <2>3, <2>4, TypeFacts DEF TypeOK
  <2>6. StopFinds'
    BY <2>1, <2>2, <2>4 DEF StopFinds, StoppedUnlessSlipped
  <2>7. InitClears'
    BY <2>1, <2>2, <2>4 DEF InitClears
  <2>8. Numbered' /\ OneLive'
    BY <2>1, <2>4 DEF Numbered, OneLive
  <2> QED
    BY <2>5, <2>6, <2>7, <2>8
<1>3. CASE StopReturns
  <2>1. /\ UNCHANGED <<queued, scheduled, running, made, requests, before,
                       slipped, overlap, raced>>
        /\ api.pc = "cancel" /\ api.ids = {}
    BY <1>3 DEF StopReturns
  <2>2. Pending' = Pending /\ Live' = Live /\ ToSet(queued)' = ToSet(queued)
    BY <2>1 DEF Pending, Live
  <2>3. \/ api' = At("idle")
        \/ api' = At("down")
        \/ api' = [api EXCEPT !.pc = "enqueue"]
    BY <1>3 DEF StopReturns
  <2>4. /\ api' \in [op : Ops, pc : {"down", "idle", "read", "cancel", "enqueue"},
                     ids : SUBSET RqJobs]
        /\ api'.pc \in {"idle", "down", "enqueue"}
        /\ api'.pc = "enqueue" => api'.op = api.op
    BY <1>t, <2>3, ApiFacts
  <2>5. TypeOK'
    BY <2>1, <2>2, <2>4 DEF TypeOK
  <2>6. StopFinds'
    BY <2>1, <2>2, <2>4 DEF StopFinds, StoppedUnlessSlipped
  <2>7. InitClears'
    BY <2>1, <2>2, <2>4 DEF InitClears, Live
  <2>8. Numbered' /\ OneLive'
    BY <2>1, <2>2 DEF Numbered, OneLive
  <2> QED
    BY <2>5, <2>6, <2>7, <2>8
<1>4. CASE EnqueueFirst
  <2> DEFINE new == made + 1
  <2>1. /\ UNCHANGED <<running, requests, before, slipped, overlap>>
        /\ api.pc = "enqueue" /\ api.op \in {"init_now", "init_at"}
        /\ made < MaxJobs /\ made' = new
        /\ api' = At("idle")
        /\ raced' = (raced \/ overlap)
        /\ \/ queued' = Append(queued, new) /\ scheduled' = scheduled
           \/ scheduled' = scheduled \cup {new} /\ queued' = queued
    BY <1>4 DEF EnqueueFirst
  <2>2. made \in Nat /\ made' \in 0..MaxJobs /\ new \in RqJobs /\ new \notin 1..made
        /\ 1..made \subseteq 1..new /\ new \in 1..new
    BY <2>1, BoundsAssumption DEF TypeOK, RqJobs
  <2> HIDE DEF new
  <2>3. new \notin Live /\ new \notin ToSet(queued) /\ new \notin before
        /\ new \notin scheduled /\ new \notin running
    BY <2>2 DEF Numbered, Live, Pending
  <2>4. /\ queued' \in Seq(RqJobs) /\ IsInjective(queued)'
        /\ ToSet(queued)' \cap scheduled' = {}
        /\ Pending' = Pending \cup {new}
        /\ scheduled' \subseteq RqJobs
    <3>1. CASE queued' = Append(queued, new) /\ scheduled' = scheduled
      <4>1. /\ queued' \in Seq(RqJobs) /\ IsInjective(queued)'
            /\ ToSet(queued)' = ToSet(queued) \cup {new}
        BY <3>1, <2>2, <2>3, TypeFacts, AppendFacts
      <4> QED
        BY <3>1, <4>1, <2>3, TypeFacts DEF Pending
    <3>2. CASE scheduled' = scheduled \cup {new} /\ queued' = queued
      <4>1. ToSet(queued)' = ToSet(queued) /\ IsInjective(queued)'
        BY <3>2, TypeFacts
      <4> QED
        BY <3>2, <4>1, <2>2, <2>3, TypeFacts DEF Pending
    <3> QED
      BY <2>1, <3>1, <3>2
  <2>5. Live' = Live \cup {new}
    BY <2>1, <2>4 DEF Live
  <2>6. TypeOK'
    <3>1. Pending' \cap running' = {}
      BY <2>1, <2>3, <2>4, TypeFacts
    <3>2. raced' \in BOOLEAN
      BY <2>1 DEF TypeOK
    <3> QED
      BY <2>1, <2>2, <2>4, <3>1, <3>2, ApiFacts DEF TypeOK
  <2>7. Numbered'
    BY <2>1, <2>2, <2>5 DEF Numbered
  <2>8. StopFinds'
    <3>1. api'.pc = "idle"
      BY <2>1, ApiFacts
    <3> QED
      BY <2>1, <2>3, <2>4, <3>1 DEF StopFinds, StoppedUnlessSlipped
  <2>9. InitClears'
    <3>1. api'.op = "none"
      BY <2>1, ApiFacts
    <3> QED
      BY <3>1 DEF InitClears
  <2>10. OneLive'
    <3>1. raced' \/ Live = {}
      BY <2>1 DEF InitClears
    <3> QED
      BY <2>5, <3>1 DEF OneLive
  <2> QED
    BY <2>6, <2>7, <2>8, <2>9, <2>10
<1>5. CASE Crash
  <2>1. /\ UNCHANGED <<queued, scheduled, running, made, requests, slipped,
                       overlap, raced>>
        /\ api' = At("down") /\ before' = {}
    BY <1>5 DEF Crash
  <2>2. Pending' = Pending /\ Live' = Live /\ ToSet(queued)' = ToSet(queued)
    BY <2>1 DEF Pending, Live
  <2>3. api'.op = "none" /\ api'.pc = "down"
    BY <2>1, ApiFacts
  <2>4. TypeOK'
    BY <2>1, <2>2, ApiFacts DEF TypeOK
  <2> QED
    BY <2>1, <2>2, <2>3, <2>4
    DEF StopFinds, StoppedUnlessSlipped, InitClears, Numbered, OneLive
<1> QED
  BY <1>1, <1>2, <1>3, <1>4, <1>5 DEF ApiStep

\* The steps of the worker and of RQ's scheduler.
LEMMA WorkerInv ==
  ASSUME IInv, WorkerStep \/ \E id \in RqJobs : Release(id)
  PROVE  IInv'
<1> USE DEF IInv
<1>1. CASE StartRun
  <2>1. /\ UNCHANGED <<scheduled, made, api, requests, before, slipped, raced>>
        /\ running = {} /\ queued # <<>>
        /\ running' = {Head(queued)}
        /\ queued' = Tail(queued)
        /\ overlap' = (overlap \/ InStop)
    BY <1>1 DEF StartRun
  <2>2. /\ queued' \in Seq(RqJobs) /\ IsInjective(queued)'
        /\ Head(queued) \in ToSet(queued)
        /\ Head(queued) \in RqJobs
        /\ ToSet(queued)' = ToSet(queued) \ {Head(queued)}
    BY <2>1, TypeFacts, TailFacts
  <2>3. /\ Pending' = Pending \ {Head(queued)}
        /\ Live' = Live
    BY <2>1, <2>2, TypeFacts DEF Pending, Live
  <2>4. TypeOK'
    <3>1. Cardinality(running') <= 1 /\ running' \in SUBSET RqJobs
      BY <2>1, <2>2, SmallSets
    <3>2. ToSet(queued)' \cap scheduled' = {} /\ Pending' \cap running' = {}
      BY <2>1, <2>2, <2>3, TypeFacts
    <3>3. overlap' \in BOOLEAN
      BY <2>1 DEF TypeOK, InStop
    <3> QED
      BY <2>1, <2>2, <3>1, <3>2, <3>3 DEF TypeOK
  <2>5. StopFinds'
    BY <2>1, <2>2, <2>3 DEF StopFinds, StoppedUnlessSlipped
  <2>6. InitClears'
    BY <2>1 DEF InitClears, InStop
  <2>7. Numbered' /\ OneLive'
    BY <2>1, <2>3 DEF Numbered, OneLive
  <2> QED
    BY <2>4, <2>5, <2>6, <2>7
<1>2. CASE ScheduleNext
  <2> DEFINE new == made + 1
  <2>1. /\ UNCHANGED <<queued, api, requests, before, slipped, overlap, raced>>
        /\ running # {} /\ running' = {}
        /\ made < MaxJobs /\ made' = new
        /\ scheduled' = scheduled \cup {new}
    BY <1>2 DEF ScheduleNext
  <2>2. made \in Nat /\ made' \in 0..MaxJobs /\ new \in RqJobs /\ new \notin 1..made
        /\ 1..made \subseteq 1..new /\ new \in 1..new
    BY <2>1, BoundsAssumption DEF TypeOK, RqJobs
  <2> HIDE DEF new
  <2>3. new \notin ToSet(queued) /\ new \notin before
    BY <2>2 DEF Numbered, Live, Pending
  <2>4. /\ ToSet(queued)' = ToSet(queued)
        /\ Pending' = Pending \cup {new}
        /\ Live' = (Live \ running) \cup {new}
    BY <2>1, TypeFacts DEF Pending, Live
  <2>5. TypeOK'
    <3>1. Cardinality(running') <= 1
      BY <2>1, SmallSets
    <3>2. scheduled' \subseteq RqJobs /\ ToSet(queued)' \cap scheduled' = {}
      BY <2>1, <2>2, <2>3, <2>4, TypeFacts
    <3> QED
      BY <2>1, <2>2, <3>1, <3>2 DEF TypeOK
  <2>6. StopFinds'
    BY <2>1, <2>3, <2>4 DEF StopFinds, StoppedUnlessSlipped
  <2>7. InitClears'
    BY <2>1 DEF InitClears, Live
  <2>8. Numbered'
    BY <2>1, <2>2, <2>4 DEF Numbered
  <2>9. OneLive'
    <3>1. raced \/ Live \ running = {}
      BY <2>1 DEF OneLive, Live
    <3> QED
      BY <2>1, <2>4, <3>1 DEF OneLive
  <2> QED
    BY <2>5, <2>6, <2>7, <2>8, <2>9
<1>3. CASE FailRun
  <2>1. /\ UNCHANGED <<queued, scheduled, made, api, requests, before, slipped,
                       overlap, raced>>
        /\ running' = {}
    BY <1>3 DEF FailRun
  <2>2. Pending' = Pending /\ Live' \subseteq Live /\ ToSet(queued)' = ToSet(queued)
    BY <2>1 DEF Pending, Live
  <2>3. TypeOK'
    <3>1. Cardinality(running') <= 1
      BY <2>1, SmallSets
    <3> QED
      BY <2>1, <2>2, <3>1 DEF TypeOK
  <2> QED
    BY <2>1, <2>2, <2>3
    DEF StopFinds, StoppedUnlessSlipped, InitClears, Numbered, OneLive
<1>4. ASSUME NEW id \in RqJobs, Release(id) PROVE IInv'
  <2>1. /\ UNCHANGED <<running, made, api, requests, before, raced>>
        /\ id \in scheduled
        /\ scheduled' = scheduled \ {id}
        /\ queued' = Append(queued, id)
        /\ slipped' = IF api.pc = "read" THEN slipped \cup {id} ELSE slipped
        /\ overlap' = (overlap \/ api.pc = "read")
    BY <1>4 DEF Release
  <2>2. /\ queued' \in Seq(RqJobs) /\ IsInjective(queued)'
        /\ ToSet(queued)' = ToSet(queued) \cup {id}
    <3>1. id \notin ToSet(queued)
      BY <2>1, TypeFacts
    <3> QED
      BY <2>1, <3>1, TypeFacts, AppendFacts
  <2>3. Pending' = Pending /\ Live' = Live
    BY <2>1, <2>2 DEF Pending, Live
  <2>4. TypeOK'
    <3>1. ToSet(queued)' \cap scheduled' = {} /\ scheduled' \subseteq RqJobs
      BY <2>1, <2>2, TypeFacts
    <3>2. overlap' \in BOOLEAN /\ slipped' \subseteq RqJobs
      BY <2>1 DEF TypeOK
    <3> QED
      BY <2>1, <2>2, <2>3, <3>1, <3>2 DEF TypeOK
  <2>5. StopFinds'
    BY <2>1, <2>2, <2>3 DEF StopFinds, StoppedUnlessSlipped
  <2>6. InitClears'
    BY <2>1, <2>3 DEF InitClears
  <2>7. Numbered' /\ OneLive'
    BY <2>1, <2>3 DEF Numbered, OneLive
  <2> QED
    BY <2>4, <2>5, <2>6, <2>7
<1> QED
  BY <1>1, <1>2, <1>3, <1>4 DEF WorkerStep

\* Every step keeps the invariant.
LEMMA NextInv == IInv /\ [Next]_vars => IInv'
<1> SUFFICES ASSUME IInv, [Next]_vars PROVE IInv'
  OBVIOUS
<1>1. ASSUME Startup \/ Shutdown \/ RequestInit \/ RequestStop PROVE IInv'
  <2>1. \E op \in Ops \ {"none"} : ReadQueue(op)
    BY <1>1 DEF Startup, Shutdown, RequestInit, RequestStop, Ops
  <2> QED
    BY <2>1, ReadQueueInv
<1>2. CASE UNCHANGED vars
  BY <1>2 DEF vars, IInv, TypeOK, Numbered, StopFinds, StoppedUnlessSlipped,
    InitClears, OneLive, Pending, Live
<1> QED
  BY <1>1, <1>2, ApiInv, WorkerInv DEF Next

\* The invariant holds in every reachable state.
LEMMA Invariance == Spec => []IInv
BY InitInv, NextInv, PTL DEF Spec

(***************************************************************************)
(* The theorems.                                                           *)
(***************************************************************************)

\* Type correctness; in particular an RQ job is never on the queue twice, nor on
\* the queue and in the registry, nor pending while it runs, whatever
\* stop_recalibration and RQ's scheduler do.
THEOREM TypeCorrect == Spec => []TypeOK
<1>1. IInv => TypeOK
  BY DEF IInv
<1> QED
  BY <1>1, Invariance, PTL

\* stop_recalibration cancels everything that was pending when it began, except
\* what RQ's scheduler moved between its two reads.
THEOREM StopCorrect == Spec => []StoppedUnlessSlipped
<1>1. IInv => StoppedUnlessSlipped
  BY DEF IInv, StopFinds
<1> QED
  BY <1>1, Invariance, PTL

\* There is at most one chain of recalibrations, unless some init_recalibration
\* overlapped with a run, or with a job that moved between its reads.
THEOREM OneChainCorrect == Spec => []OneChainUnlessOverlap
<1>1. ASSUME IInv PROVE OneChainUnlessOverlap
  <2>1. CASE raced
    BY <2>1 DEF OneChainUnlessOverlap
  <2>2. CASE \A x, y \in Live : x = y
    <3>1. Live = {} \/ \E x : Live = {x}
      BY <2>2
    <3> QED
      BY <3>1, SmallSets DEF OneChainUnlessOverlap
  <2> QED
    BY <1>1, <2>1, <2>2 DEF IInv, OneLive
<1> QED
  BY <1>1, Invariance, PTL

-----------------------------------------------------------------------------
(***************************************************************************)
(* MssPipe: the invariant                                                  *)
(***************************************************************************)

PipeTypes ==
  /\ pipe \in [Senders -> {"new", "ready", "waiting", "closed"}]
  /\ at \in [Senders -> Nat \ {0}] /\ \A s \in Senders : at[s] <= Len(Plan[s])
  /\ inbox \in [Senders -> Seq(Replies)]
  /\ outcome \in [Events -> {"none", "success", "error", "timeout"}]
  /\ outbox \in Seq(Events) /\ toMss \in Seq(Events)
  /\ accepted \in Seq(Events) /\ rejected \in Seq(Events) /\ fromMss \in Seq(Replies)
  /\ readers \in Seq(Reader)

\* Where an event may be on its way, and where it ends.
Places == ToSet(outbox) \cup ToSet(toMss) \cup ToSet(accepted) \cup ToSet(rejected)

Once ==
  /\ Distinct(outbox) /\ Distinct(toMss) /\ Distinct(accepted) /\ Distinct(rejected)
  /\ ToSet(outbox) \cap (ToSet(toMss) \cup ToSet(accepted) \cup ToSet(rejected)) = {}
  /\ ToSet(toMss) \cap (ToSet(accepted) \cup ToSet(rejected)) = {}
  /\ ToSet(accepted) \cap ToSet(rejected) = {}

\* What a pipe has still to send is nowhere yet.
ToCome(s, i) == i > at[s] \/ (i = at[s] /\ pipe[s] \in {"new", "ready"})
NotYet == \A s \in Senders : \A i \in DOMAIN Plan[s] : ToCome(s, i) => Plan[s][i] \notin Places

\* A reply, wherever it is, tells what MSS has done, and so do the outcomes.
Answered(reply) == /\ reply.status = "success" => reply.id \in ToSet(accepted)
                   /\ reply.status = "error" => reply.id \in ToSet(rejected)
RepliesTrue ==
  /\ \A i \in 1..Len(fromMss) : Answered(fromMss[i])
  /\ \A s \in Senders : \A i \in 1..Len(inbox[s]) : Answered(inbox[s][i])
OutcomesTrue ==
  \A e \in Events : /\ outcome[e] = "success" => e \in ToSet(accepted)
                    /\ outcome[e] = "error" => e \in ToSet(rejected)

\* A pipe goes on to its next event only after the last one was accepted.
EarlierAccepted ==
  \A s \in Senders : \A i \in DOMAIN Plan[s] : i < at[s] => Plan[s][i] \in ToSet(accepted)

\* From the attempt on, the client listens or a reader has ended by an exception.
Listens == link \in {"connecting", "up"} => Listening \/ struck

PipeInv ==
  PipeTypes /\ Once /\ NotYet /\ RepliesTrue /\ OutcomesTrue /\ EarlierAccepted /\ Listens

\* Counting in a list without repetitions.
LEMMA CountFacts ==
  ASSUME NEW list \in Seq(Events), Distinct(list), NEW e \in Events
  PROVE  Count(list, e) = IF e \in ToSet(list) THEN 1 ELSE 0
<1> DEFINE I == {i \in DOMAIN list : list[i] = e}
<1>1. e \in ToSet(list) <=> \E i \in 1..Len(list) : list[i] = e
  BY ElementsOf
<1>2. DOMAIN list = 1..Len(list)
  OBVIOUS
<1>3. CASE e \in ToSet(list)
  <2>1. PICK i \in 1..Len(list) : list[i] = e
    BY <1>1, <1>3
  <2>2. I = {i}
    BY <1>2, <2>1 DEF Distinct
  <2>3. Cardinality({i}) = 1
    BY FS_Singleton
  <2> QED
    BY <1>3, <2>2, <2>3 DEF Count
<1>4. CASE e \notin ToSet(list)
  <2>1. I = {}
    BY <1>1, <1>2, <1>4
  <2> QED
    BY <1>4, <2>1, FS_EmptySet DEF Count
<1> QED
  BY <1>3, <1>4

LEMMA PlanFact ==
  ASSUME PipeTypes, NEW s \in Senders
  PROVE  /\ Plan[s] \in Seq(Events) /\ DOMAIN Plan[s] = 1..Len(Plan[s]) /\ Len(Plan[s]) \in Nat
         /\ at[s] \in DOMAIN Plan[s] /\ at[s] \in Nat /\ Current(s) \in Events
         /\ Current(s) = Plan[s][at[s]]
<1>1. Plan[s] \in Seq(Events)
  BY PipeAssumption DEF PipeAssumption
<1>2. at[s] \in Nat /\ at[s] # 0 /\ at[s] <= Len(Plan[s])
  BY DEF PipeTypes
<1> QED
  BY <1>1, <1>2 DEF Current

-----------------------------------------------------------------------------
(***************************************************************************)
(* The pipes                                                               *)
(***************************************************************************)

LEMMA OpenKeeps ==
  ASSUME PipeInv, NEW s \in Senders, Open(s)
  PROVE  PipeInv'
<1>1. /\ pipe[s] = "new" /\ pipe' = [pipe EXCEPT ![s] = "ready"]
      /\ UNCHANGED <<at, inbox, outcome, link, heard, outbox, readers, struck, drops,
                     toMss, fromMss, accepted, rejected>>
  BY DEF Open, client, socket
<1>2. PipeTypes'
  BY <1>1 DEF PipeInv, PipeTypes
<1>3. \A r \in Senders : pipe'[r] \in {"new", "ready"} => pipe[r] \in {"new", "ready"}
  BY <1>1 DEF PipeInv, PipeTypes
<1>4. NotYet'
  BY <1>1, <1>3 DEF PipeInv, NotYet, ToCome, Places
<1>5. Once' /\ RepliesTrue' /\ OutcomesTrue' /\ EarlierAccepted' /\ Listens'
  BY <1>1 DEF PipeInv, Once, RepliesTrue, Answered, OutcomesTrue, EarlierAccepted, Listens,
              Listening
<1> QED
  BY <1>2, <1>4, <1>5 DEF PipeInv

LEMMA PublishKeeps ==
  ASSUME PipeInv, NEW s \in Senders, Publish(s)
  PROVE  PipeInv'
<1>1. /\ pipe[s] = "ready" /\ pipe' = [pipe EXCEPT ![s] = "waiting"]
      /\ outbox' = IF heard THEN Append(outbox, Current(s)) ELSE outbox
      /\ UNCHANGED <<at, inbox, outcome, link, heard, readers, struck, drops,
                     toMss, fromMss, accepted, rejected>>
  BY DEF Publish, socket
<1>2. /\ outbox \in Seq(Events) /\ Distinct(outbox)
      /\ at[s] \in DOMAIN Plan[s] /\ Current(s) \in Events /\ Current(s) = Plan[s][at[s]]
  BY PlanFact DEF PipeInv, PipeTypes, Once
<1>3. Current(s) \notin Places
  BY <1>1, <1>2 DEF PipeInv, NotYet, ToCome
<1>4. /\ outbox' \in Seq(Events) /\ Distinct(outbox')
      /\ ToSet(outbox') \subseteq ToSet(outbox) \cup {Current(s)}
  <2>1. CASE heard
    BY <1>1, <1>2, <1>3, <2>1, Added DEF Places
  <2>2. CASE ~heard
    BY <1>1, <1>2, <2>2
  <2> QED
    BY <2>1, <2>2
<1>5. PipeTypes'
  BY <1>1, <1>4 DEF PipeInv, PipeTypes
<1>6. Once'
  BY <1>1, <1>3, <1>4 DEF PipeInv, Once, Places
<1>7. NotYet'
  <2> SUFFICES ASSUME NEW r \in Senders, NEW i \in DOMAIN Plan[r], ToCome(r, i)'
               PROVE  Plan[r][i] \notin Places'
    BY DEF NotYet
  <2>1. ToCome(r, i)
    BY <1>1 DEF ToCome, PipeInv, PipeTypes
  <2>2. Plan[r][i] \notin Places
    BY <2>1 DEF PipeInv, NotYet
  <2>3. ~ (r = s /\ i = at[s])
    <3>1. at[s] \in Nat /\ pipe'[s] = "waiting" /\ at'[s] = at[s]
      BY <1>1 DEF PipeInv, PipeTypes
    <3> QED
      BY <3>1 DEF ToCome
  <2>4. Plan[r][i] # Current(s)
    BY <1>2, <2>3, PipeAssumption DEF PipeAssumption
  <2> QED
    BY <1>1, <1>4, <2>2, <2>4 DEF Places
<1>8. RepliesTrue' /\ OutcomesTrue' /\ EarlierAccepted' /\ Listens'
  BY <1>1 DEF PipeInv, RepliesTrue, Answered, OutcomesTrue, EarlierAccepted, Listens, Listening
<1> QED
  BY <1>5, <1>6, <1>7, <1>8 DEF PipeInv

\* The sender's own steps leave the way of the events and the client as they are.
LEMMA SenderKeeps ==
  ASSUME PipeInv, UNCHANGED <<client, socket>>, PipeTypes',
         \A r \in Senders : \A i \in DOMAIN Plan[r] : ToCome(r, i)' => ToCome(r, i),
         \A r \in Senders : \A i \in 1..Len(inbox'[r]) : Answered(inbox'[r][i]),
         \A e \in Events : outcome'[e] # outcome[e] =>
           /\ outcome'[e] = "success" => e \in ToSet(accepted)
           /\ outcome'[e] = "error" => e \in ToSet(rejected),
         \A r \in Senders : \A i \in DOMAIN Plan[r] :
           i < at'[r] => i < at[r] \/ Plan[r][i] \in ToSet(accepted)
  PROVE  PipeInv'
<1>1. UNCHANGED <<link, heard, outbox, readers, struck, drops, toMss, fromMss, accepted, rejected>>
  BY DEF client, socket
<1>2. Once' /\ Listens'
  BY <1>1 DEF PipeInv, Once, Listens, Listening
<1>3. NotYet'
  BY <1>1 DEF PipeInv, NotYet, Places
<1>4. RepliesTrue'
  BY <1>1 DEF PipeInv, RepliesTrue, Answered
<1>5. OutcomesTrue'
  BY <1>1 DEF PipeInv, OutcomesTrue
<1>6. EarlierAccepted'
  BY <1>1 DEF PipeInv, EarlierAccepted
<1> QED
  BY <1>2, <1>3, <1>4, <1>5, <1>6 DEF PipeInv

LEMMA RaiseKeeps ==
  ASSUME PipeInv, NEW s \in Senders, NEW error \in {"error", "timeout"}, Raise(s, error),
         error = "error" => Current(s) \in ToSet(rejected), UNCHANGED <<client, socket>>,
         pipe[s] = "waiting"
  PROVE  PipeInv'
<1>1. /\ outcome' = [outcome EXCEPT ![Current(s)] = error]
      /\ pipe' = [pipe EXCEPT ![s] = "closed"]
      /\ inbox' = [inbox EXCEPT ![s] = <<>>]
      /\ at' = at
      /\ UNCHANGED <<outbox, readers, toMss, fromMss, accepted, rejected>>
  BY DEF Raise, client, socket
<1>2. Current(s) \in Events
  BY PlanFact DEF PipeInv
<1>3. PipeTypes'
  BY <1>1, <1>2 DEF PipeInv, PipeTypes
<1>4. \A r \in Senders : \A i \in DOMAIN Plan[r] : ToCome(r, i)' => ToCome(r, i)
  BY <1>1 DEF ToCome, PipeInv, PipeTypes
<1>5. \A r \in Senders : \A i \in 1..Len(inbox'[r]) : Answered(inbox'[r][i])
  <2> TAKE r \in Senders
  <2>1. CASE r = s
    <3>1. inbox'[r] = <<>>
      BY <1>1, <2>1 DEF PipeInv, PipeTypes
    <3> QED
      BY <3>1
  <2>2. CASE r # s
    BY <1>1, <2>2 DEF PipeInv, PipeTypes, RepliesTrue
  <2> QED
    BY <2>1, <2>2
<1>6. \A e \in Events : outcome'[e] # outcome[e] =>
        /\ outcome'[e] = "success" => e \in ToSet(accepted)
        /\ outcome'[e] = "error" => e \in ToSet(rejected)
  BY <1>1, <1>2 DEF PipeInv, PipeTypes
<1> QED
  BY <1>1, <1>3, <1>4, <1>5, <1>6, SenderKeeps

LEMMA ReturnKeeps ==
  ASSUME PipeInv, NEW s \in Senders, Return(s), Current(s) \in ToSet(accepted),
         UNCHANGED <<client, socket>>, pipe[s] = "waiting", inbox[s] # <<>>
  PROVE  PipeInv'
<1>1. /\ outcome' = [outcome EXCEPT ![Current(s)] = "success"]
      /\ \/ /\ at[s] < Len(Plan[s])
            /\ pipe' = [pipe EXCEPT ![s] = "ready"]
            /\ at' = [at EXCEPT ![s] = at[s] + 1]
            /\ inbox' = [inbox EXCEPT ![s] = Tail(inbox[s])]
         \/ /\ pipe' = [pipe EXCEPT ![s] = "closed"]
            /\ inbox' = [inbox EXCEPT ![s] = <<>>]
            /\ at' = at
      /\ UNCHANGED <<outbox, readers, toMss, fromMss, accepted, rejected>>
  BY DEF Return, client, socket
<1>2. /\ Current(s) \in Events /\ Current(s) = Plan[s][at[s]]
      /\ at[s] \in Nat /\ Len(Plan[s]) \in Nat
  BY PlanFact DEF PipeInv
<1>3. /\ inbox[s] \in Seq(Replies) /\ Tail(inbox[s]) \in Seq(Replies)
      /\ \A i \in 1..Len(Tail(inbox[s])) :
           i + 1 \in 1..Len(inbox[s]) /\ Tail(inbox[s])[i] = inbox[s][i + 1]
  BY Shifted DEF PipeInv, PipeTypes
<1>4. PipeTypes'
  <2>1. \A r \in Senders : at'[r] <= Len(Plan[r])
    <3> TAKE r \in Senders
    <3>1. CASE r = s
      BY <1>1, <1>2, <3>1 DEF PipeInv, PipeTypes
    <3>2. CASE r # s
      BY <1>1, <3>2 DEF PipeInv, PipeTypes
    <3> QED
      BY <3>1, <3>2
  <2>2. inbox' \in [Senders -> Seq(Replies)]
    <3>1. \/ inbox' = [inbox EXCEPT ![s] = Tail(inbox[s])]
          \/ inbox' = [inbox EXCEPT ![s] = <<>>]
      BY <1>1
    <3>2. <<>> \in Seq(Replies) /\ Tail(inbox[s]) \in Seq(Replies)
      BY <1>3
    <3> QED
      BY <3>1, <3>2 DEF PipeInv, PipeTypes
  <2>3. at' \in [Senders -> Nat \ {0}]
    <3>1. at' = at \/ at' = [at EXCEPT ![s] = at[s] + 1]
      BY <1>1
    <3>2. at[s] + 1 \in Nat \ {0}
      BY <1>2
    <3> QED
      BY <3>1, <3>2 DEF PipeInv, PipeTypes
  <2>4. pipe' \in [Senders -> {"new", "ready", "waiting", "closed"}]
    BY <1>1 DEF PipeInv, PipeTypes
  <2> QED
    BY <1>1, <1>2, <2>1, <2>2, <2>3, <2>4 DEF PipeInv, PipeTypes
<1>5. \A r \in Senders : \A i \in DOMAIN Plan[r] : ToCome(r, i)' => ToCome(r, i)
  <2> TAKE r \in Senders
  <2> TAKE i \in DOMAIN Plan[r]
  <2>1. CASE r # s
    BY <1>1, <2>1 DEF ToCome, PipeInv, PipeTypes
  <2>2. CASE r = s
    <3>1. i \in Nat
      BY <2>2, PlanFact DEF PipeInv
    <3>2. CASE pipe'[s] = "ready" /\ at'[s] = at[s] + 1
      BY <1>2, <2>2, <3>1, <3>2 DEF ToCome
    <3>3. CASE pipe'[s] = "closed" /\ at'[s] = at[s]
      BY <1>2, <2>2, <3>1, <3>3 DEF ToCome
    <3> QED
      BY <1>1, <3>2, <3>3 DEF PipeInv, PipeTypes
  <2> QED
    BY <2>1, <2>2
<1>6. \A r \in Senders : \A i \in 1..Len(inbox'[r]) : Answered(inbox'[r][i])
  <2> TAKE r \in Senders
  <2>1. CASE r # s
    BY <1>1, <2>1 DEF PipeInv, PipeTypes, RepliesTrue
  <2>2. CASE r = s
    <3>1. inbox'[r] = Tail(inbox[s]) \/ inbox'[r] = <<>>
      BY <1>1, <2>2 DEF PipeInv, PipeTypes
    <3>2. \A i \in 1..Len(Tail(inbox[s])) : Answered(Tail(inbox[s])[i])
      BY <1>3 DEF PipeInv, RepliesTrue
    <3>3. CASE inbox'[r] = Tail(inbox[s])
      BY <3>2, <3>3
    <3>4. CASE inbox'[r] = <<>>
      BY <3>4
    <3> QED
      BY <3>1, <3>3, <3>4
  <2> QED
    BY <2>1, <2>2
<1>7. \A e \in Events : outcome'[e] # outcome[e] =>
        /\ outcome'[e] = "success" => e \in ToSet(accepted)
        /\ outcome'[e] = "error" => e \in ToSet(rejected)
  BY <1>1, <1>2 DEF PipeInv, PipeTypes
<1>8. \A r \in Senders : \A i \in DOMAIN Plan[r] :
        i < at'[r] => i < at[r] \/ Plan[r][i] \in ToSet(accepted)
  <2> TAKE r \in Senders
  <2> TAKE i \in DOMAIN Plan[r]
  <2>1. CASE r # s
    BY <1>1, <2>1 DEF PipeInv, PipeTypes
  <2>2. CASE r = s
    <3>1. i \in Nat /\ (at'[s] = at[s] \/ at'[s] = at[s] + 1)
      BY <1>1, <2>2, PlanFact DEF PipeInv, PipeTypes
    <3> QED
      BY <1>2, <2>2, <3>1
  <2> QED
    BY <2>1, <2>2
<1> QED
  BY <1>4, <1>5, <1>6, <1>7, <1>8, SenderKeeps

LEMMA ReceiveKeeps ==
  ASSUME PipeInv, NEW s \in Senders, Receive(s)
  PROVE  PipeInv'
<1> DEFINE reply == Head(inbox[s])
<1>1. pipe[s] = "waiting" /\ inbox[s] # <<>> /\ UNCHANGED <<client, socket>>
  BY DEF Receive
<1>2. /\ inbox[s] \in Seq(Replies) /\ reply \in Replies /\ Tail(inbox[s]) \in Seq(Replies)
      /\ reply = inbox[s][1] /\ 1 \in 1..Len(inbox[s])
      /\ \A i \in 1..Len(Tail(inbox[s])) :
           i + 1 \in 1..Len(inbox[s]) /\ Tail(inbox[s])[i] = inbox[s][i + 1]
  BY <1>1, Shifted DEF PipeInv, PipeTypes
<1>3. Answered(reply)
  BY <1>2 DEF PipeInv, RepliesTrue
<1>4. reply.status \in {"success", "error"}
  BY <1>2 DEF Replies
<1>5. \/ /\ inbox' = [inbox EXCEPT ![s] = Tail(inbox[s])]
         /\ UNCHANGED <<pipe, at, outcome>>
      \/ reply.id = Current(s) /\ reply.status = "success" /\ Return(s)
      \/ reply.id = Current(s) /\ reply.status = "error" /\ Raise(s, "error")
  BY <1>4 DEF Receive
<1> HIDE DEF reply
<1>6. CASE /\ inbox' = [inbox EXCEPT ![s] = Tail(inbox[s])]
           /\ UNCHANGED <<pipe, at, outcome>>
  <2>1. PipeTypes'
    BY <1>1, <1>2, <1>6 DEF PipeInv, PipeTypes, client, socket
  <2>2. \A r \in Senders : \A i \in 1..Len(inbox'[r]) : Answered(inbox'[r][i])
    <3> TAKE r \in Senders
    <3>1. CASE r # s
      BY <1>6, <3>1 DEF PipeInv, PipeTypes, RepliesTrue
    <3>2. CASE r = s
      <4>1. inbox'[r] = Tail(inbox[s])
        BY <1>6, <3>2 DEF PipeInv, PipeTypes
      <4> QED
        BY <1>2, <4>1 DEF PipeInv, RepliesTrue
    <3> QED
      BY <3>1, <3>2
  <2> QED
    BY <1>1, <1>6, <2>1, <2>2, SenderKeeps DEF ToCome
<1>7. CASE reply.id = Current(s) /\ reply.status = "success" /\ Return(s)
  BY <1>1, <1>3, <1>7, ReturnKeeps DEF Answered
<1>8. CASE reply.id = Current(s) /\ reply.status = "error" /\ Raise(s, "error")
  BY <1>1, <1>3, <1>8, RaiseKeeps DEF Answered
<1> QED
  BY <1>5, <1>6, <1>7, <1>8

LEMMA TimeoutKeeps ==
  ASSUME PipeInv, NEW s \in Senders, Timeout(s)
  PROVE  PipeInv'
BY RaiseKeeps DEF Timeout

-----------------------------------------------------------------------------
(***************************************************************************)
(* The client and MSS                                                      *)
(***************************************************************************)

\* Steps of the client that send nothing on: what it takes from the outbox it
\* loses, and what it loses is nowhere else.
LEMMA ClientKeeps ==
  ASSUME PipeInv, UNCHANGED <<senders, accepted, rejected>>, PipeTypes', Listens',
         Distinct(outbox'), Distinct(toMss'),
         ToSet(outbox') \subseteq ToSet(outbox),
         ToSet(toMss') \subseteq ToSet(toMss) \cup (ToSet(outbox) \ ToSet(outbox')),
         \A i \in 1..Len(fromMss') : \E k \in 1..Len(fromMss) : fromMss'[i] = fromMss[k]
  PROVE  PipeInv'
<1>1. UNCHANGED <<pipe, at, inbox, outcome>>
  BY DEF senders
<1>2. Once'
  BY DEF PipeInv, Once
<1>3. Places' \subseteq Places
  BY DEF Places
<1>4. NotYet'
  BY <1>1, <1>3 DEF PipeInv, NotYet, ToCome
<1>5. RepliesTrue'
  BY <1>1 DEF PipeInv, RepliesTrue, Answered
<1>6. OutcomesTrue' /\ EarlierAccepted'
  BY <1>1 DEF PipeInv, OutcomesTrue, EarlierAccepted
<1> QED
  BY <1>2, <1>4, <1>5, <1>6 DEF PipeInv

LEMMA ReaderSet ==
  ASSUME NEW q \in Seq(Reader), NEW t \in DOMAIN q, NEW r \in Reader
  PROVE  [q EXCEPT ![t] = r] \in Seq(Reader) /\ DOMAIN [q EXCEPT ![t] = r] = DOMAIN q
OBVIOUS

LEMMA Ended ==
  ASSUME NEW state \in {"reading", "ended"}
  PROVE  [state |-> state, event |-> NoEvent] \in Reader
BY DEF Reader

\* connect_to_mss up to the handshake.
LEMMA EnterKeeps ==
  ASSUME PipeInv, Enter
  PROVE  PipeInv'
<1> DEFINE new == [state |-> "reading", event |-> NoEvent]
<1>1. /\ link' = "connecting" /\ heard' = TRUE /\ readers' = Append(readers, new)
      /\ UNCHANGED <<senders, outbox, toMss, fromMss, accepted, rejected>>
  BY DEF Enter, socket
<1>2. new \in Reader /\ new.state = "reading" /\ readers \in Seq(Reader)
  BY Ended DEF PipeInv, PipeTypes
<1> HIDE DEF new
<1>3. /\ readers' \in Seq(Reader) /\ Len(readers) \in Nat
      /\ Len(readers') = Len(readers) + 1 /\ readers'[Len(readers) + 1] = new
  BY <1>1, <1>2, Added
<1>4. Len(readers) + 1 \in DOMAIN readers'
  BY <1>3
<1>5. Listens'
  BY <1>1, <1>2, <1>3, <1>4 DEF Listens, Listening
<1>6. PipeTypes'
  BY <1>1, <1>3 DEF PipeInv, PipeTypes, senders
<1> QED
  BY <1>1, <1>5, <1>6, ClientKeeps DEF PipeInv, Once

LEMMA LinkKeeps ==
  ASSUME PipeInv, Connect \/ Refuse
  PROVE  PipeInv'
<1>1. /\ link = "connecting"
      /\ UNCHANGED <<senders, heard, outbox, readers, struck, toMss, fromMss, accepted, rejected>>
  BY DEF Connect, Refuse, socket
<1>2. Listens'
  BY <1>1 DEF PipeInv, Listens, Listening
<1>3. PipeTypes'
  BY <1>1 DEF PipeInv, PipeTypes, senders
<1> QED
  BY <1>1, <1>2, <1>3, ClientKeeps DEF PipeInv, Once

LEMMA DropKeeps ==
  ASSUME PipeInv, Drop
  PROVE  PipeInv'
<1>1. /\ link' = "lost" /\ toMss' = <<>> /\ fromMss' = <<>>
      /\ readers' = [t \in DOMAIN readers |->
           IF readers[t].state = "sent" THEN [readers[t] EXCEPT !.state = "broken"]
                                        ELSE readers[t]]
      /\ UNCHANGED <<senders, outbox, accepted, rejected>>
  BY DEF Drop
<1>2. \A t \in DOMAIN readers : readers[t] \in Reader
  BY SeqElement DEF PipeInv, PipeTypes
<1>3. \A t \in DOMAIN readers : readers'[t] \in Reader
  BY <1>1, <1>2 DEF Reader
<1>4. readers' \in Seq(Reader)
  <2>1. readers \in Seq(Reader)
    BY DEF PipeInv, PipeTypes
  <2>2. readers' \in [DOMAIN readers -> Reader]
    BY <1>1, <1>3
  <2> QED
    BY <2>1, <2>2
<1>5. PipeTypes'
  BY <1>1, <1>4 DEF PipeInv, PipeTypes, senders
<1>6. Listens'
  BY <1>1 DEF Listens
<1>7. Distinct(<<>>) /\ ToSet(<<>>) = {} /\ 1..Len(<<>>) = {}
  BY DEF Distinct, ToSet
<1> QED
  BY <1>1, <1>5, <1>6, <1>7, ClientKeeps DEF PipeInv, Once

LEMMA ExitKeeps ==
  ASSUME PipeInv, Exit
  PROVE  PipeInv'
<1>1. /\ link' = "backoff"
      /\ readers' = [readers EXCEPT ![Len(readers)] = [state |-> "ended", event |-> NoEvent]]
      /\ UNCHANGED <<senders, outbox, toMss, fromMss, accepted, rejected>>
  BY DEF Exit, socket
<1>2. readers' \in Seq(Reader)
  <2>1. [state |-> "ended", event |-> NoEvent] \in Reader
    BY Ended
  <2>2. readers \in Seq(Reader)
    BY DEF PipeInv, PipeTypes
  <2>3. PICK r \in Reader : readers' = [readers EXCEPT ![Len(readers)] = r]
    BY <1>1, <2>1
  <2>4. \A t \in DOMAIN readers : readers'[t] \in Reader
    BY <2>2, <2>3, SeqElement
  <2>5. readers' \in [DOMAIN readers -> Reader]
    BY <2>3, <2>4
  <2> QED
    BY <2>2, <2>5
<1>3. PipeTypes' /\ Listens'
  BY <1>1, <1>2 DEF PipeInv, PipeTypes, Listens, senders
<1> QED
  BY <1>1, <1>3, ClientKeeps DEF PipeInv, Once

\* A reader that raises leaves the events to whoever listens next.
LEMMA StrikeFacts ==
  ASSUME PipeInv, NEW t \in DOMAIN readers, Strike(t)
  PROVE  readers' \in Seq(Reader) /\ Listens' /\ UNCHANGED link
<1>1. /\ struck' = TRUE /\ UNCHANGED link
      /\ readers' = [readers EXCEPT ![t] = [state |-> "ended", event |-> NoEvent]]
  BY DEF Strike
<1>2. readers' \in Seq(Reader)
  BY <1>1, Ended, ReaderSet DEF PipeInv, PipeTypes
<1> QED
  BY <1>1, <1>2 DEF Listens

LEMMA ForwardKeeps ==
  ASSUME PipeInv, NEW t \in DOMAIN readers, Forward(t)
  PROVE  PipeInv'
<1> DEFINE e == Head(outbox)
<1>1. /\ outbox # <<>> /\ outbox' = Tail(outbox)
      /\ toMss' = (IF link = "up" THEN Append(toMss, e) ELSE toMss)
      /\ UNCHANGED <<senders, fromMss, accepted, rejected>>
      /\ \/ /\ readers' = [readers EXCEPT ![t] = [state |-> "sent", event |-> e]]
            /\ UNCHANGED <<link, heard, struck, drops>>
         \/ Strike(t)
  BY DEF Forward
<1>2. outbox \in Seq(Events) /\ toMss \in Seq(Events) /\ Distinct(outbox) /\ Distinct(toMss)
  BY DEF PipeInv, PipeTypes, Once
<1>3. /\ e \in Events /\ outbox' \in Seq(Events) /\ Distinct(outbox')
      /\ ToSet(outbox) = ToSet(outbox') \cup {e} /\ e \notin ToSet(outbox')
  BY <1>1, <1>2, Shifted
<1> HIDE DEF e
<1>4. e \notin ToSet(toMss)
  BY <1>3 DEF PipeInv, Once
<1>5. /\ toMss' \in Seq(Events) /\ Distinct(toMss')
      /\ ToSet(toMss') \subseteq ToSet(toMss) \cup {e}
  <2>1. CASE link = "up"
    BY <1>1, <1>2, <1>3, <1>4, <2>1, Added
  <2>2. CASE link # "up"
    BY <1>1, <1>2, <2>2
  <2> QED
    BY <2>1, <2>2
<1>6. readers' \in Seq(Reader) /\ Listens'
  <2>1. CASE Strike(t)
    BY <2>1, StrikeFacts
  <2>2. CASE /\ readers' = [readers EXCEPT ![t] = [state |-> "sent", event |-> e]]
             /\ UNCHANGED <<link, heard, struck, drops>>
    <3>1. [state |-> "sent", event |-> e] \in Reader
      BY <1>3 DEF Reader
    <3>2. readers' \in Seq(Reader) /\ t \in DOMAIN readers' /\ readers'[t].state = "sent"
      BY <2>2, <3>1, ReaderSet DEF PipeInv, PipeTypes
    <3> QED
      BY <2>2, <3>2 DEF PipeInv, Listens, Listening
  <2> QED
    BY <1>1, <2>1, <2>2
<1>7. PipeTypes'
  BY <1>1, <1>3, <1>5, <1>6 DEF PipeInv, PipeTypes, senders
<1> QED
  BY <1>1, <1>3, <1>5, <1>6, <1>7, ClientKeeps

LEMMA StrikeKeeps ==
  ASSUME PipeInv, NEW t \in DOMAIN readers, Strike(t), UNCHANGED <<senders, outbox, socket>>
  PROVE  PipeInv'
<1>1. UNCHANGED <<toMss, fromMss, accepted, rejected>>
  BY DEF socket
<1>2. readers' \in Seq(Reader) /\ Listens'
  BY StrikeFacts
<1>3. PipeTypes'
  BY <1>1, <1>2 DEF PipeInv, PipeTypes, senders
<1> QED
  BY <1>1, <1>2, <1>3, ClientKeeps DEF PipeInv, Once

\* The reply goes to all pipes that are subscribed.
LEMMA ReplyKeeps ==
  ASSUME PipeInv, NEW t \in DOMAIN readers, Reply(t)
  PROVE  PipeInv'
<1> DEFINE reply == Head(fromMss)
<1>1. /\ fromMss # <<>> /\ fromMss' = Tail(fromMss)
      /\ inbox' = [s \in Senders |-> IF pipe[s] \in {"ready", "waiting"}
                                     THEN Append(inbox[s], reply) ELSE inbox[s]]
      /\ readers' = [readers EXCEPT ![t] = [state |-> "reading", event |-> NoEvent]]
      /\ UNCHANGED <<pipe, at, outcome, link, heard, outbox, struck, toMss, accepted, rejected>>
  BY DEF Reply
<1>2. /\ fromMss \in Seq(Replies) /\ reply \in Replies /\ fromMss' \in Seq(Replies)
      /\ reply = fromMss[1] /\ 1 \in 1..Len(fromMss)
      /\ \A i \in 1..Len(fromMss') : i + 1 \in 1..Len(fromMss) /\ fromMss'[i] = fromMss[i + 1]
  BY <1>1, Shifted DEF PipeInv, PipeTypes
<1>3. Answered(reply) /\ \A i \in 1..Len(fromMss') : Answered(fromMss'[i])
  BY <1>2 DEF PipeInv, RepliesTrue
<1> HIDE DEF reply
<1>4. ASSUME NEW s \in Senders
      PROVE  /\ inbox'[s] \in Seq(Replies)
             /\ \A i \in 1..Len(inbox'[s]) : Answered(inbox'[s][i])
  <2>1. inbox[s] \in Seq(Replies) /\ \A i \in 1..Len(inbox[s]) : Answered(inbox[s][i])
    BY DEF PipeInv, PipeTypes, RepliesTrue
  <2>2. CASE inbox'[s] = Append(inbox[s], reply)
    <3>1. /\ inbox'[s] \in Seq(Replies) /\ Len(inbox[s]) \in Nat
          /\ Len(inbox'[s]) = Len(inbox[s]) + 1
          /\ \A i \in 1..Len(inbox[s]) : inbox'[s][i] = inbox[s][i]
          /\ inbox'[s][Len(inbox[s]) + 1] = reply
      BY <2>1, <2>2, <1>2, Added
    <3>2. \A i \in 1..Len(inbox'[s]) : i \in 1..Len(inbox[s]) \/ i = Len(inbox[s]) + 1
      BY <3>1
    <3> QED
      BY <1>3, <2>1, <3>1, <3>2
  <2>3. CASE inbox'[s] = inbox[s]
    BY <2>1, <2>3
  <2> QED
    BY <1>1, <2>2, <2>3
<1>5. RepliesTrue'
  BY <1>1, <1>3, <1>4 DEF RepliesTrue, Answered
<1>6. readers' \in Seq(Reader) /\ t \in DOMAIN readers' /\ readers'[t].state = "reading"
  BY <1>1, Ended, ReaderSet DEF PipeInv, PipeTypes
<1>7. Listens'
  BY <1>1, <1>6 DEF PipeInv, Listens, Listening
<1>8. PipeTypes'
  <2>1. inbox' \in [Senders -> Seq(Replies)]
    BY <1>1, <1>4
  <2> QED
    BY <1>1, <1>2, <1>6, <2>1 DEF PipeInv, PipeTypes
<1>9. Once' /\ NotYet' /\ OutcomesTrue' /\ EarlierAccepted'
  BY <1>1 DEF PipeInv, Once, NotYet, ToCome, Places, OutcomesTrue, EarlierAccepted
<1> QED
  BY <1>5, <1>7, <1>8, <1>9 DEF PipeInv

\* MSS accepts or rejects the event, and says so.
LEMMA MssKeeps ==
  ASSUME PipeInv, Mss
  PROVE  PipeInv'
<1> DEFINE e == Head(toMss)
           yes == [id |-> e, status |-> "success"]
           no == [id |-> e, status |-> "error"]
<1>1. /\ toMss # <<>> /\ toMss' = Tail(toMss)
      /\ \/ /\ accepted' = Append(accepted, e) /\ rejected' = rejected
            /\ fromMss' = Append(fromMss, yes)
         \/ /\ rejected' = Append(rejected, e) /\ accepted' = accepted
            /\ fromMss' = Append(fromMss, no)
      /\ UNCHANGED <<pipe, at, inbox, outcome, link, heard, outbox, readers, struck>>
  BY DEF Mss, senders, client
<1>2. /\ toMss \in Seq(Events) /\ accepted \in Seq(Events) /\ rejected \in Seq(Events)
      /\ fromMss \in Seq(Replies)
      /\ Distinct(toMss) /\ Distinct(accepted) /\ Distinct(rejected)
  BY DEF PipeInv, PipeTypes, Once
<1>3. /\ e \in Events /\ toMss' \in Seq(Events) /\ Distinct(toMss')
      /\ ToSet(toMss) = ToSet(toMss') \cup {e} /\ e \notin ToSet(toMss')
  BY <1>1, <1>2, Shifted
<1>4. e \notin ToSet(accepted) /\ e \notin ToSet(rejected) /\ e \notin ToSet(outbox)
  BY <1>3 DEF PipeInv, Once
<1>5. /\ yes \in Replies /\ no \in Replies
      /\ yes.id = e /\ no.id = e /\ yes.status = "success" /\ no.status = "error"
  BY <1>3 DEF Replies
<1> HIDE DEF e, yes, no
<1>6. /\ accepted' \in Seq(Events) /\ rejected' \in Seq(Events)
      /\ Distinct(accepted') /\ Distinct(rejected')
      /\ \/ ToSet(accepted') = ToSet(accepted) \cup {e} /\ ToSet(rejected') = ToSet(rejected)
         \/ ToSet(accepted') = ToSet(accepted) /\ ToSet(rejected') = ToSet(rejected) \cup {e}
  <2>1. /\ Append(accepted, e) \in Seq(Events) /\ Distinct(Append(accepted, e))
        /\ ToSet(Append(accepted, e)) = ToSet(accepted) \cup {e}
    BY <1>2, <1>3, <1>4, Added
  <2>2. /\ Append(rejected, e) \in Seq(Events) /\ Distinct(Append(rejected, e))
        /\ ToSet(Append(rejected, e)) = ToSet(rejected) \cup {e}
    BY <1>2, <1>3, <1>4, Added
  <2>3. CASE accepted' = Append(accepted, e) /\ rejected' = rejected
    BY <1>2, <2>1, <2>3
  <2>4. CASE rejected' = Append(rejected, e) /\ accepted' = accepted
    BY <1>2, <2>2, <2>4
  <2> QED
    BY <1>1, <2>3, <2>4
<1>7. Once'
  BY <1>1, <1>3, <1>4, <1>6 DEF PipeInv, Once
<1>8. Places' \subseteq Places
  BY <1>1, <1>3, <1>6 DEF Places
<1>9. NotYet'
  BY <1>1, <1>8 DEF PipeInv, NotYet, ToCome
<1>10. \A reply : Answered(reply) => Answered(reply)'
  BY <1>6 DEF Answered
<1>11. PICK reply \in Replies : fromMss' = Append(fromMss, reply) /\ Answered(reply)'
  <2>1. CASE /\ accepted' = Append(accepted, e) /\ rejected' = rejected
             /\ fromMss' = Append(fromMss, yes)
    BY <2>1, <1>2, <1>3, <1>5, Added DEF Answered
  <2>2. CASE /\ rejected' = Append(rejected, e) /\ accepted' = accepted
             /\ fromMss' = Append(fromMss, no)
    BY <2>2, <1>2, <1>3, <1>5, Added DEF Answered
  <2> QED
    BY <1>1, <2>1, <2>2
<1>12. /\ fromMss' \in Seq(Replies) /\ Len(fromMss) \in Nat /\ Len(fromMss') = Len(fromMss) + 1
       /\ \A i \in 1..Len(fromMss) : fromMss'[i] = fromMss[i]
       /\ fromMss'[Len(fromMss) + 1] = reply
  BY <1>2, <1>11, Added
<1>13. RepliesTrue'
  <2>1. ASSUME NEW i \in 1..Len(fromMss')
        PROVE  Answered(fromMss[i])' \/ fromMss'[i] = reply
    <3>1. i \in 1..Len(fromMss) \/ i = Len(fromMss) + 1
      BY <1>12
    <3>2. CASE i \in 1..Len(fromMss)
      <4>1. fromMss'[i] = fromMss[i] /\ Answered(fromMss[i])
        BY <3>2, <1>12 DEF PipeInv, RepliesTrue
      <4> QED
        BY <4>1, <1>6 DEF Answered
    <3> QED
      BY <3>1, <3>2, <1>12
  <2>2. \A i \in 1..Len(fromMss') : Answered(fromMss[i])'
    BY <2>1, <1>11 DEF Answered
  <2>3. \A s \in Senders : \A i \in 1..Len(inbox[s]) : Answered(inbox[s][i])
    BY DEF PipeInv, RepliesTrue
  <2>4. \A s \in Senders : \A i \in 1..Len(inbox'[s]) : Answered(inbox[s][i])'
    BY <1>1, <1>6, <2>3 DEF Answered
  <2> QED
    BY <2>2, <2>4 DEF RepliesTrue
<1>14. OutcomesTrue' /\ EarlierAccepted'
  BY <1>1, <1>6 DEF PipeInv, OutcomesTrue, EarlierAccepted
<1>15. PipeTypes' /\ Listens'
  BY <1>1, <1>3, <1>6, <1>12 DEF PipeInv, PipeTypes, Listens, Listening
<1> QED
  BY <1>7, <1>9, <1>13, <1>14, <1>15 DEF PipeInv

-----------------------------------------------------------------------------
(***************************************************************************)
(* MssPipe: the theorems                                                   *)
(***************************************************************************)

LEMMA InitialPipe == PipeInit => PipeInv
<1> SUFFICES ASSUME PipeInit PROVE PipeInv
  OBVIOUS
<1>1. ToSet(<<>>) = {} /\ Distinct(<<>>) /\ Len(<<>>) = 0 /\ 1..0 = {}
  BY DEF ToSet, Distinct
<1>2. \A s \in Senders : DOMAIN Plan[s] = 1..Len(Plan[s]) /\ 1 <= Len(Plan[s])
  <2> TAKE s \in Senders
  <2>1. Plan[s] \in Seq(Events) /\ Plan[s] # <<>>
    BY PipeAssumption DEF PipeAssumption
  <2> QED
    BY <2>1
<1>3. PipeTypes
  BY <1>2 DEF PipeInit, PipeTypes
<1>4. Once /\ NotYet
  BY <1>1 DEF PipeInit, Once, NotYet, Places
<1>5. RepliesTrue /\ OutcomesTrue /\ Listens
  BY <1>1 DEF PipeInit, RepliesTrue, OutcomesTrue, Listens
<1>6. EarlierAccepted
  BY <1>2 DEF PipeInit, EarlierAccepted
<1> QED
  BY <1>3, <1>4, <1>5, <1>6 DEF PipeInv

LEMMA PipeStep == PipeInv /\ [PipeNext]_pipeVars => PipeInv'
<1> SUFFICES ASSUME PipeInv, [PipeNext]_pipeVars PROVE PipeInv'
  OBVIOUS
<1>1. ASSUME NEW s \in Senders, Open(s) \/ Publish(s) \/ Receive(s) \/ Timeout(s)
      PROVE  PipeInv'
  BY <1>1, OpenKeeps, PublishKeeps, ReceiveKeeps, TimeoutKeeps
<1>2. CASE Enter \/ Connect \/ Refuse \/ Drop \/ Exit
  BY <1>2, EnterKeeps, LinkKeeps, DropKeeps, ExitKeeps
<1>3. ASSUME NEW t \in DOMAIN readers, Forward(t) \/ Reply(t)
      PROVE  PipeInv'
  BY <1>3, ForwardKeeps, ReplyKeeps
<1>4. ASSUME NEW t \in DOMAIN readers, Broken(t) \/ ReaderClash(t)
      PROVE  PipeInv'
  BY <1>4, StrikeKeeps DEF Broken, ReaderClash
<1>5. CASE Mss
  BY <1>5, MssKeeps
<1>6. CASE UNCHANGED pipeVars
  <2>1. UNCHANGED <<pipe, at, inbox, outcome, link, heard, outbox, readers, struck, drops,
                    toMss, fromMss, accepted, rejected>>
    BY <1>6 DEF pipeVars, senders, client, socket
  <2> QED
    BY <2>1 DEF PipeInv, PipeTypes, Once, NotYet, ToCome, Places, RepliesTrue, Answered,
                OutcomesTrue, EarlierAccepted, Listens, Listening
<1> QED
  BY <1>1, <1>2, <1>3, <1>4, <1>5, <1>6 DEF PipeNext

\* Nothing on the way is sent again: MSS processes an event once at most.
LEMMA OnceCounted == PipeInv => ProcessedAtMostOnce
<1> SUFFICES ASSUME PipeInv, NEW e \in Events
             PROVE  Count(outbox, e) + Count(toMss, e) + Count(accepted, e)
                      + Count(rejected, e) <= 1
  BY DEF ProcessedAtMostOnce
<1>1. /\ Count(outbox, e) = (IF e \in ToSet(outbox) THEN 1 ELSE 0)
      /\ Count(toMss, e) = (IF e \in ToSet(toMss) THEN 1 ELSE 0)
      /\ Count(accepted, e) = (IF e \in ToSet(accepted) THEN 1 ELSE 0)
      /\ Count(rejected, e) = (IF e \in ToSet(rejected) THEN 1 ELSE 0)
  BY CountFacts DEF PipeInv, PipeTypes, Once
<1> QED
  BY <1>1 DEF PipeInv, Once

LEMMA OwnOutcomes == PipeInv => OutcomeIsOwn
<1> SUFFICES ASSUME PipeInv, NEW e \in Events
             PROVE  /\ outcome[e] = "success" => Count(accepted, e) = 1
                    /\ outcome[e] = "error" => Count(rejected, e) = 1
  BY DEF OutcomeIsOwn
<1>1. /\ Count(accepted, e) = (IF e \in ToSet(accepted) THEN 1 ELSE 0)
      /\ Count(rejected, e) = (IF e \in ToSet(rejected) THEN 1 ELSE 0)
  BY CountFacts DEF PipeInv, PipeTypes, Once
<1> QED
  BY <1>1 DEF PipeInv, OutcomesTrue

LEMMA InOrderOfPlan == PipeInv => AcceptedInOrder
<1> SUFFICES ASSUME PipeInv, NEW s \in Senders, NEW i \in DOMAIN Plan[s], NEW j \in DOMAIN Plan[s],
                    i < j, Count(accepted, Plan[s][j]) + Count(rejected, Plan[s][j]) > 0
             PROVE  Count(accepted, Plan[s][i]) = 1
  BY DEF AcceptedInOrder
<1>1. /\ Plan[s] \in Seq(Events) /\ DOMAIN Plan[s] = 1..Len(Plan[s]) /\ at[s] \in Nat
      /\ i \in Nat /\ j \in Nat
  BY PlanFact DEF PipeInv
<1>2. Plan[s][i] \in Events /\ Plan[s][j] \in Events
  BY <1>1, SeqElement
<1>3. \A e \in Events : /\ Count(accepted, e) = (IF e \in ToSet(accepted) THEN 1 ELSE 0)
                        /\ Count(rejected, e) = (IF e \in ToSet(rejected) THEN 1 ELSE 0)
  BY CountFacts DEF PipeInv, PipeTypes, Once
<1>4. Plan[s][j] \in Places
  BY <1>2, <1>3 DEF Places
<1>5. ~ j > at[s]
  BY <1>4 DEF PipeInv, NotYet, ToCome
<1>6. i < at[s]
  BY <1>1, <1>5
<1>7. Plan[s][i] \in ToSet(accepted)
  BY <1>6 DEF PipeInv, EarlierAccepted
<1> QED
  BY <1>2, <1>3, <1>7

\* Nothing that is sent over a pipe is processed twice (AsyncMssClient._outbox_handler).
THEOREM ProcessedCorrect == PipeSpec => []ProcessedAtMostOnce
BY InitialPipe, PipeStep, OnceCounted, PTL DEF PipeSpec

\* send_event returns or raises ValueError only as MSS decided on this event.
THEOREM OutcomesCorrect == PipeSpec => []OutcomeIsOwn
BY InitialPipe, PipeStep, OwnOutcomes, PTL DEF PipeSpec

\* MSS sees a later event of a pipe only if it has accepted all earlier ones.
THEOREM OrderCorrect == PipeSpec => []AcceptedInOrder
BY InitialPipe, PipeStep, InOrderOfPlan, PTL DEF PipeSpec

\* A connected client that does not listen has lost a reader by an exception.
THEOREM ListensCorrect == PipeSpec => []ConnectedListens
<1>1. PipeInv => ConnectedListens
  BY DEF PipeInv, Listens, ConnectedListens
<1> QED
  BY <1>1, InitialPipe, PipeStep, PTL DEF PipeSpec

=============================================================================
