------------------------- MODULE RunnerQueueProofs -------------------------
(***************************************************************************)
(* Proofs about RunnerQueue for any set of jobs, durations and bounds.     *)
(***************************************************************************)
EXTENDS RunnerQueue, DataLemmas

\* The storage ids of the jobs have their parts, and tell the jobs apart.
LEMMA SidFacts ==
  /\ \A j \in Jobs : /\ Sid(j) \in Ids
                     /\ Sid(j).uuid = j
                     /\ Sid(j).duration \in Nat
  /\ \A id \in Ids : /\ id.uuid \in Jobs
                     /\ id = Sid(id.uuid)
                     /\ id.duration \in Nat
BY DurationAssumption DEF Sid, Ids, StorageID

\* A queue is the record of its three parts.
LEMMA QueueParts ==
  /\ \A v \in QueueType(Ids) : /\ v.list \in Seq(Ids)
                               /\ v.store \in SUBSET Ids
                               /\ v.total \in Int
  /\ \A l \in Seq(Ids), s \in SUBSET Ids, t \in Int :
       [list |-> l, store |-> s, total |-> t] \in QueueType(Ids)
BY DEF QueueType

\* The worker holds a storage id after its LPOP.
LEMMA HandIsId ==
  ASSUME TypeOK, pc \in {"taking", "running"}
  PROVE  Len(hand) = 1 /\ hand[1] \in Ids /\ hand[1].duration \in Nat
<1>1. Len(hand) = 1 /\ hand \in Seq(Ids)
  BY DEF TypeOK
<1>2. hand[1] \in Ids
  BY <1>1, ElementOfSeq
<1> QED
  BY <1>1, <1>2, SidFacts

\* Initially every variable has its type.
LEMMA InitType == Init => TypeOK
<1> SUFFICES ASSUME Init PROVE TypeOK
  OBVIOUS
<1>1. /\ <<>> \in Seq(Ids) /\ <<>> \in Seq(Tickets)
      /\ Len(<<>>) = 0
  BY EmptySeq
<1>2. EmptyQueue \in QueueType(Ids)
  BY <1>1 DEF EmptyQueue, QueueType
<1> QED
  BY <1>1, <1>2 DEF Init, TypeOK

\* Every step of the queue, of its worker, of a cancel and every crash keeps the
\* type of every variable.
LEMMA NextType == TypeOK /\ [Next]_vars => TypeOK'
<1> SUFFICES ASSUME TypeOK, [Next]_vars PROVE TypeOK'
  OBVIOUS
<1> USE DEF TypeOK
<1>0. q.list \in Seq(Ids) /\ q.store \in SUBSET Ids /\ q.total \in Int
  BY QueueParts
<1>e. <<>> \in Seq(Ids) /\ Len(<<>>) = 0
  BY EmptySeq
<1>1. ASSUME NEW j \in Jobs, EnqueueAdd(j) PROVE TypeOK'
  <2>1. q' \in QueueType(Ids)
    <3>1. Append(q.list, Sid(j)) \in Seq(Ids)
      BY <1>0, SidFacts, AppendProperties
    <3>2. q.total + Sid(j).duration \in Int
      BY <1>0, SidFacts
    <3> QED
      BY <1>0, <1>1, <3>1, <3>2, SidFacts, QueueParts DEF EnqueueAdd, Add
  <2> QED
    BY <1>1, <2>1 DEF EnqueueAdd
<1>2. ASSUME NEW j \in Jobs, EnqueueTicket(j) PROVE TypeOK'
  <2>1. StageTicket(j) \in Tickets
    BY DEF StageTicket, Tickets
  <2>2. tickets' \in Seq(Tickets)
    BY <1>2, <2>1, AppendProperties DEF EnqueueTicket
  <2> QED
    BY <1>2, <2>2 DEF EnqueueTicket
<1>3. ASSUME NEW j \in Jobs, CancelPop(j) PROVE TypeOK'
  <2>1. PICK d \in {Duration[j], 0} :
          /\ q' = PopJob(q, StorageID(j, d))
          /\ withdrawn' = IF HasPayload(q, StorageID(j, d))
                          THEN withdrawn \cup {StorageID(j, d)} ELSE withdrawn
    BY <1>3 DEF CancelPop
  <2>2. RemoveFirst(q.list, StorageID(j, d)) \in Seq(Ids)
    BY <1>0, RemoveFirstSpec
  <2>3. StorageID(j, d).duration \in Int
    BY DurationAssumption DEF StorageID
  <2>4. q' \in QueueType(Ids)
    <3>1. q.total - StorageID(j, d).duration \in Int
      BY <1>0, <2>3
    <3> QED
      BY <1>0, <2>1, <2>2, <3>1, QueueParts DEF PopJob
  <2>5. withdrawn' \in SUBSET Ids
    BY <1>0, <2>1 DEF HasPayload
  <2> QED
    BY <1>3, <2>4, <2>5 DEF CancelPop
<1>4. ASSUME NEW j \in Jobs, CancelTicket(j) PROVE TypeOK'
  <2>1. RemoveFirst(tickets, QueueTicket(j)) \in Seq(Tickets)
    BY RemoveFirstSpec
  <2> QED
    BY <1>4, <2>1 DEF CancelTicket
<1>5. ASSUME NEW j \in Jobs, ProducerCrash(j) PROVE TypeOK'
  BY <1>5 DEF ProducerCrash
<1>6. CASE TakeTicket
  <2>1. tickets' \in Seq(Tickets)
    BY <1>6, HeadTailProperties DEF TakeTicket
  <2> QED
    BY <1>6, <2>1 DEF TakeTicket
<1>7. CASE NextLPop
  <2>1. CASE q.list = <<>>
    BY <1>7, <2>1 DEF NextLPop
  <2>2. CASE q.list # <<>>
    <3>1. /\ Head(q.list) \in Ids
          /\ Tail(q.list) \in Seq(Ids)
      BY <1>0, <2>2, HeadTailProperties
    <3>2. hand' \in Seq(Ids) /\ Len(hand') = 1
      BY <1>7, <2>2, <3>1, SingletonSeq DEF NextLPop
    <3>3. q' \in QueueType(Ids)
      BY <1>0, <1>7, <2>2, <3>1 DEF NextLPop, LPop, QueueType
    <3> QED
      BY <1>7, <2>2, <3>2, <3>3 DEF NextLPop
  <2> QED
    BY <2>1, <2>2
<1>8. CASE NextTake
  <2>1. Len(hand) = 1 /\ hand[1] \in Ids /\ hand[1].duration \in Nat
    BY <1>8, HandIsId DEF NextTake
  <2>2. q' \in QueueType(Ids)
    <3>1. q' = [list |-> q.list, store |-> q.store \ {hand[1]},
                total |-> q.total - hand[1].duration]
      BY <1>0, <1>8 DEF NextTake, Take, QueueType
    <3>2. q.total - hand[1].duration \in Int
      BY <1>0, <2>1
    <3> QED
      BY <1>0, <3>1, <3>2, QueueParts
  <2>3. Append(started, hand[1]) \in Seq(Ids)
    BY <2>1, AppendProperties
  <2>4. CASE HasPayload(q, hand[1])
    <3>1. /\ started' \in Seq(Ids) /\ pc' = "running" /\ hand' = hand
          /\ Len(hand') = 1
      BY <1>8, <2>1, <2>3, <2>4 DEF NextTake
    <3> QED
      BY <1>8, <2>2, <3>1 DEF NextTake
  <2>5. CASE ~ HasPayload(q, hand[1])
    <3>1. /\ started' \in Seq(Ids) /\ pc' = "idle" /\ hand' = <<>>
          /\ Len(hand') = 0
      BY <1>8, <1>e, <2>5 DEF NextTake
    <3> QED
      BY <1>8, <1>e, <2>2, <3>1 DEF NextTake
  <2> QED
    BY <2>4, <2>5
<1>9. CASE Finish
  BY <1>9, <1>e DEF Finish
<1>10. CASE WorkerCrash
  BY <1>10, <1>e DEF WorkerCrash
<1>11. CASE UNCHANGED vars
  BY <1>11 DEF vars
<1> QED
  BY <1>1, <1>2, <1>3, <1>4, <1>5, <1>6, <1>7, <1>8, <1>9, <1>10, <1>11
     DEF Next, WorkerStep

\* Every variable of the runner queue always has its type; in particular the
\* worker holds a storage id exactly between its LPOP and the end of its job.
THEOREM TypeCorrect == Spec => []TypeOK
BY InitType, NextType, PTL DEF Spec

-----------------------------------------------------------------------------
\* The inductive invariant of OneOutcome.
OutcomeInv == TypeOK /\ EntriesAreLive /\ OneOutcome

\* Initially nothing is queued, started or withdrawn.
LEMMA InitOutcome == Init => OutcomeInv
<1>1. Len(<<>>) = 0 /\ EmptyQueue.list = <<>> /\ EmptyQueue.store = {}
  BY EmptySeq DEF EmptyQueue
<1> QED
  BY <1>1, InitType DEF Init, OutcomeInv, EntriesAreLive, OneOutcome

\* enqueue adds an id that was never on the queue before, with its payload.
LEMMA EnqueueAddOutcome ==
  ASSUME OutcomeInv, NEW j \in Jobs, EnqueueAdd(j)
  PROVE  EntriesAreLive' /\ OneOutcome'
<1> USE DEF OutcomeInv
<1>0. q.list \in Seq(Ids) /\ Len(q.list) \in Nat /\ q.store \subseteq Ids
  BY QueueParts, LenProperties DEF TypeOK
<1>1. /\ q'.list = Append(q.list, Sid(j))
      /\ q'.store = q.store \cup {Sid(j)}
  BY DEF EnqueueAdd, Add
<1>2. /\ Len(q'.list) = Len(q.list) + 1
      /\ \A n \in 1..Len(q.list) : q'.list[n] = q.list[n]
      /\ q'.list[Len(q.list) + 1] = Sid(j)
  BY <1>0, <1>1, SidFacts, AppendProperties
<1>3. /\ Sid(j).uuid = j /\ j \notin submitted
      /\ submitted' = submitted \cup {j}
      /\ UNCHANGED <<tickets, pc, hand, started, withdrawn>>
  BY SidFacts DEF EnqueueAdd
<1>4. /\ Sid(j) \notin q.store
      /\ Sid(j) \notin withdrawn
      /\ \A n \in 1..Len(started) : started[n] # Sid(j)
      /\ \A n \in 1..Len(q.list) : q.list[n] # Sid(j)
      /\ pc = "taking" => hand[1] # Sid(j)
  BY <1>3 DEF EntriesAreLive
<1>5. \A m, n \in 1..Len(q'.list) : q'.list[m] = q'.list[n] => m = n
  BY <1>0, <1>2, <1>4 DEF EntriesAreLive
<1>6. \A n \in 1..Len(q'.list) : q'.list[n] \in q'.store
  BY <1>0, <1>1, <1>2 DEF EntriesAreLive
<1>7. pc' = "taking" => /\ hand'[1].uuid \in submitted'
                        /\ \A n \in 1..Len(q'.list) : q'.list[n] # hand'[1]
  BY <1>0, <1>2, <1>3, <1>4 DEF EntriesAreLive
<1>8. \A id \in q'.store : /\ id.uuid \in submitted'
                           /\ id \notin withdrawn'
                           /\ \A n \in 1..Len(started') : started'[n] # id
  BY <1>1, <1>3, <1>4 DEF EntriesAreLive
<1>9. /\ \A id \in withdrawn' : id.uuid \in submitted'
      /\ \A n \in 1..Len(started') : started'[n].uuid \in submitted'
      /\ \A n \in 1..Len(tickets') : tickets'[n].by = "stage"
  BY <1>3 DEF EntriesAreLive
<1>10. EntriesAreLive'
  BY <1>5, <1>6, <1>7, <1>8, <1>9 DEF EntriesAreLive
<1> QED
  BY <1>3, <1>10 DEF OneOutcome

\* A cancel that finds the job takes its id from the list and its payload from
\* the store in one step, so that nothing can start it afterwards.
LEMMA CancelPopOutcome ==
  ASSUME OutcomeInv, NEW j \in Jobs, CancelPop(j)
  PROVE  EntriesAreLive' /\ OneOutcome'
<1> USE DEF OutcomeInv
<1>0. q.list \in Seq(Ids) /\ Len(q.list) \in Nat
  BY QueueParts, LenProperties DEF TypeOK
<1>1. PICK d \in {Duration[j], 0} :
        /\ q' = PopJob(q, StorageID(j, d))
        /\ withdrawn' = IF HasPayload(q, StorageID(j, d))
                        THEN withdrawn \cup {StorageID(j, d)} ELSE withdrawn
  BY DEF CancelPop
<1> DEFINE x == StorageID(j, d)
<1>2. /\ q'.list = RemoveFirst(q.list, x)
      /\ q'.store = q.store \ {x}
      /\ withdrawn' = IF x \in q.store THEN withdrawn \cup {x} ELSE withdrawn
  BY <1>1 DEF PopJob, HasPayload
<1> HIDE DEF x
<1>3. UNCHANGED <<tickets, pc, hand, started, submitted>>
  BY DEF CancelPop
<1>4. /\ \A m, n \in 1..Len(q'.list) : q'.list[m] = q'.list[n] => m = n
      /\ \A n \in 1..Len(q'.list) :
           q'.list[n] # x /\ \E m \in 1..Len(q.list) : q.list[m] = q'.list[n]
  <2>1. \A m, n \in 1..Len(q.list) : q.list[m] = q.list[n] => m = n
    BY DEF EntriesAreLive
  <2>2. LET r == RemoveFirst(q.list, x) IN
        /\ \A m, n \in 1..Len(r) : r[m] = r[n] => m = n
        /\ \A n \in 1..Len(r) : r[n] # x /\ \E m \in 1..Len(q.list) : q.list[m] = r[n]
    BY <1>0, <2>1, RemoveFirstDistinct
  <2> QED
    BY <1>2, <2>2
<1>5. \A n \in 1..Len(q'.list) : q'.list[n] \in q'.store
  BY <1>2, <1>4 DEF EntriesAreLive
<1>6. pc' = "taking" => /\ hand'[1].uuid \in submitted'
                        /\ \A n \in 1..Len(q'.list) : q'.list[n] # hand'[1]
  BY <1>3, <1>4 DEF EntriesAreLive
<1>7. \A id \in q'.store : /\ id.uuid \in submitted'
                           /\ id \notin withdrawn'
                           /\ \A n \in 1..Len(started') : started'[n] # id
  BY <1>2, <1>3 DEF EntriesAreLive
<1>8. /\ \A id \in withdrawn' : id.uuid \in submitted'
      /\ \A n \in 1..Len(started') : started'[n].uuid \in submitted'
      /\ \A n \in 1..Len(tickets') : tickets'[n].by = "stage"
  BY <1>2, <1>3 DEF EntriesAreLive
<1>9. EntriesAreLive'
  BY <1>4, <1>5, <1>6, <1>7, <1>8 DEF EntriesAreLive
<1>10. \A n \in 1..Len(started) : started[n] \notin withdrawn'
  BY <1>2 DEF EntriesAreLive, OneOutcome
<1> QED
  BY <1>3, <1>9, <1>10 DEF OneOutcome

\* LPOP takes the id in front off the list and leaves its payload.
LEMMA NextLPopOutcome ==
  ASSUME OutcomeInv, NextLPop
  PROVE  EntriesAreLive' /\ OneOutcome'
<1> USE DEF OutcomeInv
<1>0. q.list \in Seq(Ids) /\ Len(q.list) \in Nat
  BY QueueParts, LenProperties DEF TypeOK
<1>1. UNCHANGED <<tickets, submitted, started, withdrawn>>
  BY DEF NextLPop
<1>2. CASE q.list = <<>>
  <2>1. q' = q /\ pc' = "idle"
    BY <1>2 DEF NextLPop
  <2> QED
    BY <1>1, <2>1 DEF EntriesAreLive, OneOutcome
<1>3. CASE q.list # <<>>
  <2>1. /\ hand' = <<Head(q.list)>>
        /\ q' = LPop(q)
    BY <1>3 DEF NextLPop
  <2>2. /\ q'.list = Tail(q.list)
        /\ q'.store = q.store
    BY <2>1 DEF LPop, TypeOK, QueueType
  <2>3. /\ Len(q'.list) = Len(q.list) - 1
        /\ \A n \in 1..Len(q'.list) : q'.list[n] = q.list[n + 1]
        /\ Len(q.list) > 0
        /\ Head(q.list) = q.list[1]
    BY <1>0, <1>3, <2>2, HeadTailProperties, EmptySeq
  <2>4. hand'[1] = q.list[1]
    BY <2>1, <2>3
  <2>5. hand'[1] \in q.store /\ hand'[1].uuid \in submitted
    BY <1>0, <2>3, <2>4 DEF EntriesAreLive
  <2>6. \A m, n \in 1..Len(q'.list) : q'.list[m] = q'.list[n] => m = n
    BY <1>0, <2>3 DEF EntriesAreLive
  <2>7. \A n \in 1..Len(q'.list) : q'.list[n] \in q'.store /\ q'.list[n] # hand'[1]
    BY <1>0, <2>2, <2>3, <2>4 DEF EntriesAreLive
  <2>8. EntriesAreLive'
    BY <1>1, <2>2, <2>5, <2>6, <2>7 DEF EntriesAreLive
  <2> QED
    BY <1>1, <2>8 DEF OneOutcome
<1> QED
  BY <1>2, <1>3

\* The pipeline of next starts the job only if it deletes its payload.
LEMMA NextTakeOutcome ==
  ASSUME OutcomeInv, NextTake
  PROVE  EntriesAreLive' /\ OneOutcome'
<1> USE DEF OutcomeInv
<1> DEFINE x == hand[1]
<1>0. started \in Seq(Ids) /\ Len(started) \in Nat /\ x \in Ids
  BY HandIsId, LenProperties DEF TypeOK, NextTake
<1>1. /\ UNCHANGED <<tickets, submitted, withdrawn>>
      /\ pc = "taking" /\ pc' # "taking"
      /\ q' = Take(q, x)
  BY DEF NextTake
<1>2. q'.list = q.list /\ q'.store = q.store \ {x}
  BY <1>1 DEF Take, TypeOK, QueueType
<1>3. \A n \in 1..Len(q.list) : q.list[n] \in q'.store
  BY <1>1, <1>2 DEF EntriesAreLive
<1>4. CASE HasPayload(q, x)
  <2>1. started' = Append(started, x)
    BY <1>4 DEF NextTake
  <2>2. /\ Len(started') = Len(started) + 1
        /\ \A n \in 1..Len(started) : started'[n] = started[n]
        /\ started'[Len(started) + 1] = x
    BY <1>0, <2>1, AppendProperties
  <2>3. /\ x.uuid \in submitted /\ x \notin withdrawn
        /\ \A n \in 1..Len(started) : started[n] # x
    BY <1>4 DEF EntriesAreLive, HasPayload
  <2> HIDE DEF x
  <2>4. \A id \in q'.store : \A n \in 1..Len(started') : started'[n] # id
    BY <1>0, <1>2, <2>2 DEF EntriesAreLive
  <2>5. \A n \in 1..Len(started') :
          started'[n].uuid \in submitted' /\ started'[n] \notin withdrawn'
    BY <1>0, <1>1, <2>2, <2>3 DEF EntriesAreLive, OneOutcome
  <2>6. \A m, n \in 1..Len(started') : started'[m] = started'[n] => m = n
    BY <1>0, <2>2, <2>3 DEF OneOutcome
  <2>7. EntriesAreLive'
    BY <1>1, <1>2, <1>3, <2>4, <2>5 DEF EntriesAreLive
  <2> QED
    BY <2>5, <2>6, <2>7 DEF OneOutcome
<1>5. CASE ~ HasPayload(q, x)
  <2>1. started' = started
    BY <1>5 DEF NextTake
  <2> QED
    BY <1>1, <1>2, <1>3, <2>1 DEF EntriesAreLive, OneOutcome
<1> QED
  BY <1>4, <1>5

\* The tickets play no part in which job starts, but they keep their names.
LEMMA TicketsOutcome ==
  ASSUME OutcomeInv, UNCHANGED <<q, submitted, started, withdrawn>>,
         pc' = "taking" => pc = "taking" /\ hand' = hand,
         \A n \in 1..Len(tickets') : tickets'[n].by = "stage"
  PROVE  EntriesAreLive' /\ OneOutcome'
BY DEF OutcomeInv, EntriesAreLive, OneOutcome

\* No step of any process breaks the invariant.
LEMMA NextOutcome == OutcomeInv /\ [Next]_vars => OutcomeInv'
<1> SUFFICES ASSUME OutcomeInv, [Next]_vars PROVE EntriesAreLive' /\ OneOutcome'
  BY NextType DEF OutcomeInv
<1>0. /\ tickets \in Seq(Tickets) /\ Len(tickets) \in Nat
      /\ \A n \in 1..Len(tickets) : tickets[n].by = "stage"
  BY LenProperties DEF OutcomeInv, TypeOK, EntriesAreLive
<1>1. ASSUME NEW j \in Jobs, EnqueueAdd(j) PROVE EntriesAreLive' /\ OneOutcome'
  BY <1>1, EnqueueAddOutcome
<1>2. ASSUME NEW j \in Jobs, EnqueueTicket(j) PROVE EntriesAreLive' /\ OneOutcome'
  <2>1. tickets' = Append(tickets, StageTicket(j)) /\ StageTicket(j) \in Tickets
    BY <1>2 DEF EnqueueTicket, StageTicket, Tickets
  <2>2. \A n \in 1..Len(tickets') : tickets'[n].by = "stage"
    BY <1>0, <2>1, AppendProperties DEF StageTicket
  <2> QED
    BY <1>2, <2>2, TicketsOutcome DEF EnqueueTicket
<1>3. ASSUME NEW j \in Jobs, CancelPop(j) PROVE EntriesAreLive' /\ OneOutcome'
  BY <1>3, CancelPopOutcome
<1>4. ASSUME NEW j \in Jobs, CancelTicket(j) PROVE EntriesAreLive' /\ OneOutcome'
  <2>1. \A n \in 1..Len(tickets) : tickets[n] # QueueTicket(j)
    BY <1>0 DEF QueueTicket
  <2>2. tickets' = tickets
    BY <1>0, <1>4, <2>1, RemoveFirstSpec DEF CancelTicket
  <2> QED
    BY <1>0, <1>4, <2>2, TicketsOutcome DEF CancelTicket
<1>5. ASSUME NEW j \in Jobs, ProducerCrash(j) PROVE EntriesAreLive' /\ OneOutcome'
  BY <1>0, <1>5, TicketsOutcome DEF ProducerCrash
<1>6. CASE TakeTicket
  <2>1. \A n \in 1..Len(tickets') : tickets'[n].by = "stage"
    BY <1>0, <1>6, HeadTailProperties DEF TakeTicket
  <2> QED
    BY <1>6, <2>1, TicketsOutcome DEF TakeTicket
<1>7. CASE NextLPop
  BY <1>7, NextLPopOutcome
<1>8. CASE NextTake
  BY <1>8, NextTakeOutcome
<1>9. CASE Finish
  BY <1>0, <1>9, TicketsOutcome DEF Finish
<1>10. CASE WorkerCrash
  BY <1>0, <1>10, TicketsOutcome DEF WorkerCrash
<1>11. CASE UNCHANGED vars
  BY <1>0, <1>11, TicketsOutcome DEF vars
<1> QED
  BY <1>1, <1>2, <1>3, <1>4, <1>5, <1>6, <1>7, <1>8, <1>9, <1>10, <1>11
     DEF Next, WorkerStep

\* A job is handed to the executor at most once, and never after cancel_job
\* found it on the queue, for any number of jobs, cancels and crashes.
THEOREM OutcomeCorrect == Spec => []OneOutcome
<1>1. OutcomeInv => OneOutcome
  BY DEF OutcomeInv
<1> QED
  BY <1>1, InitOutcome, NextOutcome, PTL DEF Spec

\* Its reason: what is on the queue is live, at every moment.
THEOREM LiveCorrect == Spec => []EntriesAreLive
<1>1. OutcomeInv => EntriesAreLive
  BY DEF OutcomeInv
<1> QED
  BY <1>1, InitOutcome, NextOutcome, PTL DEF Spec

-----------------------------------------------------------------------------
\* The inductive invariant of EveryEntryHasATicket.
TicketInv == OutcomeInv /\ IsFiniteSet(adding) /\ EveryEntryHasATicket

\* The numbers that EveryEntryHasATicket adds up.
LEMMA TicketNumbers ==
  ASSUME TicketInv
  PROVE  /\ q.list \in Seq(Ids) /\ Len(q.list) \in Nat
         /\ tickets \in Seq(Tickets) /\ Len(tickets) \in Nat
         /\ Cardinality(adding) \in Nat
         /\ crashes \in Nat
BY QueueParts, LenProperties, FS_CardinalityType DEF TicketInv, OutcomeInv, TypeOK

\* Initially there is neither an entry nor a ticket.
LEMMA InitTicket == Init => TicketInv
<1> SUFFICES ASSUME Init PROVE TicketInv
  OBVIOUS
<1>1. Len(<<>>) = 0 /\ EmptyQueue.list = <<>>
  BY EmptySeq DEF EmptyQueue
<1>2. IsFiniteSet({}) /\ Cardinality({}) = 0
  BY FS_EmptySet
<1>3. Len(q.list) = 0 /\ Len(tickets) = 0 /\ adding = {} /\ crashes = 0 /\ pc = "idle"
  BY <1>1 DEF Init
<1>4. EveryEntryHasATicket
  BY <1>2, <1>3 DEF EveryEntryHasATicket
<1> QED
  BY <1>2, <1>3, <1>4, InitOutcome DEF TicketInv

\* A step takes no more tickets away than it takes entries off the list, or
\* counts the crash that did.
LEMMA NextTicket == TicketInv /\ [Next]_vars => TicketInv'
<1> SUFFICES ASSUME TicketInv, [Next]_vars
             PROVE  IsFiniteSet(adding)' /\ EveryEntryHasATicket'
  BY NextOutcome DEF TicketInv
<1> DEFINE Goal == IsFiniteSet(adding)' /\ EveryEntryHasATicket'
           p == IF pc = "popping" THEN 1 ELSE 0
<1>0. /\ IsFiniteSet(adding)
      /\ Len(q.list) <= Len(tickets) + Cardinality(adding) + crashes + p
      /\ p \in Nat
  BY DEF TicketInv, EveryEntryHasATicket
<1>n. /\ q.list \in Seq(Ids) /\ Len(q.list) \in Nat
      /\ tickets \in Seq(Tickets) /\ Len(tickets) \in Nat
      /\ Cardinality(adding) \in Nat
      /\ crashes \in Nat
  BY TicketNumbers
<1>t. \A n \in 1..Len(tickets) : tickets[n].by = "stage"
  BY DEF TicketInv, OutcomeInv, EntriesAreLive
<1>1. ASSUME NEW j \in Jobs, EnqueueAdd(j) PROVE Goal
  <2>1. /\ adding' = adding \cup {j} /\ j \notin adding
        /\ UNCHANGED <<tickets, crashes, pc>>
    BY <1>1 DEF EnqueueAdd, TicketInv, OutcomeInv, TypeOK
  <2>2. IsFiniteSet(adding') /\ Cardinality(adding') = Cardinality(adding) + 1
    BY <1>0, <2>1, FS_AddElement
  <2>3. Len(q'.list) = Len(q.list) + 1
    <3>1. q'.list = Append(q.list, Sid(j))
      BY <1>1 DEF EnqueueAdd, Add
    <3> QED
      BY <3>1, <1>n, SidFacts, AppendProperties
  <2> QED
    BY <1>0, <1>n, <2>1, <2>2, <2>3 DEF EveryEntryHasATicket
<1>2. ASSUME NEW j \in Jobs, EnqueueTicket(j) PROVE Goal
  <2>1. /\ j \in adding /\ adding' = adding \ {j}
        /\ tickets' = Append(tickets, StageTicket(j)) /\ StageTicket(j) \in Tickets
        /\ UNCHANGED <<q, crashes, pc>>
    BY <1>2 DEF EnqueueTicket, StageTicket, Tickets
  <2>2. IsFiniteSet(adding') /\ Cardinality(adding') = Cardinality(adding) - 1
    BY <1>0, <2>1, FS_RemoveElement
  <2>3. Len(tickets') = Len(tickets) + 1
    BY <1>n, <2>1, AppendProperties
  <2> QED
    BY <1>0, <1>n, <2>1, <2>2, <2>3 DEF EveryEntryHasATicket
<1>3. ASSUME NEW j \in Jobs, CancelPop(j) PROVE Goal
  <2>1. PICK d \in {Duration[j], 0} : q' = PopJob(q, StorageID(j, d))
    BY <1>3 DEF CancelPop
  <2>2. q'.list = RemoveFirst(q.list, StorageID(j, d))
    BY <2>1 DEF PopJob
  <2>3. Len(q'.list) <= Len(q.list) /\ Len(q'.list) \in Nat
    <3>1. \A m, n \in 1..Len(q.list) : q.list[m] = q.list[n] => m = n
      BY DEF TicketInv, OutcomeInv, EntriesAreLive
    <3> QED
      BY <1>n, <2>2, <3>1, RemoveFirstDistinct, LenProperties
  <2>4. UNCHANGED <<tickets, adding, crashes, pc>>
    BY <1>3 DEF CancelPop
  <2> QED
    BY <1>0, <1>n, <2>3, <2>4 DEF EveryEntryHasATicket
<1>4. ASSUME NEW j \in Jobs, CancelTicket(j) PROVE Goal
  <2>1. \A n \in 1..Len(tickets) : tickets[n] # QueueTicket(j)
    BY <1>t DEF QueueTicket
  <2>2. tickets' = tickets
    BY <1>n, <1>4, <2>1, RemoveFirstSpec DEF CancelTicket
  <2> QED
    BY <1>0, <1>4, <2>2 DEF CancelTicket, EveryEntryHasATicket
<1>5. ASSUME NEW j \in Jobs, ProducerCrash(j) PROVE Goal
  <2>1. /\ j \in adding /\ adding' = adding \ {j}
        /\ crashes' = crashes + 1
        /\ UNCHANGED <<q, tickets, pc>>
    BY <1>5 DEF ProducerCrash
  <2>2. IsFiniteSet(adding') /\ Cardinality(adding') = Cardinality(adding) - 1
    BY <1>0, <2>1, FS_RemoveElement
  <2> QED
    BY <1>0, <1>n, <2>1, <2>2 DEF EveryEntryHasATicket
<1>6. CASE TakeTicket
  <2>1. /\ tickets # <<>> /\ tickets' = Tail(tickets)
        /\ pc = "idle" /\ pc' = "popping"
        /\ UNCHANGED <<q, adding, crashes>>
    BY <1>6 DEF TakeTicket
  <2>2. Len(tickets') = Len(tickets) - 1
    BY <1>n, <2>1, HeadTailProperties
  <2> QED
    BY <1>0, <1>n, <2>1, <2>2 DEF EveryEntryHasATicket
<1>7. CASE NextLPop
  <2>1. pc = "popping" /\ pc' # "popping" /\ UNCHANGED <<tickets, adding, crashes>>
    BY <1>7 DEF NextLPop
  <2>2. CASE q.list = <<>>
    <3>1. Len(q'.list) = 0
      BY <1>7, <2>2, EmptySeq DEF NextLPop
    <3> QED
      BY <1>0, <1>n, <2>1, <3>1 DEF EveryEntryHasATicket
  <2>3. CASE q.list # <<>>
    <3>1. q'.list = Tail(q.list)
      BY <1>7, <2>3 DEF NextLPop, LPop, TicketInv, OutcomeInv, TypeOK, QueueType
    <3>2. Len(q'.list) = Len(q.list) - 1
      BY <1>n, <2>3, <3>1, HeadTailProperties
    <3> QED
      BY <1>0, <1>n, <2>1, <3>2 DEF EveryEntryHasATicket
  <2> QED
    BY <2>2, <2>3
<1>8. CASE NextTake
  <2>1. pc = "taking" /\ pc' # "popping" /\ UNCHANGED <<tickets, adding, crashes>>
    BY <1>8 DEF NextTake
  <2>2. q'.list = q.list
    BY <1>8 DEF NextTake, Take, TicketInv, OutcomeInv, TypeOK, QueueType
  <2> QED
    BY <1>0, <1>n, <2>1, <2>2 DEF EveryEntryHasATicket
<1>9. CASE Finish
  BY <1>0, <1>n, <1>9 DEF Finish, EveryEntryHasATicket
<1>10. CASE WorkerCrash
  <2>1. /\ crashes' = crashes + 1 /\ pc' = "idle"
        /\ UNCHANGED <<q, tickets, adding>>
    BY <1>10 DEF WorkerCrash
  <2> QED
    BY <1>0, <1>n, <2>1 DEF EveryEntryHasATicket
<1>11. CASE UNCHANGED vars
  BY <1>0, <1>11 DEF vars, EveryEntryHasATicket
<1> QED
  BY <1>1, <1>2, <1>3, <1>4, <1>5, <1>6, <1>7, <1>8, <1>9, <1>10, <1>11
     DEF Next, WorkerStep

\* No entry is stranded for want of a ticket, unless a process was killed: the
\* anonymous tickets of RQ suffice for the entries of the static queue, however
\* enqueues, cancels and the worker interleave.
THEOREM TicketsCorrect == Spec => []EveryEntryHasATicket
<1>1. TicketInv => EveryEntryHasATicket
  BY DEF TicketInv
<1> QED
  BY <1>1, InitTicket, NextTicket, PTL DEF Spec

-----------------------------------------------------------------------------
(* The total duration.                                                     *)

\* What a payload adds to the sum, and what taking one away, or none, leaves.
LEMMA DurationsOfStore ==
  ASSUME NEW S \in SUBSET Ids, IsFiniteSet(S)
  PROVE  /\ SumOfDurations(S) \in Nat
         /\ \A id \in Ids : id \notin S =>
              /\ IsFiniteSet(S \cup {id})
              /\ SumOfDurations(S \cup {id}) = SumOfDurations(S) + id.duration
         /\ \A id : id.duration \in Nat =>
              /\ IsFiniteSet(S \ {id})
              /\ SumOfDurations(S) - id.duration <= SumOfDurations(S \ {id})
<1>1. \A T : SumOfDurations(T) = Durations(T)
  BY DEF SumOfDurations, Durations
<1>2. \A id \in Ids : id.duration \in Nat
  BY SidFacts
<1> QED
  BY <1>1, <1>2, DurationsChange

\* The payloads are finitely many, and the total is at most what they add up to.
TotalCounts == IsFiniteSet(q.store) /\ q.total <= SumOfDurations(q.store)

TotalInv == OutcomeInv /\ TotalCounts

\* The total goes down with every removal, also of a payload that is not there.
LEMMA TotalAfterRemoval ==
  ASSUME TotalInv, NEW id, id.duration \in Nat,
         q'.store = q.store \ {id}, q'.total = q.total - id.duration
  PROVE  IsFiniteSet(q'.store) /\ q'.total <= SumOfDurations(q'.store)
<1>1. q.store \in SUBSET Ids /\ q.total \in Int /\ IsFiniteSet(q.store)
  BY QueueParts DEF TotalInv, TotalCounts, OutcomeInv, TypeOK
<1>2. /\ IsFiniteSet(q.store \ {id})
      /\ SumOfDurations(q.store) - id.duration <= SumOfDurations(q.store \ {id})
      /\ SumOfDurations(q.store) \in Nat
  BY <1>1, DurationsOfStore
<1>3. SumOfDurations(q.store \ {id}) \in Nat
  BY <1>1, <1>2, DurationsOfStore
<1>4. q.total <= SumOfDurations(q.store)
  BY DEF TotalInv, TotalCounts
<1> QED
  BY <1>1, <1>2, <1>3, <1>4

LEMMA NextTotal == TotalInv /\ [Next]_vars => TotalInv'
<1> SUFFICES ASSUME TotalInv, [Next]_vars
             PROVE  IsFiniteSet(q'.store) /\ q'.total <= SumOfDurations(q'.store)
  BY NextOutcome DEF TotalInv, TotalCounts
<1> DEFINE Goal == IsFiniteSet(q'.store) /\ q'.total <= SumOfDurations(q'.store)
<1>0. /\ IsFiniteSet(q.store) /\ q.total <= SumOfDurations(q.store)
      /\ q.store \in SUBSET Ids /\ q.total \in Int
  BY QueueParts DEF TotalInv, TotalCounts, OutcomeInv, TypeOK
<1>1. ASSUME NEW j \in Jobs, EnqueueAdd(j) PROVE Goal
  <2>1. /\ q'.store = q.store \cup {Sid(j)} /\ q'.total = q.total + Sid(j).duration
        /\ j \notin submitted
    BY <1>1 DEF EnqueueAdd, Add
  <2>2. Sid(j) \in Ids /\ Sid(j).uuid = j /\ Sid(j).duration \in Nat
    BY SidFacts
  <2>3. Sid(j) \notin q.store
    BY <2>1, <2>2 DEF TotalInv, OutcomeInv, EntriesAreLive
  <2>4. /\ IsFiniteSet(q.store \cup {Sid(j)})
        /\ SumOfDurations(q.store \cup {Sid(j)}) = SumOfDurations(q.store) + Sid(j).duration
        /\ SumOfDurations(q.store) \in Nat
    BY <1>0, <2>2, <2>3, DurationsOfStore
  <2> QED
    BY <1>0, <2>1, <2>2, <2>4
<1>2. ASSUME NEW j \in Jobs, CancelPop(j) PROVE Goal
  <2>1. PICK d \in {Duration[j], 0} : q' = PopJob(q, StorageID(j, d))
    BY <1>2 DEF CancelPop
  <2>2. StorageID(j, d).duration \in Nat
    BY DurationAssumption DEF StorageID
  <2>3. /\ q'.store = q.store \ {StorageID(j, d)}
        /\ q'.total = q.total - StorageID(j, d).duration
    BY <2>1 DEF PopJob
  <2> QED
    BY <2>2, <2>3, TotalAfterRemoval
<1>3. CASE NextTake
  <2>1. q'.store = q.store \ {hand[1]} /\ q'.total = q.total - hand[1].duration
    <3>1. q' = Take(q, hand[1])
      BY <1>3 DEF NextTake
    <3> QED
      BY <3>1 DEF Take, TotalInv, OutcomeInv, TypeOK, QueueType
  <2>2. hand[1].duration \in Nat
    BY <1>3, HandIsId DEF NextTake, TotalInv, OutcomeInv
  <2> QED
    BY <2>1, <2>2, TotalAfterRemoval
<1>4. CASE NextLPop
  <2>1. q'.store = q.store /\ q'.total = q.total
    BY <1>4 DEF NextLPop, LPop, TotalInv, OutcomeInv, TypeOK, QueueType
  <2> QED
    BY <1>0, <2>1
<1>5. CASE \/ \E j \in Jobs : EnqueueTicket(j) \/ CancelTicket(j) \/ ProducerCrash(j)
           \/ TakeTicket \/ Finish \/ WorkerCrash \/ UNCHANGED vars
  <2>1. q' = q
    BY <1>5 DEF EnqueueTicket, CancelTicket, ProducerCrash, TakeTicket, Finish,
                WorkerCrash, vars
  <2> QED
    BY <1>0, <2>1
<1> QED
  BY <1>1, <1>2, <1>3, <1>4, <1>5 DEF Next, WorkerStep

LEMMA InitTotal == Init => TotalInv
<1> SUFFICES ASSUME Init PROVE TotalCounts
  BY InitOutcome DEF TotalInv
<1>1. q.store = {} /\ q.total = 0
  BY DEF Init, EmptyQueue
<1>2. {} \in SUBSET Ids /\ IsFiniteSet({})
  BY FS_EmptySet
<1>3. SumOfDurations({}) \in Nat
  BY <1>2, DurationsOfStore
<1> QED
  BY <1>1, <1>2, <1>3 DEF TotalCounts

-----------------------------------------------------------------------------
(* The runner queue, with its two halves, its cancels between LPOP and     *)
(* pipeline and its killed workers, implements the FIFO queue with         *)
(* withdrawal of module AbstractQueue.                                     *)

\* The operators of SequencesExt mean the same to both specifications.
LEMMA PromiseOperators ==
  /\ \A s : Promise!ToSet(s) = ToSet(s)
  /\ \A s, e : Promise!RemoveFirst(s, e) = RemoveFirst(s, e)
<1>1. ASSUME NEW s PROVE Promise!ToSet(s) = ToSet(s)
  BY DEF Promise!ToSet, ToSet
<1>2. ASSUME NEW s, NEW e PROVE Promise!RemoveFirst(s, e) = RemoveFirst(s, e)
  BY DEF Promise!RemoveFirst, Promise!RemoveAt, Promise!SelectInSeq, Promise!Min,
         RemoveFirst, RemoveAt, SelectInSeq, Min
<1> QED
  BY <1>1, <1>2

\* Initially nothing waits.
LEMMA InitImplements == Init => Promise!Init
<1> SUFFICES ASSUME Init PROVE Promise!Init
  OBVIOUS
<1>1. q.list = <<>> /\ q.store = {} /\ pc = "idle" /\ started = <<>> /\ withdrawn = {}
  BY DEF Init, EmptyQueue
<1>2. pending = <<>>
  BY <1>1 DEF pending
<1>3. lost = {}
  BY <1>1 DEF lost
<1>4. ToSet(started) = {}
  BY <1>1, EmptySeq DEF ToSet
<1> QED
  BY <1>1, <1>2, <1>3, <1>4 DEF Promise!Init

\* The worker holds a job that is still to be started.
Held == pc = "taking" /\ HasPayload(q, hand[1])

\* What waits, in the cases with and without a job in the worker's hand, and the
\* parts of the invariant that the refinement rests on.
LEMMA PendingFacts ==
  ASSUME OutcomeInv
  PROVE  /\ q.list \in Seq(Ids) /\ started \in Seq(Ids) /\ q.store \subseteq Ids
         /\ Distinct(q.list)
         /\ ToSet(q.list) \subseteq q.store
         /\ ~ Held => pending = q.list
         /\ Held => /\ hand[1] \in Ids /\ hand = <<hand[1]>>
                    /\ hand[1] \in q.store
                    /\ hand[1] \notin ToSet(q.list)
                    /\ pending = <<hand[1]>> \o q.list
                    /\ ToSet(pending) = ToSet(q.list) \cup {hand[1]}
         /\ pending \in Seq(Ids) /\ Distinct(pending)
         /\ ToSet(pending) \subseteq q.store
<1>1. q.list \in Seq(Ids) /\ started \in Seq(Ids) /\ q.store \subseteq Ids
  BY QueueParts DEF OutcomeInv, TypeOK
<1>2. Distinct(q.list)
  BY DEF OutcomeInv, EntriesAreLive, Distinct
<1>3. ToSet(q.list) \subseteq q.store
  BY <1>1, ElementsOf DEF OutcomeInv, EntriesAreLive
<1>4. ~ Held => pending = q.list
  <2> SUFFICES ASSUME ~ Held PROVE pending = q.list
    OBVIOUS
  <2>1. pending = <<>> \o q.list
    BY DEF pending, Held
  <2> QED
    BY <1>1, <2>1, ConcatEmptySeq
<1>5. Held => /\ hand[1] \in Ids /\ hand = <<hand[1]>>
              /\ hand[1] \in q.store
              /\ hand[1] \notin ToSet(q.list)
              /\ pending = <<hand[1]>> \o q.list
  <2> SUFFICES ASSUME Held
               PROVE  /\ hand[1] \in Ids /\ hand = <<hand[1]>>
                      /\ hand[1] \in q.store
                      /\ hand[1] \notin ToSet(q.list)
                      /\ pending = <<hand[1]>> \o q.list
    OBVIOUS
  <2>1. Len(hand) = 1 /\ hand[1] \in Ids /\ hand \in Seq(Ids)
    BY HandIsId DEF Held, OutcomeInv, TypeOK
  <2>2. hand = <<hand[1]>>
    <3>1. <<hand[1]>> \in Seq(Ids) /\ Len(<<hand[1]>>) = 1 /\ <<hand[1]>>[1] = hand[1]
      BY <2>1, SingletonSeq
    <3> QED
      BY <2>1, <3>1, SeqEqual
  <2>3. hand[1] \in q.store
    BY DEF Held, HasPayload
  <2>4. hand[1] \notin ToSet(q.list)
    BY <1>1, ElementsOf DEF Held, OutcomeInv, EntriesAreLive
  <2>5. pending = hand \o q.list
    BY DEF pending, Held
  <2> QED
    BY <2>1, <2>2, <2>3, <2>4, <2>5
<1>6. Held => ToSet(pending) = ToSet(q.list) \cup {hand[1]}
  <2> SUFFICES ASSUME Held PROVE ToSet(pending) = ToSet(q.list) \cup {hand[1]}
    OBVIOUS
  <2>1. ToSet(<<hand[1]>> \o q.list) = ToSet(q.list) \cup {hand[1]}
    BY <1>1, <1>5, Fronted
  <2> QED
    BY <1>5, <2>1
<1>7. ToSet(pending) \subseteq q.store
  BY <1>3, <1>4, <1>5, <1>6
<1>8. pending \in Seq(Ids)
  <2>1. CASE Held
    <3>1. <<hand[1]>> \o q.list \in Seq(Ids)
      BY <1>1, <1>5, <2>1, Fronted
    <3> QED
      BY <1>5, <2>1, <3>1
  <2> QED
    BY <1>1, <1>4, <2>1
<1>9. Distinct(pending)
  <2>1. ASSUME Held PROVE Distinct(pending)
    <3>1. Distinct(<<hand[1]>> \o q.list)
      BY <1>1, <1>2, <1>5, <2>1, FrontedDistinct
    <3> QED
      BY <1>5, <2>1, <3>1
  <2> QED
    BY <1>2, <1>4, <2>1
<1> QED
  BY <1>1, <1>2, <1>3, <1>4, <1>5, <1>6, <1>7, <1>8, <1>9

\* A step that leaves these as they are is a stutter of the abstract queue.
LEMMA Stutters ==
  ASSUME pending' = pending, q'.store = q.store, started' = started, withdrawn' = withdrawn
  PROVE  UNCHANGED Promise!vars
BY PromiseOperators DEF Promise!vars, lost, ToSet

\* enqueue submits the job.
LEMMA EnqueueAddImplements ==
  ASSUME OutcomeInv, NEW j \in Jobs, EnqueueAdd(j)
  PROVE  Promise!Submit(Sid(j))
<1> DEFINE x == Sid(j)
<1>1. /\ q'.list = Append(q.list, x) /\ q'.store = q.store \cup {x}
      /\ UNCHANGED <<pc, hand, started, withdrawn>>
      /\ x \in Ids /\ x.uuid = j /\ j \notin submitted
  BY SidFacts DEF EnqueueAdd, Add
<1>2. /\ x \notin q.store /\ x \notin withdrawn
      /\ \A n \in 1..Len(started) : started[n] # x
      /\ pc = "taking" => hand[1] # x
  BY <1>1 DEF OutcomeInv, EntriesAreLive
<1>3. x \notin ToSet(started)
  BY <1>2, ElementsOf, PendingFacts
<1> HIDE DEF x
<1>4. Held' <=> Held
  BY <1>1, <1>2 DEF Held, HasPayload
<1>5. pending' = Append(pending, x)
  <2>1. CASE Held
    <3>1. pending' = hand \o Append(q.list, x)
      BY <1>1, <1>4, <2>1 DEF pending, Held
    <3>2. hand = <<hand[1]>> /\ hand[1] \in Ids /\ pending = <<hand[1]>> \o q.list
      BY <2>1, PendingFacts
    <3>3. <<hand[1]>> \o Append(q.list, x) = Append(<<hand[1]>> \o q.list, x)
      BY <1>1, <3>2, PendingFacts, FrontedAppend
    <3> QED
      BY <3>1, <3>2, <3>3
  <2>2. CASE ~ Held
    <3>1. pending' = <<>> \o Append(q.list, x)
      BY <1>1, <1>4, <2>2 DEF pending, Held
    <3>2. Append(q.list, x) \in Seq(Ids)
      BY <1>1, PendingFacts, AppendProperties
    <3> QED
      BY <2>2, <3>1, <3>2, PendingFacts, ConcatEmptySeq
  <2> QED
    BY <2>1, <2>2
<1>6. pending \in Seq(Ids)
  BY PendingFacts
<1>7. ToSet(pending') = ToSet(pending) \cup {x}
  BY <1>1, <1>5, <1>6, ElementsOfAppend
<1>8. lost' = q'.store \ ToSet(pending')
  BY DEF lost, ToSet
<1>9. lost' = lost /\ x \notin ToSet(pending) \cup lost
  BY <1>1, <1>2, <1>7, <1>8, PendingFacts DEF lost
<1>10. ToSet(started)' = ToSet(started)
  BY <1>1 DEF ToSet
<1> QED
  BY <1>1, <1>2, <1>3, <1>5, <1>9, <1>10, PromiseOperators DEF Promise!Submit, x

\* A cancel that finds the payload withdraws the job, wherever it is; one that
\* does not find it changes nothing.
LEMMA CancelPopImplements ==
  ASSUME OutcomeInv, NEW j \in Jobs, CancelPop(j)
  PROVE  (\E x \in Ids : Promise!Withdraw(x)) \/ UNCHANGED Promise!vars
<1>1. PICK d \in {Duration[j], 0} :
        /\ q' = PopJob(q, StorageID(j, d))
        /\ withdrawn' = IF HasPayload(q, StorageID(j, d))
                        THEN withdrawn \cup {StorageID(j, d)} ELSE withdrawn
  BY DEF CancelPop
<1> DEFINE x == StorageID(j, d)
<1>2. /\ q'.list = RemoveFirst(q.list, x)
      /\ q'.store = q.store \ {x}
      /\ withdrawn' = IF x \in q.store THEN withdrawn \cup {x} ELSE withdrawn
      /\ UNCHANGED <<pc, hand, started>>
  BY <1>1 DEF PopJob, HasPayload, CancelPop
<1> HIDE DEF x
<1>3. CASE x \notin q.store
  <2>1. x \notin ToSet(q.list)
    BY <1>3, PendingFacts
  <2>2. q'.list = q.list
    BY <1>2, <2>1, PendingFacts, ElementsOf, RemoveFirstSpec
  <2>3. q'.store = q.store /\ withdrawn' = withdrawn
    BY <1>2, <1>3
  <2>4. pending' = pending
    BY <1>2, <2>2, <2>3 DEF pending, HasPayload
  <2> QED
    BY <1>2, <2>3, <2>4, Stutters
<1>4. CASE x \in q.store
  <2>1. RemoveFirst(q.list, x) \in Seq(Ids)
    BY PendingFacts, RemoveFirstSpec
  <2>2. ASSUME Held PROVE pending' = RemoveFirst(pending, x)
    <3>1. /\ hand[1] \in Ids /\ hand = <<hand[1]>>
          /\ hand[1] \notin ToSet(q.list) /\ pending = <<hand[1]>> \o q.list
          /\ q.list \in Seq(Ids) /\ Distinct(q.list)
      BY <2>2, PendingFacts
    <3>2. RemoveFirst(<<hand[1]>> \o q.list, x)
            = IF x = hand[1] THEN q.list ELSE <<hand[1]>> \o RemoveFirst(q.list, x)
      <4> DEFINE h == hand[1]
                 l == q.list
      <4>1. h \in Ids /\ l \in Seq(Ids) /\ Distinct(l) /\ h \notin ToSet(l)
        BY <3>1
      <4> HIDE DEF h, l
      <4>2. RemoveFirst(<<h>> \o l, x) = IF x = h THEN l ELSE <<h>> \o RemoveFirst(l, x)
        BY <4>1, FrontedRemove
      <4> QED
        BY <4>2 DEF h, l
    <3>3. CASE x = hand[1]
      <4>1. ~ Held'
        BY <1>2, <3>3 DEF Held, HasPayload
      <4>2. pending' = <<>> \o RemoveFirst(q.list, x)
        BY <1>2, <4>1 DEF pending, Held
      <4>3. RemoveFirst(q.list, x) = q.list
        BY <3>1, <3>3, ElementsOf, RemoveFirstSpec
      <4>4. pending' = q.list
        BY <3>1, <4>2, <4>3, ConcatEmptySeq
      <4> QED
        BY <3>1, <3>2, <3>3, <4>4
    <3>4. CASE x # hand[1]
      <4>1. Held'
        BY <1>2, <2>2, <3>4 DEF Held, HasPayload
      <4>2. pending' = hand \o RemoveFirst(q.list, x)
        BY <1>2, <4>1 DEF pending, Held
      <4> QED
        BY <3>1, <3>2, <3>4, <4>2
    <3> QED
      BY <3>3, <3>4
  <2>3. ASSUME ~ Held PROVE pending' = RemoveFirst(pending, x)
    <3>1. ~ Held'
      BY <1>2, <2>3 DEF Held, HasPayload
    <3>2. pending' = <<>> \o RemoveFirst(q.list, x)
      BY <1>2, <3>1 DEF pending, Held
    <3> QED
      BY <2>1, <2>3, <3>2, PendingFacts, ConcatEmptySeq
  <2>4. pending' = RemoveFirst(pending, x)
    BY <2>2, <2>3
  <2>5. pending \in Seq(Ids) /\ Distinct(pending)
    BY PendingFacts
  <2>6. ToSet(pending') = ToSet(pending) \ {x}
    BY <2>4, <2>5, ElementsRemoved
  <2>7. lost' = q'.store \ ToSet(pending')
    BY DEF lost, ToSet
  <2>8. lost' = lost \ {x} /\ x \in ToSet(pending) \cup lost
    BY <1>2, <1>4, <2>6, <2>7 DEF lost
  <2>9. ToSet(started)' = ToSet(started) /\ withdrawn' = withdrawn \cup {x}
    BY <1>2, <1>4 DEF ToSet
  <2>10. Promise!Withdraw(x)
    BY <2>4, <2>8, <2>9, PromiseOperators DEF Promise!Withdraw
  <2>11. x \in Ids
    BY <1>4, PendingFacts
  <2> QED
    BY <2>10, <2>11
<1> QED
  BY <1>3, <1>4

\* LPOP moves the front of the list into the worker's hand: it waits as before.
LEMMA NextLPopImplements ==
  ASSUME OutcomeInv, NextLPop
  PROVE  UNCHANGED Promise!vars
<1>1. /\ pc = "popping" /\ ~ Held /\ pending = q.list /\ q.list \in Seq(Ids)
      /\ UNCHANGED <<started, withdrawn>>
  BY PendingFacts DEF NextLPop, Held
<1>2. CASE q.list = <<>>
  <2>1. q' = q /\ pc' = "idle"
    BY <1>2 DEF NextLPop
  <2>2. pending' = <<>> \o q.list
    BY <2>1 DEF pending
  <2> QED
    BY <1>1, <2>1, <2>2, ConcatEmptySeq, Stutters
<1>3. CASE q.list # <<>>
  <2> DEFINE x == Head(q.list)
  <2>1. /\ hand' = <<x>> /\ q' = LPop(q) /\ pc' = "taking"
    BY <1>3 DEF NextLPop
  <2>2. q'.list = Tail(q.list) /\ q'.store = q.store
    BY <2>1 DEF LPop, OutcomeInv, TypeOK, QueueType
  <2>3. /\ x \in Ids /\ x = q.list[1] /\ Tail(q.list) \in Seq(Ids)
        /\ Len(q.list) > 0 /\ Len(q.list) \in Nat
        /\ Len(Tail(q.list)) = Len(q.list) - 1
        /\ \A i \in 1..Len(Tail(q.list)) : Tail(q.list)[i] = q.list[i + 1]
    BY <1>1, <1>3, HeadTailProperties, EmptySeq, LenProperties
  <2>4. x \in q.store
    BY <2>3 DEF OutcomeInv, EntriesAreLive
  <2> HIDE DEF x
  <2>5. hand'[1] = x
    BY <2>1
  <2>6. pending' = <<x>> \o Tail(q.list)
    BY <2>1, <2>2, <2>4, <2>5 DEF pending, HasPayload
  <2>7. <<x>> \o Tail(q.list) = q.list
    <3> DEFINE l == Tail(q.list)
    <3>1. l \in Seq(Ids)
      BY <2>3
    <3> HIDE DEF l
    <3> DEFINE s == <<x>> \o l
    <3>2. /\ s \in Seq(Ids) /\ Len(s) = Len(l) + 1 /\ s[1] = x
          /\ \A i \in 1..Len(l) : s[i + 1] = l[i]
      BY <2>3, <3>1, Fronted
    <3> HIDE DEF s
    <3>3. Len(s) = Len(q.list)
      BY <2>3, <3>2 DEF l
    <3>4. ASSUME NEW i \in 1..Len(s) PROVE s[i] = q.list[i]
      <4>1. CASE i = 1
        BY <2>3, <3>2, <4>1
      <4>2. CASE i # 1
        <5>1. i - 1 \in 1..Len(l) /\ (i - 1) + 1 = i
          BY <2>3, <3>3, <4>2 DEF l
        <5>2. s[i] = l[i - 1]
          BY <3>2, <5>1
        <5>3. l[i - 1] = q.list[i]
          BY <2>3, <5>1 DEF l
        <5> QED
          BY <5>2, <5>3
      <4> QED
        BY <4>1, <4>2
    <3>5. s = q.list
      BY <1>1, <3>2, <3>3, <3>4, SeqEqual
    <3> QED
      BY <3>5 DEF s, l
  <2> QED
    BY <1>1, <2>2, <2>6, <2>7, Stutters
<1> QED
  BY <1>2, <1>3

\* The pipeline of next starts the job in the worker's hand, if it still waits.
LEMMA NextTakeImplements ==
  ASSUME OutcomeInv, NextTake
  PROVE  (\E x \in Ids : Promise!Start(x)) \/ UNCHANGED Promise!vars
<1> DEFINE x == hand[1]
<1>1. /\ pc = "taking" /\ pc' # "taking"
      /\ q' = Take(q, x) /\ withdrawn' = withdrawn
  BY DEF NextTake
<1>2. q'.list = q.list /\ q'.store = q.store \ {x}
  BY <1>1 DEF Take, OutcomeInv, TypeOK, QueueType
<1>3. pending' = q.list
  <2>1. pending' = <<>> \o q.list
    BY <1>1, <1>2 DEF pending
  <2> QED
    BY <2>1, PendingFacts, ConcatEmptySeq
<1>4. CASE Held
  <2>1. started' = Append(started, x)
    BY <1>4 DEF Held, NextTake
  <2>2. /\ x \in Ids /\ x \in q.store /\ x \notin ToSet(q.list) /\ started \in Seq(Ids)
        /\ pending = <<x>> \o q.list /\ ToSet(pending) = ToSet(q.list) \cup {x}
    BY <1>4, PendingFacts
  <2>3. pending # <<>> /\ Head(pending) = x /\ Tail(pending) = q.list
    BY <2>2, PendingFacts, Fronted
  <2> HIDE DEF x
  <2>4. ToSet(Append(started, x)) = ToSet(started) \cup {x}
    BY <2>2, ElementsOfAppend
  <2>5. ToSet(started)' = ToSet(started) \cup {x}
    BY <2>1, <2>4 DEF ToSet
  <2>6. lost' = q'.store \ ToSet(pending')
    BY DEF lost, ToSet
  <2>7. lost' = lost
    BY <1>2, <1>3, <2>2, <2>6 DEF lost
  <2>8. Promise!Start(x)
    BY <1>1, <1>3, <2>3, <2>5, <2>7, PromiseOperators DEF Promise!Start
  <2> QED
    BY <2>2, <2>8
<1>5. CASE ~ Held
  <2>1. started' = started /\ x \notin q.store
    BY <1>1, <1>5 DEF Held, NextTake, HasPayload
  <2>2. q'.store = q.store /\ pending' = pending
    BY <1>2, <1>3, <1>5, <2>1, PendingFacts
  <2> QED
    BY <1>1, <2>1, <2>2, Stutters
<1> QED
  BY <1>4, <1>5

\* A worker that is killed with a job that still waits loses it.
LEMMA WorkerCrashImplements ==
  ASSUME OutcomeInv, WorkerCrash
  PROVE  Promise!Lose \/ UNCHANGED Promise!vars
<1>1. pc' = "idle" /\ UNCHANGED <<q, started, withdrawn>>
  BY DEF WorkerCrash
<1>2. pending' = q.list
  <2>1. pending' = <<>> \o q.list
    BY <1>1 DEF pending
  <2> QED
    BY <2>1, PendingFacts, ConcatEmptySeq
<1>3. CASE Held
  <2> DEFINE x == hand[1]
  <2>1. /\ x \in Ids /\ x \in q.store /\ x \notin ToSet(q.list)
        /\ pending = <<x>> \o q.list /\ ToSet(pending) = ToSet(q.list) \cup {x}
    BY <1>3, PendingFacts
  <2>2. pending # <<>> /\ Head(pending) = x /\ Tail(pending) = q.list
    BY <2>1, PendingFacts, Fronted
  <2> HIDE DEF x
  <2>3. lost' = q'.store \ ToSet(pending')
    BY DEF lost, ToSet
  <2>4. lost' = lost \cup {x}
    BY <1>1, <1>2, <2>1, <2>3 DEF lost
  <2>5. ToSet(started)' = ToSet(started)
    BY <1>1 DEF ToSet
  <2> QED
    BY <1>1, <1>2, <2>2, <2>4, <2>5, PromiseOperators DEF Promise!Lose
<1>4. CASE ~ Held
  BY <1>1, <1>2, <1>4, PendingFacts, Stutters
<1> QED
  BY <1>3, <1>4

\* Every step of the runner queue is a step of the abstract queue or a stutter.
LEMMA NextImplements ==
  OutcomeInv /\ [Next]_vars => [Promise!Next]_(Promise!vars)
<1> SUFFICES ASSUME OutcomeInv, [Next]_vars
             PROVE  Promise!Next \/ UNCHANGED Promise!vars
  OBVIOUS
<1> DEFINE Goal == Promise!Next \/ UNCHANGED Promise!vars
<1>1. ASSUME NEW j \in Jobs, EnqueueAdd(j) PROVE Goal
  <2>1. Sid(j) \in Ids /\ Promise!Submit(Sid(j))
    BY <1>1, SidFacts, EnqueueAddImplements
  <2> QED
    BY <2>1 DEF Promise!Next
<1>2. ASSUME NEW j \in Jobs, EnqueueTicket(j) PROVE Goal
  BY <1>2, Stutters DEF EnqueueTicket, pending
<1>3. ASSUME NEW j \in Jobs, CancelPop(j) PROVE Goal
  BY <1>3, CancelPopImplements DEF Promise!Next
<1>4. ASSUME NEW j \in Jobs, CancelTicket(j) PROVE Goal
  BY <1>4, Stutters DEF CancelTicket, pending
<1>5. ASSUME NEW j \in Jobs, ProducerCrash(j) PROVE Goal
  BY <1>5, Stutters DEF ProducerCrash, pending
<1>6. CASE TakeTicket
  BY <1>6, Stutters DEF TakeTicket, pending
<1>7. CASE NextLPop
  BY <1>7, NextLPopImplements
<1>8. CASE NextTake
  BY <1>8, NextTakeImplements DEF Promise!Next
<1>9. CASE Finish
  BY <1>9, Stutters DEF Finish, pending
<1>10. CASE WorkerCrash
  BY <1>10, WorkerCrashImplements DEF Promise!Next
<1>11. CASE UNCHANGED vars
  BY <1>11, Stutters DEF vars, pending
<1> QED
  BY <1>1, <1>2, <1>3, <1>4, <1>5, <1>6, <1>7, <1>8, <1>9, <1>10, <1>11
     DEF Next, WorkerStep

\* The runner queue keeps the promise of the abstract queue: first in, first out,
\* what is withdrawn is never started, and nothing is started twice or comes back,
\* for any number of jobs, cancels and crashes.
THEOREM RefinementCorrect == Spec => ImplementsAbstractQueue
BY InitImplements, InitOutcome, NextOutcome, NextImplements, PTL
   DEF Spec, ImplementsAbstractQueue, Promise!Spec

-----------------------------------------------------------------------------
(* What a kill leaves behind, and the total against what waits.            *)

\* The inductive invariant of TotalNeverOverstates.
LostInv == TotalInv /\ Cardinality(lost) <= crashes

\* What is lost is finite, and a subset of it is no larger.
LEMMA LostFacts ==
  ASSUME TotalInv
  PROVE  /\ IsFiniteSet(lost) /\ Cardinality(lost) \in Nat /\ crashes \in Nat
         /\ \A T \in SUBSET lost : Cardinality(T) <= Cardinality(lost)
         /\ \A x : Cardinality(lost \cup {x}) <= Cardinality(lost) + 1
<1>1. lost \subseteq q.store /\ IsFiniteSet(q.store) /\ crashes \in Nat
  BY DEF lost, TotalInv, TotalCounts, OutcomeInv, TypeOK
<1>2. IsFiniteSet(lost)
  BY <1>1, FS_Subset
<1>3. Cardinality(lost) \in Nat
  BY <1>2, FS_CardinalityType
<1>4. \A T \in SUBSET lost : Cardinality(T) <= Cardinality(lost)
  BY <1>2, FS_Subset
<1>5. ASSUME NEW x PROVE Cardinality(lost \cup {x}) <= Cardinality(lost) + 1
  <2>1. Cardinality(lost \cup {x}) =
          IF x \in lost THEN Cardinality(lost) ELSE Cardinality(lost) + 1
    BY <1>2, FS_AddElement
  <2> QED
    BY <1>3, <2>1
<1> QED
  BY <1>1, <1>2, <1>3, <1>4, <1>5

\* Only a killed worker loses a job, and only one.
LEMMA NextLost == LostInv /\ [Next]_vars => LostInv'
<1> SUFFICES ASSUME LostInv, [Next]_vars PROVE Cardinality(lost') <= crashes'
  BY NextTotal DEF LostInv
<1>0. OutcomeInv /\ TotalInv /\ Cardinality(lost) <= crashes
  BY DEF LostInv, TotalInv
<1> DEFINE Goal == Cardinality(lost') <= crashes'
<1>1. ASSUME lost' \subseteq lost, crashes' \in {crashes, crashes + 1} PROVE Goal
  <2>1. Cardinality(lost') <= Cardinality(lost)
    BY <1>0, <1>1, LostFacts
  <2>2. Cardinality(lost') \in Nat
    BY <1>0, <1>1, LostFacts, FS_Subset, FS_CardinalityType
  <2> QED
    BY <1>0, <1>1, <2>1, <2>2, LostFacts
<1>2. ASSUME NEW j \in Jobs, EnqueueAdd(j) PROVE Goal
  <2>1. lost' = lost
    BY <1>0, <1>2, EnqueueAddImplements DEF Promise!Submit
  <2> QED
    BY <1>1, <1>2, <2>1 DEF EnqueueAdd
<1>3. ASSUME NEW j \in Jobs, CancelPop(j) PROVE Goal
  <2>1. CASE UNCHANGED Promise!vars
    BY <1>1, <1>3, <2>1 DEF Promise!vars, CancelPop
  <2>2. CASE \E x \in Ids : Promise!Withdraw(x)
    <3>1. lost' \subseteq lost
      BY <2>2 DEF Promise!Withdraw
    <3> QED
      BY <1>1, <1>3, <3>1 DEF CancelPop
  <2> QED
    BY <1>0, <1>3, <2>1, <2>2, CancelPopImplements
<1>4. CASE NextLPop
  <2>1. lost' = lost
    BY <1>0, <1>4, NextLPopImplements DEF Promise!vars
  <2> QED
    BY <1>1, <1>4, <2>1 DEF NextLPop
<1>5. CASE NextTake
  <2>1. lost' = lost
    BY <1>0, <1>5, NextTakeImplements DEF Promise!vars, Promise!Start
  <2> QED
    BY <1>1, <1>5, <2>1 DEF NextTake
<1>6. CASE WorkerCrash
  <2>1. crashes' = crashes + 1
    BY <1>6 DEF WorkerCrash
  <2>2. CASE UNCHANGED Promise!vars
    BY <1>1, <2>1, <2>2 DEF Promise!vars
  <2>3. CASE Promise!Lose
    <3>1. lost' = lost \cup {Head(pending)}
      BY <2>3 DEF Promise!Lose
    <3>2. Cardinality(lost') <= Cardinality(lost) + 1
      BY <1>0, <3>1, LostFacts
    <3>3. Cardinality(lost') \in Nat
      BY <1>0, <3>1, LostFacts, FS_AddElement, FS_CardinalityType
    <3> QED
      BY <1>0, <2>1, <3>2, <3>3, LostFacts
  <2> QED
    BY <1>0, <1>6, <2>2, <2>3, WorkerCrashImplements
<1>7. ASSUME NEW j \in Jobs, EnqueueTicket(j) \/ CancelTicket(j) \/ ProducerCrash(j)
      PROVE  Goal
  <2>1. lost' = lost
    BY <1>7 DEF EnqueueTicket, CancelTicket, ProducerCrash, lost, pending, ToSet
  <2> QED
    BY <1>1, <1>7, <2>1 DEF EnqueueTicket, CancelTicket, ProducerCrash
<1>8. CASE TakeTicket \/ Finish \/ UNCHANGED vars
  <2>1. lost' = lost
    BY <1>8 DEF TakeTicket, Finish, vars, lost, pending, ToSet
  <2> QED
    BY <1>1, <1>8, <2>1 DEF TakeTicket, Finish, vars
<1> QED
  BY <1>2, <1>3, <1>4, <1>5, <1>6, <1>7, <1>8 DEF Next, WorkerStep

\* The total is at most what the waiting jobs add up to, unless a killed worker has
\* left a job behind, and there are at most as many of those as there were kills; in
\* any interleaving of enqueues, cancels (also of jobs that are not there) and the
\* worker, and for any jobs.
THEOREM TotalCorrect == Spec => []TotalNeverOverstates
<1>1. Init => LostInv
  <2> SUFFICES ASSUME Init PROVE LostInv
    OBVIOUS
  <2>1. lost = {} /\ crashes = 0
    BY InitImplements DEF Promise!Init, Init
  <2>2. Cardinality({}) = 0
    BY FS_EmptySet
  <2> QED
    BY <2>1, <2>2, InitTotal DEF LostInv
<1>2. LostInv => TotalNeverOverstates
  <2> SUFFICES ASSUME LostInv PROVE TotalNeverOverstates
    OBVIOUS
  <2>1. ASSUME lost = {} PROVE q.total <= SumOfDurations(ToSet(pending))
    <3>1. ToSet(pending) = q.store
      BY <2>1, PendingFacts DEF lost, LostInv, TotalInv
    <3> QED
      BY <3>1 DEF LostInv, TotalInv, TotalCounts
  <2> QED
    BY <2>1 DEF LostInv, TotalNeverOverstates
<1> QED
  BY <1>1, <1>2, NextLost, PTL DEF Spec

=============================================================================
