--------------------------- MODULE ExecutorProofs ---------------------------
(***************************************************************************)
(* The Quantify executor.  Schedule: the barriers keep distances and       *)
(* alignment, and phases and acquisitions come out as the playbacks say,   *)
(* for any number of channels and instructions and for any times.          *)
(* Execution: no experiment and no job leaves its bias currents to the     *)
(* next, and every value and every bit of a result is of the experiment    *)
(* and of the qubit it is listed for, for any jobs, devices, experiments   *)
(* and couplers.                                                           *)
(***************************************************************************)
EXTENDS Schedule, Execution, DataLemmas

-----------------------------------------------------------------------------
(***************************************************************************)
(* Schedule: the barriers                                                  *)
(***************************************************************************)

Built == pc \in {"schedule", "done"}

Items == [kind : Kinds, slot : Nat, value : Int]

\* What the induction needs of the types.
ScheduleShape ==
  /\ pc \in {"register", "schedule", "done", "failed"}
  /\ insts \in [Clocks -> Seq(Items)]
  /\ left \subseteq Nat
  /\ sync \in [Clocks -> Int] /\ dispatch \in [Clocks -> Int]
  /\ Built => \A c \in Clocks : start[c] \in [DOMAIN insts[c] -> Int]

\* What is still to be scheduled has no start, and lies after what has one.
SlotsInOrder ==
  Built => \A c \in Clocks : \A p \in Schedulable(c) :
    /\ insts[c][p].slot \in left => start[c][p] = 0
    /\ start[c][p] > 0 => \A s \in left : insts[c][p].slot < s

\* A channel has accounted for all that it has issued.
WithinTicks ==
  Built => \A c \in Clocks : \A p \in Schedulable(c) :
    start[c][p] > 0 => start[c][p] <= Ready(c, insts[c][p].slot)

BarrierInv == ScheduleShape /\ SlotsInOrder /\ WithinTicks /\ DistanceKept /\ SlotAligned

\* The number of an operation among those of its slot.
Rank(c, slot, p) == Cardinality({o \in At(c, slot) : o <= p})

LEMMA RankFacts ==
  ASSUME ScheduleShape, NEW c \in Clocks, NEW slot \in Nat, NEW p \in At(c, slot)
  PROVE  /\ Cardinality(At(c, slot)) \in Nat
         /\ Earlier(insts[c], p) = Rank(c, slot, p) - 1
         /\ Rank(c, slot, p) \in 1..Cardinality(At(c, slot))
<1> DEFINE A == At(c, slot)
           B == {o \in A : o < p}
           R == {o \in A : o <= p}
<1>1. insts[c] \in Seq(Items)
  BY DEF ScheduleShape
<1>2. A \subseteq 1..Len(insts[c]) /\ Len(insts[c]) \in Nat
  BY <1>1 DEF At, Schedulable
<1>3. IsFiniteSet(A)
  <2>1. PICK N : N = 1..Len(insts[c])
    OBVIOUS
  <2>2. IsFiniteSet(N) /\ A \in SUBSET N
    BY <1>2, <2>1, FS_Interval
  <2> QED
    BY <2>2, FS_Subset
<1> HIDE DEF A
<1>4. B \subseteq A /\ R \subseteq A
  OBVIOUS
<1>5. IsFiniteSet(B) /\ IsFiniteSet(R)
  BY <1>3, <1>4, FS_Subset
<1>6. R = B \cup {p} /\ p \notin B
  BY <1>2 DEF A
<1>7. Cardinality(R) = Cardinality(B) + 1
  BY <1>5, <1>6, FS_AddElement
<1>8. Cardinality(R) <= Cardinality(A)
  BY <1>3, <1>4, FS_Subset
<1>9. Cardinality(A) \in Nat /\ Cardinality(B) \in Nat
  BY <1>3, <1>5, FS_CardinalityType
<1> QED
  <2>1. Rank(c, slot, p) = Cardinality(R)
    BY DEF Rank, A
  <2>2. Cardinality(R) \in 1..Cardinality(A) /\ Cardinality(B) = Cardinality(R) - 1
    BY <1>7, <1>8, <1>9
  <2>3. B = {o \in DOMAIN insts[c] : /\ insts[c][o].kind \notin {"setf", "shiftf"}
                                     /\ insts[c][o].slot = insts[c][p].slot /\ o < p}
    BY DEF A, At, Schedulable
  <2>4. Cardinality(B) = Earlier(insts[c], p)
    BY <2>3 DEF Earlier
  <2> QED
    BY <2>1, <2>2, <2>4, <1>9 DEF A

\* The ticks of a channel add up: after its waits it is ready at the barrier, and
\* its operations start one after the other from there.
LEMMA TicksAddUp ==
  ASSUME ScheduleShape, NEW slot \in left, NEW b, ScheduleSlot(slot, b)
  PROVE  /\ sync' = [c \in Clocks |->
                       IF c \in Active(slot) THEN b - slot - dispatch[c] ELSE sync[c]]
         /\ start' = [c \in Clocks |-> [p \in DOMAIN insts[c] |->
                       IF p \in At(c, slot) THEN b + Rank(c, slot, p) ELSE start[c][p]]]
<1>1. /\ sync' = [c \in Clocks |-> Waited(c, slot, b)]
      /\ start' = [c \in Clocks |-> [p \in DOMAIN insts[c] |->
                    IF p \in At(c, slot) THEN slot + sync'[c] + Issued(c, slot, p) + 1
                                         ELSE start[c][p]]]
  BY DEF ScheduleSlot
<1>2. /\ slot \in Nat
      /\ \A c \in Clocks : sync[c] \in Int /\ dispatch[c] \in Int /\ insts[c] \in Seq(Items)
  BY DEF ScheduleShape
<1>3. /\ b \in Int
      /\ \A c \in Active(slot) : slot + sync[c] + dispatch[c] <= b
      /\ Active(slot) \subseteq Clocks
  BY <1>2 DEF ScheduleSlot, IsBarrier, Ready, Active
<1>4. \A c \in Clocks :
        Waited(c, slot, b) = IF c \in Active(slot) THEN b - slot - dispatch[c] ELSE sync[c]
  <2> TAKE c \in Clocks
  <2>1. CASE c \in Active(slot)
    <3>1. slot + sync[c] + dispatch[c] <= b /\ sync[c] \in Int /\ dispatch[c] \in Int
      BY <1>2, <1>3, <2>1
    <3>2. Waited(c, slot, b) = IF slot + sync[c] + dispatch[c] < b
                               THEN sync[c] + (b - (slot + sync[c] + dispatch[c])) ELSE sync[c]
      BY <2>1 DEF Waited, Ready
    <3> QED
      BY <1>2, <1>3, <2>1, <3>1, <3>2
  <2>2. CASE c \notin Active(slot)
    BY <2>2 DEF Waited
  <2> QED
    BY <2>1, <2>2
<1>5. ASSUME NEW c \in Clocks, NEW p \in At(c, slot)
      PROVE  slot + sync'[c] + Issued(c, slot, p) + 1 = b + Rank(c, slot, p)
  <2> DEFINE B == {o \in At(c, slot) : o < p}
  <2>1. /\ p \in DOMAIN insts[c] /\ insts[c][p].kind \notin {"setf", "shiftf"}
        /\ insts[c][p].slot = slot
        /\ B = {o \in DOMAIN insts[c] : /\ insts[c][o].kind \notin {"setf", "shiftf"}
                                        /\ insts[c][o].slot = insts[c][p].slot /\ o < p}
    BY DEF At, Schedulable
  <2>2. c \in Active(slot)
    <3>1. slot \in SlotsOf(c)
      BY DEF At, SlotsOf
    <3> QED
      BY <1>2, <3>1 DEF Active
  <2>3. sync'[c] = b - slot - dispatch[c]
    BY <1>1, <1>4, <2>2
  <2>4. Cardinality(B) = Rank(c, slot, p) - 1 /\ Rank(c, slot, p) \in Int
    <3>1. Cardinality(B) = Earlier(insts[c], p)
      BY <2>1 DEF Earlier
    <3>2. Earlier(insts[c], p) = Rank(c, slot, p) - 1
          /\ Rank(c, slot, p) \in 1 .. Cardinality(At(c, slot))
      BY <1>2, RankFacts
    <3> QED
      BY <3>1, <3>2
  <2>5. Issued(c, slot, p) = dispatch[c] + Cardinality(B)
    BY DEF Issued
  <2> HIDE DEF B
  <2> QED
    BY <1>2, <1>3, <2>3, <2>4, <2>5
<1> QED
  BY <1>1, <1>4, <1>5

\* One slot is scheduled.
LEMMA SlotStep ==
  ASSUME BarrierInv, NEW slot \in left, NEW b, ScheduleSlot(slot, b)
  PROVE  BarrierInv'
<1> USE DEF BarrierInv
<1>1. /\ pc = "schedule" /\ pc' = pc /\ insts' = insts
      /\ \A s \in left : slot <= s
      /\ left' = left \ {slot}
      /\ sync' = [c \in Clocks |->
                    IF c \in Active(slot) THEN b - slot - dispatch[c] ELSE sync[c]]
      /\ dispatch' = [c \in Clocks |-> dispatch[c] + Cardinality(At(c, slot))]
      /\ start' = [c \in Clocks |-> [p \in DOMAIN insts[c] |->
                    IF p \in At(c, slot) THEN b + Rank(c, slot, p) ELSE start[c][p]]]
  BY TicksAddUp DEF BarrierInv, ScheduleSlot, registry
<1>2. /\ slot \in Nat /\ left \subseteq Nat
      /\ \A c \in Clocks : sync[c] \in Int /\ dispatch[c] \in Int
      /\ \A c \in Clocks : start[c] \in [DOMAIN insts[c] -> Int]
      /\ \A c \in Clocks : \A p \in DOMAIN insts[c] : insts[c][p].slot \in Nat
      /\ \A c \in Clocks : Schedulable(c) \subseteq DOMAIN insts[c]
  <2>1. \A c \in Clocks : insts[c] \in Seq(Items)
    BY DEF ScheduleShape
  <2>2. \A c \in Clocks : \A p \in DOMAIN insts[c] : insts[c][p].slot \in Nat
    <3> TAKE c \in Clocks
    <3> TAKE p \in DOMAIN insts[c]
    <3>1. insts[c][p] \in Items
      BY <2>1, SeqElement
    <3> QED
      BY <3>1 DEF Items
  <2>3. \A c \in Clocks : start[c] \in [DOMAIN insts[c] -> Int]
    BY <1>1 DEF ScheduleShape, Built
  <2>4. \A c \in Clocks : sync[c] \in Int /\ dispatch[c] \in Int
    BY DEF ScheduleShape
  <2> QED
    BY <2>2, <2>3, <2>4 DEF ScheduleShape, Schedulable
<1>3. /\ b \in Int
      /\ \A c \in Active(slot) : slot + sync[c] + dispatch[c] <= b
      /\ Active(slot) \subseteq Clocks
  BY <1>2 DEF ScheduleSlot, IsBarrier, Ready, Active
<1>4. \A c \in Clocks : \A p \in At(c, slot) :
        /\ p \in Schedulable(c) /\ insts[c][p].slot = slot /\ c \in Active(slot)
        /\ Rank(c, slot, p) \in 1..Cardinality(At(c, slot))
        /\ Rank(c, slot, p) \in Nat /\ Rank(c, slot, p) >= 1
        /\ Cardinality(At(c, slot)) \in Nat
  <2> TAKE c \in Clocks
  <2> TAKE p \in At(c, slot)
  <2>1. p \in Schedulable(c) /\ insts[c][p].slot = slot
    BY DEF At
  <2>2. c \in Active(slot)
    <3>1. slot \in SlotsOf(c) /\ slot >= slot
      BY <2>1, <1>2 DEF SlotsOf
    <3> QED
      BY <3>1 DEF Active
  <2>3. Cardinality(At(c, slot)) \in Nat /\ Rank(c, slot, p) \in 1..Cardinality(At(c, slot))
    BY <1>2, RankFacts
  <2> QED
    BY <2>1, <2>2, <2>3
<1>5. \A c \in Clocks : Cardinality(At(c, slot)) \in Nat
  <2> TAKE c \in Clocks
  <2>1. CASE At(c, slot) = {}
    BY <2>1, FS_EmptySet
  <2>2. CASE At(c, slot) # {}
    BY <2>2, <1>4
  <2> QED
    BY <2>1, <2>2
<1>6. \A c \in Clocks : \A p \in Schedulable(c) :
        start'[c][p] = IF p \in At(c, slot) THEN b + Rank(c, slot, p) ELSE start[c][p]
  BY <1>1, <1>2
<1>7. \A c \in Clocks : /\ sync'[c] = (IF c \in Active(slot) THEN b - slot - dispatch[c]
                                                            ELSE sync[c])
                          /\ dispatch'[c] = dispatch[c] + Cardinality(At(c, slot))
  BY <1>1
<1>8. \A c \in Clocks : sync[c] + dispatch[c] <= sync'[c] + dispatch'[c]
  BY <1>2, <1>3, <1>5, <1>7
<1>9. /\ \A c \in Clocks : Schedulable(c)' = Schedulable(c)
      /\ \A c \in Clocks, s \in Nat : At(c, s)' = At(c, s)
      /\ \A s \in Nat : Active(s)' = Active(s)
  BY <1>1 DEF Schedulable, At, Active, SlotsOf
<1>10. ScheduleShape'
  <2>1. \A c \in Clocks : \A p \in DOMAIN insts[c] : start'[c][p] \in Int
    <3> TAKE c \in Clocks
    <3> TAKE p \in DOMAIN insts[c]
    <3>1. CASE p \in At(c, slot)
      BY <3>1, <1>1, <1>3, <1>4
    <3>2. CASE p \notin At(c, slot)
      BY <3>2, <1>1, <1>2
    <3> QED
      BY <3>1, <3>2
  <2>2. \A c \in Clocks : start'[c] \in [DOMAIN insts[c] -> Int]
    BY <1>1, <2>1
  <2>3. \A c \in Clocks : sync'[c] \in Int /\ dispatch'[c] \in Int
    BY <1>2, <1>3, <1>5, <1>7
  <2>4. sync' \in [Clocks -> Int] /\ dispatch' \in [Clocks -> Int]
    BY <1>1, <2>3
  <2> QED
    BY <1>1, <1>2, <2>2, <2>4 DEF ScheduleShape, Built
\* An instruction of the slot lies in At, and the others keep their start.
<1>11. \A c \in Clocks : \A p \in Schedulable(c) :
         p \in At(c, slot) <=> insts[c][p].slot = slot
  BY DEF At
<1>12. ASSUME NEW c \in Clocks, NEW p \in Schedulable(c), start'[c][p] > 0
       PROVE  \/ insts[c][p].slot = slot /\ p \in At(c, slot)
              \/ /\ insts[c][p].slot < slot /\ p \notin At(c, slot)
                 /\ start'[c][p] = start[c][p] /\ start[c][p] > 0
  <2>1. CASE insts[c][p].slot = slot
    BY <2>1, <1>11
  <2>2. CASE insts[c][p].slot # slot
    <3>1. p \notin At(c, slot)
      BY <2>2, <1>11
    <3>2. start'[c][p] = start[c][p]
      BY <3>1, <1>6
    <3>3. \A s \in left : insts[c][p].slot < s
      BY <3>2, <1>1, <1>12 DEF SlotsInOrder, Built
    <3> QED
      BY <3>1, <3>2, <3>3, <1>12
  <2> QED
    BY <2>1, <2>2
<1>13. SlotsInOrder'
  <2>1. ASSUME NEW c \in Clocks, NEW p \in Schedulable(c), insts[c][p].slot \in left'
        PROVE  start'[c][p] = 0
    <3>1. insts[c][p].slot # slot /\ insts[c][p].slot \in left
      BY <2>1, <1>1
    <3> QED
      BY <3>1, <1>1, <1>6, <1>11 DEF SlotsInOrder, Built
  <2>2. ASSUME NEW c \in Clocks, NEW p \in Schedulable(c), start'[c][p] > 0,
               NEW s \in left'
        PROVE  insts[c][p].slot < s
    <3>1. s \in left /\ s # slot /\ slot <= s /\ s \in Nat
      BY <1>1, <1>2
    <3>2. insts[c][p].slot <= slot /\ insts[c][p].slot \in Nat
      BY <1>2, <1>12, <2>2
    <3> QED
      BY <3>1, <3>2, <1>2
  <2> QED
    BY <2>1, <2>2, <1>1, <1>9 DEF SlotsInOrder
<1>14. WithinTicks'
  <2>1. ASSUME NEW c \in Clocks, NEW p \in Schedulable(c), start'[c][p] > 0
        PROVE  start'[c][p] <= insts[c][p].slot + sync'[c] + dispatch'[c]
    <3>1. CASE p \in At(c, slot)
      <4>1. start'[c][p] = b + Rank(c, slot, p)
        BY <3>1, <1>6
      <4>2. sync'[c] + dispatch'[c] = b - slot + Cardinality(At(c, slot))
        BY <3>1, <1>2, <1>3, <1>4, <1>5, <1>7
      <4> QED
        BY <3>1, <4>1, <4>2, <1>2, <1>3, <1>4, <1>5, <1>7
    <3>2. CASE p \notin At(c, slot)
      <4>1. start'[c][p] = start[c][p] /\ start[c][p] \in Int /\ start[c][p] > 0
        BY <3>2, <2>1, <1>2, <1>6
      <4>2. start[c][p] <= insts[c][p].slot + sync[c] + dispatch[c]
        BY <4>1, <1>1 DEF WithinTicks, Built, Ready
      <4>3. insts[c][p].slot \in Nat
        BY <1>2
      <4> QED
        BY <4>1, <4>2, <4>3, <1>2, <1>3, <1>5, <1>7, <1>8
    <3> QED
      BY <3>1, <3>2
  <2> QED
    BY <2>1, <1>1, <1>9 DEF WithinTicks, Ready
<1>15. DistanceKept'
  <2>1. ASSUME NEW c \in Clocks, NEW d \in Clocks,
               NEW p \in Schedulable(c), NEW q \in Schedulable(d),
               start'[c][p] > 0, start'[d][q] > 0,
               insts[c][p].slot < insts[d][q].slot, c \in Active(insts[d][q].slot)
        PROVE  start'[d][q] - start'[c][p] >= insts[d][q].slot - insts[c][p].slot + 1
    <3>1. insts[c][p].slot \in Nat /\ insts[d][q].slot \in Nat
      BY <1>2
    <3>2. insts[d][q].slot <= slot
      BY <1>2, <1>12, <2>1
    <3>3. /\ p \notin At(c, slot) /\ start'[c][p] = start[c][p]
          /\ start[c][p] > 0 /\ start[c][p] \in Int
      BY <1>2, <1>12, <2>1, <3>1, <3>2
    <3>4. CASE q \in At(d, slot)
      <4>1. insts[d][q].slot = slot /\ start'[d][q] = b + Rank(d, slot, q)
        BY <3>4, <1>4, <1>6
      <4>2. Rank(d, slot, q) \in Int /\ Rank(d, slot, q) >= 1
        BY <3>4, <1>4
      <4>3. start[c][p] <= insts[c][p].slot + sync[c] + dispatch[c]
        BY <3>3, <1>1 DEF WithinTicks, Built, Ready
      <4>4. slot + sync[c] + dispatch[c] <= b
        BY <2>1, <4>1, <1>3
      <4> QED
        BY <3>1, <3>3, <4>1, <4>2, <4>3, <4>4, <1>2, <1>3
    <3>5. CASE q \notin At(d, slot)
      <4>1. start'[d][q] = start[d][q] /\ start[d][q] > 0
        BY <3>5, <2>1, <1>12
      <4>2. p \in Scheduled(c) /\ q \in Scheduled(d)
        BY <3>3, <4>1, <1>1 DEF Scheduled
      <4> QED
        BY <2>1, <3>3, <4>1, <4>2 DEF DistanceKept
    <3> QED
      BY <3>4, <3>5
  <2>2. \A c \in Clocks : \A p \in Scheduled(c)' : p \in Schedulable(c) /\ start'[c][p] > 0
    BY <1>9 DEF Scheduled
  <2>3. insts' = insts /\ \A s \in Nat : Active(s)' = Active(s)
    BY <1>1, <1>9
  <2> SUFFICES ASSUME NEW c \in Clocks, NEW d \in Clocks,
                      NEW p \in Scheduled(c)', NEW q \in Scheduled(d)',
                      insts'[c][p].slot < insts'[d][q].slot,
                      c \in Active(insts[d][q].slot)
               PROVE  start'[d][q] - start'[c][p] >= insts'[d][q].slot - insts'[c][p].slot + 1
    BY <2>3 DEF DistanceKept, Active, SlotsOf, Schedulable
  <2> QED
    BY <2>1, <2>2, <2>3
<1>16. SlotAligned'
  <2>1. ASSUME NEW c \in Clocks, NEW d \in Clocks,
               NEW p \in Schedulable(c), NEW q \in Schedulable(d),
               start'[c][p] > 0, start'[d][q] > 0,
               insts[c][p].slot = insts[d][q].slot
        PROVE  start'[c][p] - Earlier(insts[c], p) = start'[d][q] - Earlier(insts[d], q)
    <3>1. CASE insts[c][p].slot = slot
      <4>1. p \in At(c, slot) /\ q \in At(d, slot)
        BY <3>1, <2>1, <1>11
      <4>2. start'[c][p] = b + Rank(c, slot, p) /\ start'[d][q] = b + Rank(d, slot, q)
        BY <4>1, <1>6
      <4>3. /\ Earlier(insts[c], p) = Rank(c, slot, p) - 1
            /\ Earlier(insts[d], q) = Rank(d, slot, q) - 1
        BY <4>1, <1>2, RankFacts
      <4>4. Rank(c, slot, p) \in Nat /\ Rank(d, slot, q) \in Nat
        BY <4>1, <1>4
      <4> QED
        BY <3>1, <4>2, <4>3, <4>4, <1>3
    <3>2. CASE insts[c][p].slot # slot
      <4>1. /\ start'[c][p] = start[c][p] /\ start[c][p] > 0
            /\ start'[d][q] = start[d][q] /\ start[d][q] > 0
        BY <3>2, <2>1, <1>12
      <4>2. p \in Scheduled(c) /\ q \in Scheduled(d)
        BY <4>1, <1>1 DEF Scheduled
      <4> QED
        BY <2>1, <4>1, <4>2 DEF SlotAligned
    <3> QED
      BY <3>1, <3>2
  <2>2. \A c \in Clocks : \A p \in Scheduled(c)' : p \in Schedulable(c) /\ start'[c][p] > 0
    BY <1>9 DEF Scheduled
  <2> SUFFICES ASSUME NEW c \in Clocks, NEW d \in Clocks,
                      NEW p \in Scheduled(c)', NEW q \in Scheduled(d)',
                      insts'[c][p].slot = insts'[d][q].slot
               PROVE  start'[c][p] - Earlier(insts'[c], p) = start'[d][q] - Earlier(insts'[d], q)
    BY DEF SlotAligned
  <2>3. insts' = insts
    BY <1>1
  <2>4. insts[c][p].slot = insts[d][q].slot
    BY <2>3
  <2>5. start'[c][p] - Earlier(insts[c], p) = start'[d][q] - Earlier(insts[d], q)
    BY <2>1, <2>2, <2>4
  <2> QED
    BY <2>3, <2>5
<1> QED
  BY <1>10, <1>13, <1>14, <1>15, <1>16

\* An instruction is registered: no schedule is under construction.
LEMMA RegisterStep ==
  ASSUME BarrierInv, NEW item, RegisterInstruction(item), pc = "register",
         \A c \in DOMAIN item : item[c] \in Items
  PROVE  BarrierInv'
<1>1. /\ pc' = "register" /\ left' = left /\ sync' = sync /\ dispatch' = dispatch
      /\ insts' = [c \in Clocks |-> IF c \in DOMAIN item THEN Append(insts[c], item[c])
                                                         ELSE insts[c]]
  BY DEF RegisterInstruction, timing
<1>2. insts' \in [Clocks -> Seq(Items)]
  <2>1. \A c \in Clocks : insts[c] \in Seq(Items)
    BY DEF BarrierInv, ScheduleShape
  <2>2. \A q \in Seq(Items), i \in Items : Append(q, i) \in Seq(Items)
    OBVIOUS
  <2> QED
    BY <1>1, <2>1, <2>2
<1>3. ScheduleShape'
  BY <1>1, <1>2 DEF BarrierInv, ScheduleShape, Built
<1> QED
  BY <1>1, <1>3 DEF BarrierInv, SlotsInOrder, WithinTicks, DistanceKept, SlotAligned, Built, Scheduled

\* A step that leaves instructions and starts as they are keeps the invariant.
LEMMA SameSchedule ==
  ASSUME BarrierInv, UNCHANGED <<insts, left, sync, dispatch, start>>,
         pc' = pc \/ (pc = "schedule" /\ pc' = "done")
  PROVE  BarrierInv'
<1>1. Built' = Built /\ pc' \in {"register", "schedule", "done", "failed"}
  BY DEF Built, BarrierInv, ScheduleShape
<1>2. \A c \in Clocks : Schedulable(c)' = Schedulable(c)
  BY DEF Schedulable
<1>3. \A c \in Clocks : Scheduled(c)' = Scheduled(c)
  BY <1>1, <1>2 DEF Scheduled, Built
<1>4. ScheduleShape'
  BY <1>1 DEF BarrierInv, ScheduleShape
<1>5. SlotsInOrder'
  BY <1>1, <1>2 DEF BarrierInv, SlotsInOrder
<1>6. WithinTicks'
  BY <1>1, <1>2 DEF BarrierInv, WithinTicks, Ready
<1>7. DistanceKept'
  BY <1>3 DEF BarrierInv, DistanceKept, Active, SlotsOf, Schedulable
<1>8. SlotAligned'
  BY <1>3 DEF BarrierInv, SlotAligned
<1> QED
  BY <1>4, <1>5, <1>6, <1>7, <1>8 DEF BarrierInv

\* What is registered is well formed.
LEMMA RegisteredFacts ==
  ASSUME NEW c, NEW name, NEW t \in Nat, NEW v \in Int,
         NEW i \in Registered(name, c, t, v)
  PROVE  i \in Items
<1>1. Grid(t) \in Nat
  BY DEF Grid
<1>2. -v \in Int
  OBVIOUS
<1> HIDE DEF Grid
<1>3. \A k \in Kinds, w \in Int : Item(k, t, w) \in Items
  BY <1>1 DEF Item, Items
<1>4. i \in Translated(name, c, t, v) /\ i.kind # "ResetClockPhase"
  BY DEF Registered
<1>5. Item("ResetClockPhase", t, 0).kind = "ResetClockPhase"
  BY DEF Item
<1>6. \E k \in Kinds, w \in Int : i = Item(k, t, w)
  BY <1>2, <1>4, <1>5
  DEF Kinds, Translated, AcquireInstruction, DelayInstruction, SetFreqInstruction,
      ShiftFreqInstruction, SetPhaseInstruction, ShiftPhaseInstruction,
      GaussPulseInstruction, SquarePulseInstruction, PulseLibInstruction,
      WacqtCZPulseInstruction
<1> QED
  BY <1>3, <1>6

\* The steps of the compiler, with what is registered given its type.
LEMMA CompilerSteps ==
  ASSUME [ScheduleNext]_scheduleVars
  PROVE  \/ \E item : /\ RegisterInstruction(item) /\ pc = "register"
                      /\ \A c \in DOMAIN item : item[c] \in Items
         \/ AddUnmapped \/ PlanChannels \/ TailIdle \/ UNCHANGED scheduleVars
         \/ \E slot \in left : \E b : ScheduleSlot(slot, b)
<1>1. ASSUME NEW c \in Clocks, NEW t \in RawTimes, NEW v \in Values, NEW name \in Names[c],
             AddInstruction(c, name, t, v)
      PROVE  \E item : /\ RegisterInstruction(item) /\ pc = "register"
                       /\ \A d \in DOMAIN item : item[d] \in Items
  <2>1. PICK i \in Registered(name, c, t, v) : RegisterInstruction([d \in {c} |-> i])
    BY <1>1 DEF AddInstruction
  <2>2. i \in Items
    BY RegisteredFacts, ScheduleAssumption DEF ScheduleAssumption
  <2>3. PICK item : item = [d \in {c} |-> i]
    OBVIOUS
  <2>4. RegisterInstruction(item) /\ pc = "register"
    BY <1>1, <2>1, <2>3 DEF AddInstruction
  <2>5. \A d \in DOMAIN item : item[d] \in Items
    BY <2>2, <2>3
  <2> QED
    BY <2>4, <2>5
<1>2. ASSUME NEW cs \in SUBSET Readout, NEW t \in RawTimes, AddAcquire(cs, t)
      PROVE  \E item : /\ RegisterInstruction(item) /\ pc = "register"
                       /\ \A d \in DOMAIN item : item[d] \in Items
  <2>1. PICK item \in [cs -> UNION {Registered("acquire", c, t, 0) : c \in cs}] : RegisterInstruction(item)
    BY <1>2 DEF AddAcquire
  <2>2. pc = "register"
    BY <1>2 DEF AddAcquire
  <2>3. \A d \in DOMAIN item : item[d] \in Items
    <3> TAKE d \in DOMAIN item
    <3>1. PICK c \in cs : item[d] \in Registered("acquire", c, t, 0)
      OBVIOUS
    <3>2. t \in Nat /\ 0 \in Int
      BY ScheduleAssumption DEF ScheduleAssumption
    <3> QED
      BY <3>1, <3>2, RegisteredFacts
  <2> QED
    BY <2>1, <2>2, <2>3
<1> QED
  BY <1>1, <1>2 DEF ScheduleNext, Done

\* The instructions are known when the channels are planned, and none has a start.
LEMMA PlanFacts ==
  ASSUME ScheduleShape, PlanChannels
  PROVE  /\ UNCHANGED <<insts, phase, acquired, sync, dispatch>>
         /\ pc = "register" /\ pc' = "schedule"
         /\ left' = UNION {SlotsOf(c) : c \in Clocks}
         /\ start' = [c \in Clocks |-> [p \in DOMAIN insts[c] |-> 0]]
         /\ \A c \in Clocks : \A p \in Schedulable(c) :
              p \in DOMAIN insts[c] /\ insts[c][p].slot \in Nat
<1>1. /\ UNCHANGED <<insts, phase, acquired, sync, dispatch>>
      /\ pc = "register" /\ pc' = "schedule"
      /\ left' = UNION {SlotsOf(c) : c \in Clocks}
      /\ start' = [c \in Clocks |-> [p \in DOMAIN insts[c] |-> 0]]
  BY DEF PlanChannels, registry
<1>2. \A c \in Clocks : \A p \in Schedulable(c) :
        p \in DOMAIN insts[c] /\ insts[c][p].slot \in Nat
  <2> TAKE c \in Clocks
  <2> TAKE p \in Schedulable(c)
  <2>1. insts[c] \in Seq(Items) /\ p \in DOMAIN insts[c]
    BY DEF ScheduleShape, Schedulable
  <2>2. insts[c][p] \in Items
    BY <2>1, SeqElement
  <2> QED
    BY <2>1, <2>2 DEF Items
<1> QED
  BY <1>1, <1>2

\* The step of the barrier is the only one that places operations.
LEMMA NextBarriers == BarrierInv /\ [ScheduleNext]_scheduleVars => BarrierInv'
<1> SUFFICES ASSUME BarrierInv, [ScheduleNext]_scheduleVars PROVE BarrierInv'
  OBVIOUS
<1>1. ASSUME NEW item, RegisterInstruction(item), pc = "register",
             \A c \in DOMAIN item : item[c] \in Items
      PROVE  BarrierInv'
  BY <1>1, RegisterStep
<1>2. CASE AddUnmapped
  <2>1. pc' = "failed" /\ UNCHANGED <<insts, left, sync, dispatch>>
    BY <1>2 DEF AddUnmapped, registry, timing
  <2> QED
    BY <2>1 DEF BarrierInv, ScheduleShape, SlotsInOrder, WithinTicks, DistanceKept, SlotAligned, Built, Scheduled
<1>3. CASE PlanChannels
  <2>1. /\ UNCHANGED <<insts, sync, dispatch>> /\ pc' = "schedule"
        /\ left' = UNION {SlotsOf(c) : c \in Clocks}
        /\ start' = [c \in Clocks |-> [p \in DOMAIN insts[c] |-> 0]]
        /\ \A c \in Clocks : \A p \in Schedulable(c) :
             p \in DOMAIN insts[c] /\ insts[c][p].slot \in Nat
    BY <1>3, PlanFacts DEF BarrierInv
  <2>2. left' \subseteq Nat
    BY <2>1 DEF SlotsOf
  <2>3. ScheduleShape'
    BY <2>1, <2>2 DEF BarrierInv, ScheduleShape
  <2>4. \A c \in Clocks : \A p \in Schedulable(c)' : start'[c][p] = 0
    BY <2>1 DEF Schedulable
  <2>5. \A c \in Clocks : Scheduled(c)' = {}
    BY <2>4 DEF Scheduled
  <2> QED
    BY <2>3, <2>4, <2>5 DEF BarrierInv, SlotsInOrder, WithinTicks, DistanceKept, SlotAligned
<1>4. ASSUME NEW slot \in left, NEW b, ScheduleSlot(slot, b)
      PROVE  BarrierInv'
  BY <1>4, SlotStep
<1>5. CASE TailIdle
  <2>1. UNCHANGED <<insts, left, sync, dispatch, start>> /\ pc = "schedule" /\ pc' = "done"
    BY <1>5 DEF TailIdle, registry
  <2> QED
    BY <2>1, SameSchedule
<1>6. CASE UNCHANGED scheduleVars
  <2>1. UNCHANGED <<insts, left, sync, dispatch, start, pc>>
    BY <1>6 DEF scheduleVars
  <2> QED
    BY <2>1, SameSchedule
<1> QED
  BY <1>1, <1>2, <1>3, <1>4, <1>5, <1>6, CompilerSteps

LEMMA InitBarriers == ScheduleInit => BarrierInv
<1> SUFFICES ASSUME ScheduleInit PROVE BarrierInv
  OBVIOUS
<1>1. ScheduleShape
  BY DEF ScheduleInit, ScheduleShape, Built
<1> QED
  BY <1>1 DEF ScheduleInit, BarrierInv, SlotsInOrder, WithinTicks, DistanceKept, SlotAligned, Built, Scheduled

\* Distances are kept in every schedule, within a channel and between channels.
THEOREM DistanceCorrect == ScheduleSpec => []DistanceKept
<1>1. BarrierInv => DistanceKept
  BY DEF BarrierInv
<1> QED
  BY <1>1, InitBarriers, NextBarriers, PTL DEF ScheduleSpec

\* The operations of a slot start together, each channel with one tick per
\* operation: on every channel the waits of the barriers and the ticks of dispatch
\* (experiment.py:402-424) add up to the same tick.
THEOREM AlignmentCorrect == ScheduleSpec => []SlotAligned
<1>1. BarrierInv => SlotAligned
  BY DEF BarrierInv
<1> QED
  BY <1>1, InitBarriers, NextBarriers, PTL DEF ScheduleSpec

-----------------------------------------------------------------------------
(***************************************************************************)
(* Schedule: the playbacks                                                 *)
(***************************************************************************)

\* The phase instructions and the acquisitions among the first p of a list.
PhaseEntries(list, p) == {o \in 1..p : list[o].kind \in {"setp", "fc"}}
AcquireEntries(list, p) == {o \in 1..p : list[o].kind = "acquire"}

\* What to_operation emits for each instruction, given the playback.
Shifts(list, playback) ==
  [o \in 1..Len(list) |->
     IF list[o].kind = "setp" THEN playback[o] - (IF o = 1 THEN 0 ELSE playback[o - 1])
                              ELSE list[o].value]

\* At each position of a channel the phase is the sum of what is emitted up to
\* there, and the count of acquisitions is theirs.
PhasesAdded(list, playback) ==
  /\ playback \in Seq(Int) /\ Len(playback) = Len(list)
  /\ \A p \in 1..Len(list) :
       playback[p] = SumOver(Shifts(list, playback), PhaseEntries(list, p))
AcquisitionsCounted(list, playback) ==
  /\ playback \in Seq(Int) /\ Len(playback) = Len(list)
  /\ \A p \in 1..Len(list) : playback[p] = Cardinality(AcquireEntries(list, p))

\* The instructions of a channel are in the order of their slots, the
\* acquisitions apart.
SlotsAscend(list) ==
  \A o, p \in 1..Len(list) :
    /\ o < p
    /\ (list[o].kind = "acquire") = (list[p].kind = "acquire")
    => list[o].slot <= list[p].slot

LEMMA ListAppended ==
  ASSUME NEW S, NEW list \in Seq(S), NEW i \in S
  PROVE  /\ Append(list, i) \in Seq(S) /\ Len(list) \in Nat
         /\ Len(Append(list, i)) = Len(list) + 1
         /\ Append(list, i)[Len(list) + 1] = i
         /\ \A p \in 1..Len(list) : Append(list, i)[p] = list[p]
OBVIOUS

LEMMA FinalIs ==
  ASSUME NEW q \in Seq(Int)
  PROVE  /\ Final(q) = (IF Len(q) = 0 THEN 0 ELSE q[Len(q)])
         /\ Final(q) \in Int
BY DEF Final

\* A registered instruction adds to the phase what it emits.
LEMMA PhaseAppended ==
  ASSUME NEW list \in Seq(Items), NEW playback, PhasesAdded(list, playback), NEW i \in Items,
         NEW delta, delta = (CASE i.kind = "setp" -> i.value - Final(playback)
                               [] i.kind = "fc"   -> i.value
                               [] OTHER           -> 0)
  PROVE  PhasesAdded(Append(list, i), Append(playback, Final(playback) + delta))
<1> DEFINE n == Len(list)
           more == Append(list, i)
           total == Final(playback) + delta
           played == Append(playback, total)
           f == Shifts(list, playback)
           g == Shifts(more, played)
<1>1. /\ playback \in Seq(Int) /\ Len(playback) = n /\ n \in Nat
      /\ i.value \in Int /\ Final(playback) \in Int
      /\ Final(playback) = (IF n = 0 THEN 0 ELSE playback[n])
  BY FinalIs DEF PhasesAdded, Items
<1>2. delta \in Int /\ total \in Int
  BY <1>1
<1> HIDE DEF total
<1>3. /\ Len(more) = n + 1 /\ more[n + 1] = i /\ \A p \in 1..n : more[p] = list[p]
      /\ more \in Seq(Items)
  BY ListAppended
<1>4. /\ Len(played) = n + 1 /\ played[n + 1] = total
      /\ \A p \in 1..n : played[p] = playback[p]
      /\ played \in Seq(Int)
  BY <1>1, <1>2, ListAppended
<1> HIDE DEF more, played
<1>5. \A o \in 1..n : g[o] = f[o]
  <2> TAKE o \in 1..n
  <2>1. o \in 1..Len(more) /\ o \in 1..Len(list)
    BY <1>1, <1>3
  <2>2. o # 1 => o - 1 \in 1..n
    BY <1>1
  <2>3. o # 1 => played[o - 1] = playback[o - 1]
    BY <2>2, <1>4
  <2> QED
    BY <2>1, <2>3, <1>3, <1>4 DEF Shifts
<1>6. \A o \in 1..n + 1 : g[o] \in Int
  <2> TAKE o \in 1..n + 1
  <2>1. more[o] \in Items
    BY <1>3, SeqElement
  <2>2. o # 1 => o - 1 \in 1..n + 1
    BY <1>1
  <2>3. played[o] \in Int /\ (o # 1 => played[o - 1] \in Int)
    BY <2>2, <1>4, SeqElement
  <2>4. more[o].value \in Int
    BY <2>1 DEF Items
  <2>5. g[o] = IF more[o].kind = "setp" THEN played[o] - (IF o = 1 THEN 0 ELSE played[o - 1])
                                        ELSE more[o].value
    BY <1>1, <1>3 DEF Shifts
  <2> QED
    BY <2>3, <2>4, <2>5
<1>7. \A p \in 0..n : /\ PhaseEntries(more, p) = PhaseEntries(list, p)
                      /\ PhaseEntries(list, p) \subseteq 1..n
                      /\ IsFiniteSet(PhaseEntries(list, p))
  <2> TAKE p \in 0..n
  <2>1. PhaseEntries(more, p) = PhaseEntries(list, p) /\ PhaseEntries(list, p) \subseteq 1..p
    BY <1>1, <1>3 DEF PhaseEntries
  <2>2. IsFiniteSet(1..p)
    <3>1. p \in Int /\ 1 \in Int
      BY <1>1
    <3> QED
      BY <3>1, FS_Interval, Zenon
  <2>3. IsFiniteSet(PhaseEntries(list, p))
    BY <2>1, <2>2, FS_Subset
  <2> QED
    BY <2>1, <2>3, <1>1
<1> HIDE DEF f, g
<1>8. \A p \in 0..n : SumOver(g, PhaseEntries(more, p)) = SumOver(f, PhaseEntries(list, p))
  <2> TAKE p \in 0..n
  <2>1. \A o \in PhaseEntries(list, p) : g[o] = f[o]
    BY <1>5, <1>7
  <2>2. SumOver(g, PhaseEntries(list, p)) = SumOver(f, PhaseEntries(list, p))
    BY <2>1, <1>7, SumDepends
  <2> QED
    BY <2>2, <1>7
<1>9. \A p \in 1..n : played[p] = SumOver(g, PhaseEntries(more, p))
  <2> TAKE p \in 1..n
  <2>1. p \in 0..n
    BY <1>1
  <2>2. playback[p] = SumOver(f, PhaseEntries(list, p))
    BY DEF PhasesAdded, f
  <2> QED
    BY <2>1, <2>2, <1>4, <1>8
<1>10. Final(playback) = SumOver(g, PhaseEntries(more, n))
  <2>1. CASE n = 0
    <3>1. PhaseEntries(more, n) = {}
      BY <2>1 DEF PhaseEntries
    <3> QED
      BY <2>1, <3>1, <1>1, SumEmpty
  <2>2. CASE n # 0
    <3>1. n \in 1..n
      BY <2>2, <1>1
    <3>2. Final(playback) = played[n]
      BY <2>2, <3>1, <1>1, <1>4
    <3> QED
      BY <3>1, <3>2, <1>9
  <2> QED
    BY <2>1, <2>2
<1>11. total = SumOver(g, PhaseEntries(more, n + 1))
  <2>1. CASE i.kind \in {"setp", "fc"}
    <3>1. /\ PhaseEntries(more, n + 1) = PhaseEntries(more, n) \cup {n + 1}
          /\ n + 1 \notin PhaseEntries(more, n)
      BY <2>1, <1>1, <1>3 DEF PhaseEntries
    <3>2. \A o \in PhaseEntries(more, n) \cup {n + 1} : g[o] \in Int
      BY <1>1, <1>6, <1>7
    <3>3. IsFiniteSet(PhaseEntries(more, n))
      BY <1>1, <1>7
    <3>4. SumOver(g, PhaseEntries(more, n + 1)) = Final(playback) + g[n + 1]
      BY <3>1, <3>2, <3>3, <1>10, SumAdd
    <3>5. g[n + 1] = delta
      <4>1. n + 1 \in 1..Len(more) /\ (n + 1 = 1 <=> n = 0) /\ (n + 1) - 1 = n
        BY <1>1, <1>3
      <4>2. n # 0 => played[n] = Final(playback)
        <5>1. n # 0 => n \in 1..n
          BY <1>1
        <5> QED
          BY <5>1, <1>1, <1>4
      <4>3. g[n + 1] = IF i.kind = "setp"
                       THEN total - (IF n = 0 THEN 0 ELSE played[n]) ELSE i.value
        BY <4>1, <1>3, <1>4 DEF g, Shifts
      <4>4. CASE i.kind = "setp"
        <5>1. g[n + 1] = total - Final(playback)
          BY <4>2, <4>3, <4>4, <1>1
        <5> QED
          BY <5>1, <1>1, <1>2 DEF total
      <4>5. CASE i.kind # "setp"
        BY <2>1, <4>3, <4>5
      <4> QED
        BY <4>4, <4>5
    <3> QED
      BY <3>4, <3>5 DEF total
  <2>2. CASE i.kind \notin {"setp", "fc"}
    <3>1. PhaseEntries(more, n + 1) = PhaseEntries(more, n)
      BY <2>2, <1>1, <1>3 DEF PhaseEntries
    <3>2. delta = 0
      BY <2>2
    <3> QED
      BY <3>1, <3>2, <1>1, <1>10 DEF total
  <2> QED
    BY <2>1, <2>2
<1>12. \A p \in 1..n + 1 : played[p] = SumOver(g, PhaseEntries(more, p))
  <2> TAKE p \in 1..n + 1
  <2>1. p \in 1..n \/ p = n + 1
    BY <1>1
  <2> QED
    BY <2>1, <1>4, <1>9, <1>11
<1>13. PhasesAdded(more, played)
  BY <1>3, <1>4, <1>12 DEF PhasesAdded, g
<1> QED
  BY <1>13 DEF more, played, total

\* It is counted if it is an acquisition.
LEMMA AcquisitionAppended ==
  ASSUME NEW list \in Seq(Items), NEW playback, AcquisitionsCounted(list, playback),
         NEW i \in Items
  PROVE  AcquisitionsCounted(Append(list, i),
                             Append(playback, Final(playback) + AcquisitionsDelta(i)))
<1> DEFINE n == Len(list)
           more == Append(list, i)
           total == Final(playback) + AcquisitionsDelta(i)
           played == Append(playback, total)
<1>1. /\ playback \in Seq(Int) /\ Len(playback) = n /\ n \in Nat
      /\ Final(playback) \in Int /\ AcquisitionsDelta(i) \in Int
      /\ Final(playback) = (IF n = 0 THEN 0 ELSE playback[n])
  BY FinalIs DEF AcquisitionsCounted, AcquisitionsDelta
<1>2. total \in Int
  BY <1>1
<1> HIDE DEF total
<1>3. /\ Len(more) = n + 1 /\ more[n + 1] = i /\ \A p \in 1..n : more[p] = list[p]
  BY ListAppended
<1>4. /\ Len(played) = n + 1 /\ played[n + 1] = total
      /\ \A p \in 1..n : played[p] = playback[p]
      /\ played \in Seq(Int)
  BY <1>1, <1>2, ListAppended
<1> HIDE DEF more, played
<1>5. \A p \in 0..n : /\ AcquireEntries(more, p) = AcquireEntries(list, p)
                      /\ IsFiniteSet(AcquireEntries(more, p))
  <2> TAKE p \in 0..n
  <2>1. AcquireEntries(more, p) = AcquireEntries(list, p) /\ AcquireEntries(more, p) \subseteq 1..p
    BY <1>1, <1>3 DEF AcquireEntries
  <2>2. IsFiniteSet(1..p)
    BY <1>1, FS_Interval
  <2> QED
    BY <2>1, <2>2, FS_Subset
<1>6. \A p \in 1..n : played[p] = Cardinality(AcquireEntries(more, p))
  <2> TAKE p \in 1..n
  <2>1. p \in 0..n
    BY <1>1
  <2>2. playback[p] = Cardinality(AcquireEntries(list, p))
    BY DEF AcquisitionsCounted
  <2> QED
    BY <2>1, <2>2, <1>4, <1>5
<1>7. Final(playback) = Cardinality(AcquireEntries(more, n))
  <2>1. CASE n = 0
    <3>1. AcquireEntries(more, n) = {}
      BY <2>1 DEF AcquireEntries
    <3> QED
      BY <2>1, <3>1, <1>1, FS_EmptySet
  <2>2. CASE n # 0
    BY <2>2, <1>1, <1>4, <1>6
  <2> QED
    BY <2>1, <2>2
<1>8. total = Cardinality(AcquireEntries(more, n + 1))
  <2>1. CASE i.kind = "acquire"
    <3>1. /\ AcquireEntries(more, n + 1) = AcquireEntries(more, n) \cup {n + 1}
          /\ n + 1 \notin AcquireEntries(more, n)
      BY <2>1, <1>1, <1>3 DEF AcquireEntries
    <3>2. IsFiniteSet(AcquireEntries(more, n))
      BY <1>1, <1>5
    <3>3. Cardinality(AcquireEntries(more, n + 1)) = Cardinality(AcquireEntries(more, n)) + 1
      BY <3>1, <3>2, FS_AddElement
    <3> QED
      BY <2>1, <3>3, <1>7 DEF total, AcquisitionsDelta
  <2>2. CASE i.kind # "acquire"
    <3>1. AcquireEntries(more, n + 1) = AcquireEntries(more, n)
      BY <2>2, <1>1, <1>3 DEF AcquireEntries
    <3> QED
      BY <2>2, <3>1, <1>1, <1>7 DEF total, AcquisitionsDelta
  <2> QED
    BY <2>1, <2>2
<1>9. \A p \in 1..n + 1 : played[p] = Cardinality(AcquireEntries(more, p))
  <2> TAKE p \in 1..n + 1
  <2>1. p \in 1..n \/ p = n + 1
    BY <1>1
  <2> QED
    BY <2>1, <1>4, <1>6, <1>8
<1>10. AcquisitionsCounted(more, played)
  BY <1>3, <1>4, <1>9 DEF AcquisitionsCounted
<1> QED
  BY <1>10 DEF more, played, total

LEMMA SlotsAppended ==
  ASSUME NEW list \in Seq(Items), SlotsAscend(list), NEW i \in Items,
         \A p \in DOMAIN list :
           (list[p].kind = "acquire") = (i.kind = "acquire") => list[p].slot <= i.slot
  PROVE  SlotsAscend(Append(list, i))
<1> DEFINE n == Len(list)
           more == Append(list, i)
<1>1. /\ Len(more) = n + 1 /\ more[n + 1] = i /\ \A p \in 1..n : more[p] = list[p]
      /\ n \in Nat /\ DOMAIN list = 1..n
  BY ListAppended
<1> HIDE DEF more
<1>2. ASSUME NEW o \in 1..n + 1, NEW p \in 1..n + 1, o < p,
             (more[o].kind = "acquire") = (more[p].kind = "acquire")
      PROVE  more[o].slot <= more[p].slot
  <2>1. o \in 1..n /\ (p \in 1..n \/ p = n + 1)
    BY <1>1, <1>2
  <2>2. CASE p \in 1..n
    BY <1>1, <1>2, <2>1, <2>2 DEF SlotsAscend
  <2>3. CASE p = n + 1
    BY <1>1, <1>2, <2>1, <2>3
  <2> QED
    BY <2>1, <2>2, <2>3
<1>3. SlotsAscend(more)
  BY <1>1, <1>2 DEF SlotsAscend
<1> QED
  BY <1>3 DEF more

\* What has a start, or is still to be given one; time does not run backwards.
Placed ==
  Built => \A c \in Clocks : \A p \in Schedulable(c) :
    insts[c][p].slot \in left \/ start[c][p] > 0
Forward == \A c \in Clocks : sync[c] + dispatch[c] >= 0
Finished == pc = "done" => left = {}

Played ==
  \A c \in Clocks : /\ SlotsAscend(insts[c])
                    /\ PhasesAdded(insts[c], phase[c])
                    /\ AcquisitionsCounted(insts[c], acquired[c])
PlayedTypes == phase \in [Clocks -> Seq(Int)] /\ acquired \in [Clocks -> Seq(Int)]

PlayInv == Placed /\ Forward /\ Finished /\ Played /\ PlayedTypes

LEMMA SlotPlay ==
  ASSUME BarrierInv, PlayInv, NEW slot \in left, NEW b, ScheduleSlot(slot, b)
  PROVE  PlayInv'
<1>1. /\ pc = "schedule" /\ pc' = pc /\ insts' = insts /\ phase' = phase
      /\ acquired' = acquired /\ left' = left \ {slot}
      /\ sync' = [c \in Clocks |->
                    IF c \in Active(slot) THEN b - slot - dispatch[c] ELSE sync[c]]
      /\ dispatch' = [c \in Clocks |-> dispatch[c] + Cardinality(At(c, slot))]
      /\ start' = [c \in Clocks |-> [p \in DOMAIN insts[c] |->
                    IF p \in At(c, slot) THEN b + Rank(c, slot, p) ELSE start[c][p]]]
  BY TicksAddUp DEF BarrierInv, ScheduleSlot, registry
<1>2. /\ slot \in Nat
      /\ \A c \in Clocks : sync[c] \in Int /\ dispatch[c] \in Int
  BY DEF BarrierInv, ScheduleShape
<1>3. PICK a \in Active(slot) : b = slot + sync[a] + dispatch[a]
  BY DEF ScheduleSlot, IsBarrier, Ready
<1>4. b \in Int /\ b >= 0 /\ \A c \in Active(slot) : slot + sync[c] + dispatch[c] <= b
  <2>1. a \in Clocks
    BY DEF Active
  <2>2. sync[a] + dispatch[a] >= 0 /\ sync[a] \in Int /\ dispatch[a] \in Int
    BY <2>1, <1>2 DEF PlayInv, Forward
  <2> QED
    BY <1>2, <1>3, <2>2 DEF ScheduleSlot, IsBarrier, Ready
<1>5. \A c \in Clocks : Cardinality(At(c, slot)) \in Nat
  <2> TAKE c \in Clocks
  <2>1. CASE At(c, slot) = {}
    BY <2>1, FS_EmptySet
  <2>2. CASE At(c, slot) # {}
    BY <2>2, <1>2, RankFacts DEF BarrierInv
  <2> QED
    BY <2>1, <2>2
<1>6. Forward'
  <2>1. ASSUME NEW c \in Clocks
        PROVE  sync'[c] + dispatch'[c] >= 0
    <3>1. /\ sync'[c] = (IF c \in Active(slot) THEN b - slot - dispatch[c] ELSE sync[c])
          /\ dispatch'[c] = dispatch[c] + Cardinality(At(c, slot))
      BY <1>1
    <3>2. sync[c] + dispatch[c] >= 0
      BY DEF PlayInv, Forward
    <3>3. CASE c \in Active(slot)
      BY <3>1, <3>2, <3>3, <1>2, <1>4, <1>5
    <3>4. CASE c \notin Active(slot)
      BY <3>1, <3>2, <3>4, <1>2, <1>5
    <3> QED
      BY <3>3, <3>4
  <2> QED
    BY <2>1 DEF Forward
<1>7. Placed'
  <2>1. ASSUME NEW c \in Clocks, NEW p \in Schedulable(c), insts[c][p].slot \notin left'
        PROVE  start'[c][p] > 0
    <3>1. p \in DOMAIN insts[c]
      BY DEF Schedulable
    <3>2. start'[c][p] = IF p \in At(c, slot) THEN b + Rank(c, slot, p) ELSE start[c][p]
      BY <3>1, <1>1
    <3>3. CASE p \in At(c, slot)
      <4>1. Rank(c, slot, p) \in 1..Cardinality(At(c, slot))
        BY <3>3, <1>2, RankFacts DEF BarrierInv
      <4> QED
        BY <3>2, <3>3, <4>1, <1>4, <1>5
    <3>4. CASE p \notin At(c, slot)
      <4>1. insts[c][p].slot \notin left
        BY <3>4, <2>1, <1>1 DEF At
      <4> QED
        BY <3>2, <3>4, <4>1, <1>1 DEF PlayInv, Placed, Built
    <3> QED
      BY <3>3, <3>4
  <2>2. \A c \in Clocks : Schedulable(c)' = Schedulable(c)
    BY <1>1 DEF Schedulable
  <2> QED
    BY <2>1, <2>2, <1>1 DEF Placed
<1> QED
  BY <1>1, <1>6, <1>7 DEF PlayInv, Finished, Played, PlayedTypes

LEMMA RegisterPlay ==
  ASSUME BarrierInv, PlayInv, NEW item, RegisterInstruction(item), pc = "register",
         \A c \in DOMAIN item : item[c] \in Items
  PROVE  PlayInv'
<1>1. /\ pc' = "register" /\ left' = left /\ sync' = sync /\ dispatch' = dispatch
      /\ \A c \in DOMAIN item : InOrder(c, item[c])
      /\ insts' = [c \in Clocks |-> IF c \in DOMAIN item THEN Append(insts[c], item[c])
                                                         ELSE insts[c]]
      /\ phase' = [c \in Clocks |->
           IF c \in DOMAIN item THEN Append(phase[c], Final(phase[c]) + PhaseDelta(c, item[c]))
                                ELSE phase[c]]
      /\ acquired' = [c \in Clocks |->
           IF c \in DOMAIN item
           THEN Append(acquired[c], Final(acquired[c]) + AcquisitionsDelta(item[c]))
           ELSE acquired[c]]
  BY DEF RegisterInstruction, timing
<1>2. ASSUME NEW c \in Clocks
      PROVE  /\ SlotsAscend(insts'[c])
             /\ PhasesAdded(insts'[c], phase'[c])
             /\ AcquisitionsCounted(insts'[c], acquired'[c])
  <2>1. insts[c] \in Seq(Items)
    BY DEF BarrierInv, ScheduleShape
  <2>2. /\ SlotsAscend(insts[c]) /\ PhasesAdded(insts[c], phase[c])
        /\ AcquisitionsCounted(insts[c], acquired[c])
    BY DEF PlayInv, Played
  <2>3. CASE c \notin DOMAIN item
    BY <2>2, <2>3, <1>1
  <2>4. CASE c \in DOMAIN item
    <3>1. /\ insts'[c] = Append(insts[c], item[c])
          /\ phase'[c] = Append(phase[c], Final(phase[c]) + PhaseDelta(c, item[c]))
          /\ acquired'[c] = Append(acquired[c], Final(acquired[c]) + AcquisitionsDelta(item[c]))
      BY <2>4, <1>1
    <3>2. SlotsAscend(insts'[c])
      <4>1. \A p \in DOMAIN insts[c] :
              (insts[c][p].kind = "acquire") = (item[c].kind = "acquire")
                => insts[c][p].slot <= item[c].slot
        BY <2>4, <1>1 DEF InOrder
      <4> QED
        BY <2>1, <2>2, <2>4, <3>1, <4>1, SlotsAppended
    <3>3. PhasesAdded(insts'[c], phase'[c])
      <4>1. PhaseDelta(c, item[c]) =
              (CASE item[c].kind = "setp" -> item[c].value - Final(phase[c])
                 [] item[c].kind = "fc"   -> item[c].value
                 [] OTHER                 -> 0)
        BY DEF PhaseDelta
      <4> QED
        BY <2>1, <2>2, <2>4, <3>1, <4>1, PhaseAppended
    <3>4. AcquisitionsCounted(insts'[c], acquired'[c])
      BY <2>1, <2>2, <2>4, <3>1, AcquisitionAppended
    <3> QED
      BY <3>2, <3>3, <3>4
  <2> QED
    BY <2>3, <2>4
<1>3. Played'
  BY <1>2 DEF Played
<1>4. PlayedTypes'
  <2>1. \A c \in Clocks : phase'[c] \in Seq(Int) /\ acquired'[c] \in Seq(Int)
    BY <1>2 DEF PhasesAdded, AcquisitionsCounted
  <2> QED
    BY <2>1, <1>1 DEF PlayedTypes
<1> QED
  BY <1>1, <1>3, <1>4 DEF PlayInv, Placed, Forward, Finished, Built

LEMMA NextPlay == BarrierInv /\ PlayInv /\ [ScheduleNext]_scheduleVars => PlayInv'
<1> SUFFICES ASSUME BarrierInv, PlayInv, [ScheduleNext]_scheduleVars PROVE PlayInv'
  OBVIOUS
<1>1. ASSUME NEW item, RegisterInstruction(item), pc = "register",
             \A c \in DOMAIN item : item[c] \in Items
      PROVE  PlayInv'
  BY <1>1, RegisterPlay
<1>2. ASSUME UNCHANGED <<insts, phase, acquired, left, sync, dispatch>>, ~ Built', ~ pc' = "done"
      PROVE  PlayInv'
  BY <1>2 DEF PlayInv, Placed, Forward, Finished, Played, PlayedTypes
<1>3. ASSUME UNCHANGED <<insts, phase, acquired, left, sync, dispatch, start>>,
             pc' = pc \/ (pc = "schedule" /\ pc' = "done" /\ left = {})
      PROVE  PlayInv'
  BY <1>3 DEF PlayInv, Placed, Forward, Finished, Played, PlayedTypes, Built, Schedulable
<1>4. CASE AddUnmapped
  BY <1>2, <1>4 DEF AddUnmapped, registry, timing, Built
<1>5. CASE PlanChannels
  <2>1. /\ UNCHANGED <<insts, phase, acquired, sync, dispatch>> /\ pc' = "schedule"
        /\ left' = UNION {SlotsOf(c) : c \in Clocks}
    BY <1>5, PlanFacts DEF BarrierInv
  <2>2. \A c \in Clocks : \A p \in Schedulable(c) : insts[c][p].slot \in left'
    BY <2>1 DEF SlotsOf
  <2>3. Placed'
    BY <2>1, <2>2 DEF Placed, Schedulable
  <2> QED
    BY <2>1, <2>3 DEF PlayInv, Forward, Finished, Played, PlayedTypes
<1>6. ASSUME NEW slot \in left, NEW b, ScheduleSlot(slot, b)
      PROVE  PlayInv'
  BY <1>6, SlotPlay
<1>7. CASE TailIdle
  <2>1. /\ UNCHANGED <<insts, phase, acquired, left, sync, dispatch, start>>
        /\ pc = "schedule" /\ pc' = "done" /\ left = {}
    BY <1>7 DEF TailIdle, registry
  <2> QED
    BY <2>1, <1>3
<1>8. CASE UNCHANGED scheduleVars
  BY <1>3, <1>8 DEF scheduleVars
<1> QED
  BY <1>1, <1>4, <1>5, <1>6, <1>7, <1>8, CompilerSteps

LEMMA InitPlay == ScheduleInit => PlayInv
<1> SUFFICES ASSUME ScheduleInit PROVE PlayInv
  OBVIOUS
<1>1. \A c \in Clocks : insts[c] = <<>> /\ phase[c] = <<>> /\ acquired[c] = <<>>
  BY DEF ScheduleInit
<1>2. <<>> \in Seq(Int) /\ Len(<<>>) = 0 /\ 1..0 = {}
  OBVIOUS
<1>3. Played
  BY <1>1, <1>2 DEF Played, SlotsAscend, PhasesAdded, AcquisitionsCounted
<1>4. Placed /\ Forward /\ Finished /\ PlayedTypes
  BY DEF ScheduleInit, Placed, Built, Forward, Finished, PlayedTypes
<1> QED
  BY <1>3, <1>4 DEF PlayInv

\* Of two instructions of a channel, both acquisitions or neither, the earlier
\* one in the list starts first.
LEMMA StartsInOrder ==
  ASSUME BarrierInv, PlayInv, pc = "done", NEW c \in Clocks,
         NEW o \in Schedulable(c), NEW p \in Schedulable(c), o < p,
         (insts[c][o].kind = "acquire") = (insts[c][p].kind = "acquire")
  PROVE  start[c][o] < start[c][p]
<1>1. /\ insts[c] \in Seq(Items) /\ o \in 1..Len(insts[c]) /\ p \in 1..Len(insts[c])
      /\ o \in DOMAIN insts[c] /\ p \in DOMAIN insts[c] /\ o \in Nat /\ p \in Nat
  BY DEF BarrierInv, ScheduleShape, Schedulable
<1>2. insts[c][o].slot \in Nat /\ insts[c][p].slot \in Nat
  <2>1. insts[c][o] \in Items /\ insts[c][p] \in Items
    BY <1>1, SeqElement
  <2> QED
    BY <2>1 DEF Items
<1>3. insts[c][o].slot <= insts[c][p].slot
  BY <1>1 DEF PlayInv, Played, SlotsAscend
<1>4. start[c] \in [DOMAIN insts[c] -> Int] /\ start[c][o] > 0 /\ start[c][p] > 0
  BY DEF PlayInv, Finished, Placed, Built, BarrierInv, ScheduleShape
<1>5. start[c][o] \in Int /\ start[c][p] \in Int
  BY <1>1, <1>4
<1>6. o \in Scheduled(c) /\ p \in Scheduled(c)
  BY <1>4 DEF Scheduled
<1>7. CASE insts[c][o].slot < insts[c][p].slot
  <2>1. c \in Active(insts[c][p].slot)
    <3>1. insts[c][p].slot \in SlotsOf(c) /\ insts[c][p].slot >= insts[c][p].slot
      BY <1>2 DEF SlotsOf
    <3> QED
      BY <3>1 DEF Active
  <2>2. start[c][p] - start[c][o] >= insts[c][p].slot - insts[c][o].slot + 1
    BY <1>6, <1>7, <2>1 DEF BarrierInv, DistanceKept
  <2> QED
    BY <1>2, <1>5, <1>7, <2>2
<1>8. CASE insts[c][o].slot = insts[c][p].slot
  <2>1. start[c][o] - Earlier(insts[c], o) = start[c][p] - Earlier(insts[c], p)
    BY <1>6, <1>8 DEF BarrierInv, SlotAligned
  <2>2. Earlier(insts[c], o) < Earlier(insts[c], p)
        /\ Earlier(insts[c], o) \in Nat /\ Earlier(insts[c], p) \in Nat
    <3> DEFINE slot == insts[c][o].slot
               A == At(c, slot)
               Before(x) == {y \in A : y < x}
    <3>1. o \in A /\ p \in A /\ A \subseteq 1..Len(insts[c])
      BY <1>1, <1>8 DEF At, Schedulable
    <3>2. IsFiniteSet(A)
      <4>1. Len(insts[c]) \in Int /\ 1 \in Int
        BY <1>1
      <4>2. IsFiniteSet(1..Len(insts[c]))
        BY <4>1, FS_Interval, Zenon
      <4> QED
        BY <3>1, <4>2, FS_Subset
    <3>3. /\ Earlier(insts[c], o) = Cardinality(Before(o))
          /\ Earlier(insts[c], p) = Cardinality(Before(p))
      <4>1. Before(o) = {y \in DOMAIN insts[c] :
                           /\ insts[c][y].kind \notin {"setf", "shiftf"}
                           /\ insts[c][y].slot = insts[c][o].slot /\ y < o}
        BY DEF At, Schedulable
      <4>2. Before(p) = {y \in DOMAIN insts[c] :
                           /\ insts[c][y].kind \notin {"setf", "shiftf"}
                           /\ insts[c][y].slot = insts[c][p].slot /\ y < p}
        BY <1>8 DEF At, Schedulable
      <4> QED
        BY <4>1, <4>2 DEF Earlier
    <3> HIDE DEF A
    <3>4. /\ IsFiniteSet(Before(o)) /\ IsFiniteSet(Before(p))
          /\ Before(o) \subseteq Before(p) /\ o \in Before(p) /\ o \notin Before(o)
      <4>1. Before(o) \subseteq A /\ Before(p) \subseteq A
        OBVIOUS
      <4>2. \A y \in A : y < o => y < p
        <5>1. \A y \in A : y \in Nat
          BY <3>1, <1>1
        <5> QED
          BY <5>1, <1>1
      <4>3. Before(o) \subseteq Before(p)
        BY <4>2
      <4>4. o \in Before(p) /\ o \notin Before(o)
        BY <3>1, <1>1
      <4> QED
        BY <3>2, <4>1, <4>3, <4>4, FS_Subset
    <3> HIDE DEF Before
    <3>5. Cardinality(Before(o)) < Cardinality(Before(p))
      BY <3>4, FS_Subset, FS_CardinalityType
    <3> QED
      BY <3>3, <3>4, <3>5, FS_CardinalityType
  <2> QED
    BY <2>1, <2>2, <1>5
<1> QED
  BY <1>2, <1>3, <1>7, <1>8

\* The sum of the specification is the sum of DataLemmas.
LEMMA ShiftsAreSummed ==
  ASSUME NEW c, NEW S \in SUBSET (1..Len(insts[c])), IsFiniteSet(S)
  PROVE  MapThenSumSet(LAMBDA o : PhaseShift(c, o), S) = SumOver(Shifts(insts[c], phase[c]), S)
<1> DEFINE f == Shifts(insts[c], phase[c])
           P(g) == g = [s \in SUBSET S |->
                          IF s = {} THEN 0
                          ELSE LET x == CHOOSE x \in s : TRUE
                               IN  PhaseShift(c, x) + g[s \ {x}]]
           k == CHOOSE g : P(g)
<1>1. \A g : Sums(f, S, g) <=> P(g)
  <2> SUFFICES ASSUME NEW g
               PROVE  \A s \in SUBSET S : SumStep(f, g, s) =
                        IF s = {} THEN 0
                        ELSE LET x == CHOOSE x \in s : TRUE
                             IN  PhaseShift(c, x) + g[s \ {x}]
    BY DEF Sums
  <2> TAKE s \in SUBSET S
  <2>1. CASE s = {}
    BY <2>1 DEF SumStep
  <2>2. CASE s # {}
    <3>1. PICK x \in s : x = CHOOSE y \in s : TRUE
      BY <2>2
    <3>2. f[x] = PhaseShift(c, x)
      BY DEF Shifts, PhaseShift
    <3> HIDE DEF f
    <3> QED
      BY <2>2, <3>1, <3>2 DEF SumStep
  <2> QED
    BY <2>1, <2>2
<1>2. MapThenSumSet(LAMBDA o : PhaseShift(c, o), S) = k[S]
  BY DEF MapThenSumSet, MapThenFoldSet
<1>3. PICK g : Sums(f, S, g)
  BY SumExists
<1>4. P(k)
  <2>1. P(g)
    BY <1>1, <1>3
  <2> HIDE DEF P
  <2> QED
    BY <2>1, Zenon
<1>5. Sums(f, S, k)
  BY <1>1, <1>4
<1> HIDE DEF P, k
<1> HIDE DEF f
<1>6. k[S] = SumOver(f, S)
  BY <1>5, SumIs, Zenon
<1> QED
  BY <1>2, <1>6 DEF f

\* Phases come out as the playback says, acquisitions are numbered as they start.
LEMMA PlayedBack == BarrierInv /\ PlayInv => PhaseAsPlayedBack
<1> SUFFICES ASSUME BarrierInv, PlayInv, pc = "done",
                    NEW c \in Clocks, NEW p \in Schedulable(c),
                    insts[c][p].kind \in {"setp", "fc"}
             PROVE  phase[c][p] = MapThenSumSet(LAMBDA o : PhaseShift(c, o),
                      {o \in Schedulable(c) : /\ insts[c][o].kind \in {"setp", "fc"}
                                              /\ start[c][o] <= start[c][p]})
  BY DEF PhaseAsPlayedBack
<1> DEFINE S == {o \in Schedulable(c) : /\ insts[c][o].kind \in {"setp", "fc"}
                                        /\ start[c][o] <= start[c][p]}
<1>1. /\ insts[c] \in Seq(Items) /\ DOMAIN insts[c] = 1..Len(insts[c])
      /\ Len(insts[c]) \in Nat /\ p \in 1..Len(insts[c]) /\ p \in Schedulable(c)
      /\ \A o \in Schedulable(c) : o \in 1..Len(insts[c])
  BY DEF BarrierInv, ScheduleShape, Schedulable
<1>2. \A o \in Schedulable(c) : start[c][o] \in Int
  BY <1>1 DEF BarrierInv, ScheduleShape, Built
<1>3. S = PhaseEntries(insts[c], p)
  <2>1. ASSUME NEW o \in S PROVE o \in 1..p
    <3>1. CASE o > p
      <4>1. start[c][p] < start[c][o]
        BY <1>1, <3>1, StartsInOrder
      <4> QED
        BY <1>1, <1>2, <4>1
    <3>2. CASE ~ o > p
      BY <1>1, <3>2
    <3> QED
      BY <3>1, <3>2
  <2>2. ASSUME NEW o \in 1..p, insts[c][o].kind \in {"setp", "fc"} PROVE o \in S
    <3>1. o \in Schedulable(c)
      BY <2>2, <1>1 DEF Schedulable
    <3>2. CASE o = p
      BY <2>2, <3>1, <3>2, <1>2
    <3>3. CASE o # p
      <4>1. start[c][o] < start[c][p]
        BY <1>1, <2>2, <3>1, <3>3, StartsInOrder
      <4> QED
        BY <2>2, <3>1, <4>1, <1>1, <1>2
    <3> QED
      BY <3>2, <3>3
  <2> QED
    BY <2>1, <2>2 DEF PhaseEntries
<1>4. phase[c][p] = SumOver(Shifts(insts[c], phase[c]), PhaseEntries(insts[c], p))
  BY <1>1 DEF PlayInv, Played, PhasesAdded
<1>5. IsFiniteSet(S) /\ S \in SUBSET (1..Len(insts[c]))
  <2>1. Len(insts[c]) \in Int /\ 1 \in Int
    BY <1>1
  <2>2. IsFiniteSet(1..Len(insts[c]))
    BY <2>1, FS_Interval, Zenon
  <2>3. S \in SUBSET (1..Len(insts[c]))
    BY <1>1
  <2> QED
    BY <2>2, <2>3, FS_Subset
<1> HIDE DEF S
<1>6. MapThenSumSet(LAMBDA o : PhaseShift(c, o), S) = SumOver(Shifts(insts[c], phase[c]), S)
  BY <1>5, ShiftsAreSummed
<1> QED
  BY <1>3, <1>4, <1>6 DEF S

LEMMA Numbered == BarrierInv /\ PlayInv => AcquisitionsNumbered
<1> SUFFICES ASSUME BarrierInv, PlayInv, pc = "done",
                    NEW c \in Clocks, NEW p \in Schedulable(c),
                    insts[c][p].kind = "acquire"
             PROVE  AcquisitionIndex(c, p)
                      = Cardinality({o \in Schedulable(c) : /\ insts[c][o].kind = "acquire"
                                                            /\ start[c][o] < start[c][p]})
  BY DEF AcquisitionsNumbered
<1> DEFINE S == {o \in Schedulable(c) : /\ insts[c][o].kind = "acquire"
                                        /\ start[c][o] < start[c][p]}
<1>1. /\ insts[c] \in Seq(Items) /\ DOMAIN insts[c] = 1..Len(insts[c])
      /\ Len(insts[c]) \in Nat /\ p \in 1..Len(insts[c]) /\ p \in Schedulable(c)
      /\ \A o \in Schedulable(c) : o \in 1..Len(insts[c])
  BY DEF BarrierInv, ScheduleShape, Schedulable
<1>2. \A o \in Schedulable(c) : start[c][o] \in Int
  BY <1>1 DEF BarrierInv, ScheduleShape, Built
<1>3. S = AcquireEntries(insts[c], p) \ {p}
  <2>1. ASSUME NEW o \in S PROVE o \in 1..p /\ o # p
    <3>1. CASE o > p
      <4>1. start[c][p] < start[c][o]
        BY <1>1, <3>1, StartsInOrder
      <4> QED
        BY <1>1, <1>2, <4>1
    <3>2. CASE ~ o > p
      <4>1. o # p
        BY <1>2
      <4>2. o \in 1..Len(insts[c])
        BY <1>1
      <4> QED
        BY <1>1, <3>2, <4>1, <4>2
    <3> QED
      BY <3>1, <3>2
  <2>2. ASSUME NEW o \in 1..p, insts[c][o].kind = "acquire", o # p PROVE o \in S
    <3>1. o \in Schedulable(c)
      BY <2>2, <1>1 DEF Schedulable
    <3>2. start[c][o] < start[c][p]
      BY <1>1, <2>2, <3>1, StartsInOrder
    <3> QED
      BY <2>2, <3>1, <3>2
  <2> QED
    BY <2>1, <2>2 DEF AcquireEntries
<1>4. acquired[c][p] = Cardinality(AcquireEntries(insts[c], p))
  BY <1>1 DEF PlayInv, Played, AcquisitionsCounted
<1>5. IsFiniteSet(AcquireEntries(insts[c], p)) /\ p \in AcquireEntries(insts[c], p)
  <2>1. p \in Int /\ 1 \in Int
    BY <1>1
  <2>2. IsFiniteSet(1..p)
    BY <2>1, FS_Interval, Zenon
  <2>3. AcquireEntries(insts[c], p) \in SUBSET (1..p) /\ p \in AcquireEntries(insts[c], p)
    BY <1>1 DEF AcquireEntries
  <2> QED
    BY <2>2, <2>3, FS_Subset
<1> HIDE DEF S
<1>6. Cardinality(S) = Cardinality(AcquireEntries(insts[c], p)) - 1
  BY <1>3, <1>5, FS_RemoveElement
<1> QED
  BY <1>4, <1>6 DEF AcquisitionIndex, S

\* The phase of every operation is what the channel has emitted up to it.
THEOREM PhaseCorrect == ScheduleSpec => []PhaseAsPlayedBack
BY InitBarriers, NextBarriers, InitPlay, NextPlay, PlayedBack, PTL DEF ScheduleSpec

\* The acquisitions of a channel are numbered without gaps as they start.
THEOREM AcquisitionsCorrect == ScheduleSpec => []AcquisitionsNumbered
BY InitBarriers, NextBarriers, InitPlay, NextPlay, Numbered, PTL DEF ScheduleSpec

-----------------------------------------------------------------------------
(***************************************************************************)
(* Execution: the bias currents                                            *)
(***************************************************************************)

\* Len and indexing of a list whose elements need no type.
IsSeq(s) == Len(s) \in Nat /\ s = [i \in 1 .. Len(s) |-> s[i]]

\* A function of the jobs whose values need no type.
OfJobs(f) == f = [j \in Jobs |-> f[j]]

\* The currents that experiment e asks for on a coupler.
Asked(e, u) == {b.amount : b \in {p \in e.bias : p.coupler = u}}

\* c is the current that e is to be measured under, on a coupler that is settled.
Own(e, u, c) ==
  /\ Asked(e, u) # {} => c = Strongest(Asked(e, u))
  /\ Asked(e, u) = {} /\ ShouldRestore /\ u \notin displaced => c = Parking[u]

Shape ==
  /\ stage \in [Jobs -> {"new", "preprocessed", "running", "stored", "done", "failed"}]
  /\ step \in [Jobs -> {"bias", "measure", "reset"}]
  /\ OfJobs(initial) /\ OfJobs(raw) /\ OfJobs(under)
  /\ \A j \in Jobs : IsSeq(raw[j]) /\ IsSeq(under[j]) /\ Len(raw[j]) = Len(under[j])
  /\ \A j \in Jobs : DOMAIN initial[j] = Couplers
  /\ \A j \in Jobs : \A i \in 1 .. Len(under[j]) : DOMAIN under[j][i] \subseteq Couplers
  /\ current = [u \in Couplers |-> current[u]]

\* The lock is held by the job that runs.
Exclusive ==
  /\ holder = {j \in Jobs : stage[j] = "running"}
  /\ \A j, k \in holder : j = k
  /\ \A j \in Jobs : stage[j] \in {"new", "preprocessed"} => step[j] = "bias"

\* Where the currents are between two steps, and what Reset will put back, on the
\* couplers that are not displaced.
Kept ==
  ShouldRestore => \A u \in Couplers \ displaced :
    /\ holder = {} => current[u] = Parking[u]
    /\ \A j \in holder :
         /\ step[j] = "bias" => current[u] = Parking[u]
         /\ step[j] \in {"measure", "reset"} => initial[j][u] = Parking[u]

\* Where they are when the next experiment is about to be measured.
InPlace ==
  \A j \in holder : step[j] = "measure" =>
    \A u \in Couplers \ unsettled : Own(Expts(j)[Len(under[j]) + 1], u, current[u])

\* What was measured so far.
Measured ==
  \A j \in Jobs : \A i \in 1 .. Len(under[j]) : \A u \in DOMAIN under[j][i] :
    Own(Expts(j)[i], u, under[j][i][u])

Inv == Shape /\ Exclusive /\ Kept /\ InPlace /\ Measured

LEMMA AppendFacts ==
  ASSUME NEW s, IsSeq(s), NEW e
  PROVE  /\ IsSeq(Append(s, e)) /\ Len(Append(s, e)) = Len(s) + 1
         /\ \A i \in 1 .. Len(s) : Append(s, e)[i] = s[i]
         /\ Append(s, e)[Len(s) + 1] = e
<1> DEFINE S == {s[i] : i \in 1 .. Len(s)} \cup {e}
<1>1. s \in Seq(S) /\ e \in S
  <2>1. s \in [1 .. Len(s) -> S]
    BY DEF IsSeq
  <2> QED
    BY <2>1 DEF IsSeq
<1> HIDE DEF S
<1>2. Append(s, e) \in Seq(S) /\ Len(Append(s, e)) = Len(s) + 1
  BY <1>1
<1>3. IsSeq(Append(s, e))
  <2> DEFINE t == Append(s, e)
  <2>1. t \in Seq(S) /\ Len(t) \in Nat
    BY <1>1, <1>2
  <2> HIDE DEF t
  <2>2. t = [i \in 1 .. Len(t) |-> t[i]]
    BY <2>1
  <2> QED
    BY <2>1, <2>2 DEF IsSeq, t
<1> QED
  BY <1>1, <1>2, <1>3

LEMMA ExceptFacts ==
  ASSUME NEW f, OfJobs(f), NEW j \in Jobs, NEW x
  PROVE  /\ OfJobs([f EXCEPT ![j] = x])
         /\ [f EXCEPT ![j] = x][j] = x
         /\ \A k \in Jobs \ {j} : [f EXCEPT ![j] = x][k] = f[k]
BY DEF OfJobs

\* The pulses of an experiment lead to the currents that it asks for; the other
\* couplers keep theirs.
LEMMA RampedFacts ==
  ASSUME NEW e, NEW u \in Couplers
  PROVE  Ramped(Bias(e))[u] = IF Asked(e, u) # {} THEN Strongest(Asked(e, u)) ELSE current[u]
<1>1. u \in DOMAIN Bias(e) <=> Asked(e, u) # {}
  BY DEF Bias, Asked
<1>2. u \in DOMAIN Bias(e) => Bias(e)[u] = Strongest(Asked(e, u))
  BY DEF Bias, Asked
<1> QED
  BY <1>1, <1>2 DEF Ramped

LEMMA Initial == Init => Inv
<1> SUFFICES ASSUME Init PROVE Inv
  OBVIOUS
<1>1. IsSeq(<<>>) /\ Len(<<>>) = 0
  BY DEF IsSeq
<1>2. Shape
  <2>1. OfJobs(initial) /\ OfJobs(raw) /\ OfJobs(under)
    BY DEF Init, OfJobs
  <2>2. DOMAIN Parking = Couplers /\ Parking = [u \in Couplers |-> Parking[u]]
    BY ExecutionAssumption DEF ExecutionAssumption
  <2> QED
    BY <1>1, <2>1, <2>2 DEF Init, Shape
<1>3. Exclusive
  BY DEF Init, Exclusive
<1>4. Kept /\ InPlace
  BY DEF Init, Kept, InPlace
<1>5. Measured
  BY <1>1 DEF Init, Measured
<1> QED
  BY <1>2, <1>3, <1>4, <1>5 DEF Inv

\* What was measured stays as it is when more couplers are displaced.
LEMMA MeasuredStays ==
  ASSUME Inv, UNCHANGED <<qobj, under>>, displaced \subseteq displaced'
  PROVE  Measured'
<1>1. SUFFICES ASSUME NEW j \in Jobs, NEW i \in 1 .. Len(under[j]), NEW u \in DOMAIN under[j][i]
               PROVE  Own(Expts(j)[i], u, under[j][i][u])'
  BY DEF Measured
<1>2. Own(Expts(j)[i], u, under[j][i][u])
  BY DEF Inv, Measured
<1>3. Expts(j)' = Expts(j)
  BY DEF Expts
<1> DEFINE e == Expts(j)[i]
<1>4. e' = e
  BY <1>3
<1> HIDE DEF e
<1>5. Own(e, u, under[j][i][u])
  BY <1>2 DEF e
<1>6. Own(e, u, under[j][i][u])'
  BY <1>4, <1>5 DEF Own, Asked
<1> QED
  BY <1>6 DEF e

\* A job that does not run changes its stage only, and does not start.
LEMMA OffTheInstruments ==
  ASSUME Inv, NEW j \in Jobs, NEW x \in {"preprocessed", "done", "failed"},
         stage[j] # "running", x = "preprocessed" => stage[j] = "new",
         stage' = [stage EXCEPT ![j] = x],
         UNCHANGED <<qobj, instruments, raw, under>>
  PROVE  Inv'
<1>1. \A k \in Jobs : stage'[k] = "running" <=> stage[k] = "running"
  BY DEF Inv, Shape
<1>2. Shape'
  BY DEF Inv, Shape, instruments, OfJobs
<1>3. Exclusive'
  BY <1>1 DEF Inv, Shape, Exclusive, instruments
<1>4. Kept' /\ InPlace'
  BY DEF Inv, Kept, InPlace, Own, Expts, instruments
<1>5. Measured'
  BY MeasuredStays DEF instruments
<1> QED
  BY <1>2, <1>3, <1>4, <1>5 DEF Inv

\* A span command leaves what it does not displace or unsettle in place.
LEMMA SpanFacts ==
  ASSUME Inv, Span
  PROVE  /\ displaced \subseteq displaced' /\ unsettled \subseteq unsettled'
         /\ current' = [u \in Couplers |-> current'[u]]
         /\ \A u \in Couplers : u \notin displaced' => current'[u] = current[u]
         /\ \A u \in Couplers : u \notin unsettled' => current'[u] = current[u]
<1>1. CASE UNCHANGED <<current, restarts, unsettled, displaced>>
  BY <1>1 DEF Inv, Shape
<1>2. CASE \E spanned \in SUBSET Couplers \ {{}} :
          /\ current' = [u \in Couplers |-> IF u \in spanned THEN SpanCurrent ELSE current[u]]
          /\ unsettled' = unsettled \cup spanned
          /\ displaced' = displaced \cup spanned
  BY <1>2
<1> QED
  BY <1>1, <1>2 DEF Span

\* The executor of a task is built before the job uses the instruments.
LEMMA SpanKeeps ==
  ASSUME Inv, NEW j \in Jobs, Span, UNCHANGED <<qobj, step, initial, results>>,
         NEW x \in {"preprocessed", "failed", "running"},
         stage' = [stage EXCEPT ![j] = x],
         \/ x # "running" /\ stage[j] = "new" /\ holder' = holder
         \/ x = "running" /\ stage[j] = "preprocessed" /\ holder = {} /\ holder' = {j}
  PROVE  Inv'
<1>1. Shape'
  <2>1. UNCHANGED <<step, initial, raw, under>>
    BY DEF results
  <2>2. stage' \in [Jobs -> {"new", "preprocessed", "running", "stored", "done", "failed"}]
    BY DEF Inv, Shape
  <2>3. current' = [u \in Couplers |-> current'[u]]
    BY SpanFacts
  <2> QED
    BY <2>1, <2>2, <2>3 DEF Inv, Shape, OfJobs
<1>2. Exclusive'
  BY DEF Inv, Shape, Exclusive
<1>3. Kept'
  <2> SUFFICES ASSUME ShouldRestore, NEW u \in Couplers, u \notin displaced'
               PROVE  /\ holder' = {} => current'[u] = Parking[u]
                      /\ \A k \in holder' :
                           /\ step'[k] = "bias" => current'[u] = Parking[u]
                           /\ step'[k] \in {"measure", "reset"} => initial'[k][u] = Parking[u]
    BY DEF Kept
  <2>1. u \notin displaced /\ current'[u] = current[u] /\ step' = step /\ initial' = initial
    BY SpanFacts
  <2>2. CASE holder' = holder
    BY <2>1, <2>2 DEF Inv, Kept
  <2>3. CASE stage[j] = "preprocessed" /\ holder = {} /\ holder' = {j}
    BY <2>1, <2>3 DEF Inv, Kept, Exclusive
  <2> QED
    BY <2>2, <2>3
<1>4. InPlace'
  <2> SUFFICES ASSUME NEW k \in holder', step'[k] = "measure",
                      NEW u \in Couplers, u \notin unsettled'
               PROVE  Own(Expts(k)[Len(under[k]) + 1], u, current[u])'
    BY DEF InPlace
  <2>1. /\ u \notin unsettled /\ current'[u] = current[u] /\ displaced \subseteq displaced'
        /\ step' = step /\ under' = under /\ qobj' = qobj
    BY SpanFacts DEF results
  <2>2. k \in holder
    BY <2>1 DEF Inv, Exclusive
  <2>3. Own(Expts(k)[Len(under[k]) + 1], u, current[u])
    BY <2>1, <2>2 DEF Inv, InPlace
  <2> QED
    BY <2>1, <2>3 DEF Own, Expts
<1>5. Measured'
  <2>1. displaced \subseteq displaced' /\ under' = under /\ qobj' = qobj
    BY SpanFacts DEF results
  <2> QED
    BY <2>1, MeasuredStays
<1> QED
  BY <1>1, <1>2, <1>3, <1>4, <1>5 DEF Inv

\* A step of the running job: no other job runs.
LEMMA OnTheInstruments ==
  ASSUME Inv, NEW j \in Jobs, stage[j] = "running"
  PROVE  holder = {j}
BY DEF Inv, Exclusive

LEMMA BiasKeeps ==
  ASSUME Inv, NEW j \in Jobs, SetBias(j)
  PROVE  Inv'
<1>1. /\ holder = {j} /\ step[j] = "bias"
      /\ step' = [step EXCEPT ![j] = "measure"]
      /\ current' = Ramped(Bias(Expt(j)))
      /\ initial' = IF ShouldRestore THEN [initial EXCEPT ![j] = current] ELSE initial
      /\ UNCHANGED <<qobj, stage, holder, displaced, results>>
  BY OnTheInstruments DEF SetBias, Ramps, Running
<1>2. Shape'
  <2>1. OfJobs(initial')
    BY <1>1, ExceptFacts DEF Inv, Shape
  <2>2. \A k \in Jobs : DOMAIN initial'[k] = Couplers
    <3>1. DOMAIN current = Couplers /\ OfJobs(initial) /\ \A k \in Jobs : DOMAIN initial[k] = Couplers
      BY DEF Inv, Shape
    <3>2. CASE ~ ShouldRestore
      BY <1>1, <3>1, <3>2
    <3>3. CASE ShouldRestore
      <4>1. initial' = [initial EXCEPT ![j] = current]
        BY <1>1, <3>3
      <4>2. initial'[j] = current /\ \A k \in Jobs \ {j} : initial'[k] = initial[k]
        BY <3>1, <4>1, ExceptFacts
      <4> QED
        BY <3>1, <4>2
    <3> QED
      BY <3>2, <3>3
  <2>3. current' = [u \in Couplers |-> current'[u]]
    BY <1>1 DEF Ramped
  <2> QED
    BY <1>1, <2>1, <2>2, <2>3 DEF Inv, Shape, results, OfJobs
<1>3. Exclusive'
  BY <1>1 DEF Inv, Shape, Exclusive
<1>a. step'[j] = "measure" /\ holder' = {j}
  BY <1>1 DEF Inv, Shape
<1>4. Kept'
  <2> SUFFICES ASSUME ShouldRestore, NEW u \in Couplers, u \notin displaced
               PROVE  initial'[j][u] = Parking[u]
    BY <1>1, <1>a DEF Kept
  <2>1. current[u] = Parking[u]
    BY <1>1 DEF Inv, Kept
  <2>2. initial'[j] = current
    <3>1. OfJobs(initial)
      BY DEF Inv, Shape
    <3> QED
      BY <1>1, <3>1 DEF OfJobs
  <2> QED
    BY <2>1, <2>2
<1>5. InPlace'
  <2>1. UNCHANGED <<qobj, under, displaced>>
    BY <1>1 DEF results
  <2>2. Expt(j) = Expts(j)[Len(under[j]) + 1]
    BY <1>1 DEF Expt, Inv, Shape
  <2> SUFFICES ASSUME NEW u \in Couplers
               PROVE  Own(Expt(j), u, current'[u])
    BY <1>a, <2>1, <2>2 DEF InPlace, Own, Expts
  <2>3. current'[u] = IF Asked(Expt(j), u) # {} THEN Strongest(Asked(Expt(j), u)) ELSE current[u]
    BY <1>1, RampedFacts
  <2>4. ShouldRestore /\ u \notin displaced => current[u] = Parking[u]
    BY <1>1 DEF Inv, Kept
  <2> QED
    BY <2>3, <2>4 DEF Own
<1>6. Measured'
  BY <1>1, MeasuredStays DEF results
<1> QED
  BY <1>2, <1>3, <1>4, <1>5, <1>6 DEF Inv

LEMMA MeasureKeeps ==
  ASSUME Inv, NEW j \in Jobs, Measure(j)
  PROVE  Inv'
<1> DEFINE m == [u \in Couplers \ unsettled |-> current[u]]
<1>1. /\ holder = {j} /\ step[j] = "measure"
      /\ step' = [step EXCEPT ![j] = "reset"]
      /\ UNCHANGED <<qobj, stage, holder, current, initial, unsettled, displaced>>
  BY OnTheInstruments DEF Measure, Running
<1>2. PICK d : raw' = [raw EXCEPT ![j] = Append(@, d)]
  BY DEF Measure
<1>3. under' = [under EXCEPT ![j] = Append(@, m)]
  BY DEF Measure
<1>m. DOMAIN m \subseteq Couplers /\ \A u \in DOMAIN m : u \notin unsettled /\ m[u] = current[u]
  OBVIOUS
<1> HIDE DEF m
<1>a. OfJobs(raw) /\ OfJobs(under)
  BY DEF Inv, Shape
<1>4. raw'[j] = Append(raw[j], d) /\ under'[j] = Append(under[j], m)
  BY <1>2, <1>3, <1>a DEF OfJobs
<1>5. \A k \in Jobs \ {j} : raw'[k] = raw[k] /\ under'[k] = under[k]
  BY <1>2, <1>3, <1>a DEF OfJobs
<1>6. IsSeq(raw[j]) /\ IsSeq(under[j]) /\ Len(raw[j]) = Len(under[j]) /\ Len(under[j]) \in Nat
  BY DEF Inv, Shape, IsSeq
<1>7. /\ IsSeq(raw'[j]) /\ IsSeq(under'[j]) /\ Len(raw'[j]) = Len(under'[j])
      /\ Len(under'[j]) = Len(under[j]) + 1
      /\ \A i \in 1 .. Len(under[j]) : under'[j][i] = under[j][i]
      /\ under'[j][Len(under[j]) + 1] = m
  BY <1>4, <1>6, AppendFacts
<1>b. ASSUME NEW k \in Jobs, NEW i \in 1 .. Len(under'[k])
      PROVE  \/ i \in 1 .. Len(under[k]) /\ under'[k][i] = under[k][i]
             \/ k = j /\ i = Len(under[j]) + 1 /\ under'[k][i] = m
  <2>1. CASE k # j
    BY <1>5, <1>b, <2>1
  <2>2. CASE k = j
    BY <1>6, <1>7, <1>b, <2>2
  <2> QED
    BY <2>1, <2>2
<1>8. Shape'
  <2>1. \A k \in Jobs : IsSeq(raw'[k]) /\ IsSeq(under'[k]) /\ Len(raw'[k]) = Len(under'[k])
    BY <1>5, <1>7 DEF Inv, Shape
  <2>2. OfJobs(raw') /\ OfJobs(under')
    BY <1>2, <1>3, <1>a, ExceptFacts
  <2>3. \A k \in Jobs : \A i \in 1 .. Len(under'[k]) : DOMAIN under'[k][i] \subseteq Couplers
    BY <1>b, <1>m DEF Inv, Shape
  <2> QED
    BY <1>1, <2>1, <2>2, <2>3 DEF Inv, Shape, OfJobs
<1>9. Exclusive'
  BY <1>1 DEF Inv, Shape, Exclusive
<1>10. Kept' /\ InPlace'
  BY <1>1 DEF Inv, Shape, Kept, InPlace
<1>11. Measured'
  <2> SUFFICES ASSUME NEW k \in Jobs, NEW i \in 1 .. Len(under'[k]),
                      NEW u \in DOMAIN under'[k][i]
               PROVE  Own(Expts(k)[i], u, under'[k][i][u])
    BY <1>1 DEF Measured, Own, Expts
  <2>1. CASE i \in 1 .. Len(under[k]) /\ under'[k][i] = under[k][i]
    BY <2>1 DEF Inv, Measured
  <2>2. CASE k = j /\ i = Len(under[j]) + 1 /\ under'[k][i] = m
    BY <1>1, <1>m, <2>2 DEF Inv, InPlace
  <2> QED
    BY <1>b, <2>1, <2>2
<1> QED
  BY <1>8, <1>9, <1>10, <1>11 DEF Inv

LEMMA ResetKeeps ==
  ASSUME Inv, NEW j \in Jobs, Reset(j)
  PROVE  Inv'
<1>1. /\ holder = {j} /\ step[j] = "reset"
      /\ step' = [step EXCEPT ![j] = "bias"]
      /\ current' = IF ShouldRestore THEN Ramped(initial[j]) ELSE current
      /\ UNCHANGED <<qobj, stage, holder, initial, displaced, results>>
  BY OnTheInstruments DEF Reset, Running
<1>2. Shape'
  <2>1. current' = [u \in Couplers |-> current'[u]]
    BY <1>1 DEF Ramped, Inv, Shape
  <2> QED
    BY <1>1, <2>1 DEF Inv, Shape, results, OfJobs
<1>3. Exclusive'
  BY <1>1 DEF Inv, Shape, Exclusive
<1>a. step'[j] = "bias" /\ holder' = {j}
  BY <1>1 DEF Inv, Shape
<1>4. Kept'
  <2> SUFFICES ASSUME ShouldRestore, NEW u \in Couplers, u \notin displaced
               PROVE  current'[u] = Parking[u]
    BY <1>1, <1>a DEF Kept
  <2>1. initial[j][u] = Parking[u] /\ DOMAIN initial[j] = Couplers
    BY <1>1 DEF Inv, Kept, Shape
  <2> QED
    BY <1>1, <2>1 DEF Ramped
<1>5. InPlace'
  BY <1>a DEF InPlace
<1>6. Measured'
  BY <1>1, MeasuredStays DEF results
<1> QED
  BY <1>2, <1>3, <1>4, <1>5, <1>6 DEF Inv

\* The running job ends; when it fails, its bias may stay.
LEMMA EndKeeps ==
  ASSUME Inv, NEW j \in Jobs, stage[j] = "running", NEW x \in {"stored", "failed"},
         stage' = [stage EXCEPT ![j] = x], holder' = {},
         x = "failed" => displaced' = displaced \cup {u \in Couplers : current[u] # Parking[u]},
         x = "stored" => step[j] = "bias" /\ displaced' = displaced,
         UNCHANGED <<qobj, step, current, initial, raw, under>>
  PROVE  Inv'
<1>1. holder = {j}
  BY OnTheInstruments
<1>2. displaced \subseteq displaced'
  OBVIOUS
<1>3. Shape'
  BY DEF Inv, Shape, OfJobs
<1>4. Exclusive'
  BY <1>1 DEF Inv, Shape, Exclusive
<1>5. Kept'
  <2> SUFFICES ASSUME ShouldRestore, NEW u \in Couplers, u \notin displaced'
               PROVE  current[u] = Parking[u]
    BY DEF Kept
  <2>1. CASE x = "failed"
    BY <2>1
  <2>2. CASE x = "stored"
    BY <1>1, <1>2, <2>2 DEF Inv, Kept
  <2> QED
    BY <2>1, <2>2
<1>6. InPlace'
  BY DEF InPlace
<1>7. Measured'
  BY <1>2, MeasuredStays
<1> QED
  BY <1>3, <1>4, <1>5, <1>6, <1>7 DEF Inv

LEMMA Consecution ==
  Inv /\ [Next]_vars => Inv'
<1> SUFFICES ASSUME Inv, [Next]_vars PROVE Inv'
  OBVIOUS
<1>1. ASSUME NEW j \in Jobs, Preprocess(j) PROVE Inv'
  <2>1. PICK x \in {"preprocessed", "failed"} : stage' = [stage EXCEPT ![j] = x]
    BY <1>1 DEF Preprocess
  <2> QED
    BY <1>1, <2>1, SpanKeeps DEF Preprocess
<1>2. ASSUME NEW j \in Jobs, Begin(j) PROVE Inv'
  BY <1>2, SpanKeeps DEF Begin
<1>3. ASSUME NEW j \in Jobs, SetBias(j) PROVE Inv'
  BY <1>3, BiasKeeps
<1>4. ASSUME NEW j \in Jobs, Measure(j) PROVE Inv'
  BY <1>4, MeasureKeeps
<1>5. ASSUME NEW j \in Jobs, Reset(j) PROVE Inv'
  BY <1>5, ResetKeeps
<1>6. ASSUME NEW j \in Jobs, Fail(j) PROVE Inv'
  BY <1>6, EndKeeps DEF Fail, Raise, results
<1>7. ASSUME NEW j \in Jobs, Store(j) PROVE Inv'
  BY <1>7, EndKeeps DEF Store, Running
<1>8. ASSUME NEW j \in Jobs, Postprocess(j) PROVE Inv'
  <2>1. PICK x \in {"done", "failed"} : stage' = [stage EXCEPT ![j] = x]
    BY <1>8 DEF Postprocess
  <2>2. stage[j] = "stored" /\ UNCHANGED <<qobj, instruments, raw, under>>
    BY <1>8 DEF Postprocess
  <2> QED
    BY <2>1, <2>2, OffTheInstruments
<1>9. CASE UNCHANGED vars
  <2>1. UNCHANGED <<qobj, stage, holder, step, current, initial, raw, under,
                    unsettled, displaced>>
    BY <1>9 DEF vars
  <2>2. Shape'
    BY <2>1 DEF Inv, Shape, OfJobs
  <2>3. Exclusive' /\ Kept'
    BY <2>1 DEF Inv, Exclusive, Kept
  <2>4. InPlace'
    BY <2>1 DEF Inv, InPlace, Own, Expts
  <2> QED
    BY <2>1, <2>2, <2>3, <2>4, MeasuredStays DEF Inv
<1> QED
  BY <1>1, <1>2, <1>3, <1>4, <1>5, <1>6, <1>7, <1>8, <1>9 DEF Next, Terminated

\* What the invariant says of the property.
LEMMA MeasuredSuffices ==
  Inv => MeasuredUnderOwnBias
<1> SUFFICES ASSUME Inv, NEW j \in Jobs, NEW i \in DOMAIN under[j], NEW u \in DOMAIN under[j][i]
             PROVE  Own(Expts(j)[i], u, under[j][i][u])
  BY DEF MeasuredUnderOwnBias, Own, Asked
<1>1. i \in 1 .. Len(under[j])
  BY DEF Inv, Shape, IsSeq
<1> QED
  BY <1>1 DEF Inv, Measured

\* Every experiment is measured with the couplers that it biases at the currents
\* that it asks for and, with should_restore_currents, with the others at the
\* parking currents, except couplers that still ramp or are spanned meanwhile, and
\* except unbiased ones that a failed job or a span command has displaced
\* (QuantifyExecutor._run_native).
THEOREM BiasCorrect == Spec => []MeasuredUnderOwnBias
<1>1. Init => Inv
  BY Initial
<1>2. Inv /\ [Next]_vars => Inv'
  BY Consecution
<1>3. Inv => MeasuredUnderOwnBias
  BY MeasuredSuffices
<1> QED
  BY <1>1, <1>2, <1>3, PTL DEF Spec

-----------------------------------------------------------------------------
(***************************************************************************)
(* Execution: the digits of a number                                       *)
(***************************************************************************)

\* Horner's form of the number with the digits r.
LEMMA DecimalFacts ==
  ASSUME NEW n \in Nat, NEW r \in [0 .. (n - 1) -> {0, 1}]
  PROVE  \E d \in [0 .. n -> Nat] :
           Decimal(r) = d[0] /\ \A c \in 0 .. (n - 1) : d[c] = r[c] + 2 * d[c + 1]
<1> DEFINE Horner(d) == d = [c \in 0 .. n |-> IF c = n THEN 0 ELSE r[c] + 2 * d[c + 1]]
<1>1. DOMAIN r = 0 .. (n - 1) /\ Cardinality(DOMAIN r) = n
  <2>1. 0 \in Int /\ n - 1 \in Int /\ (0 <= n - 1 \/ n = 0)
    OBVIOUS
  <2>2. Cardinality(0 .. (n - 1)) = n
    BY <2>1, FS_Interval
  <2> QED
    BY <2>2
<1>2. \E d : Horner(d)
  <2> DEFINE F == [x \in (1 .. n) \X Nat |-> r[n - x[1]] + 2 * x[2]]
  <2>1. F \in [(1 .. n) \X Nat -> Nat]
    <3> SUFFICES ASSUME NEW x \in (1 .. n) \X Nat PROVE r[n - x[1]] + 2 * x[2] \in Nat
      OBVIOUS
    <3>1. n - x[1] \in 0 .. (n - 1) /\ x[2] \in Nat
      OBVIOUS
    <3>2. r[n - x[1]] \in Nat
      BY <3>1
    <3> QED
      BY <3>1, <3>2
  <2>2. \A i \in 1 .. n, v \in Nat : F[<<i, v>>] = r[n - i] + 2 * v
    OBVIOUS
  <2> HIDE DEF F
  <2>3. PICK g \in [0 .. n -> Nat] : g[0] = 0 /\ \A i \in 1 .. n : g[i] = F[<<i, g[i - 1]>>]
    <3>1. Recursion(F, Nat, 0, n)
      BY <2>1 DEF Recursion
    <3>2. \E g : Iterated(F, Nat, 0, n, g)
      BY <3>1, IteratesExist
    <3> QED
      BY <3>2 DEF Iterated
  <2> DEFINE d == [c \in 0 .. n |-> g[n - c]]
  <2>4. ASSUME NEW c \in 0 .. n
        PROVE  d[c] = IF c = n THEN 0 ELSE r[c] + 2 * d[c + 1]
    <3>1. CASE c = n
      BY <2>3, <3>1
    <3>2. CASE c # n
      <4>1. n - c \in 1 .. n /\ n - (n - c) = c /\ c + 1 \in 0 .. n /\ (n - c) - 1 = n - (c + 1)
        BY <3>2
      <4>2. g[n - (c + 1)] \in Nat
        BY <4>1
      <4>3. g[n - c] = r[c] + 2 * g[n - (c + 1)]
        BY <2>2, <2>3, <4>1, <4>2
      <4> QED
        BY <3>2, <4>1, <4>3
    <3> QED
      BY <3>1, <3>2
  <2>5. d = [c \in 0 .. n |-> d[c]]
    OBVIOUS
  <2> HIDE DEF d
  <2>6. Horner(d)
    BY <2>4, <2>5
  <2> QED
    BY <2>6
<1> DEFINE d == CHOOSE d : Horner(d)
<1>3. Horner(d)
  <2> HIDE DEF Horner
  <2> QED
    BY <1>2
<1>4. Decimal(r) = d[0]
  BY <1>1 DEF Decimal
<1> HIDE DEF d
<1>5. \A c \in 0 .. n : d[c] = IF c = n THEN 0 ELSE r[c] + 2 * d[c + 1]
  BY <1>3
<1>6. \A c \in 0 .. (n - 1) : d[c] = r[c] + 2 * d[c + 1]
  BY <1>5
<1>7. \A c \in 0 .. n : d[c] \in Nat
  <2> DEFINE W == {c \in 0 .. n : d[c] \notin Nat}
             I == {n - c : c \in W}
  <2>1. SUFFICES ASSUME I # {} PROVE FALSE
    OBVIOUS
  <2>2. PICK k \in I : \A m \in I : k <= m
    <3>1. I \in SUBSET Nat
      <4>1. \A c \in W : n - c \in Nat
        OBVIOUS
      <4> HIDE DEF W
      <4> QED
        BY <4>1
    <3> HIDE DEF I
    <3> QED
      BY <2>1, <3>1, LeastIndex
  <2>3. PICK c \in 0 .. n : k = n - c /\ d[c] \notin Nat
    OBVIOUS
  <2>4. c # n
    BY <1>5, <2>3
  <2>5. c + 1 \in 0 .. n /\ c \in 0 .. (n - 1) /\ n - (c + 1) \in Int /\ k \in Int
        /\ ~ (k <= n - (c + 1))
    BY <2>3, <2>4
  <2>6. d[c + 1] \in Nat
    <3>1. n - (c + 1) \notin I
      <4> HIDE DEF I
      <4> QED
        BY <2>2, <2>5
    <3> QED
      BY <2>5, <3>1
  <2>7. r[c] \in Nat /\ d[c] = r[c] + 2 * d[c + 1]
    BY <1>6, <2>5
  <2> QED
    BY <2>3, <2>6, <2>7
<1>8. d \in [0 .. n -> Nat]
  <2>1. d = [c \in 0 .. n |-> IF c = n THEN 0 ELSE r[c] + 2 * d[c + 1]]
    BY <1>3
  <2>2. d = [c \in 0 .. n |-> d[c]]
    BY <2>1
  <2> QED
    BY <1>7, <2>2
<1> QED
  BY <1>4, <1>6, <1>8

\* Halving takes the digits off one by one.
LEMMA BitFacts ==
  ASSUME NEW x \in Nat, NEW b \in Nat
  PROVE  \E h : /\ h[0] = x /\ Bit(x, b) = h[b] % 2
                /\ \A i \in 1 .. b : h[i] = h[i - 1] \div 2
<1> DEFINE Halves(h) == h = [i \in 0 .. b |-> IF i = 0 THEN x ELSE h[i - 1] \div 2]
<1>1. \E h : Halves(h)
  <2> DEFINE F == [y \in (1 .. b) \X Nat |-> y[2] \div 2]
  <2>1. F \in [(1 .. b) \X Nat -> Nat]
    <3> SUFFICES ASSUME NEW y \in (1 .. b) \X Nat PROVE y[2] \div 2 \in Nat
      OBVIOUS
    <3>1. y[2] \in Nat
      OBVIOUS
    <3> QED
      BY <3>1
  <2>2. \A i \in 1 .. b, v \in Nat : F[<<i, v>>] = v \div 2
    OBVIOUS
  <2> HIDE DEF F
  <2>3. PICK h \in [0 .. b -> Nat] : h[0] = x /\ \A i \in 1 .. b : h[i] = F[<<i, h[i - 1]>>]
    <3>1. Recursion(F, Nat, x, b)
      BY <2>1 DEF Recursion
    <3>2. \E h : Iterated(F, Nat, x, b, h)
      BY <3>1, IteratesExist
    <3> QED
      BY <3>2 DEF Iterated
  <2>4. \A i \in 0 .. b : h[i] = IF i = 0 THEN x ELSE h[i - 1] \div 2
    <3> TAKE i \in 0 .. b
    <3>1. i # 0 => i \in 1 .. b /\ i - 1 \in 0 .. b
      OBVIOUS
    <3>2. i # 0 => h[i - 1] \in Nat
      BY <3>1
    <3> QED
      BY <2>2, <2>3, <3>1, <3>2
  <2>5. h = [i \in 0 .. b |-> h[i]]
    OBVIOUS
  <2>6. Halves(h)
    BY <2>4, <2>5
  <2> QED
    BY <2>6
<1> DEFINE h == CHOOSE h : Halves(h)
<1>2. Halves(h)
  <2> HIDE DEF Halves
  <2> QED
    BY <1>1
<1>3. Bit(x, b) = h[b] % 2
  BY DEF Bit
<1> HIDE DEF h
<1>4. \A i \in 0 .. b : h[i] = IF i = 0 THEN x ELSE h[i - 1] \div 2
  BY <1>2
<1>5. h[0] = x /\ \A i \in 1 .. b : h[i] = h[i - 1] \div 2
  BY <1>4
<1> QED
  BY <1>3, <1>5

\* The digits of a number come out as they went in.
LEMMA DecimalBit ==
  ASSUME NEW n \in Nat, NEW r \in [0 .. (n - 1) -> {0, 1}], NEW b \in 0 .. (n - 1)
  PROVE  Bit(Decimal(r), b) = r[b]
<1>1. PICK d \in [0 .. n -> Nat] :
        Decimal(r) = d[0] /\ \A c \in 0 .. (n - 1) : d[c] = r[c] + 2 * d[c + 1]
  BY DecimalFacts
<1>2. d[0] \in Nat /\ b \in Nat
  OBVIOUS
<1>3. PICK h : /\ h[0] = d[0] /\ Bit(d[0], b) = h[b] % 2
               /\ \A i \in 1 .. b : h[i] = h[i - 1] \div 2
  BY <1>2, BitFacts
<1>4. \A c \in 0 .. (n - 1) : d[c] % 2 = r[c] /\ d[c] \div 2 = d[c + 1]
  <2> TAKE c \in 0 .. (n - 1)
  <2>1. c + 1 \in 0 .. n
    OBVIOUS
  <2> DEFINE w == d[c]
             v == d[c + 1]
             u == r[c]
  <2>2. v \in Nat /\ u \in {0, 1} /\ w = u + 2 * v
    BY <1>1, <2>1
  <2> HIDE DEF w, v, u
  <2>3. w % 2 = u
    BY <2>2
  <2>4. w \div 2 = v
    BY <2>2
  <2> QED
    BY <2>3, <2>4 DEF w, v, u
<1>5. \A i \in 0 .. b : h[i] = d[i]
  <2> DEFINE I == {i \in 0 .. b : h[i] # d[i]}
  <2>1. SUFFICES ASSUME I # {} PROVE FALSE
    OBVIOUS
  <2>2. PICK i \in I : \A k \in I : i <= k
    <3>1. I \in SUBSET Nat
      OBVIOUS
    <3> HIDE DEF I
    <3> QED
      BY <2>1, <3>1, LeastIndex
  <2>3. i \in 0 .. b /\ h[i] # d[i] /\ i # 0
    BY <1>3
  <2>4. i \in 1 .. b /\ i - 1 \in 0 .. b /\ ~ (i <= i - 1) /\ i - 1 \in 0 .. (n - 1) /\ (i - 1) + 1 = i
    BY <2>3
  <2>5. h[i - 1] = d[i - 1]
    <3>1. i - 1 \notin I
      <4> HIDE DEF I
      <4> QED
        BY <2>2, <2>4
    <3> QED
      BY <2>4, <3>1
  <2>6. d[i - 1] \div 2 = d[i]
    BY <1>4, <2>4
  <2> QED
    BY <1>3, <2>3, <2>4, <2>5, <2>6
<1> QED
  BY <1>1, <1>3, <1>4, <1>5
-----------------------------------------------------------------------------
(***************************************************************************)
(* Execution: the values of a result                                       *)
(***************************************************************************)

\* The values of one experiment, before and after they were in the file.
Readings == [expt : Nat, qubit : Device, col : Nat, state : {0, 1}]
ChannelsOf(e) == {Physical(q) : q \in DOMAIN e.acquire}
Datasets(e) == [ChannelsOf(e) -> {s \in Seq(Readings) : Len(s) = e.cols}]

\* The memory m of experiments x with the datasets r.
ValuesOf(m, r, x) ==
  /\ Len(m) = Len(x)
  /\ \A i \in DOMAIN m :
       /\ Range(m[i]) = UNION {Range(r[i][q]) : q \in DOMAIN r[i]}
       /\ Len(m[i]) = Cardinality(DOMAIN r[i]) * x[i].cols

AllAcquire(x) == \A i \in DOMAIN x : Acquires(x[i])

\* The classical bit of qubit q of experiment e is that of no other.
OwnBit(e, q) == \A p \in DOMAIN e.acquire \ {q} : QToC(e)[p] # QToC(e)[q]

\* The memory m of experiments x with the datasets r, discriminated.
BitsOf(m, r, x) ==
  \A i \in DOMAIN m : \A q \in DOMAIN x[i].acquire :
    OwnBit(x[i], q) => Bit(m[i], QToC(x[i])[q]) = r[i][Physical(q)][1].state

\* Each experiment has its own values, from the measurement to the file, and
\* the memory of a result has those of each experiment.
ResultsInv ==
  /\ qobj \in [Jobs -> Qobjs] /\ OfJobs(file) /\ OfJobs(memory)
  /\ \A j \in Jobs :
       /\ Len(raw[j]) <= Len(Expts(j))
       /\ stage[j] = "running" /\ step[j] = "measure" => Len(raw[j]) < Len(Expts(j))
       /\ \A i \in 1 .. Len(raw[j]) : raw[j][i] \in Datasets(Expts(j)[i])
       /\ stage[j] = "stored" => Len(raw[j]) = Len(Expts(j)) /\ file[j] = Stored(raw[j])
       /\ stage[j] = "done" /\ qobj[j].level = 1 /\ AllAcquire(Expts(j)) =>
            ValuesOf(memory[j], raw[j], Expts(j))
       /\ stage[j] = "done" /\ qobj[j].level = 2 => BitsOf(memory[j], raw[j], Expts(j))

\* sorted() lists every element.
LEMMA SortedByFacts ==
  ASSUME NEW S, IsFiniteSet(S), NEW key, \A x \in S : key[x] \in Int
  PROVE  /\ Sorts(S, key, SortedBy(S, key))
         /\ \A x \in S : \E i \in 1 .. Cardinality(S) : SortedBy(S, key)[i] = x
<1>1. PICK s : Sorts(S, key, s)
  BY SortedExists
<1>2. s \in SetToSeqs(S) /\ \A m, n \in DOMAIN s : m < n => key[s[m]] <= key[s[n]]
  BY <1>1 DEF Sorts, SetToSeqs
<1> DEFINE r == SortedBy(S, key)
<1>3. r \in SetToSeqs(S) /\ \A m, n \in DOMAIN r : m < n => key[r[m]] <= key[r[n]]
  BY <1>2 DEF SortedBy
<1> HIDE DEF r
<1>4. Sorts(S, key, r)
  BY <1>3 DEF Sorts, SetToSeqs
<1> DEFINE N == 1 .. Cardinality(S)
<1>5. r \in Injection(N, S)
  BY <1>4 DEF Sorts, Injection, IsInjective
<1>6. Cardinality(S) \in Nat /\ IsFiniteSet(N) /\ Cardinality(N) = Cardinality(S)
  <2>1. Cardinality(S) \in Nat
    BY FS_CardinalityType
  <2>2. Cardinality(S) \in Int /\ 1 \in Int /\ (1 <= Cardinality(S) \/ Cardinality(S) = 0)
    BY <2>1
  <2> QED
    BY <2>1, <2>2, FS_Interval
<1>7. r \in Surjection(N, S)
  BY <1>5, <1>6, FS_Injection
<1> QED
  BY <1>4, <1>7 DEF Surjection, r

\* The hardware map takes the qubits of the SDK to those of the device.
LEMMA PhysicalInDevice ==
  ASSUME NEW n \in 0 .. Cardinality(Device) - 1
  PROVE  Physical(n) \in Device
<1>1. IsFiniteSet(Device) /\ Cardinality(Device) \in Nat
  BY DeviceAssumption, FS_CardinalityType DEF DeviceAssumption
<1> DEFINE key == [d \in Device |-> d]
<1>2. \A d \in Device : key[d] \in Int
  BY DeviceAssumption DEF DeviceAssumption
<1> HIDE DEF key
<1>3. Sorts(Device, key, SortedBy(Device, key))
  BY <1>1, <1>2, SortedByFacts
<1>4. SortedBy(Device, key)[n + 1] \in Device
  BY <1>1, <1>3 DEF Sorts
<1> QED
  BY <1>4 DEF Physical, Ascending, key

\* quantify_to_sdk_map is the inverse of the hardware map.
LEMMA SdkOfPhysical ==
  ASSUME NEW n \in 0 .. Cardinality(Device) - 1
  PROVE  SdkQubit(Physical(n)) = n
<1>1. IsFiniteSet(Device) /\ Cardinality(Device) \in Nat
  BY DeviceAssumption, FS_CardinalityType DEF DeviceAssumption
<1> DEFINE key == [d \in Device |-> d]
           N == 0 .. Cardinality(Device) - 1
<1>2. \A d \in Device : key[d] \in Int
  BY DeviceAssumption DEF DeviceAssumption
<1> HIDE DEF key
<1>3. Sorts(Device, key, SortedBy(Device, key))
  BY <1>1, <1>2, SortedByFacts
<1>4. \A a \in N : Physical(a) = SortedBy(Device, key)[a + 1] /\ a + 1 \in 1 .. Cardinality(Device)
  BY <1>1 DEF Physical, Ascending, key
<1>5. \A a, b \in 1 .. Cardinality(Device) :
        a # b => SortedBy(Device, key)[a] # SortedBy(Device, key)[b]
  BY <1>3 DEF Sorts
<1>6. ASSUME NEW a \in N, Physical(a) = Physical(n)
      PROVE  a = n
  <2>1. a + 1 = n + 1
    BY <1>4, <1>5, <1>6
  <2> QED
    BY <2>1
<1>7. SdkQubit(Physical(n)) \in N /\ Physical(SdkQubit(Physical(n))) = Physical(n)
  BY DEF SdkQubit
<1> QED
  BY <1>6, <1>7

\* An experiment with an acquire instruction has a channel.
LEMMA ChannelFacts ==
  ASSUME NEW e, IsExperiment(e)
  PROVE  /\ ChannelsOf(e) \subseteq Device /\ IsFiniteSet(ChannelsOf(e))
         /\ Acquires(e) => ChannelsOf(e) # {}
<1>1. ChannelsOf(e) \subseteq Device
  BY PhysicalInDevice DEF ChannelsOf, IsExperiment
<1>2. IsFiniteSet(ChannelsOf(e))
  BY <1>1, DeviceAssumption, FS_Subset DEF DeviceAssumption
<1>3. ASSUME DOMAIN e.acquire = {}
      PROVE  e.acquire = <<>>
  <2>1. 1 .. 0 = {}
    OBVIOUS
  <2>2. e.acquire \in [1 .. 0 -> Nat]
    BY <1>3, <2>1 DEF IsExperiment
  <2>3. e.acquire \in Seq(Nat) /\ Len(e.acquire) = 0
    BY <2>2
  <2> QED
    BY <2>3, EmptySeq
<1> QED
  BY <1>1, <1>2, <1>3 DEF Acquires, ChannelsOf

\* xarray_to_list: all values of a dataset, each once.
LEMMA ListFacts ==
  ASSUME NEW e, IsExperiment(e), NEW data \in Datasets(e)
  PROVE  /\ Range(ListOf(e, data)) = UNION {Range(data[q]) : q \in DOMAIN data}
         /\ Len(ListOf(e, data)) = Cardinality(DOMAIN data) * e.cols
<1> DEFINE D == DOMAIN data
           c == Channels(e, data)
           n == Cardinality(D)
<1>1. D = ChannelsOf(e) /\ \A q \in D : data[q] \in Seq(Readings) /\ Len(data[q]) = e.cols
  BY DEF Datasets
<1>2. IsFiniteSet(D) /\ D \subseteq Device /\ n \in Nat /\ e.cols \in Nat
  BY <1>1, ChannelFacts, FS_CardinalityType DEF IsExperiment
<1> HIDE DEF D
<1>3. \E key : c = SortedBy(D, key) /\ \A q \in D : key[q] \in Int
  <2>1. CASE Acquires(e) /\ D \subseteq DOMAIN e.acquire
    <3>1. c = SortedBy(D, e.acquire)
      BY <2>1 DEF Channels, D
    <3>2. \A q \in D : e.acquire[q] \in Int
      BY <2>1 DEF IsExperiment
    <3> QED
      BY <3>1, <3>2
  <2>2. CASE ~ (Acquires(e) /\ D \subseteq DOMAIN e.acquire)
    <3> DEFINE key == [q \in D |-> q]
    <3>1. c = SortedBy(D, key)
      BY <2>2 DEF Channels, Ascending, D
    <3>2. \A q \in D : key[q] \in Int
      BY <1>2, DeviceAssumption DEF DeviceAssumption
    <3> QED
      BY <3>1, <3>2
  <2> QED
    BY <2>1, <2>2
<1>4. c \in [1 .. n -> D] /\ \A q \in D : \E i \in 1 .. n : c[i] = q
  <2>1. PICK key : c = SortedBy(D, key) /\ \A q \in D : key[q] \in Int
    BY <1>3
  <2> HIDE DEF c
  <2>2. Sorts(D, key, c) /\ \A q \in D : \E i \in 1 .. n : c[i] = q
    BY <1>2, <2>1, SortedByFacts
  <2> QED
    BY <2>2 DEF Sorts
<1> DEFINE seqs == [i \in DOMAIN c |-> data[c[i]]]
<1>5. ListOf(e, data) = FlattenSeq(seqs)
  BY DEF ListOf
<1> HIDE DEF c, n
<1>6. seqs \in [1 .. n -> Seq(Readings)] /\ \A i \in 1 .. n : Len(seqs[i]) = e.cols
  BY <1>1, <1>4
<1>7. {Range(seqs[i]) : i \in 1 .. n} = {Range(data[q]) : q \in D}
  BY <1>4
<1> HIDE DEF seqs
<1>8. /\ Len(FlattenSeq(seqs)) = n * e.cols
      /\ Range(FlattenSeq(seqs)) = UNION {Range(seqs[i]) : i \in 1 .. n}
  <2>1. n \in Nat /\ e.cols \in Nat
    BY <1>2 DEF n
  <2>2. Lists(seqs, Readings, n, e.cols)
    BY <1>6, <2>1 DEF Lists
  <2> QED
    BY <2>2, Flattened
<1> QED
  BY <1>5, <1>7, <1>8 DEF n, D

\* The classical bits are numbers, and the register has them all.
LEMMA ClassicalBits ==
  ASSUME NEW e, IsExperiment(e), DOMAIN e.acquire \subseteq DOMAIN QToC(e), Acquires(e)
  PROVE  /\ CRegLen(e) \in Nat
         /\ \A q \in DOMAIN e.acquire : QToC(e)[q] \in 0 .. CRegLen(e) - 1
<1> DEFINE c == QToC(e)
           B == {c[q] : q \in DOMAIN c}
<1>1. c \in [DOMAIN c -> Nat] /\ IsFiniteSet(DOMAIN c)
  <2>1. CASE e.q_to_c # <<>>
    <3>1. c = e.q_to_c
      BY <2>1 DEF QToC
    <3> QED
      BY <3>1 DEF IsExperiment
  <2>2. CASE e.q_to_c = <<>>
    <3>1. c = e.acquire
      BY <2>2 DEF QToC
    <3>2. IsFiniteSet(Device) /\ Cardinality(Device) - 1 \in Int /\ 0 \in Int
      BY DeviceAssumption, FS_CardinalityType DEF DeviceAssumption
    <3>3. IsFiniteSet(0 .. Cardinality(Device) - 1)
      BY <3>2, FS_Interval, Zenon
    <3>4. IsFiniteSet(DOMAIN e.acquire)
      BY <3>3, FS_Subset DEF IsExperiment
    <3> QED
      BY <3>1, <3>4 DEF IsExperiment
  <2> QED
    BY <2>1, <2>2
<1>2. DOMAIN e.acquire # {}
  BY ChannelFacts DEF ChannelsOf
<1> HIDE DEF c
<1>3. B # {} /\ B \subseteq Int /\ B \subseteq Nat
  BY <1>1, <1>2 DEF c
<1>4. IsFiniteSet(B)
  <2>1. c \in Surjection(DOMAIN c, B)
    BY <1>1 DEF Surjection
  <2> QED
    BY <1>1, <2>1, FS_Surjection
<1> DEFINE M == Max(B)
<1>5. CRegLen(e) = M + 1
  BY DEF CRegLen, c
<1> HIDE DEF B
<1>6. M \in B /\ \A y \in B : y <= M
  BY <1>3, <1>4, MaxOf
<1> HIDE DEF M
<1>7. \A q \in DOMAIN e.acquire : c[q] \in B
  BY DEF B, c
<1>8. M \in Nat /\ (M + 1) - 1 = M
  BY <1>3, <1>6
<1>9. \A q \in DOMAIN e.acquire : c[q] \in 0 .. (M + 1) - 1
  <2> SUFFICES ASSUME NEW q \in DOMAIN e.acquire PROVE c[q] \in 0 .. (M + 1) - 1
    OBVIOUS
  <2> DEFINE v == c[q]
  <2>1. v \in Nat /\ v <= M
    BY <1>3, <1>6, <1>7
  <2> HIDE DEF v
  <2>2. v \in 0 .. (M + 1) - 1
    BY <1>8, <2>1
  <2> QED
    BY <2>2 DEF v
<1> QED
  BY <1>5, <1>8, <1>9 DEF c

\* discriminate_results: a qubit with a bit of its own has its state there.
LEMMA RegisterFacts ==
  ASSUME NEW e, IsExperiment(e), NEW data \in Datasets(e), NEW ret, ~ Raises(e, data, ret),
         NEW q \in DOMAIN e.acquire, OwnBit(e, q)
  PROVE  Bit(Decimal(Register(e, data)), QToC(e)[q]) = data[Physical(q)][1].state
<1> DEFINE c == QToC(e)
           n == CRegLen(e)
           r == Register(e, data)
           On(b) == {ch \in DOMAIN data : c[SdkQubit(ch)] = b}
<1>1. /\ DOMAIN data = ChannelsOf(e) /\ e.cols \in Nat \ {0}
      /\ \A ch \in DOMAIN data : data[ch] \in Seq(Readings) /\ Len(data[ch]) = e.cols
  BY DEF Datasets, IsExperiment
<1>2. \A p \in DOMAIN e.acquire : SdkQubit(Physical(p)) = p /\ Physical(p) \in DOMAIN data
  BY <1>1, SdkOfPhysical DEF IsExperiment, ChannelsOf
<1>3. Acquires(e) /\ DOMAIN e.acquire \subseteq DOMAIN QToC(e)
  BY <1>2 DEF Raises
<1>4. n \in Nat /\ c[q] \in 0 .. n - 1
  BY <1>3, ClassicalBits
<1>5. \A ch \in DOMAIN data : data[ch][1].state \in {0, 1}
  <2> TAKE ch \in DOMAIN data
  <2>1. data[ch] \in Seq(Readings) /\ 1 \in 1 .. Len(data[ch])
    BY <1>1
  <2>2. data[ch][1] \in Readings
    BY <2>1
  <2> QED
    BY <2>2 DEF Readings
<1>6. IsFiniteSet(DOMAIN data) /\ DOMAIN data \subseteq Int
  <2>1. IsFiniteSet(ChannelsOf(e)) /\ ChannelsOf(e) \subseteq Device
    BY ChannelFacts
  <2>2. Device \subseteq Int
    BY DeviceAssumption DEF DeviceAssumption
  <2> QED
    BY <1>1, <2>1, <2>2
<1>7. r = [b \in 0 .. n - 1 |-> IF On(b) = {} THEN 0 ELSE data[Max(On(b))][1].state]
  BY DEF Register
<1> HIDE DEF c, n, r
<1>8. \A b \in 0 .. n - 1 : On(b) # {} => Max(On(b)) \in On(b)
  <2> TAKE b \in 0 .. n - 1
  <2> DEFINE D == On(b)
  <2>1. D \subseteq DOMAIN data
    OBVIOUS
  <2> HIDE DEF D
  <2>2. IsFiniteSet(D) /\ D \subseteq Int
    BY <1>6, <2>1, FS_Subset
  <2>3. D # {} => Max(D) \in D
    BY <2>2, MaxOf
  <2> QED
    BY <2>3 DEF D
<1>9. r \in [0 .. (n - 1) -> {0, 1}]
  <2>1. \A b \in 0 .. n - 1 : (IF On(b) = {} THEN 0 ELSE data[Max(On(b))][1].state) \in {0, 1}
    <3> TAKE b \in 0 .. n - 1
    <3>1. On(b) # {} => Max(On(b)) \in DOMAIN data
      BY <1>8
    <3> HIDE DEF On
    <3> QED
      BY <1>5, <3>1
  <2> HIDE DEF On
  <2> QED
    BY <1>7, <2>1
<1>10. On(c[q]) = {Physical(q)}
  <2>1. Physical(q) \in On(c[q])
    BY <1>2
  <2>2. ASSUME NEW ch \in On(c[q]) PROVE ch = Physical(q)
    <3>1. PICK p \in DOMAIN e.acquire : ch = Physical(p)
      BY <1>1, <2>2 DEF ChannelsOf
    <3>2. c[p] = c[q]
      BY <1>2, <2>2, <3>1
    <3>3. p = q
      BY <3>2 DEF OwnBit, c
    <3> QED
      BY <3>1, <3>3
  <2> HIDE DEF On
  <2> QED
    BY <2>1, <2>2
<1>11. r[c[q]] = data[Physical(q)][1].state
  <2> DEFINE b == c[q]
  <2>1. b \in 0 .. n - 1 /\ On(b) = {Physical(q)}
    BY <1>4, <1>10
  <2> HIDE DEF b
  <2>2. Max(On(b)) = Physical(q)
    BY <1>8, <2>1
  <2>3. r[b] = data[Max(On(b))][1].state
    <3> HIDE DEF On
    <3> QED
      BY <1>7, <2>1
  <2> QED
    BY <2>2, <2>3 DEF b
<1> DEFINE b == c[q]
<1>12. b \in 0 .. (n - 1)
  BY <1>4
<1> HIDE DEF b
<1>13. Bit(Decimal(r), b) = r[b]
  BY <1>4, <1>9, <1>12, DecimalBit
<1> QED
  BY <1>11, <1>13 DEF b, c, r

\* Whatever the order of the visit, the file gives the datasets in the order of
\* the experiments.  The i-th is that of the i-th experiment if there is one for
\* each of the first experiments, as many as there are in the file.
FromFile(visit, r) ==
  \E n \in 0 .. Len(r) :
    /\ \A i \in 1 .. Len(r) : r[i] # <<>> <=> i <= n
    /\ DOMAIN visit = 1 .. n
    /\ RawResults(visit) = [i \in 1 .. n |-> r[i]]

LEMMA ReadInOrder ==
  ASSUME NEW r, IsSeq(r), NEW visit \in Visits(Stored(r)),
         \A i \in DOMAIN visit : i \in 1 .. Len(r) => r[i] # <<>>
  PROVE  FromFile(visit, r)
<1> DEFINE N == {i \in 1 .. Len(r) : r[i] # <<>>}
           n == Cardinality(N)
           f == Stored(r)
           entry == [i \in N |-> [index |-> i, data |-> r[i]]]
<1>1. Len(r) \in Nat /\ DOMAIN r = 1 .. Len(r)
  BY DEF IsSeq
<1>2. f = {[index |-> i, data |-> r[i]] : i \in N}
  BY <1>1 DEF Stored
<1>3. IsFiniteSet(1 .. Len(r)) /\ Cardinality(1 .. Len(r)) = Len(r)
  <2> DEFINE l == Len(r)
  <2>1. l \in Int /\ 1 \in Int /\ (1 <= l \/ l = 0)
    BY <1>1
  <2> HIDE DEF l
  <2>2. IsFiniteSet(1 .. l) /\ Cardinality(1 .. l) = l
    BY <2>1, FS_Interval
  <2> QED
    BY <2>2 DEF l
<1>4. IsFiniteSet(N) /\ n \in Nat /\ n <= Len(r)
  <2>1. N \subseteq 1 .. Len(r)
    OBVIOUS
  <2> HIDE DEF N
  <2> QED
    BY <1>3, <2>1, FS_Subset, FS_CardinalityType
<1> HIDE DEF n, N, f
<1>5. entry \in Bijection(N, f)
  BY <1>2 DEF Bijection, Injection, Surjection, IsInjective
<1>6. IsFiniteSet(f) /\ Cardinality(f) = n
  BY <1>4, <1>5, FS_Bijection DEF ExistsBijection, n
<1>7. visit \in [1 .. n -> f] /\ \A a, b \in 1 .. n : a # b => visit[a] # visit[b]
  BY <1>6 DEF Visits, SetToSeqs, f
<1>7a. N = 1 .. n
  <2>1. \A i \in 1 .. n : i \in N
    BY <1>1, <1>4, <1>7 DEF N
  <2>2. 1 .. n \subseteq N
    BY <2>1
  <2>3. n \in Int /\ 1 \in Int /\ (1 <= n \/ n = 0)
    BY <1>4
  <2>4. Cardinality(1 .. n) = n
    BY <2>3, FS_Interval
  <2>5. n = Cardinality(N)
    BY DEF n
  <2> QED
    BY <1>4, <2>2, <2>4, <2>5, FS_Subset
<1> DEFINE R == Range(visit)
<1>8. R \subseteq f /\ visit \in [N -> R]
  BY <1>7, <1>7a DEF Range
<1>9. visit \in Bijection(N, R)
  BY <1>7, <1>8, <1>7a DEF Bijection, Injection, Surjection, IsInjective, Range
<1>10. IsFiniteSet(R) /\ Cardinality(R) = n
  BY <1>4, <1>9, FS_Bijection DEF ExistsBijection, n
<1> DEFINE key == [d \in R |-> d.index]
           s == Ordered(visit)
<1>11. s = SortedBy(R, key)
  BY DEF Ordered
<1> HIDE DEF R
<1>12. \A d \in R : key[d] = d.index /\ d.index \in N /\ d.data = r[d.index]
                   /\ d = [index |-> d.index, data |-> r[d.index]]
  BY <1>2, <1>8
<1>13. N \subseteq Int
  BY <1>1 DEF N
<1> HIDE DEF key, s
<1>14. Sorts(R, key, s)
  BY <1>10, <1>11, <1>12, <1>13, SortedByFacts
<1>15. /\ s \in [N -> R]
       /\ \A a, b \in N : a # b => s[a] # s[b]
       /\ \A a, b \in N : a < b => key[s[a]] <= key[s[b]]
  BY <1>10, <1>14, <1>7a DEF Sorts
<1> DEFINE h == [i \in N |-> s[i].index]
<1>16. h \in [N -> N]
  BY <1>12, <1>15
<1>17. ASSUME NEW a \in N, NEW b \in N, a < b
       PROVE  h[a] < h[b]
  <2>1. a # b
    BY <1>13, <1>17
  <2>2. s[a] # s[b] /\ s[a] \in R /\ s[b] \in R /\ key[s[a]] <= key[s[b]]
    BY <1>15, <1>17, <2>1
  <2>3. h[a] = key[s[a]] /\ h[b] = key[s[b]] /\ h[a] # h[b]
    BY <1>12, <2>2
  <2>4. h[a] \in Int /\ h[b] \in Int
    BY <1>13, <1>16
  <2> QED
    BY <2>2, <2>3, <2>4
<1> HIDE DEF h
<1>18. \A i \in N : h[i] = i
  BY <1>4, <1>16, <1>17, <1>7a, AscendingIsIdentity
<1>19. \A i \in N : s[i].data = r[i]
  BY <1>12, <1>15, <1>18 DEF h
<1>20. RawResults(visit) = [i \in 1 .. n |-> r[i]]
  <2>1. RawResults(visit) = [i \in 1 .. n |-> s[i].data]
    BY <1>7 DEF RawResults, s
  <2> QED
    BY <1>19, <1>7a, <2>1
<1>21. \A i \in 1 .. Len(r) : r[i] # <<>> <=> i <= n
  BY <1>1, <1>4, <1>7a DEF N
<1> QED
  BY <1>1, <1>4, <1>7, <1>20, <1>21 DEF FromFile

\* Steps that do not touch the results.
LEMMA ResultsKept ==
  ASSUME ResultsInv, UNCHANGED <<qobj, raw, file, memory>>,
         \A j \in Jobs :
           /\ stage'[j] = "running" /\ step'[j] = "measure" =>
                Len(raw[j]) < Len(Expts(j))
           /\ stage'[j] \in {"stored", "done"} => stage[j] = stage'[j]
  PROVE  ResultsInv'
<1>1. \A j \in Jobs : Expts(j)' = Expts(j)
  BY DEF Expts
<1>2. \A j \in Jobs : stage'[j] \in {"stored", "done"} => stage[j] = stage'[j]
  OBVIOUS
<1> QED
  BY <1>1, <1>2 DEF ResultsInv

\* What a Qobj is.
LEMMA QobjFacts ==
  ASSUME ResultsInv, NEW j \in Jobs
  PROVE  /\ Len(Expts(j)) \in Nat /\ DOMAIN Expts(j) = 1 .. Len(Expts(j))
         /\ \A i \in 1 .. Len(Expts(j)) : IsExperiment(Expts(j)[i])
<1>1. qobj[j] \in Qobjs
  BY DEF ResultsInv
<1> DEFINE x == Expts(j)
<1>2. x \in Seq(Range(x)) /\ \A e \in Range(x) : IsExperiment(e)
  BY <1>1, ExecutionAssumption DEF ExecutionAssumption, Expts
<1> HIDE DEF x
<1>3. Len(x) \in Nat /\ DOMAIN x = 1 .. Len(x)
  BY <1>2
<1>4. \A i \in 1 .. Len(x) : x[i] \in Range(x)
  BY <1>3 DEF Range
<1> QED
  BY <1>2, <1>3, <1>4 DEF x

\* A measurement adds the dataset of the experiment that was prepared.
LEMMA MeasureResults ==
  ASSUME Inv, ResultsInv, NEW j \in Jobs, Measure(j)
  PROVE  ResultsInv'
<1> DEFINE e == Expt(j)
           n == Len(raw[j])
<1>1. /\ stage[j] = "running" /\ step[j] = "measure"
      /\ step' = [step EXCEPT ![j] = "reset"]
      /\ UNCHANGED <<qobj, stage, file, memory>>
  BY DEF Measure, Running
<1>2. PICK states \in [ChannelsOf(e) -> {0, 1}] :
        raw' = [raw EXCEPT ![j] = Append(@, [ch \in ChannelsOf(e) |->
          [col \in 1 .. e.cols |->
             [expt |-> n + 1, qubit |-> ch, col |-> col, state |-> states[ch]]]])]
  BY DEF Measure, ChannelsOf
<1>3. OfJobs(raw) /\ IsSeq(raw[j]) /\ n \in Nat /\ step \in [Jobs -> {"bias", "measure", "reset"}]
  BY DEF Inv, Shape, IsSeq
<1>4. n < Len(Expts(j)) /\ Len(Expts(j)) \in Nat
  BY <1>1, QobjFacts DEF ResultsInv
<1>5. e = Expts(j)[n + 1] /\ n + 1 \in 1 .. Len(Expts(j))
  <2>1. e = Expts(j)[n + 1]
    BY <1>1 DEF Expt
  <2> HIDE DEF e, n
  <2>2. n + 1 \in 1 .. Len(Expts(j))
    BY <1>3, <1>4
  <2> QED
    BY <2>1, <2>2
<1>6. IsExperiment(e)
  BY <1>5, QobjFacts
<1> HIDE DEF e, n
<1> DEFINE d == [ch \in ChannelsOf(e) |->
                   [col \in 1 .. e.cols |->
                      [expt |-> n + 1, qubit |-> ch, col |-> col, state |-> states[ch]]]]
<1>7. d \in Datasets(e)
  <2>1. e.cols \in Nat /\ ChannelsOf(e) \subseteq Device /\ n + 1 \in Nat
    BY <1>3, <1>6, ChannelFacts DEF IsExperiment
  <2>2. ASSUME NEW ch \in ChannelsOf(e)
        PROVE  d[ch] \in Seq(Readings) /\ Len(d[ch]) = e.cols
    <3>1. \A col \in 1 .. e.cols :
            [expt |-> n + 1, qubit |-> ch, col |-> col, state |-> states[ch]] \in Readings
      BY <2>1 DEF Readings
    <3>2. d[ch] \in [1 .. e.cols -> Readings]
      BY <3>1
    <3> HIDE DEF d
    <3> QED
      BY <2>1, <3>2
  <2>3. d = [ch \in ChannelsOf(e) |-> d[ch]]
    OBVIOUS
  <2> HIDE DEF d
  <2> QED
    BY <2>2, <2>3 DEF Datasets
<1> DEFINE added == Append(raw[j], d)
<1>8. raw'[j] = added /\ \A k \in Jobs \ {j} : raw'[k] = raw[k]
  <2>1. raw' = [raw EXCEPT ![j] = added]
    BY <1>2
  <2> HIDE DEF added
  <2> QED
    BY <1>3, <2>1 DEF OfJobs
<1> HIDE DEF d
<1>9. /\ Len(raw'[j]) = n + 1 /\ raw'[j][n + 1] = d
      /\ \A i \in 1 .. n : raw'[j][i] = raw[j][i]
  BY <1>3, <1>8, AppendFacts DEF n
<1>10. \A k \in Jobs : Expts(k)' = Expts(k)
  BY <1>1 DEF Expts
<1>11. ASSUME NEW k \in Jobs
       PROVE  /\ Len(raw'[k]) <= Len(Expts(k))
              /\ stage'[k] = "running" /\ step'[k] = "measure" =>
                   Len(raw'[k]) < Len(Expts(k))
              /\ \A i \in 1 .. Len(raw'[k]) : raw'[k][i] \in Datasets(Expts(k)[i])
              /\ stage'[k] = "stored" =>
                   Len(raw'[k]) = Len(Expts(k)) /\ file'[k] = Stored(raw'[k])
  <2>1. CASE k # j
    <3>1. raw'[k] = raw[k] /\ step'[k] = step[k]
      BY <1>1, <1>3, <1>8, <2>1
    <3> QED
      BY <1>1, <3>1 DEF ResultsInv
  <2>2. CASE k = j
    <3>1. step'[j] = "reset" /\ stage'[j] = "running"
      BY <1>1, <1>3
    <3>2. Len(raw'[j]) <= Len(Expts(j))
      BY <1>3, <1>4, <1>9
    <3>3. ASSUME NEW i \in 1 .. Len(raw'[j])
          PROVE  raw'[j][i] \in Datasets(Expts(j)[i])
      <4>1. CASE i = n + 1
        BY <1>5, <1>7, <1>9, <4>1
      <4>2. CASE i # n + 1
        <5>1. i \in 1 .. n
          BY <1>3, <1>9, <4>2
        <5> QED
          BY <1>9, <5>1 DEF ResultsInv, n
      <4> QED
        BY <4>1, <4>2
    <3> QED
      BY <2>2, <3>1, <3>2, <3>3
  <2> QED
    BY <2>1, <2>2
<1>12. ASSUME NEW k \in Jobs, stage'[k] = "done", qobj'[k].level = 1, AllAcquire(Expts(k)')
       PROVE  ValuesOf(memory'[k], raw'[k], Expts(k)')
  <2>1. k # j /\ stage[k] = "done"
    BY <1>1, <1>12
  <2>2. raw'[k] = raw[k]
    BY <1>8, <2>1
  <2> QED
    BY <1>1, <1>10, <1>12, <2>1, <2>2 DEF ResultsInv
<1>13. ASSUME NEW k \in Jobs, stage'[k] = "done", qobj'[k].level = 2
       PROVE  BitsOf(memory'[k], raw'[k], Expts(k)')
  <2>1. k # j /\ stage[k] = "done"
    BY <1>1, <1>13
  <2>2. raw'[k] = raw[k]
    BY <1>8, <2>1
  <2> QED
    BY <1>1, <1>10, <1>13, <2>1, <2>2 DEF ResultsInv
<1> QED
  <2>1. qobj' \in [Jobs -> Qobjs] /\ OfJobs(file') /\ OfJobs(memory')
    BY <1>1 DEF ResultsInv
  <2> QED
    BY <1>10, <1>11, <1>12, <1>13, <2>1 DEF ResultsInv

\* run saves what was measured.
LEMMA StoreResults ==
  ASSUME Inv, ResultsInv, NEW j \in Jobs, Store(j)
  PROVE  ResultsInv'
<1>1. /\ Len(raw[j]) = Len(Expts(j))
      /\ file' = [file EXCEPT ![j] = Stored(raw[j])]
      /\ stage' = [stage EXCEPT ![j] = "stored"]
      /\ UNCHANGED <<qobj, step, raw, memory>>
  BY DEF Store
<1>2. \A k \in Jobs : Expts(k)' = Expts(k)
  BY <1>1 DEF Expts
<1>3. OfJobs(file) /\ stage'[j] = "stored" /\ \A k \in Jobs \ {j} : stage'[k] = stage[k]
  BY <1>1 DEF Inv, Shape, ResultsInv
<1>4. /\ OfJobs(file') /\ file'[j] = Stored(raw[j])
      /\ \A k \in Jobs \ {j} : file'[k] = file[k]
  <2> DEFINE f == Stored(raw[j])
  <2>1. file' = [file EXCEPT ![j] = f]
    BY <1>1
  <2> HIDE DEF f
  <2>2. OfJobs(file') /\ file'[j] = f /\ \A k \in Jobs \ {j} : file'[k] = file[k]
    BY <1>3, <2>1 DEF OfJobs
  <2> QED
    BY <2>2 DEF f
<1>5. \A k \in Jobs : stage'[k] = "done" => stage[k] = "done"
  BY <1>3
<1> QED
  BY <1>1, <1>2, <1>3, <1>4, <1>5 DEF ResultsInv

\* postprocess: the memory has the values, or the bits, of every experiment.
LEMMA PostprocessResults ==
  ASSUME Inv, ResultsInv, NEW j \in Jobs, Postprocess(j)
  PROVE  ResultsInv'
<1>1. /\ stage[j] = "stored" /\ UNCHANGED <<qobj, step, raw, file>>
      /\ \E x \in {"done", "failed"} : stage' = [stage EXCEPT ![j] = x]
      /\ (\E m : memory' = [memory EXCEPT ![j] = m]) \/ memory' = memory
  BY DEF Postprocess, instruments
<1>2. \A k \in Jobs : Expts(k)' = Expts(k)
  BY <1>1 DEF Expts
<1>3. /\ stage'[j] \in {"done", "failed"} /\ \A k \in Jobs \ {j} : stage'[k] = stage[k]
  BY <1>1 DEF Inv, Shape
<1>4. OfJobs(memory') /\ \A k \in Jobs \ {j} : memory'[k] = memory[k]
  <2>1. OfJobs(memory)
    BY DEF ResultsInv
  <2>2. CASE memory' = memory
    BY <2>1, <2>2
  <2>3. CASE memory' # memory
    <3>1. PICK m : memory' = [memory EXCEPT ![j] = m]
      BY <1>1, <2>3
    <3> QED
      BY <2>1, <3>1 DEF OfJobs
  <2> QED
    BY <2>2, <2>3
<1>5. /\ Len(raw[j]) = Len(Expts(j)) /\ file[j] = Stored(raw[j]) /\ IsSeq(raw[j])
      /\ \A i \in 1 .. Len(raw[j]) : raw[j][i] \in Datasets(Expts(j)[i])
  BY <1>1 DEF ResultsInv, Inv, Shape
<1>6. ASSUME qobj[j].level = 1, AllAcquire(Expts(j))
      PROVE  ValuesOf(memory'[j], raw[j], Expts(j))
  <2>1. PICK visit \in Visits(file[j]) :
          memory' = [memory EXCEPT ![j] = Integrated(Expts(j), RawResults(visit))]
    BY <1>6 DEF Postprocess
  <2> DEFINE n == Len(raw[j])
  <2>2. n \in Nat /\ DOMAIN Expts(j) = 1 .. n /\ DOMAIN raw[j] = 1 .. n
    BY <1>5, QobjFacts DEF IsSeq
  <2> HIDE DEF n
  <2>3. \A i \in 1 .. n : IsExperiment(Expts(j)[i]) /\ raw[j][i] \in Datasets(Expts(j)[i])
    BY <1>5, QobjFacts DEF n
  <2>4. \A i \in 1 .. n : raw[j][i] # <<>>
    <3> TAKE i \in 1 .. n
    <3>1. DOMAIN raw[j][i] = ChannelsOf(Expts(j)[i]) /\ ChannelsOf(Expts(j)[i]) # {}
      BY <1>6, <2>2, <2>3, ChannelFacts DEF Datasets, AllAcquire
    <3> QED
      BY <3>1
  <2>5. RawResults(visit) = raw[j]
    <3>1. FromFile(visit, raw[j])
      BY <1>5, <2>1, <2>4, ReadInOrder DEF n
    <3>2. PICK l \in 0 .. n : /\ \A i \in 1 .. n : raw[j][i] # <<>> <=> i <= l
                              /\ RawResults(visit) = [i \in 1 .. l |-> raw[j][i]]
      BY <3>1 DEF FromFile, n
    <3>3. l = n
      BY <2>2, <2>4, <3>2
    <3>4. raw[j] = [i \in 1 .. n |-> raw[j][i]]
      BY <1>5 DEF IsSeq, n
    <3> QED
      BY <3>2, <3>3, <3>4
  <2> DEFINE m == [i \in 1 .. n |-> ListOf(Expts(j)[i], raw[j][i])]
  <2>6. memory'[j] = m
    <3>1. Integrated(Expts(j), RawResults(visit)) = m
      BY <2>2, <2>5 DEF Integrated
    <3>2. OfJobs(memory)
      BY DEF ResultsInv
    <3> HIDE DEF m
    <3> QED
      BY <2>1, <3>1, <3>2, ExceptFacts
  <2>7. DOMAIN m = 1 .. n /\ Len(m) = n /\ \A i \in 1 .. n : m[i] = ListOf(Expts(j)[i], raw[j][i])
    BY <2>2
  <2> HIDE DEF m
  <2>8. \A i \in 1 .. n :
          /\ Range(m[i]) = UNION {Range(raw[j][i][q]) : q \in DOMAIN raw[j][i]}
          /\ Len(m[i]) = Cardinality(DOMAIN raw[j][i]) * Expts(j)[i].cols
    BY <2>3, <2>7, ListFacts
  <2> QED
    BY <1>5, <2>6, <2>7, <2>8 DEF n, ValuesOf
<1>7. ASSUME NEW k \in Jobs, stage'[k] = "done", qobj[k].level = 1, AllAcquire(Expts(k))
      PROVE  ValuesOf(memory'[k], raw[k], Expts(k))
  <2>1. CASE k = j
    BY <1>6, <1>7, <2>1
  <2>2. CASE k # j
    <3>1. stage[k] = "done" /\ memory'[k] = memory[k]
      BY <1>3, <1>4, <1>7, <2>2
    <3> QED
      BY <1>7, <3>1 DEF ResultsInv
  <2> QED
    BY <2>1, <2>2
<1>8. ASSUME stage'[j] = "done", qobj[j].level = 2
      PROVE  BitsOf(memory'[j], raw[j], Expts(j))
  <2>1. PICK visit \in Visits(file[j]) :
          LET datasets == RawResults(visit)
              raises == \E i \in DOMAIN datasets : Raises(Expts(j)[i], datasets[i], qobj[j].ret)
          IN /\ memory' = [memory EXCEPT ![j] = Discriminated(Expts(j), datasets, qobj[j].ret)]
             /\ stage' = [stage EXCEPT ![j] = IF raises THEN "failed" ELSE "done"]
    BY <1>8 DEF Postprocess
  <2> DEFINE datasets == RawResults(visit)
             raises == \E i \in DOMAIN datasets : Raises(Expts(j)[i], datasets[i], qobj[j].ret)
             m == Discriminated(Expts(j), datasets, qobj[j].ret)
             n == Len(raw[j])
  <2>2. ~ raises
    <3>1. stage' = [stage EXCEPT ![j] = IF raises THEN "failed" ELSE "done"]
      BY <2>1
    <3> HIDE DEF raises
    <3> QED
      BY <1>8, <3>1 DEF Inv, Shape
  <2>3. memory'[j] = m
    <3>1. memory' = [memory EXCEPT ![j] = m]
      BY <2>1
    <3>2. OfJobs(memory)
      BY DEF ResultsInv
    <3> HIDE DEF m
    <3> QED
      BY <3>1, <3>2, ExceptFacts
  <2>4. m = [i \in DOMAIN datasets |-> Decimal(Register(Expts(j)[i], datasets[i]))]
    BY <2>2 DEF Discriminated
  <2> HIDE DEF m
  <2>5. n \in Nat /\ \A i \in 1 .. n : IsExperiment(Expts(j)[i])
                                     /\ raw[j][i] \in Datasets(Expts(j)[i])
    BY <1>5, QobjFacts DEF IsSeq
  <2>6. \A i \in DOMAIN visit : i \in 1 .. n => raw[j][i] # <<>>
    <3> SUFFICES ASSUME NEW i \in DOMAIN visit, i \in 1 .. n PROVE raw[j][i] # <<>>
      OBVIOUS
    <3>1. DOMAIN datasets = DOMAIN visit
      BY DEF RawResults
    <3>2. Acquires(Expts(j)[i])
      BY <2>2, <3>1 DEF Raises
    <3>3. ChannelsOf(Expts(j)[i]) # {}
      BY <2>5, <3>2, ChannelFacts
    <3>4. DOMAIN raw[j][i] = ChannelsOf(Expts(j)[i])
      BY <2>5 DEF Datasets
    <3> QED
      BY <3>3, <3>4
  <2>7. FromFile(visit, raw[j])
    BY <1>5, <2>1, <2>6, ReadInOrder
  <2>8. DOMAIN datasets \subseteq 1 .. n /\ \A i \in DOMAIN datasets : datasets[i] = raw[j][i]
    BY <2>5, <2>7 DEF FromFile
  <2> HIDE DEF datasets, n
  <2>9. ASSUME NEW i \in DOMAIN m, NEW q \in DOMAIN Expts(j)[i].acquire, OwnBit(Expts(j)[i], q)
        PROVE  Bit(m[i], QToC(Expts(j)[i])[q]) = raw[j][i][Physical(q)][1].state
    <3>1. i \in DOMAIN datasets /\ m[i] = Decimal(Register(Expts(j)[i], raw[j][i]))
      BY <2>4, <2>8
    <3>2. ~ Raises(Expts(j)[i], raw[j][i], qobj[j].ret)
      BY <2>2, <2>8, <3>1
    <3>3. IsExperiment(Expts(j)[i]) /\ raw[j][i] \in Datasets(Expts(j)[i])
      BY <2>5, <2>8, <3>1
    <3> QED
      BY <2>9, <3>1, <3>2, <3>3, RegisterFacts
  <2> QED
    BY <2>3, <2>9 DEF BitsOf
<1>9. ASSUME NEW k \in Jobs, stage'[k] = "done", qobj[k].level = 2
      PROVE  BitsOf(memory'[k], raw[k], Expts(k))
  <2>1. CASE k = j
    BY <1>8, <1>9, <2>1
  <2>2. CASE k # j
    <3>1. stage[k] = "done" /\ memory'[k] = memory[k]
      BY <1>3, <1>4, <1>9, <2>2
    <3> QED
      BY <1>9, <3>1 DEF ResultsInv
  <2> QED
    BY <2>1, <2>2
<1>10. \A k \in Jobs : stage'[k] \in {"running", "stored"} => stage'[k] = stage[k]
  BY <1>3
<1> QED
  BY <1>1, <1>2, <1>4, <1>7, <1>9, <1>10 DEF ResultsInv

LEMMA ResultsStep ==
  Inv /\ ResultsInv /\ [Next]_vars => ResultsInv'
<1> SUFFICES ASSUME Inv, ResultsInv, [Next]_vars PROVE ResultsInv'
  OBVIOUS
<1>a. /\ stage \in [Jobs -> {"new", "preprocessed", "running", "stored", "done", "failed"}]
      /\ step \in [Jobs -> {"bias", "measure", "reset"}]
      /\ \A j \in Jobs : stage[j] = "preprocessed" => step[j] = "bias"
  BY DEF Inv, Shape, Exclusive
<1>b. \A j \in Jobs : stage[j] = "running" /\ step[j] = "measure" =>
                        Len(raw[j]) < Len(Expts(j))
  BY DEF ResultsInv
<1>1. ASSUME NEW j \in Jobs, Preprocess(j) PROVE ResultsInv'
  <2>1. /\ UNCHANGED <<qobj, raw, file, memory, step>>
        /\ \E x \in {"preprocessed", "failed"} : stage' = [stage EXCEPT ![j] = x]
    BY <1>1 DEF Preprocess, instruments, results
  <2> QED
    BY <2>1, <1>a, <1>b, ResultsKept
<1>2. ASSUME NEW j \in Jobs, Begin(j) PROVE ResultsInv'
  <2>1. /\ UNCHANGED <<qobj, raw, file, memory, step>> /\ step[j] = "bias"
        /\ stage' = [stage EXCEPT ![j] = "running"]
    BY <1>2, <1>a DEF Begin, results
  <2> QED
    BY <2>1, <1>a, <1>b, ResultsKept
<1>3. ASSUME NEW j \in Jobs, SetBias(j) PROVE ResultsInv'
  <2>1. /\ UNCHANGED <<qobj, raw, file, memory, stage>> /\ Len(raw[j]) < Len(Expts(j))
        /\ step' = [step EXCEPT ![j] = "measure"]
    BY <1>3 DEF SetBias, Ramps, results
  <2>2. \A k \in Jobs \ {j} : step'[k] = step[k]
    BY <2>1, <1>a
  <2> QED
    BY <2>1, <2>2, <1>b, ResultsKept
<1>4. ASSUME NEW j \in Jobs, Measure(j) PROVE ResultsInv'
  BY <1>4, MeasureResults
<1>5. ASSUME NEW j \in Jobs, Reset(j) PROVE ResultsInv'
  <2>1. /\ UNCHANGED <<qobj, raw, file, memory, stage>>
        /\ step' = [step EXCEPT ![j] = "bias"]
    BY <1>5 DEF Reset, results
  <2>2. step'[j] = "bias" /\ \A k \in Jobs \ {j} : step'[k] = step[k]
    BY <2>1, <1>a
  <2> QED
    BY <2>1, <2>2, <1>b, ResultsKept
<1>6. ASSUME NEW j \in Jobs, Fail(j) PROVE ResultsInv'
  <2>1. /\ UNCHANGED <<qobj, raw, file, memory, step>>
        /\ stage' = [stage EXCEPT ![j] = "failed"]
    BY <1>6 DEF Fail, Raise, results
  <2> QED
    BY <2>1, <1>a, <1>b, ResultsKept
<1>7. ASSUME NEW j \in Jobs, Store(j) PROVE ResultsInv'
  BY <1>7, StoreResults
<1>8. ASSUME NEW j \in Jobs, Postprocess(j) PROVE ResultsInv'
  BY <1>8, PostprocessResults
<1>9. CASE UNCHANGED vars
  <2>1. UNCHANGED <<qobj, raw, file, memory, stage, step>>
    BY <1>9 DEF vars
  <2> QED
    BY <2>1, <1>b, ResultsKept
<1> QED
  BY <1>1, <1>2, <1>3, <1>4, <1>5, <1>6, <1>7, <1>8, <1>9 DEF Next, Terminated

LEMMA InitResults == Init => ResultsInv
<1> SUFFICES ASSUME Init PROVE ResultsInv
  OBVIOUS
<1>1. /\ qobj \in [Jobs -> Qobjs] /\ OfJobs(file) /\ OfJobs(memory)
      /\ \A j \in Jobs : stage[j] = "new" /\ raw[j] = <<>>
  BY DEF Init, OfJobs
<1>2. Len(<<>>) = 0 /\ 1 .. 0 = {}
  BY EmptySeq
<1>3. \A j \in Jobs : 0 <= Len(Expts(j))
  <2> TAKE j \in Jobs
  <2>1. Expts(j) \in Seq(Range(Expts(j)))
    BY <1>1, ExecutionAssumption DEF ExecutionAssumption, Expts
  <2> QED
    BY <2>1, LenProperties
<1> QED
  BY <1>1, <1>2, <1>3 DEF ResultsInv

\* The memory of an integrated result has for each experiment the values that it
\* measured, all of them and each once, however the HDF5 file is visited
\* (read_job_from_hdf5 and xarray_to_list).
THEOREM IntegratedCorrect == Spec => []IntegratedOfOwnExperiment
<1>1. Inv /\ ResultsInv /\ [Next]_vars => (Inv /\ ResultsInv)'
  BY Consecution, ResultsStep
<1>2. ResultsInv => IntegratedOfOwnExperiment
  BY DEF ResultsInv, IntegratedOfOwnExperiment, ValuesOf, AllAcquire
<1> QED
  BY Initial, InitResults, <1>1, <1>2, PTL DEF Spec

\* A discriminated result has the state of each qubit in its own classical bit,
\* in the place of the experiment that measured it, whichever experiments left
\* nothing in the file (discriminate_results and _bitarrays_to_decimal).
THEOREM BitsCorrect == Spec => []BitsOfOwnQubits
<1>1. Inv /\ ResultsInv /\ [Next]_vars => (Inv /\ ResultsInv)'
  BY Consecution, ResultsStep
<1>2. ResultsInv => BitsOfOwnQubits
  BY DEF ResultsInv, BitsOfOwnQubits, BitsOf, OwnBit
<1> QED
  BY Initial, InitResults, <1>1, <1>2, PTL DEF Spec

=============================================================================
