--------------------------- MODULE WaitlistProofs ---------------------------
(***************************************************************************)
(* Proofs about Waitlist for any set of jobs, durations, batch size and    *)
(* limits: what the pushes, the cancels and the calls of the general       *)
(* worker leave of the list in any interleaving of their commands, and     *)
(* what the batches of a call have seen of a list that changes under them. *)
(***************************************************************************)
EXTENDS Waitlist, DataLemmas

\* The storage ids of the jobs have their parts, and tell the jobs apart.
LEMMA SidFacts ==
  /\ \A j \in Jobs : Sid(j) \in Ids /\ Sid(j).uuid = j /\ Sid(j).duration = Duration[j]
  /\ \A id \in Ids : id.uuid \in Jobs /\ id = Sid(id.uuid) /\ id.duration \in Nat
BY DurationAssumption DEF Sid, Ids, StorageID

\* A queue is the record of its three parts.
LEMMA QueueParts ==
  /\ \A v \in QueueType(Ids) : /\ v.list \in Seq(Ids)
                               /\ v.store \in SUBSET Ids
                               /\ v.total \in Int
  /\ \A l \in Seq(Ids), s \in SUBSET Ids, t \in Int :
       [list |-> l, store |-> s, total |-> t] \in QueueType(Ids)
BY DEF QueueType

\* What a call of the general worker keeps in its local variables.
Calls == [kind : {"none", "first", "many", "ended"}, limit : Nat, batch : Nat,
          batches : Nat, entries : Seq(Ids), available : Int,
          seen : SUBSET Ids, shifted : BOOLEAN, raised : SUBSET Ids]

\* Every variable has its type.
Types ==
  /\ q \in QueueType(Ids)
  /\ pushed \in SUBSET Jobs
  /\ withdrawn \in SUBSET Jobs
  /\ mover \in Calls
  /\ hand \in Seq(Ids) /\ Len(hand) <= 1
  /\ moved \in Seq(Ids)

\* A storage id is on the list exactly when it has its payload, and once; it
\* is on the waitlist, in the hand of the worker or moved, never two of them;
\* only jobs that were pushed are known to the call, and none of those that a
\* cancel withdrew is anywhere any more.
Owned ==
  /\ ToSet(q.list) = q.store
  /\ Distinct(q.list)
  /\ Distinct(moved)
  /\ q.store \cap ToSet(moved) = {}
  /\ ToSet(hand) \cap (q.store \cup ToSet(moved)) = {}
  /\ \A id \in q.store \cup ToSet(hand) \cup ToSet(moved) : id.uuid \in pushed \ withdrawn
  /\ \A id \in ToSet(mover.entries) \cup mover.seen : id.uuid \in pushed
  /\ withdrawn \subseteq pushed
  /\ hand # <<>> => mover.kind \in {"first", "many"}

\* MovedFitsWindow; the jobs that were moved are finitely many.
InWindow == IsFiniteSet(ToSet(moved)) /\ MovedFitsWindow

\* The ids that were on the list `l` when `call` began are within its batches.
\* As long as none of them is gone, all batches but the last are full of them.
Placed(l, call) ==
  /\ \A m \in 1..Len(l) : l[m] \in call.seen => m <= call.batches * BatchSize
  /\ call.seen \subseteq ToSet(l) =>
       /\ (call.batches - 1) * BatchSize <= Len(l)
       /\ \A m \in 1..Len(l) : l[m] \notin call.seen => (call.batches - 1) * BatchSize < m

\* Left to the call, or too long for it.
Settled(call, id) == id \in ToSet(call.entries) \/ ~ Fits(call, id)

\* While there are batches to read, what the call has read is settled, as long
\* as nothing moved up; when there are none, all that was there at its begin is.
\* What is in front of an entry is too long, or an earlier entry.
Visited(l, call) == ~ call.shifted =>
  /\ call.batch < call.batches /\ call.seen \subseteq ToSet(l) =>
       \A m \in 1..Len(l) : m <= call.batch * BatchSize => Settled(call, l[m])
  /\ call.batch >= call.batches =>
       \A id \in ToSet(l) \cap call.seen : Settled(call, id)
  /\ \A k \in 1..Len(call.entries), m, n \in 1..Len(l) :
       l[n] = call.entries[k] /\ m < n =>
         ~ Fits(call, l[m]) \/ \E i \in 1..(k - 1) : call.entries[i] = l[m]

\* A call that ran to its end leaves nothing that fits, as long as nothing moved up.
LeftNothing ==
  mover.kind = "ended" /\ mover.raised = {} /\ ~ mover.shifted /\ mover.available > 0 =>
    \A id \in ToSet(q.list) \cap mover.seen : id.duration > mover.available

\* The inductive invariant.
WaitInv ==
  /\ Types /\ Owned /\ InWindow
  /\ mover.kind \in {"first", "many"} => Placed(q.list, mover) /\ Visited(q.list, mover)
  /\ LeftNothing

-----------------------------------------------------------------------------
(* The batches of a call, over any list.                                   *)

\* Batches that are not the last ones end before the last one begins.
LEMMA BatchesGrow ==
  ASSUME NEW a \in Nat, NEW b \in Nat
  PROVE  /\ a * BatchSize \in Nat
         /\ (b - 1) * BatchSize \in Int
         /\ (a + 1) * BatchSize = a * BatchSize + BatchSize
         /\ a < b => a * BatchSize <= (b - 1) * BatchSize
         /\ a <= b => a * BatchSize <= b * BatchSize
<1>1. BatchSize \in Nat \ {0}
  BY BatchAssumption
<1>2. a * BatchSize \in Nat /\ b * BatchSize \in Nat
  BY <1>1
<1>3. (a + 1) * BatchSize = a * BatchSize + BatchSize
  BY <1>1
<1>4. (b - 1) * BatchSize = b * BatchSize - BatchSize
  BY <1>1
<1>5. ASSUME a <= b PROVE a * BatchSize <= b * BatchSize
  <2>1. (b - a) * BatchSize >= 0
    BY <1>1, <1>5
  <2>2. (b - a) * BatchSize = b * BatchSize - a * BatchSize
    BY <1>1
  <2> QED
    BY <1>2, <2>1, <2>2
<1>6. ASSUME a < b PROVE a * BatchSize <= (b - 1) * BatchSize
  <2>1. (b - 1 - a) * BatchSize >= 0
    BY <1>1, <1>6
  <2>2. (b - 1 - a) * BatchSize = (b - 1) * BatchSize - a * BatchSize
    BY <1>1
  <2> QED
    BY <1>1, <1>2, <1>4, <2>1, <2>2
<1> QED
  BY <1>1, <1>2, <1>3, <1>4, <1>5, <1>6

\* The batches of Begin hold the whole list, and the last of them is not empty.
LEMMA BatchesHold ==
  ASSUME NEW n \in Nat
  PROVE  LET b == (n + BatchSize - 1) \div BatchSize IN
         b \in Nat /\ n <= b * BatchSize /\ (b - 1) * BatchSize <= n
<1> DEFINE a == n + BatchSize - 1
           b == a \div BatchSize
           r == a % BatchSize
<1>1. BatchSize \in Nat \ {0} /\ a \in Nat
  BY BatchAssumption
<1>2. b \in Nat /\ r \in 0..(BatchSize - 1) /\ a = BatchSize * b + r
  BY <1>1
<1> HIDE DEF b, r
<1>3. BatchSize * b = b * BatchSize /\ (b - 1) * BatchSize = b * BatchSize - BatchSize
      /\ b * BatchSize \in Nat
  BY <1>1, <1>2
<1>4. n <= b * BatchSize /\ (b - 1) * BatchSize <= n
  BY <1>1, <1>2, <1>3
<1> QED
  BY <1>2, <1>4 DEF b

\* What the test of a call depends on.
LEMMA FitsDepends ==
  ASSUME NEW c \in Calls, NEW d \in Calls, NEW id \in Ids,
         c.kind = d.kind, c.limit = d.limit, d.available <= c.available,
         ~ Fits(c, id)
  PROVE  ~ Fits(d, id)
<1>1. /\ c.available \in Int /\ d.available \in Int /\ c.limit \in Nat
      /\ id.duration \in Nat
  BY SidFacts DEF Calls
<1> QED
  BY <1>1 DEF Fits

\* LREM keeps the list that a call began with within its batches.
LEMMA RemovePlaced ==
  ASSUME NEW l \in Seq(Ids), Distinct(l), NEW c \in Calls, NEW x, Placed(l, c)
  PROVE  Placed(RemoveFirst(l, x), c)
<1> DEFINE r == RemoveFirst(l, x)
           top == c.batches * BatchSize
           low == (c.batches - 1) * BatchSize
<1>1. /\ r \in Seq(Ids) /\ Len(l) \in Nat /\ Len(r) \in Nat
      /\ Distinct(r) /\ ToSet(r) = ToSet(l) \ {x}
      /\ \/ x \notin ToSet(l) /\ r = l
         \/ \E k \in 1..Len(l) :
              /\ l[k] = x
              /\ Len(r) = Len(l) - 1
              /\ \A i \in 1..Len(r) : r[i] = IF i < k THEN l[i] ELSE l[i + 1]
  BY Removed
<1> HIDE DEF r
<1>2. top \in Nat /\ low \in Int
  BY BatchesGrow DEF Calls
<1>3. /\ \A m \in 1..Len(l) : l[m] \in c.seen => m <= top
      /\ c.seen \subseteq ToSet(l) =>
           low <= Len(l) /\ \A m \in 1..Len(l) : l[m] \notin c.seen => low < m
  BY DEF Placed
<1> HIDE DEF top, low
<1>4. CASE r = l
  BY <1>4, <1>3 DEF Placed, top, low, r
<1>5. CASE r # l
  <2>1. PICK k \in 1..Len(l) :
          /\ l[k] = x
          /\ Len(r) = Len(l) - 1
          /\ \A i \in 1..Len(r) : r[i] = IF i < k THEN l[i] ELSE l[i + 1]
    BY <1>1, <1>5
  <2>2. ASSUME NEW m \in 1..Len(r), r[m] \in c.seen
        PROVE  m <= top
    <3>1. m \in 1..Len(l) /\ m + 1 \in 1..Len(l)
      BY <1>1, <2>1
    <3>2. m <= top \/ m + 1 <= top
      BY <1>3, <2>1, <2>2, <3>1
    <3> QED
      BY <1>2, <3>2
  <2>3. ASSUME c.seen \subseteq ToSet(r)
        PROVE  low <= Len(r) /\ \A m \in 1..Len(r) : r[m] \notin c.seen => low < m
    <3>1. c.seen \subseteq ToSet(l) /\ x \notin c.seen
      BY <1>1, <2>3
    <3>2. low < k
      BY <1>3, <2>1, <3>1
    <3>3. ASSUME NEW m \in 1..Len(r), r[m] \notin c.seen
          PROVE  low < m
      <4>1. CASE m < k
        <5>1. m \in 1..Len(l) /\ r[m] = l[m]
          BY <1>1, <2>1, <4>1
        <5> QED
          BY <1>3, <3>1, <3>3, <5>1
      <4>2. CASE ~ (m < k)
        BY <1>2, <3>2, <4>2
      <4> QED
        BY <4>1, <4>2
    <3> QED
      BY <1>1, <1>2, <2>1, <3>2, <3>3
  <2> QED
    BY <2>2, <2>3 DEF Placed, top, low, r
<1> QED
  BY <1>4, <1>5

\* LREM shows a call nothing new: what it has visited stays visited.
LEMMA RemoveVisited ==
  ASSUME NEW l \in Seq(Ids), Distinct(l), NEW c \in Calls, NEW x,
         Placed(l, c), Visited(l, c)
  PROVE  Visited(RemoveFirst(l, x), c)
<1> DEFINE r == RemoveFirst(l, x)
           low == (c.batches - 1) * BatchSize
           done == c.batch * BatchSize
<1>1. /\ r \in Seq(Ids) /\ Len(l) \in Nat /\ Len(r) \in Nat
      /\ Distinct(r) /\ ToSet(r) = ToSet(l) \ {x}
      /\ \/ x \notin ToSet(l) /\ r = l
         \/ \E k \in 1..Len(l) :
              /\ l[k] = x
              /\ Len(r) = Len(l) - 1
              /\ \A i \in 1..Len(r) : r[i] = IF i < k THEN l[i] ELSE l[i + 1]
  BY Removed
<1> HIDE DEF r
<1>2. /\ low \in Int /\ done \in Nat
      /\ c.batch < c.batches => done <= low
  BY BatchesGrow DEF Calls
<1>3. c.seen \subseteq ToSet(l) => \A m \in 1..Len(l) : l[m] \notin c.seen => low < m
  BY DEF Placed
<1> HIDE DEF low
<1>4. SUFFICES ASSUME ~ c.shifted, r # l
               PROVE  Visited(r, c)
  <2>1. r = l => Visited(r, c)
    OBVIOUS
  <2>2. c.shifted => Visited(r, c)
    BY DEF Visited
  <2> QED
    BY <2>1, <2>2 DEF r
<1>5. /\ c.batch < c.batches /\ c.seen \subseteq ToSet(l) =>
           \A m \in 1..Len(l) : m <= done => Settled(c, l[m])
      /\ c.batch >= c.batches => \A id \in ToSet(l) \cap c.seen : Settled(c, id)
      /\ \A i \in 1..Len(c.entries), m, n \in 1..Len(l) :
           l[n] = c.entries[i] /\ m < n =>
             ~ Fits(c, l[m]) \/ \E h \in 1..(i - 1) : c.entries[h] = l[m]
  BY <1>4 DEF Visited
<1>6. PICK k \in 1..Len(l) :
        /\ l[k] = x
        /\ Len(r) = Len(l) - 1
        /\ \A i \in 1..Len(r) : r[i] = IF i < k THEN l[i] ELSE l[i + 1]
  BY <1>1, <1>4
<1> HIDE DEF done
<1>7. ASSUME c.batch < c.batches, c.seen \subseteq ToSet(r),
             NEW m \in 1..Len(r), m <= done
      PROVE  Settled(c, r[m])
  <2>1. c.seen \subseteq ToSet(l) /\ x \notin c.seen
    BY <1>1, <1>7
  <2>2. low < k
    BY <1>3, <1>6, <2>1
  <2>3. m < k /\ m \in 1..Len(l)
    BY <1>1, <1>2, <1>6, <1>7, <2>2
  <2>4. r[m] = l[m]
    BY <1>6, <2>3
  <2> QED
    BY <1>5, <1>7, <2>1, <2>3, <2>4
<1>8. ASSUME c.batch >= c.batches, NEW id \in ToSet(r) \cap c.seen
      PROVE  Settled(c, id)
  BY <1>1, <1>5, <1>8
<1>9. ASSUME NEW i \in 1..Len(c.entries), NEW m \in 1..Len(r), NEW n \in 1..Len(r),
             r[n] = c.entries[i], m < n
      PROVE  ~ Fits(c, r[m]) \/ \E h \in 1..(i - 1) : c.entries[h] = r[m]
  <2> DEFINE a == IF m < k THEN m ELSE m + 1
             b == IF n < k THEN n ELSE n + 1
  <2>1. a \in 1..Len(l) /\ b \in 1..Len(l) /\ a < b
    BY <1>1, <1>6, <1>9
  <2>2. r[m] = l[a] /\ r[n] = l[b]
    BY <1>6
  <2> HIDE DEF a, b
  <2> QED
    BY <1>5, <1>9, <2>1, <2>2
<1> QED
  BY <1>7, <1>8, <1>9 DEF Visited, done

\* RPUSH of an id that the call does not know, likewise.
LEMMA AppendPlaced ==
  ASSUME NEW l \in Seq(Ids), NEW c \in Calls, NEW x \in Ids, x \notin c.seen, Placed(l, c)
  PROVE  Placed(Append(l, x), c)
<1> DEFINE r == Append(l, x)
           top == c.batches * BatchSize
           low == (c.batches - 1) * BatchSize
<1>1. /\ r \in Seq(Ids) /\ Len(l) \in Nat /\ Len(r) = Len(l) + 1
      /\ \A i \in 1..Len(l) : r[i] = l[i]
      /\ r[Len(l) + 1] = x /\ ToSet(r) = ToSet(l) \cup {x}
  BY Added
<1> HIDE DEF r
<1>2. top \in Nat /\ low \in Int
  BY BatchesGrow DEF Calls
<1>3. /\ \A m \in 1..Len(l) : l[m] \in c.seen => m <= top
      /\ c.seen \subseteq ToSet(l) =>
           low <= Len(l) /\ \A m \in 1..Len(l) : l[m] \notin c.seen => low < m
  BY DEF Placed
<1> HIDE DEF top, low
<1>4. ASSUME NEW m \in 1..Len(r), r[m] \in c.seen
      PROVE  m <= top
  <2>1. m \in 1..Len(l)
    BY <1>1, <1>4
  <2> QED
    BY <1>1, <1>3, <1>4, <2>1
<1>5. ASSUME c.seen \subseteq ToSet(r)
      PROVE  low <= Len(r) /\ \A m \in 1..Len(r) : r[m] \notin c.seen => low < m
  <2>1. c.seen \subseteq ToSet(l)
    BY <1>1, <1>5
  <2>2. low <= Len(l) /\ \A m \in 1..Len(l) : l[m] \notin c.seen => low < m
    BY <1>3, <2>1
  <2>3. ASSUME NEW m \in 1..Len(r), r[m] \notin c.seen
        PROVE  low < m
    <3>1. m \in 1..Len(l) \/ m = Len(l) + 1
      BY <1>1
    <3> QED
      BY <1>1, <1>2, <2>2, <2>3, <3>1
  <2> QED
    BY <1>1, <1>2, <2>2, <2>3
<1> QED
  BY <1>4, <1>5 DEF Placed, top, low, r

LEMMA AppendVisited ==
  ASSUME NEW l \in Seq(Ids), NEW c \in Calls, NEW x \in Ids,
         x \notin c.seen, x \notin ToSet(c.entries), Placed(l, c), Visited(l, c)
  PROVE  Visited(Append(l, x), c)
<1> DEFINE r == Append(l, x)
           low == (c.batches - 1) * BatchSize
           done == c.batch * BatchSize
<1>1. /\ r \in Seq(Ids) /\ Len(l) \in Nat /\ Len(r) = Len(l) + 1
      /\ \A i \in 1..Len(l) : r[i] = l[i]
      /\ r[Len(l) + 1] = x /\ ToSet(r) = ToSet(l) \cup {x}
  BY Added
<1> HIDE DEF r
<1>2. /\ low \in Int /\ done \in Nat
      /\ c.batch < c.batches => done <= low
  BY BatchesGrow DEF Calls
<1>3. c.seen \subseteq ToSet(l) => low <= Len(l)
  BY DEF Placed
<1> HIDE DEF low
<1>4. SUFFICES ASSUME ~ c.shifted
               PROVE  Visited(r, c)
  BY DEF Visited, r
<1>5. /\ c.batch < c.batches /\ c.seen \subseteq ToSet(l) =>
           \A m \in 1..Len(l) : m <= done => Settled(c, l[m])
      /\ c.batch >= c.batches => \A id \in ToSet(l) \cap c.seen : Settled(c, id)
      /\ \A i \in 1..Len(c.entries), m, n \in 1..Len(l) :
           l[n] = c.entries[i] /\ m < n =>
             ~ Fits(c, l[m]) \/ \E h \in 1..(i - 1) : c.entries[h] = l[m]
  BY <1>4 DEF Visited
<1> HIDE DEF done
<1>6. ASSUME c.batch < c.batches, c.seen \subseteq ToSet(r),
             NEW m \in 1..Len(r), m <= done
      PROVE  Settled(c, r[m])
  <2>1. c.seen \subseteq ToSet(l)
    BY <1>1, <1>6
  <2>2. m \in 1..Len(l) /\ r[m] = l[m]
    BY <1>1, <1>2, <1>3, <1>6, <2>1
  <2> QED
    BY <1>5, <1>6, <2>1, <2>2
<1>7. ASSUME c.batch >= c.batches, NEW id \in ToSet(r) \cap c.seen
      PROVE  Settled(c, id)
  BY <1>1, <1>5, <1>7
<1>8. ASSUME NEW i \in 1..Len(c.entries), NEW m \in 1..Len(r), NEW n \in 1..Len(r),
             r[n] = c.entries[i], m < n
      PROVE  ~ Fits(c, r[m]) \/ \E h \in 1..(i - 1) : c.entries[h] = r[m]
  <2>1. c.entries[i] \in ToSet(c.entries)
    BY ElementsOf DEF Calls
  <2>2. n # Len(l) + 1
    BY <1>1, <1>8, <2>1
  <2>3. m \in 1..Len(l) /\ n \in 1..Len(l)
    BY <1>1, <1>8, <2>2
  <2>4. r[m] = l[m] /\ r[n] = l[n]
    BY <1>1, <2>3
  <2> QED
    BY <1>5, <1>8, <2>3, <2>4
<1> QED
  BY <1>6, <1>7, <1>8 DEF Visited, done

\* When time is taken, no more jobs fit.
LEMMA LessTimeVisited ==
  ASSUME NEW l \in Seq(Ids), NEW c \in Calls, NEW a \in Int, a <= c.available,
         Placed(l, c), Visited(l, c)
  PROVE  LET d == [c EXCEPT !.available = a] IN Placed(l, d) /\ Visited(l, d)
<1> DEFINE d == [c EXCEPT !.available = a]
<1>1. /\ d \in Calls /\ d.kind = c.kind /\ d.limit = c.limit /\ d.available = a
      /\ d.batch = c.batch /\ d.batches = c.batches /\ d.entries = c.entries
      /\ d.seen = c.seen /\ d.shifted = c.shifted
  BY DEF Calls
<1> HIDE DEF d
<1>2. \A id \in Ids : ~ Fits(c, id) => ~ Fits(d, id)
  BY <1>1, FitsDepends
<1>3. \A m \in 1..Len(l) : l[m] \in Ids
  BY SeqElement
<1>4. \A id \in Ids : Settled(c, id) => Settled(d, id)
  BY <1>1, <1>2 DEF Settled
<1>5. \A id \in ToSet(l) : id \in Ids
  BY <1>3, ElementsOf
<1>6. Placed(l, d)
  BY <1>1 DEF Placed
<1>7. Visited(l, d)
  <2> SUFFICES ASSUME ~ d.shifted PROVE Visited(l, d)
    BY DEF Visited
  <2> USE <1>1, <1>2, <1>3, <1>4, <1>5 DEF Visited
  <2>1. d.batch < d.batches /\ d.seen \subseteq ToSet(l) =>
          \A m \in 1..Len(l) : m <= d.batch * BatchSize => Settled(d, l[m])
    OBVIOUS
  <2>2. d.batch >= d.batches => \A id \in ToSet(l) \cap d.seen : Settled(d, id)
    OBVIOUS
  <2>3. ASSUME NEW k \in 1..Len(d.entries), NEW m \in 1..Len(l), NEW n \in 1..Len(l),
               l[n] = d.entries[k], m < n
        PROVE  ~ Fits(d, l[m]) \/ \E i \in 1..(k - 1) : d.entries[i] = l[m]
    BY <2>3
  <2> QED
    BY <2>1, <2>2, <2>3
<1> QED
  BY <1>6, <1>7 DEF d

\* The first entry that fits, if there is one.
LEMMA FirstFitFacts ==
  ASSUME NEW c \in Calls
  PROVE  \/ /\ FirstFit(c) = 0
            /\ \A i \in 1..Len(c.entries) : ~ Fits(c, c.entries[i])
         \/ /\ FirstFit(c) \in 1..Len(c.entries)
            /\ Fits(c, c.entries[FirstFit(c)])
            /\ \A i \in 1..Len(c.entries) : i < FirstFit(c) => ~ Fits(c, c.entries[i])
<1> DEFINE good == {i \in 1..Len(c.entries) : Fits(c, c.entries[i])}
<1>1. Len(c.entries) \in Nat
  BY DEF Calls
<1>2. FirstFit(c) = IF good # {} THEN Min(good) ELSE 0
  BY DEF FirstFit, SelectInSeq
<1>3. CASE good = {}
  BY <1>2, <1>3
<1>4. CASE good # {}
  <2>1. good \in SUBSET (1..Len(c.entries))
    OBVIOUS
  <2>2. Min(good) \in good /\ \A i \in 1..Len(c.entries) : i < Min(good) => i \notin good
    <3> HIDE DEF good
    <3> QED
      BY <1>1, <1>4, <2>1, FirstOfIndices
  <2>3. FirstFit(c) = Min(good)
    BY <1>2, <1>4
  <2> QED
    BY <2>2, <2>3
<1> QED
  BY <1>3, <1>4

\* pop_job of the first entry that fits takes it off the list and goes on
\* behind it.
LEMMA PopVisited ==
  ASSUME NEW l \in Seq(Ids), NEW c \in Calls, FirstFit(c) # 0,
         c.entries[FirstFit(c)] \notin ToSet(l), Placed(l, c), Visited(l, c)
  PROVE  LET d == [c EXCEPT !.entries = SubSeq(@, FirstFit(c) + 1, Len(@))]
         IN d \in Calls /\ ToSet(d.entries) \subseteq ToSet(c.entries)
            /\ Placed(l, d) /\ Visited(l, d)
<1> DEFINE f == FirstFit(c)
           e == c.entries
           t == SubSeq(e, f + 1, Len(e))
           d == [c EXCEPT !.entries = SubSeq(@, f + 1, Len(@))]
<1>1. /\ f \in 1..Len(e) /\ e \in Seq(Ids)
      /\ \A i \in 1..Len(e) : i < f => ~ Fits(c, e[i])
  BY FirstFitFacts DEF Calls
<1>2. d = [c EXCEPT !.entries = t]
  BY DEF Calls
<1> HIDE DEF f, d
<1>3. /\ t \in Seq(Ids) /\ Len(e) \in Nat /\ Len(t) = Len(e) - f
      /\ \A i \in 1..Len(t) : f + i \in 1..Len(e) /\ t[i] = e[f + i]
      /\ \A i \in 1..Len(e) : i > f => e[i] \in ToSet(t)
      /\ ToSet(t) \subseteq ToSet(e)
  BY <1>1, Rest
<1>e. e = c.entries
  OBVIOUS
<1> HIDE DEF t
<1>4. /\ d \in Calls /\ d.kind = c.kind /\ d.limit = c.limit /\ d.available = c.available
      /\ d.batch = c.batch /\ d.batches = c.batches /\ d.entries = t
      /\ d.seen = c.seen /\ d.shifted = c.shifted
  BY <1>2, <1>3 DEF Calls
<1> HIDE DEF e
<1>5. \A id : Fits(d, id) <=> Fits(c, id)
  BY <1>4 DEF Fits
<1>6. e[f] \notin ToSet(l)
  BY <1>e DEF f
<1>7. ASSUME NEW id \in ToSet(l), Settled(c, id)
      PROVE  Settled(d, id)
  <2>1. CASE ~ Fits(c, id)
    BY <1>5, <2>1 DEF Settled
  <2>2. CASE id \in ToSet(e)
    <3>1. PICK i \in 1..Len(e) : e[i] = id
      BY <1>1, <2>2, ElementsOf
    <3>2. i # f
      BY <1>6, <1>7, <3>1
    <3>3. CASE i < f
      BY <1>1, <1>5, <3>1, <3>3 DEF Settled
    <3>4. CASE i > f
      BY <1>3, <1>4, <3>1, <3>4 DEF Settled
    <3> QED
      BY <1>1, <1>3, <3>2, <3>3, <3>4
  <2> QED
    BY <1>e, <1>7, <2>1, <2>2 DEF Settled
<1>8. Placed(l, d)
  BY <1>4 DEF Placed
<1>9. \A m \in 1..Len(l) : l[m] \in ToSet(l)
  BY ElementsOf
<1>10. Visited(l, d)
  <2> SUFFICES ASSUME ~ d.shifted PROVE Visited(l, d)
    BY DEF Visited
  <2>1. d.batch < d.batches /\ d.seen \subseteq ToSet(l) =>
          \A m \in 1..Len(l) : m <= d.batch * BatchSize => Settled(d, l[m])
    BY <1>4, <1>7, <1>9 DEF Visited
  <2>2. d.batch >= d.batches => \A id \in ToSet(l) \cap d.seen : Settled(d, id)
    BY <1>4, <1>7 DEF Visited
  <2>3. ASSUME NEW k \in 1..Len(d.entries), NEW m \in 1..Len(l), NEW n \in 1..Len(l),
               l[n] = d.entries[k], m < n
        PROVE  ~ Fits(d, l[m]) \/ \E i \in 1..(k - 1) : d.entries[i] = l[m]
    <3>1. f + k \in 1..Len(e) /\ e[f + k] = l[n]
      BY <1>3, <1>4, <2>3
    <3>i. \A p \in 1..Len(e) : l[n] = e[p] =>
            ~ Fits(c, l[m]) \/ \E i \in 1..(p - 1) : e[i] = l[m]
      BY <1>4, <1>e, <2>3 DEF Visited
    <3>2. ~ Fits(c, l[m]) \/ \E i \in 1..(f + k - 1) : e[i] = l[m]
      <4>1. PICK p \in 1..Len(e) : p = f + k /\ l[n] = e[p]
        BY <3>1
      <4>2. ~ Fits(c, l[m]) \/ \E i \in 1..(p - 1) : e[i] = l[m]
        BY <3>i, <4>1
      <4>3. 1..(p - 1) = 1..(f + k - 1)
        <5>1. p - 1 = f + k - 1
          BY <1>1, <4>1
        <5> QED
          BY <5>1, Zenon
      <4> QED
        BY <4>2, <4>3
    <3>3. ASSUME NEW i \in 1..(f + k - 1), e[i] = l[m]
          PROVE  ~ Fits(c, l[m]) \/ \E h \in 1..(k - 1) : t[h] = l[m]
      <4>1. i # f
        BY <1>6, <1>9, <3>3
      <4>2. CASE i < f
        <5>1. i \in 1..Len(e)
          BY <1>1, <1>3, <4>2
        <5> QED
          BY <1>1, <3>3, <4>2, <5>1
      <4>3. CASE i > f
        <5>1. i - f \in 1..(k - 1) /\ i - f \in 1..Len(t) /\ f + (i - f) = i
          BY <1>1, <1>3, <1>4, <4>3, <2>3, <3>3
        <5>2. t[i - f] = l[m]
          BY <1>3, <3>3, <5>1
        <5> QED
          BY <5>1, <5>2
      <4> QED
        BY <1>1, <1>3, <4>1, <4>2, <4>3
    <3> QED
      BY <1>4, <1>5, <3>2, <3>3
  <2> QED
    BY <2>1, <2>2, <2>3 DEF Visited
<1> QED
  BY <1>3, <1>4, <1>8, <1>10, <1>e DEF d, f

\* LRANGE of the next batch, when nothing that was read before fits any more:
\* what is in front of the batch is settled unless something moved up.
LEMMA BatchVisited ==
  ASSUME NEW l \in Seq(Ids), NEW c \in Calls, c.batch < c.batches, FirstFit(c) = 0,
         Distinct(l), Placed(l, c), Visited(l, c)
  PROVE  LET d == [c EXCEPT
               !.batch = c.batch + 1,
               !.shifted = @ \/ (c.batch > 0 /\ ~ (c.seen \subseteq ToSet(l))),
               !.entries = SubSeq(l, c.batch * BatchSize + 1,
                                  Min({(c.batch + 1) * BatchSize, Len(l)}))]
         IN d \in Calls /\ ToSet(d.entries) \subseteq ToSet(l)
            /\ Placed(l, d) /\ Visited(l, d)
<1> DEFINE lo == c.batch * BatchSize
           up == (c.batch + 1) * BatchSize
           hi == Min({up, Len(l)})
           t == SubSeq(l, lo + 1, hi)
           top == c.batches * BatchSize
           sh == c.shifted \/ (c.batch > 0 /\ ~ (c.seen \subseteq ToSet(l)))
           d == [c EXCEPT !.batch = c.batch + 1, !.shifted = sh, !.entries = t]
<1>1. /\ lo \in Nat /\ up \in Nat /\ top \in Nat /\ lo <= up
      /\ c.batch + 1 >= c.batches => top <= up
      /\ Len(l) \in Nat /\ c.batch \in Nat
      /\ c.batch = 0 => lo = 0
  <2>1. c.batch \in Nat /\ c.batches \in Nat /\ BatchSize \in Nat \ {0}
    BY BatchAssumption DEF Calls
  <2>2. c.batch + 1 \in Nat /\ (c.batch + 1 >= c.batches => c.batches <= c.batch + 1)
    BY <2>1
  <2> QED
    BY <2>1, <2>2, BatchesGrow, LenProperties
<1>2. hi = IF up <= Len(l) THEN up ELSE Len(l)
  <2> DEFINE x == IF up <= Len(l) THEN up ELSE Len(l)
  <2>1. /\ x \in {up, Len(l)} /\ \A y \in {up, Len(l)} : x <= y
        /\ \A z \in {up, Len(l)} : (\A y \in {up, Len(l)} : z <= y) => z = x
    BY <1>1
  <2> HIDE DEF x
  <2>2. hi = x
    BY <2>1 DEF Min
  <2> QED
    BY <2>2 DEF x
<1> HIDE DEF hi
<1>3. /\ t \in Seq(Ids) /\ Len(t) = (IF lo + 1 <= hi THEN hi - lo ELSE 0)
      /\ \A i \in 1..Len(t) : lo + i \in 1..Len(l) /\ t[i] = l[lo + i]
  <2> HIDE DEF lo, up
  <2>1. \A i \in (lo + 1)..hi : l[i] \in Ids
    <3>1. (lo + 1)..hi \subseteq 1..Len(l)
      BY <1>1, <1>2
    <3> QED
      BY <3>1, SeqElement
  <2>2. lo + 1 \in Int /\ hi \in Int
    BY <1>1, <1>2
  <2>3. /\ t \in Seq(Ids)
        /\ Len(t) = IF lo + 1 <= hi THEN hi - (lo + 1) + 1 ELSE 0
        /\ \A i \in 1..(hi - (lo + 1) + 1) : t[i] = l[(lo + 1) + i - 1]
    BY <2>1, <2>2, SubSeqProperties
  <2> HIDE DEF t
  <2>4. Len(t) = IF lo + 1 <= hi THEN hi - lo ELSE 0
    <3>1. hi - (lo + 1) + 1 = hi - lo
      BY <1>1, <2>2
    <3> QED
      BY <2>3, <3>1
  <2>5. ASSUME NEW i \in 1..Len(t) PROVE lo + i \in 1..Len(l) /\ t[i] = l[lo + i]
    <3>1. i \in 1..(hi - (lo + 1) + 1) /\ (lo + 1) + i - 1 = lo + i
      BY <1>1, <2>2, <2>4
    <3>2. lo + i \in 1..Len(l)
      BY <1>1, <1>2, <3>1
    <3> QED
      BY <2>3, <3>1, <3>2
  <2> QED
    BY <2>3, <2>4, <2>5
<1> HIDE DEF t
<1>4. /\ d \in Calls /\ d.kind = c.kind /\ d.limit = c.limit /\ d.available = c.available
      /\ d.batch = c.batch + 1 /\ d.batches = c.batches /\ d.entries = t
      /\ d.seen = c.seen /\ d.shifted = sh
  <2> HIDE DEF sh
  <2>1. sh \in BOOLEAN
    BY DEF sh, Calls
  <2>2. c.batch + 1 \in Nat
    BY <1>1
  <2>3. t \in Seq(Ids)
    BY <1>3
  <2> QED
    BY <2>1, <2>2, <2>3 DEF Calls
<1>5. \A id : Fits(d, id) <=> Fits(c, id)
  BY <1>4 DEF Fits
<1> HIDE DEF d
<1>6. ToSet(t) \subseteq ToSet(l)
  <2> SUFFICES ASSUME NEW x \in ToSet(t) PROVE x \in ToSet(l)
    OBVIOUS
  <2>1. PICK i \in 1..Len(t) : t[i] = x
    BY <1>3, ElementsOf
  <2> QED
    BY <1>3, <2>1, ElementsOf
<1>7. ASSUME NEW m \in 1..Len(l), lo < m, m <= up
      PROVE  m - lo \in 1..Len(t) /\ t[m - lo] = l[m] /\ l[m] \in ToSet(t)
  <2> HIDE DEF lo, up
  <2>1. m <= hi /\ lo + 1 <= hi /\ hi \in Nat
    BY <1>1, <1>2, <1>7
  <2>2. m - lo \in 1..Len(t) /\ lo + (m - lo) = m
    BY <1>1, <1>3, <1>7, <2>1
  <2>3. t[m - lo] = l[m]
    BY <1>3, <2>2
  <2> QED
    BY <1>3, <2>2, <2>3, ElementsOf
<1>8. \A i \in 1..Len(c.entries) : ~ Fits(c, c.entries[i])
  BY FirstFitFacts
<1>9. \A id : Settled(c, id) => ~ Fits(c, id)
  <2> SUFFICES ASSUME NEW id \in ToSet(c.entries) PROVE ~ Fits(c, id)
    BY DEF Settled
  <2>1. PICK i \in 1..Len(c.entries) : c.entries[i] = id
    BY ElementsOf DEF Calls
  <2> QED
    BY <1>8, <2>1
<1>10. ASSUME ~ d.shifted, NEW m \in 1..Len(l), m <= lo
       PROVE  ~ Fits(d, l[m])
  <2>1. ~ c.shifted /\ c.batch > 0 /\ c.seen \subseteq ToSet(l)
    <3>1. ~ sh
      BY <1>4, <1>10, Zenon
    <3>2. c.batch # 0
      <4> HIDE DEF lo
      <4> QED
        BY <1>1, <1>10
    <3>3. c.batch > 0
      BY <1>1, <3>2
    <3> QED
      BY <3>1, <3>3, Zenon
  <2>2. Settled(c, l[m])
    BY <1>10, <2>1 DEF Visited
  <2> QED
    BY <1>5, <1>9, <2>2
<1>11. Placed(l, d)
  BY <1>4 DEF Placed
<1>12. Visited(l, d)
  <2> SUFFICES ASSUME ~ d.shifted PROVE Visited(l, d)
    BY DEF Visited
  <2>1. ASSUME NEW m \in 1..Len(l), m <= up
        PROVE  Settled(d, l[m])
    <3>1. CASE m <= lo
      BY <1>10, <3>1 DEF Settled
    <3>2. CASE lo < m
      BY <1>4, <1>7, <2>1, <3>2 DEF Settled
    <3> HIDE DEF lo
    <3> QED
      BY <1>1, <3>1, <3>2
  <2>2. ASSUME d.batch >= d.batches, NEW id \in ToSet(l) \cap d.seen
        PROVE  Settled(d, id)
    <3>1. PICK m \in 1..Len(l) : l[m] = id
      BY <2>2, ElementsOf
    <3>2. m <= top
      BY <1>4, <2>2, <3>1 DEF Placed
    <3>3. top <= up
      BY <1>1, <1>4, <2>2
    <3> HIDE DEF top, up
    <3>4. m <= up
      BY <1>1, <3>2, <3>3
    <3> QED
      BY <2>1, <3>1, <3>4
  <2>3. ASSUME NEW k \in 1..Len(d.entries), NEW m \in 1..Len(l), NEW n \in 1..Len(l),
               l[n] = d.entries[k], m < n
        PROVE  ~ Fits(d, l[m]) \/ \E i \in 1..(k - 1) : d.entries[i] = l[m]
    <3> HIDE DEF lo, up
    <3>1. lo + k \in 1..Len(l) /\ l[lo + k] = l[n] /\ k \in 1..Len(t)
      BY <1>3, <1>4, <2>3
    <3>2. n = lo + k
      BY <2>3, <3>1 DEF Distinct
    <3>3. CASE m <= lo
      BY <1>10, <3>3
    <3>4. CASE lo < m
      <4>0. /\ lo \in Int /\ k \in Int /\ m \in Int /\ n \in Int
            /\ n = lo + k /\ m < n /\ lo < m
        BY <1>1, <1>3, <2>3, <3>1, <3>2, <3>4
      <4>1. m <= up /\ m - lo \in 1..(k - 1)
        <5>1. m - lo \in 1..(k - 1)
          BY <4>0
        <5>2. k <= Len(t) /\ lo + Len(t) <= up
          BY <1>1, <1>2, <1>3, <3>1
        <5> QED
          BY <5>1, <5>2, <4>0, <1>1, <1>3
      <4>2. t[m - lo] = l[m]
        BY <1>7, <3>4, <4>1
      <4> QED
        BY <1>4, <4>1, <4>2
    <3> QED
      BY <1>1, <3>3, <3>4
  <2>4. \A m \in 1..Len(l) : m <= d.batch * BatchSize => Settled(d, l[m])
    BY <1>4, <2>1
  <2> QED
    BY <2>2, <2>3, <2>4 DEF Visited
<1>13. d = [c EXCEPT !.batch = c.batch + 1,
                     !.shifted = @ \/ (c.batch > 0 /\ ~ (c.seen \subseteq ToSet(l))),
                     !.entries = t]
  BY DEF d, Calls
<1> QED
  BY <1>4, <1>6, <1>11, <1>12, <1>13 DEF t, lo, hi, up

-----------------------------------------------------------------------------
(* The steps.                                                              *)

\* The parts of the invariant that every step needs.
LEMMA WaitFacts ==
  ASSUME WaitInv
  PROVE  /\ q.list \in Seq(Ids) /\ q.store \in SUBSET Ids /\ q.total \in Int
         /\ pushed \in SUBSET Jobs /\ withdrawn \in SUBSET Jobs
         /\ mover \in Calls /\ hand \in Seq(Ids) /\ moved \in Seq(Ids)
         /\ mover.seen \in SUBSET Ids /\ mover.available \in Int /\ mover.limit \in Nat
         /\ mover.entries \in Seq(Ids) /\ Len(hand) \in 0..1
         /\ ToSet(q.list) = q.store /\ Distinct(q.list) /\ Distinct(moved)
         /\ IsFiniteSet(ToSet(moved))
         /\ hand # <<>> => Len(hand) = 1 /\ hand[1] \in Ids /\ ToSet(hand) = {hand[1]}
<1>1. hand \in Seq(Ids) /\ Len(hand) <= 1 /\ Len(hand) \in Nat
  BY LenProperties DEF WaitInv, Types
<1>2. ASSUME hand # <<>>
      PROVE  Len(hand) = 1 /\ hand[1] \in Ids /\ ToSet(hand) = {hand[1]}
  <2>0. Len(hand) # 0
    BY <1>1, <1>2, EmptySeq
  <2>1. Len(hand) = 1
    <3> DEFINE n == Len(hand)
    <3>1. n \in Nat /\ n <= 1 /\ n # 0
      BY <1>1, <2>0
    <3> HIDE DEF n
    <3>2. n = 1
      BY <3>1
    <3> QED
      BY <3>2 DEF n
  <2>2. \A x : x \in ToSet(hand) <=> \E i \in 1..Len(hand) : hand[i] = x
    BY <1>1, ElementsOf
  <2>3. 1..Len(hand) = {1}
    BY <2>1
  <2> QED
    BY <1>1, <2>1, <2>2, <2>3, SeqElement
<1> QED
  BY <1>1, <1>2, QueueParts DEF WaitInv, Types, Owned, InWindow, Calls

\* The call that does not exist.
LEMMA NoCallFacts ==
  /\ NoCall \in Calls /\ NoCall.kind = "none" /\ NoCall.seen = {}
  /\ ToSet(NoCall.entries) = {}
  /\ ToSet(<<>>) = {} /\ <<>> \in Seq(Ids) /\ Len(<<>>) = 0
<1>1. <<>> \in Seq(Ids) /\ Len(<<>>) = 0 /\ {} \in SUBSET Ids
  BY EmptySeq
<1>2. ToSet(<<>>) = {}
  BY DEF ToSet
<1> QED
  BY <1>1, <1>2 DEF NoCall, Calls

\* A call that an exception over `id` has ended.
RaisedCall(id) ==
  /\ mover' \in Calls /\ mover'.kind \in {"none", "ended"} /\ ToSet(mover'.entries) = {}
  /\ mover'.seen \subseteq mover.seen
  /\ mover'.kind = "ended" =>
       /\ mover.kind = "many" /\ mover'.raised = {id} /\ mover'.seen = mover.seen
       /\ mover'.available = mover.available /\ mover'.limit = mover.limit
  /\ mover'.kind = "none" => mover' = NoCall

LEMMA RaiseFacts ==
  ASSUME WaitInv, NEW id \in Ids, mover.kind \in {"first", "many"}, Raise(id)
  PROVE  RaisedCall(id)
<1> DEFINE d == [mover EXCEPT !.kind = "ended", !.entries = <<>>, !.raised = {id}]
<1>1. mover \in Calls
  BY WaitFacts
<1>2. CASE mover.kind = "first"
  <2>1. mover' = NoCall
    BY <1>2 DEF Raise
  <2> QED
    BY <2>1, NoCallFacts DEF RaisedCall
<1>3. CASE mover.kind = "many"
  <2>1. mover' = d
    BY <1>3 DEF Raise
  <2>2. /\ d \in Calls /\ d.kind = "ended" /\ d.entries = <<>> /\ d.raised = {id}
        /\ d.seen = mover.seen /\ d.available = mover.available /\ d.limit = mover.limit
    BY <1>1, NoCallFacts DEF Calls
  <2> HIDE DEF d
  <2> QED
    BY <1>3, <2>1, <2>2, NoCallFacts DEF RaisedCall
<1> QED
  BY <1>2, <1>3

\* Initially nothing waits and no call is in progress.
LEMMA InitWait == Init => WaitInv
<1> SUFFICES ASSUME Init PROVE WaitInv
  OBVIOUS
<1>1. /\ q.list = <<>> /\ q.store = {} /\ q.total = 0 /\ q = EmptyQueue
      /\ pushed = {} /\ withdrawn = {} /\ mover = NoCall /\ hand = <<>> /\ moved = <<>>
  BY DEF Init, EmptyQueue
<1>2. Types
  <2>1. q \in QueueType(Ids)
    BY <1>1, NoCallFacts DEF EmptyQueue, QueueType
  <2> QED
    BY <1>1, <2>1, NoCallFacts DEF Types
<1>3. Owned
  <2>1. Distinct(<<>>)
    BY NoCallFacts DEF Distinct
  <2> QED
    BY <1>1, <2>1, NoCallFacts DEF Owned
<1>4. InWindow
  BY <1>1, NoCallFacts, FS_EmptySet DEF InWindow, MovedFitsWindow
<1>5. mover.kind = "none"
  BY <1>1, NoCallFacts
<1> QED
  BY <1>2, <1>3, <1>4, <1>5 DEF WaitInv, LeftNothing

\* _push_to_waitlist.
LEMMA PushWait ==
  ASSUME WaitInv, NEW j \in Jobs, Push(j)
  PROVE  WaitInv'
<1> DEFINE x == Sid(j)
<1>1. /\ j \notin pushed /\ pushed' = pushed \cup {j}
      /\ q' = Add(q, x)
      /\ q'.list = Append(q.list, x) /\ q'.store = q.store \cup {x}
      /\ UNCHANGED <<withdrawn, mover, hand, moved>>
  BY DEF Push, Add
<1>2. x \in Ids /\ x.uuid = j /\ x.duration \in Nat
  BY SidFacts
<1> HIDE DEF x
<1>f. /\ q.list \in Seq(Ids) /\ q.store \in SUBSET Ids /\ q.total \in Int
      /\ pushed \in SUBSET Jobs /\ withdrawn \in SUBSET Jobs
      /\ mover \in Calls /\ ToSet(q.list) = q.store /\ Distinct(q.list)
  BY WaitFacts
<1>3. /\ x \notin q.store /\ x \notin ToSet(hand) /\ x \notin ToSet(moved)
      /\ x \notin ToSet(mover.entries) /\ x \notin mover.seen
      /\ j \notin withdrawn
  BY <1>1, <1>2 DEF WaitInv, Owned
<1>4. /\ q'.list \in Seq(Ids) /\ ToSet(q'.list) = ToSet(q.list) \cup {x} /\ Distinct(q'.list)
  BY <1>1, <1>2, <1>3, <1>f, Added
<1>5. Types'
  <2>1. q' = [list |-> q'.list, store |-> q'.store, total |-> q.total + x.duration]
    BY <1>1 DEF Add
  <2>2. q'.list \in Seq(Ids) /\ q'.store \in SUBSET Ids /\ q.total + x.duration \in Int
    BY <1>1, <1>2, <1>4, <1>f
  <2>3. q' \in QueueType(Ids)
    BY <2>1, <2>2, QueueParts
  <2> QED
    BY <1>1, <1>f, <2>3 DEF WaitInv, Types
<1>6. Owned'
  BY <1>1, <1>2, <1>3, <1>4, <1>f DEF WaitInv, Owned
<1>7. InWindow'
  BY <1>1 DEF WaitInv, InWindow, MovedFitsWindow
<1>8. mover'.kind \in {"first", "many"} => Placed(q'.list, mover') /\ Visited(q'.list, mover')
  BY <1>1, <1>2, <1>3, <1>f, AppendPlaced, AppendVisited DEF WaitInv
<1>9. LeftNothing'
  BY <1>1, <1>3, <1>4 DEF WaitInv, LeftNothing
<1> QED
  BY <1>5, <1>6, <1>7, <1>8, <1>9 DEF WaitInv

\* cancel_job, of a job that is on the waitlist or not, under the id that it has
\* there or another one.
LEMMA CancelWait ==
  ASSUME WaitInv, NEW j \in Jobs, Cancel(j)
  PROVE  WaitInv'
<1>1. PICK d \in {Duration[j], 0} :
        /\ q' = PopJob(q, StorageID(j, d))
        /\ withdrawn' = IF HasPayload(q, StorageID(j, d)) THEN withdrawn \cup {j}
                        ELSE withdrawn
  BY DEF Cancel
<1> DEFINE x == StorageID(j, d)
<1>2. /\ q' = PopJob(q, x)
      /\ q'.list = RemoveFirst(q.list, x) /\ q'.store = q.store \ {x}
      /\ withdrawn' = (IF x \in q.store THEN withdrawn \cup {j} ELSE withdrawn)
      /\ UNCHANGED <<pushed, mover, hand, moved>>
      /\ x.duration \in Nat /\ x.uuid = j
  BY <1>1, DurationAssumption DEF Cancel, PopJob, HasPayload, StorageID
<1> HIDE DEF x
<1>f. /\ q.list \in Seq(Ids) /\ q.store \in SUBSET Ids /\ q.total \in Int
      /\ pushed \in SUBSET Jobs /\ withdrawn \in SUBSET Jobs
      /\ mover \in Calls /\ ToSet(q.list) = q.store /\ Distinct(q.list)
      /\ hand \in Seq(Ids) /\ moved \in Seq(Ids)
  BY WaitFacts
<1>3. /\ q'.list \in Seq(Ids) /\ ToSet(q'.list) = ToSet(q.list) \ {x} /\ Distinct(q'.list)
  <2>1. LET r == RemoveFirst(q.list, x) IN
        r \in Seq(Ids) /\ ToSet(r) = ToSet(q.list) \ {x} /\ Distinct(r)
    BY <1>f, Removed
  <2> QED
    BY <1>2, <2>1
<1>4. ASSUME x \in q.store
      PROVE  /\ j \in pushed
             /\ \A id \in q'.store \cup ToSet(hand) \cup ToSet(moved) : id.uuid # j
  <2>1. j \in pushed
    BY <1>2, <1>4 DEF WaitInv, Owned
  <2>2. ToSet(hand) \subseteq Ids /\ ToSet(moved) \subseteq Ids
    BY <1>f, ElementsOf, SeqElement
  <2>3. x = Sid(j)
    BY <1>2, <1>4, <1>f, SidFacts
  <2>4. x \notin ToSet(hand) \cup ToSet(moved)
    BY <1>4 DEF WaitInv, Owned
  <2>5. ASSUME NEW id \in q'.store \cup ToSet(hand) \cup ToSet(moved), id.uuid = j
        PROVE  FALSE
    <3>1. id \in Ids /\ id # x
      BY <1>2, <1>f, <2>2, <2>4, <2>5
    <3> QED
      BY <2>3, <2>5, <3>1, SidFacts
  <2> QED
    BY <2>1, <2>5
<1>5. Types'
  <2>1. q' = [list |-> q'.list, store |-> q'.store, total |-> q.total - x.duration]
    BY <1>2 DEF PopJob
  <2>t. q'.list \in Seq(Ids) /\ q'.store \in SUBSET Ids /\ q.total - x.duration \in Int
    BY <1>2, <1>3, <1>f
  <2>2. q' \in QueueType(Ids)
    BY <2>1, <2>t, QueueParts
  <2>3. withdrawn' \in SUBSET Jobs
    BY <1>2, <1>f
  <2> QED
    BY <1>2, <1>f, <2>2, <2>3 DEF WaitInv, Types
<1>6. Owned'
  <2>1. \A id \in q'.store \cup ToSet(hand') \cup ToSet(moved') : id.uuid \in pushed' \ withdrawn'
    <3>1. \A id \in q.store \cup ToSet(hand) \cup ToSet(moved) : id.uuid \in pushed \ withdrawn
      BY DEF WaitInv, Owned
    <3>2. \A id \in q'.store \cup ToSet(hand) \cup ToSet(moved) : id.uuid \in pushed \ withdrawn'
      BY <1>2, <1>4, <3>1
    <3> QED
      BY <1>2, <3>2
  <2>2. withdrawn' \subseteq pushed'
    BY <1>2, <1>4 DEF WaitInv, Owned
  <2> QED
    BY <1>2, <1>3, <1>f, <2>1, <2>2 DEF WaitInv, Owned
<1>7. InWindow'
  BY <1>2 DEF WaitInv, InWindow, MovedFitsWindow
<1>8. mover'.kind \in {"first", "many"} => Placed(q'.list, mover') /\ Visited(q'.list, mover')
  BY <1>2, <1>f, RemovePlaced, RemoveVisited DEF WaitInv
<1>9. LeftNothing'
  BY <1>2, <1>3 DEF WaitInv, LeftNothing
<1> QED
  BY <1>5, <1>6, <1>7, <1>8, <1>9 DEF WaitInv

\* What only changes the call keeps the types and the ownership of the ids.
LEMMA CallWait ==
  ASSUME WaitInv, UNCHANGED <<q, pushed, withdrawn, moved, hand>>, mover' \in Calls,
         \A id \in ToSet(mover'.entries) \cup mover'.seen : id.uuid \in pushed,
         hand # <<>> => mover'.kind \in {"first", "many"}
  PROVE  Types' /\ Owned' /\ IsFiniteSet(ToSet(moved))'
BY DEF WaitInv, Types, Owned, InWindow

\* Nothing that the invariant is about changes.
LEMMA NothingWait ==
  ASSUME WaitInv, UNCHANGED <<q, pushed, withdrawn, moved, hand, mover>>
  PROVE  WaitInv'
BY DEF WaitInv, Types, Owned, InWindow, MovedFitsWindow, LeftNothing

\* The call reads the length of the list: its batches hold all of it.
LEMMA BeginWait ==
  ASSUME WaitInv, NEW kind \in {"first", "many"}, NEW limit \in Limits, Begin(kind, limit)
  PROVE  WaitInv'
<1> DEFINE n == Len(q.list)
           b == (n + BatchSize - 1) \div BatchSize
           d == [kind |-> kind, limit |-> limit, batch |-> 0, batches |-> b,
                 entries |-> <<>>, available |-> limit, seen |-> ToSet(q.list),
                 shifted |-> FALSE, raised |-> {}]
<1>f. /\ q.list \in Seq(Ids) /\ q.store \in SUBSET Ids /\ ToSet(q.list) = q.store
      /\ hand \in Seq(Ids) /\ moved \in Seq(Ids)
  BY WaitFacts
<1>1. /\ mover' = d /\ mover.kind \in {"none", "ended"}
      /\ UNCHANGED <<q, pushed, withdrawn, hand, moved>>
  BY DEF Begin
<1>2. limit \in Nat /\ n \in Nat
  BY <1>f, BoundsAssumption, LenProperties
<1>3. b \in Nat /\ n <= b * BatchSize /\ (b - 1) * BatchSize <= n
  BY <1>2, BatchesHold
<1> HIDE DEF b
<1>4. /\ d \in Calls /\ d.kind = kind /\ d.limit = limit /\ d.batch = 0 /\ d.batches = b
      /\ d.entries = <<>> /\ d.available = limit /\ d.seen = ToSet(q.list) /\ ~ d.shifted
      /\ ToSet(d.entries) = {} /\ Len(d.entries) = 0
  BY <1>2, <1>3, <1>f, NoCallFacts DEF Calls
<1> HIDE DEF d
<1>5. hand = <<>>
  BY <1>1 DEF WaitInv, Owned
<1>6. Types' /\ Owned' /\ IsFiniteSet(ToSet(moved))'
  <2>1. \A id \in ToSet(mover'.entries) \cup mover'.seen : id.uuid \in pushed
    BY <1>1, <1>4, <1>f DEF WaitInv, Owned
  <2> QED
    BY <1>1, <1>4, <1>5, <2>1, CallWait
<1>7. MovedFitsWindow'
  <2>1. mover'.seen \cap ToSet(moved') = {}
    BY <1>1, <1>4, <1>f DEF WaitInv, Owned
  <2>2. SumOfDurations({}) = 0
    <3>1. {} \in SUBSET Ids /\ IsFiniteSet({}) /\ \A id \in Ids : id.duration \in Nat
      BY SidFacts, FS_EmptySet
    <3>2. Durations({}) = 0
      BY <3>1, DurationsChange
    <3> QED
      BY <3>2 DEF SumOfDurations, Durations
  <2>3. SumOfDurations(mover'.seen \cap ToSet(moved')) = 0
    BY <2>1, <2>2, Zenon
  <2>4. mover'.available + 0 <= mover'.limit
    BY <1>1, <1>2, <1>4
  <2> QED
    BY <2>3, <2>4 DEF MovedFitsWindow
<1>8. Placed(q.list, d)
  <2>1. \A m \in 1..Len(q.list) : q.list[m] \in d.seen /\ m <= n
    BY <1>4, <1>f, ElementsOf, LenProperties
  <2>2. b * BatchSize \in Nat
    BY <1>3, BatchesGrow
  <2>3. \A m \in 1..Len(q.list) : m <= b * BatchSize
    BY <1>2, <1>3, <2>1, <2>2
  <2> QED
    BY <1>3, <1>4, <2>1, <2>3 DEF Placed
<1>9. Visited(q.list, d)
  <2>1. ASSUME NEW m \in 1..Len(q.list)
        PROVE  ~ (m <= 0 * BatchSize)
    BY BatchAssumption
  <2>2. ASSUME 0 >= b
        PROVE  ToSet(q.list) = {}
    <3>1. b = 0
      BY <1>3, <2>2
    <3>2. n = 0
      BY <1>2, <1>3, <3>1, BatchAssumption
    <3> QED
      BY <1>f, <3>2, ElementsOf
  <2>3. ASSUME NEW k \in 1..Len(d.entries) PROVE FALSE
    BY <1>4
  <2> QED
    BY <1>4, <2>1, <2>2, <2>3 DEF Visited
<1>10. mover'.kind # "ended"
  BY <1>1, <1>4
<1> QED
  BY <1>1, <1>6, <1>7, <1>8, <1>9, <1>10 DEF WaitInv, InWindow, LeftNothing

\* The LRANGE of a batch.
LEMMA ReadWait ==
  ASSUME WaitInv, ReadBatch
  PROVE  WaitInv'
<1> DEFINE d == [mover EXCEPT
               !.batch = mover.batch + 1,
               !.shifted = @ \/ (mover.batch > 0 /\ ~ (mover.seen \subseteq ToSet(q.list))),
               !.entries = SubSeq(q.list, mover.batch * BatchSize + 1,
                                  Min({(mover.batch + 1) * BatchSize, Len(q.list)}))]
<1>1. /\ mover' = d /\ mover.kind \in {"first", "many"} /\ hand = <<>>
      /\ FirstFit(mover) = 0 /\ mover.batch < mover.batches
      /\ UNCHANGED <<q, pushed, withdrawn, hand, moved>>
  BY DEF ReadBatch
<1>f. /\ q.list \in Seq(Ids) /\ ToSet(q.list) = q.store /\ Distinct(q.list) /\ mover \in Calls
  BY WaitFacts
<1>2. /\ d \in Calls /\ ToSet(d.entries) \subseteq ToSet(q.list)
      /\ Placed(q.list, d) /\ Visited(q.list, d)
  BY <1>1, <1>f, BatchVisited DEF WaitInv
<1>3. /\ d.kind = mover.kind /\ d.seen = mover.seen /\ d.available = mover.available
      /\ d.limit = mover.limit
  BY <1>f DEF Calls
<1> HIDE DEF d
<1>4. Types' /\ Owned' /\ IsFiniteSet(ToSet(moved))'
  <2>1. \A id \in ToSet(mover'.entries) \cup mover'.seen : id.uuid \in pushed
    BY <1>1, <1>2, <1>3, <1>f DEF WaitInv, Owned
  <2> QED
    BY <1>1, <1>2, <2>1, CallWait
<1>5. MovedFitsWindow'
  BY <1>1, <1>3 DEF WaitInv, InWindow, MovedFitsWindow
<1>6. mover'.kind # "ended"
  BY <1>1, <1>3
<1> QED
  BY <1>1, <1>2, <1>4, <1>5, <1>6 DEF WaitInv, InWindow, LeftNothing

\* The call comes to its end: all its batches are settled, or its time is up.
LEMMA EndWait ==
  ASSUME WaitInv, End
  PROVE  WaitInv'
<1>1. /\ mover.kind \in {"first", "many"} /\ hand = <<>> /\ FirstFit(mover) = 0
      /\ UNCHANGED <<q, pushed, withdrawn, hand, moved>>
      /\ mover.batch >= mover.batches \/ mover.available = 0
  BY DEF End
<1>f. /\ q.list \in Seq(Ids) /\ ToSet(q.list) = q.store /\ q.store \in SUBSET Ids
      /\ mover \in Calls /\ mover.available \in Int /\ mover.entries \in Seq(Ids)
  BY WaitFacts
<1>2. CASE mover.kind = "first"
  <2>1. mover' = NoCall
    BY <1>2 DEF End
  <2>2. Types' /\ Owned' /\ IsFiniteSet(ToSet(moved))'
    <3>1. \A id \in ToSet(mover'.entries) \cup mover'.seen : id.uuid \in pushed
      BY <2>1, NoCallFacts
    <3> QED
      BY <1>1, <2>1, <3>1, NoCallFacts, CallWait
  <2> QED
    BY <2>1, <2>2, NoCallFacts
       DEF WaitInv, InWindow, MovedFitsWindow, LeftNothing
<1>3. CASE mover.kind = "many"
  <2> DEFINE d == [mover EXCEPT !.kind = "ended", !.entries = <<>>]
  <2>1. mover' = d
    BY <1>3 DEF End
  <2>2. /\ d \in Calls /\ d.kind = "ended" /\ ToSet(d.entries) = {} /\ d.seen = mover.seen
        /\ d.available = mover.available /\ d.limit = mover.limit /\ d.shifted = mover.shifted
    BY <1>f, NoCallFacts DEF Calls
  <2> HIDE DEF d
  <2>3. Types' /\ Owned' /\ IsFiniteSet(ToSet(moved))'
    <3>1. \A id \in ToSet(mover'.entries) \cup mover'.seen : id.uuid \in pushed
      BY <2>1, <2>2 DEF WaitInv, Owned
    <3> QED
      BY <1>1, <2>1, <2>2, <3>1, CallWait
  <2>4. MovedFitsWindow'
    BY <1>1, <1>3, <2>1, <2>2 DEF WaitInv, InWindow, MovedFitsWindow
  <2>5. LeftNothing'
    <3> SUFFICES ASSUME ~ mover.shifted, mover.available > 0,
                        NEW id \in ToSet(q.list) \cap mover.seen
                 PROVE  id.duration > mover.available
      BY <1>1, <2>1, <2>2 DEF LeftNothing
    <3>1. Settled(mover, id)
      BY <1>1 DEF WaitInv, Visited
    <3>2. ~ Fits(mover, id)
      <4>1. \A i \in 1..Len(mover.entries) : ~ Fits(mover, mover.entries[i])
        BY <1>1, <1>f, FirstFitFacts
      <4>2. CASE id \in ToSet(mover.entries)
        <5>1. PICK i \in 1..Len(mover.entries) : mover.entries[i] = id
          BY <1>f, <4>2, ElementsOf
        <5> QED
          BY <4>1, <5>1
      <4> QED
        BY <3>1, <4>2 DEF Settled
    <3>3. id.duration \in Nat
      BY <1>f, SidFacts
    <3> QED
      BY <1>3, <1>f, <3>2, <3>3 DEF Fits
  <2>6. mover'.kind = "ended"
    BY <2>1, <2>2
  <2> QED
    BY <2>3, <2>4, <2>5, <2>6 DEF WaitInv, InWindow
<1> QED
  BY <1>1, <1>2, <1>3

\* pop_job of the first entry that fits.
LEMMA PopWait ==
  ASSUME WaitInv, PopFitting
  PROVE  WaitInv'
<1> DEFINE x == mover.entries[FirstFit(mover)]
           d == [mover EXCEPT !.entries = SubSeq(@, FirstFit(mover) + 1, Len(@))]
<1>f. /\ q.list \in Seq(Ids) /\ ToSet(q.list) = q.store /\ q.store \in SUBSET Ids
      /\ Distinct(q.list) /\ mover \in Calls /\ mover.entries \in Seq(Ids)
      /\ q.total \in Int /\ hand \in Seq(Ids) /\ moved \in Seq(Ids)
  BY WaitFacts
<1>1. /\ mover.kind \in {"first", "many"} /\ hand = <<>> /\ FirstFit(mover) # 0
      /\ q' = PopJob(q, x)
      /\ q'.list = RemoveFirst(q.list, x) /\ q'.store = q.store \ {x}
      /\ \/ x \in q.store /\ hand' = <<x>> /\ mover' = d
         \/ x \notin q.store /\ hand' = hand /\ Raise(x)
      /\ UNCHANGED <<pushed, withdrawn, moved>>
  BY DEF PopFitting, PopJob, HasPayload
<1>2. x \in Ids /\ x.duration \in Nat
  <2>1. FirstFit(mover) \in 1..Len(mover.entries)
    BY <1>1, <1>f, FirstFitFacts
  <2> QED
    BY <1>f, <2>1, SeqElement, SidFacts
<1>3. /\ q'.list \in Seq(Ids) /\ ToSet(q'.list) = q.store \ {x} /\ Distinct(q'.list)
  <2> HIDE DEF x
  <2>1. LET r == RemoveFirst(q.list, x) IN
        r \in Seq(Ids) /\ ToSet(r) = ToSet(q.list) \ {x} /\ Distinct(r)
    BY <1>f, Removed
  <2> QED
    BY <1>1, <1>f, <2>1
<1>4. q' \in QueueType(Ids)
  <2> HIDE DEF x
  <2>1. q' = [list |-> q'.list, store |-> q'.store, total |-> q.total - x.duration]
    BY <1>1 DEF PopJob
  <2>2. q'.list \in Seq(Ids) /\ q'.store \in SUBSET Ids /\ q.total - x.duration \in Int
    BY <1>1, <1>2, <1>3, <1>f
  <2> QED
    BY <2>1, <2>2, QueueParts
<1>5. Placed(q'.list, mover) /\ Visited(q'.list, mover)
  <2> HIDE DEF x
  <2> QED
    BY <1>1, <1>f, RemovePlaced, RemoveVisited DEF WaitInv
<1>6. CASE x \in q.store
  <2>1. /\ d \in Calls /\ ToSet(d.entries) \subseteq ToSet(mover.entries)
        /\ Placed(q'.list, d) /\ Visited(q'.list, d)
    <3>1. x \notin ToSet(q'.list)
      BY <1>3
    <3> QED
      BY <1>1, <1>3, <1>5, <1>f, <3>1, PopVisited
  <2>2. /\ d.kind = mover.kind /\ d.seen = mover.seen /\ d.available = mover.available
        /\ d.limit = mover.limit
    BY <1>f DEF Calls
  <2> HIDE DEF d, x
  <2>3. mover' = d /\ hand' = <<x>>
    BY <1>1, <1>6
  <2>4. hand' \in Seq(Ids) /\ Len(hand') = 1 /\ ToSet(hand') = {x}
    <3>1. <<x>> \in Seq(Ids) /\ Len(<<x>>) = 1 /\ <<x>>[1] = x
      BY <1>2, SingletonSeq
    <3>2. \A y : y \in ToSet(<<x>>) <=> \E i \in 1..Len(<<x>>) : <<x>>[i] = y
      BY <3>1, ElementsOf
    <3>3. \A y : y \in ToSet(<<x>>) <=> y = x
      BY <3>1, <3>2
    <3>4. ToSet(<<x>>) = {x}
      BY <3>3
    <3> QED
      BY <2>3, <3>1, <3>4
  <2>5. Types'
    BY <1>1, <1>4, <2>1, <2>3, <2>4 DEF WaitInv, Types
  <2>6. Owned'
    <3>1. q'.store \cap ToSet(moved') = {} /\ ToSet(hand') \cap (q'.store \cup ToSet(moved')) = {}
      BY <1>1, <1>6, <2>4 DEF WaitInv, Owned
    <3>2. \A id \in q'.store \cup ToSet(hand') \cup ToSet(moved') : id.uuid \in pushed' \ withdrawn'
      BY <1>1, <1>6, <2>4 DEF WaitInv, Owned
    <3>3. \A id \in ToSet(mover'.entries) \cup mover'.seen : id.uuid \in pushed'
      BY <1>1, <2>1, <2>2, <2>3 DEF WaitInv, Owned
    <3> QED
      BY <1>1, <1>3, <2>2, <2>3, <3>1, <3>2, <3>3 DEF WaitInv, Owned
  <2>7. InWindow'
    BY <1>1, <2>2, <2>3 DEF WaitInv, InWindow, MovedFitsWindow
  <2>8. mover'.kind # "ended"
    BY <1>1, <2>2, <2>3
  <2> QED
    BY <2>1, <2>3, <2>5, <2>6, <2>7, <2>8 DEF WaitInv, LeftNothing
<1>7. CASE x \notin q.store
  <2> HIDE DEF x
  <2>1. hand' = hand /\ Raise(x)
    BY <1>1, <1>7
  <2>r. RaisedCall(x)
    BY <1>1, <1>2, <2>1, RaiseFacts
  <2>2. Types'
    BY <1>1, <1>4, <2>1, <2>r DEF WaitInv, Types, RaisedCall
  <2>3. Owned'
    BY <1>1, <1>3, <1>7, <2>1, <2>r DEF WaitInv, Owned, RaisedCall
  <2>4. InWindow'
    BY <1>1, <2>r DEF WaitInv, InWindow, MovedFitsWindow, RaisedCall
  <2> QED
    BY <2>2, <2>3, <2>4, <2>r DEF WaitInv, LeftNothing, RaisedCall
<1> QED
  BY <1>6, <1>7

\* The job that was popped is enqueued, and takes its time; or it has no record
\* any more and the call ends.
LEMMA EnqueueWait ==
  ASSUME WaitInv, EnqueuePopped
  PROVE  WaitInv'
<1> DEFINE x == hand[1]
<1>f. /\ q.list \in Seq(Ids) /\ ToSet(q.list) = q.store /\ q.store \in SUBSET Ids
      /\ Distinct(q.list) /\ mover \in Calls /\ mover.available \in Int
      /\ mover.limit \in Nat /\ mover.seen \in SUBSET Ids
      /\ moved \in Seq(Ids) /\ Distinct(moved) /\ IsFiniteSet(ToSet(moved))
  BY WaitFacts
<1>1. /\ hand # <<>> /\ hand' = <<>> /\ mover.kind \in {"first", "many"}
      /\ UNCHANGED <<q, pushed, withdrawn>>
  BY DEF EnqueuePopped, WaitInv, Owned
<1>2. /\ x \in Ids /\ x.duration \in Nat /\ ToSet(hand) = {x}
      /\ x \notin q.store /\ x \notin ToSet(moved) /\ x.uuid \in pushed \ withdrawn
  <2>1. x \in Ids /\ ToSet(hand) = {x}
    BY <1>1, WaitFacts
  <2> HIDE DEF x
  <2> QED
    BY <2>1, SidFacts DEF WaitInv, Owned
<1>3. \/ /\ moved' = Append(moved, x)
         /\ mover' = IF mover.kind = "first" THEN NoCall
                     ELSE [mover EXCEPT !.available = @ - x.duration]
      \/ moved' = moved /\ Raise(x)
  BY DEF EnqueuePopped
<1> HIDE DEF x
<1>4. /\ Append(moved, x) \in Seq(Ids) /\ ToSet(Append(moved, x)) = ToSet(moved) \cup {x}
      /\ Distinct(Append(moved, x))
  BY <1>2, <1>f, Added
<1>5. /\ moved' \in Seq(Ids) /\ Distinct(moved') /\ IsFiniteSet(ToSet(moved'))
      /\ ToSet(moved') \subseteq ToSet(moved) \cup {x}
  <2>1. IsFiniteSet(ToSet(moved) \cup {x})
    BY <1>f, FS_AddElement
  <2>2. CASE moved' = Append(moved, x)
    BY <1>4, <2>1, <2>2
  <2>3. CASE moved' = moved
    BY <1>f, <2>3
  <2> QED
    BY <1>3, <2>2, <2>3
<1>6. CASE mover' = NoCall
  <2>1. Types'
    BY <1>1, <1>5, <1>6, NoCallFacts DEF WaitInv, Types
  <2>2. Owned'
    <3>1. ToSet(hand') = {}
      BY <1>1, NoCallFacts
    <3>2. q'.store \cap ToSet(moved') = {}
      BY <1>1, <1>2, <1>5 DEF WaitInv, Owned
    <3>3. \A id \in q'.store \cup ToSet(hand') \cup ToSet(moved') : id.uuid \in pushed' \ withdrawn'
      BY <1>1, <1>2, <1>5, <3>1 DEF WaitInv, Owned
    <3> QED
      BY <1>1, <1>5, <1>6, <3>1, <3>2, <3>3, NoCallFacts DEF WaitInv, Owned
  <2>3. InWindow'
    BY <1>5, <1>6, NoCallFacts DEF InWindow, MovedFitsWindow
  <2> QED
    BY <1>6, <2>1, <2>2, <2>3, NoCallFacts DEF WaitInv, LeftNothing
<1>8. CASE moved' = moved /\ Raise(x)
  <2>r. RaisedCall(x)
    BY <1>1, <1>2, <1>8, RaiseFacts
  <2>1. Types'
    BY <1>1, <1>5, <2>r, NoCallFacts DEF WaitInv, Types, RaisedCall
  <2>2. Owned'
    <3>1. ToSet(hand') = {}
      BY <1>1, NoCallFacts
    <3>2. q'.store \cap ToSet(moved') = {}
      BY <1>1, <1>2, <1>5 DEF WaitInv, Owned
    <3>3. \A id \in q'.store \cup ToSet(hand') \cup ToSet(moved') : id.uuid \in pushed' \ withdrawn'
      BY <1>1, <1>2, <1>5, <3>1 DEF WaitInv, Owned
    <3> QED
      BY <1>1, <1>5, <2>r, <3>1, <3>2, <3>3 DEF WaitInv, Owned, RaisedCall
  <2>3. InWindow'
    BY <1>1, <1>8, <2>r DEF WaitInv, InWindow, MovedFitsWindow, RaisedCall
  <2> QED
    BY <2>1, <2>2, <2>3, <2>r DEF WaitInv, LeftNothing, RaisedCall
<1>7. CASE mover' # NoCall /\ ~ (moved' = moved /\ Raise(x))
  <2> DEFINE a == mover.available - x.duration
             d == [mover EXCEPT !.available = a]
  <2>1. moved' = Append(moved, x) /\ mover' = d /\ mover.kind = "many"
    BY <1>1, <1>3, <1>7
  <2>2. a \in Int /\ a <= mover.available /\ a + x.duration = mover.available
    BY <1>2, <1>f
  <2> HIDE DEF a
  <2>3. /\ d \in Calls /\ d.kind = mover.kind /\ d.limit = mover.limit /\ d.available = a
        /\ d.entries = mover.entries /\ d.seen = mover.seen
    BY <1>f, <2>2 DEF Calls
  <2>4. Placed(q.list, d) /\ Visited(q.list, d)
    BY <1>1, <1>f, <2>2, LessTimeVisited DEF WaitInv
  <2> HIDE DEF d
  <2>5. Types'
    BY <1>1, <1>5, <2>1, <2>3, NoCallFacts DEF WaitInv, Types
  <2>6. Owned'
    <3>1. ToSet(hand') = {}
      BY <1>1, NoCallFacts
    <3>2. q'.store \cap ToSet(moved') = {}
      BY <1>1, <1>2, <1>5 DEF WaitInv, Owned
    <3>3. \A id \in q'.store \cup ToSet(hand') \cup ToSet(moved') : id.uuid \in pushed' \ withdrawn'
      BY <1>1, <1>2, <1>5, <3>1 DEF WaitInv, Owned
    <3> QED
      BY <1>1, <1>5, <2>1, <2>3, <3>1, <3>2, <3>3 DEF WaitInv, Owned
  <2>7. MovedFitsWindow'
    <3> DEFINE S == mover.seen \cap ToSet(moved)
               T == mover.seen \cap ToSet(moved')
    <3>1. IsFiniteSet(S) /\ S \in SUBSET Ids
      BY <1>f, FS_Subset
    <3>2. T = (IF x \in mover.seen THEN S \cup {x} ELSE S) /\ x \notin S
      BY <1>2, <1>4, <2>1
    <3>3. mover.available + SumOfDurations(S) <= mover.limit
      BY <2>1 DEF WaitInv, InWindow, MovedFitsWindow
    <3> HIDE DEF S, T
    <3>4. \A id \in Ids : id.duration \in Nat
      BY SidFacts
    <3>5. Durations(S) \in Nat /\ Durations(S \cup {x}) = Durations(S) + x.duration
      BY <1>2, <3>1, <3>2, <3>4, DurationsChange
    <3>6. SumOfDurations(S) = Durations(S) /\ SumOfDurations(T) = Durations(T)
      BY DEF SumOfDurations, Durations
    <3>7. a + SumOfDurations(T) <= mover.limit
      <4>1. CASE x \in mover.seen
        <5>1. SumOfDurations(T) = SumOfDurations(S) + x.duration
          BY <3>2, <3>5, <3>6, <4>1
        <5> QED
          BY <1>2, <1>f, <2>2, <3>3, <3>5, <3>6, <5>1
      <4>2. CASE x \notin mover.seen
        <5>1. SumOfDurations(T) = SumOfDurations(S)
          BY <3>2, <4>2
        <5> QED
          BY <1>2, <1>f, <2>2, <3>3, <3>5, <3>6, <5>1
      <4> QED
        BY <4>1, <4>2
    <3>8. mover'.available = a /\ mover'.limit = mover.limit /\ T = mover'.seen \cap ToSet(moved')
      BY <2>1, <2>3 DEF T
    <3> QED
      BY <3>7, <3>8 DEF MovedFitsWindow
  <2>8. mover'.kind # "ended"
    BY <2>1, <2>3
  <2>9. Placed(q'.list, mover') /\ Visited(q'.list, mover')
    BY <1>1, <2>1, <2>4
  <2> QED
    BY <1>5, <2>5, <2>6, <2>7, <2>8, <2>9 DEF WaitInv, InWindow, LeftNothing
<1> QED
  BY <1>6, <1>7, <1>8

\* Every step keeps the invariant.
LEMMA NextWait == WaitInv /\ [Next]_vars => WaitInv'
<1> SUFFICES ASSUME WaitInv, [Next]_vars PROVE WaitInv'
  OBVIOUS
<1>1. ASSUME NEW j \in Jobs, Push(j) PROVE WaitInv'
  BY <1>1, PushWait
<1>2. ASSUME NEW j \in Jobs, Cancel(j) PROVE WaitInv'
  BY <1>2, CancelWait
<1>3. ASSUME NEW j \in Jobs, DeleteRecord(j) PROVE WaitInv'
  BY <1>3, NothingWait DEF DeleteRecord
<1>4. ASSUME NEW kind \in {"first", "many"}, NEW limit \in Limits, Begin(kind, limit)
      PROVE  WaitInv'
  BY <1>4, BeginWait
<1>5. CASE UNCHANGED vars
  BY <1>5, NothingWait DEF vars
<1> QED
  BY <1>1, <1>2, <1>3, <1>4, <1>5, ReadWait, EndWait, PopWait, EnqueueWait DEF Next

LEMMA WaitCorrect == Spec => []WaitInv
BY InitWait, NextWait, PTL DEF Spec

\* A job is enqueued for execution at most once, and never when a cancel found
\* it on the waitlist, whatever falls between the LRANGE of a batch and the
\* pop_job of its entries, and for any jobs, batch size and limits.
THEOREM MovedOnceCorrect == Spec => []MovedAtMostOnce
<1>1. WaitInv => MovedAtMostOnce
  <2> SUFFICES ASSUME WaitInv PROVE MovedAtMostOnce
    OBVIOUS
  <2>1. moved \in Seq(Ids) /\ DOMAIN moved = 1..Len(moved) /\ Distinct(moved)
    BY WaitFacts, LenProperties
  <2>2. ASSUME NEW n \in DOMAIN moved PROVE moved[n].uuid \notin withdrawn
    <3>1. moved[n] \in ToSet(moved)
      BY <2>1, ElementsOf
    <3> QED
      BY <3>1 DEF WaitInv, Owned
  <2> QED
    BY <2>1, <2>2 DEF MovedAtMostOnce, IsInjective, Distinct
<1> QED
  BY <1>1, WaitCorrect, PTL

\* What pop_many moves fits in the time to the next booking that it was given.
THEOREM WindowCorrect == Spec => []MovedFitsWindow
<1>1. WaitInv => MovedFitsWindow
  BY DEF WaitInv, InWindow
<1> QED
  BY <1>1, WaitCorrect, PTL

-----------------------------------------------------------------------------
(* What an exception is due to.                                            *)

\* Whoever is not on the waitlist any more when its turn comes was withdrawn, and
\* whoever has no record any more was cancelled before.
Traced ==
  /\ withdrawn \subseteq cancelled /\ Jobs \ records \subseteq cancelled
  /\ Distinct(mover.entries)
  /\ \A id \in ToSet(mover.entries) : id \in q.store \/ id.uuid \in withdrawn
  /\ \A id \in mover.raised : id.uuid \in cancelled
  /\ mover.kind \in {"first", "many"} => mover.raised = {}

\* Elements of a sequence of distinct elements are distinct.
LEMMA SliceDistinct ==
  ASSUME NEW l \in Seq(Ids), Distinct(l), NEW a \in Int, NEW b \in Int, 1 <= a, b <= Len(l)
  PROVE  /\ SubSeq(l, a, b) \in Seq(Ids) /\ Distinct(SubSeq(l, a, b))
         /\ ToSet(SubSeq(l, a, b)) \subseteq ToSet(l)
         /\ \A i \in 1..Len(l) : i < a => l[i] \notin ToSet(SubSeq(l, a, b))
<1> DEFINE t == SubSeq(l, a, b)
<1>1. Len(l) \in Nat
  BY LenProperties
<1>2. \A i \in a..b : i \in 1..Len(l) /\ l[i] \in Ids
  BY <1>1, SeqElement
<1>3. /\ t \in Seq(Ids) /\ Len(t) = (IF a <= b THEN b - a + 1 ELSE 0)
      /\ \A i \in 1..(b - a + 1) : t[i] = l[a + i - 1]
  BY <1>2, SubSeqProperties
<1> HIDE DEF t
<1>4. ASSUME NEW i \in 1..Len(t)
      PROVE  t[i] = l[a + i - 1] /\ a + i - 1 \in 1..Len(l) /\ a + i - 1 >= a
  <2>1. i \in 1..(b - a + 1) /\ i \in Int
    BY <1>3
  <2>2. a + i - 1 \in a..b
    BY <2>1
  <2> QED
    BY <1>2, <1>3, <2>1, <2>2
<1>5. Distinct(t)
  <2> SUFFICES ASSUME NEW m \in 1..Len(t), NEW n \in 1..Len(t), t[m] = t[n]
               PROVE  m = n
    BY DEF Distinct
  <2>1. a + m - 1 = a + n - 1
    BY <1>4 DEF Distinct
  <2> QED
    BY <1>3, <2>1
<1>6. ToSet(t) \subseteq ToSet(l)
  <2> SUFFICES ASSUME NEW x \in ToSet(t) PROVE x \in ToSet(l)
    OBVIOUS
  <2>1. PICK i \in 1..Len(t) : t[i] = x
    BY <1>3, ElementsOf
  <2> QED
    BY <1>4, <2>1, ElementsOf
<1>7. ASSUME NEW i \in 1..Len(l), i < a, l[i] \in ToSet(t) PROVE FALSE
  <2>1. PICK k \in 1..Len(t) : t[k] = l[i]
    BY <1>3, <1>7, ElementsOf
  <2>2. a + k - 1 = i
    BY <1>4, <2>1 DEF Distinct
  <2> QED
    BY <1>4, <1>7, <2>2
<1> QED
  BY <1>3, <1>5, <1>6, <1>7 DEF t

LEMMA InitTraced == Init => Traced
<1>1. Distinct(<<>>)
  BY NoCallFacts DEF Distinct
<1> QED
  BY <1>1, NoCallFacts DEF Init, Traced, NoCall

\* An exception over a job that was cancelled ends the call.
LEMMA RaiseTraced ==
  ASSUME WaitInv, Traced, NEW id \in Ids, mover.kind \in {"first", "many"}, Raise(id),
         id.uuid \in cancelled, UNCHANGED <<records, cancelled, withdrawn>>
  PROVE  Traced'
<1>1. CASE mover.kind = "first"
  <2>1. mover' = NoCall
    BY <1>1 DEF Raise
  <2>2. Distinct(<<>>)
    BY NoCallFacts DEF Distinct
  <2> QED
    BY <2>1, <2>2, NoCallFacts DEF Traced, NoCall
<1>2. CASE mover.kind = "many"
  <2>1. mover' = [mover EXCEPT !.kind = "ended", !.entries = <<>>, !.raised = {id}]
    BY <1>2 DEF Raise
  <2>2. mover'.kind = "ended" /\ mover'.entries = <<>> /\ mover'.raised = {id}
    BY <2>1, WaitFacts DEF Calls
  <2>3. Distinct(<<>>)
    BY NoCallFacts DEF Distinct
  <2> QED
    BY <2>2, <2>3, NoCallFacts DEF Traced
<1> QED
  BY <1>1, <1>2

\* A call that goes on reads on in the list, or what it has read.
LEMMA EntriesTraced ==
  ASSUME WaitInv, Traced, UNCHANGED <<records, cancelled, withdrawn>>,
         mover'.raised = {}, Distinct(mover'.entries),
         \A id \in ToSet(mover'.entries) : id \in q'.store \/ id.uuid \in withdrawn
  PROVE  Traced'
BY DEF Traced

LEMMA NextTraced == WaitInv /\ Traced /\ [Next]_vars => Traced'
<1> SUFFICES ASSUME WaitInv, Traced, [Next]_vars PROVE Traced'
  OBVIOUS
<1>f. /\ q.list \in Seq(Ids) /\ ToSet(q.list) = q.store /\ Distinct(q.list)
      /\ mover \in Calls /\ mover.entries \in Seq(Ids)
      /\ hand # <<>> => hand[1] \in Ids
  BY WaitFacts
<1>e. Distinct(<<>>) /\ ToSet(<<>>) = {}
  BY NoCallFacts DEF Distinct
<1>1. ASSUME NEW j \in Jobs, Push(j) PROVE Traced'
  BY <1>1 DEF Push, Add, Traced
<1>2. ASSUME NEW j \in Jobs, Cancel(j) PROVE Traced'
  <2>1. PICK d \in {Duration[j], 0} :
          /\ q' = PopJob(q, StorageID(j, d))
          /\ withdrawn' = IF HasPayload(q, StorageID(j, d)) THEN withdrawn \cup {j}
                          ELSE withdrawn
    BY <1>2 DEF Cancel
  <2> DEFINE x == StorageID(j, d)
  <2>2. /\ q'.store = q.store \ {x} /\ x.uuid = j
        /\ withdrawn' = IF x \in q.store THEN withdrawn \cup {j} ELSE withdrawn
        /\ cancelled' = cancelled \cup {j} /\ records' = records /\ mover' = mover
    BY <1>2, <2>1 DEF Cancel, PopJob, HasPayload, StorageID
  <2> HIDE DEF x
  <2>3. \A id \in ToSet(mover.entries) : id \in q'.store \/ id.uuid \in withdrawn'
    BY <2>2 DEF Traced
  <2> QED
    BY <2>2, <2>3 DEF Traced
<1>3. ASSUME NEW j \in Jobs, DeleteRecord(j) PROVE Traced'
  BY <1>3 DEF DeleteRecord, Traced
<1>4. ASSUME NEW kind \in {"first", "many"}, NEW limit \in Limits, Begin(kind, limit)
      PROVE  Traced'
  <2>1. mover'.raised = {} /\ mover'.entries = <<>>
        /\ UNCHANGED <<records, cancelled, withdrawn>>
    BY <1>4 DEF Begin
  <2> QED
    BY <1>e, <2>1, EntriesTraced
<1>5. CASE ReadBatch
  <2> DEFINE lo == mover.batch * BatchSize + 1
             hi == Min({(mover.batch + 1) * BatchSize, Len(q.list)})
  <2>1. /\ mover'.raised = mover.raised /\ mover'.entries = SubSeq(q.list, lo, hi)
        /\ mover.kind \in {"first", "many"}
        /\ UNCHANGED <<q, records, cancelled, withdrawn>>
    BY <1>5, <1>f DEF ReadBatch, Calls
  <2>2. lo \in Int /\ 1 <= lo /\ hi \in Int /\ hi <= Len(q.list)
    <3> DEFINE up == (mover.batch + 1) * BatchSize
               y == IF up <= Len(q.list) THEN up ELSE Len(q.list)
    <3>1. up \in Nat /\ Len(q.list) \in Nat /\ mover.batch * BatchSize \in Nat
      <4>1. mover.batch \in Nat /\ mover.batch + 1 \in Nat
        BY <1>f DEF Calls
      <4>2. mover.batch * BatchSize \in Nat /\ (mover.batch + 1) * BatchSize \in Nat
        BY <4>1, BatchesGrow
      <4> QED
        BY <1>f, <4>2, LenProperties
    <3> HIDE DEF up
    <3>2. /\ y \in {up, Len(q.list)} /\ \A z \in {up, Len(q.list)} : y <= z
          /\ \A w \in {up, Len(q.list)} : (\A z \in {up, Len(q.list)} : w <= z) => w = y
      BY <3>1
    <3> HIDE DEF y
    <3>3. Min({up, Len(q.list)}) = y
      BY <3>2 DEF Min
    <3>4. hi = y
      BY <3>3 DEF up
    <3> QED
      BY <3>1, <3>2, <3>4
  <2> HIDE DEF lo, hi
  <2>3. Distinct(mover'.entries) /\ ToSet(mover'.entries) \subseteq q.store
    BY <1>f, <2>1, <2>2, SliceDistinct
  <2> QED
    BY <2>1, <2>3, EntriesTraced DEF Traced
<1>6. CASE End
  <2>1. /\ mover' = NoCall \/ mover' = [mover EXCEPT !.kind = "ended", !.entries = <<>>]
        /\ mover.kind \in {"first", "many"}
        /\ UNCHANGED <<q, records, cancelled, withdrawn>>
    BY <1>6 DEF End
  <2>2. mover'.raised = {} /\ mover'.entries = <<>>
    <3>1. mover.raised = {}
      BY <2>1 DEF Traced
    <3>2. NoCall.raised = {} /\ NoCall.entries = <<>>
      BY DEF NoCall
    <3>3. CASE mover' = [mover EXCEPT !.kind = "ended", !.entries = <<>>]
      BY <1>f, <3>1, <3>3 DEF Calls
    <3> QED
      BY <2>1, <3>2, <3>3
  <2> QED
    BY <1>e, <2>1, <2>2, EntriesTraced
<1>7. CASE PopFitting
  <2> DEFINE f == FirstFit(mover)
             x == mover.entries[f]
             t == SubSeq(mover.entries, f + 1, Len(mover.entries))
  <2>1. /\ mover.kind \in {"first", "many"} /\ f # 0 /\ q'.store = q.store \ {x}
        /\ \/ x \in q.store /\ mover' = [mover EXCEPT !.entries = t]
           \/ x \notin q.store /\ Raise(x)
        /\ UNCHANGED <<records, cancelled, withdrawn>>
    BY <1>7, <1>f DEF PopFitting, PopJob, HasPayload, Calls
  <2>2. f \in 1..Len(mover.entries) /\ Len(mover.entries) \in Nat
    BY <1>f, <2>1, FirstFitFacts, LenProperties
  <2> HIDE DEF f
  <2>3. x \in Ids /\ x \in ToSet(mover.entries)
    BY <1>f, <2>2, SeqElement, ElementsOf
  <2>4. Distinct(t) /\ ToSet(t) \subseteq ToSet(mover.entries) /\ x \notin ToSet(t)
    <3>1. f + 1 \in Int /\ 1 <= f + 1 /\ f < f + 1 /\ Len(mover.entries) \in Int
          /\ Len(mover.entries) <= Len(mover.entries)
      BY <2>2
    <3> QED
      BY <1>f, <2>2, <3>1, SliceDistinct DEF Traced
  <2> HIDE DEF x, t
  <2>5. CASE x \in q.store /\ mover' = [mover EXCEPT !.entries = t]
    <3>1. mover'.raised = {} /\ mover'.entries = t
      BY <1>f, <2>1, <2>5 DEF Traced, Calls
    <3>2. \A id \in ToSet(t) : id \in q'.store \/ id.uuid \in withdrawn
      BY <2>1, <2>4 DEF Traced
    <3> QED
      BY <2>1, <2>4, <3>1, <3>2, EntriesTraced
  <2>6. CASE x \notin q.store /\ Raise(x)
    <3>1. x.uuid \in cancelled
      BY <2>3, <2>6 DEF Traced
    <3> QED
      BY <2>1, <2>3, <2>6, <3>1, RaiseTraced
  <2> QED
    BY <2>1, <2>5, <2>6
<1>8. CASE EnqueuePopped
  <2> DEFINE x == hand[1]
  <2>1. /\ hand # <<>> /\ UNCHANGED <<q, records, cancelled, withdrawn>>
        /\ \/ /\ x.uuid \in records
              /\ \/ mover' = NoCall
                 \/ mover' = [mover EXCEPT !.available = @ - x.duration]
           \/ x.uuid \notin records /\ Raise(x)
    BY <1>8 DEF EnqueuePopped
  <2>2. x \in Ids /\ x.uuid \in Jobs /\ mover.kind \in {"first", "many"}
    BY <1>f, <2>1, SidFacts DEF WaitInv, Owned
  <2> HIDE DEF x
  <2>3. CASE x.uuid \notin records /\ Raise(x)
    <3>1. x.uuid \in cancelled
      BY <2>2, <2>3 DEF Traced
    <3> QED
      BY <2>1, <2>2, <2>3, <3>1, RaiseTraced
  <2>4. CASE mover' = NoCall
    <3>1. mover'.raised = {} /\ mover'.entries = <<>>
      BY <2>4 DEF NoCall
    <3> QED
      BY <1>e, <2>1, <3>1, EntriesTraced
  <2>5. CASE mover' = [mover EXCEPT !.available = @ - x.duration]
    <3>1. mover'.raised = {} /\ mover'.entries = mover.entries
      BY <1>f, <2>2, <2>5 DEF Traced, Calls
    <3> QED
      BY <2>1, <3>1, EntriesTraced DEF Traced
  <2> QED
    BY <2>1, <2>3, <2>4, <2>5
<1>9. CASE UNCHANGED vars
  BY <1>9 DEF vars, Traced
<1> QED
  BY <1>1, <1>2, <1>3, <1>4, <1>5, <1>6, <1>7, <1>8, <1>9 DEF Next

\* What a call of pop_many has left behind that would still have fitted is left
\* because the list became shorter before it read a batch after the first, or
\* because an exception ended the call, over a job that was cancelled meanwhile.
THEOREM LeavesNothingCorrect == Spec => []LeavesNothingUnlessDisturbed
<1>1. WaitInv /\ Traced => LeavesNothingUnlessDisturbed
  <2> SUFFICES ASSUME WaitInv, Traced, mover.kind = "ended", mover.raised = {},
                      ~ mover.shifted, NEW id \in LeftFitting
               PROVE  FALSE
    BY DEF LeavesNothingUnlessDisturbed, Traced
  <2>1. id \in ToSet(q.list) \cap mover.seen /\ mover.available > 0
        /\ id.duration <= mover.available
    BY DEF LeftFitting
  <2>2. id.duration > mover.available
    BY <2>1 DEF WaitInv, LeftNothing
  <2>3. id.duration \in Nat /\ mover.available \in Int
    BY <2>1, WaitFacts, SidFacts
  <2> QED
    BY <2>1, <2>2, <2>3
<1>2. Spec => []Traced
  BY InitTraced, NextTraced, WaitCorrect, PTL DEF Spec
<1> QED
  BY <1>1, <1>2, WaitCorrect, PTL

\* Whenever the worker picks a job, what is in front of it on the waitlist is
\* longer: it did not fit, and the job that was picked did.
THEOREM OvertakingCorrect == Spec => NoOvertaking
<1> DEFINE Longer ==
      \A n \in DOMAIN q.list :
        (hand = <<>> /\ hand' = <<q.list[n]>> /\ ~ mover.shifted) =>
          \A m \in 1..(n - 1) : q.list[m].duration > q.list[n].duration
<1>1. WaitInv /\ [Next]_vars => [Longer]_vars
  <2> SUFFICES ASSUME WaitInv, Next, NEW n \in DOMAIN q.list, hand = <<>>,
                      hand' = <<q.list[n]>>, ~ mover.shifted, NEW m \in 1..(n - 1)
               PROVE  q.list[m].duration > q.list[n].duration
    OBVIOUS
  <2>1. hand' # <<>> /\ hand' # hand /\ hand'[1] = q.list[n]
    OBVIOUS
  <2>2. PopFitting
    BY <2>1 DEF Next, Push, Cancel, DeleteRecord, Begin, ReadBatch, End, EnqueuePopped
  <2> DEFINE f == FirstFit(mover)
             x == mover.entries[f]
  <2>3. hand' = <<x>> /\ f # 0 /\ mover.kind \in {"first", "many"}
    BY <2>1, <2>2 DEF PopFitting
  <2>f. /\ q.list \in Seq(Ids) /\ mover \in Calls /\ mover.available \in Int
        /\ mover.limit \in Nat
    BY WaitFacts
  <2>4. /\ f \in 1..Len(mover.entries) /\ Fits(mover, x)
        /\ \A i \in 1..Len(mover.entries) : i < f => ~ Fits(mover, mover.entries[i])
    BY <2>3, <2>f, FirstFitFacts
  <2> HIDE DEF f
  <2>5. q.list[n] = x
    BY <2>1, <2>3
  <2>6. n \in 1..Len(q.list) /\ m \in 1..Len(q.list) /\ m < n /\ Len(mover.entries) \in Nat
    BY <2>f DEF Calls
  <2>7. ~ Fits(mover, q.list[m]) \/ \E i \in 1..(f - 1) : mover.entries[i] = q.list[m]
    BY <2>3, <2>4, <2>5, <2>6 DEF WaitInv, Visited
  <2>8. ~ Fits(mover, q.list[m])
    <3> SUFFICES ASSUME NEW i \in 1..(f - 1), mover.entries[i] = q.list[m]
                 PROVE  ~ Fits(mover, q.list[m])
      BY <2>7
    <3>1. i \in 1..Len(mover.entries) /\ i < f
      BY <2>4, <2>6
    <3> QED
      BY <2>4, <3>1
  <2>9. q.list[m].duration \in Nat /\ q.list[n].duration \in Nat
    BY <2>6, <2>f, SeqElement, SidFacts
  <2>10. mover.limit \in Nat /\ mover.available \in Int
    BY <2>f
  <2>11. Fits(mover, q.list[n])
    BY <2>4, <2>5
  <2> QED
    BY <2>8, <2>9, <2>10, <2>11 DEF Fits
<1>2. [][Longer]_vars => NoOvertaking
  BY PTL DEF NoOvertaking
<1> QED
  BY <1>1, <1>2, WaitCorrect, PTL DEF Spec
=============================================================================
