-------------------------- MODULE CollectionProofs --------------------------
(***************************************************************************)
(* Proofs about Collection, for any keys, statuses, workers and settings:  *)
(* outside of the named races the indexes agree with the records.          *)
(***************************************************************************)
EXTENDS Collection, TLAPS

(***************************************************************************)
(* The inductive invariant.                                                *)
(***************************************************************************)

\* The operation in progress was begun as the code begins it: an insert on a key
\* that was free, an update of at most one status of a record that was there.
Begun(op) ==
  /\ op.new = {} \/ \E s \in Statuses : op.new = {s}
  /\ op.op = "insert" => op.snap = Gone
  /\ op.op = "update" => op.snap # Gone

OperationsBegun == \A c \in Clients : Begun(client[c])

\* No expiry lies further ahead than one lifetime.
WithinTTL ==
  \A k \in Keys : /\ byUser[k] <= now + TTL
                  /\ \A s \in Statuses : byStatus[s][k] <= now + TTL

\* An index entry of a key without clash is over, or it is in the index of the
\* status that the record has and does not outlive it.
EntriesAgree ==
  \A k \in Keys \ clash :
    /\ byUser[k] < now \/ byUser[k] <= rec[k].expires
    /\ \A s \in Statuses :
         \/ byStatus[s][k] < now
         \/ byStatus[s][k] <= rec[k].expires /\ s = rec[k].status

\* The entries of a key that was never deleted do not outlive its record.
RecordOutlives ==
  \A k \in Keys \ deleted :
    /\ byUser[k] <= rec[k].expires
    /\ \A s \in Statuses : byStatus[s][k] <= rec[k].expires

IInv == TypeOK /\ OperationsBegun /\ WithinTTL /\ EntriesAgree /\ RecordOutlives

(***************************************************************************)
(* The parts of a pipeline.                                                *)
(***************************************************************************)

\* The type of the clock and of the expiries, as arithmetic needs it.
LEMMA TimeFacts ==
  ASSUME TypeOK
  PROVE  /\ now \in Nat /\ 1 <= now /\ now <= Horizon
         /\ Times \subseteq Nat /\ 0 \in Times
         /\ TTL \in Nat /\ now + TTL \in Times
BY TimeAssumption DEF TypeOK, Times

\* What the type says of single values.
LEMMA TypeFacts ==
  ASSUME TypeOK
  PROVE  /\ \A k \in Keys : /\ rec[k] \in Record
                             /\ rec[k].status \in Statuses /\ rec[k].expires \in Times
                             /\ byUser[k] \in Times
         /\ \A s \in Statuses : /\ byStatus[s] \in [Keys -> Times]
                                 /\ \A k \in Keys : byStatus[s][k] \in Times
         /\ \A c \in Clients :
              client[c] \in [op : {"none", "insert", "update", "delete"},
                             key : SUBSET Keys, new : SUBSET Statuses, snap : Record]
         /\ Gone \in Record /\ Gone.status = First /\ Gone.expires = 0
<1>1. Gone \in Record /\ Gone.status = First /\ Gone.expires = 0
  BY TimeFacts, StatusAssumption DEF Gone, Record
<1> QED
  BY <1>1 DEF TypeOK, Record

\* A cleanup clears entries and changes nothing else.
LEMMA SweptFacts ==
  ASSUME TypeOK, NEW c, NEW index \in [Keys -> Times]
  PROVE  /\ Swept(c, index) \in [Keys -> Times]
         /\ \A k \in Keys : Swept(c, index)[k] \in {0, index[k]}
BY TimeFacts DEF Swept

\* The status index after a pipeline, entry by entry.
LEMMA MovedFacts ==
  ASSUME TypeOK, NEW c, NEW k \in Keys, NEW old, NEW new
  PROVE  LET m == Moved(c, k, old, new) IN
         /\ m \in [Statuses -> [Keys -> Times]]
         /\ \A s \in Statuses, l \in Keys \ {k} : m[s][l] \in {0, byStatus[s][l]}
         /\ \A s \in Statuses :
              /\ s \in new => m[s][k] = now + TTL
              /\ s \notin new => m[s][k] \in {0, byStatus[s][k]}
              /\ s \notin new /\ s \in old => m[s][k] = 0
<1> DEFINE m == Moved(c, k, old, new)
           at(s) == IF s \in new THEN [Swept(c, byStatus[s]) EXCEPT ![k] = now + TTL]
                    ELSE IF s \in old THEN [Swept(c, byStatus[s]) EXCEPT ![k] = 0]
                    ELSE Swept(c, byStatus[s])
<1>1. m = [s \in Statuses |-> at(s)]
  BY DEF Moved
<1>2. ASSUME NEW s \in Statuses
      PROVE  /\ at(s) \in [Keys -> Times]
             /\ \A l \in Keys \ {k} : at(s)[l] \in {0, byStatus[s][l]}
             /\ s \in new => at(s)[k] = now + TTL
             /\ s \notin new => at(s)[k] \in {0, byStatus[s][k]}
             /\ s \notin new /\ s \in old => at(s)[k] = 0
  <2>1. /\ Swept(c, byStatus[s]) \in [Keys -> Times]
        /\ \A l \in Keys : Swept(c, byStatus[s])[l] \in {0, byStatus[s][l]}
    BY TypeFacts, SweptFacts
  <2> QED
    BY <2>1, TimeFacts
<1> HIDE DEF at
<1> QED
  BY <1>1, <1>2

\* The entry of the key that a pipeline is about, in the index of one status.
LEMMA MovedKey ==
  ASSUME TypeOK, NEW c, NEW k \in Keys, NEW old, NEW new, NEW s \in Statuses
  PROVE  /\ s \in new => Moved(c, k, old, new)[s][k] = now + TTL
         /\ s \notin new => Moved(c, k, old, new)[s][k] \in {0, byStatus[s][k]}
<1> DEFINE index == Swept(c, byStatus[s])
           row == IF s \in new THEN [index EXCEPT ![k] = now + TTL]
                  ELSE IF s \in old THEN [index EXCEPT ![k] = 0] ELSE index
<1>1. Moved(c, k, old, new)[s] = row
  BY DEF Moved
<1>2. index \in [Keys -> Times] /\ index[k] \in {0, byStatus[s][k]}
  BY TypeFacts, SweptFacts
<1> HIDE DEF index
<1>3. /\ s \in new => row[k] = now + TTL
      /\ s \notin new => row[k] \in {0, byStatus[s][k]}
  BY <1>2
<1> QED
  BY <1>1, <1>3

\* The three pipelines, as far as the keys that they are not about go.
LEMMA WriteOthers ==
  ASSUME TypeOK, NEW c \in Clients, NEW k \in Keys,
         Insert(c, k) \/ Update(c, k) \/ DeleteMany(c, k)
  PROVE  /\ rec' \in [Keys -> Record]
         /\ byStatus' \in [Statuses -> [Keys -> Times]]
         /\ byUser' \in [Keys -> Times]
         /\ \A l \in Keys \ {k} :
              /\ rec'[l] = rec[l]
              /\ byUser'[l] \in {0, byUser[l]}
              /\ \A s \in Statuses : byStatus'[s][l] \in {0, byStatus[s][l]}
<1>1. /\ Swept(c, byUser) \in [Keys -> Times]
      /\ \A l \in Keys : Swept(c, byUser)[l] \in {0, byUser[l]}
  BY SweptFacts DEF TypeOK
<1>2. rec \in [Keys -> Record] /\ Gone \in Record
  BY TypeFacts DEF TypeOK
<1>3. \A s \in Statuses : [status |-> s, expires |-> now + TTL] \in Record
  BY TimeFacts DEF Record
<1>4. CASE Insert(c, k)
  <2>1. /\ rec' = [rec EXCEPT ![k] = [status |-> First, expires |-> now + TTL]]
        /\ byStatus' = Moved(c, k, {}, {First})
        /\ byUser' = [Swept(c, byUser) EXCEPT ![k] = now + TTL]
    BY <1>4 DEF Insert
  <2>2. rec' \in [Keys -> Record] /\ \A l \in Keys \ {k} : rec'[l] = rec[l]
    BY <2>1, <1>2, <1>3, StatusAssumption
  <2>3. byUser' \in [Keys -> Times] /\ \A l \in Keys \ {k} : byUser'[l] \in {0, byUser[l]}
    BY <2>1, <1>1, TimeFacts
  <2> QED
    BY <2>1, <2>2, <2>3, MovedFacts
<1>5. CASE Update(c, k)
  <2>1. PICK status \in (IF client[c].new = {} THEN {client[c].snap.status}
                                              ELSE client[c].new) :
          rec' = [rec EXCEPT ![k] = [status |-> status, expires |-> now + TTL]]
    BY <1>5 DEF Update
  <2>2. status \in Statuses
    <3>1. client[c].snap.status \in Statuses /\ client[c].new \subseteq Statuses
      BY TypeFacts DEF Record
    <3> QED
      BY <3>1
  <2>3. rec' \in [Keys -> Record] /\ \A l \in Keys \ {k} : rec'[l] = rec[l]
    BY <2>1, <2>2, <1>2, <1>3
  <2>4. byUser' = Swept(c, byUser)
    BY <1>5 DEF Update
  <2>5. PICK old, new : byStatus' = Moved(c, k, old, new)
    BY <1>5 DEF Update
  <2>6. /\ byStatus' \in [Statuses -> [Keys -> Times]]
        /\ \A s \in Statuses, l \in Keys \ {k} : byStatus'[s][l] \in {0, byStatus[s][l]}
    BY <2>5, MovedFacts
  <2> QED
    BY <1>1, <2>3, <2>4, <2>6
<1>6. CASE DeleteMany(c, k)
  <2>1. rec' = [rec EXCEPT ![k] = Gone]
    BY <1>6 DEF DeleteMany
  <2>2. rec' \in [Keys -> Record] /\ \A l \in Keys \ {k} : rec'[l] = rec[l]
    BY <2>1, <1>2
  <2>3. byUser' = [Swept(c, byUser) EXCEPT ![k] = 0] \/ byUser' = Swept(c, byUser)
    BY <1>6 DEF DeleteMany
  <2>4. byUser' \in [Keys -> Times] /\ \A l \in Keys \ {k} : byUser'[l] \in {0, byUser[l]}
    BY <2>3, <1>1, TimeFacts
  <2>5. PICK old, new : byStatus' = Moved(c, k, old, new)
    BY <1>6 DEF DeleteMany
  <2>6. /\ byStatus' \in [Statuses -> [Keys -> Times]]
        /\ \A s \in Statuses, l \in Keys \ {k} : byStatus'[s][l] \in {0, byStatus[s][l]}
    BY <2>5, MovedFacts
  <2> QED
    BY <2>2, <2>4, <2>6
<1> QED
  BY <1>4, <1>5, <1>6

\* What a read that is not stale says of the record, at the time of the write.
LEMMA FreshRead ==
  ASSUME TypeOK, NEW c \in Clients, NEW k \in Keys, ~ Stale(c, k)
  PROVE  /\ client[c].snap # Gone => client[c].snap = rec[k]
         /\ client[c].snap = Gone => rec[k].expires < now
<1>1. client[c].snap = IF rec[k].expires >= now THEN rec[k] ELSE Gone
  BY DEF Stale, Stored
<1>2. /\ now \in Nat /\ 1 <= now
      /\ rec[k].expires \in Nat
  BY TimeFacts, TypeFacts
<1>3. ASSUME rec[k].expires >= now
      PROVE  rec[k] # Gone
  BY <1>2, <1>3, TypeFacts
<1> QED
  BY <1>1, <1>2, <1>3

\* The entries of the key that a pipeline is about never lie beyond one lifetime
\* and, unless it deletes, the record has just that lifetime.
LEMMA WriteLifetime ==
  ASSUME TypeOK, WithinTTL, NEW c \in Clients, NEW k \in Keys,
         Insert(c, k) \/ Update(c, k) \/ DeleteMany(c, k)
  PROVE  /\ byUser'[k] <= now + TTL
         /\ \A s \in Statuses : byStatus'[s][k] <= now + TTL
         /\ client[c].op # "delete" => rec'[k].expires = now + TTL
<1>1. /\ Swept(c, byUser) \in [Keys -> Times]
      /\ Swept(c, byUser)[k] \in {0, byUser[k]}
  BY SweptFacts DEF TypeOK
<1>2. /\ now \in Nat /\ TTL \in Nat
      /\ byUser[k] <= now + TTL
      /\ \A s \in Statuses : byStatus[s][k] <= now + TTL
  BY TimeFacts DEF WithinTTL
<1>3. Swept(c, byUser)[k] <= now + TTL
  BY <1>1, <1>2
<1>4. ASSUME NEW old, NEW new, byStatus' = Moved(c, k, old, new)
      PROVE  \A s \in Statuses : byStatus'[s][k] <= now + TTL
  <2>1. ASSUME NEW s \in Statuses
        PROVE  byStatus'[s][k] <= now + TTL
    <3> DEFINE entry == Moved(c, k, old, new)[s][k]
    <3>1. /\ s \in new => entry = now + TTL
          /\ s \notin new => entry \in {0, byStatus[s][k]}
      BY MovedKey
    <3>2. byStatus'[s][k] = entry
      BY <1>4
    <3> HIDE DEF entry
    <3>3. /\ now \in Nat /\ TTL \in Nat
          /\ byStatus[s][k] <= now + TTL
      BY <1>2
    <3>4. entry <= now + TTL
      BY <3>1, <3>3
    <3> QED
      BY <3>2, <3>4
  <2> QED
    BY <2>1
<1>5. CASE Insert(c, k)
  <2>1. /\ rec' = [rec EXCEPT ![k] = [status |-> First, expires |-> now + TTL]]
        /\ byStatus' = Moved(c, k, {}, {First})
        /\ byUser' = [Swept(c, byUser) EXCEPT ![k] = now + TTL]
    BY <1>5 DEF Insert
  <2>2. rec'[k].expires = now + TTL
    BY <2>1 DEF TypeOK
  <2>3. byUser'[k] <= now + TTL
    BY <2>1, <1>1, <1>2
  <2>4. \A s \in Statuses : byStatus'[s][k] <= now + TTL
    BY <2>1, <1>4
  <2> QED
    BY <2>2, <2>3, <2>4
<1>6. CASE Update(c, k)
  <2>1. \E status : rec' = [rec EXCEPT ![k] = [status |-> status, expires |-> now + TTL]]
    BY <1>6 DEF Update
  <2>2. rec'[k].expires = now + TTL
    BY <2>1 DEF TypeOK
  <2>3. byUser'[k] <= now + TTL
    BY <1>6, <1>3 DEF Update
  <2>4. byStatus' = Moved(c, k, IF client[c].new = {} THEN {} ELSE {client[c].snap.status},
                          client[c].new)
    BY <1>6 DEF Update
  <2>5. \A s \in Statuses : byStatus'[s][k] <= now + TTL
    BY <2>4, <1>4
  <2> QED
    BY <2>2, <2>3, <2>5
<1>7. CASE DeleteMany(c, k)
  <2>1. /\ client[c].op = "delete"
        /\ byUser' = [Swept(c, byUser) EXCEPT ![k] = 0] \/ byUser' = Swept(c, byUser)
    BY <1>7 DEF DeleteMany
  <2>2. byUser'[k] <= now + TTL
    BY <2>1, <1>1, <1>2, <1>3
  <2>3. byStatus' = Moved(c, k, IF client[c].snap # Gone THEN {client[c].snap.status} ELSE {}, {})
    BY <1>7 DEF DeleteMany
  <2>4. \A s \in Statuses : byStatus'[s][k] <= now + TTL
    BY <2>3, <1>4
  <2> QED
    BY <2>1, <2>2, <2>4
<1> QED
  BY <1>5, <1>6, <1>7

\* After a pipeline that rests on a fresh read, the entries of its key agree with
\* the record that it leaves.
LEMMA WriteAgrees ==
  ASSUME IInv, NEW c \in Clients, NEW k \in Keys \ clash, ~ Stale(c, k),
         Insert(c, k) \/ Update(c, k) \/ DeleteMany(c, k)
  PROVE  /\ byUser'[k] < now \/ byUser'[k] <= rec'[k].expires
         /\ \A s \in Statuses :
              \/ byStatus'[s][k] < now
              \/ byStatus'[s][k] <= rec'[k].expires /\ s = rec'[k].status
<1> USE DEF IInv
<1>1. /\ now \in Nat /\ 1 <= now /\ TTL \in Nat
      /\ byUser[k] \in Nat /\ rec[k].expires \in Nat
      /\ \A s \in Statuses : byStatus[s][k] \in Nat
  BY TimeFacts, TypeFacts
<1>2. /\ byUser[k] < now \/ byUser[k] <= rec[k].expires
      /\ \A s \in Statuses :
           \/ byStatus[s][k] < now
           \/ byStatus[s][k] <= rec[k].expires /\ s = rec[k].status
  BY DEF EntriesAgree
<1>3. /\ byUser'[k] <= now + TTL
      /\ \A s \in Statuses : byStatus'[s][k] <= now + TTL
      /\ client[c].op # "delete" => rec'[k].expires = now + TTL
  BY WriteLifetime
<1>4. /\ client[c].snap # Gone => client[c].snap = rec[k]
      /\ client[c].snap = Gone => rec[k].expires < now
  BY FreshRead
<1>5. ASSUME client[c].snap = Gone
      PROVE  /\ byUser[k] < now
             /\ \A s \in Statuses : byStatus[s][k] < now
  BY <1>1, <1>2, <1>4, <1>5
<1>6. CASE Insert(c, k)
  <2>1. /\ client[c].op = "insert"
        /\ rec' = [rec EXCEPT ![k] = [status |-> First, expires |-> now + TTL]]
        /\ byStatus' = Moved(c, k, {}, {First})
    BY <1>6 DEF Insert
  <2>2. client[c].snap = Gone
    BY <2>1 DEF OperationsBegun, Begun
  <2>3. rec'[k].status = First /\ rec'[k].expires = now + TTL
    BY <2>1 DEF TypeOK
  <2>4. \A s \in Statuses : s # First => byStatus'[s][k] \in {0, byStatus[s][k]}
    BY <2>1, MovedFacts
  <2> QED
    BY <2>2, <2>3, <2>4, <1>1, <1>3, <1>5
<1>7. CASE Update(c, k)
  <2> DEFINE new == client[c].new
  <2>1. /\ client[c].op = "update"
        /\ byStatus' = Moved(c, k, IF new = {} THEN {} ELSE {client[c].snap.status}, new)
    BY <1>7 DEF Update
  <2>2. PICK status \in (IF new = {} THEN {client[c].snap.status} ELSE new) :
          rec' = [rec EXCEPT ![k] = [status |-> status, expires |-> now + TTL]]
    BY <1>7 DEF Update
  <2>3. rec'[k].status = status /\ rec'[k].expires = now + TTL
    BY <2>2 DEF TypeOK
  <2>4. client[c].snap = rec[k]
    BY <2>1, <1>4 DEF OperationsBegun, Begun
  <2>5. new = {} \/ \E t \in Statuses : new = {t}
    BY DEF OperationsBegun, Begun
  <2>6. CASE new = {}
    <3>1. \A s \in Statuses : byStatus'[s][k] \in {0, byStatus[s][k]}
      BY <2>1, <2>6, MovedFacts
    <3>2. status = rec[k].status
      BY <2>2, <2>4, <2>6
    <3> QED
      BY <3>1, <3>2, <2>3, <1>1, <1>2, <1>3
  <2>7. CASE new # {}
    <3>1. new = {status}
      BY <2>2, <2>5, <2>7
    <3>2. byStatus' = Moved(c, k, {rec[k].status}, {status})
      BY <2>1, <2>4, <2>7, <3>1
    <3>3. PICK O, N : O = {rec[k].status} /\ N = {status}
      OBVIOUS
    <3>4. byStatus' = Moved(c, k, O, N)
      BY <3>2, <3>3
    <3>5. \A s \in Statuses :
            /\ s \notin N => byStatus'[s][k] \in {0, byStatus[s][k]}
            /\ s \notin N /\ s \in O => byStatus'[s][k] = 0
      BY <3>4, MovedFacts
    <3>6. \A s \in Statuses : s # status =>
            /\ byStatus'[s][k] \in {0, byStatus[s][k]}
            /\ s = rec[k].status => byStatus'[s][k] = 0
      BY <3>3, <3>5
    <3> QED
      BY <3>6, <2>3, <1>1, <1>2, <1>3
  <2> QED
    BY <2>6, <2>7
<1>8. CASE DeleteMany(c, k)
  <2>1. byStatus' = Moved(c, k, IF client[c].snap # Gone THEN {client[c].snap.status} ELSE {}, {})
    BY <1>8 DEF DeleteMany
  <2>2. /\ Swept(c, byUser) \in [Keys -> Times]
        /\ Swept(c, byUser)[k] \in {0, byUser[k]}
    BY SweptFacts DEF TypeOK
  <2>3. CASE client[c].snap = Gone
    <3>1. byStatus' = Moved(c, k, {}, {}) /\ byUser' = Swept(c, byUser)
      BY <1>8, <2>3 DEF DeleteMany
    <3>2. \A s \in Statuses : byStatus'[s][k] \in {0, byStatus[s][k]}
      BY <3>1, MovedFacts
    <3> QED
      BY <3>1, <3>2, <2>2, <2>3, <1>1, <1>5
  <2>4. CASE client[c].snap # Gone
    <3>1. /\ byStatus' = Moved(c, k, {rec[k].status}, {})
          /\ byUser' = [Swept(c, byUser) EXCEPT ![k] = 0]
      BY <1>8, <1>4, <2>4 DEF DeleteMany
    <3>2. \A s \in Statuses :
            /\ byStatus'[s][k] \in {0, byStatus[s][k]}
            /\ s = rec[k].status => byStatus'[s][k] = 0
      BY <3>1, MovedFacts
    <3>3. byUser'[k] = 0
      BY <3>1, <2>2
    <3> QED
      BY <3>2, <3>3, <1>1, <1>2
  <2> QED
    BY <2>3, <2>4
<1> QED
  BY <1>6, <1>7, <1>8

(***************************************************************************)
(* The steps.                                                              *)
(***************************************************************************)

LEMMA InitInv == Init => IInv
<1> SUFFICES ASSUME Init PROVE IInv
  OBVIOUS
<1>1. /\ 0 \in Times /\ Gone \in Record /\ Gone.status = First /\ Gone.expires = 0
      /\ TTL \in Nat /\ 1 \in 1..Horizon
  BY TimeAssumption, StatusAssumption DEF Times, Gone, Record
<1>2. /\ Idle \in [op : {"none", "insert", "update", "delete"},
                   key : SUBSET Keys, new : SUBSET Statuses, snap : Record]
      /\ Begun(Idle)
  BY <1>1 DEF Idle, Begun
<1>3. TypeOK
  BY <1>1, <1>2 DEF Init, TypeOK
<1>4. OperationsBegun
  BY <1>2 DEF Init, OperationsBegun
<1>5. WithinTTL /\ EntriesAgree /\ RecordOutlives
  BY <1>1 DEF Init, WithinTTL, EntriesAgree, RecordOutlives
<1> QED
  BY <1>3, <1>4, <1>5 DEF IInv

\* The reads change no record and no index.
LEMMA BeginInv ==
  ASSUME IInv, NEW c \in Clients, NEW k \in Keys, NEW op, NEW new, Begin(c, op, k, new),
         op \in {"insert", "update", "delete"}, new \in SUBSET Statuses,
         new = {} \/ \E s \in Statuses : new = {s},
         op = "insert" => ~ Stored(k), op = "update" => Stored(k)
  PROVE  IInv'
<1> DEFINE snap == IF Stored(k) THEN rec[k] ELSE Gone
           o == [op |-> op, key |-> {k}, new |-> new, snap |-> snap]
<1>1. /\ client' = [client EXCEPT ![c] = o]
      /\ UNCHANGED <<now, rec, byStatus, byUser, clash, deleted>>
      /\ cleaned' \in {cleaned, [cleaned EXCEPT ![c] = now]}
  BY DEF Begin
<1>2. TypeOK
  BY DEF IInv
<1>3. snap \in Record /\ (Stored(k) => snap # Gone)
  <2>1. Stored(k) => rec[k].expires # 0
    BY <1>2, TimeFacts, TypeFacts DEF Stored
  <2> QED
    BY <1>2, <2>1, TypeFacts
<1>4. ~ Stored(k) => snap = Gone
  OBVIOUS
<1> HIDE DEF snap
<1>5. /\ o \in [op : {"none", "insert", "update", "delete"},
                key : SUBSET Keys, new : SUBSET Statuses, snap : Record]
      /\ Begun(o)
  BY <1>3, <1>4 DEF Begun
<1> HIDE DEF o
<1>6. TypeOK'
  <2>1. cleaned' \in [Clients -> 1..Horizon]
    BY <1>1, <1>2 DEF TypeOK
  <2>2. client' \in [Clients -> [op : {"none", "insert", "update", "delete"},
                                 key : SUBSET Keys, new : SUBSET Statuses, snap : Record]]
    BY <1>1, <1>2, <1>5 DEF TypeOK
  <2> QED
    BY <1>1, <1>2, <2>1, <2>2 DEF TypeOK
<1>7. OperationsBegun'
  <2>1. \A d \in Clients : client'[d] = o \/ client'[d] = client[d]
    BY <1>1, <1>2 DEF TypeOK
  <2>2. \A d \in Clients : Begun(client[d])
    BY DEF IInv, OperationsBegun
  <2> QED
    BY <1>5, <2>1, <2>2 DEF OperationsBegun, Begun
<1>8. (WithinTTL /\ EntriesAgree /\ RecordOutlives)'
  BY <1>1 DEF IInv, WithinTTL, EntriesAgree, RecordOutlives
<1> QED
  BY <1>6, <1>7, <1>8 DEF IInv

LEMMA OpenInv ==
  ASSUME IInv, NEW c \in Workers, Open(c)
  PROVE  IInv'
<1>1. /\ UNCHANGED <<now, rec, byStatus, byUser, client, clash, deleted>>
      /\ cleaned' = [cleaned EXCEPT ![c] = now]
  BY DEF Open
<1>2. TypeOK'
  BY <1>1 DEF IInv, TypeOK, Clients
<1>3. (OperationsBegun /\ WithinTTL /\ EntriesAgree /\ RecordOutlives)'
  BY <1>1 DEF IInv, OperationsBegun, WithinTTL, EntriesAgree, RecordOutlives
<1> QED
  BY <1>2, <1>3 DEF IInv

\* Time only makes more entries lie in the past.
LEMMA TickInv ==
  ASSUME IInv, Tick
  PROVE  IInv'
<1>1. /\ UNCHANGED <<rec, byStatus, byUser, client, cleaned, clash, deleted>>
      /\ now' = now + 1 /\ now < Horizon
  BY DEF Tick
<1>2. /\ TypeOK
      /\ now \in Nat /\ TTL \in Nat
      /\ \A k \in Keys : byUser[k] \in Nat /\ rec[k].expires \in Nat
      /\ \A s \in Statuses, k \in Keys : byStatus[s][k] \in Nat
  BY TimeFacts, TypeFacts DEF IInv
<1>3. TypeOK'
  <2>1. now' \in 1..Horizon
    BY <1>1, <1>2, TimeAssumption
  <2> QED
    BY <1>1, <1>2, <2>1 DEF TypeOK
<1>4. OperationsBegun' /\ RecordOutlives'
  BY <1>1 DEF IInv, OperationsBegun, RecordOutlives
<1>5. WithinTTL'
  BY <1>1, <1>2 DEF IInv, WithinTTL
<1>6. EntriesAgree'
  BY <1>1, <1>2 DEF IInv, EntriesAgree
<1> QED
  BY <1>3, <1>4, <1>5, <1>6 DEF IInv

LEMMA WriteInv ==
  ASSUME IInv, NEW c \in Clients, NEW k \in Keys, Write(c, k)
  PROVE  IInv'
<1>1. /\ Insert(c, k) \/ Update(c, k) \/ DeleteMany(c, k)
      /\ cleaned' \in {cleaned, [cleaned EXCEPT ![c] = now]}
      /\ clash' = IF Stale(c, k) THEN clash \cup {k} ELSE clash
      /\ deleted' = IF client[c].op = "delete" THEN deleted \cup {k} ELSE deleted
      /\ client' = [client EXCEPT ![c] = Idle]
      /\ now' = now
  BY DEF Write, Cleanup
<1>2. TypeOK
  BY DEF IInv
<1>3. /\ rec' \in [Keys -> Record]
      /\ byStatus' \in [Statuses -> [Keys -> Times]]
      /\ byUser' \in [Keys -> Times]
  BY <1>1, <1>2, WriteOthers
<1>4. /\ \A l \in Keys \ {k} : rec'[l] = rec[l]
      /\ \A l \in Keys \ {k} : byUser'[l] \in {0, byUser[l]}
      /\ \A l \in Keys \ {k}, s \in Statuses : byStatus'[s][l] \in {0, byStatus[s][l]}
  BY <1>1, <1>2, WriteOthers
<1>5. /\ byUser'[k] <= now + TTL
      /\ \A s \in Statuses : byStatus'[s][k] <= now + TTL
      /\ client[c].op # "delete" => rec'[k].expires = now + TTL
  BY <1>1, WriteLifetime DEF IInv
<1>6. /\ now \in Nat /\ 1 <= now /\ TTL \in Nat
      /\ \A l \in Keys : rec[l].expires \in Nat
  BY <1>2, TimeFacts, TypeFacts
<1>7. TypeOK'
  <2>1. Idle \in [op : {"none", "insert", "update", "delete"},
                  key : SUBSET Keys, new : SUBSET Statuses, snap : Record]
    BY <1>2, TypeFacts DEF Idle
  <2>2. client' \in [Clients -> [op : {"none", "insert", "update", "delete"},
                                 key : SUBSET Keys, new : SUBSET Statuses, snap : Record]]
    BY <1>1, <1>2, <2>1 DEF TypeOK
  <2>3. cleaned' \in [Clients -> 1..Horizon]
    BY <1>1, <1>2 DEF TypeOK
  <2>4. clash' \in SUBSET Keys /\ deleted' \in SUBSET Keys /\ now' \in 1..Horizon
    BY <1>1, <1>2 DEF TypeOK
  <2> QED
    BY <1>3, <2>2, <2>3, <2>4 DEF TypeOK
<1>8. OperationsBegun'
  <2>1. Begun(Idle)
    BY DEF Idle, Begun
  <2>2. \A d \in Clients : client'[d] = Idle \/ client'[d] = client[d]
    BY <1>1, <1>2 DEF TypeOK
  <2>3. \A d \in Clients : Begun(client[d])
    BY DEF IInv, OperationsBegun
  <2> QED
    BY <2>1, <2>2, <2>3 DEF OperationsBegun, Begun
<1>9. WithinTTL'
  <2>1. \A l \in Keys : byUser[l] <= now + TTL
                        /\ \A s \in Statuses : byStatus[s][l] <= now + TTL
    BY DEF IInv, WithinTTL
  <2>2. ASSUME NEW l \in Keys
        PROVE  /\ byUser'[l] <= now + TTL
               /\ \A s \in Statuses : byStatus'[s][l] <= now + TTL
    <3>1. CASE l = k
      BY <3>1, <1>5
    <3>2. CASE l # k
      BY <3>2, <1>4, <1>6, <2>1
    <3> QED
      BY <3>1, <3>2
  <2> QED
    BY <2>2, <1>1 DEF WithinTTL
<1>10. EntriesAgree'
  <2>1. ASSUME NEW l \in Keys, l \notin clash'
        PROVE  /\ byUser'[l] < now \/ byUser'[l] <= rec'[l].expires
               /\ \A s \in Statuses :
                    \/ byStatus'[s][l] < now
                    \/ byStatus'[s][l] <= rec'[l].expires /\ s = rec'[l].status
    <3>1. l \notin clash
      BY <2>1, <1>1
    <3>2. CASE l = k
      <4>1. ~ Stale(c, k) /\ k \in Keys \ clash
        BY <3>1, <3>2, <2>1, <1>1
      <4> QED
        BY <4>1, <3>2, <1>1, WriteAgrees
    <3>3. CASE l # k
      <4>1. /\ byUser[l] < now \/ byUser[l] <= rec[l].expires
            /\ \A s \in Statuses :
                 \/ byStatus[s][l] < now
                 \/ byStatus[s][l] <= rec[l].expires /\ s = rec[l].status
        BY <3>1 DEF IInv, EntriesAgree
      <4> QED
        BY <4>1, <3>3, <1>4, <1>6
    <3> QED
      BY <3>2, <3>3
  <2> QED
    BY <2>1, <1>1 DEF EntriesAgree
<1>11. RecordOutlives'
  <2>1. ASSUME NEW l \in Keys, l \notin deleted'
        PROVE  /\ byUser'[l] <= rec'[l].expires
               /\ \A s \in Statuses : byStatus'[s][l] <= rec'[l].expires
    <3>1. CASE l = k
      <4>1. client[c].op # "delete"
        BY <3>1, <2>1, <1>1
      <4> QED
        BY <4>1, <3>1, <1>5
    <3>2. CASE l # k
      <4>1. /\ byUser[l] <= rec[l].expires
            /\ \A s \in Statuses : byStatus[s][l] <= rec[l].expires
        BY <2>1, <1>1 DEF IInv, RecordOutlives
      <4> QED
        BY <4>1, <3>2, <1>4, <1>6
    <3> QED
      BY <3>1, <3>2
  <2> QED
    BY <2>1 DEF RecordOutlives
<1> QED
  BY <1>7, <1>8, <1>9, <1>10, <1>11 DEF IInv

LEMMA NextInv == IInv /\ [Next]_vars => IInv'
<1> SUFFICES ASSUME IInv, [Next]_vars PROVE IInv'
  OBVIOUS
<1> Api \in Clients /\ Workers \subseteq Clients
  BY DEF Clients
<1>1. ASSUME NEW k \in Keys, BeginInsert(k) PROVE IInv'
  <2>1. ~ Stored(k) /\ Begin(Api, "insert", k, {First})
    BY <1>1 DEF BeginInsert
  <2> QED
    BY <2>1, BeginInv, StatusAssumption
<1>2. ASSUME NEW k \in Keys, BeginDelete(k) PROVE IInv'
  BY <1>2, BeginInv DEF BeginDelete
<1>3. ASSUME NEW k \in Keys, NEW c \in Clients, BeginUpdate(c, k) PROVE IInv'
  <2>1. Stored(k)
    BY <1>3 DEF BeginUpdate
  <2>2. ASSUME NEW s \in Statuses, Begin(c, "update", k, {s}) PROVE IInv'
    BY <2>1, <2>2, BeginInv
  <2>3. ASSUME Begin(c, "update", k, {}) PROVE IInv'
    BY <2>1, <2>3, BeginInv
  <2> QED
    BY <1>3, <2>2, <2>3 DEF BeginUpdate
<1>4. ASSUME NEW k \in Keys, NEW c \in Clients, Write(c, k) PROVE IInv'
  BY <1>4, WriteInv
<1>5. ASSUME NEW c \in Workers, Open(c) PROVE IInv'
  BY <1>5, OpenInv
<1>6. CASE Tick
  BY <1>6, TickInv
<1>7. CASE UNCHANGED vars
  BY <1>7 DEF IInv, vars, TypeOK, OperationsBegun, WithinTTL, EntriesAgree, RecordOutlives
<1> QED
  BY <1>1, <1>2, <1>3, <1>4, <1>5, <1>6, <1>7 DEF Next

LEMMA Inductive == Spec => []IInv
BY InitInv, NextInv, PTL DEF Spec

(***************************************************************************)
(* The theorems.                                                           *)
(***************************************************************************)

\* The type invariant of Collection: in particular no score and no expiry is ever
\* set beyond one lifetime after the horizon.
THEOREM TypeCorrect == Spec => []TypeOK
<1>1. IInv => TypeOK
  BY DEF IInv
<1> QED
  BY <1>1, Inductive, PTL

\* For any keys, statuses, clients and settings: the index of a status finds only
\* records that have it, unless the key was written after a stale read (insert,
\* update and delete_many derive the entries to remove from what they read).
THEOREM FindsByStatusCorrect == Spec => []FindsByStatusUnlessClash
<1>1. ASSUME IInv PROVE FindsByStatusUnlessClash
  <2>1. \A s \in Statuses, k \in Keys : byStatus[s][k] \in Nat /\ now \in Nat
    BY <1>1, TimeFacts, TypeFacts DEF IInv
  <2>2. \A k \in Keys \ clash, s \in Statuses :
           byStatus[s][k] < now \/ s = rec[k].status
    BY <1>1 DEF IInv, EntriesAgree
  <2>3. ASSUME NEW s \in Statuses, NEW k \in FoundByStatus(s) \ clash
        PROVE  rec[k].status = s
    <3>1. k \in Keys \ clash /\ byStatus[s][k] >= now
      BY <2>3 DEF FoundByStatus
    <3> QED
      BY <2>1, <2>2, <3>1
  <2> QED
    BY <2>3 DEF FindsByStatusUnlessClash
<1> QED
  BY <1>1, Inductive, PTL

\* For any keys, statuses, clients and settings: what find_by_index finds has a
\* record, unless the key had both a write after a stale read and a delete.
THEOREM FoundIsStoredCorrect == Spec => []FoundIsStoredUnlessDeleteClash
<1>1. ASSUME IInv, NEW k \in Keys, k \notin clash \cap deleted, NEW e \in Nat,
             e >= now,
             e = byUser[k] \/ \E s \in Statuses : e = byStatus[s][k]
      PROVE  Stored(k)
  <2>1. now \in Nat /\ rec[k].expires \in Nat
    BY <1>1, TimeFacts, TypeFacts DEF IInv
  <2>2. e < now \/ e <= rec[k].expires
    BY <1>1 DEF IInv, EntriesAgree, RecordOutlives
  <2> QED
    BY <1>1, <2>1, <2>2 DEF Stored
<1>2. ASSUME IInv PROVE FoundIsStoredUnlessDeleteClash
  <2>1. ASSUME NEW k \in FoundByUser \cup UNION {FoundByStatus(s) : s \in Statuses}
        PROVE  Stored(k) \/ k \in clash \cap deleted
    <3>1. /\ k \in Keys
          /\ \/ byUser[k] >= now
             \/ \E s \in Statuses : byStatus[s][k] >= now
      BY <2>1 DEF FoundByUser, FoundByStatus
    <3>2. byUser[k] \in Nat /\ \A s \in Statuses : byStatus[s][k] \in Nat
      BY <1>2, <3>1, TimeFacts, TypeFacts DEF IInv
    <3> QED
      BY <1>1, <1>2, <3>1, <3>2
  <2> QED
    BY <2>1 DEF FoundIsStoredUnlessDeleteClash
<1> QED
  BY <1>2, Inductive, PTL

=============================================================================
