----------------------------- MODULE Collection -----------------------------
(***************************************************************************)
(* The jobs store: a Collection (app/utils/redis_store.py) of records that *)
(* expire, with two secondary indexes, one on the status, which changes,   *)
(* and one on a field that does not (user_id; job_id is alike).  An index  *)
(* is a sorted set of keys with their expiry as the score.                 *)
(*                                                                         *)
(* insert, update and delete_many read first and write later, in one       *)
(* pipeline that derives the index entries to remove from the record that  *)
(* was read.  The clients are the API, which makes a new Collection object *)
(* for each request, and the workers, which make one for each task and     *)
(* only update.  Time is discrete; an expiry of 0 means no entry.          *)
(***************************************************************************)
EXTENDS Integers

CONSTANTS
  Keys,       \* the job ids
  Statuses,   \* the values of the indexed field
  First,      \* the status of a new job
  Api,        \* the API, as a client
  Workers,    \* the workers, as clients
  TTL,        \* JOBS_STORE_TTL
  Interval,   \* JOBS_STORE_CLEAN_INTERVAL
  Horizon     \* bound on the clock

ASSUME StatusAssumption == First \in Statuses
ASSUME ClientAssumption == Api \notin Workers
ASSUME TimeAssumption ==
  TTL \in Nat \ {0} /\ Interval \in Nat /\ Horizon \in Nat \ {0}

VARIABLES
  now,      \* the clock, from 1 on
  rec,      \* rec[k]: the hash field of k, with its expiry
  byStatus, \* byStatus[s][k]: the score of k in the index of status s
  byUser,   \* byUser[k]: the score of k in the index of its user
  client,   \* client[c]: the operation that c is in the middle of
  cleaned,  \* cleaned[c]: __last_cleanup_timestamp of the object c uses
  clash,    \* history: the keys that were written after a stale read
  deleted   \* history: the keys that were deleted

vars == <<now, rec, byStatus, byUser, client, cleaned, clash, deleted>>

Clients == {Api} \cup Workers
Times == 0..(Horizon + TTL)

Gone == [status |-> First, expires |-> 0]
Record == [status : Statuses, expires : Times]
Idle == [op |-> "none", key |-> {}, new |-> {}, snap |-> Gone]

TypeOK ==
  /\ now \in 1..Horizon
  /\ rec \in [Keys -> Record]
  /\ byStatus \in [Statuses -> [Keys -> Times]]
  /\ byUser \in [Keys -> Times]
  /\ client \in [Clients -> [op : {"none", "insert", "update", "delete"},
                             key : SUBSET Keys, new : SUBSET Statuses,
                             snap : Record]]
  /\ cleaned \in [Clients -> 1..Horizon]
  /\ clash \in SUBSET Keys
  /\ deleted \in SUBSET Keys

Init ==
  /\ now = 1
  /\ rec = [k \in Keys |-> Gone]
  /\ byStatus = [s \in Statuses |-> [k \in Keys |-> 0]]
  /\ byUser = [k \in Keys |-> 0]
  /\ client = [c \in Clients |-> Idle]
  /\ cleaned = [c \in Clients |-> 1]
  /\ clash = {}
  /\ deleted = {}

-----------------------------------------------------------------------------
(* Queries.                                                                *)

\* exists, get_one
Stored(k) == rec[k].expires >= now

\* The keys that find_by_index finds, before it fetches their records.
FoundByStatus(s) == {k \in Keys : byStatus[s][k] >= now}
FoundByUser == {k \in Keys : byUser[k] >= now}

-----------------------------------------------------------------------------
(* The reads that insert, update and delete_many begin with.               *)

Begin(c, op, k, new) ==
  /\ client[c] = Idle
  /\ client' = [client EXCEPT ![c] =
       [op |-> op, key |-> {k}, new |-> new,
        snap |-> IF Stored(k) THEN rec[k] ELSE Gone]]
  \* the API has just made its object, a worker may have made it before
  /\ cleaned' = IF c = Api THEN [cleaned EXCEPT ![c] = now] ELSE cleaned
  /\ UNCHANGED <<now, rec, byStatus, byUser, clash, deleted>>

\* submit_job_file inserts only what does not exist.
BeginInsert(k) == ~ Stored(k) /\ Begin(Api, "insert", k, {First})
\* An update of the status or, by a worker, of other fields only.
BeginUpdate(c, k) ==
  /\ Stored(k)
  /\ \/ \E s \in Statuses : Begin(c, "update", k, {s})
     \/ c \in Workers /\ Begin(c, "update", k, {})
BeginDelete(k) == Begin(Api, "delete", k, {})

\* A worker begins a task.
Open(c) ==
  /\ client[c] = Idle
  /\ cleaned' = [cleaned EXCEPT ![c] = now]
  /\ UNCHANGED <<now, rec, byStatus, byUser, client, clash, deleted>>

-----------------------------------------------------------------------------
(* The pipelines.                                                          *)

\* _cleanup_expired_indexes: the object's own timer decides.
CleanupDue(c) == now - cleaned[c] > Interval

Swept(c, index) ==
  IF CleanupDue(c) THEN [k \in Keys |-> IF index[k] <= now THEN 0 ELSE index[k]]
                   ELSE index

Cleanup(c) ==
  cleaned' = IF CleanupDue(c) THEN [cleaned EXCEPT ![c] = now] ELSE cleaned

\* The record is not the one that was read any more.
Stale(c, k) == client[c].snap # (IF Stored(k) THEN rec[k] ELSE Gone)

\* The score of k goes from the index of status old to that of status new.
Moved(c, k, old, new) ==
  [s \in Statuses |->
     LET index == Swept(c, byStatus[s]) IN
       IF s \in new THEN [index EXCEPT ![k] = now + TTL]
       ELSE IF s \in old THEN [index EXCEPT ![k] = 0]
       ELSE index]

FaultInsert(c, k) ==
  /\ client[c].op = "insert"
  /\ client[c].key = {k}
  /\ rec' = [rec EXCEPT ![k] = [status |-> First, expires |-> now + TTL]]
  /\ byStatus' = Moved(c, k, {}, {First})
  /\ byUser' = [Swept(c, byUser) EXCEPT ![k] = now + TTL + 1]

Insert(c, k) ==
  /\ client[c].op = "insert"
  /\ client[c].key = {k}
  /\ rec' = [rec EXCEPT ![k] = [status |-> First, expires |-> now + TTL]]
  /\ byStatus' = Moved(c, k, {}, {First})
  /\ byUser' = [Swept(c, byUser) EXCEPT ![k] = now + TTL]

FaultUpdate(c, k) ==
  LET old == client[c].snap
      new == client[c].new
  IN
  /\ client[c].op = "update"
  /\ client[c].key = {k}
  /\ \E status \in (IF new = {} THEN {old.status} ELSE new) :
       rec' = [rec EXCEPT ![k] = [status |-> status, expires |-> now + TTL]]
  /\ byStatus' = Moved(c, k, {}, new)
  /\ byUser' = Swept(c, byUser)

\* The record gets a new expiry, and so does its entry in the index of the
\* status, but only when the update is one of the status.
Update(c, k) ==
  LET old == client[c].snap
      new == client[c].new
  IN
  /\ client[c].op = "update"
  /\ client[c].key = {k}
  /\ \E status \in (IF new = {} THEN {old.status} ELSE new) :
       rec' = [rec EXCEPT ![k] = [status |-> status, expires |-> now + TTL]]
  /\ byStatus' = Moved(c, k, IF new = {} THEN {} ELSE {old.status}, new)
  /\ byUser' = Swept(c, byUser)

FaultDeleteMany(c, k) ==
  /\ client[c].op = "delete"
  /\ client[c].key = {k}
  /\ rec' = [rec EXCEPT ![k] = Gone]
  /\ byStatus' = Moved(c, k, {}, {})
  /\ byUser' = [Swept(c, byUser) EXCEPT ![k] = 0]

\* Without an old item there are no index entries to remove.
DeleteMany(c, k) ==
  LET found == client[c].snap # Gone IN
  /\ client[c].op = "delete"
  /\ client[c].key = {k}
  /\ rec' = [rec EXCEPT ![k] = Gone]
  /\ byStatus' = Moved(c, k, IF found THEN {client[c].snap.status} ELSE {}, {})
  /\ byUser' = IF found THEN [Swept(c, byUser) EXCEPT ![k] = 0]
                        ELSE Swept(c, byUser)

Write(c, k) ==
  /\ Insert(c, k) \/ Update(c, k) \/ DeleteMany(c, k)
  /\ Cleanup(c)
  /\ clash' = IF Stale(c, k) THEN clash \cup {k} ELSE clash
  /\ deleted' = IF client[c].op = "delete" THEN deleted \cup {k} ELSE deleted
  /\ client' = [client EXCEPT ![c] = Idle]
  /\ UNCHANGED now

Tick ==
  /\ now < Horizon
  /\ now' = now + 1
  /\ UNCHANGED <<rec, byStatus, byUser, client, cleaned, clash, deleted>>

Next ==
  \/ \E k \in Keys : \/ BeginInsert(k) \/ BeginDelete(k)
                     \/ \E c \in Clients : BeginUpdate(c, k) \/ Write(c, k)
  \/ \E c \in Workers : Open(c)
  \/ Tick

Spec == Init /\ [][Next]_vars

-----------------------------------------------------------------------------
(* Properties.                                                             *)

\* As long as a key was never written after a stale read, the index of a status
\* finds only records that have that status, whatever expired, was deleted and
\* submitted again, or cleaned up.
FindsByStatusUnlessClash ==
  \A s \in Statuses : \A k \in FoundByStatus(s) \ clash : rec[k].status = s

\* What find_by_index finds has a record (it would raise otherwise), unless the
\* key had both a write after a stale read and a delete.  Overlapping updates
\* alone never make a listing fail, and no index entry outlives its record.
FoundIsStoredUnlessDeleteClash ==
  \A k \in FoundByUser \cup UNION {FoundByStatus(s) : s \in Statuses} :
    Stored(k) \/ k \in clash \cap deleted

=============================================================================
