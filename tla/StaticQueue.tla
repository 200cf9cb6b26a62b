---------------------------- MODULE StaticQueue ----------------------------
(***************************************************************************)
(* The operations of the class StaticQueue (app/libs/queues/types.py) on   *)
(* the three Redis structures behind one queue, as functions from a queue  *)
(* value to the next one:                                                  *)
(*                                                                         *)
(*   list   the Redis list `name`: the storage ids, oldest first           *)
(*   store  the hash `backing_map_<name>` (and its twin for args/kwargs,   *)
(*          always written together): the storage ids with a payload       *)
(*   total  the field `total_duration` of the hash `metadata_<name>`       *)
(*                                                                         *)
(* A storage id is the record of its two parts, the uuid of the job and    *)
(* its duration.  One operator here is one atomic Redis command or one     *)
(* MULTI/EXEC pipeline; the methods that take several are split into their *)
(* commands by the modules that use them.                                  *)
(***************************************************************************)
EXTENDS Integers, Sequences, SequencesExt, FiniteSets, FiniteSetsExt

\* StorageID.from_details: a duration that is not known yet is written as 0.
StorageID(uuid, duration) == [uuid |-> uuid, duration |-> duration]

EmptyQueue == [list |-> <<>>, store |-> {}, total |-> 0]

QueueType(Ids) == [list : Seq(Ids), store : SUBSET Ids, total : Int]

\* add: HSET payload, RPUSH id, HINCRBYFLOAT total, in one pipeline.
Add(q, id) ==
  [list  |-> Append(q.list, id),
   store |-> q.store \cup {id},
   total |-> q.total + id.duration]

\* The LPOP of next: only the list changes.
LPop(q) == [q EXCEPT !.list = Tail(q.list)]

\* The pipeline of next that follows the LPOP of id: the total goes down and
\* the payload is fetched and deleted, whether or not it is still there.
Take(q, id) ==
  [q EXCEPT !.store = q.store \ {id}, !.total = q.total - id.duration]

\* pop_job: LREM 1, HGET, HDEL and HINCRBYFLOAT in one pipeline.  The total
\* goes down even when the queue does not hold id.
PopJob(q, id) ==
  [list  |-> RemoveFirst(q.list, id),
   store |-> q.store \ {id},
   total |-> q.total - id.duration]

\* next and pop_job return the job only when HGET found a payload; otherwise
\* Job.model_validate_json(None) raises a ValidationError.
HasPayload(q, id) == id \in q.store

\* The sum of the durations of a set of storage ids.
SumOfDurations(ids) == MapThenSumSet(LAMBDA id : id.duration, ids)

=============================================================================
