--------------------------- MODULE AbstractQueue ---------------------------
(***************************************************************************)
(* What a queue that runs jobs promises its callers: jobs wait in the      *)
(* order of submission, the one in front is started next, a job that is    *)
(* withdrawn while it waits is never started, and a job is started at most *)
(* once.  A job in front may also be lost, when the process that was about *)
(* to start it dies; a lost job is never started, but still withdrawn.     *)
(***************************************************************************)
EXTENDS Sequences, SequencesExt

CONSTANT Ids

VARIABLES pending,    \* the ids that wait, oldest first
          lost,       \* the ids whose runner died before it started the job
          started,    \* the ids whose job was handed to the executor
          withdrawn   \* the ids that were cancelled while they waited

vars == <<pending, lost, started, withdrawn>>

Init == /\ pending = <<>>
        /\ lost = {}
        /\ started = {}
        /\ withdrawn = {}

Submit(id) == /\ id \notin ToSet(pending) \cup lost \cup started \cup withdrawn
              /\ pending' = Append(pending, id)
              /\ UNCHANGED <<lost, started, withdrawn>>

Start(id) == /\ pending # <<>>
             /\ id = Head(pending)
             /\ pending' = Tail(pending)
             /\ started' = started \cup {id}
             /\ UNCHANGED <<lost, withdrawn>>

Withdraw(id) == /\ id \in ToSet(pending) \cup lost
                /\ pending' = RemoveFirst(pending, id)
                /\ lost' = lost \ {id}
                /\ withdrawn' = withdrawn \cup {id}
                /\ UNCHANGED started

Lose == /\ pending # <<>>
        /\ lost' = lost \cup {Head(pending)}
        /\ pending' = Tail(pending)
        /\ UNCHANGED <<started, withdrawn>>

Next == \/ \E id \in Ids : Submit(id) \/ Start(id) \/ Withdraw(id)
        \/ Lose

Spec == Init /\ [][Next]_vars

=============================================================================
