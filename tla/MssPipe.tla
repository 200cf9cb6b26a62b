------------------------------ MODULE MssPipe ------------------------------
(***************************************************************************)
(* The way of an event to MSS and of its reply back                        *)
(* (src/app/services/external/mss/service.py).  Workers and the API send   *)
(* through pipes: they publish on the Redis channel "outbox" and wait for  *)
(* a reply with the id of their event on the channel "inbox".  One client  *)
(* in the API process forwards the outbox over its websocket, one event at *)
(* a time, and publishes the replies.  Redis pub/sub keeps nothing: what   *)
(* nobody listens to is lost.                                              *)
(*                                                                         *)
(* The client subscribes and starts its reader task before it connects, a  *)
(* failed attempt leaves both behind, and an exception of the handler      *)
(* unsubscribes the outbox and ends the reader.                            *)
(***************************************************************************)
EXTENDS Naturals, Sequences, FiniteSets

CONSTANTS
  Senders,      \* pipes: MssClientPipe of workers, AsyncMssClientPipe of the API
  Events,       \* ids of events
  NoEvent,      \* what a reader that handles none has
  Plan,         \* [Senders -> Seq(Events)]: what each sends over its pipe
  MaxAttempts,  \* bound on the attempts to connect
  MaxDrops      \* bound on lost connections

ASSUME PipeAssumption ==
  /\ NoEvent \notin Events
  /\ Plan \in [Senders -> Seq(Events)]
  /\ \A s \in Senders : Plan[s] # <<>>
  /\ \A s, r \in Senders : \A i \in DOMAIN Plan[s], j \in DOMAIN Plan[r] :
       Plan[s][i] = Plan[r][j] => s = r /\ i = j      \* ids are uuids
  /\ MaxAttempts \in Nat /\ MaxDrops \in Nat

VARIABLES
  pipe,      \* "new", "ready", "waiting" or "closed", of each sender
  at,        \* the position of its current event in its plan
  inbox,     \* replies that its subscription has delivered and it has not read
  outcome,   \* of each event: what send_event returned or raised
  link,      \* the client: "idle", "connecting", "up", "backoff", "lost" or "stopped"
  heard,     \* is the client subscribed to the outbox?
  outbox,    \* events delivered to that subscription and not yet handled
  readers,   \* the tasks running outbox.run, in the order of their creation
  toMss, fromMss,      \* the two directions of the websocket
  accepted, rejected,  \* the events that MSS has processed, in order
  struck,    \* did a reader end by an exception since the last attempt began?
  drops

client == <<link, heard, outbox, readers, struck, drops>>
socket == <<toMss, fromMss, accepted, rejected>>
senders == <<pipe, at, inbox, outcome>>
pipeVars == <<senders, client, socket>>

Reader == [state : {"reading", "sent", "broken", "ended"}, event : Events \cup {NoEvent}]
Replies == [id : Events, status : {"success", "error"}]

PipeInit ==
  /\ pipe = [s \in Senders |-> "new"] /\ at = [s \in Senders |-> 1]
  /\ inbox = [s \in Senders |-> <<>>]
  /\ outcome = [e \in Events |-> "none"]
  /\ link = "idle" /\ heard = FALSE /\ outbox = <<>> /\ readers = <<>>
  /\ toMss = <<>> /\ fromMss = <<>> /\ accepted = <<>> /\ rejected = <<>>
  /\ struck = FALSE /\ drops = 0

(***************************************************************************)
(* The pipes                                                               *)
(***************************************************************************)

Current(s) == Plan[s][at[s]]

\* __enter__ subscribes the inbox; replies published from now on are kept.
Open(s) ==
  /\ pipe[s] = "new"
  /\ pipe' = [pipe EXCEPT ![s] = "ready"]
  /\ UNCHANGED <<at, inbox, outcome, client, socket>>

Publish(s) ==
  /\ pipe[s] = "ready"
  /\ pipe' = [pipe EXCEPT ![s] = "waiting"]
  /\ outbox' = IF heard THEN Append(outbox, Current(s)) ELSE outbox
  /\ UNCHANGED <<at, inbox, outcome, link, heard, readers, struck, drops, socket>>

\* send_event raises: the exception leaves the with block and closes the pipe.
Raise(s, error) ==
  /\ outcome' = [outcome EXCEPT ![Current(s)] = error]
  /\ pipe' = [pipe EXCEPT ![s] = "closed"]
  /\ inbox' = [inbox EXCEPT ![s] = <<>>]
  /\ UNCHANGED at

\* send_event returns: the next event goes over the same pipe.
Return(s) ==
  /\ outcome' = [outcome EXCEPT ![Current(s)] = "success"]
  /\ IF at[s] < Len(Plan[s])
     THEN /\ pipe' = [pipe EXCEPT ![s] = "ready"]
          /\ at' = [at EXCEPT ![s] = @ + 1]
          /\ inbox' = [inbox EXCEPT ![s] = Tail(@)]
     ELSE /\ pipe' = [pipe EXCEPT ![s] = "closed"]
          /\ inbox' = [inbox EXCEPT ![s] = <<>>]
          /\ UNCHANGED at

\* A message of the inbox: replies to events of others are skipped.
FaultReceive(s) ==
  /\ pipe[s] = "waiting" /\ inbox[s] # <<>>
  /\ IF Head(inbox[s]).status = "success" THEN Return(s) ELSE Raise(s, "error")
  /\ UNCHANGED <<client, socket>>
FaultReceiveStatus(s) ==
  /\ pipe[s] = "waiting" /\ inbox[s] # <<>>
  /\ IF Head(inbox[s]).id = Current(s) THEN Return(s)
     ELSE /\ inbox' = [inbox EXCEPT ![s] = Tail(@)]
          /\ UNCHANGED <<pipe, at, outcome>>
  /\ UNCHANGED <<client, socket>>
Receive(s) ==
  /\ pipe[s] = "waiting" /\ inbox[s] # <<>>
  /\ LET reply == Head(inbox[s]) IN
     \/ /\ reply.id # Current(s)
        /\ inbox' = [inbox EXCEPT ![s] = Tail(@)]
        /\ UNCHANGED <<pipe, at, outcome>>
     \/ reply.id = Current(s) /\ reply.status = "success" /\ Return(s)
     \/ reply.id = Current(s) /\ reply.status # "success" /\ Raise(s, "error")
  /\ UNCHANGED <<client, socket>>

Timeout(s) ==
  /\ pipe[s] = "waiting"
  /\ Raise(s, "timeout")
  /\ UNCHANGED <<client, socket>>

(***************************************************************************)
(* The client: connect_to_mss                                              *)
(***************************************************************************)

\* __aenter__ up to the handshake, at the start and after each failed or lost
\* connection.
FaultEnter ==
  /\ link \in {"idle", "backoff"} /\ Len(readers) < MaxAttempts
  /\ link' = "connecting"
  /\ heard' = (heard \/ link = "idle")
  /\ readers' = Append(readers, [state |-> "reading", event |-> NoEvent])
  /\ struck' = FALSE
  /\ UNCHANGED <<senders, outbox, drops, socket>>
Enter ==
  /\ link \in {"idle", "backoff"} /\ Len(readers) < MaxAttempts
  /\ link' = "connecting"
  /\ heard' = TRUE
  /\ readers' = Append(readers, [state |-> "reading", event |-> NoEvent])
  /\ struck' = FALSE
  /\ UNCHANGED <<senders, outbox, drops, socket>>

Connect ==
  /\ link = "connecting"
  /\ link' = "up"
  /\ UNCHANGED <<senders, heard, outbox, readers, struck, drops, socket>>

\* process_exception: an error that may be transient is retried, without
\* __aexit__; any other ends the client.
Refuse ==
  /\ link = "connecting"
  /\ link' \in {"backoff", "stopped"}
  /\ UNCHANGED <<senders, heard, outbox, readers, struck, drops, socket>>

\* The connection breaks; what is under way in either direction is lost.
Drop ==
  /\ link = "up" /\ drops < MaxDrops
  /\ link' = "lost" /\ drops' = drops + 1
  /\ toMss' = <<>> /\ fromMss' = <<>>
  /\ readers' = [t \in DOMAIN readers |->
       IF readers[t].state = "sent" THEN [readers[t] EXCEPT !.state = "broken"] ELSE readers[t]]
  /\ UNCHANGED <<senders, heard, outbox, struck, accepted, rejected>>

\* wait_closed returns and __aexit__ unsubscribes and cancels the reader of
\* the last attempt.
Exit ==
  /\ link = "lost"
  /\ link' = "backoff"
  /\ heard' = FALSE
  /\ readers' = [readers EXCEPT ![Len(readers)] = [state |-> "ended", event |-> NoEvent]]
  /\ UNCHANGED <<senders, outbox, struck, drops, socket>>

(***************************************************************************)
(* The readers: PubSub.run with _outbox_handler                            *)
(***************************************************************************)

\* _pubsub_exception_handler: the subscription goes, the reader ends.
Strike(t) ==
  /\ heard' = FALSE /\ struck' = TRUE
  /\ readers' = [readers EXCEPT ![t] = [state |-> "ended", event |-> NoEvent]]
  /\ UNCHANGED <<link, drops>>

Receiving == {t \in DOMAIN readers : readers[t].state = "sent"}

\* The handler sends and then waits for the reply. Without a connection the
\* send raises; while another reader waits for a reply, recv raises.
Forward(t) ==
  /\ readers[t].state = "reading" /\ outbox # <<>>
  /\ outbox' = Tail(outbox)
  /\ toMss' = IF link = "up" THEN Append(toMss, Head(outbox)) ELSE toMss
  /\ IF link = "up" /\ Receiving = {}
     THEN /\ readers' = [readers EXCEPT ![t] = [state |-> "sent", event |-> Head(outbox)]]
          /\ UNCHANGED <<link, heard, struck, drops>>
     ELSE Strike(t)
  /\ UNCHANGED <<senders, fromMss, accepted, rejected>>

\* The reply goes to every pipe that is subscribed.
FaultReply(t) ==
  /\ readers[t].state = "sent" /\ fromMss # <<>>
  /\ inbox' = [s \in Senders |-> IF pipe[s] \in {"ready", "waiting"}
                                 THEN Append(inbox[s], Head(fromMss)) ELSE inbox[s]]
  /\ fromMss' = Tail(fromMss)
  /\ UNCHANGED <<pipe, at, outcome, link, heard, outbox, readers, struck, drops, toMss, accepted, rejected>>
Reply(t) ==
  /\ readers[t].state = "sent" /\ fromMss # <<>>
  /\ inbox' = [s \in Senders |-> IF pipe[s] \in {"ready", "waiting"}
                                 THEN Append(inbox[s], Head(fromMss)) ELSE inbox[s]]
  /\ fromMss' = Tail(fromMss)
  /\ readers' = [readers EXCEPT ![t] = [state |-> "reading", event |-> NoEvent]]
  /\ UNCHANGED <<pipe, at, outcome, link, heard, outbox, struck, drops, toMss, accepted, rejected>>

\* recv raises when its connection is lost.
FaultBroken(t) ==
  /\ readers[t].state = "broken"
  /\ outbox' = <<readers[t].event>> \o outbox
  /\ Strike(t)
  /\ UNCHANGED <<senders, socket>>
Broken(t) ==
  /\ readers[t].state = "broken"
  /\ Strike(t)
  /\ UNCHANGED <<senders, outbox, socket>>

\* Two readers wait on one Redis connection, the second of which raises.
ReaderClash(t) ==
  /\ readers[t].state = "reading"
  /\ \E o \in DOMAIN readers \ {t} : readers[o].state = "reading"
  /\ Strike(t)
  /\ UNCHANGED <<senders, outbox, socket>>

\* MSS processes the events of the websocket in order and replies to each.
Mss ==
  /\ toMss # <<>>
  /\ toMss' = Tail(toMss)
  /\ \/ /\ accepted' = Append(accepted, Head(toMss)) /\ UNCHANGED rejected
        /\ fromMss' = Append(fromMss, [id |-> Head(toMss), status |-> "success"])
     \/ /\ rejected' = Append(rejected, Head(toMss)) /\ UNCHANGED accepted
        /\ fromMss' = Append(fromMss, [id |-> Head(toMss), status |-> "error"])
  /\ UNCHANGED <<senders, client>>

PipeNext ==
  \/ \E s \in Senders : Open(s) \/ Publish(s) \/ Receive(s) \/ Timeout(s)
  \/ Enter \/ Connect \/ Refuse \/ Drop \/ Exit
  \/ \E t \in DOMAIN readers : Forward(t) \/ Reply(t) \/ Broken(t) \/ ReaderClash(t)
  \/ Mss

\* The event loop runs the readers, a pipe gives up in the end, MSS answers.
PipeFairness ==
  /\ \A s \in Senders : WF_pipeVars(Receive(s) \/ Timeout(s))
  /\ \A t \in 1 .. MaxAttempts : WF_pipeVars(t \in DOMAIN readers /\ (Forward(t) \/ Reply(t)))
  /\ WF_pipeVars(Mss)

PipeSpec == PipeInit /\ [][PipeNext]_pipeVars /\ PipeFairness

-----------------------------------------------------------------------------
(***************************************************************************)
(* Properties                                                              *)
(***************************************************************************)

Count(list, e) == Cardinality({i \in DOMAIN list : list[i] = e})

\* An event is in one place on its way at most, and MSS processes it at most
\* once, whatever breaks and however often the client reconnects: nothing on
\* the way is sent again.
ProcessedAtMostOnce ==
  \A e \in Events :
    Count(outbox, e) + Count(toMss, e) + Count(accepted, e) + Count(rejected, e) <= 1

\* send_event only returns if MSS accepted this very event, and only raises
\* ValueError if MSS rejected it, although all pipes hear all replies.
OutcomeIsOwn ==
  \A e \in Events : /\ outcome[e] = "success" => Count(accepted, e) = 1
                    /\ outcome[e] = "error" => Count(rejected, e) = 1

\* MSS sees the later events of a pipe (the calibration of a device) only after
\* it has accepted the earlier ones (the device).
AcceptedInOrder ==
  \A s \in Senders : \A i, j \in DOMAIN Plan[s] :
    i < j /\ Count(accepted, Plan[s][j]) + Count(rejected, Plan[s][j]) > 0
      => Count(accepted, Plan[s][i]) = 1

Listening == heard /\ \E t \in DOMAIN readers : readers[t].state \in {"reading", "sent"}

\* A client that is connected forwards events, unless an exception has ended a
\* reader since the attempt that led to this connection.
ConnectedListens == link = "up" => Listening \/ struck

Taken(e) == \/ \E i \in DOMAIN outbox : outbox[i] = e
            \/ \E t \in DOMAIN readers : readers[t].state = "sent" /\ readers[t].event = e

\* While the connection lasts and no reader raises, an event that has reached
\* the client is processed and passes on, behind however many others.
ServedWhileConnected ==
  \A e \in Events : Taken(e) /\ link = "up" ~> ~Taken(e) \/ link # "up" \/ struck

=============================================================================
