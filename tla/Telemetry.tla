----------------------------- MODULE Telemetry -----------------------------
(***************************************************************************)
(* What browsers see of the jobs: the JobManager with its subscribers, the *)
(* sockets of /ws/live that empty their queues, and the status each page   *)
(* shows (app.js).  A full queue drops what is put into it.                *)
(***************************************************************************)
EXTENDS JobManager, Sequences

CONSTANTS
    Pages,
    QueueSize   \* maxsize of a subscriber's queue

ASSUME TelemetryAssumption == QueueSize \in Nat \ {0}

VARIABLES
    socket,     \* where the handler of each page's socket is
    greeting,   \* the status in the INIT_STATE it is sending
    queue,      \* the subscriber's queue: types of events
    shown,      \* the status the page shows
    missed      \* history: the last state meant for the page was dropped

pages == <<socket, greeting, queue, shown, missed>>

LiveInit ==
    /\ Init
    /\ socket = [p \in Pages |-> "closed"]
    /\ greeting = [p \in Pages |-> "none"]
    /\ queue = [p \in Pages |-> <<>>]
    /\ shown = [p \in Pages |-> "idle"]
    /\ missed = [p \in Pages |-> FALSE]

-----------------------------------------------------------------------------
(* The manager's side.                                                     *)

Snapshot ==
    IF running /\ status \notin {"completed", "cancelled", "failed"}
      THEN "running" ELSE status

Subscribed_Greeted == {p \in Pages : socket[p] = "streaming"}
Subscribed == {p \in Pages : socket[p] # "closed"}

\* The type of the event by which a job that ends with `result` says so.
Terminal(result) ==
    CASE result = "completed" -> "COMPLETED"
      [] result = "cancelled" -> "CANCELLED"
      [] result = "failed"    -> "FAILED"

HasState(type) == type \in {"PROGRESS", "COMPLETED", "CANCELLED", "FAILED"}

\* put_nowait of some events in turn: those that do not fit are dropped.
Put(q, events) ==
    IF Len(q \o events) <= QueueSize
      THEN q \o events ELSE SubSeq(q \o events, 1, QueueSize)
Broadcast(events) ==
    /\ queue' = [p \in Pages |->
          IF p \in Subscribed
            THEN Put(queue[p], events) ELSE queue[p]]
    /\ missed' = [p \in Pages |->
          IF p \in Subscribed /\ HasState(events[Len(events)])
            THEN Len(queue[p] \o events) > QueueSize ELSE missed[p]]
    /\ UNCHANGED <<socket, greeting, shown>>

CancelRequested == Broadcast(<<"LOG", "CANCEL_REQUESTED">>)

Progress(r) ==
    /\ task[r] = "body" /\ ~throw[r]
    /\ Broadcast(<<"PROGRESS">>)
    /\ UNCHANGED vars

FloodWait(r) ==
    /\ task[r] = "body" /\ ~throw[r]
    /\ Broadcast(<<"LOG", "FLOOD_WAIT">>)
    /\ UNCHANGED vars

JobEnds(r) == DownloadReturns(r) \/ DownloadRaises(r) \/ DownloadCancelled(r)

ManagerNext ==
    \/ \E r \in Requests :
          \/ /\ \/ ArriveIdle(r) \/ WaitOver(r) \/ PollOver(r)
                \/ StartFails(r) \/ StartConflict(r)
                \/ TaskBegins(r) \/ TaskNeverRuns(r)
             /\ UNCHANGED pages
          \/ ArriveBusy(r) /\ CancelRequested
          \/ StartJob(r) /\ Broadcast(<<"LOG">>)
          \/ Progress(r) \/ FloodWait(r)
          \/ JobEnds(r) /\ Broadcast(<<"LOG", Terminal(status')>>)
    \/ CancelJob /\ CancelRequested

-----------------------------------------------------------------------------
(* The socket's side.                                                      *)

\* subscribe() and the snapshot of INIT_STATE, with no suspension between.
Connect(p) ==
    /\ socket[p] = "closed"
    /\ socket' = [socket EXCEPT ![p] = "greeting"]
    /\ greeting' = [greeting EXCEPT ![p] = Snapshot]
    /\ queue' = [queue EXCEPT ![p] = <<>>]
    /\ missed' = [missed EXCEPT ![p] = FALSE]
    /\ UNCHANGED <<shown, vars>>

\* send_json of INIT_STATE is over and the page has it.
Greet(p) ==
    /\ socket[p] = "greeting"
    /\ socket' = [socket EXCEPT ![p] = "streaming"]
    /\ shown' = [shown EXCEPT ![p] = greeting[p]]
    /\ greeting' = [greeting EXCEPT ![p] = "none"]
    /\ UNCHANGED <<queue, missed, vars>>

\* handleWsEvent: what the page shows after an event of this type.  It takes
\* no state from CANCELLED.
AfterEvent(type, old) ==
    CASE type = "PROGRESS"  -> "running"
      [] type = "COMPLETED" -> "completed"
      [] type = "FAILED"    -> "failed"
      [] OTHER              -> old

SendEvent(p) ==
    /\ socket[p] = "streaming" /\ queue[p] # <<>>
    /\ shown' = [shown EXCEPT ![p] = AfterEvent(Head(queue[p]), @)]
    /\ queue' = [queue EXCEPT ![p] = Tail(@)]
    /\ UNCHANGED <<socket, greeting, missed, vars>>

\* The connection is lost, or the page goes away: unsubscribe.  A page that
\* is still there connects again.
Disconnect(p) ==
    /\ socket[p] # "closed"
    /\ socket' = [socket EXCEPT ![p] = "closed"]
    /\ queue' = [queue EXCEPT ![p] = <<>>]
    /\ missed' = [missed EXCEPT ![p] = FALSE]
    /\ greeting' = [greeting EXCEPT ![p] = "none"]
    /\ UNCHANGED <<shown, vars>>

PageNext ==
    \E p \in Pages : Connect(p) \/ Greet(p) \/ SendEvent(p) \/ Disconnect(p)

LiveNext == ManagerNext \/ PageNext
LiveSpec == LiveInit /\ [][LiveNext]_<<vars, pages>> /\ Fairness

-----------------------------------------------------------------------------
\* A page that has been sent everything, and whose last state was not dropped
\* at a full queue, shows that the job completed or failed, whether it
\* connected before, at or after the end; no later event of the same job and
\* no greeting taken earlier hides it.
EndIsShown ==
    \A p \in Pages :
        /\ socket[p] = "streaming" /\ queue[p] = <<>> /\ ~missed[p]
        /\ status \in {"completed", "failed"}
        => shown[p] = status
=============================================================================
