--------------------------- MODULE TelemetryProofs ---------------------------
(***************************************************************************)
(* What pages show of the jobs, for any number of pages and requests and   *)
(* queues of any size.                                                     *)
(***************************************************************************)
EXTENDS Telemetry, JobManagerProofs, SequenceTheorems

\* With its subscribers the manager still takes the steps of JobManager only.
LEMMA ManagerStep == LiveNext => [Next]_vars
<1>1. ManagerNext => [Next]_vars
  BY DEF ManagerNext, Next, HandlerStep, TaskStep, JobEnds, Progress, FloodWait
<1>2. PageNext => UNCHANGED vars
  BY DEF PageNext, Connect, Greet, SendEvent, Disconnect, vars
<1> QED
  BY <1>1, <1>2 DEF LiveNext

\* Whatever the theorems of JobManagerProofs say of the manager's own
\* behaviours is true of it among its subscribers: queues that fill, sockets
\* that open and close and pages that go away never hold a job up.
THEOREM Composition == LiveSpec => FairSpec
<1>1. LiveInit => Init
  BY DEF LiveInit
<1>2. [LiveNext]_<<vars, pages>> => [Next]_vars
  BY ManagerStep
<1> QED
  BY <1>1, <1>2, PTL DEF LiveSpec, FairSpec, Spec

-----------------------------------------------------------------------------
(* A page that misses nothing is on its way to the status of the end.      *)

Shows == {"PROGRESS", "COMPLETED", "FAILED"}
EventTypes == Shows \union {"LOG", "CANCEL_REQUESTED", "FLOOD_WAIT", "CANCELLED"}
Ended == status \in {"completed", "failed"}

LEMMA TerminalTypes ==
    ASSUME NEW result \in {"completed", "cancelled", "failed"}
    PROVE  Terminal(result) \in {"COMPLETED", "CANCELLED", "FAILED"}
<1>1. CASE result = "completed"
  BY <1>1 DEF Terminal
<1>2. CASE result = "cancelled"
  BY <1>2 DEF Terminal
<1>3. CASE result = "failed"
  BY <1>3 DEF Terminal
<1> QED
  BY <1>1, <1>2, <1>3

\* The last event that changes what the page shows tells the end.
EndIsQueued(p) ==
    \E i \in 1..Len(queue[p]) :
        /\ queue[p][i] = Terminal(status)
        /\ \A j \in (i + 1)..Len(queue[p]) : queue[p][j] \notin Shows

\* No event will change it, and it tells the end already, or the greeting will.
EndIsKnown(p) ==
    /\ \A j \in 1..Len(queue[p]) : queue[p][j] \notin Shows
    /\ socket[p] = "greeting" => greeting[p] = status
    /\ socket[p] = "streaming" => shown[p] = status

PageTypes ==
    /\ socket \in [Pages -> {"closed", "greeting", "streaming"}]
    /\ queue \in [Pages -> Seq(EventTypes)]
    /\ DOMAIN shown = Pages /\ DOMAIN greeting = Pages /\ missed \in [Pages -> BOOLEAN]

PageInv ==
    /\ PageTypes
    /\ running <=> status = "running"
    /\ \A p \in Pages :
          Ended /\ socket[p] # "closed" /\ ~missed[p] => EndIsQueued(p) \/ EndIsKnown(p)

LEMMA InitPageInv == LiveInit => PageInv
BY DEF LiveInit, Init, PageInv, PageTypes, Ended, EventTypes

\* Putting events into the queues keeps them sequences of events; the events
\* of a page that has not missed the last one are all in its queue.
LEMMA BroadcastKept ==
    ASSUME PageTypes, NEW events \in Seq(EventTypes), events # <<>>, Broadcast(events)
    PROVE  /\ PageTypes' /\ socket' = socket
           /\ HasState(events[Len(events)]) =>
                 \A p \in Pages : socket[p] # "closed" /\ ~missed'[p] =>
                                    queue'[p] = queue[p] \o events
<1> USE TelemetryAssumption
<1>1. ASSUME NEW p \in Pages PROVE Put(queue[p], events) \in Seq(EventTypes)
  <2>1. queue[p] \o events \in Seq(EventTypes)
    BY DEF PageTypes
  <2>2. CASE Len(queue[p] \o events) > QueueSize
    <3>1. QueueSize <= Len(queue[p] \o events) /\ Len(queue[p] \o events) \in Nat
      BY <2>1, <2>2
    <3>2. SubSeq(queue[p] \o events, 1, QueueSize) \in Seq(EventTypes)
      BY <2>1, <3>1
    <3> QED
      BY <2>1, <3>2 DEF Put
  <2>3. CASE ~(Len(queue[p] \o events) > QueueSize)
    BY <2>1, <2>3 DEF Put
  <2> QED
    BY <2>2, <2>3
<1>2. PageTypes'
  <2>1. queue' \in [Pages -> Seq(EventTypes)]
    BY <1>1 DEF Broadcast, PageTypes
  <2>2. missed' \in [Pages -> BOOLEAN]
    <3>1. ASSUME NEW p \in Pages PROVE missed'[p] \in BOOLEAN
      <4> DEFINE full == Len(queue[p] \o events) > QueueSize
      <4>1. full \in BOOLEAN
        OBVIOUS
      <4>2. missed'[p] = full \/ missed'[p] = missed[p]
        BY DEF Broadcast
      <4> HIDE DEF full
      <4> QED
        BY <4>1, <4>2 DEF PageTypes
    <3> QED
      BY <3>1 DEF Broadcast
  <2> QED
    BY <2>1, <2>2 DEF Broadcast, PageTypes
<1>3. ASSUME HasState(events[Len(events)]), NEW p \in Pages, socket[p] # "closed", ~missed'[p]
      PROVE  queue'[p] = queue[p] \o events
  <2>1. p \in Subscribed
    BY <1>3 DEF Subscribed
  <2>2. /\ queue'[p] = Put(queue[p], events)
        /\ missed'[p] <=> Len(queue[p] \o events) > QueueSize
    BY <1>3, <2>1 DEF Broadcast
  <2>3. queue[p] \o events \in Seq(EventTypes)
    BY DEF PageTypes
  <2> QED
    BY <1>3, <2>2, <2>3 DEF Put
<1> QED
  BY <1>2, <1>3 DEF Broadcast

LEMMA LastOfTwo ==
    ASSUME NEW S, NEW s \in Seq(S), NEW t \in Seq(S), Len(t) = 2
    PROVE  Len(s \o t) = Len(s) + 2 /\ (s \o t)[Len(s) + 2] = t[2] /\ Len(s) \in Nat
<1>1. Len(s) \in Nat /\ Len(t) \in Nat
  OBVIOUS
<1>2. Len(s) + 2 \in 1..(Len(s) + Len(t)) /\ ~(Len(s) + 2 <= Len(s))
  BY <1>1
<1>3. (Len(s) + 2) - Len(s) = 2
  BY <1>1
<1>4. /\ Len(s \o t) = Len(s) + Len(t)
      /\ \A i \in 1..(Len(s) + Len(t)) :
            (s \o t)[i] = IF i <= Len(s) THEN s[i] ELSE t[i - Len(s)]
  BY ConcatProperties
<1> QED
  BY <1>1, <1>2, <1>3, <1>4

LEMMA PageStep == ASSUME JobInv, PageInv, LiveNext PROVE PageInv'
<1> USE JobManagerAssumption
\* While a job runs there is no end to be shown.
<1>1. ASSUME PageTypes', running' <=> status' = "running", ~Ended' PROVE PageInv'
  BY <1>1 DEF PageInv
<1>2. ASSUME UNCHANGED pages, UNCHANGED <<running, status>> PROVE PageInv'
  BY <1>2 DEF PageInv, PageTypes, Ended, EndIsQueued, EndIsKnown, pages, Terminal
<1>3. ASSUME NEW events \in Seq(EventTypes), events # <<>>, Broadcast(events),
             running', status' = "running"
      PROVE  PageInv'
  BY <1>1, <1>3, BroadcastKept DEF PageInv, Ended
<1>4. running => status = "running"
  BY DEF PageInv
<1>5. <<"LOG">> \in Seq(EventTypes) /\ <<"PROGRESS">> \in Seq(EventTypes)
      /\ <<"LOG", "CANCEL_REQUESTED">> \in Seq(EventTypes)
      /\ <<"LOG", "FLOOD_WAIT">> \in Seq(EventTypes)
  BY DEF EventTypes, Shows
<1>6. ASSUME NEW r \in Requests, ArriveBusy(r) /\ CancelRequested PROVE PageInv'
  <2>1. running' /\ status' = "running"
    BY <1>4, <1>6 DEF ArriveBusy
  <2> QED
    BY <1>3, <1>5, <1>6, <2>1 DEF CancelRequested
<1>7. ASSUME CancelJob /\ CancelRequested PROVE PageInv'
  <2>1. running' /\ status' = "running"
    BY <1>4, <1>7 DEF CancelJob
  <2> QED
    BY <1>3, <1>5, <1>7, <2>1 DEF CancelRequested
<1>8. ASSUME NEW r \in Requests, StartJob(r) /\ Broadcast(<<"LOG">>) PROVE PageInv'
  <2>1. running' /\ status' = "running"
    BY <1>8 DEF StartJob
  <2> QED
    BY <1>3, <1>5, <1>8, <2>1
<1>9. ASSUME NEW r \in Requests, Progress(r) \/ FloodWait(r) PROVE PageInv'
  <2>1. running
    BY <1>9 DEF Progress, FloodWait, JobInv, LiveIsActive, Live
  <2>2. running' /\ status' = "running"
    BY <1>4, <1>9, <2>1 DEF Progress, FloodWait, vars, manager
  <2> QED
    BY <1>3, <1>5, <1>9, <2>2 DEF Progress, FloodWait
<1>10. ASSUME NEW r \in Requests, JobEnds(r) /\ Broadcast(<<"LOG", Terminal(status')>>)
       PROVE  PageInv'
  <2> DEFINE events == <<"LOG", Terminal(status')>>
  <2>1. status' \in {"completed", "cancelled", "failed"} /\ ~running'
    BY <1>10 DEF JobEnds, DownloadReturns, DownloadRaises, DownloadCancelled, Finally
  <2>2. Terminal(status') \in {"COMPLETED", "CANCELLED", "FAILED"}
    BY <2>1, TerminalTypes
  <2>3. events \in Seq(EventTypes) /\ events # <<>> /\ Len(events) = 2
        /\ events[2] = Terminal(status')
    BY <2>2 DEF EventTypes, Shows
  <2>4. HasState(events[Len(events)])
    BY <2>2, <2>3 DEF HasState
  <2> HIDE DEF events
  <2>5. Broadcast(events)
    BY <1>10 DEF events
  <2>6. /\ PageTypes' /\ socket' = socket
        /\ \A p \in Pages : socket[p] # "closed" /\ ~missed'[p] =>
                               queue'[p] = queue[p] \o events
    BY <2>3, <2>4, <2>5, BroadcastKept DEF PageInv
  <2>7. ASSUME NEW p \in Pages, socket'[p] # "closed", ~missed'[p] PROVE EndIsQueued(p)'
    <3>1. queue'[p] = queue[p] \o events /\ queue[p] \in Seq(EventTypes)
      BY <2>6, <2>7 DEF PageInv, PageTypes
    <3>2. /\ Len(queue'[p]) = Len(queue[p]) + 2 /\ Len(queue[p]) \in Nat
          /\ queue'[p][Len(queue[p]) + 2] = Terminal(status')
      BY <2>3, <3>1, LastOfTwo
    <3>3. Len(queue'[p]) \in 1..Len(queue'[p])
          /\ (Len(queue'[p]) + 1)..Len(queue'[p]) = {}
      BY <3>2
    <3>4. Terminal(status)' = Terminal(status')
      BY DEF Terminal
    <3> QED
      BY <3>2, <3>3, <3>4 DEF EndIsQueued
  <2> QED
    BY <2>1, <2>6, <2>7 DEF PageInv
<1>11. ASSUME UNCHANGED pages, NEW r \in Requests,
              ArriveIdle(r) \/ WaitOver(r) \/ PollOver(r) \/ StartFails(r)
                \/ StartConflict(r) \/ TaskBegins(r) \/ TaskNeverRuns(r)
       PROVE  PageInv'
  <2>1. UNCHANGED <<running, status>>
    BY <1>11 DEF ArriveIdle, WaitOver, PollOver, StartFails, StartConflict,
         TaskBegins, TaskNeverRuns, manager
  <2> QED
    BY <1>2, <1>11, <2>1
<1>12. CASE ManagerNext
  BY <1>6, <1>7, <1>8, <1>9, <1>10, <1>11, <1>12 DEF ManagerNext
<1>13. UNCHANGED status => Terminal(status') = Terminal(status)
  OBVIOUS
<1>14. ASSUME NEW p \in Pages, Connect(p) \/ Disconnect(p) PROVE PageInv'
  <2>1. UNCHANGED <<running, status>> /\ PageTypes'
    <3>1. UNCHANGED <<running, status, shown>>
      BY <1>14 DEF Connect, Disconnect, vars, manager
    <3>2. <<>> \in Seq(EventTypes)
      OBVIOUS
    <3>3. CASE Connect(p)
      BY <3>1, <3>2, <3>3 DEF Connect, PageInv, PageTypes
    <3>4. CASE Disconnect(p)
      BY <3>1, <3>2, <3>4 DEF Disconnect, PageInv, PageTypes
    <3> QED
      BY <1>14, <3>1, <3>3, <3>4
  <2>2. ASSUME NEW s \in Pages, Ended', socket'[s] # "closed", ~missed'[s]
        PROVE  EndIsQueued(s)' \/ EndIsKnown(s)'
    <3>1. CASE s = p
      <4>1. socket'[p] = "greeting" /\ queue'[p] = <<>> /\ greeting'[p] = status'
        BY <1>14, <2>1, <2>2, <3>1 DEF Connect, Disconnect, PageInv, PageTypes, Ended, Snapshot
      <4> QED
        BY <3>1, <4>1 DEF EndIsKnown
    <3>2. CASE s # p
      <4>1. /\ socket'[s] = socket[s] /\ queue'[s] = queue[s] /\ missed'[s] = missed[s]
            /\ greeting'[s] = greeting[s] /\ shown'[s] = shown[s]
        BY <1>14, <2>2, <3>2 DEF Connect, Disconnect, PageInv, PageTypes
      <4> QED
        BY <1>13, <2>1, <2>2, <4>1 DEF PageInv, Ended, EndIsQueued, EndIsKnown
    <3> QED
      BY <3>1, <3>2
  <2> QED
    BY <2>1, <2>2 DEF PageInv
<1>15. ASSUME NEW p \in Pages, Greet(p) PROVE PageInv'
  <2>1. UNCHANGED <<running, status>> /\ PageTypes'
    BY <1>15 DEF Greet, PageInv, PageTypes, vars, manager
  <2>2. ASSUME NEW s \in Pages, Ended', socket'[s] # "closed", ~missed'[s]
        PROVE  EndIsQueued(s)' \/ EndIsKnown(s)'
    <3>1. queue'[s] = queue[s] /\ missed'[s] = missed[s] /\ socket[s] # "closed"
      BY <1>15, <2>2 DEF Greet, PageInv, PageTypes
    <3>2. CASE EndIsQueued(s)
      BY <1>13, <2>1, <3>1, <3>2 DEF EndIsQueued
    <3>3. CASE EndIsKnown(s)
      <4>1. CASE s = p
        BY <1>15, <2>1, <3>1, <3>3, <4>1 DEF Greet, PageInv, PageTypes, EndIsKnown
      <4>2. CASE s # p
        BY <1>15, <2>1, <3>1, <3>3, <4>2 DEF Greet, PageInv, PageTypes, EndIsKnown
      <4> QED
        BY <4>1, <4>2
    <3> QED
      BY <2>1, <2>2, <3>1, <3>2, <3>3 DEF PageInv, Ended
  <2> QED
    BY <2>1, <2>2 DEF PageInv
<1>16. ASSUME NEW p \in Pages, SendEvent(p) PROVE PageInv'
  <2> DEFINE q == queue[p]
  <2>1. UNCHANGED <<running, status>> /\ q \in Seq(EventTypes) /\ q # <<>>
    BY <1>16 DEF SendEvent, PageInv, PageTypes, vars, manager
  <2>2. /\ queue' = [queue EXCEPT ![p] = Tail(q)] /\ socket' = socket /\ missed' = missed
        /\ shown' = [shown EXCEPT ![p] = AfterEvent(Head(q), shown[p])] /\ greeting' = greeting
    BY <1>16 DEF SendEvent
  <2>3. /\ Tail(q) \in Seq(EventTypes) /\ Len(Tail(q)) = Len(q) - 1 /\ Len(q) \in Nat
        /\ \A i \in 1..(Len(q) - 1) : Tail(q)[i] = q[i + 1]
        /\ Head(q) = q[1]
    BY <2>1
  <2>4. PageTypes'
    BY <2>2, <2>3 DEF PageInv, PageTypes
  <2> HIDE DEF q
  <2>5. ASSUME NEW s \in Pages, Ended', socket'[s] # "closed", ~missed'[s]
        PROVE  EndIsQueued(s)' \/ EndIsKnown(s)'
    <3>1. /\ socket[s] # "closed" /\ missed'[s] = missed[s] /\ Ended
          /\ EndIsQueued(s) \/ EndIsKnown(s)
      BY <2>1, <2>2, <2>5 DEF PageInv, Ended
    <3>2. CASE s # p
      <4>1. queue'[s] = queue[s] /\ shown'[s] = shown[s]
        BY <2>2, <3>2 DEF PageInv, PageTypes
      <4> QED
        BY <1>13, <2>1, <2>2, <3>1, <4>1 DEF EndIsQueued, EndIsKnown
    <3>3. CASE s = p
      <4>1. queue'[s] = Tail(q) /\ shown'[s] = AfterEvent(Head(q), shown[p])
            /\ queue[s] = q /\ socket[s] = "streaming"
        BY <1>16, <2>2, <3>3 DEF PageInv, PageTypes, q, SendEvent
      <4>2. ASSUME \A j \in 2..Len(q) : q[j] \notin Shows,
                   shown'[s] = status
            PROVE  EndIsKnown(s)'
        BY <2>1, <2>2, <2>3, <4>1, <4>2 DEF EndIsKnown
      <4>3. CASE EndIsKnown(s)
        <5>1. \A j \in 1..Len(q) : q[j] \notin Shows
          BY <4>1, <4>3 DEF EndIsKnown
        <5>2. Head(q) \notin Shows
          BY <2>1, <2>3, <5>1
        <5>3. shown'[s] = shown[p]
          BY <4>1, <5>2 DEF AfterEvent, Shows
        <5> QED
          BY <2>3, <3>3, <4>1, <4>2, <4>3, <5>1, <5>3 DEF EndIsKnown
      <4>4. CASE EndIsQueued(s)
        <5>1. PICK i \in 1..Len(q) :
                 q[i] = Terminal(status) /\ \A j \in (i + 1)..Len(q) : q[j] \notin Shows
          BY <4>1, <4>4 DEF EndIsQueued
        <5>2. CASE i = 1
          <6>1. Head(q) = Terminal(status)
            BY <2>3, <5>1, <5>2
          <6>2. shown'[s] = status
            BY <3>1, <4>1, <6>1 DEF AfterEvent, Terminal, Ended
          <6> QED
            BY <2>3, <4>2, <5>1, <5>2, <6>2
        <5>3. CASE i # 1
          <6>1. /\ i - 1 \in 1..Len(Tail(q)) /\ Tail(q)[i - 1] = Terminal(status')
                /\ \A j \in ((i - 1) + 1)..Len(Tail(q)) : Tail(q)[j] \notin Shows
            BY <1>13, <2>1, <2>3, <5>1, <5>3
          <6> QED
            BY <4>1, <6>1 DEF EndIsQueued
        <5> QED
          BY <5>2, <5>3
      <4> QED
        BY <3>1, <4>3, <4>4
    <3> QED
      BY <3>2, <3>3
  <2> QED
    BY <2>1, <2>2, <2>4, <2>5 DEF PageInv
<1> QED
  BY <1>12, <1>14, <1>15, <1>16 DEF LiveNext, PageNext

\* A page that has had everything sent to it, and lost no last state to a full
\* queue, shows how the job ended: whenever it connected, a greeting taken
\* earlier and events still queued never leave it with anything else.
THEOREM EndReachesPages == LiveSpec => []EndIsShown
<1>1. PageInv => EndIsShown
  <2> SUFFICES ASSUME PageInv, NEW p \in Pages,
                      socket[p] = "streaming", queue[p] = <<>>, ~missed[p], Ended
               PROVE  shown[p] = status
    BY DEF EndIsShown, Ended
  <2>1. EndIsQueued(p) \/ EndIsKnown(p)
    BY DEF PageInv
  <2>2. ~EndIsQueued(p)
    BY DEF EndIsQueued
  <2> QED
    BY <2>1, <2>2 DEF EndIsKnown
<1>2. JobInv /\ PageInv /\ [LiveNext]_<<vars, pages>> => PageInv'
  <2>1. CASE UNCHANGED <<vars, pages>>
    BY <2>1 DEF PageInv, PageTypes, Ended, EndIsQueued, EndIsKnown, Terminal,
         vars, manager, pages
  <2> QED
    BY <2>1, PageStep
<1>3. LiveSpec => []JobInv
  BY Composition, JobAlways, PTL DEF FairSpec
<1> QED
  BY <1>1, <1>2, <1>3, InitPageInv, PTL DEF LiveSpec
=============================================================================
