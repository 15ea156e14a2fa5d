-------------------------- MODULE JobManagerProofs --------------------------
(***************************************************************************)
(* What the job manager keeps true for any number of overlapping requests. *)
(* The properties of its jobs hold together: JobInv says what is known of  *)
(* the requests that have no job yet, of the one job there may be, and of  *)
(* the ways a cancellation can reach it.                                   *)
(***************************************************************************)
EXTENDS JobManager, TLAPS

\* A request has no job before it is answered.
NoJobYet ==
    \A r \in Requests :
        handler[r] # "answered" =>
            task[r] = "none" /\ conn[r] = "none" /\ outcome[r] = "none"

\* The job that is alive is the manager's, with its connection.
LiveIsActive ==
    \A r \in Requests : Live(r) => running /\ active = r /\ conn[r] = "open"

\* The shared event and a task.cancel() are only ever aimed at the job itself.
CancelsAimed ==
    /\ event /\ running => aimed[active]
    /\ \A r \in Requests : throw[r] => aimed[r]

JobInv ==
    /\ TypeOK
    /\ NoJobYet
    /\ LiveIsActive
    /\ CancelsAimed
    /\ BusyForAReason
    /\ NoStrayCancel
    /\ NoLeakedConnection

LEMMA InitJobInv == Init => JobInv
BY DEF Init, JobInv, TypeOK, NoJobYet, LiveIsActive, CancelsAimed,
       BusyForAReason, NoStrayCancel, NoLeakedConnection, Live, Outcomes

LEMMA FinallyStep ==
    ASSUME JobInv, NEW r \in Requests, NEW result, Finally(r, result),
           task[r] = "body", result \in {"completed", "cancelled", "failed"},
           result = "cancelled" => event \/ throw[r]
    PROVE  JobInv'
<1> USE JobManagerAssumption
    DEF JobInv, TypeOK, NoJobYet, LiveIsActive, CancelsAimed, BusyForAReason,
        NoStrayCancel, NoLeakedConnection, Live, Finally, Outcomes, handlers
<1>1. running' = FALSE /\ UNCHANGED <<event, handlers, throw, aimed>>
  OBVIOUS
<1>2. result = "cancelled" => aimed[r]
  OBVIOUS
<1>3. TypeOK'
  BY <1>1
<1> QED
  BY <1>1, <1>2, <1>3

LEMMA JobStep == ASSUME JobInv, Next PROVE JobInv'
<1> USE JobManagerAssumption
    DEF JobInv, TypeOK, NoJobYet, LiveIsActive, CancelsAimed, BusyForAReason,
        NoStrayCancel, NoLeakedConnection, Live, Outcomes, manager, handlers,
        jobs
<1>1. ASSUME NEW r \in Requests, ArriveIdle(r) PROVE JobInv'
  BY <1>1 DEF ArriveIdle
<1>2. ASSUME NEW r \in Requests, ArriveBusy(r) PROVE JobInv'
  <2>1. /\ handler[r] = "none" /\ running /\ active \in Requests
        /\ event' = TRUE /\ aimed' = [aimed EXCEPT ![active] = TRUE]
        /\ UNCHANGED <<running, active, status, answer, task, conn, outcome>>
    BY <1>2 DEF ArriveBusy
  <2>2. /\ throw' \in {throw, [throw EXCEPT ![active] = TRUE]}
        /\ \/ handler' = [handler EXCEPT ![r] = "polling"]
           \/ handler' = [handler EXCEPT ![r] = "waiting"]
        /\ victim' = [victim EXCEPT ![r] = active]
    BY <1>2 DEF ArriveBusy
  <2>3. /\ aimed' \in [Requests -> BOOLEAN]
        /\ throw' \in [Requests -> BOOLEAN]
    BY <2>1, <2>2
  <2>4. TypeOK'
    BY <2>1, <2>2, <2>3
  <2>5. aimed'[active] /\ \A s \in Requests : aimed[s] => aimed'[s]
    BY <2>1
  <2>6. CancelsAimed' /\ NoStrayCancel'
    BY <2>1, <2>2, <2>5
  <2>7. NoJobYet' /\ LiveIsActive' /\ BusyForAReason' /\ NoLeakedConnection'
    BY <2>1, <2>2
  <2> QED
    BY <2>4, <2>6, <2>7
<1>3. ASSUME NEW r \in Requests, WaitOver(r) PROVE JobInv'
  BY <1>3 DEF WaitOver
<1>4. ASSUME NEW r \in Requests, PollOver(r) PROVE JobInv'
  BY <1>4 DEF PollOver
<1>5. ASSUME NEW r \in Requests, StartFails(r) PROVE JobInv'
  BY <1>5 DEF StartFails
<1>6. ASSUME NEW r \in Requests, StartConflict(r) PROVE JobInv'
  BY <1>6 DEF StartConflict
<1>7. ASSUME NEW r \in Requests, StartJob(r) PROVE JobInv'
  BY <1>7 DEF StartJob, Free, Cleared
<1>8. ASSUME NEW r \in Requests, TaskBegins(r) PROVE JobInv'
  BY <1>8 DEF TaskBegins
<1>9. ASSUME NEW r \in Requests, TaskNeverRuns(r) PROVE JobInv'
  BY <1>9 DEF TaskNeverRuns
<1>10. ASSUME NEW r \in Requests, DownloadReturns(r) PROVE JobInv'
  <2>1. PICK result \in {"completed", "cancelled"} :
           Finally(r, result) /\ (result = "cancelled" => event)
    BY <1>10 DEF DownloadReturns
  <2> QED
    BY <1>10, <2>1, FinallyStep DEF DownloadReturns
<1>11. ASSUME NEW r \in Requests, DownloadRaises(r) PROVE JobInv'
  BY <1>11, FinallyStep DEF DownloadRaises
<1>12. ASSUME NEW r \in Requests, DownloadCancelled(r) PROVE JobInv'
  BY <1>12, FinallyStep DEF DownloadCancelled
<1>13. CASE CancelJob
  BY <1>13 DEF CancelJob
<1> QED
  BY <1>1, <1>2, <1>3, <1>4, <1>5, <1>6, <1>7, <1>8, <1>9, <1>10, <1>11,
     <1>12, <1>13
     DEF Next, HandlerStep, TaskStep

LEMMA JobAlways == Spec => []JobInv
<1>1. JobInv /\ [Next]_vars => JobInv'
  <2>1. CASE UNCHANGED vars
    BY <2>1
       DEF vars, manager, handlers, jobs, JobInv, TypeOK, NoJobYet,
           LiveIsActive, CancelsAimed, BusyForAReason, NoStrayCancel,
           NoLeakedConnection, Live
  <2> QED
    BY <2>1, JobStep
<1> QED
  BY <1>1, InitJobInv, PTL DEF Spec

\* The manager's state, its handlers and its tasks keep their types.
THEOREM TypeCorrect == Spec => []TypeOK
<1>1. JobInv => TypeOK
  BY DEF JobInv
<1> QED
  BY <1>1, JobAlways, PTL

\* At most one job is alive, the one shown, whatever start and cancel requests
\* overlap at their awaits.
THEOREM AtMostOneJob == Spec => []OneJob
<1>1. JobInv => OneJob
  BY DEF JobInv, LiveIsActive, OneJob
<1> QED
  BY <1>1, JobAlways, PTL

\* A job that ends as cancelled was asked to: cancelling never hits the next
\* job, although all jobs share one event.
THEOREM CancelsHitTheirJob == Spec => []NoStrayCancel
<1>1. JobInv => NoStrayCancel
  BY DEF JobInv
<1> QED
  BY <1>1, JobAlways, PTL

\* The manager stays busy after its job only when the job's task was cancelled
\* before its first step.
THEOREM BusyExplained == Spec => []BusyForAReason
<1>1. JobInv => BusyForAReason
  BY DEF JobInv
<1> QED
  BY <1>1, JobAlways, PTL

\* A connection outlives its job only in the same case.
THEOREM LeftoversExplained == Spec => []NoLeakedConnection
<1>1. JobInv => NoLeakedConnection
  BY DEF JobInv
<1> QED
  BY <1>1, JobAlways, PTL
=============================================================================
