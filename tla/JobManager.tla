----------------------------- MODULE JobManager -----------------------------
(***************************************************************************)
(* One JobManager (job_manager.py) and the handlers of routes_jobs.py that *)
(* start and cancel its download jobs.  All of them are coroutines of one  *)
(* asyncio loop: an action is what runs between two suspensions.  The      *)
(* manager's asyncio.Lock is never held across a suspension, so taking it  *)
(* never waits and it does not appear here.                                *)
(*                                                                         *)
(* A start request that is accepted makes one job, which bears its name.   *)
(***************************************************************************)
EXTENDS Integers, FiniteSets

CONSTANTS
    Requests,   \* POST /api/download/start requests
    Nobody      \* the None of _active_job_id and _active_task

ASSUME JobManagerAssumption == Nobody \notin Requests

VARIABLES
    running,    \* _is_running
    active,     \* _active_job_id and _active_task, set and cleared together
    event,      \* _cancel_event
    status,     \* _snapshot["status"]
    handler,    \* where the handler of each request is
    victim,     \* the task cancel_job_async took hold of, per request
    answer,     \* what the request was answered
    task,       \* the asyncio task of each job
    throw,      \* task.cancel() was called on it
    conn,       \* its manifest connection
    aimed,      \* history: the job was asked to cancel
    outcome     \* history: how the job's task ended

manager == <<running, active, event, status>>
handlers == <<handler, victim, answer>>
jobs == <<task, throw, conn, outcome>>
vars == <<manager, handlers, jobs, aimed>>

Outcomes == {"none", "completed", "cancelled", "failed", "never_ran"}

Init ==
    /\ running = FALSE /\ active = Nobody /\ event = FALSE /\ status = "idle"
    /\ handler = [r \in Requests |-> "none"]
    /\ victim = [r \in Requests |-> Nobody]
    /\ answer = [r \in Requests |-> "none"]
    /\ task = [r \in Requests |-> "none"]
    /\ throw = [r \in Requests |-> FALSE]
    /\ conn = [r \in Requests |-> "none"]
    /\ aimed = [r \in Requests |-> FALSE]
    /\ outcome = [r \in Requests |-> "none"]

-----------------------------------------------------------------------------
(* start_download, up to its first await.                                  *)

\* No job is running: the handler goes on to the client and the target.
ArriveIdle(r) ==
    /\ handler[r] = "none" /\ ~running
    /\ handler' = [handler EXCEPT ![r] = "resolving"]
    /\ UNCHANGED <<manager, victim, answer, jobs, aimed>>

\* A job is running: cancel_job_async sets the event and cancels its task,
\* unless that is done already, and the handler waits for it.
ArriveBusy(r) ==
    /\ handler[r] = "none" /\ running
    /\ event' = TRUE
    /\ aimed' = [aimed EXCEPT ![active] = TRUE]
    /\ victim' = [victim EXCEPT ![r] = active]
    /\ IF task[active] = "done"
         THEN throw' = throw /\ handler' = [handler EXCEPT ![r] = "polling"]
         ELSE /\ throw' = [throw EXCEPT ![active] = TRUE]
              /\ handler' = [handler EXCEPT ![r] = "waiting"]
    /\ UNCHANGED <<running, active, status, answer, task, conn, outcome>>

\* wait_for(shield(task), timeout): the task has ended, or five seconds have
\* passed, long after the loop has given the task its first step.
WaitOver(r) ==
    /\ handler[r] = "waiting" /\ task[victim[r]] # "scheduled"
    /\ handler' = [handler EXCEPT ![r] = "polling"]
    /\ UNCHANGED <<manager, victim, answer, jobs, aimed>>

\* The loop that looks at _is_running every 0.1 s, up to its deadline.
PollOver_NoDeadline(r) ==
    /\ handler[r] = "polling" /\ ~running
    /\ handler' = [handler EXCEPT ![r] = "resolving"]
    /\ UNCHANGED <<manager, victim, answer, jobs, aimed>>
PollOver(r) ==
    /\ handler[r] = "polling"
    /\ handler' = [handler EXCEPT ![r] = "resolving"]
    /\ UNCHANGED <<manager, victim, answer, jobs, aimed>>

-----------------------------------------------------------------------------
(* start_download after its awaits: no client, no connection or no such    *)
(* target; a job that runs meanwhile (409); or a new job.                  *)

StartFails(r) ==
    /\ handler[r] = "resolving"
    /\ handler' = [handler EXCEPT ![r] = "answered"]
    /\ answer' = [answer EXCEPT ![r] = "error"]
    /\ UNCHANGED <<manager, victim, jobs, aimed>>

StartConflict(r) ==
    /\ handler[r] = "resolving" /\ running
    /\ handler' = [handler EXCEPT ![r] = "answered"]
    /\ answer' = [answer EXCEPT ![r] = "conflict"]
    /\ conn' = [conn EXCEPT ![r] = "closed"]
    /\ UNCHANGED <<manager, victim, task, throw, outcome, aimed>>

Free_Anyway == TRUE
Free == ~running

\* _cancel_event.clear() of start_job.
Cleared_Forgotten == event
Cleared == FALSE

StartJob(r) ==
    /\ handler[r] = "resolving" /\ Free
    /\ running' = TRUE /\ active' = r /\ event' = Cleared
    /\ status' = "running"
    /\ conn' = [conn EXCEPT ![r] = "open"]
    /\ task' = [task EXCEPT ![r] = "scheduled"]
    /\ handler' = [handler EXCEPT ![r] = "answered"]
    /\ answer' = [answer EXCEPT ![r] = "started"]
    /\ UNCHANGED <<victim, throw, outcome, aimed>>

\* POST /api/download/cancel.
CancelJob ==
    /\ running
    /\ event' = TRUE
    /\ aimed' = [aimed EXCEPT ![active] = TRUE]
    /\ UNCHANGED <<running, active, status, handlers, jobs>>

-----------------------------------------------------------------------------
(* _run_job.                                                               *)

\* The first step of the task enters the coroutine, unless cancel() came
\* first: then asyncio raises CancelledError before its first line, and
\* neither its except clauses nor its finally block run.
TaskBegins(r) ==
    /\ task[r] = "scheduled" /\ ~throw[r]
    /\ task' = [task EXCEPT ![r] = "body"]
    /\ UNCHANGED <<manager, handlers, throw, conn, outcome, aimed>>

TaskNeverRuns(r) ==
    /\ task[r] = "scheduled" /\ throw[r]
    /\ task' = [task EXCEPT ![r] = "done"]
    /\ outcome' = [outcome EXCEPT ![r] = "never_ran"]
    /\ UNCHANGED <<manager, handlers, throw, conn, aimed>>

\* The except clause that applies, then the finally block.
Finally_KeepsConnection(r, result) ==
    /\ status' = result
    /\ outcome' = [outcome EXCEPT ![r] = result]
    /\ task' = [task EXCEPT ![r] = "done"]
    /\ running' = FALSE /\ active' = Nobody
    /\ UNCHANGED <<event, handlers, throw, conn, aimed>>
Finally_KeepsFlag(r, result) ==
    /\ status' = result
    /\ outcome' = [outcome EXCEPT ![r] = result]
    /\ task' = [task EXCEPT ![r] = "done"]
    /\ conn' = [conn EXCEPT ![r] = "closed"]
    /\ UNCHANGED <<running, active, event, handlers, throw, aimed>>
Finally(r, result) ==
    /\ status' = result
    /\ outcome' = [outcome EXCEPT ![r] = result]
    /\ task' = [task EXCEPT ![r] = "done"]
    /\ conn' = [conn EXCEPT ![r] = "closed"]
    /\ running' = FALSE /\ active' = Nobody
    /\ UNCHANGED <<event, handlers, throw, aimed>>

DownloadReturns(r) ==
    /\ task[r] = "body" /\ ~throw[r]
    /\ Finally(r, IF event THEN "cancelled" ELSE "completed")

DownloadRaises_OtherStatus(r) ==
    /\ task[r] = "body" /\ ~throw[r]
    /\ Finally(r, "error")
DownloadRaises(r) ==
    /\ task[r] = "body" /\ ~throw[r]
    /\ Finally(r, "failed")

\* CancelledError, from task.cancel() or, once the event is set, from the
\* progress callback.
DownloadCancelled(r) ==
    /\ task[r] = "body" /\ (throw[r] \/ event)
    /\ Finally(r, "cancelled")

TaskStep(r) ==
    \/ TaskBegins(r) \/ TaskNeverRuns(r)
    \/ DownloadReturns(r) \/ DownloadRaises(r) \/ DownloadCancelled(r)

HandlerStep(r) ==
    WaitOver(r) \/ PollOver(r) \/ StartFails(r) \/ StartConflict(r) \/ StartJob(r)

Next ==
    \/ \E r \in Requests :
          ArriveIdle(r) \/ ArriveBusy(r) \/ HandlerStep(r) \/ TaskStep(r)
    \/ CancelJob

Spec == Init /\ [][Next]_vars

\* The loop runs what is ready and its timers fire; a download ends by itself
\* (EveryRunEnds of Downloader, whose awaits end by the client's timeouts).
Fairness == \A r \in Requests : WF_vars(HandlerStep(r)) /\ WF_vars(TaskStep(r))
FairSpec == Spec /\ Fairness

-----------------------------------------------------------------------------
TypeOK ==
    /\ running \in BOOLEAN /\ active \in Requests \union {Nobody}
    /\ event \in BOOLEAN
    /\ status \in {"idle", "running", "completed", "cancelled", "failed"}
    /\ handler \in [Requests -> {"none", "waiting", "polling", "resolving", "answered"}]
    /\ victim \in [Requests -> Requests \union {Nobody}]
    /\ answer \in [Requests -> {"none", "error", "conflict", "started"}]
    /\ task \in [Requests -> {"none", "scheduled", "body", "done"}]
    /\ throw \in [Requests -> BOOLEAN]
    /\ conn \in [Requests -> {"none", "open", "closed"}]
    /\ aimed \in [Requests -> BOOLEAN]
    /\ outcome \in [Requests -> Outcomes]

Live(r) == task[r] \in {"scheduled", "body"}

\* Whatever requests overlap, at most one job is alive, it is the one the
\* manager shows, and its connection is open: two downloads never share the
\* output directory and its manifest.
OneJob ==
    /\ \A r \in Requests : Live(r) => running /\ active = r /\ conn[r] = "open"
    /\ \A r, s \in Requests : Live(r) /\ Live(s) => r = s

\* The manager is busy for a job that lives, or for one whose task was
\* cancelled before its first step, and for no other.
BusyForAReason ==
    running => /\ active \in Requests
               /\ Live(active) \/ outcome[active] = "never_ran"

\* A job that reports "cancelled" was itself asked to: a cancel aimed at an
\* earlier job never reaches the next one through the shared event.
NoStrayCancel ==
    \A r \in Requests : outcome[r] = "cancelled" => aimed[r]

\* The connection of a request is open only for its live job, except when
\* that job's task was cancelled before its first step.
NoLeakedConnection ==
    \A r \in Requests :
        conn[r] = "open" => Live(r) \/ outcome[r] = "never_ran"

\* Every start request is answered, even while an earlier job will not end.
AllAnswered ==
    \A r \in Requests : (handler[r] = "waiting") ~> (handler[r] = "answered")

\* cancel_job_async: "Cancel the active job and wait for it to finish"; once a
\* job was asked to cancel, _is_running clears.
CancelledJobsClear ==
    \A r \in Requests : (active = r /\ aimed[r]) ~> (active # r)
=============================================================================
