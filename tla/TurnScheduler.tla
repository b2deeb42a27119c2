---------------------------- MODULE TurnScheduler ----------------------------
(***************************************************************************)
(* The shared scheduler of smart-turn verdicts (schedulers/turn.py): one   *)
(* worker task, created when a job arrives and gone when none is left.     *)
(*                                                                         *)
(* A pipeline ends its candidate task before it starts another, and a job  *)
(* leaves the queue with the task that awaits it. So a session has at most *)
(* one queued job, and _queues is the set of sessions that have one.       *)
(***************************************************************************)
EXTENDS Naturals, FiniteSets

CONSTANTS
  NumSessions,  \* the sessions, in the order of their ids
  MaxJobs       \* max_jobs

ASSUME TurnAssumption == NumSessions \in Nat \ {0} /\ MaxJobs \in Nat \ {0}

Sessions == 1..NumSessions
Verdicts == {"complete", "incomplete", "failed"}

VARIABLES
  queue,      \* _queues
  active,     \* the session of _active; 0 for None
  abandoned,  \* the future of the active job was cancelled
  worker,     \* _worker: none, looking for a job, predicting
  last,       \* _last_session; 0 for None
  waiter,     \* the future of the session's newest job
  release,    \* how far the drain of a session has come
  closed      \* _closed

schedulerVars == <<queue, active, abandoned, worker, last, waiter, release, closed>>

SchedulerTypeOK ==
  /\ queue \in SUBSET Sessions
  /\ active \in 0..NumSessions
  /\ abandoned \in BOOLEAN
  /\ worker \in {"none", "looking", "predicting"}
  /\ last \in 0..NumSessions
  /\ waiter \in [Sessions -> {"none", "pending", "stale", "cancelled"} \cup Verdicts]
  /\ release \in [Sessions -> {"no", "cancelled", "idle"}]
  /\ closed \in BOOLEAN

SchedulerInit ==
  /\ queue = {}
  /\ active = 0
  /\ abandoned = FALSE
  /\ worker = "none"
  /\ last = 0
  /\ waiter = [s \in Sessions |-> "none"]
  /\ release = [s \in Sessions |-> "no"]
  /\ closed = FALSE

-----------------------------------------------------------------------------
(* The pipelines.                                                          *)

\* Mutant: only the first job ever creates the worker.
WorkerOnce == IF worker = "none" /\ last = 0 THEN "looking" ELSE worker

\* submit creates the worker when there is none.
WorkerFor == IF worker = "none" THEN "looking" ELSE worker

\* submit: raises when closed or full, else the caller waits.
Submit(s) ==
  /\ waiter[s] # "pending"
  /\ IF closed \/ Cardinality(queue) >= MaxJobs
     THEN /\ waiter' = [waiter EXCEPT ![s] = "failed"]
          /\ UNCHANGED <<queue, worker>>
     ELSE /\ waiter' = [waiter EXCEPT ![s] = "pending"]
          /\ queue' = queue \cup {s}
          /\ worker' = WorkerFor
  /\ UNCHANGED <<active, abandoned, last, release, closed>>

\* submit is cancelled at its await: the job leaves the queue, a running one
\* loses its future.
WaiterLeaves(s) ==
  /\ waiter' = [waiter EXCEPT ![s] = "none"]
  /\ queue' = queue \ {s}
  /\ abandoned' = (abandoned \/ (active = s /\ s \notin queue))
  /\ UNCHANGED <<active, worker, last, release, closed>>

\* cancel_session: the queued job goes, its future is cancelled.
CancelSession(s) ==
  /\ release[s] = "no"
  /\ release' = [release EXCEPT ![s] = "cancelled"]
  /\ queue' = queue \ {s}
  /\ waiter' = [waiter EXCEPT ![s] = IF s \in queue THEN "cancelled" ELSE @]
  /\ UNCHANGED <<active, abandoned, worker, last, closed>>

\* Mutant: the running job is not waited for.
NotQueued(s) == s \notin queue

\* The predicate of wait_session_idle.
SessionIdle(s) == s \notin queue /\ active # s

SessionIsIdle(s) ==
  /\ release[s] = "cancelled"
  /\ SessionIdle(s)
  /\ release' = [release EXCEPT ![s] = "idle"]
  /\ UNCHANGED <<queue, active, abandoned, worker, last, waiter, closed>>

\* aclose, after every session has been released.
Close ==
  /\ ~closed /\ \A s \in Sessions : release[s] = "idle"
  /\ closed' = TRUE
  /\ waiter' = [s \in Sessions |-> IF s \in queue THEN "cancelled" ELSE waiter[s]]
  /\ queue' = {}
  /\ UNCHANGED <<active, abandoned, worker, last, release>>

-----------------------------------------------------------------------------
(* The worker: _run.                                                       *)

\* _next_job: the session after the last one in the order of the ids, or the
\* first when the last one has nothing queued.
NextSession(s) ==
  LET rank(t) == IF last \in queue /\ t <= last THEN t + NumSessions ELSE t
  IN  s \in queue /\ \A t \in queue : rank(s) <= rank(t)

\* A stale job is answered with None at once, any other one is predicted.
Take(s, stale) ==
  /\ worker = "looking"
  /\ NextSession(s)
  /\ queue' = queue \ {s}
  /\ last' = s
  /\ IF stale
     THEN /\ waiter' = [waiter EXCEPT ![s] = "stale"]
          /\ UNCHANGED <<active, worker>>
     ELSE /\ active' = s
          /\ worker' = "predicting"
          /\ UNCHANGED waiter
  /\ abandoned' = FALSE
  /\ UNCHANGED <<release, closed>>

\* predict_pcm16 has returned or raised: the worker looks for staleness again.
Predicted(verdict, stale) ==
  /\ worker = "predicting"
  /\ waiter' = [waiter EXCEPT ![active] =
       IF abandoned THEN @ ELSE IF stale /\ verdict # "failed" THEN "stale" ELSE verdict]
  /\ active' = 0
  /\ abandoned' = FALSE
  /\ worker' = "looking"
  /\ UNCHANGED <<queue, last, release, closed>>

\* Nothing is queued: the worker forgets itself, under the lock, and returns.
WorkerEnds ==
  /\ worker = "looking" /\ queue = {}
  /\ worker' = "none"
  /\ UNCHANGED <<queue, active, abandoned, last, waiter, release, closed>>

-----------------------------------------------------------------------------
\* A queued job has a worker, however often the worker has come and gone, and
\* an awaited job is queued or running (schedulers/turn.py:65-82, 116-133).
JobsHaveWorker ==
  /\ queue # {} => worker # "none"
  /\ active # 0 <=> worker = "predicting"
  /\ \A s \in Sessions :
       waiter[s] = "pending" => s \in queue \/ (active = s /\ ~abandoned)

\* What wait_session_idle has seen stays so: no verdict is computed for a
\* session whose slot went to another one (schedulers/turn.py:93-100).
ReleasedIsIdle ==
  \A s \in Sessions : release[s] = "idle" => s \notin queue /\ active # s

SchedulerInv == SchedulerTypeOK /\ JobsHaveWorker /\ ReleasedIsIdle
=============================================================================
