---------------------------- MODULE SttScheduler ----------------------------
(***************************************************************************)
(* The shared speech-to-text scheduler (schedulers/stt.py): one worker,    *)
(* final transcriptions before partial ones, round-robin over sessions.    *)
(*                                                                         *)
(* A session queues at most one job of each class: its turn worker awaits  *)
(* one final at a time and submit_partial refuses a second partial. So the *)
(* deques of _final and _partial are sets of sessions here.                *)
(***************************************************************************)
EXTENDS Naturals, FiniteSets

CONSTANTS
  NumSessions,  \* the sessions, in the order of their ids
  MaxJobs,      \* max_jobs
  Partial       \* bound: the sessions whose audio is transcribed partially

Sessions == 1..NumSessions

ASSUME SttAssumption ==
  NumSessions \in Nat \ {0} /\ MaxJobs \in Nat \ {0} /\ Partial \subseteq Sessions

Classes == {"final", "partial"}

VARIABLES
  queue,    \* _final and _partial: the sessions with a queued job, per class
  active,   \* _active: the class and session of the running job
  waiter,   \* the future of the last job of a session and class
  outdated, \* sessions with a partial job that later speech has outdated
  last,     \* _last_final_session, _last_partial_session; 0 for None
  worker,   \* the worker task: waiting, running, stopped
  closed,   \* _closed
  release   \* how far the drain of a session has come; it begins with _draining

vars == <<queue, active, waiter, outdated, last, worker, closed, release>>

NoJob == [class |-> "none", session |-> 0]
Waiters == {"none", "pending", "result", "error", "cancelled"}

TypeOK ==
  /\ queue \in [Classes -> SUBSET Sessions]
  /\ active \in [class : Classes, session : Sessions] \cup {NoJob}
  /\ waiter \in [Classes -> [Sessions -> Waiters]]
  /\ outdated \in SUBSET Sessions
  /\ last \in [Classes -> 0..NumSessions]
  /\ worker \in {"waiting", "running", "stopped"}
  /\ closed \in BOOLEAN
  /\ release \in [Sessions -> {"no", "draining", "cancelled", "idle"}]

Init ==
  /\ queue = [c \in Classes |-> {}]
  /\ active = NoJob
  /\ waiter = [c \in Classes |-> [s \in Sessions |-> "none"]]
  /\ outdated = {}
  /\ last = [c \in Classes |-> 0]
  /\ worker = "waiting"
  /\ closed = FALSE
  /\ release = [s \in Sessions |-> "no"]

QueuedCount == Cardinality(queue["final"]) + Cardinality(queue["partial"])

Running(c, s) == active = [class |-> c, session |-> s]

\* Nothing of this class is left of the session, so it may submit again.
Free(c, s) == s \notin queue[c] /\ ~Running(c, s) /\ waiter[c][s] # "pending"

-----------------------------------------------------------------------------
(* The pipelines.                                                          *)

Enqueue(c, s) ==
  /\ queue' = [queue EXCEPT ![c] = @ \cup {s}]
  /\ waiter' = [waiter EXCEPT ![c][s] = "pending"]
  /\ outdated' = IF c = "partial" THEN outdated \ {s} ELSE outdated
  /\ UNCHANGED <<active, last, worker, closed, release>>

\* submit_final. A closed or full scheduler raises and changes nothing.
SubmitFinal(s) ==
  /\ release[s] \in {"no", "draining"} /\ Free("final", s)
  /\ ~closed
  /\ QueuedCount < MaxJobs
  /\ Enqueue("final", s)

\* submit_partial: dropped unless the scheduler has nothing better to do.
PartialWelcome(s) ==
  /\ active = NoJob
  /\ QueuedCount < MaxJobs
  /\ queue["final"] = {}
  /\ s \notin queue["partial"]

SubmitPartial(s) ==
  /\ s \in Partial
  /\ release[s] \in {"no", "draining"} /\ Free("partial", s)
  /\ ~closed
  /\ PartialWelcome(s)
  /\ Enqueue("partial", s)

\* The task that awaits a job is cancelled: its future is, the job stays. Only the
\* drain cancels the worker of completed turns, which awaits finals.
WaiterLeaves(c, s) ==
  /\ waiter[c][s] = "pending"
  /\ c = "final" => release[s] = "draining"
  /\ waiter' = [waiter EXCEPT ![c][s] = "cancelled"]
  /\ UNCHANGED <<queue, active, outdated, last, worker, closed, release>>

\* Speech goes on or stops: the partial that is under way is of the past.
PartialOutdated(s) ==
  /\ s \in queue["partial"] \/ Running("partial", s)
  /\ s \notin outdated
  /\ outdated' = outdated \cup {s}
  /\ UNCHANGED <<queue, active, waiter, last, worker, closed, release>>

\* drain() sets _draining, and ends the tasks that may still submit.
DrainBegins(s) ==
  /\ release[s] = "no"
  /\ release' = [release EXCEPT ![s] = "draining"]
  /\ UNCHANGED <<queue, active, waiter, outdated, last, worker, closed>>

\* is_stale() of a job.
Stale(c, s) == release[s] # "no" \/ (c = "partial" /\ s \in outdated)

\* Mutant: only the finals are dropped.
CancelFinals(s) ==
  /\ release[s] = "draining"
  /\ release' = [release EXCEPT ![s] = "cancelled"]
  /\ queue' = [queue EXCEPT !["final"] = @ \ {s}]
  /\ waiter' = [waiter EXCEPT !["final"][s] = IF @ = "pending" THEN "cancelled" ELSE @]
  /\ UNCHANGED <<active, outdated, last, worker, closed>>

\* cancel_session: the queued jobs go, their futures are cancelled.
CancelSession(s) ==
  /\ release[s] = "draining"
  /\ release' = [release EXCEPT ![s] = "cancelled"]
  /\ waiter' = [c \in Classes |->
       [waiter[c] EXCEPT ![s] = IF s \in queue[c] /\ @ = "pending" THEN "cancelled" ELSE @]]
  /\ queue' = [c \in Classes |-> queue[c] \ {s}]
  /\ UNCHANGED <<active, outdated, last, worker, closed>>

\* Mutant: the running job is not waited for.
IdleQueues(s) == \A c \in Classes : s \notin queue[c]

\* The predicate of wait_session_idle.
SessionIdle(s) == active.session # s /\ \A c \in Classes : s \notin queue[c]

SessionIsIdle(s) ==
  /\ release[s] = "cancelled"
  /\ SessionIdle(s)
  /\ release' = [release EXCEPT ![s] = "idle"]
  /\ UNCHANGED <<queue, active, waiter, outdated, last, worker, closed>>

-----------------------------------------------------------------------------
(* The worker: _run.                                                       *)

\* Mutant: always the first session in order.
FirstSession(c, s) == s \in queue[c] /\ \A t \in queue[c] : s <= t

\* _next_session: the one after `last` in id order, wrapping around; the first
\* when the last one has nothing queued any more.
NextSession(c, s) ==
  /\ s \in queue[c]
  /\ LET rest == {t \in queue[c] : last[c] \in queue[c] /\ t > last[c]}
     IN IF rest = {} THEN \A t \in queue[c] : s <= t
        ELSE s \in rest /\ \A t \in rest : s <= t

\* Mutant: the first class that has a job, partial ones included.
AnyClass(c) == queue[c] # {}

\* _next_job: finals first.
NextClass(c) == queue[c] # {} /\ (c = "partial" => queue["final"] = {})

WorkerTakes(c, s) ==
  /\ worker = "waiting" /\ ~closed
  /\ NextClass(c) /\ NextSession(c, s)
  /\ queue' = [queue EXCEPT ![c] = @ \ {s}]
  /\ last' = [last EXCEPT ![c] = s]
  /\ active' = [class |-> c, session |-> s]
  /\ worker' = "running"
  /\ UNCHANGED <<waiter, outdated, closed, release>>

\* The future gets r unless its waiter has left.
Resolve(c, s, r) ==
  waiter' = [waiter EXCEPT ![c][s] = IF @ = "pending" THEN r ELSE @]

\* The inference returns or raises; staleness is looked at once more. The None of a
\* stale job cancels submit_final, and a partial is dropped.
JobEnds(c, s) ==
  /\ worker = "running" /\ Running(c, s)
  /\ \E r \in IF Stale(c, s) THEN {"cancelled", "error"} ELSE {"result", "error"} : Resolve(c, s, r)
  /\ active' = NoJob
  /\ worker' = "waiting"
  /\ outdated' = IF c = "partial" THEN outdated \ {s} ELSE outdated
  /\ UNCHANGED <<queue, last, closed, release>>

\* aclose: everything queued is cancelled, then the worker is, whatever it
\* awaits; its thread runs on unobserved.
Close ==
  /\ ~closed
  /\ closed' = TRUE
  /\ waiter' = [c \in Classes |-> [s \in Sessions |->
       IF s \in queue[c] /\ waiter[c][s] = "pending" THEN "cancelled" ELSE waiter[c][s]]]
  /\ queue' = [c \in Classes |-> {}]
  /\ UNCHANGED <<active, outdated, last, worker, release>>

\* The cancelled worker ends; the future of its job is cancelled.
WorkerStops ==
  /\ closed /\ worker # "stopped"
  /\ worker' = "stopped"
  /\ active' = NoJob
  /\ IF active = NoJob THEN UNCHANGED waiter ELSE Resolve(active.class, active.session, "cancelled")
  /\ UNCHANGED <<queue, outdated, last, closed, release>>

-----------------------------------------------------------------------------
Next ==
  \/ \E s \in Sessions :
       \/ SubmitFinal(s) \/ SubmitPartial(s) \/ PartialOutdated(s) \/ DrainBegins(s) \/ CancelSession(s) \/ SessionIsIdle(s)
       \/ \E c \in Classes :
            WaiterLeaves(c, s) \/ WorkerTakes(c, s) \/ JobEnds(c, s)
  \/ Close \/ WorkerStops

Spec == Init /\ [][Next]_vars

\* The worker task runs when it can and an inference returns. Nobody has to
\* submit, to leave or to close.
Fairness ==
  /\ WF_vars(\E c \in Classes, s \in Sessions : WorkerTakes(c, s) \/ JobEnds(c, s))
  /\ WF_vars(WorkerStops)
  /\ \A s \in Sessions : WF_vars(SessionIsIdle(s))

FairSpec == Spec /\ Fairness

-----------------------------------------------------------------------------
(* Properties.                                                             *)

\* No accepted job is lost: each future that is pending belongs to a job that
\* is queued or running, through cancellation, release and close.
PendingHasJob ==
  \A c \in Classes, s \in Sessions :
    waiter[c][s] = "pending" => s \in queue[c] \/ Running(c, s)

\* After wait_session_idle returned, the session never has work again, so its
\* slot may be reused (sessions.py returns it to idle then).
IdleIsFinal ==
  \A s \in Sessions, c \in Classes :
    release[s] = "idle" => s \notin queue[c] /\ ~Running(c, s)

\* The inductive invariant behind the two (SttSchedulerProofs): the worker holds
\* a job exactly while it runs one.
IInv ==
  /\ TypeOK
  /\ worker = "running" <=> active # NoJob
  /\ PendingHasJob
  /\ IdleIsFinal

\* Every accepted final is answered, unless two sessions with smaller ids go on
\* submitting finals for ever: _next_session starts again at the smallest id when
\* the session served last has nothing queued. One such session alone cannot keep
\* a later one waiting. (A partial may wait for ever behind finals.)
FinalsAnswered ==
  \A s \in Sessions :
    (\E r \in 1..s : <>[][\A t \in 1..(s - 1) \ {r} : ~SubmitFinal(t)]_vars) =>
      (waiter["final"][s] = "pending" ~> waiter["final"][s] # "pending")

\* docs/architecture.md:57 has STT "round-robin across sessions", so that every
\* accepted final would be answered whoever else submits: it is not with three.
EveryFinalAnswered ==
  \A s \in Sessions : waiter["final"][s] = "pending" ~> waiter["final"][s] # "pending"

\* A released session becomes idle, so that its drain ends: what it left behind
\* cannot be starved by the sessions that go on (submit, cancel_session, _run,
\* wait_session_idle; sessions.py waits for it).
ReleaseEnds == \A s \in Sessions : release[s] = "cancelled" ~> release[s] = "idle"
=============================================================================
