---------------------------- MODULE TtsScheduler ----------------------------
(***************************************************************************)
(* The shared text-to-speech scheduler (schedulers/tts.py) with the        *)
(* non-reentrant runtime of each worker (runtimes/qwen_tts.py).            *)
(*                                                                         *)
(* A session has one generation at a time; its speech task awaits one      *)
(* segment before it submits the next, but a job whose waiter was          *)
(* cancelled stays queued until it is dropped or found stale. Responses    *)
(* shows why the generations of a session do not overlap.                  *)
(***************************************************************************)
EXTENDS Naturals, FiniteSets, Sequences, SequencesExt, FiniteSetsExt

CONSTANTS
  Sessions,  \* session ids
  Workers,   \* one worker per runtime
  MaxJobs,   \* max_jobs
  MaxGens,   \* bound: the generations of a session
  MaxQueue,  \* bound: the queued segments of a session
  Faults     \* a subset of {"runtime", "frame"}: which of them may raise

ASSUME TtsAssumption ==
  /\ "none" \notin Sessions
  /\ MaxGens \in Nat /\ MaxQueue \in Nat \ {0}
  /\ MaxJobs \in Nat /\ MaxJobs >= Cardinality(Workers)
  /\ Faults \subseteq {"runtime", "frame"}

VARIABLES
  gen,      \* the newest generation of a session; 0 before the first
  live,     \* cancellation.is_current(its token)
  waiter,   \* the future the speech task of a session awaits, or how it ended
  queue,    \* _queues; an absent key is the empty sequence
  order,    \* _session_order
  active,   \* _active: the job of each worker, with its session
  worker,   \* where a worker task is: waiting, begun, streaming, stopped
  runtime,  \* its runtime: idle, active, closing (an abandoned iterator)
  release,  \* sessions whose drain awaits, or has seen, them idle
  closed    \* _closed

vars == <<gen, live, waiter, queue, order, active, worker, runtime, release, closed>>

NoJob == [session |-> "none", gen |-> 0, final |-> FALSE, awaited |-> FALSE]
Jobs == [session : Sessions, gen : 1..MaxGens, final : BOOLEAN, awaited : BOOLEAN]

TypeOK ==
  /\ gen \in [Sessions -> 0..MaxGens]
  /\ live \in [Sessions -> BOOLEAN]
  /\ waiter \in [Sessions -> {"none", "pending", "done", "failed", "refused", "cancelled"}]
  /\ queue \in [Sessions -> Seq(Jobs)]
  /\ \A s \in Sessions : Len(queue[s]) <= MaxQueue
  /\ order \in Seq(Sessions)
  /\ active \in [Workers -> Jobs \cup {NoJob}]
  /\ worker \in [Workers -> {"waiting", "begun", "streaming", "stopped"}]
  /\ runtime \in [Workers -> {"idle", "active", "closing"}]
  /\ release \in [Sessions -> {"no", "waiting", "idle"}]
  /\ closed \in BOOLEAN

Init ==
  /\ gen = [s \in Sessions |-> 0]
  /\ live = [s \in Sessions |-> FALSE]
  /\ waiter = [s \in Sessions |-> "none"]
  /\ queue = [s \in Sessions |-> <<>>]
  /\ order = <<>>
  /\ active = [w \in Workers |-> NoJob]
  /\ worker = [w \in Workers |-> "waiting"]
  /\ runtime = [w \in Workers |-> "idle"]
  /\ release = [s \in Sessions |-> "no"]
  /\ closed = FALSE

ActiveSessions == {active[w].session : w \in Workers} \ {"none"}

Queued == {s \in Sessions : queue[s] # <<>>}

JobCount ==
  FoldSet(LAMBDA s, n : n + Len(queue[s]), 0, Sessions)
    + Cardinality({w \in Workers : active[w] # NoJob})

IsCurrent(job) == live[job.session] /\ gen[job.session] = job.gen

-----------------------------------------------------------------------------
(* The pipelines.                                                          *)

\* cancellation.start: the next generation of the session.
GenerationStarts(s) ==
  /\ release[s] = "no" /\ ~live[s] /\ waiter[s] # "pending"
  /\ gen[s] < MaxGens
  /\ gen' = [gen EXCEPT ![s] = @ + 1]
  /\ live' = [live EXCEPT ![s] = TRUE]
  /\ waiter' = [waiter EXCEPT ![s] = "none"]
  /\ UNCHANGED <<queue, order, active, worker, runtime, release, closed>>

\* synthesize: raises when closed or full, else the speech task waits.
Synthesize(s, final) ==
  /\ live[s] /\ waiter[s] \in {"none", "done"}
  /\ Len(queue[s]) < MaxQueue
  /\ ~closed
  /\ JobCount < MaxJobs
  /\ queue' = [queue EXCEPT ![s] = Append(@,
       [session |-> s, gen |-> gen[s], final |-> final, awaited |-> TRUE])]
  /\ order' = IF Contains(order, s) THEN order ELSE Append(order, s)
  /\ waiter' = [waiter EXCEPT ![s] = "pending"]
  /\ UNCHANGED <<gen, live, active, worker, runtime, release, closed>>

\* The generation completes, fails or is cancelled: its token is invalid, and
\* the speech task that still awaits a job is cancelled with it.
GenerationEnds(s) ==
  /\ live[s]
  /\ live' = [live EXCEPT ![s] = FALSE]
  /\ waiter' = [waiter EXCEPT ![s] = IF @ = "pending" THEN "cancelled" ELSE @]
  /\ queue' = [queue EXCEPT ![s] = [i \in DOMAIN @ |-> [@[i] EXCEPT !.awaited = FALSE]]]
  /\ active' = [w \in Workers |-> IF active[w].session = s
                THEN [active[w] EXCEPT !.awaited = FALSE] ELSE active[w]]
  /\ UNCHANGED <<gen, order, worker, runtime, release, closed>>

\* _drop_session_queue: a session without queued jobs leaves the order.
DropSessionQueue(q, o, s) == IF q[s] = <<>> THEN RemoveFirst(o, s) ELSE o

\* The jobs of q at the places in I, in their order.
SelectPlaces(q, I) ==
  [j \in 1..Cardinality(I) |-> q[CHOOSE i \in I : Cardinality({k \in I : k <= i}) = j]]

\* Mutant: the whole queue of the session goes.
RetainNone(s, g) == <<>>

Retained(s, g) == SelectPlaces(queue[s], {i \in DOMAIN queue[s] : queue[s][i].gen # g})

\* cancel_generation, some time after the token was invalidated: the session may
\* be in its next generation already (Responses, OneOpenResponse).
CancelGeneration(s, g) ==
  /\ g < gen[s] \/ (g = gen[s] /\ ~live[s])
  /\ queue' = [queue EXCEPT ![s] = Retained(s, g)]
  /\ order' = DropSessionQueue(queue', order, s)
  /\ UNCHANGED <<gen, live, waiter, active, worker, runtime, release, closed>>

\* The end of pipeline.drain: the response is over, wait_session_idle begins.
DrainWaits(s) ==
  /\ release[s] = "no" /\ ~live[s]
  /\ release' = [release EXCEPT ![s] = "waiting"]
  /\ UNCHANGED <<gen, live, waiter, queue, order, active, worker, runtime, closed>>

\* The predicate of wait_session_idle.
SessionIdle(s) == s \notin ActiveSessions /\ s \notin Queued

SessionIsIdle(s) ==
  /\ release[s] = "waiting"
  /\ SessionIdle(s)
  /\ release' = [release EXCEPT ![s] = "idle"]
  /\ UNCHANGED <<gen, live, waiter, queue, order, active, worker, runtime, closed>>

-----------------------------------------------------------------------------
(* A worker: _run_worker and _execute_job.                                 *)

Runnable(s) == s \in Queued /\ s \notin ActiveSessions

HasRunnableJob == \E s \in Sessions : Runnable(s)

\* Mutant: whatever is next in the order, filler or not.
FirstRunnable(i) == Runnable(order[i]) /\ \A j \in 1..(i - 1) : ~Runnable(order[j])

\* _next_job selects the session at place i: the first runnable one with a
\* final segment at its head, or else the first runnable one.
Selects(i) ==
  LET Final(j) == Runnable(order[j]) /\ queue[order[j]][1].final
      Runs(j) == Runnable(order[j])
  IN \/ Final(i) /\ \A j \in 1..(i - 1) : ~Final(j)
     \/ Runs(i) /\ (\A j \in 1..(i - 1) : ~Runs(j)) /\ \A j \in DOMAIN order : ~Final(j)

\* Mutant: the order is not rotated.
NotRotated(i) == order

\* rotate(-1) once for each place looked at, the selected one included.
Rotated(i) == SubSeq(order, i + 1, Len(order)) \o SubSeq(order, 1, i)

WorkerTakes(w) ==
  /\ worker[w] = "waiting" /\ ~closed /\ HasRunnableJob
  /\ \E i \in DOMAIN order :
       /\ Selects(i)
       /\ active' = [active EXCEPT ![w] = queue[order[i]][1]]
       /\ queue' = [queue EXCEPT ![order[i]] = Tail(@)]
       /\ order' = Rotated(i)
  /\ worker' = [worker EXCEPT ![w] = "begun"]
  /\ UNCHANGED <<gen, live, waiter, runtime, release, closed>>

\* Mutant: the session stays in _active_sessions.
JobLingers(w, r) ==
  /\ waiter' = [waiter EXCEPT ![active[w].session] = IF active[w].awaited THEN r ELSE @]
  /\ active' = [active EXCEPT ![w].awaited = FALSE]
  /\ worker' = [worker EXCEPT ![w] = "waiting"]
  /\ UNCHANGED <<gen, live, queue, order, release, closed>>

\* The finally of _run_worker, in the step that ends the job; r is what its
\* future gets unless the waiter has left.
JobEnds(w, r) ==
  LET s == active[w].session
  IN /\ waiter' = [waiter EXCEPT ![s] = IF active[w].awaited THEN r ELSE @]
     /\ active' = [active EXCEPT ![w] = NoJob]
     /\ order' = DropSessionQueue(queue, order, s)
     /\ worker' = [worker EXCEPT ![w] = "waiting"]
     /\ UNCHANGED <<gen, live, queue, release, closed>>

JobIsStale(w) ==
  /\ worker[w] = "begun" /\ ~IsCurrent(active[w])
  /\ JobEnds(w, "done")
  /\ UNCHANGED runtime

\* stream_pcm16_frames begins: its guard against reentrance passes.
StreamBegins(w) ==
  /\ worker[w] = "begun" /\ IsCurrent(active[w])
  /\ runtime[w] = "idle"
  /\ runtime' = [runtime EXCEPT ![w] = "active"]
  /\ worker' = [worker EXCEPT ![w] = "streaming"]
  /\ UNCHANGED <<gen, live, waiter, queue, order, active, release, closed>>

\* It raises "runtime is non-reentrant": the job fails.
StreamRefused(w) ==
  /\ worker[w] = "begun" /\ IsCurrent(active[w])
  /\ runtime[w] # "idle"
  /\ JobEnds(w, "refused")
  /\ UNCHANGED runtime

\* The last frame, the next look at cancelled(), or an exception inside the
\* generator: its finally is awaited as part of the job.
StreamEnds(w) ==
  /\ worker[w] = "streaming"
  /\ \E r \in {"done"} \cup (IF "runtime" \in Faults THEN {"failed"} ELSE {}) : JobEnds(w, r)
  /\ runtime' = [runtime EXCEPT ![w] = "idle"]

\* on_frame raises, for the transport is closed or its queue full: the async
\* for is left, and a task of the event loop closes the generator later.
FrameFails(w) ==
  /\ "frame" \in Faults
  /\ worker[w] = "streaming" /\ IsCurrent(active[w])
  /\ JobEnds(w, "failed")
  /\ runtime' = [runtime EXCEPT ![w] = "closing"]

IteratorCloses(w) ==
  /\ runtime[w] = "closing"
  /\ runtime' = [runtime EXCEPT ![w] = "idle"]
  /\ UNCHANGED <<gen, live, waiter, queue, order, active, worker, release, closed>>

\* What aclose does to the awaited futures of queued jobs.
CloseCancels ==
  [s \in Sessions |-> IF \E i \in DOMAIN queue[s] : queue[s][i].awaited
                      THEN "cancelled" ELSE waiter[s]]

Close ==
  /\ ~closed
  /\ closed' = TRUE
  /\ waiter' = CloseCancels
  /\ queue' = [s \in Sessions |-> <<>>]
  /\ order' = <<>>
  /\ UNCHANGED <<gen, live, active, worker, runtime, release>>

\* The cancelled worker ends; the future of its job is cancelled. Its runtime is
\* left as it is: a stream that was cut off has not been closed.
WorkerStops(w) ==
  /\ closed /\ worker[w] # "stopped"
  /\ worker' = [worker EXCEPT ![w] = "stopped"]
  /\ waiter' = IF active[w].awaited THEN [waiter EXCEPT ![active[w].session] = "cancelled"]
               ELSE waiter
  /\ active' = [active EXCEPT ![w] = NoJob]
  /\ UNCHANGED <<gen, live, queue, order, runtime, release, closed>>

-----------------------------------------------------------------------------
WorkerStep(w) ==
  \/ WorkerTakes(w) \/ JobIsStale(w) \/ StreamBegins(w) \/ StreamRefused(w)
  \/ StreamEnds(w) \/ FrameFails(w) \/ IteratorCloses(w) \/ WorkerStops(w)

Next ==
  \/ \E s \in Sessions :
       \/ GenerationStarts(s) \/ GenerationEnds(s)
       \/ \E g \in 1..MaxGens : CancelGeneration(s, g)
       \/ \E final \in BOOLEAN : Synthesize(s, final)
       \/ DrainWaits(s) \/ SessionIsIdle(s)
  \/ \E w \in Workers : WorkerStep(w)
  \/ Close

Spec == Init /\ [][Next]_vars

\* Worker tasks run, an inference step returns. A client need not submit, and a
\* frame need not fail.
Fairness ==
  /\ \A w \in Workers :
       /\ WF_vars(WorkerTakes(w) \/ JobIsStale(w) \/ StreamBegins(w) \/ StreamRefused(w)
                  \/ StreamEnds(w))
       /\ WF_vars(IteratorCloses(w))
       /\ WF_vars(WorkerStops(w))
  /\ \A s \in Sessions : WF_vars(SessionIsIdle(s))

FairSpec == Spec /\ Fairness

-----------------------------------------------------------------------------
(* Properties.                                                             *)

\* The order lists exactly the sessions with queued jobs, or with a running
\* one that left its place, and each of them once: a queued job is always
\* found, so _next_job never raises in a worker that saw a runnable job.
OrderIsQueues ==
  /\ IsInjective(order)
  /\ Queued \subseteq ToSet(order)
  /\ ToSet(order) \subseteq Queued \cup ActiveSessions

\* One session's segments are spoken one at a time, in the order they were
\* submitted: two workers never serve the same session.
OneWorkerPerSession ==
  \A v, w \in Workers :
    v # w /\ active[v] # NoJob => active[v].session # active[w].session

\* No accepted segment is lost: whoever waits, waits for a job that is queued
\* or running.
PendingHasJob ==
  \A s \in Sessions : waiter[s] = "pending" =>
    \/ \E i \in DOMAIN queue[s] : queue[s][i].awaited
    \/ \E w \in Workers : active[w].session = s /\ active[w].awaited

\* After wait_session_idle returned no worker ever touches the session again,
\* so its slot may be reused.
IdleIsFinal ==
  \A s \in Sessions : release[s] = "idle" =>
    queue[s] = <<>> /\ \A w \in Workers : active[w].session # s

\* A queue holds jobs of its own session, and whoever waits for one of them is
\* the session's current generation: cancel_generation of an older one does not
\* take it away (TTSJob.token, synthesize).
JobsBelong ==
  \A s \in Sessions :
    /\ live[s] => gen[s] > 0
    /\ \A i \in DOMAIN queue[s] :
         /\ queue[s][i].session = s
         /\ queue[s][i].awaited => live[s] /\ queue[s][i].gen = gen[s]

\* A worker has a job exactly while it is at one (_run_worker).
WorkerHasJob == \A w \in Workers : active[w] # NoJob <=> worker[w] \in {"begun", "streaming"}

\* Nothing is queued after a close, and nothing is live after a drain began to wait.
OverIsOver ==
  /\ closed => ToSet(order) = {}
  /\ \A s \in Sessions : release[s] # "no" => ~live[s]

\* The state of the scheduler between two of its lock sections: the order
\* matches the queues, no session is served twice, no job is lost, and what has
\* been found idle stays so (synthesize, cancel_generation, _run_worker, _next_job). With
\* the three conjuncts above it is inductive (TtsSchedulerProofs).
IInv ==
  /\ TypeOK
  /\ OrderIsQueues
  /\ OneWorkerPerSession
  /\ PendingHasJob
  /\ IdleIsFinal
  /\ JobsBelong
  /\ WorkerHasJob
  /\ OverIsOver

\* "queued final answers retain priority" (docs/tool-calling.md): a worker
\* takes filler speech only when no final segment could be taken instead.
FinalsBeforeFiller ==
  [][\A w \in Workers :
       active[w] = NoJob /\ active'[w] # NoJob /\ ~active'[w].final =>
         \A s \in Sessions : Runnable(s) => ~queue[s][1].final]_vars

\* Every accepted final segment is spoken, dropped or failed, whatever the other
\* sessions submit. (Behind fillers of its own it waits as long as they do, and
\* a filler may wait for ever behind the finals of others.)
OnlyFinals(s) == \A i \in DOMAIN queue[s] : queue[s][i].final

FinalsAnswered ==
  \A s \in Sessions :
    (waiter[s] = "pending" /\ OnlyFinals(s)) ~> waiter[s] # "pending"

\* A drain that waits for the session sees it idle: the stale finals it left
\* behind are dropped or skipped, whatever the other sessions submit.
DrainEnds ==
  \A s \in Sessions : (release[s] = "waiting" /\ OnlyFinals(s)) ~> release[s] = "idle"

\* Both: nobody whose jobs are finals waits for the scheduler for ever
\* (synthesize, wait_session_idle).
JobsServed == FinalsAnswered /\ DrainEnds

\* tests/test_schedulers.py:327 names it: "test_tts_worker_failure_is_scoped
\* _and_worker_continues". A job fails through its own generation only. The
\* code breaks this: see FrameFails.
FailureIsScoped == \A s \in Sessions : waiter[s] # "refused"
=============================================================================
