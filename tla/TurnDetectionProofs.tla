------------------------ MODULE TurnDetectionProofs ------------------------
(* Proofs about TurnDetection and the scheduler it shares, for every number *)
(* of sessions, turns and verdicts and every audio: the order of the turns, *)
(* the types, the slices of the audio, and resumed speech.                  *)
EXTENDS TurnDetection, SequenceTheorems, TLAPS

\* As much of the types as the order of the steps depends on.
Tasks(tk) ==
  /\ DOMAIN tk = Actors
  /\ \A a \in Actors :
       /\ {"pc", "rev", "cancelled"} \subseteq DOMAIN tk[a]
       /\ tk[a].rev \in Nat
       /\ tk[a].cancelled \in BOOLEAN

IsPartial(p) == {"pc", "rev", "fresh"} \subseteq DOMAIN p

Shapes ==
  /\ Tasks(task)
  /\ {"named", "rev", "start"} \subseteq DOMAIN turn /\ turn.rev \in Nat
  /\ IsPartial(partial) /\ \A p \in orphans : IsPartial(p)
  /\ completed \in Nat /\ turns \in Seq(Nat)
  /\ {"pc", "rev"} \subseteq DOMAIN answering /\ answering.rev \in Nat
  /\ drain \in {"no", "tasks", "partial", "idle", "done"}

\* The invariant without the ranges of the audio's positions.
Order == OneDecides /\ Completed /\ TurnsInOrder
Inv == Shapes /\ SchedulerInv /\ DrainOrder /\ Order /\ PartialIsCurrent

LEMMA ThisSession == Me \in Sessions /\ 0 \notin Sessions /\ Sessions \subseteq 0..NumSessions
  BY TurnAssumption DEF Me, Sessions

-----------------------------------------------------------------------------
(* The scheduler.                                                          *)

\* submit, by a session that has not been released (schedulers/turn.py:45-82).
LEMMA SubmitKeeps ==
  ASSUME SchedulerInv, NEW s \in Sessions, Submit(s), release[s] # "idle"
  PROVE  SchedulerInv'
<1> USE DEF SchedulerInv, Submit, WorkerFor
<1>1. SchedulerTypeOK'
  BY DEF SchedulerTypeOK, Verdicts
<1>2. JobsHaveWorker'
  BY DEF SchedulerTypeOK, JobsHaveWorker
<1>3. ReleasedIsIdle'
  BY DEF SchedulerTypeOK, ReleasedIsIdle
<1> QED BY <1>1, <1>2, <1>3

\* The task that awaits a verdict is cancelled (submit).
LEMMA WaiterLeavesKeeps ==
  ASSUME SchedulerInv, NEW s \in Sessions, WaiterLeaves(s)
  PROVE  SchedulerInv'
  BY ThisSession DEF SchedulerInv, SchedulerTypeOK, JobsHaveWorker, ReleasedIsIdle, WaiterLeaves

\* cancel_session, and what wait_session_idle waits for.
LEMMA ForgetKeeps ==
  ASSUME SchedulerInv, NEW s \in Sessions, CancelSession(s) \/ SessionIsIdle(s)
  PROVE  SchedulerInv'
<1> USE DEF SchedulerInv, SchedulerTypeOK, JobsHaveWorker, ReleasedIsIdle
<1>1. CASE CancelSession(s)
  BY <1>1, ThisSession DEF CancelSession
<1>2. CASE SessionIsIdle(s)
  BY <1>2, ThisSession DEF SessionIsIdle, SessionIdle
<1> QED BY <1>1, <1>2

\* aclose.
LEMMA CloseKeeps == ASSUME SchedulerInv, Close PROVE SchedulerInv'
  BY ThisSession DEF SchedulerInv, SchedulerTypeOK, JobsHaveWorker, ReleasedIsIdle, Close

\* The worker: it takes a job, answers one, or ends (_run).
LEMMA SchedulerStepsKeep == ASSUME SchedulerInv, SchedulerSteps PROVE SchedulerInv'
<1> USE DEF SchedulerInv
<1>1. ASSUME NEW s, NEW stale, s \in Sessions, Take(s, stale) PROVE SchedulerInv'
  <2>1. s \in queue /\ worker = "looking" /\ active = 0
    BY <1>1 DEF Take, NextSession, JobsHaveWorker
  <2>2. SchedulerTypeOK'
    BY <1>1, <2>1, ThisSession DEF Take, SchedulerTypeOK
  <2>3. JobsHaveWorker'
    BY <1>1, <2>1, ThisSession DEF Take, SchedulerTypeOK, JobsHaveWorker
  <2>4. ReleasedIsIdle'
    BY <1>1, <2>1, ThisSession DEF Take, SchedulerTypeOK, ReleasedIsIdle
  <2> QED BY <2>2, <2>3, <2>4
<1>2. ASSUME NEW verdict \in Verdicts \cup {"none"}, NEW stale, Predicted(verdict, stale)
      PROVE  SchedulerInv'
  <2>1. worker = "predicting" /\ active # 0 /\ active \in Sessions
    BY <1>2 DEF Predicted, JobsHaveWorker, SchedulerTypeOK, Sessions
  <2> DEFINE answer == IF abandoned THEN waiter[active]
                       ELSE IF stale /\ verdict # "failed" THEN "stale" ELSE verdict
  <2>a. answer \in {"none", "pending", "stale", "cancelled"} \cup Verdicts
    BY <1>2, <2>1 DEF SchedulerTypeOK, Verdicts
  <2>b. waiter' = [waiter EXCEPT ![active] = answer]
    BY <1>2 DEF Predicted
  <2> HIDE DEF answer
  <2>c. waiter' \in [Sessions -> {"none", "pending", "stale", "cancelled"} \cup Verdicts]
    BY <2>1, <2>a, <2>b DEF SchedulerTypeOK
  <2>d. 0 \in 0..NumSessions
    BY TurnAssumption
  <2>2. SchedulerTypeOK'
    BY <1>2, <2>c, <2>d DEF Predicted, SchedulerTypeOK
  <2>3. JobsHaveWorker'
    BY <1>2, <2>1, ThisSession DEF Predicted, SchedulerTypeOK, JobsHaveWorker, Verdicts
  <2>4. ReleasedIsIdle'
    BY <1>2, <2>1, ThisSession DEF Predicted, SchedulerTypeOK, ReleasedIsIdle
  <2> QED BY <2>2, <2>3, <2>4
<1>3. CASE WorkerEnds
  BY <1>3, ThisSession DEF WorkerEnds, SchedulerTypeOK, JobsHaveWorker, ReleasedIsIdle
<1> QED BY <1>1, <1>2, <1>3 DEF SchedulerSteps

-----------------------------------------------------------------------------
(* The tasks.                                                              *)

LEMMA NoTaskShape ==
  /\ {"pc", "rev", "cancelled"} \subseteq DOMAIN NoTask
  /\ NoTask.rev \in Nat /\ NoTask.cancelled = FALSE /\ NoTask.pc = "none"
  BY DEF NoTask

\* A task that is over.
LEMMA EndTask ==
  ASSUME NEW tk, Tasks(tk), NEW a \in Actors
  PROVE  /\ Tasks([tk EXCEPT ![a] = NoTask])
         /\ [tk EXCEPT ![a] = NoTask][a].pc = "none"
         /\ [tk EXCEPT ![a] = NoTask][a].cancelled = FALSE
         /\ \A b \in Actors \ {a} : [tk EXCEPT ![a] = NoTask][b] = tk[b]
  BY NoTaskShape DEF Tasks

\* The consumer is gone, or free again.
LEMMA ConsumerEnds ==
  ASSUME NEW tk, Tasks(tk)
  PROVE  /\ Tasks(Gone(tk)) /\ Tasks(Idle(tk))
         /\ Gone(tk)["consumer"].pc = "gone" /\ Gone(tk)["consumer"].cancelled = FALSE
         /\ Idle(tk)["consumer"].pc = "none" /\ Idle(tk)["consumer"].cancelled = FALSE
         /\ \A d \in Detectors : Gone(tk)[d] = tk[d] /\ Idle(tk)[d] = tk[d]
<1> DEFINE r == [NoTask EXCEPT !.pc = "gone"]
<1>1. /\ {"pc", "rev", "cancelled"} \subseteq DOMAIN r
      /\ r.rev \in Nat /\ r.cancelled = FALSE /\ r.pc = "gone"
  BY DEF NoTask
<1>2. Gone(tk) = [tk EXCEPT !["consumer"] = r]
  BY DEF Gone
<1>3. "consumer" \in Actors /\ \A d \in Detectors : d \in Actors \ {"consumer"}
  BY DEF Actors, Detectors
<1> HIDE DEF r
<1>4. /\ Tasks(Gone(tk)) /\ Gone(tk)["consumer"] = r
      /\ \A d \in Detectors : Gone(tk)[d] = tk[d]
  BY <1>1, <1>2, <1>3 DEF Tasks
<1>5. /\ Tasks(Idle(tk)) /\ Idle(tk)["consumer"].pc = "none" /\ Idle(tk)["consumer"].cancelled = FALSE
      /\ \A d \in Detectors : Idle(tk)[d] = tk[d]
  BY <1>3, NoTaskShape DEF Idle, Tasks
<1> QED BY <1>1, <1>4, <1>5

\* A task goes on to another of its suspensions.
LEMMA MoveTask ==
  ASSUME NEW tk, Tasks(tk), NEW a \in Actors, NEW pc
  PROVE  LET n == [tk EXCEPT ![a].pc = pc]
         IN  /\ Tasks(n) /\ n[a].pc = pc /\ n[a].rev = tk[a].rev
             /\ n[a].cancelled = tk[a].cancelled
             /\ \A b \in Actors \ {a} : n[b] = tk[b]
<1> DEFINE r == [tk[a] EXCEPT !.pc = pc]
<1>1. /\ {"pc", "rev", "cancelled"} \subseteq DOMAIN r
      /\ r.rev = tk[a].rev /\ r.cancelled = tk[a].cancelled /\ r.pc = pc
  BY DEF Tasks
<1>2. [tk EXCEPT ![a].pc = pc] = [tk EXCEPT ![a] = r]
  OBVIOUS
<1>3. tk[a].rev \in Nat /\ tk[a].cancelled \in BOOLEAN
  BY DEF Tasks
<1> HIDE DEF r
<1> QED BY <1>1, <1>2, <1>3 DEF Tasks

\* _cancel_turn_detection leaves each task what it is about to queue.
LEMMA CancelTasks ==
  ASSUME NEW tk, Tasks(tk)
  PROVE  /\ Tasks(CancelDetection(tk))
         /\ CancelDetection(tk)["consumer"] = tk["consumer"]
         /\ \A a \in Actors : /\ CancelDetection(tk)[a].pc = tk[a].pc
                              /\ CancelDetection(tk)[a].rev = tk[a].rev
                              /\ tk[a].cancelled => CancelDetection(tk)[a].cancelled
  BY DEF Tasks, CancelDetection, Actors, Detectors

\* So does a new candidate id.
LEMMA SupersedeTasks ==
  ASSUME NEW tk, Tasks(tk)
  PROVE  /\ Tasks(Superseded(tk))
         /\ Superseded(tk)["consumer"] = tk["consumer"]
         /\ \A a \in Actors : /\ Superseded(tk)[a].pc = tk[a].pc
                              /\ Superseded(tk)[a].rev = tk[a].rev
                              /\ tk[a].cancelled => Superseded(tk)[a].cancelled
  BY DEF Tasks, Superseded, Actors, Detectors

\* The end of _append_audio: the consumer is free or gone, a new partial task is
\* for the open turn.
LEMMA AppendEnds ==
  ASSUME NEW tk, Tasks(tk), NEW p, IsPartial(p), NEW start, EndsAppend(tk, p, start)
  PROVE  /\ Tasks(task') /\ IsPartial(partial')
         /\ \A d \in Detectors : task'[d] = tk[d]
         /\ task'["consumer"].pc \in {"none", "gone"}
         /\ task'["consumer"].cancelled = FALSE
         /\ partial' = p \/ start # None
<1>1. /\ task' = Idle(tk) \/ task' = Gone(tk)
      /\ \/ partial' = p
         \/ partial' = [pc |-> "running", rev |-> turn'.rev, fresh |-> TRUE] /\ start # None
  BY DEF EndsAppend
<1>2. IsPartial(partial')
  BY <1>1 DEF IsPartial
<1> QED BY <1>1, <1>2, ConsumerEnds

\* _complete_turn after the partial task: the turn is queued, waits for room, or is
\* lost with an exception.
LEMMA EnqueueTasks ==
  ASSUME NEW a \in Actors, NEW tk, Tasks(tk), tk[a].cancelled = FALSE, Enqueue(a, tk),
         {"pc", "rev"} \subseteq DOMAIN answering
  PROVE  /\ Tasks(task')
         /\ \A b \in Actors \ {a} : task'[b] = tk[b]
         /\ task'[a].cancelled = FALSE
         /\ task'[a].pc \in {"none", "gone", "put"}
         /\ task'[a].pc = "put" => task'[a].rev = tk[a].rev
         /\ task'[a].pc = "gone" => a = "consumer"
         /\ \/ turns' = turns
            \/ turns' = Append(turns, tk[a].rev) /\ task'[a].pc = "none"
         /\ {"pc", "rev"} \subseteq DOMAIN answering' /\ answering'.rev = answering.rev
<1>1. /\ \/ task' = [tk EXCEPT ![a] = NoTask]
         \/ task' = [tk EXCEPT ![a].pc = "put"]
         \/ a = "consumer" /\ task' = Gone(tk)
      /\ \/ turns' = turns
         \/ turns' = Append(turns, tk[a].rev) /\ task' = [tk EXCEPT ![a] = NoTask]
      /\ answering' = answering \/ answering' = [answering EXCEPT !.pc = "waiting"]
  BY DEF Enqueue, Raises, Returns
<1>2. {"pc", "rev"} \subseteq DOMAIN answering' /\ answering'.rev = answering.rev
  BY <1>1
<1>3. CASE task' = [tk EXCEPT ![a] = NoTask]
  <2>1. /\ Tasks(task') /\ task'[a].pc = "none" /\ task'[a].cancelled = FALSE
        /\ \A b \in Actors \ {a} : task'[b] = tk[b]
    BY <1>3, NoTaskShape DEF Tasks
  <2> QED BY <1>1, <1>2, <2>1
<1>4. CASE task' = [tk EXCEPT ![a].pc = "put"] /\ turns' = turns
  <2>1. /\ Tasks(task') /\ task'[a].pc = "put" /\ task'[a].rev = tk[a].rev
        /\ task'[a].cancelled = tk[a].cancelled
        /\ \A b \in Actors \ {a} : task'[b] = tk[b]
    BY <1>4 DEF Tasks
  <2> QED BY <1>2, <1>4, <2>1
<1>5. CASE a = "consumer" /\ task' = Gone(tk) /\ turns' = turns
  <2>1. Actors \ {a} = Detectors
    BY <1>5 DEF Actors, Detectors
  <2> QED BY <1>2, <1>5, <2>1, ConsumerEnds
<1> QED BY <1>1, <1>3, <1>4, <1>5

-----------------------------------------------------------------------------
(* The order of the turns.                                                 *)

\* A step that queues nothing and at most ends, cancels or removes tasks.
LEMMA OrderStays ==
  ASSUME Shapes, Order, Tasks(task'), UNCHANGED <<completed, turns, answering>>,
         \A a \in Actors : Ends(a)' =>
           Ends(a) /\ task'[a].rev = task[a].rev /\ (task[a].cancelled => task'[a].cancelled),
         turn'.rev \in Nat, turn.rev <= turn'.rev, turn'.start # None => completed < turn'.rev
  PROVE  TurnsInOrder' /\ Completed'
<1>1. TurnsInOrder'
  BY DEF Order, TurnsInOrder, Tasks
<1>2. Completed'
  BY DEF Order, Completed, Shapes, Tasks
<1> QED BY <1>1, <1>2

\* A turn newer than all others is queued by the only task that ends one.
LEMMA OrderGrows ==
  ASSUME Shapes, Order, NEW a \in Actors, NEW tk, Tasks(tk), Tasks(task'),
         \A b \in Actors \ {a} : task'[b] = tk[b],
         task'[a].cancelled = FALSE, task'[a].pc \in {"none", "gone", "put"},
         task'[a].pc = "put" => task'[a].rev = tk[a].rev,
         \/ turns' = turns
         \/ turns' = Append(turns, tk[a].rev) /\ task'[a].pc = "none",
         answering'.rev = answering.rev,
         \A b \in Actors \ {a} : tk[b].pc \notin {"gather", "put"},
         \A i \in DOMAIN turns : turns[i] < tk[a].rev,
         answering.rev < tk[a].rev,
         completed' \in Nat, completed <= completed', tk[a].rev <= completed',
         turn'.rev \in Nat, completed' <= turn'.rev, turn'.start # None => completed' < turn'.rev
  PROVE  TurnsInOrder' /\ Completed' /\ turns' \in Seq(Nat)
<1> DEFINE r == tk[a].rev
<1>0. r \in Nat /\ answering.rev \in Nat /\ completed \in Nat /\ turns \in Seq(Nat)
      /\ \A i \in DOMAIN turns : turns[i] \in Nat
  BY DEF Tasks, Shapes
<1>1. /\ Tasks(task')
      /\ \A b \in Actors \ {a} : ~Ends(b)'
      /\ task'[a].cancelled = FALSE
      /\ Ends(a)' => task'[a].rev = r /\ turns' = turns
      /\ turns' = turns \/ turns' = Append(turns, r)
      /\ answering'.rev = answering.rev
  BY DEF Ends
<1>2. CASE turns' = turns
  <2>1. TurnsInOrder'
    BY <1>0, <1>1, <1>2 DEF Order, TurnsInOrder
  <2>2. Completed'
    BY <1>0, <1>1, <1>2 DEF Order, Completed
  <2> QED BY <2>1, <2>2, <1>0, <1>2
<1>3. CASE turns' = Append(turns, r) /\ ~Ends(a)'
  <2>1. /\ turns' \in Seq(Nat) /\ DOMAIN turns' = 1..(Len(turns) + 1)
        /\ DOMAIN turns = 1..Len(turns) /\ Len(turns) \in Nat
        /\ \A i \in DOMAIN turns : turns'[i] = turns[i]
        /\ turns'[Len(turns) + 1] = r
    BY <1>0, <1>3
  <2>2. \A i \in DOMAIN turns' : i \in DOMAIN turns \/ i = Len(turns) + 1
    BY <2>1
  <2>3. TurnsInOrder'
    <3>1. \A b \in Actors : ~Ends(b)'
      BY <1>1, <1>3
    <3>2. \A i, j \in DOMAIN turns' : i < j => turns'[i] < turns'[j]
      BY <1>0, <2>1, <2>2, SMTT(30) DEF Order, TurnsInOrder
    <3>3. \A i \in DOMAIN turns' : answering.rev < turns'[i]
      BY <1>0, <2>1, <2>2 DEF Order, TurnsInOrder
    <3> QED BY <1>1, <3>1, <3>2, <3>3 DEF TurnsInOrder
  <2>4. Completed'
    <3>1. \A b \in Actors : ~Ends(b)'
      BY <1>1, <1>3
    <3>2. ASSUME NEW i \in DOMAIN turns' PROVE turns'[i] <= completed'
      <4>1. CASE i \in DOMAIN turns
        BY <1>0, <2>1, <4>1 DEF Order, Completed
      <4>2. CASE i = Len(turns) + 1
        BY <2>1, <4>2
      <4> QED BY <2>2, <4>1, <4>2
    <3>3. answering'.rev <= completed'
      BY <1>0, <1>1 DEF Order, Completed
    <3> QED BY <3>1, <3>2, <3>3 DEF Completed
  <2> QED BY <2>1, <2>3, <2>4
<1> QED BY <1>1, <1>2, <1>3

\* Who ends a turn is alone: a detection task of its own kind, or the consumer when
\* nothing is detecting.
LEMMA EndsAlone ==
  ASSUME Shapes, OneDecides, NEW a \in Actors, a = "consumer" => ~Detecting,
         a \in Detectors => task[a].pc # "none"
  PROVE  \A b \in Actors \ {a} : ~Ends(b)
  BY DEF OneDecides, Detecting, Detectors, Actors, Ends

\* The partial tasks of an ending turn are out of date (_complete_turn).
LEMMA OutdatedShape ==
  /\ \A p : IsPartial(p) => /\ IsPartial(Outdated(p)) /\ Outdated(p).fresh = FALSE
                            /\ IsPartial(CancelPartial(p))
                            /\ CancelPartial(p).fresh = p.fresh
                            /\ CancelPartial(p).pc # "running"
  /\ \A p : p \in OutdatedAll => \E q \in orphans : p = Outdated(q)
  BY DEF IsPartial, Outdated, CancelPartial, OutdatedAll

\* _speech_stopped for an open turn or a manual one: the turn is completed and queued
\* after all others, or waits for its partial task.
LEMMA StopSpeechKeeps ==
  ASSUME Shapes, Order, NEW a \in Actors, NEW tk, Tasks(tk), tk[a].cancelled = FALSE,
         NEW t, {"named", "rev", "start"} \subseteq DOMAIN t, t.rev \in Nat,
         turn.rev <= t.rev, completed < t.rev, NEW to,
         \A b \in Actors \ {a} : tk[b].pc = task[b].pc /\ tk[b].rev = task[b].rev,
         a # "consumer" => tk["consumer"].cancelled = FALSE,
         a = "consumer" => ~Detecting, a \in Detectors => task[a].pc # "none",
         StopSpeech(a, tk, t, to), UNCHANGED <<mode, drain>>
  PROVE  Shapes' /\ Order' /\ PartialIsCurrent'
         /\ (a # "consumer" => task'["consumer"].pc = task["consumer"].pc)
<1> DEFINE arguments == [tk[a] EXCEPT !.rev = t.rev, !.from = t.start, !.at = to]
           called == [tk EXCEPT ![a] = arguments]
<1>1. /\ turn' = [t EXCEPT !.start = None] /\ orphans' = OutdatedAll /\ completed' = t.rev
      /\ \/ partial.pc = "none" /\ Enqueue(a, called) /\ UNCHANGED partial
         \/ /\ partial' = CancelPartial(Outdated(partial))
            /\ task' = [called EXCEPT ![a].pc = "gather"]
            /\ UNCHANGED <<turns, answering>>
  BY DEF StopSpeech, Stops, Shapes
<1>2. /\ Tasks(called) /\ called[a].cancelled = FALSE /\ called[a].rev = t.rev
      /\ \A b \in Actors \ {a} : called[b] = tk[b]
  <2>1. /\ {"pc", "rev", "cancelled"} \subseteq DOMAIN arguments
        /\ arguments.rev = t.rev /\ arguments.cancelled = tk[a].cancelled
    BY DEF Tasks
  <2> HIDE DEF arguments
  <2> QED BY <2>1 DEF Tasks
<1> HIDE DEF called, arguments
<1>3. /\ {"named", "rev", "start"} \subseteq DOMAIN turn'
      /\ turn'.rev = t.rev /\ turn'.start = None
  BY <1>1
<1>4. \A b \in Actors \ {a} : called[b].pc \notin {"gather", "put"}
  BY <1>2, EndsAlone DEF Order, Ends
<1>5. /\ answering.rev \in Nat /\ completed \in Nat /\ turns \in Seq(Nat)
      /\ answering.rev <= completed /\ \A i \in DOMAIN turns : turns[i] <= completed
  BY DEF Shapes, Order, Completed
<1>6. /\ answering.rev < t.rev /\ completed <= t.rev
      /\ \A i \in DOMAIN turns : turns[i] \in Nat /\ turns[i] < t.rev
  BY <1>5
<1>7. /\ Tasks(task') /\ \A b \in Actors \ {a} : task'[b] = tk[b]
      /\ task'[a].cancelled = FALSE
      /\ task'[a].pc \in {"none", "gone", "put", "gather"}
      /\ {"pc", "rev"} \subseteq DOMAIN answering' /\ answering'.rev = answering.rev
      /\ TurnsInOrder' /\ Completed' /\ turns' \in Seq(Nat)
  <2>1. CASE partial.pc = "none" /\ Enqueue(a, called) /\ UNCHANGED partial
    <3>1. /\ {"pc", "rev"} \subseteq DOMAIN answering
          /\ Enqueue(a, called) /\ Tasks(called) /\ called[a].cancelled = FALSE
      BY <1>2, <2>1 DEF Shapes
    <3>2. /\ Tasks(task') /\ \A b \in Actors \ {a} : task'[b] = called[b]
          /\ task'[a].cancelled = FALSE
          /\ task'[a].pc \in {"none", "gone", "put"}
          /\ task'[a].pc = "put" => task'[a].rev = called[a].rev
          /\ \/ turns' = turns
             \/ turns' = Append(turns, called[a].rev) /\ task'[a].pc = "none"
          /\ {"pc", "rev"} \subseteq DOMAIN answering' /\ answering'.rev = answering.rev
      BY <3>1, EnqueueTasks
    <3>3. TurnsInOrder' /\ Completed' /\ turns' \in Seq(Nat)
      <4>1. /\ completed' \in Nat /\ completed <= completed' /\ called[a].rev <= completed'
            /\ turn'.rev \in Nat /\ completed' <= turn'.rev
            /\ turn'.start # None => completed' < turn'.rev
        BY <1>1, <1>2, <1>3, <1>6
      <4>2. /\ \A i \in DOMAIN turns : turns[i] < called[a].rev
            /\ answering.rev < called[a].rev
        BY <1>2, <1>6
      <4> QED BY <1>2, <1>4, <3>2, <4>1, <4>2, OrderGrows
    <3> QED BY <1>2, <3>2, <3>3
  <2>2. CASE /\ partial' = CancelPartial(Outdated(partial))
             /\ task' = [called EXCEPT ![a].pc = "gather"]
             /\ UNCHANGED <<turns, answering>>
    <3>1. /\ Tasks(task') /\ task'[a].cancelled = FALSE /\ task'[a].rev = t.rev
          /\ task'[a].pc = "gather"
          /\ \A b \in Actors \ {a} : task'[b] = called[b]
      BY <1>2, <2>2 DEF Tasks
    <3>2. \A b \in Actors \ {a} : ~Ends(b)'
      BY <1>4, <3>1 DEF Ends
    <3>3. TurnsInOrder'
      BY <1>6, <2>2, <3>1, <3>2 DEF Order, TurnsInOrder
    <3>4. Completed'
      BY <1>1, <1>3, <1>5, <1>6, <2>2, <3>1, <3>2 DEF Completed
    <3> QED BY <1>2, <1>5, <2>2, <3>1, <3>3, <3>4 DEF Shapes
  <2> QED BY <1>1, <2>1, <2>2
<1>8. /\ IsPartial(partial') /\ \A p \in orphans' : IsPartial(p)
      /\ \A p \in orphans' \cup {partial'} : p.pc = "running" => p.fresh = FALSE
  BY <1>1, OutdatedShape DEF Shapes
<1>9. Shapes'
  BY <1>1, <1>3, <1>7, <1>8 DEF Shapes
<1>10. PartialIsCurrent'
  BY <1>8 DEF PartialIsCurrent, Fresh
<1>11. OneDecides'
  <2>1. ASSUME NEW b \in Actors \ {a} PROVE task'[b].pc = task[b].pc
    BY <1>7
  <2>2. task'["consumer"].cancelled = FALSE
    BY <1>7 DEF Actors
  <2>3. CASE a = "consumer"
    BY <1>7, <2>1, <2>2, <2>3 DEF OneDecides, Order, Detecting, Detectors, Actors
  <2>4. CASE a \in Detectors
    <3>1. Detecting
      BY <2>4 DEF Detecting
    <3>2. ~Ends("consumer")' /\ mode' = "smart_turn_v3"
      BY <2>1, <2>4, <3>1 DEF OneDecides, Order, Ends, Detectors, Actors
    <3>3. (task["candidate"].pc = "none" \/ task["fallback"].pc = "none")'
      BY <2>1, <2>4 DEF OneDecides, Order, Detectors, Actors
    <3> QED BY <2>2, <3>2, <3>3 DEF OneDecides
  <2> QED BY <2>3, <2>4 DEF Actors, Detectors
<1>12. a # "consumer" => task'["consumer"].pc = task["consumer"].pc
  BY <1>7 DEF Actors
<1> QED BY <1>7, <1>9, <1>10, <1>11, <1>12 DEF Order

-----------------------------------------------------------------------------
(* The consumer.                                                           *)

\* What the other tasks are about to do is kept, or given up.
Milder(tk) ==
  /\ \A d \in Detectors : tk[d].pc \in {"gather", "put"} =>
       Ends(d) /\ tk[d].rev = task[d].rev /\ (task[d].cancelled => tk[d].cancelled)
  /\ tk["candidate"].pc = "none" \/ tk["fallback"].pc = "none"
  /\ (\E d \in Detectors : tk[d].pc # "none") => mode = "smart_turn_v3"

\* A step between two of the drain.
LEMMA DrainStays ==
  ASSUME Inv, Shapes', Order', PartialIsCurrent', SchedulerInv', UNCHANGED <<drain, release>>,
         drain # "no" => task'["consumer"].pc = "gone",
         drain # "no" /\ ~Detecting => ~Detecting'
  PROVE  Inv'
<1>1. DrainOrder'
  BY DEF Inv, DrainOrder
<1> QED BY <1>1 DEF Inv

\* Detection without a scheduler's or the drain's help.
LEMMA Detected ==
  ASSUME Inv, Shapes', Order', PartialIsCurrent', UNCHANGED <<drain, schedulerVars>>,
         drain # "no" => task'["consumer"].pc = "gone",
         drain # "no" /\ ~Detecting => ~Detecting'
  PROVE  Inv'
<1>1. SchedulerInv'
  BY DEF Inv, SchedulerInv, SchedulerTypeOK, JobsHaveWorker, ReleasedIsIdle, schedulerVars
<1>2. UNCHANGED release
  BY DEF schedulerVars
<1> QED BY <1>1, <1>2, DrainStays

\* A step of the consumer that completes no turn.
LEMMA ConsumerStep ==
  ASSUME Inv, task["consumer"].pc # "gone", Tasks(task'), Milder(task'),
         task'["consumer"].cancelled = FALSE, ~Ends("consumer")',
         task'["consumer"].pc = "stopping" => mode = "smart_turn_v3",
         {"named", "rev", "start"} \subseteq DOMAIN turn', turn'.rev \in Nat,
         turn.rev <= turn'.rev, turn'.start # None => completed < turn'.rev,
         IsPartial(partial'), \A p \in orphans' : IsPartial(p), PartialIsCurrent',
         UNCHANGED <<mode, completed, turns, answering, drain, schedulerVars>>
  PROVE  Inv'
<1>1. Shapes'
  BY DEF Inv, Shapes
<1>2. drain = "no"
  BY DEF Inv, DrainOrder
<1>3. \A a \in Actors : Ends(a)' =>
         Ends(a) /\ task'[a].rev = task[a].rev /\ (task[a].cancelled => task'[a].cancelled)
  BY DEF Milder, Actors, Detectors, Ends
<1>4. TurnsInOrder' /\ Completed'
  BY <1>3, OrderStays DEF Inv
<1>5. OneDecides'
  BY DEF Milder, OneDecides, Detecting, Ends
<1> QED BY <1>1, <1>2, <1>4, <1>5, Detected DEF Order

\* To cancel the others, or to give up their candidate, is mild.
LEMMA MildIfKept ==
  ASSUME Inv, NEW tk,
         \A a \in Actors : /\ tk[a].pc = task[a].pc /\ tk[a].rev = task[a].rev
                           /\ task[a].cancelled => tk[a].cancelled
  PROVE  Milder(tk)
<1>1. /\ task["candidate"].pc = "none" \/ task["fallback"].pc = "none"
      /\ (\E d \in Detectors : task[d].pc # "none") => mode = "smart_turn_v3"
  BY DEF Inv, Order, OneDecides, Detecting
<1>2. Detectors \subseteq Actors /\ "candidate" \in Actors /\ "fallback" \in Actors
  BY DEF Actors, Detectors
<1>3. ASSUME NEW d \in Detectors, tk[d].pc \in {"gather", "put"}
      PROVE  Ends(d) /\ tk[d].rev = task[d].rev /\ (task[d].cancelled => tk[d].cancelled)
  BY <1>2, <1>3 DEF Ends
<1>4. tk["candidate"].pc = "none" \/ tk["fallback"].pc = "none"
  BY <1>1, <1>2
<1>5. (\E d \in Detectors : tk[d].pc # "none") => mode = "smart_turn_v3"
  BY <1>1, <1>2
<1> QED BY <1>3, <1>4, <1>5 DEF Milder

LEMMA MildTasks ==
  ASSUME Inv
  PROVE  /\ Tasks(task) /\ Milder(task) /\ task["consumer"].cancelled = FALSE
         /\ Tasks(Superseded(task)) /\ Milder(Superseded(task))
         /\ Tasks(CancelDetection(Superseded(task)))
         /\ Milder(CancelDetection(Superseded(task)))
         /\ CancelDetection(Superseded(task))["consumer"] = task["consumer"]
         /\ \A d \in Detectors : CancelDetection(Superseded(task))[d].pc = task[d].pc
<1> DEFINE superseded == Superseded(task)
           cancelled == CancelDetection(superseded)
<1>1. /\ Tasks(task) /\ task["consumer"].cancelled = FALSE
      /\ Detectors \subseteq Actors /\ "consumer" \in Actors
  BY DEF Inv, Shapes, Order, OneDecides, Tasks, Actors, Detectors
<1>2. /\ Tasks(superseded) /\ superseded["consumer"] = task["consumer"]
      /\ \A a \in Actors : /\ superseded[a].pc = task[a].pc
                           /\ superseded[a].rev = task[a].rev
                           /\ task[a].cancelled => superseded[a].cancelled
  BY <1>1, SupersedeTasks
<1>3. /\ Tasks(cancelled) /\ cancelled["consumer"] = superseded["consumer"]
      /\ \A a \in Actors : /\ cancelled[a].pc = superseded[a].pc
                           /\ cancelled[a].rev = superseded[a].rev
                           /\ superseded[a].cancelled => cancelled[a].cancelled
  BY <1>2, CancelTasks
<1>4. Milder(task)
  BY MildIfKept
<1> HIDE DEF superseded, cancelled
<1>5. Milder(superseded)
  BY <1>2, MildIfKept
<1>6. Milder(cancelled)
  BY <1>2, <1>3, MildIfKept
<1>7. /\ cancelled["consumer"] = task["consumer"]
      /\ \A d \in Detectors : cancelled[d].pc = task[d].pc
  BY <1>1, <1>2, <1>3
<1> QED BY <1>1, <1>2, <1>3, <1>4, <1>5, <1>6, <1>7 DEF superseded, cancelled

\* The end of _append_audio keeps the invariant.
LEMMA AppendKeeps ==
  ASSUME Inv, task["consumer"].pc # "gone", NEW tk, Tasks(tk), Milder(tk),
         NEW p \in {partial, Outdated(partial)}, NEW start, EndsAppend(tk, p, start),
         turn'.start = start,
         \/ turn' = turn /\ orphans' \in {orphans, OutdatedAll}
         \/ /\ {"named", "rev", "start"} \subseteq DOMAIN turn'
            /\ turn'.rev = turn.rev + 1 /\ p = Outdated(partial) /\ orphans' = OutdatedAll,
         UNCHANGED <<mode, completed, turns, answering, drain, schedulerVars>>
  PROVE  Inv'
<1>1. IsPartial(partial) /\ IsPartial(p) /\ \A o \in orphans' : IsPartial(o)
  BY OutdatedShape DEF Inv, Shapes
<1>2. /\ Tasks(task') /\ IsPartial(partial')
      /\ \A d \in Detectors : task'[d] = tk[d]
      /\ task'["consumer"].pc \in {"none", "gone"} /\ task'["consumer"].cancelled = FALSE
      /\ partial' = p \/ start # None
  BY <1>1, AppendEnds
<1>3. Milder(task') /\ ~Ends("consumer")'
  BY <1>2 DEF Milder, Ends, Detectors
<1>4. /\ {"named", "rev", "start"} \subseteq DOMAIN turn' /\ turn'.rev \in Nat
      /\ turn.rev <= turn'.rev
      /\ turn'.start # None => completed < turn'.rev
  BY DEF Inv, Shapes, Order, Completed
<1>5. PartialIsCurrent'
  <2>1. CASE start # None
    BY <2>1 DEF PartialIsCurrent
  <2>2. CASE start = None /\ turn' = turn
    <3>1. \A o \in orphans' \cup {partial'} :
            o.fresh = FALSE \/ o \in orphans \cup {partial}
      BY <1>2, <2>2, <1>1, OutdatedShape DEF Inv, Shapes
    <3> QED BY <2>2, <3>1 DEF Inv, PartialIsCurrent, Fresh
  <2>3. CASE start = None /\ turn' # turn
    <3>1. \A o \in orphans' \cup {partial'} : o.fresh = FALSE
      BY <1>2, <2>3, <1>1, OutdatedShape DEF Inv, Shapes
    <3> QED BY <3>1 DEF PartialIsCurrent, Fresh
  <2> QED BY <2>1, <2>2, <2>3
<1> QED BY <1>1, <1>2, <1>3, <1>4, <1>5, ConsumerStep

\* A step that only moves the consumer, or takes a partial result back.
LEMMA ConsumerMoves ==
  ASSUME Inv, task["consumer"].pc # "gone", Tasks(task'), Milder(task'),
         task'["consumer"].cancelled = FALSE, ~Ends("consumer")',
         task'["consumer"].pc = "stopping" => mode = "smart_turn_v3",
         UNCHANGED <<turn, mode, completed, turns, answering, drain, schedulerVars>>,
         partial' \in {partial, Outdated(partial), CancelPartial(partial),
                      CancelPartial(Outdated(partial))},
         orphans' \in {orphans, OutdatedAll}
  PROVE  Inv'
<1>1. IsPartial(partial') /\ \A o \in orphans' : IsPartial(o)
  BY OutdatedShape DEF Inv, Shapes
<1>2. \A o \in orphans' \cup {partial'} :
        o.pc # "running" \/ o.fresh = FALSE \/ o \in orphans \cup {partial}
  BY OutdatedShape DEF Inv, Shapes
<1>3. PartialIsCurrent'
  BY <1>2 DEF Inv, PartialIsCurrent, Fresh
<1>4. /\ {"named", "rev", "start"} \subseteq DOMAIN turn' /\ turn'.rev \in Nat
      /\ turn.rev <= turn'.rev
      /\ turn'.start # None => completed < turn'.rev
  BY DEF Inv, Shapes, Order, Completed
<1> QED BY <1>1, <1>3, <1>4, ConsumerStep

\* The consumer's actions that complete no turn (session.update, the append and what
\* the thread has heard, speech that starts or goes on).
LEMMA TakesFree == Takes => task["consumer"].pc = "none" /\ drain = "no"
  BY NoTaskShape DEF Takes

\* An event that ends the session, or the handler does.
LEMMA FailsKeeps ==
  ASSUME Inv, task["consumer"].pc # "gone", Fails
  PROVE  Inv'
<1>1. Tasks(task) /\ Milder(task)
  BY MildTasks
<1>2. /\ Tasks(task') /\ task'["consumer"].pc = "gone" /\ task'["consumer"].cancelled = FALSE
      /\ \A d \in Detectors : task'[d] = task[d]
  BY <1>1, ConsumerEnds DEF Fails
<1>3. Milder(task') /\ ~Ends("consumer")'
  BY <1>1, <1>2 DEF Milder, Ends, Detectors
<1>4. UNCHANGED <<turn, mode, completed, turns, answering, drain, schedulerVars>>
      /\ partial' = partial /\ orphans' = orphans
  BY DEF Fails
<1> QED BY <1>2, <1>3, <1>4, ConsumerMoves

LEMMA MovesConsumer ==
  ASSUME Inv, task["consumer"].pc # "gone", NEW tk, Tasks(tk), Milder(tk),
         tk["consumer"].cancelled = FALSE, NEW at, NEW pc, pc \notin {"gather", "put"},
         pc = "stopping" => mode = "smart_turn_v3",
         \/ task' = [tk EXCEPT !["consumer"].pc = pc]
         \/ task' = [tk EXCEPT !["consumer"].pc = pc, !["consumer"].at = at],
         UNCHANGED <<turn, mode, completed, turns, answering, drain, schedulerVars>>,
         partial' \in {partial, Outdated(partial), CancelPartial(partial),
                      CancelPartial(Outdated(partial))},
         orphans' \in {orphans, OutdatedAll}
  PROVE  Inv'
<1>1. /\ Tasks(task') /\ task'["consumer"].pc = pc /\ task'["consumer"].cancelled = FALSE
      /\ \A d \in Detectors : task'[d] = tk[d]
  <2>1. "consumer" \in Actors /\ Detectors = Actors \ {"consumer"}
    BY DEF Actors, Detectors
  <2>2. CASE task' = [tk EXCEPT !["consumer"].pc = pc]
    BY <2>1, <2>2 DEF Tasks
  <2>3. CASE task' = [tk EXCEPT !["consumer"].pc = pc, !["consumer"].at = at]
    BY <2>1, <2>3 DEF Tasks
  <2> QED BY <2>2, <2>3
<1>2. Milder(task') /\ ~Ends("consumer")'
  BY <1>1 DEF Milder, Ends, Detectors
<1> QED BY <1>1, <1>2, ConsumerMoves

\* session.update.
LEMMA UpdateKeeps ==
  ASSUME Inv, NEW on, NEW threshold, UpdateSession(on, threshold)
  PROVE  Inv'
<1>1. task["consumer"].pc # "gone"
  BY TakesFree DEF UpdateSession
<1>2. CASE Fails
  BY <1>1, <1>2, FailsKeeps
<1>3. CASE UNCHANGED <<mode, buf, turn, verdicts, completed, task, partial, orphans,
                       turns, answering, broken, failing, drain, schedulerVars>>
  <2>1. Tasks(task) /\ Milder(task) /\ task["consumer"].cancelled = FALSE
    BY MildTasks
  <2>2. task["consumer"].pc = "none"
    BY TakesFree DEF UpdateSession
  <2>3. /\ Milder(task') /\ Tasks(task') /\ task'["consumer"].cancelled = FALSE
        /\ ~Ends("consumer")' /\ task'["consumer"].pc = "none"
    BY <1>3, <2>1, <2>2 DEF Milder, Tasks, Ends
  <2> QED BY <1>1, <1>3, <2>3, ConsumerMoves
<1> QED BY <1>2, <1>3 DEF UpdateSession

\* The start of an append, and its thread.
LEMMA HearsKeeps ==
  ASSUME Inv, AppendAudio(Window) \/ \E speech \in BOOLEAN : VadRuns(speech)
  PROVE  Inv'
<1>1. Tasks(task) /\ Milder(task) /\ task["consumer"].cancelled = FALSE
  BY MildTasks
<1>2. CASE AppendAudio(Window)
  <2>1. task["consumer"].pc = "none"
    BY <1>2, TakesFree DEF AppendAudio
  <2>2. CASE Fails
    BY <2>1, <2>2, FailsKeeps
  <2>3. CASE ~Fails
    <3>1. /\ \/ task' = task
             \/ task' = [task EXCEPT !["consumer"].pc = "vad", !["consumer"].at = Window]
          /\ UNCHANGED <<turn, mode, completed, turns, answering, drain, schedulerVars>>
          /\ partial' = partial /\ orphans' = orphans
      BY <1>2, <2>3 DEF AppendAudio
    <3>2. CASE task' = task
      <4>1. Milder(task') /\ Tasks(task') /\ task'["consumer"].cancelled = FALSE
            /\ ~Ends("consumer")' /\ task'["consumer"].pc = "none"
        BY <1>1, <2>1, <3>2 DEF Milder, Tasks, Ends
      <4> QED BY <2>1, <3>1, <4>1, ConsumerMoves
    <3>3. CASE task' = [task EXCEPT !["consumer"].pc = "vad", !["consumer"].at = Window]
      <4>1. "vad" \notin {"gather", "put"} /\ "vad" # "stopping" /\ task["consumer"].pc # "gone"
        BY <2>1
      <4> QED BY <1>1, <4>1, <3>1, <3>3, MovesConsumer
    <3> QED BY <3>1, <3>2, <3>3
  <2> QED BY <2>2, <2>3
<1>3. ASSUME NEW speech \in BOOLEAN, VadRuns(speech) PROVE Inv'
  <2> DEFINE r == Process(vad, task["consumer"].at, speech)
  <2>1. r.signal \in {"quiet", "started", "stopped"}
    BY DEF Process, Nothing, Advance, Listen, Follow
  <2>2. /\ task["consumer"].pc = "vad"
        /\ task' = [task EXCEPT !["consumer"].pc = r.signal, !["consumer"].at = r.at]
        /\ UNCHANGED <<turn, mode, completed, turns, answering, drain, schedulerVars>>
        /\ partial' = partial /\ orphans' = orphans
    BY <1>3 DEF VadRuns
  <2> HIDE DEF r
  <2> QED BY <1>1, <2>1, <2>2, MovesConsumer
<1> QED BY <1>2, <1>3

LEMMA ListensKeeps ==
  ASSUME Inv, HeardNothing \/ Interrupted \/ SpeechStarted
  PROVE  Inv'
<1>1. Tasks(task) /\ Milder(task) /\ task["consumer"].cancelled = FALSE
  BY MildTasks
<1>2. CASE HeardNothing \/ Interrupted
  <2>1. /\ task["consumer"].pc # "gone" /\ EndsAppend(task, partial, turn.start)
        /\ turn' = turn /\ orphans' = orphans
        /\ UNCHANGED <<mode, completed, turns, answering, drain, schedulerVars>>
    BY <1>2 DEF HeardNothing, Interrupted
  <2> QED BY <1>1, <2>1, AppendKeeps
<1>3. CASE SpeechStarted
  <2> DEFINE start == Clamped(task["consumer"].at)
  <2>1. /\ task["consumer"].pc = "started" /\ orphans' = OutdatedAll
        /\ turn' = [named |-> TRUE, rev |-> turn.rev + 1, start |-> start]
        /\ \/ EndsAppend(task, Outdated(partial), turn'.start)
           \/ /\ task' = [task EXCEPT !["consumer"].pc = "barge"]
              /\ partial' = Outdated(partial)
        /\ UNCHANGED <<mode, completed, turns, answering, drain, schedulerVars>>
    BY <1>3 DEF SpeechStarted
  <2> HIDE DEF start
  <2>2. /\ {"named", "rev", "start"} \subseteq DOMAIN turn'
        /\ turn'.rev = turn.rev + 1 /\ turn'.start = start
    BY <2>1
  <2>3. CASE EndsAppend(task, Outdated(partial), turn'.start)
    <3>1. EndsAppend(task, Outdated(partial), start)
      BY <2>2, <2>3
    <3> QED BY <1>1, <2>1, <2>2, <3>1, AppendKeeps
  <2>4. CASE /\ task' = [task EXCEPT !["consumer"].pc = "barge"]
             /\ partial' = Outdated(partial)
    <3>1. /\ Tasks(task') /\ task'["consumer"].pc = "barge"
          /\ task'["consumer"].cancelled = FALSE
          /\ \A d \in Detectors : task'[d] = task[d]
      BY <1>1, <2>4 DEF Tasks, Actors, Detectors
    <3>2. Milder(task') /\ ~Ends("consumer")'
      BY <1>1, <3>1 DEF Milder, Ends, Detectors
    <3>3. /\ IsPartial(partial') /\ partial'.fresh = FALSE
          /\ \A p \in orphans' : IsPartial(p) /\ p.fresh = FALSE
      BY <2>1, <2>4, OutdatedShape DEF Inv, Shapes
    <3>4. PartialIsCurrent'
      BY <3>3 DEF PartialIsCurrent, Fresh
    <3>5. /\ turn'.rev \in Nat /\ turn.rev <= turn'.rev
          /\ turn'.start # None => completed < turn'.rev
      BY <2>2 DEF Inv, Shapes, Order, Completed
    <3> QED BY <2>1, <2>2, <3>1, <3>2, <3>3, <3>4, <3>5, ConsumerStep
  <2> QED BY <2>1, <2>3, <2>4
<1> QED BY <1>2, <1>3

\* Speech goes on after all: the task that judges the pause is cancelled and waited for.
LEMMA ResumesKeeps ==
  ASSUME Inv, SpeechResumed \/ ResumedGathered
  PROVE  Inv'
<1> DEFINE tk == CancelDetection(Superseded(task))
<1>1. /\ Tasks(task) /\ Milder(task)
      /\ Tasks(tk) /\ Milder(tk) /\ tk["consumer"].cancelled = FALSE
  BY MildTasks
<1>2. CASE SpeechResumed
  <2>1. /\ task["consumer"].pc = "started" /\ turn' = turn
        /\ \/ /\ task' = [tk EXCEPT !["consumer"].pc = "resuming"]
              /\ partial' = partial /\ orphans' = orphans
           \/ orphans' = OutdatedAll /\ EndsAppend(tk, Outdated(partial), turn.start)
        /\ UNCHANGED <<mode, completed, turns, answering, drain, schedulerVars>>
    BY <1>2 DEF SpeechResumed
  <2> HIDE DEF tk
  <2>2. CASE EndsAppend(tk, Outdated(partial), turn.start) /\ orphans' = OutdatedAll
    BY <1>1, <2>1, <2>2, AppendKeeps
  <2>3. CASE /\ task' = [tk EXCEPT !["consumer"].pc = "resuming"]
             /\ partial' = partial /\ orphans' = orphans
    BY <1>1, <2>1, <2>3, MovesConsumer
  <2> QED BY <2>1, <2>2, <2>3
<1>3. CASE ResumedGathered
  <2>1. /\ task["consumer"].pc # "gone" /\ EndsAppend(task, Outdated(partial), turn.start)
        /\ turn' = turn /\ orphans' = OutdatedAll
        /\ UNCHANGED <<mode, completed, turns, answering, drain, schedulerVars>>
    BY <1>3 DEF ResumedGathered
  <2> QED BY <1>1, <2>1, AppendKeeps
<1> QED BY <1>2, <1>3

\* A new candidate, when no other task decides about a pause.
LEMMA CandidateStarts ==
  ASSUME Inv, NEW tk, Tasks(tk), \A d \in Detectors : tk[d].pc = "none", mode = "smart_turn_v3"
  PROVE  LET n == [tk EXCEPT !["candidate"] = NewCandidate]
         IN  Tasks(n) /\ Milder(n)
<1> DEFINE n == [tk EXCEPT !["candidate"] = NewCandidate]
<1>1. /\ {"pc", "rev", "cancelled"} \subseteq DOMAIN NewCandidate
      /\ NewCandidate.rev \in Nat /\ NewCandidate.cancelled = FALSE /\ NewCandidate.pc = "new"
  BY DEF NewCandidate, NoTask, Inv, Shapes
<1>2. /\ Tasks(n) /\ n["candidate"] = NewCandidate /\ n["fallback"] = tk["fallback"]
  BY <1>1 DEF Tasks, Actors, Detectors
<1> HIDE DEF n
<1>3. Milder(n)
  BY <1>1, <1>2 DEF Milder, Detectors
<1> QED BY <1>2, <1>3 DEF n

\* A pause: nothing to judge, an exception, the old task to wait for, or a new one.
LEMMA PausesKeeps ==
  ASSUME Inv, StopCandidate \/ StopGathered
  PROVE  Inv'
<1> DEFINE tk == CancelDetection(Superseded(task))
<1>1. /\ Tasks(task) /\ Milder(task) /\ task["consumer"].cancelled = FALSE
      /\ Tasks(Superseded(task)) /\ Milder(Superseded(task))
      /\ Tasks(tk) /\ Milder(tk) /\ tk["consumer"] = task["consumer"]
      /\ \A d \in Detectors : tk[d].pc = task[d].pc
  BY MildTasks
<1>2. CASE StopCandidate
  <2>1. /\ task["consumer"].pc = "stopped" /\ mode = "smart_turn_v3"
        /\ turn' = turn /\ orphans' = orphans
        /\ UNCHANGED <<mode, completed, turns, answering, drain, schedulerVars>>
        /\ \/ EndsAppend(task, partial, turn.start)
           \/ task' = Gone(Superseded(task)) /\ partial' = partial
           \/ task' = [tk EXCEPT !["consumer"].pc = "stopping"] /\ partial' = partial
           \/ /\ ~Detecting
              /\ EndsAppend([tk EXCEPT !["candidate"] = NewCandidate], partial, turn.start)
    BY <1>2 DEF StopCandidate
  <2> HIDE DEF tk
  <2>2. CASE EndsAppend(task, partial, turn.start)
    BY <1>1, <2>1, <2>2, AppendKeeps
  <2>3. CASE task' = Gone(Superseded(task)) /\ partial' = partial
    <3>1. /\ Tasks(task') /\ task'["consumer"].pc = "gone"
          /\ task'["consumer"].cancelled = FALSE
          /\ \A d \in Detectors : task'[d] = Superseded(task)[d]
      BY <1>1, <2>3, ConsumerEnds
    <3>2. Milder(task') /\ ~Ends("consumer")'
      BY <1>1, <3>1 DEF Milder, Ends, Detectors
    <3> QED BY <2>1, <2>3, <3>1, <3>2, ConsumerMoves
  <2>4. CASE task' = [tk EXCEPT !["consumer"].pc = "stopping"] /\ partial' = partial
    BY <1>1, <2>1, <2>4, MovesConsumer
  <2>5. CASE ~Detecting /\ EndsAppend([tk EXCEPT !["candidate"] = NewCandidate], partial, turn.start)
    <3> DEFINE n == [tk EXCEPT !["candidate"] = NewCandidate]
    <3>1. \A d \in Detectors : tk[d].pc = "none"
      BY <1>1, <2>5 DEF Detecting
    <3>2. Tasks(n) /\ Milder(n)
      BY <1>1, <2>1, <3>1, CandidateStarts
    <3>3. EndsAppend(n, partial, turn.start)
      BY <2>5
    <3> HIDE DEF n
    <3> QED BY <2>1, <3>2, <3>3, AppendKeeps
  <2> QED BY <2>1, <2>2, <2>3, <2>4, <2>5
<1>3. CASE StopGathered
  <2> DEFINE n == [task EXCEPT !["candidate"] = NewCandidate]
  <2>1. /\ task["consumer"].pc = "stopping" /\ ~Detecting
        /\ turn' = turn /\ orphans' = orphans
        /\ UNCHANGED <<mode, completed, turns, answering, drain, schedulerVars>>
        /\ EndsAppend(n, partial, turn.start)
    BY <1>3 DEF StopGathered
  <2>2. mode = "smart_turn_v3" /\ \A d \in Detectors : task[d].pc = "none"
    BY <2>1 DEF Inv, Order, OneDecides, Detecting
  <2>3. Tasks(n) /\ Milder(n)
    BY <1>1, <2>2, CandidateStarts
  <2> HIDE DEF n
  <2> QED BY <2>1, <2>3, AppendKeeps
<1> QED BY <1>2, <1>3

\* A turn that the consumer ends itself: nothing is detecting.
LEMMA ConsumerEndsTurn ==
  ASSUME Inv, task["consumer"].pc # "gone", ~Detecting,
         NEW tk, Tasks(tk), tk["consumer"].cancelled = FALSE,
         \A d \in Detectors : tk[d].pc = task[d].pc /\ tk[d].rev = task[d].rev,
         NEW t, {"named", "rev", "start"} \subseteq DOMAIN t, t.rev \in Nat,
         turn.rev <= t.rev, completed < t.rev, NEW to,
         StopSpeech("consumer", tk, t, to), UNCHANGED <<mode, drain, schedulerVars>>
  PROVE  Inv'
<1>1. "consumer" \in Actors /\ "consumer" \notin Detectors /\ Actors \ {"consumer"} = Detectors
  BY DEF Actors, Detectors
<1>2. Shapes' /\ Order' /\ PartialIsCurrent'
  BY <1>1, StopSpeechKeeps DEF Inv
<1>3. drain = "no"
  BY DEF Inv, DrainOrder
<1> QED BY <1>2, <1>3, Detected

\* Fixed silence: the pause itself ends the turn.
LEMMA FixedSilenceKeeps == ASSUME Inv, FixedSilence PROVE Inv'
<1> DEFINE tk == [task EXCEPT !["consumer"].next = "append"]
<1>1. /\ Tasks(task) /\ Milder(task) /\ task["consumer"].cancelled = FALSE
  BY MildTasks
<1>2. /\ task["consumer"].pc = "stopped" /\ mode = "fixed_silence"
      /\ UNCHANGED <<mode, drain, schedulerVars>>
      /\ \/ turn.start # None /\ StopSpeech("consumer", tk, turn, task["consumer"].at)
         \/ /\ UNCHANGED <<turn, completed, orphans, turns, answering>>
            /\ EndsAppend(task, partial, turn.start)
  BY DEF FixedSilence
<1>3. ~Detecting
  BY <1>2 DEF Inv, Order, OneDecides
<1>4. /\ Tasks(tk) /\ tk["consumer"].cancelled = FALSE
      /\ \A d \in Detectors : tk[d] = task[d]
  BY <1>1 DEF Tasks, Actors, Detectors
<1> HIDE DEF tk
<1>5. CASE turn.start # None /\ StopSpeech("consumer", tk, turn, task["consumer"].at)
  <2>1. /\ {"named", "rev", "start"} \subseteq DOMAIN turn /\ turn.rev \in Nat
        /\ turn.rev <= turn.rev /\ completed < turn.rev
    BY <1>5 DEF Inv, Shapes, Order, Completed
  <2> QED BY <1>2, <1>3, <1>4, <1>5, <2>1, ConsumerEndsTurn
<1>6. CASE /\ UNCHANGED <<turn, completed, orphans, turns, answering>>
           /\ EndsAppend(task, partial, turn.start)
  BY <1>1, <1>2, <1>6, AppendKeeps
<1> QED BY <1>2, <1>5, <1>6

\* input_audio_buffer.commit, once nothing is detecting.
LEMMA CommitsKeeps ==
  ASSUME Inv, task["consumer"].pc # "gone", ~Detecting, NEW tk, Tasks(tk), Milder(tk),
         \A d \in Detectors : tk[d].pc = task[d].pc /\ tk[d].rev = task[d].rev,
         Commits(tk), UNCHANGED <<mode, drain, schedulerVars>>
  PROVE  Inv'
<1> DEFINE committing == [tk EXCEPT !["consumer"] = [NoTask EXCEPT !.next = "commit"]]
           manual == [named |-> TRUE, rev |-> turn.rev + 1, start |-> buf.first]
<1>1. \/ turn.start # None /\ StopSpeech("consumer", committing, turn, buf.end)
      \/ /\ task' = Idle(tk)
         /\ UNCHANGED <<turn, completed, partial, orphans, turns, answering>>
      \/ StopSpeech("consumer", committing, manual, buf.end)
  BY DEF Commits
<1>2. /\ Tasks(committing) /\ committing["consumer"].cancelled = FALSE
      /\ \A d \in Detectors : committing[d] = tk[d]
  <2> DEFINE r == [NoTask EXCEPT !.next = "commit"]
  <2>1. /\ {"pc", "rev", "cancelled"} \subseteq DOMAIN r
        /\ r.rev \in Nat /\ r.cancelled = FALSE
    BY DEF NoTask
  <2>2. committing = [tk EXCEPT !["consumer"] = r]
    OBVIOUS
  <2> HIDE DEF r, committing
  <2> QED BY <2>1, <2>2 DEF Tasks, Actors, Detectors
<1>3. /\ {"named", "rev", "start"} \subseteq DOMAIN manual /\ manual.rev \in Nat
      /\ turn.rev <= manual.rev /\ completed < manual.rev
      /\ {"named", "rev", "start"} \subseteq DOMAIN turn /\ turn.rev \in Nat
      /\ turn.rev <= turn.rev
      /\ turn.start # None => completed < turn.rev
  BY DEF Inv, Shapes, Order, Completed
<1> HIDE DEF committing, manual
<1>4. CASE turn.start # None /\ StopSpeech("consumer", committing, turn, buf.end)
  BY <1>2, <1>3, <1>4, ConsumerEndsTurn
<1>5. CASE StopSpeech("consumer", committing, manual, buf.end)
  BY <1>2, <1>3, <1>5, ConsumerEndsTurn
<1>6. CASE /\ task' = Idle(tk)
           /\ UNCHANGED <<turn, completed, partial, orphans, turns, answering>>
  <2>1. /\ Tasks(task') /\ task'["consumer"].pc = "none"
        /\ task'["consumer"].cancelled = FALSE
        /\ \A d \in Detectors : task'[d] = tk[d]
    BY <1>6, ConsumerEnds
  <2>2. Milder(task') /\ ~Ends("consumer")'
    BY <2>1 DEF Milder, Ends, Detectors
  <2> QED BY <1>6, <2>1, <2>2, ConsumerMoves
<1> QED BY <1>1, <1>4, <1>5, <1>6

LEMMA CommitKeeps == ASSUME Inv, CommitAudio \/ CommitGathered PROVE Inv'
<1> DEFINE tk == CancelDetection(Superseded(task))
<1>1. /\ Tasks(task) /\ Milder(task) /\ task["consumer"].cancelled = FALSE
      /\ Tasks(tk) /\ Milder(tk) /\ tk["consumer"] = task["consumer"]
      /\ \A d \in Detectors : tk[d].pc = task[d].pc /\ tk[d].rev = task[d].rev
  <2>1. \A d \in Detectors : tk[d].rev = task[d].rev
    BY DEF Superseded, CancelDetection, Inv, Shapes, Tasks, Actors, Detectors
  <2> QED BY <2>1, MildTasks
<1>2. CASE CommitAudio
  <2>1. /\ task["consumer"].pc = "none"
        /\ UNCHANGED <<mode, drain, schedulerVars>>
        /\ \/ /\ task' = [tk EXCEPT !["consumer"].pc = "committing"]
              /\ UNCHANGED <<turn, completed, partial, orphans, turns, answering>>
           \/ ~Detecting /\ Commits(tk)
    BY <1>2, TakesFree DEF CommitAudio
  <2> HIDE DEF tk
  <2>2. CASE /\ task' = [tk EXCEPT !["consumer"].pc = "committing"]
             /\ UNCHANGED <<turn, completed, partial, orphans, turns, answering>>
    BY <1>1, <2>1, <2>2, MovesConsumer
  <2>3. CASE ~Detecting /\ Commits(tk)
    BY <1>1, <2>1, <2>3, CommitsKeeps
  <2> QED BY <2>1, <2>2, <2>3
<1>3. CASE CommitGathered
  BY <1>1, <1>3, CommitsKeeps DEF CommitGathered
<1> QED BY <1>2, <1>3

\* input_audio_buffer.clear, once nothing is detecting.
LEMMA ClearsKeeps ==
  ASSUME Inv, task["consumer"].pc # "gone", NEW tk, Tasks(tk), Milder(tk),
         tk["consumer"].cancelled = FALSE,
         NEW p \in {partial, Outdated(partial), NoPartial}, Clears(tk, p),
         orphans' \in {orphans, OutdatedAll},
         UNCHANGED <<mode, completed, turns, answering, drain, schedulerVars>>
  PROVE  Inv'
<1>1. /\ IsPartial(p) /\ IsPartial(CancelPartial(p)) /\ CancelPartial(p).pc # "running"
      /\ CancelPartial(p).fresh = p.fresh /\ \A o \in orphans' : IsPartial(o)
  BY OutdatedShape DEF Inv, Shapes, NoPartial, IsPartial
<1>2. CASE /\ partial' = CancelPartial(p) /\ UNCHANGED turn
           /\ task' = [tk EXCEPT !["consumer"].pc = "clearing partial"]
  <2>1. /\ Tasks(task') /\ task'["consumer"].pc = "clearing partial"
        /\ task'["consumer"].cancelled = FALSE
        /\ \A d \in Detectors : task'[d] = tk[d]
    BY <1>2 DEF Tasks, Actors, Detectors
  <2>2. Milder(task') /\ ~Ends("consumer")'
    BY <2>1 DEF Milder, Ends, Detectors
  <2>3. \A o \in orphans' \cup {partial'} :
          o.pc # "running" \/ o.fresh = FALSE \/ o \in orphans
    <3>1. partial'.pc # "running"
      BY <1>1, <1>2
    <3>2. ASSUME NEW o \in orphans' PROVE o.fresh = FALSE \/ o \in orphans
      <4>1. \A q \in orphans : IsPartial(q)
        BY DEF Inv, Shapes
      <4> QED BY <3>2, <4>1, OutdatedShape
    <3> QED BY <3>1, <3>2
  <2>4. PartialIsCurrent'
    BY <1>2, <2>3 DEF Inv, PartialIsCurrent, Fresh
  <2>5. /\ {"named", "rev", "start"} \subseteq DOMAIN turn' /\ turn'.rev \in Nat
        /\ turn.rev <= turn'.rev
        /\ turn'.start # None => completed < turn'.rev
    <3>1. turn' = turn
      BY <1>2
    <3>2. /\ {"named", "rev", "start"} \subseteq DOMAIN turn /\ turn.rev \in Nat
          /\ turn.start # None => completed < turn.rev
      BY DEF Inv, Shapes, Order, Completed
    <3> QED BY <3>1, <3>2
  <2> QED BY <1>1, <1>2, <2>1, <2>2, <2>4, <2>5, ConsumerStep
<1>3. CASE /\ partial' = p /\ task' = Idle(tk)
           /\ turn' = [turn EXCEPT !.named = FALSE, !.start = None]
  <2>1. /\ Tasks(task') /\ task'["consumer"].pc = "none"
        /\ task'["consumer"].cancelled = FALSE
        /\ \A d \in Detectors : task'[d] = tk[d]
    BY <1>3, ConsumerEnds
  <2>2. Milder(task') /\ ~Ends("consumer")'
    BY <2>1 DEF Milder, Ends, Detectors
  <2>3. /\ {"named", "rev", "start"} \subseteq DOMAIN turn'
        /\ turn'.named = FALSE /\ turn'.rev = turn.rev /\ turn'.start = None
    BY <1>3 DEF Inv, Shapes
  <2>4. PartialIsCurrent'
    BY <2>3 DEF PartialIsCurrent, Fresh
  <2>5. /\ turn'.rev \in Nat /\ turn.rev <= turn'.rev
        /\ turn'.start # None => completed < turn'.rev
    BY <2>3 DEF Inv, Shapes
  <2> QED BY <1>1, <1>3, <2>1, <2>2, <2>3, <2>4, <2>5, ConsumerStep
<1> QED BY <1>2, <1>3 DEF Clears

LEMMA ClearKeeps == ASSUME Inv, ClearAudio \/ ClearGathered PROVE Inv'
<1> DEFINE tk == CancelDetection(Superseded(task))
<1>1. /\ Tasks(task) /\ Milder(task) /\ task["consumer"].cancelled = FALSE
      /\ Tasks(tk) /\ Milder(tk) /\ tk["consumer"] = task["consumer"]
  BY MildTasks
<1>2. CASE ClearAudio
  <2>1. /\ task["consumer"].pc = "none" /\ orphans' = OutdatedAll
        /\ UNCHANGED <<mode, completed, turns, answering, drain, schedulerVars>>
        /\ \/ /\ task' = [tk EXCEPT !["consumer"].pc = "clearing"]
              /\ partial' = Outdated(partial) /\ UNCHANGED turn
           \/ Clears(tk, Outdated(partial))
    BY <1>2, TakesFree DEF ClearAudio
  <2> HIDE DEF tk
  <2>2. CASE /\ task' = [tk EXCEPT !["consumer"].pc = "clearing"]
             /\ partial' = Outdated(partial) /\ UNCHANGED turn
    BY <1>1, <2>1, <2>2, MovesConsumer
  <2>3. CASE Clears(tk, Outdated(partial))
    BY <1>1, <2>1, <2>3, ClearsKeeps
  <2> QED BY <2>1, <2>2, <2>3
<1>3. CASE ClearGathered
  <2>1. /\ task["consumer"].pc # "gone" /\ orphans' = orphans
        /\ UNCHANGED <<mode, completed, turns, answering, drain, schedulerVars>>
        /\ Clears(task, partial) \/ Clears(task, NoPartial)
    BY <1>3 DEF ClearGathered
  <2> QED BY <1>1, <2>1, ClearsKeeps
<1> QED BY <1>2, <1>3

-----------------------------------------------------------------------------
(* The detection tasks.                                                    *)

\* A detection task that moves, ends or hands over, and completes no turn.
LEMMA DetectorStep ==
  ASSUME Inv, Tasks(task'), Milder(task'), task'["consumer"] = task["consumer"],
         ~Detecting => ~Detecting', SchedulerInv',
         UNCHANGED <<mode, turn, completed, partial, orphans, turns, answering, drain, release>>
  PROVE  Inv'
<1>1. Shapes'
  BY DEF Inv, Shapes
<1>2. \A a \in Actors : Ends(a)' =>
         Ends(a) /\ task'[a].rev = task[a].rev /\ (task[a].cancelled => task'[a].cancelled)
  BY DEF Milder, Actors, Detectors, Ends
<1>3. /\ turn'.rev \in Nat /\ turn.rev <= turn'.rev
      /\ turn'.start # None => completed < turn'.rev
  <2>1. /\ turn.rev \in Nat
        /\ turn.start # None => completed < turn.rev
    BY DEF Inv, Shapes, Order, Completed
  <2> QED BY <2>1
<1>4. TurnsInOrder' /\ Completed'
  BY <1>2, <1>3, OrderStays DEF Inv
<1>5. OneDecides'
  <2>1. /\ ~task["consumer"].cancelled
        /\ Ends("consumer") => ~Detecting
        /\ task["consumer"].pc = "stopping" => mode = "smart_turn_v3"
    BY DEF Inv, Order, OneDecides
  <2> QED BY <2>1 DEF Milder, OneDecides, Detecting, Ends
<1>6. PartialIsCurrent'
  BY DEF Inv, PartialIsCurrent, Fresh
<1>7. drain # "no" => task'["consumer"].pc = "gone"
  BY DEF Inv, DrainOrder
<1> QED BY <1>1, <1>4, <1>5, <1>6, <1>7, DrainStays DEF Order

LEMMA DetectorIs == Detectors = {"candidate", "fallback"} /\ Detectors \subseteq Actors
                    /\ "consumer" \notin Detectors /\ "consumer" \in Actors
  BY DEF Actors, Detectors

\* A detection task that ends, and leaves the scheduler well.
LEMMA DetectorEnds ==
  ASSUME Inv, NEW d \in Detectors, task' = [task EXCEPT ![d] = NoTask], SchedulerInv',
         UNCHANGED <<mode, turn, completed, partial, orphans, turns, answering, drain, release>>
  PROVE  Inv'
<1>1. Tasks(task) /\ Milder(task)
  BY MildTasks
<1>2. /\ Tasks(task') /\ task'[d].pc = "none"
      /\ \A b \in Actors \ {d} : task'[b] = task[b]
  BY <1>1, NoTaskShape, DetectorIs DEF Tasks
<1>3. task'["consumer"] = task["consumer"]
  BY <1>2, DetectorIs
<1>4. Milder(task')
  BY <1>1, <1>2, DetectorIs DEF Milder
<1>5. ~Detecting => ~Detecting'
  BY <1>2, DetectorIs DEF Detecting
<1> QED BY <1>2, <1>3, <1>4, <1>5, DetectorStep

\* A detection task that goes on to another suspension, and queues nothing.
LEMMA DetectorMoves ==
  ASSUME Inv, NEW d \in Detectors, task[d].pc # "none", NEW pc, pc \notin {"gather", "put"},
         task' = [task EXCEPT ![d].pc = pc], SchedulerInv',
         UNCHANGED <<mode, turn, completed, partial, orphans, turns, answering, drain, release>>
  PROVE  Inv'
<1>1. Tasks(task) /\ Milder(task)
  BY MildTasks
<1>2. /\ Tasks(task') /\ task'[d].pc = pc
      /\ \A b \in Actors \ {d} : task'[b] = task[b]
  BY <1>1, DetectorIs DEF Tasks
<1>3. task'["consumer"] = task["consumer"]
  BY <1>2, DetectorIs
<1>4. Milder(task')
  BY <1>1, <1>2, DetectorIs DEF Milder
<1>5. Detecting
  BY DEF Detecting
<1> QED BY <1>2, <1>3, <1>4, <1>5, DetectorStep

\* A detection task that ends the turn.
LEMMA DetectorEndsTurn ==
  ASSUME Inv, NEW d \in Detectors, task[d].pc # "none", ~task[d].cancelled,
         turn.start # None, drain = "no", NEW to, StopSpeech(d, task, turn, to),
         SchedulerInv', UNCHANGED <<mode, drain, release>>
  PROVE  Inv'
<1>1. /\ Tasks(task) /\ task[d].cancelled = FALSE /\ task["consumer"].cancelled = FALSE
      /\ d \in Actors /\ d # "consumer"
  BY MildTasks, DetectorIs DEF Tasks
<1>2. /\ {"named", "rev", "start"} \subseteq DOMAIN turn /\ turn.rev \in Nat
      /\ turn.rev <= turn.rev /\ completed < turn.rev
  BY DEF Inv, Shapes, Order, Completed
<1>3. Shapes' /\ Order' /\ PartialIsCurrent'
  BY <1>1, <1>2, StopSpeechKeeps DEF Inv
<1> QED BY <1>3, DrainStays

\* The scheduler as it is.
LEMMA SchedulerSame == SchedulerInv /\ UNCHANGED schedulerVars => SchedulerInv' /\ UNCHANGED release
  BY DEF SchedulerInv, SchedulerTypeOK, JobsHaveWorker, ReleasedIsIdle, schedulerVars

LEMMA UnwindsKeeps == ASSUME Inv, NEW a \in Actors, Unwinds(a) PROVE Inv'
<1>1. a # "consumer"
  BY MildTasks DEF Unwinds
<1>2. a \in Detectors
  BY <1>1 DEF Actors, Detectors
<1>3. SchedulerInv' /\ UNCHANGED release
  BY ThisSession, WaiterLeavesKeeps, SchedulerSame DEF Inv, Unwinds, WaiterLeaves
<1> QED BY <1>2, <1>3, DetectorEnds DEF Unwinds

\* The two ways on for a task that has completed its turn.
LEMMA EndsGoOn ==
  ASSUME Inv, NEW a \in Actors, task[a].cancelled = FALSE, Ends(a), Tasks(task'),
         \A b \in Actors \ {a} : task'[b] = task[b],
         task'[a].cancelled = FALSE, task'[a].pc \in {"none", "gone", "put"},
         task'[a].pc = "put" => task'[a].rev = task[a].rev,
         \/ turns' = turns
         \/ turns' = Append(turns, task[a].rev) /\ task'[a].pc = "none",
         {"pc", "rev"} \subseteq DOMAIN answering', answering'.rev = answering.rev,
         IsPartial(partial'), \A p \in orphans' : IsPartial(p), PartialIsCurrent',
         UNCHANGED <<mode, turn, completed, drain, schedulerVars>>
  PROVE  Inv'
<1>1. \A b \in Actors \ {a} : ~Ends(b)
  <2>1. a = "consumer" => ~Detecting
    BY DEF Inv, Order, OneDecides
  <2>2. a \in Detectors => task[a].pc # "none"
    BY DEF Ends
  <2> QED BY <2>1, <2>2, EndsAlone DEF Inv, Order
<1>2. /\ Tasks(task) /\ task[a].rev \in Nat /\ completed \in Nat /\ turn.rev \in Nat
      /\ answering.rev < task[a].rev /\ task[a].rev <= completed
      /\ \A i \in DOMAIN turns : turns[i] < task[a].rev
  BY DEF Inv, Shapes, Tasks, Order, Completed, TurnsInOrder
<1>3. /\ completed' \in Nat /\ completed <= completed' /\ task[a].rev <= completed'
      /\ turn'.rev \in Nat /\ completed' <= turn'.rev
      /\ turn'.start # None => completed' < turn'.rev
  <2>1. /\ completed <= turn.rev
        /\ turn.start # None => completed < turn.rev
    BY DEF Inv, Order, Completed
  <2> QED BY <1>2, <2>1
<1>4. TurnsInOrder' /\ Completed' /\ turns' \in Seq(Nat)
  BY <1>1, <1>2, <1>3, OrderGrows DEF Inv, Ends
<1>5. Shapes'
  BY <1>4 DEF Inv, Shapes
<1>6. OneDecides' /\ (drain # "no" => task'["consumer"].pc = "gone")
      /\ (drain # "no" /\ ~Detecting => ~Detecting')
  <2>1. CASE a = "consumer"
    <3>1. \A d \in Detectors : task'[d] = task[d]
      BY <2>1, DetectorIs
    <3>2. drain = "no"
      BY <2>1 DEF Inv, DrainOrder, Ends
    <3>3. ~Detecting /\ ~Detecting'
      BY <2>1, <3>1 DEF Inv, Order, OneDecides, Detecting
    <3>4. (task["candidate"].pc = "none" \/ task["fallback"].pc = "none")'
      BY <3>3, DetectorIs DEF Detecting
    <3> QED BY <2>1, <3>2, <3>3, <3>4 DEF OneDecides
  <2>2. CASE a \in Detectors
    <3>1. task'["consumer"] = task["consumer"]
      BY <2>2, DetectorIs
    <3>2. Detecting
      BY <2>2 DEF Detecting, Ends
    <3>3. ~Ends("consumer")' /\ mode' = "smart_turn_v3"
      BY <3>1, <3>2 DEF Inv, Order, OneDecides, Ends
    <3>4. (task["candidate"].pc = "none" \/ task["fallback"].pc = "none")'
      BY <2>2, DetectorIs DEF Inv, Order, OneDecides, Ends
    <3>5. task'["consumer"].cancelled = FALSE
      BY <3>1, MildTasks
    <3>6. drain # "no" => task'["consumer"].pc = "gone"
      BY <3>1 DEF Inv, DrainOrder
    <3> QED BY <3>2, <3>3, <3>4, <3>5, <3>6 DEF OneDecides
  <2> QED BY <2>1, <2>2 DEF Actors, Detectors
<1>7. SchedulerInv' /\ UNCHANGED release
  BY SchedulerSame DEF Inv
<1> QED BY <1>4, <1>5, <1>6, <1>7, DrainStays DEF Order

LEMMA PartialGatheredKeeps == ASSUME Inv, NEW a \in Actors, PartialGathered(a) PROVE Inv'
<1>1. /\ Tasks(task) /\ task[a].cancelled = FALSE /\ Ends(a)
      /\ {"pc", "rev"} \subseteq DOMAIN answering
  BY DEF PartialGathered, At, Inv, Shapes, Tasks, Ends
<1>2. /\ Tasks(task')
      /\ \A b \in Actors \ {a} : task'[b] = task[b]
      /\ task'[a].cancelled = FALSE /\ task'[a].pc \in {"none", "gone", "put"}
      /\ task'[a].pc = "put" => task'[a].rev = task[a].rev
      /\ \/ turns' = turns
         \/ turns' = Append(turns, task[a].rev) /\ task'[a].pc = "none"
      /\ {"pc", "rev"} \subseteq DOMAIN answering' /\ answering'.rev = answering.rev
  BY <1>1, EnqueueTasks DEF PartialGathered
<1>3. /\ UNCHANGED <<mode, turn, completed, drain, schedulerVars>>
      /\ partial' = NoPartial
      /\ orphans' = orphans \cup (IF partial.pc = "running" THEN {partial} ELSE {})
  BY DEF PartialGathered
<1>4. /\ IsPartial(partial') /\ partial'.pc = "none"
      /\ \A p \in orphans' : IsPartial(p) /\ p \in orphans \cup {partial}
  BY <1>3 DEF Inv, Shapes, IsPartial, NoPartial
<1>5. PartialIsCurrent'
  BY <1>3, <1>4 DEF Inv, PartialIsCurrent, Fresh
<1> QED BY <1>1, <1>2, <1>3, <1>4, <1>5, EndsGoOn

LEMMA PutGetsRoomKeeps == ASSUME Inv, NEW a \in Actors, PutGetsRoom(a) PROVE Inv'
<1>1. /\ Tasks(task) /\ task[a].cancelled = FALSE /\ Ends(a)
  BY DEF PutGetsRoom, At, Inv, Shapes, Tasks, Ends
<1>2. /\ task' = [task EXCEPT ![a] = NoTask] /\ turns' = Append(turns, task[a].rev)
      /\ UNCHANGED <<mode, turn, completed, drain, schedulerVars>>
      /\ partial' = partial /\ orphans' = orphans /\ answering' = answering
  BY DEF PutGetsRoom, Returns
<1>3. /\ Tasks(task') /\ task'[a].pc = "none" /\ task'[a].cancelled = FALSE
      /\ \A b \in Actors \ {a} : task'[b] = task[b]
  BY <1>1, <1>2, NoTaskShape DEF Tasks
<1>4. /\ IsPartial(partial') /\ \A p \in orphans' : IsPartial(p)
      /\ {"pc", "rev"} \subseteq DOMAIN answering'
  BY <1>2 DEF Inv, Shapes
<1>5. PartialIsCurrent'
  BY <1>2 DEF Inv, PartialIsCurrent, Fresh
<1> QED BY <1>1, <1>2, <1>3, <1>4, <1>5, EndsGoOn

\* submit, by the candidate: the drain still waits for it.
LEMMA CandidateSubmitsKeeps == ASSUME Inv, CandidateSubmits PROVE Inv'
<1>1. "candidate" \in Detectors /\ task["candidate"].pc = "new"
  BY DetectorIs DEF CandidateSubmits, At
<1>2. Detecting
  BY <1>1 DEF Detecting
<1>3. release[Me] = "no"
  BY <1>2 DEF Inv, DrainOrder, Shapes
<1>4. SchedulerInv' /\ UNCHANGED release
  BY <1>3, ThisSession, SubmitKeeps DEF Inv, CandidateSubmits, Submit
<1>5. task' = [task EXCEPT !["candidate"].pc = "submit"]
      /\ UNCHANGED <<mode, turn, completed, partial, orphans, turns, answering, drain>>
  BY DEF CandidateSubmits
<1>6. "submit" \notin {"gather", "put"} /\ task["candidate"].pc # "none"
  BY <1>1
<1> QED BY <1>1, <1>4, <1>5, <1>6, DetectorMoves

LEMMA CandidateAnsweredKeeps == ASSUME Inv, CandidateAnswered PROVE Inv'
<1>1. "candidate" \in Detectors /\ task["candidate"].pc = "submit" /\ ~task["candidate"].cancelled
  BY DetectorIs DEF CandidateAnswered, At
<1>2. SchedulerInv'
  BY ThisSession DEF CandidateAnswered, Inv, SchedulerInv, SchedulerTypeOK, JobsHaveWorker,
     ReleasedIsIdle
<1> DEFINE over == [task EXCEPT !["candidate"] = NoTask]
<1>3. /\ UNCHANGED <<mode, drain, release>>
      /\ \/ /\ task' = over
            /\ UNCHANGED <<turn, completed, partial, orphans, turns, answering>>
         \/ /\ ~CandidateStale
            /\ StopSpeech("candidate", task, turn, task["candidate"].at)
         \/ /\ task' = [over EXCEPT !["fallback"] = NewFallback]
            /\ UNCHANGED <<turn, completed, partial, orphans, turns, answering>>
  BY DEF CandidateAnswered
<1>4. CASE /\ task' = over
           /\ UNCHANGED <<turn, completed, partial, orphans, turns, answering>>
  BY <1>1, <1>2, <1>3, <1>4, DetectorEnds
<1>5. CASE /\ ~CandidateStale
           /\ StopSpeech("candidate", task, turn, task["candidate"].at)
  <2>1. drain = "no" /\ turn.start # None /\ task["candidate"].pc # "none"
    BY <1>1, <1>5 DEF CandidateStale
  <2> QED BY <1>1, <1>2, <1>3, <1>5, <2>1, DetectorEndsTurn
<1>6. CASE /\ task' = [over EXCEPT !["fallback"] = NewFallback]
           /\ UNCHANGED <<turn, completed, partial, orphans, turns, answering>>
  <2>1. Tasks(task) /\ Milder(task)
    BY MildTasks
  <2>2. /\ {"pc", "rev", "cancelled"} \subseteq DOMAIN NewFallback
        /\ NewFallback.rev = task["candidate"].rev /\ NewFallback.cancelled = FALSE
        /\ NewFallback.pc = "sleep"
    BY DEF NewFallback, NoTask
  <2>3. task["candidate"].rev \in Nat
    BY <2>1, DetectorIs DEF Tasks
  <2>4. /\ Tasks(task') /\ task'["candidate"].pc = "none" /\ task'["fallback"].pc = "sleep"
        /\ task'["consumer"] = task["consumer"]
    BY <1>6, <2>1, <2>2, <2>3, NoTaskShape, DetectorIs DEF Tasks
  <2>5. Detecting
    BY <1>1 DEF Detecting
  <2>6. Milder(task')
    BY <1>1, <2>1, <2>4, DetectorIs DEF Milder
  <2> QED BY <1>2, <1>3, <1>6, <2>4, <2>5, <2>6, DetectorStep
<1> QED BY <1>3, <1>4, <1>5, <1>6

LEMMA FallbackKeeps == ASSUME Inv, FallbackWakes \/ FallbackWatched PROVE Inv'
<1>1. /\ "fallback" \in Detectors /\ task["fallback"].pc # "none" /\ ~task["fallback"].cancelled
      /\ "watch" \notin {"gather", "put"}
  BY DetectorIs DEF FallbackWakes, FallbackWatched, At
<1>2. SchedulerInv' /\ UNCHANGED release
  BY SchedulerSame DEF Inv, FallbackWakes, FallbackWatched
<1>3. /\ UNCHANGED <<mode, drain>>
      /\ \/ /\ task' = [task EXCEPT !["fallback"].pc = "watch"]
            /\ UNCHANGED <<turn, completed, partial, orphans, turns, answering>>
         \/ FallbackHolds /\ StopSpeech("fallback", task, turn, task["fallback"].at)
         \/ /\ task' = [task EXCEPT !["fallback"] = NoTask]
            /\ UNCHANGED <<turn, completed, partial, orphans, turns, answering>>
  BY DEF FallbackWakes, FallbackWatched, FallbackDecides
<1>4. CASE /\ task' = [task EXCEPT !["fallback"].pc = "watch"]
           /\ UNCHANGED <<turn, completed, partial, orphans, turns, answering>>
  BY <1>1, <1>2, <1>3, <1>4, DetectorMoves
<1>5. CASE FallbackHolds /\ StopSpeech("fallback", task, turn, task["fallback"].at)
  <2>1. drain = "no" /\ turn.start # None
    BY <1>5 DEF FallbackHolds
  <2> QED BY <1>1, <1>2, <1>3, <1>5, <2>1, DetectorEndsTurn
<1>6. CASE /\ task' = [task EXCEPT !["fallback"] = NoTask]
           /\ UNCHANGED <<turn, completed, partial, orphans, turns, answering>>
  BY <1>1, <1>2, <1>3, <1>6, DetectorEnds
<1> QED BY <1>3, <1>4, <1>5, <1>6

-----------------------------------------------------------------------------
(* Partial transcription, the queue of turns, and the drain.               *)

\* A step of the partial tasks: nothing new becomes current.
LEMMA PartialKeeps == ASSUME Inv, PartialAnswered \/ PartialUnwinds PROVE Inv'
<1>1. /\ UNCHANGED <<mode, turn, completed, task, turns, answering, drain, schedulerVars>>
      /\ \A p \in orphans' \cup {partial'} : p = DonePartial \/ p \in orphans \cup {partial}
  BY DEF PartialAnswered, PartialUnwinds
<1>2. IsPartial(DonePartial) /\ DonePartial.pc = "done"
  BY DEF IsPartial, DonePartial, NoPartial
<1>3. /\ IsPartial(partial') /\ \A p \in orphans' : IsPartial(p)
  BY <1>1, <1>2 DEF Inv, Shapes
<1>4. PartialIsCurrent'
  BY <1>1, <1>2 DEF Inv, PartialIsCurrent, Fresh
<1>5. Shapes'
  BY <1>1, <1>3 DEF Inv, Shapes, Tasks
<1>6. Order'
  BY <1>1 DEF Inv, Order, OneDecides, Completed, TurnsInOrder, Ends, Detecting
<1>7. /\ drain # "no" => task'["consumer"].pc = "gone"
      /\ drain # "no" /\ ~Detecting => ~Detecting'
  BY <1>1 DEF Inv, DrainOrder, Detecting
<1> QED BY <1>1, <1>4, <1>5, <1>6, <1>7, Detected

\* _run_completed_turns takes the oldest turn, or has answered it.
LEMMA WorkerKeeps ==
  ASSUME Inv, WorkerTakes \/ \E fails \in BOOLEAN : WorkerAnswers(fails)
  PROVE  Inv'
<1>1. UNCHANGED <<mode, turn, completed, task, partial, orphans, drain, schedulerVars>>
  BY DEF WorkerTakes, WorkerAnswers
<1>2. /\ turns' \in Seq(Nat) /\ {"pc", "rev"} \subseteq DOMAIN answering'
      /\ answering'.rev \in Nat /\ answering'.rev <= completed
      /\ \A i \in DOMAIN turns' : turns'[i] <= completed /\ answering'.rev < turns'[i]
      /\ \A i, j \in DOMAIN turns' : i < j => turns'[i] < turns'[j]
      /\ \A a \in Actors : Ends(a) /\ ~task[a].cancelled =>
           answering'.rev < task[a].rev /\ \A i \in DOMAIN turns' : turns'[i] < task[a].rev
  <2>1. /\ turns \in Seq(Nat) /\ {"pc", "rev"} \subseteq DOMAIN answering
        /\ answering.rev \in Nat /\ answering.rev <= completed
        /\ \A i \in DOMAIN turns : turns[i] <= completed /\ answering.rev < turns[i]
        /\ \A i, j \in DOMAIN turns : i < j => turns[i] < turns[j]
        /\ \A a \in Actors : Ends(a) /\ ~task[a].cancelled =>
             answering.rev < task[a].rev /\ \A i \in DOMAIN turns : turns[i] < task[a].rev
    BY DEF Inv, Shapes, Order, Completed, TurnsInOrder
  <2>2. CASE WorkerTakes
    <3>1. /\ turns # <<>> /\ answering' = [pc |-> "busy", rev |-> Head(turns)]
          /\ turns' = Tail(turns)
      BY <2>2 DEF WorkerTakes
    <3>2. /\ Len(turns) \in Nat /\ Len(turns) > 0 /\ DOMAIN turns = 1..Len(turns)
          /\ Head(turns) = turns[1] /\ turns' \in Seq(Nat)
          /\ DOMAIN turns' = 1..(Len(turns) - 1)
          /\ \A i \in 1..(Len(turns) - 1) : turns'[i] = turns[i + 1]
      BY <2>1, <3>1
    <3>3. 1 \in DOMAIN turns /\ \A i \in DOMAIN turns' : i \in Nat /\ 1 < i + 1 /\ i + 1 \in DOMAIN turns
      BY <3>2
    <3>4. /\ answering'.rev = turns[1] /\ turns[1] \in Nat
          /\ {"pc", "rev"} \subseteq DOMAIN answering'
      BY <2>1, <3>1, <3>2, <3>3
    <3>5. \A i, j \in DOMAIN turns' : i < j => turns'[i] < turns'[j]
      BY <2>1, <3>2, <3>3
    <3> QED BY <2>1, <3>2, <3>3, <3>4, <3>5
  <2>3. CASE \E fails \in BOOLEAN : WorkerAnswers(fails)
    <3>1. /\ turns' = turns /\ {"pc", "rev"} \subseteq DOMAIN answering'
          /\ answering'.rev = answering.rev
      BY <2>1, <2>3 DEF WorkerAnswers
    <3> QED BY <2>1, <3>1
  <2> QED BY <2>2, <2>3
<1>3. Shapes'
  BY <1>1, <1>2 DEF Inv, Shapes, Tasks, IsPartial
<1>4. OneDecides'
  BY <1>1 DEF Inv, Order, OneDecides, Detecting, Ends
<1>5. Completed'
  BY <1>1, <1>2 DEF Inv, Order, Completed, Ends
<1>6. TurnsInOrder'
  <2>1. \A a, b \in Actors : Ends(a) /\ ~task[a].cancelled /\ Ends(b) /\ ~task[b].cancelled /\ a # b
          => task[a].rev # task[b].rev
    BY DEF Inv, Order, TurnsInOrder
  <2> QED BY <1>1, <1>2, <2>1 DEF TurnsInOrder, Ends
<1>7. PartialIsCurrent'
  BY <1>1 DEF Inv, PartialIsCurrent, Fresh
<1>8. /\ drain # "no" => task'["consumer"].pc = "gone"
      /\ drain # "no" /\ ~Detecting => ~Detecting'
  BY <1>1 DEF Inv, DrainOrder, Detecting
<1> QED BY <1>1, <1>3, <1>4, <1>5, <1>6, <1>7, <1>8, Detected DEF Order

\* What every step of the drain leaves of the order.
LEMMA DrainShapes ==
  ASSUME Inv, Tasks(task'), Milder(task'), task'["consumer"] = task["consumer"],
         ~Detecting => ~Detecting',
         IsPartial(partial'), \A p \in orphans' : IsPartial(p),
         turns' = turns \/ turns' = <<>>, {"pc", "rev"} \subseteq DOMAIN answering',
         answering'.rev = answering.rev, drain' \in {"tasks", "partial", "idle", "done"},
         UNCHANGED <<mode, turn, completed>>
  PROVE  Shapes' /\ Order' /\ PartialIsCurrent'
<1>0. turns' \in Seq(Nat) /\ answering'.rev \in Nat
  <2>1. <<>> \in Seq(Nat)
    OBVIOUS
  <2>2. turns \in Seq(Nat) /\ answering.rev \in Nat
    BY DEF Inv, Shapes
  <2> QED BY <2>1, <2>2
<1>1. Shapes'
  BY <1>0 DEF Inv, Shapes
<1>2. \A a \in Actors : Ends(a)' =>
         Ends(a) /\ task'[a].rev = task[a].rev /\ (task[a].cancelled => task'[a].cancelled)
  BY DEF Milder, Actors, Detectors, Ends
<1>3. OneDecides'
  <2>1. /\ ~task["consumer"].cancelled
        /\ Ends("consumer") => ~Detecting
        /\ task["consumer"].pc = "stopping" => mode = "smart_turn_v3"
    BY DEF Inv, Order, OneDecides
  <2> QED BY <2>1 DEF Milder, OneDecides, Detecting, Ends
<1>4. \A i \in DOMAIN turns' : i \in DOMAIN turns /\ turns'[i] = turns[i]
  OBVIOUS
<1>5. Completed'
  BY <1>2, <1>4 DEF Inv, Shapes, Order, Completed
<1>6. TurnsInOrder'
  BY <1>2, <1>4 DEF Inv, Order, TurnsInOrder
<1>7. PartialIsCurrent'
  BY DEF PartialIsCurrent, Fresh
<1> QED BY <1>1, <1>3, <1>5, <1>6, <1>7 DEF Order

\* drain, step by step.
LEMMA DrainKeeps ==
  ASSUME Inv, DrainBegins \/ DrainPassesTasks \/ DrainPassesPartial \/ DrainEnds
  PROVE  Inv'
<1>1. /\ Tasks(task) /\ Milder(task) /\ IsPartial(partial) /\ \A p \in orphans : IsPartial(p)
      /\ {"pc", "rev"} \subseteq DOMAIN answering
  BY MildTasks DEF Inv, Shapes
<1>2. CASE DrainBegins
  <2>1. /\ task["consumer"].pc = "gone" /\ drain = "no" /\ drain' = "tasks"
        /\ task' = CancelDetection(task)
        /\ partial' = Outdated(partial) /\ orphans' = OutdatedAll
        /\ UNCHANGED <<mode, turn, completed, turns, answering, schedulerVars>>
    BY <1>2 DEF DrainBegins
  <2>2. /\ Tasks(task') /\ task'["consumer"] = task["consumer"]
        /\ \A a \in Actors : /\ task'[a].pc = task[a].pc
                             /\ task'[a].rev = task[a].rev
                             /\ task[a].cancelled => task'[a].cancelled
    BY <1>1, <2>1, CancelTasks
  <2>3. Milder(CancelDetection(task))
    BY <2>1, <2>2, MildIfKept
  <2>4. Milder(task')
    BY <2>1, <2>3
  <2>5. IsPartial(partial') /\ \A p \in orphans' : IsPartial(p)
    BY <1>1, <2>1, OutdatedShape
  <2>6. ~Detecting => ~Detecting'
    BY <2>2, DetectorIs DEF Detecting
  <2>7. SchedulerInv' /\ UNCHANGED release
    BY <2>1, SchedulerSame DEF Inv
  <2>8. DrainOrder'
    BY <2>1, <2>2, <2>7 DEF Inv, DrainOrder
  <2> QED BY <1>1, <2>1, <2>2, <2>4, <2>5, <2>6, <2>7, <2>8, DrainShapes DEF Inv
<1>3. CASE ~DrainBegins
  <2>1. /\ UNCHANGED <<mode, turn, completed, task>> /\ orphans' = orphans
        /\ drain # "no" /\ drain' \in {"partial", "idle", "done"}
        /\ partial' \in {partial, CancelPartial(partial), NoPartial}
        /\ turns' = turns \/ turns' = <<>>
        /\ answering' = answering \/ answering' = [answering EXCEPT !.pc = "none"]
    BY <1>3 DEF DrainPassesTasks, DrainPassesPartial, DrainEnds
  <2>2. /\ Tasks(task') /\ Milder(task') /\ Detecting' = Detecting
        /\ task'["consumer"] = task["consumer"]
    BY <1>1, <2>1 DEF Tasks, Milder, Detecting
  <2>3. IsPartial(partial') /\ \A p \in orphans' : IsPartial(p)
    BY <1>1, <2>1, OutdatedShape DEF NoPartial, IsPartial
  <2>4. {"pc", "rev"} \subseteq DOMAIN answering' /\ answering'.rev = answering.rev
    BY <1>1, <2>1
  <2>5. Shapes' /\ Order' /\ PartialIsCurrent'
    BY <2>1, <2>2, <2>3, <2>4, DrainShapes
  <2>6. SchedulerInv' /\ DrainOrder'
    <3>1. task'["consumer"].pc = "gone"
      BY <2>1 DEF Inv, DrainOrder
    <3>2. CASE DrainPassesTasks
      <4>1. SchedulerInv' /\ UNCHANGED release
        BY <3>2, SchedulerSame DEF Inv, DrainPassesTasks
      <4> QED BY <2>2, <3>1, <3>2, <4>1 DEF Inv, DrainOrder, DrainPassesTasks
    <3>3. CASE DrainPassesPartial
      BY <2>2, <3>1, <3>3, ThisSession, ForgetKeeps DEF Inv, DrainOrder, DrainPassesPartial
    <3>4. CASE DrainEnds
      BY <2>2, <3>1, <3>4, ThisSession, ForgetKeeps DEF Inv, DrainOrder, DrainEnds
    <3> QED BY <1>3, <3>2, <3>3, <3>4
  <2> QED BY <2>5, <2>6 DEF Inv
<1> QED BY <1>2, <1>3

\* The scheduler's own steps, the other sessions', and the close.
LEMMA OthersKeep ==
  ASSUME Inv, UNCHANGED detectionVars, SchedulerInv', release'[Me] = release[Me]
  PROVE  Inv'
<1>1. UNCHANGED <<mode, turn, completed, task, partial, orphans, turns, answering, drain>>
  BY DEF detectionVars
<1>2. Shapes'
  BY <1>1 DEF Inv, Shapes, Tasks, IsPartial
<1>3. Order' /\ PartialIsCurrent'
  BY <1>1 DEF Inv, Order, OneDecides, Completed, TurnsInOrder, Ends, Detecting, PartialIsCurrent,
     Fresh
<1>4. DrainOrder'
  BY <1>1 DEF Inv, DrainOrder, Detecting
<1> QED BY <1>2, <1>3, <1>4 DEF Inv

LEMMA SharedKeeps ==
  ASSUME Inv, SchedulerSteps \/ (\E s \in Sessions \ {Me} : OtherSession(s)) \/ SchedulerCloses
  PROVE  Inv'
<1>1. CASE SchedulerSteps
  <2>1. UNCHANGED detectionVars /\ UNCHANGED release
    BY <1>1 DEF SchedulerSteps, Take, Predicted, WorkerEnds
  <2> QED BY <1>1, <2>1, SchedulerStepsKeep, OthersKeep DEF Inv
<1>2. ASSUME NEW s \in Sessions \ {Me}, OtherSession(s) PROVE Inv'
  <2>1. UNCHANGED detectionVars
    BY <1>2 DEF OtherSession
  <2>2. SchedulerInv'
    BY <1>2, SubmitKeeps, ForgetKeeps DEF Inv, OtherSession
  <2>3. release'[Me] = release[Me]
    BY <1>2, ThisSession DEF OtherSession, Submit, CancelSession, SessionIsIdle, Inv,
       SchedulerInv, SchedulerTypeOK
  <2> QED BY <2>1, <2>2, <2>3, OthersKeep
<1>3. CASE SchedulerCloses
  <2>1. UNCHANGED detectionVars /\ UNCHANGED release
    BY <1>3 DEF SchedulerCloses, Close
  <2> QED BY <1>3, <2>1, CloseKeeps, OthersKeep DEF Inv, SchedulerCloses
<1> QED BY <1>1, <1>2, <1>3

-----------------------------------------------------------------------------
(* The order of the turns: the theorems.                                   *)

LEMMA InitHolds == Init => Inv
<1> SUFFICES ASSUME Init PROVE Inv
  OBVIOUS
<1>1. /\ task = [a \in Actors |-> NoTask] /\ drain = "no" /\ release[Me] = "no"
      /\ \A a \in Actors : task[a] = NoTask
  BY ThisSession DEF Init, SchedulerInit
<1>2. Tasks(task) /\ ~Detecting /\ \A a \in Actors : ~Ends(a)
  BY <1>1, NoTaskShape, DetectorIs DEF Tasks, Detecting, Ends
<1>3. Shapes
  BY <1>1, <1>2 DEF Init, Shapes, IsPartial, NoPartial
<1>4. SchedulerInv
  <2>1. 0 \in 0..NumSessions
    BY TurnAssumption
  <2>2. SchedulerInit
    BY DEF Init
  <2>3. SchedulerTypeOK
    BY <2>1, <2>2 DEF SchedulerInit, SchedulerTypeOK
  <2>4. JobsHaveWorker
    BY <2>2 DEF SchedulerInit, JobsHaveWorker
  <2>5. ReleasedIsIdle
    BY <2>2 DEF SchedulerInit, ReleasedIsIdle
  <2> QED BY <2>3, <2>4, <2>5 DEF SchedulerInv
<1>5. DrainOrder
  BY <1>1 DEF DrainOrder
<1>6. OneDecides
  BY <1>1, <1>2, NoTaskShape, DetectorIs DEF OneDecides
<1>7. Completed
  BY <1>2 DEF Init, Completed, None
<1>8. TurnsInOrder
  BY <1>2 DEF Init, TurnsInOrder
<1>9. PartialIsCurrent
  BY DEF Init, PartialIsCurrent, NoPartial
<1> QED BY <1>3, <1>4, <1>5, <1>6, <1>7, <1>8, <1>9 DEF Inv, Order

LEMMA StutterKeeps == ASSUME Inv, UNCHANGED vars PROVE Inv'
<1>1. UNCHANGED detectionVars /\ UNCHANGED schedulerVars
  BY DEF vars
<1> QED BY <1>1, SchedulerSame, OthersKeep DEF Inv

\* Turn detection and the turn scheduler between two suspensions of the event loop, for
\* any number of sessions, turns and verdicts.
THEOREM InductiveInvariant == Spec => []Inv
<1>1. Inv /\ [Next]_vars => Inv'
  <2> SUFFICES ASSUME Inv, [Next]_vars PROVE Inv'
    OBVIOUS
  <2>1. ASSUME NEW on \in BOOLEAN, NEW threshold \in BOOLEAN, UpdateSession(on, threshold)
        PROVE  Inv'
    BY <2>1, UpdateKeeps
  <2>2. CASE AppendAudio(Window)
    BY <2>2, HearsKeeps
  <2>3. CASE CommitAudio
    BY <2>3, CommitKeeps
  <2>4. CASE ClearAudio
    BY <2>4, ClearKeeps
  <2>5. CASE ConsumerSteps
    BY <2>5, HearsKeeps, ListensKeeps, ResumesKeeps, FixedSilenceKeeps, PausesKeeps,
       CommitKeeps, ClearKeeps DEF ConsumerSteps
  <2>6. ASSUME NEW a \in Actors, DetectorSteps(a) PROVE Inv'
    BY <2>6, UnwindsKeeps, PartialGatheredKeeps, PutGetsRoomKeeps DEF DetectorSteps
  <2>7. CASE CandidateSubmits \/ CandidateAnswered
    BY <2>7, CandidateSubmitsKeeps, CandidateAnsweredKeeps
  <2>8. CASE FallbackWakes \/ FallbackWatched
    BY <2>8, FallbackKeeps
  <2>9. CASE PartialAnswered \/ PartialUnwinds
    BY <2>9, PartialKeeps
  <2>10. CASE WorkerTakes \/ \E fails \in BOOLEAN : WorkerAnswers(fails)
    BY <2>10, WorkerKeeps
  <2>11. CASE ConsumerCancelled
    BY <2>11, FailsKeeps DEF ConsumerCancelled
  <2>12. CASE DrainBegins \/ DrainPassesTasks \/ DrainPassesPartial \/ DrainEnds
    BY <2>12, DrainKeeps
  <2>13. CASE SchedulerSteps \/ (\E s \in Sessions \ {Me} : OtherSession(s)) \/ SchedulerCloses
    BY <2>13, SharedKeeps
  <2>14. CASE UNCHANGED vars
    BY <2>14, StutterKeeps
  <2> QED BY <2>1, <2>2, <2>3, <2>4, <2>5, <2>6, <2>7, <2>8, <2>9, <2>10, <2>11, <2>12, <2>13,
             <2>14 DEF Next
<1> QED BY <1>1, InitHolds, PTL DEF Spec

\* A queued verdict has a worker, an awaited one is queued or being predicted, and a
\* released session gets none (schedulers/turn.py).
THEOREM SchedulerInvAlways == Spec => []SchedulerInv
<1>1. Inv => SchedulerInv
  BY DEF Inv
<1> QED BY <1>1, InductiveInvariant, PTL

\* Turns are queued, taken and answered in the order they were spoken in, each once,
\* whoever ends them (_complete_turn, _run_completed_turns).
THEOREM TurnsInOrderAlways == Spec => []TurnsInOrder
<1>1. Inv => TurnsInOrder
  BY DEF Inv, Order
<1> QED BY <1>1, InductiveInvariant, PTL

\* No partial transcript of a turn that has ended is sent (_run_partial).
THEOREM PartialIsCurrentAlways == Spec => []PartialIsCurrent
<1>1. Inv => PartialIsCurrent
  BY DEF Inv
<1> QED BY <1>1, InductiveInvariant, PTL

\* The drain never comes back to what it has passed (drain).
THEOREM DrainOrderAlways == Spec => []DrainOrder
<1>1. Inv => DrainOrder
  BY DEF Inv
<1> QED BY <1>1, InductiveInvariant, PTL

-----------------------------------------------------------------------------
(* The types: of the tasks.                                                *)

TaskRecords == [pc : Places, rev : 0..MaxTurns, from : Positions, at : Nat,
                next : {"none", "append", "commit"}, current : BOOLEAN, cancelled : BOOLEAN]

TypedTasks(tk) ==
  /\ tk \in [Actors -> TaskRecords]
  /\ \A d \in Detectors : tk[d].next = "none"
  /\ tk["consumer"].pc = "vad" => tk["consumer"].at = Window

LEMMA NoTaskTyped ==
  /\ NoTask \in TaskRecords
  /\ NoTask.next = "none" /\ NoTask.pc = "none" /\ NoTask.at = 0 /\ NoTask.from = 0
  /\ NoTask.rev = 0 /\ NoTask.current = FALSE /\ NoTask.cancelled = FALSE
  BY DetectionAssumption DEF NoTask, TaskRecords, Places, Positions

\* A record in the place of a task's.
LEMMA TaskTyped ==
  ASSUME NEW tk, TypedTasks(tk), NEW a \in Actors, NEW r \in TaskRecords,
         a \in Detectors => r.next = "none",
         a = "consumer" => r.pc # "vad" \/ r.at = Window
  PROVE  /\ TypedTasks([tk EXCEPT ![a] = r]) /\ [tk EXCEPT ![a] = r][a] = r
         /\ \A b \in Actors \ {a} : [tk EXCEPT ![a] = r][b] = tk[b]
  BY DetectorIs DEF TypedTasks, Actors

LEMMA EndTaskTyped ==
  ASSUME NEW tk, TypedTasks(tk), NEW a \in Actors
  PROVE  TypedTasks([tk EXCEPT ![a] = NoTask])
  BY TaskTyped, NoTaskTyped

LEMMA ConsumerEndsTyped ==
  ASSUME NEW tk, TypedTasks(tk)
  PROVE  TypedTasks(Gone(tk)) /\ TypedTasks(Idle(tk))
<1> DEFINE r == [NoTask EXCEPT !.pc = "gone"]
<1>1. r \in TaskRecords /\ r.pc = "gone"
  BY NoTaskTyped DEF TaskRecords, Places
<1>2. Gone(tk) = [tk EXCEPT !["consumer"] = r] /\ Idle(tk) = [tk EXCEPT !["consumer"] = NoTask]
  BY DEF Gone, Idle
<1>3. "consumer" \in Actors /\ "consumer" \notin Detectors
  BY DEF Actors, Detectors
<1> HIDE DEF r
<1>4. TypedTasks([tk EXCEPT !["consumer"] = r])
  BY <1>1, <1>3, TaskTyped
<1>5. TypedTasks([tk EXCEPT !["consumer"] = NoTask])
  BY <1>3, EndTaskTyped
<1> QED BY <1>2, <1>4, <1>5

LEMMA MoveTaskTyped ==
  ASSUME NEW tk, TypedTasks(tk), NEW a \in Actors, NEW pc \in Places \ {"vad"}
  PROVE  TypedTasks([tk EXCEPT ![a].pc = pc])
<1> DEFINE r == [tk[a] EXCEPT !.pc = pc]
<1>1. tk[a] \in TaskRecords
  BY DEF TypedTasks
<1>2. r \in TaskRecords /\ r.pc = pc /\ r.next = tk[a].next
  BY <1>1 DEF TaskRecords
<1>3. [tk EXCEPT ![a].pc = pc] = [tk EXCEPT ![a] = r]
  OBVIOUS
<1>4. a \in Detectors => r.next = "none"
  BY <1>2 DEF TypedTasks
<1> HIDE DEF r
<1> QED BY <1>2, <1>3, <1>4, TaskTyped

LEMMA CancelTyped ==
  ASSUME NEW tk, TypedTasks(tk)
  PROVE  TypedTasks(CancelDetection(tk)) /\ TypedTasks(Superseded(tk))
<1>1. \A a \in Actors : tk[a] \in TaskRecords
  BY DEF TypedTasks
<1>2. \A a \in Actors : /\ CancelDetection(tk)[a] \in TaskRecords
                        /\ Superseded(tk)[a] \in TaskRecords
  BY <1>1 DEF CancelDetection, Superseded, TaskRecords
<1>3. CancelDetection(tk) \in [Actors -> TaskRecords] /\ Superseded(tk) \in [Actors -> TaskRecords]
  BY <1>2 DEF CancelDetection, Superseded
<1>4. \A d \in Detectors : CancelDetection(tk)[d].next = "none" /\ Superseded(tk)[d].next = "none"
  BY <1>1, DetectorIs DEF CancelDetection, Superseded, TypedTasks, TaskRecords
<1>5. CancelDetection(tk)["consumer"] = tk["consumer"] /\ Superseded(tk)["consumer"] = tk["consumer"]
  BY DEF CancelDetection, Superseded, Actors, Detectors
<1> QED BY <1>3, <1>4, <1>5 DEF TypedTasks

-----------------------------------------------------------------------------
(* The types: of the buffer, the voice activity detection and the partials. *)

PartialRecords == [pc : {"none", "running", "cancelled", "done"}, rev : 0..MaxTurns, fresh : BOOLEAN]

TypedPartial(p) ==
  /\ p \in PartialRecords
  /\ p.pc \in {"running", "cancelled"} => p.rev # 0

Orphans == [pc : {"running"}, rev : 1..MaxTurns, fresh : BOOLEAN]

LEMMA BufferTyped ==
  ASSUME NEW b \in Buffers
  PROVE  /\ Trimmed(b) \in Buffers /\ Cleared \in Buffers
         /\ b.first \in Nat /\ b.end \in Nat /\ b.first <= b.end /\ Held(b) \in Nat
         /\ \A s \in Nat : b.first <= s /\ s <= b.end => DiscardedBefore(b, s) \in Buffers
<1>1. /\ b \in [first : Nat, end : Nat] /\ b.first \in Nat /\ b.end \in Nat
      /\ b.first <= b.end /\ b.end - b.first <= MaxBuffered
  BY DEF Buffers
<1>2. ASSUME NEW s \in Nat, b.first <= s, s <= b.end PROVE DiscardedBefore(b, s) \in Buffers
  <2>1. DiscardedBefore(b, s) \in [first : Nat, end : Nat]
    BY <1>1 DEF DiscardedBefore
  <2>2. DiscardedBefore(b, s).first = s /\ DiscardedBefore(b, s).end = b.end
    BY <1>1 DEF DiscardedBefore
  <2>3. s <= b.end /\ b.end - s <= MaxBuffered
    BY <1>1, <1>2, BufferAssumption
  <2> QED BY <2>1, <2>2, <2>3 DEF Buffers
<1>3. Trimmed(b) \in Buffers
  <2>1. CASE Held(b) > Keep
    <3>1. Later(b.first, b.end - Keep) \in Nat /\ b.first <= Later(b.first, b.end - Keep)
          /\ Later(b.first, b.end - Keep) <= b.end
      BY <1>1, <2>1, DetectionAssumption DEF Later, Held
    <3> QED BY <1>2, <2>1, <3>1 DEF Trimmed
  <2>2. CASE ~(Held(b) > Keep)
    BY <2>2 DEF Trimmed
  <2> QED BY <2>1, <2>2
<1>4. Cleared \in Buffers /\ Held(b) \in Nat
  BY <1>1, BufferAssumption DEF Cleared, Buffers, Held
<1> QED BY <1>1, <1>2, <1>3, <1>4

LEMMA VadResetTyped == VadReset \in Vads
  BY VadAssumption DEF VadReset, Vads, Positions

LEMMA SinceTyped ==
  ASSUME NEW p \in Positions, NEW now \in Nat PROVE Since(p, now) \in Nat
  BY DEF Since, Positions, None

\* _advance.
LEMMA AdvanceTyped ==
  ASSUME NEW v \in Vads, NEW speech \in BOOLEAN
  PROVE  Advance(v, speech) \in [vad : Vads, signal : {"quiet", "started", "stopped"}, at : Nat]
<1>1. /\ v.processed \in Nat /\ v.rest \in 0..(Window - 1) /\ v.candidate \in Positions
      /\ v.quiet \in Positions /\ v.speech \in Positions /\ v.silence \in Positions
      /\ Window \in Nat /\ Window # 0
  BY VadAssumption DEF Vads
<1> DEFINE end == v.processed + Window
           R(r) == r \in [vad : Vads, signal : {"quiet", "started", "stopped"}, at : Nat]
<1>2. None \in Positions /\ end \in Nat /\ Nat \subseteq Positions
  BY <1>1 DEF Positions
<1>3. ASSUME NEW w \in Vads PROVE R(Nothing(w))
  BY <1>3 DEF Nothing
<1>4. R(Listen(v, speech))
  <2> DEFINE start == Since(v.candidate, v.processed)
             quiet == Since(v.quiet, v.processed)
             begin == IF start > Pad THEN start - Pad ELSE 0
  <2>1. start \in Nat /\ quiet \in Nat
    BY <1>1, SinceTyped
  <2>2. begin \in Nat
    BY <2>1, VadAssumption
  <2> DEFINE w1 == [v EXCEPT !.candidate = start, !.quiet = None, !.speech = begin]
             w2 == [v EXCEPT !.candidate = start, !.quiet = None]
             w3 == [v EXCEPT !.candidate = None, !.quiet = None]
             w4 == [v EXCEPT !.quiet = quiet]
  <2>3. w1 \in Vads /\ w2 \in Vads /\ w3 \in Vads /\ w4 \in Vads
    BY <1>2, <2>1, <2>2 DEF Vads
  <2>4. \/ Listen(v, speech) = [vad |-> w1, signal |-> "started", at |-> begin]
        \/ Listen(v, speech) \in {Nothing(w2), Nothing(w3), Nothing(w4), Nothing(v)}
    BY DEF Listen
  <2>5. R([vad |-> w1, signal |-> "started", at |-> begin])
    BY <2>2, <2>3
  <2> HIDE DEF R, w1, w2, w3, w4
  <2> QED BY <1>3, <2>3, <2>4, <2>5
<1>5. R(Follow(v, speech))
  <2> DEFINE silence == Since(v.silence, v.processed)
             stop == IF silence + Pad < end THEN silence + Pad ELSE end
  <2>1. silence \in Nat
    BY <1>1, SinceTyped
  <2>2. stop \in Nat
    BY <1>2, <2>1, VadAssumption
  <2> DEFINE w1 == TurnCleared(v)
             w2 == [v EXCEPT !.silence = None]
             w3 == [v EXCEPT !.silence = silence]
  <2>3. w1 \in Vads /\ w2 \in Vads /\ w3 \in Vads
    BY <1>2, <2>1 DEF Vads, TurnCleared
  <2>4. \/ Follow(v, speech) = [vad |-> w1, signal |-> "stopped", at |-> stop]
        \/ Follow(v, speech) \in {Nothing(w2), Nothing(w3)}
    BY DEF Follow
  <2>5. R([vad |-> w1, signal |-> "stopped", at |-> stop])
    BY <2>2, <2>3
  <2> HIDE DEF R, w1, w2, w3
  <2> QED BY <1>3, <2>3, <2>4, <2>5
<1> QED BY <1>4, <1>5 DEF Advance

\* One window of process_pcm16.
LEMMA ProcessTyped ==
  ASSUME NEW v \in Vads, NEW speech \in BOOLEAN
  PROVE  LET r == Process(v, Window, speech)
         IN  r.vad \in Vads /\ r.signal \in {"quiet", "started", "stopped"} /\ r.at \in Nat
<1> DEFINE r == Advance(v, speech)
<1>1. v.rest \in 0..(Window - 1) /\ v.rest \in Nat /\ Window \in Nat /\ Window # 0
  BY VadAssumption DEF Vads
<1>2. r \in [vad : Vads, signal : {"quiet", "started", "stopped"}, at : Nat]
  BY AdvanceTyped
<1>3. v.rest + Window - Window = v.rest /\ ~(v.rest + Window < Window)
  BY <1>1
<1>4. Process(v, Window, speech)
        = [r EXCEPT !.vad.processed = @ + Window, !.vad.rest = v.rest]
  BY <1>3 DEF Process
<1> HIDE DEF r
<1>5. r.vad.processed + Window \in Nat
  BY <1>1, <1>2 DEF Vads
<1>6. LET q == [r EXCEPT !.vad.processed = @ + Window, !.vad.rest = v.rest]
      IN  q.vad \in Vads /\ q.signal = r.signal /\ q.at = r.at
  BY <1>1, <1>2, <1>5 DEF Vads
<1> QED BY <1>2, <1>4, <1>6

-----------------------------------------------------------------------------
(* The types: of the steps.                                                *)

TurnRecords == [named : BOOLEAN, rev : 0..MaxTurns, start : Positions]

\* What the end of a turn changes.
EndTyped ==
  /\ TypedTasks(task)
  /\ vad \in Vads /\ buf \in Buffers
  /\ turns \in Seq(1..MaxTurns) /\ Len(turns) <= QueueSize
  /\ answering \in [pc : {"none", "waiting", "busy"}, rev : 0..MaxTurns]
  /\ broken \in BOOLEAN /\ failing \in BOOLEAN

TurnTyped ==
  /\ turn \in TurnRecords
  /\ verdicts \in 0..MaxVerdicts
  /\ turn.start # None => verdicts < MaxVerdicts
  /\ completed \in 0..MaxTurns

PartialsTyped == TypedPartial(partial) /\ orphans \subseteq Orphans

Typed ==
  /\ mode \in Modes /\ enabled \in BOOLEAN
  /\ EndTyped /\ TurnTyped /\ PartialsTyped
  /\ drain \in {"no", "tasks", "partial", "idle", "done"}

\* The end of _append_audio.
LEMMA EndsAppendTyped ==
  ASSUME EndTyped, NEW tk, TypedTasks(tk), NEW p, TypedPartial(p), NEW start \in Positions,
         start # None => turn'.rev \in 1..MaxTurns, EndsAppend(tk, p, start),
         UNCHANGED <<vad, turns, answering, failing>>
  PROVE  EndTyped' /\ TypedPartial(partial')
<1>1. TypedTasks(Idle(tk)) /\ TypedTasks(Gone(tk))
  BY ConsumerEndsTyped
<1>2. TypedTasks(task')
  BY <1>1 DEF EndsAppend
<1>3. TypedPartial(partial')
  <2>1. \/ partial' = p
        \/ start # None /\ partial' = [pc |-> "running", rev |-> turn'.rev, fresh |-> TRUE]
    BY DEF EndsAppend
  <2>2. ASSUME start # None
        PROVE  TypedPartial([pc |-> "running", rev |-> turn'.rev, fresh |-> TRUE])
    BY <2>2, DetectionAssumption DEF TypedPartial, PartialRecords
  <2> QED BY <2>1, <2>2
<1>4. buf' \in Buffers /\ broken' \in BOOLEAN
  BY BufferTyped DEF EndsAppend, EndTyped
<1> QED BY <1>2, <1>3, <1>4 DEF EndTyped

LEMMA ReturnsTyped ==
  ASSUME vad \in Vads, NEW tk, TypedTasks(tk), NEW a \in Actors, NEW b \in Buffers,
         Returns(a, tk, b)
  PROVE  TypedTasks(task') /\ vad' \in Vads /\ buf' \in Buffers
  BY EndTaskTyped, BufferTyped, VadResetTyped DEF Returns

LEMMA QueueTyped ==
  ASSUME turns \in Seq(1..MaxTurns), Len(turns) < QueueSize, NEW rev \in 1..MaxTurns
  PROVE  Append(turns, rev) \in Seq(1..MaxTurns) /\ Len(Append(turns, rev)) <= QueueSize
<1>1. Append(turns, rev) \in Seq(1..MaxTurns) /\ Len(Append(turns, rev)) = Len(turns) + 1
  BY AppendProperties
<1>2. Len(turns) \in Nat
  OBVIOUS
<1> QED BY <1>1, <1>2, DetectionAssumption

\* The rest of _complete_turn.
LEMMA EnqueueTyped ==
  ASSUME EndTyped, NEW a \in Actors, NEW tk, TypedTasks(tk), tk[a].rev # 0, Enqueue(a, tk)
  PROVE  EndTyped'
<1>1. tk[a] \in TaskRecords /\ tk[a].rev \in 1..MaxTurns /\ tk[a].at \in Nat
  BY DEF TypedTasks, TaskRecords
<1>2. CASE ~Slices(buf, tk[a].from, tk[a].at)
  <2>1. Raises(a, tk) /\ UNCHANGED <<buf, vad, turns, answering>>
    BY <1>2 DEF Enqueue
  <2>2. TypedTasks(task') /\ broken' \in BOOLEAN /\ failing' \in BOOLEAN
    BY <2>1, EndTaskTyped, ConsumerEndsTyped DEF Raises, EndTyped
  <2> QED BY <2>1, <2>2 DEF EndTyped
<1>3. CASE Slices(buf, tk[a].from, tk[a].at)
  <2> DEFINE b == DiscardedBefore(buf, tk[a].at)
  <2>1. b \in Buffers
    <3>1. buf.first <= tk[a].at /\ tk[a].at <= buf.end
      <4>1. tk[a].from \in Positions /\ buf.first \in Nat
        BY <1>1, BufferTyped DEF TaskRecords, EndTyped
      <4> QED BY <1>1, <1>3, <4>1 DEF Slices, Positions, None
    <3> QED BY <1>1, <3>1, BufferTyped DEF EndTyped
  <2> HIDE DEF b
  <2>2. /\ answering' = IF answering.pc = "none" THEN [answering EXCEPT !.pc = "waiting"]
                        ELSE answering
        /\ \/ /\ Len(turns) < QueueSize
              /\ turns' = Append(turns, tk[a].rev) /\ Returns(a, tk, b)
           \/ /\ task' = [tk EXCEPT ![a].pc = "put"] /\ buf' = b
              /\ UNCHANGED <<turns, vad>>
        /\ UNCHANGED <<broken, failing>>
    BY <1>3 DEF Enqueue, b
  <2>3. answering' \in [pc : {"none", "waiting", "busy"}, rev : 0..MaxTurns]
    BY <2>2 DEF EndTyped
  <2>4. TypedTasks(task') /\ vad' \in Vads /\ buf' \in Buffers
    <3>1. CASE Returns(a, tk, b)
      BY <2>1, <3>1, ReturnsTyped DEF EndTyped
    <3>2. CASE task' = [tk EXCEPT ![a].pc = "put"] /\ buf' = b /\ vad' = vad
      <4>1. TypedTasks([tk EXCEPT ![a].pc = "put"])
        BY MoveTaskTyped DEF Places
      <4> QED BY <2>1, <3>2, <4>1 DEF EndTyped
    <3> QED BY <2>2, <3>1, <3>2
  <2>5. turns' \in Seq(1..MaxTurns) /\ Len(turns') <= QueueSize
    BY <1>1, <2>2, QueueTyped DEF EndTyped
  <2> QED BY <2>2, <2>3, <2>4, <2>5 DEF EndTyped
<1> QED BY <1>2, <1>3

LEMMA OutdatedTyped ==
  /\ \A p : TypedPartial(p) => TypedPartial(Outdated(p)) /\ TypedPartial(CancelPartial(p))
  /\ orphans \subseteq Orphans => OutdatedAll \subseteq Orphans
  /\ TypedPartial(NoPartial) /\ TypedPartial(DonePartial)
<1>1. ASSUME NEW p, TypedPartial(p)
      PROVE  TypedPartial(Outdated(p)) /\ TypedPartial(CancelPartial(p))
  <2>1. p \in PartialRecords /\ Outdated(p) \in PartialRecords /\ CancelPartial(p) \in PartialRecords
        /\ Outdated(p).rev = p.rev /\ CancelPartial(p).rev = p.rev /\ Outdated(p).pc = p.pc
        /\ (CancelPartial(p).pc = p.pc \/ p.pc = "running")
    BY <1>1 DEF TypedPartial, PartialRecords, Outdated, CancelPartial
  <2> QED BY <1>1, <2>1 DEF TypedPartial
<1>2. ASSUME orphans \subseteq Orphans, NEW p \in OutdatedAll PROVE p \in Orphans
  <2>1. PICK q \in orphans : p = Outdated(q)
    BY <1>2 DEF OutdatedAll
  <2>2. q \in Orphans
    BY <1>2
  <2> QED BY <2>1, <2>2 DEF Outdated, Orphans
<1>3. NoPartial \in PartialRecords /\ NoPartial.pc = "none"
  BY DetectionAssumption DEF NoPartial, PartialRecords
<1>4. DonePartial \in PartialRecords /\ DonePartial.pc = "done"
  BY <1>3 DEF DonePartial, PartialRecords
<1>5. TypedPartial(NoPartial) /\ TypedPartial(DonePartial)
  BY <1>3, <1>4 DEF TypedPartial
<1> QED BY <1>1, <1>2, <1>5

\* _speech_stopped and _complete_turn, for the open turn or a manual one.
LEMMA StopSpeechTyped ==
  ASSUME EndTyped, TurnTyped, PartialsTyped, NEW a \in Actors, NEW tk, TypedTasks(tk),
         tk[a].pc # "vad", NEW t \in TurnRecords, completed <= t.rev, NEW to \in Nat,
         StopSpeech(a, tk, t, to)
  PROVE  /\ EndTyped' /\ PartialsTyped' /\ turn' \in TurnRecords /\ turn'.start = None
         /\ completed' \in 0..MaxTurns
<1> DEFINE arguments == [tk[a] EXCEPT !.rev = t.rev, !.from = t.start, !.at = to]
           called == [tk EXCEPT ![a] = arguments]
<1>1. /\ tk[a] \in TaskRecords /\ t.rev \in 0..MaxTurns /\ t.start \in Positions
      /\ completed \in 0..MaxTurns
  BY DEF TypedTasks, TurnRecords, TurnTyped
<1>2. /\ arguments \in TaskRecords /\ arguments.next = tk[a].next /\ arguments.pc = tk[a].pc
      /\ arguments.rev = t.rev
  BY <1>1 DEF TaskRecords
<1>3. /\ turn' = [t EXCEPT !.start = None] /\ orphans' \in {orphans, OutdatedAll}
      /\ \/ /\ t.rev = completed /\ Returns(a, called, buf)
            /\ UNCHANGED <<completed, partial, turns, answering, broken, failing>>
         \/ t.rev # completed /\ completed' = t.rev /\ partial.pc = "none" /\ Enqueue(a, called)
            /\ UNCHANGED partial
         \/ /\ completed' = t.rev /\ partial' = CancelPartial(Outdated(partial))
            /\ task' = [called EXCEPT ![a].pc = "gather"]
            /\ UNCHANGED <<buf, vad, turns, answering, broken, failing>>
  BY DEF StopSpeech, Stops
<1>4. a \in Detectors => arguments.next = "none"
  BY <1>2 DEF TypedTasks
<1> HIDE DEF arguments
<1>5. TypedTasks(called) /\ called[a] = arguments
  BY <1>2, <1>4, TaskTyped
<1> HIDE DEF called
<1>6. turn' \in TurnRecords /\ turn'.start = None
  BY <1>1, <1>3 DEF TurnRecords, Positions
<1>7. completed' \in 0..MaxTurns
  BY <1>1, <1>3
<1>8. PartialsTyped'
  <2>1. TypedPartial(partial')
    BY <1>3, OutdatedTyped DEF PartialsTyped, Enqueue
  <2> QED BY <1>3, <2>1, OutdatedTyped DEF PartialsTyped
<1>9. EndTyped'
  <2>1. CASE t.rev = completed /\ Returns(a, called, buf)
             /\ UNCHANGED <<turns, answering, broken, failing>>
    <3>1. TypedTasks(task') /\ vad' \in Vads /\ buf' \in Buffers
      BY <1>5, <2>1, ReturnsTyped DEF EndTyped
    <3> QED BY <2>1, <3>1 DEF EndTyped
  <2>2. CASE t.rev # completed /\ Enqueue(a, called)
    <3>1. called[a].rev # 0
      BY <1>1, <1>2, <1>5, <2>2
    <3> QED BY <1>5, <2>2, <3>1, EnqueueTyped
  <2>3. CASE task' = [called EXCEPT ![a].pc = "gather"]
             /\ UNCHANGED <<buf, vad, turns, answering, broken, failing>>
    <3>1. TypedTasks([called EXCEPT ![a].pc = "gather"])
      BY <1>5, MoveTaskTyped DEF Places
    <3> QED BY <2>3, <3>1 DEF EndTyped
  <2> QED BY <1>3, <2>1, <2>2, <2>3
<1> QED BY <1>6, <1>7, <1>8, <1>9

-----------------------------------------------------------------------------
(* The types: of the consumer's steps.                                     *)

LEMMA OpenTurnTyped ==
  ASSUME Inv, Typed, turn.start # None PROVE turn.rev \in 1..MaxTurns /\ completed < turn.rev
<1>1. completed < turn.rev /\ turn.rev \in 0..MaxTurns /\ completed \in 0..MaxTurns
  BY DEF Inv, Order, Completed, Typed, TurnTyped, TurnRecords
<1> QED BY <1>1, DetectionAssumption

LEMMA AppendsTyped ==
  ASSUME Typed, NEW tk, TypedTasks(tk), NEW p, TypedPartial(p), EndsAppend(tk, p, turn'.start),
         TurnTyped', turn'.start # None => turn'.rev # 0, orphans' \subseteq Orphans,
         UNCHANGED <<mode, enabled, vad, turns, answering, failing, drain>>
  PROVE  Typed'
<1>1. turn'.start \in Positions /\ turn'.rev \in 0..MaxTurns
  BY DEF TurnTyped, TurnRecords
<1>2. turn'.start # None => turn'.rev \in 1..MaxTurns
  BY <1>1, DetectionAssumption
<1>3. EndTyped' /\ TypedPartial(partial')
  <2>1. EndTyped
    BY DEF Typed
  <2> QED BY <1>1, <1>2, <2>1, EndsAppendTyped
<1> QED BY <1>3 DEF Typed, PartialsTyped

LEMMA GoneTyped ==
  ASSUME Typed, task' = Gone(task), broken' \in BOOLEAN,
         UNCHANGED <<mode, enabled, vad, buf, turn, verdicts, completed, partial, orphans,
                     turns, answering, failing, drain>>
  PROVE  Typed'
<1>1. TypedTasks(task')
  BY ConsumerEndsTyped DEF Typed, EndTyped
<1> QED BY <1>1 DEF Typed, EndTyped, TurnTyped, PartialsTyped

LEMMA FailsTyped == ASSUME Typed, Fails, UNCHANGED broken PROVE Typed'
  BY GoneTyped DEF Fails, Typed, EndTyped

LEMMA UpdateTyped ==
  ASSUME Typed, NEW on \in BOOLEAN, NEW threshold \in BOOLEAN, UpdateSession(on, threshold)
  PROVE  Typed'
<1>1. CASE Fails /\ UNCHANGED broken
  BY <1>1, FailsTyped
<1>2. CASE /\ enabled' = on /\ vad' = IF threshold THEN VadReset ELSE vad
           /\ UNCHANGED <<mode, buf, turn, verdicts, completed, task, partial, orphans,
                          turns, answering, broken, failing, drain>>
  BY <1>2, VadResetTyped DEF Typed, EndTyped, TurnTyped, PartialsTyped
<1> QED BY <1>1, <1>2 DEF UpdateSession

LEMMA AppendAudioTyped == ASSUME Typed, AppendAudio(Window) PROVE Typed'
<1>1. CASE Fails /\ UNCHANGED broken
  BY <1>1, FailsTyped
<1>2. CASE /\ Fits(buf, Window) /\ buf' = Appended(buf, Window)
           /\ task' = IF enabled THEN [task EXCEPT !["consumer"].pc = "vad",
                                                   !["consumer"].at = Window] ELSE task
           /\ UNCHANGED <<mode, enabled, vad, turn, verdicts, completed, partial, orphans,
                          turns, answering, broken, failing, drain>>
  <2> DEFINE r == [task["consumer"] EXCEPT !.pc = "vad", !.at = Window]
  <2>1. task["consumer"] \in TaskRecords /\ "consumer" \in Actors /\ "consumer" \notin Detectors
    BY DEF Typed, EndTyped, TypedTasks, Actors, Detectors
  <2>2. r \in TaskRecords /\ r.at = Window
    BY <2>1, VadAssumption DEF TaskRecords, Places
  <2>3. [task EXCEPT !["consumer"].pc = "vad", !["consumer"].at = Window]
          = [task EXCEPT !["consumer"] = r]
    BY <2>1 DEF Typed, EndTyped, TypedTasks
  <2> HIDE DEF r
  <2>4. TypedTasks(task')
    BY <1>2, <2>1, <2>2, <2>3, TaskTyped DEF Typed, EndTyped
  <2>5. buf' \in Buffers
    <3>1. buf \in [first : Nat, end : Nat] /\ buf.first \in Nat /\ buf.end \in Nat
          /\ buf.first <= buf.end
      BY DEF Typed, EndTyped, Buffers
    <3>2. /\ buf' \in [first : Nat, end : Nat] /\ buf'.first = buf.first
          /\ buf'.end = buf.end + Window
      BY <1>2, <3>1, VadAssumption DEF Appended
    <3>3. buf.end - buf.first + Window <= MaxBuffered
      BY <1>2 DEF Fits, Held
    <3>4. buf'.first <= buf'.end /\ buf'.end - buf'.first <= MaxBuffered
      BY <3>1, <3>2, <3>3, VadAssumption, BufferAssumption
    <3> QED BY <3>2, <3>4 DEF Buffers
  <2> QED BY <1>2, <2>4, <2>5 DEF Typed, EndTyped, TurnTyped, PartialsTyped
<1> QED BY <1>1, <1>2 DEF AppendAudio

LEMMA VadRunsTyped ==
  ASSUME Typed, NEW speech \in BOOLEAN, VadRuns(speech) PROVE Typed'
<1> DEFINE q == Process(vad, task["consumer"].at, speech)
           r == [task["consumer"] EXCEPT !.pc = q.signal, !.at = q.at]
<1>1. task["consumer"] \in TaskRecords /\ "consumer" \in Actors /\ "consumer" \notin Detectors
      /\ task["consumer"].at = Window
  BY DEF Typed, EndTyped, TypedTasks, Actors, Detectors, VadRuns
<1>2. q.vad \in Vads /\ q.signal \in {"quiet", "started", "stopped"} /\ q.at \in Nat
  BY <1>1, ProcessTyped DEF Typed, EndTyped
<1>3. /\ vad' = q.vad
      /\ task' = [task EXCEPT !["consumer"].pc = q.signal, !["consumer"].at = q.at]
      /\ UNCHANGED <<mode, enabled, buf, turn, verdicts, completed, partial, orphans, turns,
                     answering, broken, failing, drain>>
  BY DEF VadRuns
<1> HIDE DEF q
<1>4. r \in TaskRecords /\ r.pc = q.signal
  BY <1>1, <1>2 DEF TaskRecords, Places
<1>5. task' = [task EXCEPT !["consumer"] = r]
  BY <1>1, <1>3 DEF Typed, EndTyped, TypedTasks
<1> HIDE DEF r
<1>6. TypedTasks(task')
  BY <1>1, <1>2, <1>4, <1>5, TaskTyped DEF Typed, EndTyped
<1> QED BY <1>2, <1>3, <1>6 DEF Typed, EndTyped, TurnTyped, PartialsTyped

LEMMA HearsTyped == ASSUME Inv, Typed, HeardNothing \/ Interrupted PROVE Typed'
<1>1. /\ EndsAppend(task, partial, turn.start)
      /\ UNCHANGED <<mode, enabled, turn, verdicts, completed, orphans, vad, turns, answering,
                     failing, drain>>
  BY DEF HeardNothing, Interrupted
<1>2. TypedTasks(task) /\ TypedPartial(partial) /\ TurnTyped' /\ orphans' \subseteq Orphans
  BY <1>1 DEF Typed, EndTyped, TurnTyped, PartialsTyped
<1>3. turn'.start # None => turn'.rev # 0
  BY <1>1, OpenTurnTyped
<1>4. EndsAppend(task, partial, turn'.start)
  BY <1>1
<1> QED BY <1>1, <1>2, <1>3, <1>4, AppendsTyped

LEMMA ConsumerWaitsTyped ==
  ASSUME Typed, NEW tk, TypedTasks(tk), NEW pc \in Places \ {"vad"},
         task' = [tk EXCEPT !["consumer"].pc = pc], PartialsTyped', TurnTyped',
         UNCHANGED <<mode, enabled, vad, buf, turns, answering, broken, failing, drain>>
  PROVE  Typed'
<1>1. TypedTasks(task')
  BY MoveTaskTyped DEF Actors
<1> QED BY <1>1 DEF Typed, EndTyped

LEMMA StartsTyped == ASSUME Inv, Typed, SpeechStarted PROVE Typed'
<1>1. /\ turn.rev < MaxTurns /\ verdicts' = 0
      /\ turn' = [named |-> TRUE, rev |-> turn.rev + 1, start |-> Clamped(task["consumer"].at)]
      /\ orphans' = OutdatedAll
      /\ UNCHANGED <<mode, enabled, vad, completed, turns, answering, failing, drain>>
      /\ \/ EndsAppend(task, Outdated(partial), turn'.start)
         \/ /\ task' = [task EXCEPT !["consumer"].pc = "barge"]
            /\ partial' = Outdated(partial)
            /\ UNCHANGED <<buf, broken>>
  BY DEF SpeechStarted
<1>2. task["consumer"].at \in Nat /\ buf.first \in Nat /\ turn.rev \in 0..MaxTurns
  BY BufferTyped DEF Typed, EndTyped, TypedTasks, TaskRecords, TurnTyped, TurnRecords, Actors
<1>3. turn' \in TurnRecords /\ turn'.rev # 0
  <2>1. Clamped(task["consumer"].at) \in Nat
    BY <1>2 DEF Clamped, Later
  <2>2. turn.rev + 1 \in 0..MaxTurns /\ turn.rev + 1 # 0
    BY <1>1, <1>2, DetectionAssumption
  <2> QED BY <1>1, <2>1, <2>2 DEF TurnRecords, Positions
<1>4. TurnTyped'
  <2>1. 0 \in 0..MaxVerdicts /\ 0 < MaxVerdicts
    BY DetectionAssumption
  <2> QED BY <1>1, <1>3, <2>1 DEF TurnTyped, Typed
<1>5. TypedPartial(Outdated(partial)) /\ orphans' \subseteq Orphans
  BY <1>1, OutdatedTyped DEF Typed, PartialsTyped
<1>6. TypedTasks(task)
  BY DEF Typed, EndTyped
<1>7. CASE EndsAppend(task, Outdated(partial), turn'.start)
  BY <1>1, <1>3, <1>4, <1>5, <1>6, <1>7, AppendsTyped
<1>8. CASE /\ task' = [task EXCEPT !["consumer"].pc = "barge"]
           /\ partial' = Outdated(partial)
           /\ UNCHANGED <<buf, broken>>
  <2>1. PartialsTyped' /\ "barge" \in Places \ {"vad"}
    BY <1>5, <1>8 DEF PartialsTyped, Places
  <2> QED BY <1>1, <1>4, <1>6, <1>8, <2>1, ConsumerWaitsTyped
<1> QED BY <1>1, <1>7, <1>8

LEMMA ResumesTyped == ASSUME Inv, Typed, SpeechResumed \/ ResumedGathered PROVE Typed'
<1> DEFINE tk == CancelDetection(Superseded(task))
<1>1. TypedTasks(task) /\ TypedTasks(tk)
  BY CancelTyped DEF Typed, EndTyped
<1> HIDE DEF tk
<1>2. UNCHANGED <<turn, mode, enabled, vad, verdicts, completed, turns, answering, failing, drain>>
  BY DEF SpeechResumed, ResumedGathered
<1>3. TurnTyped' /\ (turn'.start # None => turn'.rev # 0)
  BY <1>2, OpenTurnTyped DEF Typed, TurnTyped
<1>4. TypedPartial(Outdated(partial)) /\ OutdatedAll \subseteq Orphans /\ PartialsTyped
  BY OutdatedTyped DEF Typed, PartialsTyped
<1>5. CASE task' = [tk EXCEPT !["consumer"].pc = "resuming"]
           /\ UNCHANGED <<buf, partial, orphans, broken>>
  <2>1. PartialsTyped' /\ "resuming" \in Places \ {"vad"}
    BY <1>4, <1>5 DEF PartialsTyped, Places
  <2> QED BY <1>1, <1>2, <1>3, <1>5, <2>1, ConsumerWaitsTyped
<1>6. ASSUME NEW t \in {task, tk}, orphans' = OutdatedAll,
             EndsAppend(t, Outdated(partial), turn.start)
      PROVE  Typed'
  <2>1. TypedTasks(t) /\ EndsAppend(t, Outdated(partial), turn'.start)
    BY <1>1, <1>2, <1>6
  <2> QED BY <1>2, <1>3, <1>4, <1>6, <2>1, AppendsTyped
<1> QED BY <1>5, <1>6 DEF SpeechResumed, ResumedGathered, tk

LEMMA NewCandidateTyped ==
  ASSUME Typed PROVE NewCandidate \in TaskRecords /\ NewCandidate.next = "none"
  BY NoTaskTyped DEF NewCandidate, TaskRecords, Places, Typed, EndTyped, TypedTasks, TurnTyped,
     TurnRecords, Actors

LEMMA PausesTyped == ASSUME Inv, Typed, StopCandidate \/ StopGathered PROVE Typed'
<1> DEFINE tk == CancelDetection(Superseded(task))
<1>1. TypedTasks(task) /\ TypedTasks(tk) /\ TypedTasks(Superseded(task))
  BY CancelTyped DEF Typed, EndTyped
<1>2. TypedTasks([task EXCEPT !["candidate"] = NewCandidate])
      /\ TypedTasks([tk EXCEPT !["candidate"] = NewCandidate])
  BY <1>1, NewCandidateTyped, TaskTyped DEF Actors, Detectors
<1> HIDE DEF tk
<1>3. UNCHANGED <<turn, mode, enabled, vad, verdicts, completed, orphans, turns, answering,
                  failing, drain>>
  BY DEF StopCandidate, StopGathered
<1>4. TurnTyped' /\ (turn'.start # None => turn'.rev # 0)
  BY <1>3, OpenTurnTyped DEF Typed, TurnTyped
<1>5. TypedPartial(partial) /\ orphans' \subseteq Orphans /\ PartialsTyped
  BY <1>3 DEF Typed, PartialsTyped
<1>6. CASE task' = Gone(Superseded(task)) /\ broken' = TRUE /\ UNCHANGED <<buf, partial>>
  <2>1. TypedTasks(task')
    BY <1>1, <1>6, ConsumerEndsTyped
  <2> QED BY <1>3, <1>4, <1>5, <1>6, <2>1 DEF Typed, EndTyped, PartialsTyped
<1>7. CASE task' = [tk EXCEPT !["consumer"].pc = "stopping"] /\ UNCHANGED <<buf, partial, broken>>
  <2>1. PartialsTyped' /\ "stopping" \in Places \ {"vad"}
    BY <1>3, <1>5, <1>7 DEF PartialsTyped, Places
  <2> QED BY <1>1, <1>3, <1>4, <1>7, <2>1, ConsumerWaitsTyped
<1>8. ASSUME NEW t \in {task, [task EXCEPT !["candidate"] = NewCandidate],
                        [tk EXCEPT !["candidate"] = NewCandidate]},
             EndsAppend(t, partial, turn.start)
      PROVE  Typed'
  <2>1. TypedTasks(t) /\ EndsAppend(t, partial, turn'.start)
    BY <1>1, <1>2, <1>3, <1>8
  <2> QED BY <1>3, <1>4, <1>5, <2>1, AppendsTyped
<1> QED BY <1>6, <1>7, <1>8 DEF StopCandidate, StopGathered, tk

-----------------------------------------------------------------------------
(* The types: of the steps that end a turn.                                *)

\* What a step that ends a turn leaves of the types.
LEMMA EndsTyped ==
  ASSUME Typed, EndTyped', PartialsTyped', turn' \in TurnRecords, turn'.start = None,
         completed' \in 0..MaxTurns, verdicts' \in 0..MaxVerdicts,
         UNCHANGED <<mode, enabled, drain>>
  PROVE  Typed'
  BY DEF Typed, TurnTyped

LEMMA StopsTyped ==
  ASSUME Typed, NEW a \in Actors, NEW tk, TypedTasks(tk), tk[a].pc # "vad",
         NEW t \in TurnRecords, completed <= t.rev, NEW to \in Nat, StopSpeech(a, tk, t, to),
         verdicts' \in 0..MaxVerdicts, UNCHANGED <<mode, enabled, drain>>
  PROVE  Typed'
<1>1. EndTyped /\ TurnTyped /\ PartialsTyped
  BY DEF Typed
<1>2. /\ EndTyped' /\ PartialsTyped' /\ turn' \in TurnRecords /\ turn'.start = None
      /\ completed' \in 0..MaxTurns
  BY <1>1, StopSpeechTyped
<1> QED BY <1>2, EndsTyped

LEMMA TypedRecord ==
  ASSUME Typed, NEW a \in Actors
  PROVE  /\ task[a] \in TaskRecords /\ task[a].at \in Nat /\ task[a].rev \in 0..MaxTurns
         /\ turn \in TurnRecords /\ TypedTasks(task)
  BY DEF Typed, EndTyped, TypedTasks, TaskRecords, TurnTyped

\* The consumer's task with the continuation it has after the turn.
LEMMA ContinuesTyped ==
  ASSUME NEW tk, TypedTasks(tk), tk["consumer"].pc # "vad"
  PROVE  LET n == [tk EXCEPT !["consumer"].next = "append"]
         IN  TypedTasks(n) /\ n["consumer"].pc = tk["consumer"].pc
<1> DEFINE r == [tk["consumer"] EXCEPT !.next = "append"]
<1>1. tk["consumer"] \in TaskRecords /\ "consumer" \in Actors /\ "consumer" \notin Detectors
  BY DEF TypedTasks, Actors, Detectors
<1>2. r \in TaskRecords /\ r.pc = tk["consumer"].pc
  BY <1>1 DEF TaskRecords
<1>3. [tk EXCEPT !["consumer"].next = "append"] = [tk EXCEPT !["consumer"] = r]
  OBVIOUS
<1> HIDE DEF r
<1> QED BY <1>1, <1>2, <1>3, TaskTyped

LEMMA FixedSilenceTyped == ASSUME Inv, Typed, FixedSilence PROVE Typed'
<1>1. task["consumer"].pc = "stopped" /\ UNCHANGED <<mode, enabled, verdicts, drain>>
  BY DEF FixedSilence
<1>2. /\ TypedTasks(task) /\ turn \in TurnRecords /\ task["consumer"].at \in Nat
      /\ "consumer" \in Actors
  BY TypedRecord DEF Actors
<1>3. CASE turn.start # None
           /\ StopSpeech("consumer", [task EXCEPT !["consumer"].next = "append"], turn,
                         task["consumer"].at)
  <2> DEFINE n == [task EXCEPT !["consumer"].next = "append"]
  <2>1. TypedTasks(n) /\ n["consumer"].pc # "vad"
    BY <1>1, <1>2, ContinuesTyped
  <2>2. completed <= turn.rev /\ verdicts' \in 0..MaxVerdicts
    BY <1>1 DEF Inv, Order, Completed, Typed, TurnTyped
  <2>3. StopSpeech("consumer", n, turn, task["consumer"].at)
    BY <1>3
  <2> HIDE DEF n
  <2> QED BY <1>1, <1>2, <2>1, <2>2, <2>3, StopsTyped
<1>4. CASE /\ UNCHANGED <<turn, completed, orphans, vad, turns, answering, failing>>
           /\ EndsAppend(task, partial, turn.start)
  <2>1. TurnTyped' /\ TypedPartial(partial) /\ orphans' \subseteq Orphans
        /\ (turn'.start # None => turn'.rev # 0) /\ EndsAppend(task, partial, turn'.start)
    BY <1>1, <1>4, OpenTurnTyped DEF Typed, TurnTyped, PartialsTyped
  <2> QED BY <1>1, <1>2, <1>4, <2>1, AppendsTyped
<1> QED BY <1>3, <1>4 DEF FixedSilence

LEMMA CommitsTyped ==
  ASSUME Inv, Typed, NEW tk, TypedTasks(tk), Commits(tk), UNCHANGED <<mode, enabled, verdicts, drain>>
  PROVE  Typed'
<1> DEFINE r == [NoTask EXCEPT !.next = "commit"]
           committing == [tk EXCEPT !["consumer"] = r]
           manual == [named |-> TRUE, rev |-> turn.rev + 1, start |-> buf.first]
<1>1. r \in TaskRecords /\ r.pc = "none" /\ "consumer" \in Actors /\ "consumer" \notin Detectors
  BY NoTaskTyped DEF TaskRecords, Actors, Detectors
<1>2. \/ turn.start # None /\ StopSpeech("consumer", committing, turn, buf.end)
      \/ /\ task' = Idle(tk)
         /\ UNCHANGED <<vad, buf, turn, completed, partial, orphans, turns, answering,
                        broken, failing>>
      \/ turn.rev < MaxTurns /\ StopSpeech("consumer", committing, manual, buf.end)
  BY DEF Commits
<1> HIDE DEF r
<1>3. TypedTasks(committing) /\ committing["consumer"].pc # "vad"
  BY <1>1, TaskTyped
<1>4. /\ buf.first \in Nat /\ buf.end \in Nat /\ turn \in TurnRecords /\ turn.rev \in 0..MaxTurns
      /\ completed <= turn.rev /\ completed \in 0..MaxTurns /\ verdicts' \in 0..MaxVerdicts
  BY BufferTyped DEF Typed, EndTyped, TurnTyped, TurnRecords, Inv, Order, Completed
<1> HIDE DEF committing
<1>5. CASE StopSpeech("consumer", committing, turn, buf.end)
  BY <1>1, <1>3, <1>4, <1>5, StopsTyped
<1>6. CASE /\ task' = Idle(tk)
           /\ UNCHANGED <<vad, buf, turn, completed, partial, orphans, turns, answering,
                          broken, failing>>
  <2>1. TypedTasks(task')
    BY <1>6, ConsumerEndsTyped
  <2> QED BY <1>6, <2>1 DEF Typed, EndTyped, TurnTyped, PartialsTyped
<1>7. CASE turn.rev < MaxTurns /\ StopSpeech("consumer", committing, manual, buf.end)
  <2>1. turn.rev + 1 \in 0..MaxTurns /\ completed <= turn.rev + 1
    BY <1>4, <1>7, DetectionAssumption
  <2>2. manual \in TurnRecords /\ completed <= manual.rev
    BY <1>4, <2>1 DEF TurnRecords, Positions
  <2> HIDE DEF manual
  <2> QED BY <1>1, <1>3, <1>4, <1>7, <2>2, StopsTyped
<1> QED BY <1>2, <1>5, <1>6, <1>7

LEMMA CommitTyped == ASSUME Inv, Typed, CommitAudio \/ CommitGathered PROVE Typed'
<1> DEFINE tk == CancelDetection(Superseded(task))
<1>1. TypedTasks(task) /\ TypedTasks(tk) /\ UNCHANGED <<mode, enabled, verdicts, drain>>
  BY CancelTyped DEF Typed, EndTyped, CommitAudio, CommitGathered
<1> HIDE DEF tk
<1>2. CASE /\ task' = [tk EXCEPT !["consumer"].pc = "committing"]
           /\ UNCHANGED <<vad, buf, turn, completed, partial, orphans, turns, answering,
                          broken, failing>>
  <2>1. PartialsTyped' /\ TurnTyped' /\ "committing" \in Places \ {"vad"}
    BY <1>1, <1>2 DEF Typed, PartialsTyped, TurnTyped, Places
  <2> QED BY <1>1, <1>2, <2>1, ConsumerWaitsTyped
<1>3. CASE Commits(tk)
  BY <1>1, <1>3, CommitsTyped
<1>4. CASE Commits(task)
  BY <1>1, <1>4, CommitsTyped
<1> QED BY <1>2, <1>3, <1>4 DEF CommitAudio, CommitGathered, tk

LEMMA ClearsTyped ==
  ASSUME Typed, NEW tk, TypedTasks(tk), NEW p, TypedPartial(p), Clears(tk, p),
         orphans' \subseteq Orphans,
         UNCHANGED <<mode, enabled, verdicts, completed, turns, answering, broken, failing, drain>>
  PROVE  Typed'
<1>1. CASE /\ partial' = CancelPartial(p)
           /\ task' = [tk EXCEPT !["consumer"].pc = "clearing partial"]
           /\ UNCHANGED <<buf, vad, turn>>
  <2>1. PartialsTyped' /\ TurnTyped' /\ "clearing partial" \in Places \ {"vad"}
    BY <1>1, OutdatedTyped DEF Typed, PartialsTyped, TurnTyped, Places
  <2> QED BY <1>1, <2>1, ConsumerWaitsTyped
<1>2. CASE /\ partial' = p /\ task' = Idle(tk)
           /\ buf' = Cleared /\ vad' = VadReset
           /\ turn' = [turn EXCEPT !.named = FALSE, !.start = None]
  <2>1. TypedTasks(task') /\ buf' \in Buffers /\ vad' \in Vads
    BY <1>2, ConsumerEndsTyped, BufferTyped, VadResetTyped DEF Typed, EndTyped
  <2>2. turn' \in TurnRecords /\ turn'.start = None
    BY <1>2 DEF Typed, TurnTyped, TurnRecords, Positions
  <2> QED BY <1>2, <2>1, <2>2 DEF Typed, EndTyped, TurnTyped, PartialsTyped
<1> QED BY <1>1, <1>2 DEF Clears

LEMMA ClearTyped == ASSUME Typed, ClearAudio \/ ClearGathered PROVE Typed'
<1> DEFINE tk == CancelDetection(Superseded(task))
<1>1. /\ TypedTasks(task) /\ TypedTasks(tk) /\ orphans' \subseteq Orphans
      /\ TypedPartial(partial) /\ TypedPartial(Outdated(partial)) /\ TypedPartial(NoPartial)
      /\ UNCHANGED <<mode, enabled, verdicts, completed, turns, answering, broken, failing, drain>>
  BY CancelTyped, OutdatedTyped DEF Typed, EndTyped, PartialsTyped, ClearAudio, ClearGathered
<1> HIDE DEF tk
<1>2. CASE /\ task' = [tk EXCEPT !["consumer"].pc = "clearing"]
           /\ partial' = Outdated(partial)
           /\ UNCHANGED <<buf, vad, turn>>
  <2>1. PartialsTyped' /\ TurnTyped' /\ "clearing" \in Places \ {"vad"}
    BY <1>1, <1>2 DEF Typed, PartialsTyped, TurnTyped, Places
  <2> QED BY <1>1, <1>2, <2>1, ConsumerWaitsTyped
<1>3. CASE Clears(tk, Outdated(partial))
  BY <1>1, <1>3, ClearsTyped
<1>4. CASE Clears(task, partial) \/ Clears(task, NoPartial)
  BY <1>1, <1>4, ClearsTyped
<1> QED BY <1>2, <1>3, <1>4 DEF ClearAudio, ClearGathered, tk

-----------------------------------------------------------------------------
(* The types: of the detection tasks, the worker and the drain.            *)

LEMMA UnwindsTyped == ASSUME Typed, NEW a \in Actors, Unwinds(a) PROVE Typed'
<1>1. TypedTasks(task')
  BY EndTaskTyped DEF Unwinds, Typed, EndTyped
<1> QED BY <1>1 DEF Unwinds, Typed, EndTyped, TurnTyped, PartialsTyped

\* A turn about to be queued has a number.
LEMMA EndingTyped ==
  ASSUME Inv, Typed, NEW a \in Actors, Ends(a), ~task[a].cancelled
  PROVE  task[a].rev # 0 /\ task[a].rev \in 1..MaxTurns
<1>1. task[a].rev \in 0..MaxTurns /\ answering.rev \in 0..MaxTurns /\ answering.rev < task[a].rev
  BY TypedRecord DEF Inv, Order, Completed, Typed, EndTyped
<1> QED BY <1>1, DetectionAssumption

LEMMA PartialGatheredTyped == ASSUME Inv, Typed, NEW a \in Actors, PartialGathered(a) PROVE Typed'
<1>1. /\ Ends(a) /\ ~task[a].cancelled /\ partial' = NoPartial
      /\ orphans' = orphans \cup (IF partial.pc = "running" THEN {partial} ELSE {})
      /\ Enqueue(a, task) /\ UNCHANGED <<mode, enabled, turn, verdicts, completed, drain>>
  BY DEF PartialGathered, At, Ends
<1>2. EndTyped'
  BY <1>1, EndingTyped, EnqueueTyped DEF Typed, EndTyped
<1>3. PartialsTyped'
  <2>1. ASSUME partial.pc = "running" PROVE partial \in Orphans
    <3>1. partial \in PartialRecords /\ partial.rev \in 1..MaxTurns
      BY <2>1, DetectionAssumption DEF Typed, PartialsTyped, TypedPartial, PartialRecords
    <3> QED BY <2>1, <3>1 DEF PartialRecords, Orphans
  <2> QED BY <1>1, <2>1, OutdatedTyped DEF Typed, PartialsTyped
<1> QED BY <1>1, <1>2, <1>3 DEF Typed, TurnTyped

LEMMA PutTyped == ASSUME Inv, Typed, NEW a \in Actors, PutGetsRoom(a) PROVE Typed'
<1>1. /\ Ends(a) /\ ~task[a].cancelled /\ Len(turns) < QueueSize
      /\ turns' = Append(turns, task[a].rev) /\ Returns(a, task, buf)
      /\ UNCHANGED <<mode, enabled, turn, verdicts, completed, partial, orphans, answering,
                     broken, failing, drain>>
  BY DEF PutGetsRoom, At, Ends
<1>2. TypedTasks(task') /\ vad' \in Vads /\ buf' \in Buffers
  BY <1>1, ReturnsTyped DEF Typed, EndTyped
<1>3. turns' \in Seq(1..MaxTurns) /\ Len(turns') <= QueueSize
  <2>1. task[a].rev \in 1..MaxTurns
    BY <1>1, EndingTyped
  <2> QED BY <1>1, <2>1, QueueTyped DEF Typed, EndTyped
<1> QED BY <1>1, <1>2, <1>3 DEF Typed, EndTyped, TurnTyped, PartialsTyped

LEMMA CandidateSubmitsTyped == ASSUME Typed, CandidateSubmits PROVE Typed'
<1>0. TypedTasks(task) /\ "candidate" \in Actors /\ "submit" \in Places \ {"vad"}
  BY DEF Actors, Detectors, Places, Typed, EndTyped
<1>1. TypedTasks([task EXCEPT !["candidate"].pc = "submit"])
  BY <1>0, MoveTaskTyped
<1> QED BY <1>1 DEF CandidateSubmits, Typed, EndTyped, TurnTyped, PartialsTyped

\* A task ends without a turn, or the fallback timer begins.
LEMMA DetectorGoesTyped ==
  ASSUME Typed, TypedTasks(task'), failing' \in BOOLEAN, TurnTyped',
         UNCHANGED <<mode, enabled, vad, buf, turn, completed, partial, orphans, turns,
                     answering, broken, drain>>
  PROVE  Typed'
  BY DEF Typed, EndTyped, PartialsTyped

LEMMA CandidateAnsweredTyped == ASSUME Inv, Typed, CandidateAnswered PROVE Typed'
<1> DEFINE over == [task EXCEPT !["candidate"] = NoTask]
           rest == <<vad, buf, turn, completed, partial, orphans, turns, answering, broken>>
           verdict == waiter[Me]
<1>1. /\ task["candidate"].pc = "submit" /\ "candidate" \in Actors /\ "fallback" \in Actors
      /\ "fallback" \in Detectors /\ "fallback" # "consumer" /\ UNCHANGED <<mode, enabled, drain>>
  BY DEF CandidateAnswered, At, Actors, Detectors
<1>2. TypedTasks(over) /\ TypedTasks(task) /\ task["candidate"] \in TaskRecords
      /\ task["candidate"].at \in Nat /\ turn \in TurnRecords
  BY <1>1, EndTaskTyped, TypedRecord
<1>3. CASE /\ task' = over /\ failing' \in BOOLEAN /\ UNCHANGED rest /\ UNCHANGED verdicts
  BY <1>1, <1>2, <1>3, DetectorGoesTyped DEF Typed, TurnTyped
<1>4. CASE /\ verdict # "failed" /\ ~CandidateStale
           /\ verdicts' = IF verdict = "incomplete" THEN verdicts + 1 ELSE verdicts
           /\ IF verdict = "complete" \/ Forced
              THEN StopSpeech("candidate", task, turn, task["candidate"].at)
              ELSE /\ task' = [over EXCEPT !["fallback"] = NewFallback]
                   /\ UNCHANGED rest /\ UNCHANGED failing
  <2>1. turn.start # None /\ verdicts \in 0..MaxVerdicts /\ verdicts < MaxVerdicts
    BY <1>4 DEF CandidateStale, Typed, TurnTyped
  <2>2. verdicts' \in 0..MaxVerdicts
    BY <1>4, <2>1, DetectionAssumption
  <2>3. CASE StopSpeech("candidate", task, turn, task["candidate"].at)
    <3>1. completed <= turn.rev
      BY DEF Inv, Order, Completed
    <3> QED BY <1>1, <1>2, <2>2, <2>3, <3>1, StopsTyped
  <2>4. CASE /\ verdict # "complete" /\ ~Forced
             /\ task' = [over EXCEPT !["fallback"] = NewFallback]
             /\ UNCHANGED rest /\ UNCHANGED failing
    <3>1. NewFallback \in TaskRecords /\ NewFallback.next = "none"
      BY <1>2, NoTaskTyped DEF NewFallback, TaskRecords, Places
    <3>2. TypedTasks(task')
      BY <1>1, <1>2, <2>4, <3>1, TaskTyped
    <3>3. verdicts' < MaxVerdicts
      BY <1>4, <2>1, <2>4, DetectionAssumption DEF Forced
    <3>4. TurnTyped' /\ failing' \in BOOLEAN
      BY <2>2, <2>4, <3>3 DEF Typed, EndTyped, TurnTyped
    <3> QED BY <1>1, <2>4, <3>2, <3>4, DetectorGoesTyped
  <2> QED BY <1>4, <2>3, <2>4
<1>5. \/ task' = over /\ failing' = TRUE /\ UNCHANGED rest /\ UNCHANGED verdicts
      \/ task' = over /\ UNCHANGED rest /\ UNCHANGED verdicts /\ UNCHANGED failing
      \/ /\ verdict # "failed" /\ ~CandidateStale
         /\ verdicts' = IF verdict = "incomplete" THEN verdicts + 1 ELSE verdicts
         /\ IF verdict = "complete" \/ Forced
            THEN StopSpeech("candidate", task, turn, task["candidate"].at)
            ELSE /\ task' = [over EXCEPT !["fallback"] = NewFallback]
                 /\ UNCHANGED rest /\ UNCHANGED failing
  BY DEF CandidateAnswered
<1> QED BY <1>3, <1>4, <1>5 DEF Typed, EndTyped

LEMMA FallbackTyped == ASSUME Inv, Typed, FallbackWakes \/ FallbackWatched PROVE Typed'
<1> DEFINE rest == <<vad, buf, turn, completed, partial, orphans, turns, answering, broken, failing>>
<1>1. UNCHANGED <<mode, enabled, verdicts, drain>> /\ task["fallback"].pc # "vad"
      /\ "fallback" \in Actors
  BY DEF FallbackWakes, FallbackWatched, At, Actors, Detectors
<1>2. /\ TypedTasks(task) /\ task["fallback"].at \in Nat /\ turn \in TurnRecords
  BY <1>1, TypedRecord
<1>3. TypedTasks([task EXCEPT !["fallback"].pc = "watch"])
      /\ TypedTasks([task EXCEPT !["fallback"] = NoTask])
  BY <1>1, <1>2, MoveTaskTyped, EndTaskTyped DEF Places
<1>4. CASE task' \in {[task EXCEPT !["fallback"].pc = "watch"], [task EXCEPT !["fallback"] = NoTask]}
           /\ UNCHANGED rest
  BY <1>1, <1>3, <1>4, DetectorGoesTyped DEF Typed, EndTyped, TurnTyped
<1>5. CASE StopSpeech("fallback", task, turn, task["fallback"].at)
  <2>1. completed <= turn.rev /\ verdicts' \in 0..MaxVerdicts
    BY <1>1 DEF Inv, Order, Completed, Typed, TurnTyped
  <2> QED BY <1>1, <1>2, <1>5, <2>1, StopsTyped
<1> QED BY <1>4, <1>5 DEF FallbackWakes, FallbackWatched, FallbackDecides

LEMMA PartialTyped == ASSUME Typed, PartialAnswered \/ PartialUnwinds PROVE Typed'
<1>1. PartialsTyped'
  BY OutdatedTyped DEF PartialAnswered, PartialUnwinds, Typed, PartialsTyped
<1> QED BY <1>1 DEF PartialAnswered, PartialUnwinds, Typed, EndTyped, TurnTyped

LEMMA WorkerTyped ==
  ASSUME Typed, WorkerTakes \/ \E fails \in BOOLEAN : WorkerAnswers(fails)
  PROVE  Typed'
<1>1. CASE WorkerTakes
  <2>1. turns # <<>> /\ turns' = Tail(turns) /\ answering' = [pc |-> "busy", rev |-> Head(turns)]
    BY <1>1 DEF WorkerTakes
  <2>2. /\ turns \in Seq(1..MaxTurns) /\ Len(turns) <= QueueSize /\ Len(turns) \in Nat
    BY DEF Typed, EndTyped
  <2>3. /\ Head(turns) \in 1..MaxTurns /\ Tail(turns) \in Seq(1..MaxTurns)
        /\ Len(Tail(turns)) = Len(turns) - 1
    BY <2>1, <2>2, HeadTailProperties
  <2>4. Len(turns') <= QueueSize /\ Head(turns) \in 0..MaxTurns
    BY <2>1, <2>2, <2>3, DetectionAssumption
  <2> QED BY <1>1, <2>1, <2>3, <2>4 DEF WorkerTakes, Typed, EndTyped, TurnTyped, PartialsTyped
<1>2. ASSUME NEW fails \in BOOLEAN, WorkerAnswers(fails) PROVE Typed'
  BY <1>2 DEF WorkerAnswers, Typed, EndTyped, TurnTyped, PartialsTyped
<1> QED BY <1>1, <1>2

LEMMA DrainTyped ==
  ASSUME Typed, DrainBegins \/ DrainPassesTasks \/ DrainPassesPartial \/ DrainEnds
  PROVE  Typed'
<1>1. CASE DrainBegins
  <2>1. TypedTasks(task') /\ PartialsTyped'
    BY <1>1, CancelTyped, OutdatedTyped DEF DrainBegins, Typed, EndTyped, PartialsTyped
  <2> QED BY <1>1, <2>1 DEF DrainBegins, Typed, EndTyped, TurnTyped
<1>2. CASE DrainPassesTasks
  <2>1. PartialsTyped'
    BY <1>2, OutdatedTyped DEF DrainPassesTasks, Typed, PartialsTyped
  <2> QED BY <1>2, <2>1 DEF DrainPassesTasks, Typed, EndTyped, TurnTyped
<1>3. CASE DrainPassesPartial
  <2>1. PartialsTyped'
    BY <1>3, OutdatedTyped DEF DrainPassesPartial, Typed, PartialsTyped
  <2>2. turns' \in Seq(1..MaxTurns) /\ Len(turns') <= QueueSize
    BY <1>3, DetectionAssumption DEF DrainPassesPartial
  <2> QED BY <1>3, <2>1, <2>2 DEF DrainPassesPartial, Typed, EndTyped, TurnTyped
<1>4. CASE DrainEnds
  <2>1. vad' \in Vads /\ buf' \in Buffers
    BY <1>4, VadResetTyped, BufferTyped DEF DrainEnds, Typed, EndTyped
  <2> QED BY <1>4, <2>1 DEF DrainEnds, Typed, EndTyped, TurnTyped, PartialsTyped
<1> QED BY <1>1, <1>2, <1>3, <1>4

LEMMA OthersTyped == ASSUME Typed, UNCHANGED detectionVars PROVE Typed'
  BY DEF detectionVars, Typed, EndTyped, TurnTyped, PartialsTyped, TypedTasks, TypedPartial

LEMMA InitTyped == Init => Typed
<1> SUFFICES ASSUME Init PROVE Typed
  OBVIOUS
<1>1. TypedTasks(task)
  BY NoTaskTyped DEF Init, TypedTasks, Actors, Detectors
<1>2. vad \in Vads /\ buf \in Buffers
  BY VadResetTyped, BufferAssumption DEF Init, Cleared, Buffers
<1>3. turns \in Seq(1..MaxTurns) /\ Len(turns) <= QueueSize
  BY DetectionAssumption DEF Init
<1>4. PartialsTyped
  BY OutdatedTyped DEF Init, PartialsTyped
<1>5. TurnTyped
  BY DetectionAssumption DEF Init, TurnTyped, TurnRecords, Positions, None
<1>6. answering \in [pc : {"none", "waiting", "busy"}, rev : 0..MaxTurns]
  BY DetectionAssumption DEF Init
<1> QED BY <1>1, <1>2, <1>3, <1>4, <1>5, <1>6 DEF Init, Typed, EndTyped

LEMMA StepTyped == ASSUME Inv, Typed, [Next]_vars PROVE Typed'
<1>1. ASSUME NEW on \in BOOLEAN, NEW threshold \in BOOLEAN, UpdateSession(on, threshold)
      PROVE  Typed'
  BY <1>1, UpdateTyped
<1>2. CASE AppendAudio(Window)
  BY <1>2, AppendAudioTyped
<1>3. CASE CommitAudio \/ ClearAudio
  BY <1>3, CommitTyped, ClearTyped
<1>4. CASE ConsumerSteps
  BY <1>4, VadRunsTyped, HearsTyped, StartsTyped, ResumesTyped, FixedSilenceTyped, PausesTyped,
     CommitTyped, ClearTyped DEF ConsumerSteps
<1>5. ASSUME NEW a \in Actors, DetectorSteps(a) PROVE Typed'
  BY <1>5, UnwindsTyped, PartialGatheredTyped, PutTyped DEF DetectorSteps
<1>6. CASE CandidateSubmits \/ CandidateAnswered \/ FallbackWakes \/ FallbackWatched
  BY <1>6, CandidateSubmitsTyped, CandidateAnsweredTyped, FallbackTyped
<1>7. CASE PartialAnswered \/ PartialUnwinds
  BY <1>7, PartialTyped
<1>8. CASE WorkerTakes \/ \E fails \in BOOLEAN : WorkerAnswers(fails)
  BY <1>8, WorkerTyped
<1>9. CASE ConsumerCancelled
  BY <1>9, FailsTyped DEF ConsumerCancelled
<1>10. CASE DrainBegins \/ DrainPassesTasks \/ DrainPassesPartial \/ DrainEnds
  BY <1>10, DrainTyped
<1>11. CASE SchedulerSteps \/ (\E s \in Sessions \ {Me} : OtherSession(s)) \/ SchedulerCloses
            \/ UNCHANGED vars
  BY <1>11, OthersTyped DEF SchedulerSteps, OtherSession, SchedulerCloses, vars
<1> QED BY <1>1, <1>2, <1>3, <1>4, <1>5, <1>6, <1>7, <1>8, <1>9, <1>10, <1>11 DEF Next

LEMMA SequenceElements ==
  ASSUME NEW S, NEW s \in Seq(S) PROVE \A i \in DOMAIN s : s[i] \in S
  OBVIOUS

\* The types of the whole of the turn detection, and with them the invariant the runs
\* check: a judged pause has an open turn with a verdict left, what is queued or
\* transcribed is a turn, the audio's positions are in order (pipeline.py:182-260).
THEOREM TypedAlways == Spec => []Typed
<1>1. Inv /\ Typed /\ [Next]_vars => Typed'
  BY StepTyped
<1> QED BY <1>1, InitTyped, InductiveInvariant, PTL DEF Spec

\* The invariant the runs check.
THEOREM IInvAlways == Spec => []IInv
<1>1. Inv /\ Typed => IInv
  <2>1. ASSUME Inv, Typed PROVE TypeOK
    <3>1. \A i \in DOMAIN turns : turns[i] \in 1..MaxTurns
      BY <2>1, SequenceElements DEF Typed, EndTyped
    <3> QED BY <2>1, <3>1 DEF TypeOK, Typed, EndTyped, TurnTyped, PartialsTyped, TypedTasks,
              TypedPartial, TaskRecords, TurnRecords, PartialRecords, Orphans
  <2> QED BY <2>1 DEF Inv, Order, IInv
<1> QED BY <1>1, InductiveInvariant, TypedAlways, PTL

-----------------------------------------------------------------------------
(* What the steps leave alone.                                             *)

\* The other tasks stay as they are.
LEMMA OthersStay ==
  ASSUME NEW tk, TypedTasks(tk), NEW a \in Actors
  PROVE  /\ \A r : /\ [tk EXCEPT ![a] = r][a] = r
                   /\ \A b \in Actors \ {a} : [tk EXCEPT ![a] = r][b] = tk[b]
         /\ \A pc : /\ [tk EXCEPT ![a].pc = pc][a] = [tk[a] EXCEPT !.pc = pc]
                    /\ [tk EXCEPT ![a].pc = pc][a].pc = pc
                    /\ [tk EXCEPT ![a].pc = pc][a].cancelled = tk[a].cancelled
                    /\ \A b \in Actors \ {a} : [tk EXCEPT ![a].pc = pc][b] = tk[b]
<1>1. tk \in [Actors -> TaskRecords] /\ tk[a] \in TaskRecords
  BY DEF TypedTasks
<1>2. \A pc : [tk[a] EXCEPT !.pc = pc].pc = pc /\ [tk[a] EXCEPT !.pc = pc].cancelled = tk[a].cancelled
  BY <1>1 DEF TaskRecords
<1>3. \A pc : [tk EXCEPT ![a].pc = pc][a] = [tk[a] EXCEPT !.pc = pc]
  BY <1>1
<1> QED BY <1>1, <1>2, <1>3

LEMMA ConsumerIs == "consumer" \in Actors /\ Actors \ {"consumer"} = Detectors
  BY DEF Actors, Detectors

\* The consumer goes on, and the detection tasks stay as they are.
LEMMA ConsumerGoesTo ==
  ASSUME NEW tk, TypedTasks(tk), NEW pc
  PROVE  /\ [tk EXCEPT !["consumer"].pc = pc]["consumer"].pc = pc
         /\ \A d \in Detectors : [tk EXCEPT !["consumer"].pc = pc][d] = tk[d]
<1>1. "consumer" \in Actors
  BY ConsumerIs
<1>2. /\ [tk EXCEPT !["consumer"].pc = pc]["consumer"].pc = pc
      /\ \A b \in Actors \ {"consumer"} : [tk EXCEPT !["consumer"].pc = pc][b] = tk[b]
  BY <1>1, OthersStay
<1> QED BY <1>2, ConsumerIs

\* A cancelled or superseded task is where it was.
LEMMA CancelStays ==
  ASSUME NEW tk, TypedTasks(tk)
  PROVE  /\ CancelDetection(tk)["consumer"] = tk["consumer"]
         /\ \A a \in Actors : /\ CancelDetection(tk)[a].pc = tk[a].pc
                              /\ CancelDetection(tk)[a].rev = tk[a].rev
                              /\ CancelDetection(tk)[a].at = tk[a].at
                              /\ CancelDetection(tk)[a].cancelled =
                                   (tk[a].cancelled \/ (a \in Detectors /\ tk[a].pc # "none"))
                              /\ Superseded(tk)[a].pc = tk[a].pc
                              /\ Superseded(tk)[a].rev = tk[a].rev
                              /\ Superseded(tk)[a].at = tk[a].at
                              /\ Superseded(tk)[a].cancelled = tk[a].cancelled
         /\ Superseded(tk)["consumer"] = tk["consumer"]
<1>1. tk \in [Actors -> TaskRecords] /\ \A a \in Actors : tk[a] \in TaskRecords
  BY DEF TypedTasks
<1>2. CancelDetection(tk)["consumer"] = tk["consumer"] /\ Superseded(tk)["consumer"] = tk["consumer"]
  BY DEF CancelDetection, Superseded, Actors, Detectors
<1>3. ASSUME NEW a \in Actors
      PROVE  /\ CancelDetection(tk)[a].pc = tk[a].pc
             /\ CancelDetection(tk)[a].rev = tk[a].rev /\ CancelDetection(tk)[a].at = tk[a].at
             /\ CancelDetection(tk)[a].cancelled =
                  (tk[a].cancelled \/ (a \in Detectors /\ tk[a].pc # "none"))
             /\ Superseded(tk)[a].pc = tk[a].pc
             /\ Superseded(tk)[a].rev = tk[a].rev /\ Superseded(tk)[a].at = tk[a].at
             /\ Superseded(tk)[a].cancelled = tk[a].cancelled
  <2>1. tk[a] \in TaskRecords /\ tk[a].cancelled \in BOOLEAN
    BY <1>1 DEF TaskRecords
  <2>2. CASE a \in Detectors /\ tk[a].pc # "none"
    BY <2>1, <2>2 DEF CancelDetection, Superseded, TaskRecords
  <2>3. CASE ~(a \in Detectors /\ tk[a].pc # "none")
    BY <2>1, <2>3 DEF CancelDetection, Superseded, TaskRecords
  <2> QED BY <2>2, <2>3
<1> QED BY <1>2, <1>3

\* The task that cuts a turn out of the buffer touches no other.
LEMMA EnqueueStays ==
  ASSUME NEW tk, TypedTasks(tk), NEW a \in Actors, Enqueue(a, tk)
  PROVE  /\ \A b \in Actors \ {a} : task'[b] = tk[b]
         /\ task'[a].pc \in {"none", "put", "gone"}
         /\ tk[a].next = "none" => vad' = vad
<1>1. /\ \/ task' = [tk EXCEPT ![a] = NoTask]
         \/ task' = [tk EXCEPT ![a].pc = "put"]
         \/ a = "consumer" /\ task' = [tk EXCEPT !["consumer"] = [NoTask EXCEPT !.pc = "gone"]]
      /\ tk[a].next = "none" => vad' = vad
  BY DEF Enqueue, Raises, Returns, Gone
<1>2. NoTask.pc = "none" /\ [NoTask EXCEPT !.pc = "gone"].pc = "gone"
  BY DEF NoTask
<1>3. CASE task' = [tk EXCEPT ![a] = NoTask]
  BY <1>1, <1>2, <1>3, OthersStay
<1>4. CASE task' = [tk EXCEPT ![a].pc = "put"]
  BY <1>1, <1>4, OthersStay
<1>5. CASE a = "consumer" /\ task' = [tk EXCEPT !["consumer"] = [NoTask EXCEPT !.pc = "gone"]]
  <2> DEFINE r == [NoTask EXCEPT !.pc = "gone"]
  <2>1. task' = [tk EXCEPT ![a] = r] /\ r.pc = "gone"
    BY <1>2, <1>5
  <2> HIDE DEF r
  <2> QED BY <1>1, <2>1, OthersStay
<1> QED BY <1>1, <1>3, <1>4, <1>5

LEMMA StopStays ==
  ASSUME NEW tk, TypedTasks(tk), NEW a \in Actors, NEW t \in TurnRecords, NEW to \in Nat,
         tk[a].pc # "vad", StopSpeech(a, tk, t, to)
  PROVE  /\ \A b \in Actors \ {a} : task'[b] = tk[b]
         /\ task'[a].pc \in {"none", "put", "gone", "gather"}
         /\ tk[a].next = "none" => vad' = vad
         /\ turn'.start = None /\ turn'.rev = t.rev
<1> DEFINE arguments == [tk[a] EXCEPT !.rev = t.rev, !.from = t.start, !.at = to]
           called == [tk EXCEPT ![a] = arguments]
<1>1. /\ turn' = [t EXCEPT !.start = None]
      /\ \/ task' = [called EXCEPT ![a] = NoTask] /\ (called[a].next = "none" => vad' = vad)
         \/ Enqueue(a, called)
         \/ task' = [called EXCEPT ![a].pc = "gather"] /\ vad' = vad
  BY DEF StopSpeech, Stops, Returns
<1>2. tk[a] \in TaskRecords
  BY DEF TypedTasks
<1>3. /\ arguments \in TaskRecords /\ arguments.next = tk[a].next /\ arguments.pc = tk[a].pc
  BY <1>2 DEF TaskRecords, TurnRecords
<1>4. a \in Detectors => arguments.next = "none"
  BY <1>3 DEF TypedTasks
<1> HIDE DEF arguments
<1>5. TypedTasks(called) /\ called[a] = arguments /\ \A b \in Actors \ {a} : called[b] = tk[b]
  BY <1>3, <1>4, TaskTyped
<1> HIDE DEF called
<1>6. turn'.start = None /\ turn'.rev = t.rev
  BY <1>1 DEF TurnRecords
<1>7. CASE Enqueue(a, called)
  BY <1>3, <1>5, <1>6, <1>7, EnqueueStays
<1>8. CASE task' = [called EXCEPT ![a] = NoTask] /\ (called[a].next = "none" => vad' = vad)
  BY <1>3, <1>5, <1>6, <1>8, OthersStay, NoTaskTyped
<1>9. CASE task' = [called EXCEPT ![a].pc = "gather"] /\ vad' = vad
  BY <1>5, <1>6, <1>9, OthersStay
<1> QED BY <1>1, <1>7, <1>8, <1>9

\* The end of _append_audio.
LEMMA AppendStays ==
  ASSUME NEW tk, TypedTasks(tk), NEW p, NEW start, EndsAppend(tk, p, start)
  PROVE  /\ \A d \in Detectors : task'[d] = tk[d]
         /\ task'["consumer"].pc \in {"none", "gone"}
<1>1. task' = Idle(tk) \/ task' = Gone(tk)
  BY DEF EndsAppend
<1>2. NoTask.pc = "none" /\ [NoTask EXCEPT !.pc = "gone"].pc = "gone"
  BY DEF NoTask
<1>3. PICK r \in {NoTask, [NoTask EXCEPT !.pc = "gone"]} : task' = [tk EXCEPT !["consumer"] = r]
  BY <1>1 DEF Idle, Gone
<1>4. r.pc \in {"none", "gone"}
  BY <1>2, <1>3
<1>5. \A d \in Detectors : d \in Actors \ {"consumer"}
  BY ConsumerIs
<1> QED BY <1>3, <1>4, <1>5, OthersStay, ConsumerIs

\* Who decides about a pause, as far as it matters here.
LEMMA Deciding ==
  ASSUME Inv
  PROVE  /\ Ends("consumer") => ~Detecting
         /\ mode = "fixed_silence" => ~Detecting
         /\ ~task["consumer"].cancelled
         /\ ~Detecting => \A d \in Detectors : task[d].pc = "none" /\ ~Ends(d)
  BY DEF Inv, Order, OneDecides, Detecting, Ends

-----------------------------------------------------------------------------
(* The slices, of a session that ends its turns by silence, or of one that  *)
(* judges them and transcribes no part of a turn.                          *)

\* The buffer b, the voice activity detection v that n samples have not reached yet,
\* and the start of the open turn: what is buffered has been heard or waits for the
\* next window, an empty buffer counts from zero, and the open turn and the pause in
\* it lie within what is buffered.
Aligned(v, b, start, on, n) ==
  /\ IF on THEN b.end = v.processed + v.rest + n ELSE v.processed = 0 /\ v.rest = 0
  /\ b.first = b.end => b.end = 0
  /\ b.first <= v.processed
  /\ v.candidate # None => v.candidate <= v.processed
  /\ v.silence # None => v.speech # None /\ v.silence <= v.processed
  /\ start # None => /\ b.first <= start /\ start <= v.processed
                     /\ v.silence # None => start <= v.silence

Unheard(c) == IF c.pc = "vad" THEN Window ELSE 0

\* A commit that waits for room in the queue has cut everything out.
CutOut(c) == c.pc = "put" /\ c.next = "commit"

\* Where the consumer is, with the positions it has in hand.
Placed(c, v, b, start, on) ==
  /\ c.pc \in {"vad", "quiet", "started", "stopped", "barge", "resuming", "stopping"} => on
  /\ c.pc = "started" => c.at <= v.processed /\ v.silence = None
  /\ c.pc \in {"stopped", "stopping"} =>
       /\ c.at <= v.processed /\ c.at < b.end /\ v.silence = None
       /\ start # None => start <= c.at
  /\ c.pc = "gather" =>
       /\ c.from # None /\ b.first <= c.from /\ c.from <= c.at /\ c.at <= b.end
       /\ c.next = "append" => c.at <= v.processed /\ c.at < b.end
  /\ c.pc \in {"gather", "put"} => c.next # "none" /\ start = None
  /\ c.pc \in {"gather", "put"} /\ c.next = "append" => on

Follows(c) ==
  /\ CutOut(c) \/ Aligned(vad, buf, turn.start, enabled, Unheard(c))
  /\ Placed(c, vad, buf, turn.start, enabled)

SilenceSound == ~broken /\ (task["consumer"].pc # "gone" => Follows(task["consumer"]))

\* A pause that is judged lies in the open turn and in what is buffered, unless the
\* turn has ended or been cleared since.
Judging == {"new", "submit", "sleep", "watch"}

Judges(tk) ==
  \A d \in Detectors : tk[d].pc \in Judging =>
    /\ tk[d].rev <= turn.rev
    /\ turn.start # None /\ tk[d].rev = turn.rev =>
         /\ buf.first <= turn.start /\ turn.start <= tk[d].at
         /\ tk[d].at <= vad.processed /\ tk[d].at < buf.end

Judged == Judges(task)

\* Without partial transcription nobody awaits its task, so that the audio of a turn
\* is cut out in the step that ends it.
Partless == partial.pc = "none" /\ \A a \in Actors : task[a].pc # "gather"

Unpartial == mode = "fixed_silence" \/ ~PartialEnabled

Sound ==
  /\ ~PartialEnabled => Partless
  /\ Unpartial => SilenceSound /\ Judged

LEMMA TrimAligned ==
  ASSUME NEW v \in Vads, NEW b \in Buffers, NEW on \in BOOLEAN, on, Aligned(v, b, None, on, 0)
  PROVE  Aligned(v, Trimmed(b), None, on, 0)
<1>1. /\ b.first \in Nat /\ b.end \in Nat /\ v.processed \in Nat /\ v.rest \in Nat /\ v.rest < Window
      /\ b.end = v.processed + v.rest + 0 /\ b.first <= v.processed
      /\ b.first = b.end => b.end = 0
      /\ b \in [first : Nat, end : Nat]
  BY VadAssumption DEF Aligned, Vads, Buffers
<1>2. CASE Held(b) > Keep
  <2> DEFINE s == Later(b.first, b.end - Keep)
  <2>1. s \in Nat /\ s <= v.processed /\ s < b.end
    BY <1>1, <1>2, VadAssumption, DetectionAssumption DEF Later, Held
  <2> HIDE DEF s
  <2>2. DiscardedBefore(b, s).first = s /\ DiscardedBefore(b, s).end = b.end
    BY <1>1 DEF DiscardedBefore
  <2>3. Trimmed(b) = DiscardedBefore(b, s)
    BY <1>2 DEF Trimmed, s
  <2> QED BY <1>1, <2>1, <2>2, <2>3 DEF Aligned
<1>3. CASE ~(Held(b) > Keep)
  BY <1>3 DEF Trimmed
<1> QED BY <1>2, <1>3

LEMMA DiscardAligned ==
  ASSUME NEW v \in Vads, NEW b \in Buffers, NEW on \in BOOLEAN, NEW n, Aligned(v, b, None, on, n),
         NEW s \in Nat, s <= v.processed, s < b.end
  PROVE  Aligned(v, DiscardedBefore(b, s), None, on, n)
<1>1. b \in [first : Nat, end : Nat] /\ b.end \in Nat
  BY DEF Buffers
<1>2. DiscardedBefore(b, s).first = s /\ DiscardedBefore(b, s).end = b.end
  BY <1>1 DEF DiscardedBefore
<1>3. s # b.end
  BY <1>1
<1> QED BY <1>2, <1>3 DEF Aligned

LEMMA ResetAligned == \A on \in BOOLEAN : Aligned(VadReset, Cleared, None, on, 0)
  BY DEF Aligned, VadReset, Cleared, None

LEMMA ReleasedStart ==
  ASSUME NEW v, NEW b, NEW start, NEW on, NEW n, Aligned(v, b, start, on, n)
  PROVE  Aligned(v, b, None, on, n)
  BY DEF Aligned

\* One window of process_pcm16: a pause that ends a turn ends before the window does,
\* as long as the padding is shorter than the silence.
LEMMA ProcessAligned ==
  ASSUME Pad < MinSilence, NEW v \in Vads, NEW b \in Buffers, NEW start \in Positions,
         Aligned(v, b, start, TRUE, Window), NEW speech \in BOOLEAN
  PROVE  LET r == Process(v, Window, speech)
         IN  /\ Aligned(r.vad, b, start, TRUE, 0)
             /\ r.signal = "started" => r.at <= r.vad.processed /\ r.vad.silence = None
             /\ r.signal = "stopped" =>
                  /\ r.at <= r.vad.processed /\ r.at < b.end /\ r.vad.silence = None
                  /\ start # None => start <= r.at
<1>1. /\ v.processed \in Nat /\ v.rest \in Nat /\ v.candidate \in Positions
      /\ v.quiet \in Positions /\ v.speech \in Positions /\ v.silence \in Positions
      /\ Window \in Nat /\ Window # 0 /\ Pad \in Nat /\ MinSilence \in Nat
      /\ b.first \in Nat /\ b.end \in Nat
  BY VadAssumption DEF Vads, Buffers
<1>2. /\ b.end = v.processed + v.rest + Window
      /\ b.first = b.end => b.end = 0
      /\ b.first <= v.processed
      /\ v.candidate # None => v.candidate <= v.processed
      /\ v.silence # None => v.speech # None /\ v.silence <= v.processed
      /\ start # None => /\ b.first <= start /\ start <= v.processed
                         /\ v.silence # None => start <= v.silence
  BY DEF Aligned
<1> DEFINE now == v.processed
           end == now + Window
           Good(w) == /\ w.processed = now /\ w.candidate \in Positions /\ w.silence \in Positions
                      /\ w.candidate # None => w.candidate <= end
                      /\ w.silence # None => w.speech # None /\ w.silence <= end
                      /\ start # None /\ w.silence # None => start <= w.silence
           Told(r) == /\ Good(r.vad)
                      /\ r.signal = "started" => r.at <= end /\ r.vad.silence = None
                      /\ r.signal = "stopped" => /\ r.at < end /\ r.vad.silence = None
                                                 /\ start # None => start <= r.at
<1>3. None \in Positions /\ end \in Nat /\ Nat \subseteq Positions /\ now <= end
  BY <1>1 DEF Positions
<1>4. \A w : Good(w) => Told(Nothing(w))
  BY DEF Nothing
<1>5. ASSUME v.speech = None PROVE Told(Listen(v, speech))
  <2> DEFINE from == Since(v.candidate, now)
             quiet == Since(v.quiet, now)
             begin == IF from > Pad THEN from - Pad ELSE 0
  <2>1. from \in Nat /\ quiet \in Nat /\ v.silence = None
    BY <1>1, <1>2, <1>5, SinceTyped
  <2>2. from <= end /\ begin \in Nat /\ begin <= end
    <3>1. from <= end
      BY <1>1, <1>2, <1>3 DEF Since, Positions
    <3> QED BY <1>1, <1>3, <2>1, <3>1
  <2> HIDE DEF from, quiet
  <2> DEFINE w1 == [v EXCEPT !.candidate = from, !.quiet = None, !.speech = begin]
             w2 == [v EXCEPT !.candidate = from, !.quiet = None]
             w3 == [v EXCEPT !.candidate = None, !.quiet = None]
             w4 == [v EXCEPT !.quiet = quiet]
  <2>3. \/ Listen(v, speech) = [vad |-> w1, signal |-> "started", at |-> begin]
        \/ Listen(v, speech) \in {Nothing(w2), Nothing(w3), Nothing(w4), Nothing(v)}
    BY DEF Listen, from, quiet
  <2> HIDE DEF begin
  <2>4. /\ w1.processed = now /\ w1.silence = None /\ w1.candidate = from
        /\ w2.processed = now /\ w2.silence = None /\ w2.candidate = from
        /\ w3.processed = now /\ w3.silence = None /\ w3.candidate = None
        /\ w4.processed = now /\ w4.silence = None /\ w4.candidate = v.candidate
    BY <2>1 DEF Vads
  <2>a. ASSUME NEW w, w.processed = now, w.silence = None, w.candidate \in {None, from, v.candidate}
        PROVE  Good(w)
    BY <1>1, <1>2, <1>3, <2>1, <2>2, <2>a DEF Positions
  <2>5. Good(w1) /\ Good(w2) /\ Good(w3) /\ Good(w4) /\ Good(v)
    <3> HIDE DEF Good, w1, w2, w3, w4
    <3> QED BY <2>1, <2>4, <2>a
  <2>6. Told([vad |-> w1, signal |-> "started", at |-> begin])
    BY <2>2, <2>4, <2>5
  <2> HIDE DEF Good, Told, w1, w2, w3, w4
  <2> QED BY <1>4, <2>3, <2>5, <2>6
<1>6. ASSUME v.speech # None PROVE Told(Follow(v, speech))
  <2> DEFINE silence == Since(v.silence, now)
             stop == IF silence + Pad < end THEN silence + Pad ELSE end
  <2>1. silence \in Nat /\ silence <= end /\ (start # None => start <= silence)
    <3>1. silence \in Nat
      BY <1>1, SinceTyped
    <3> QED BY <1>1, <1>2, <1>3, <3>1 DEF Since, Positions
  <2> HIDE DEF silence
  <2>2. end - silence >= MinSilence => stop < end /\ (start # None => start <= stop)
    BY <1>1, <1>3, <2>1 DEF Positions
  <2> DEFINE w1 == TurnCleared(v)
             w2 == [v EXCEPT !.silence = None]
             w3 == [v EXCEPT !.silence = silence]
  <2>3. \/ /\ end - silence >= MinSilence
           /\ Follow(v, speech) = [vad |-> w1, signal |-> "stopped", at |-> stop]
        \/ Follow(v, speech) \in {Nothing(w2), Nothing(w3)}
    BY DEF Follow, silence
  <2> HIDE DEF stop
  <2>4. /\ w1.processed = now /\ w1.silence = None /\ w1.candidate = None
        /\ w2.processed = now /\ w2.silence = None /\ w2.candidate = v.candidate
        /\ w3.processed = now /\ w3.silence = silence /\ w3.candidate = v.candidate
        /\ w3.speech = v.speech
    BY DEF Vads, TurnCleared
  <2>a. ASSUME NEW w, w.processed = now, w.candidate \in {None, v.candidate},
               w.silence # None => w.silence = silence /\ w.speech = v.speech
        PROVE  Good(w)
    <3>1. w.candidate \in Positions /\ (w.candidate # None => w.candidate <= end)
      BY <1>1, <1>2, <1>3, <2>a DEF Positions
    <3>2. CASE w.silence = None
      BY <1>3, <2>a, <3>1, <3>2
    <3>3. CASE w.silence # None
      BY <1>3, <1>6, <2>1, <2>a, <3>1, <3>3
    <3> QED BY <3>2, <3>3
  <2>5. Good(w1) /\ Good(w2) /\ Good(w3)
    <3> HIDE DEF Good, w1, w2, w3
    <3> QED BY <2>4, <2>a
  <2>6. w1.silence = None
    BY DEF Vads, TurnCleared
  <2>7. end - silence >= MinSilence => Told([vad |-> w1, signal |-> "stopped", at |-> stop])
    BY <2>2, <2>5, <2>6
  <2> HIDE DEF Good, Told, w1, w2, w3
  <2> QED BY <1>4, <2>3, <2>5, <2>7
<1> DEFINE r == Advance(v, speech)
           q == Process(v, Window, speech)
<1>7. Told(r)
  BY <1>5, <1>6 DEF Advance
<1>8. v.rest + Window - Window = v.rest /\ ~(v.rest + Window < Window)
  BY <1>1
<1>9. q = [r EXCEPT !.vad.processed = @ + Window, !.vad.rest = v.rest]
  BY <1>8 DEF Process
<1>10. r \in [vad : Vads, signal : {"quiet", "started", "stopped"}, at : Nat]
  BY AdvanceTyped
<1> HIDE DEF r, q
<1>11. /\ q.vad.processed = r.vad.processed + Window /\ q.vad.rest = v.rest
       /\ q.signal = r.signal /\ q.at = r.at
       /\ q.vad.candidate = r.vad.candidate /\ q.vad.silence = r.vad.silence
       /\ q.vad.speech = r.vad.speech
  BY <1>9, <1>10 DEF Vads
<1>12. q.vad.processed = end /\ b.end = end + v.rest + 0
  BY <1>1, <1>2, <1>7, <1>11
<1>13. Aligned(q.vad, b, start, TRUE, 0)
  BY <1>1, <1>2, <1>3, <1>7, <1>11, <1>12 DEF Aligned, Positions
<1>14. q.signal = "stopped" => q.at <= end /\ q.at < b.end
  <2>1. q.at \in Nat
    BY <1>10, <1>11
  <2> QED BY <1>1, <1>3, <1>7, <1>11, <1>12, <2>1
<1> QED BY <1>7, <1>11, <1>12, <1>13, <1>14 DEF q

-----------------------------------------------------------------------------
(* The slices: the consumer's steps.                                       *)

\* No task judges the pauses of such a session.
LEMMA FixedAlone ==
  ASSUME Inv, Typed, mode = "fixed_silence"
  PROVE  /\ ~Detecting /\ \A d \in Detectors : task[d].pc = "none"
         /\ ~task["consumer"].cancelled /\ task["consumer"].pc # "stopping"
  BY DEF Inv, Order, OneDecides, Detecting

LEMMA FreeFollows ==
  ASSUME NEW c, c.pc = "none", Aligned(vad, buf, turn.start, enabled, 0)
  PROVE  Follows(c)
  BY DEF Follows, CutOut, Unheard, Placed

LEMMA GoneSound == ASSUME ~broken', task'["consumer"].pc = "gone" PROVE SilenceSound'
  BY DEF SilenceSound

LEMMA FreeSound ==
  ASSUME ~broken', task'["consumer"] = NoTask, Aligned(vad', buf', turn'.start, enabled', 0)
  PROVE  SilenceSound'
<1>1. task'["consumer"].pc = "none"
  BY NoTaskTyped
<1> QED BY <1>1, FreeFollows DEF SilenceSound, Follows, CutOut, Unheard, Placed

\* The consumer waits for something that concerns no position.
LEMMA WaitsSound ==
  ASSUME ~broken', Aligned(vad', buf', turn'.start, enabled', 0), enabled',
         task'["consumer"].pc \in {"quiet", "barge", "resuming"}
  PROVE  SilenceSound'
  BY DEF SilenceSound, Follows, CutOut, Unheard, Placed

\* The consumer waits for the detection tasks it has cancelled before it takes anything.
LEMMA GathersSound ==
  ASSUME ~broken', Aligned(vad', buf', turn'.start, enabled', 0),
         task'["consumer"].pc \in {"committing", "clearing", "clearing partial"}
  PROVE  SilenceSound'
  BY DEF SilenceSound, Follows, CutOut, Unheard, Placed

LEMMA ConsumerRecords ==
  ASSUME NEW tk, TypedTasks(tk)
  PROVE  /\ Idle(tk)["consumer"] = NoTask /\ Gone(tk)["consumer"].pc = "gone"
         /\ "consumer" \in Actors /\ "consumer" \notin Detectors
         /\ \A r : [tk EXCEPT !["consumer"] = r]["consumer"] = r
         /\ \A pc : [tk EXCEPT !["consumer"].pc = pc]["consumer"] = [tk["consumer"] EXCEPT !.pc = pc]
         /\ tk["consumer"] \in TaskRecords
<1>1. "consumer" \in Actors /\ "consumer" \notin Detectors
  BY DEF Actors, Detectors
<1>2. tk \in [Actors -> TaskRecords]
  BY DEF TypedTasks
<1>3. [NoTask EXCEPT !.pc = "gone"].pc = "gone"
  BY DEF NoTask
<1>4. Gone(tk)["consumer"] = [NoTask EXCEPT !.pc = "gone"]
  BY <1>1, <1>2 DEF Gone
<1> QED BY <1>1, <1>2, <1>3, <1>4 DEF Idle

\* The end of _append_audio: a partial transcription finds its samples.
LEMMA AppendSound ==
  ASSUME Typed, ~broken, enabled, NEW tk, TypedTasks(tk), NEW p, NEW start \in Positions,
         start = turn'.start, Aligned(vad, buf, start, enabled, 0), EndsAppend(tk, p, start),
         UNCHANGED <<vad, enabled>>
  PROVE  SilenceSound'
<1>1. vad \in Vads /\ buf \in Buffers /\ enabled \in BOOLEAN
  BY DEF Typed, EndTyped
<1>2. Idle(tk)["consumer"] = NoTask
  BY ConsumerRecords
<1>3. CASE start = None /\ buf' = Trimmed(buf) /\ task' = Idle(tk) /\ UNCHANGED broken
  <2>1. Aligned(vad, Trimmed(buf), None, enabled, 0)
    BY <1>1, <1>3, TrimAligned
  <2> QED BY <1>2, <1>3, <2>1, FreeSound
<1>4. CASE start # None /\ task' = Idle(tk) /\ UNCHANGED <<buf, broken>>
  BY <1>2, <1>4, FreeSound
<1>5. CASE start # None
  <2>1. Slices(buf, Later(start, buf.end - MaxPartial), buf.end)
    <3>1. /\ buf.first \in Nat /\ buf.end \in Nat /\ start \in Nat
          /\ vad.processed \in Nat /\ vad.rest \in Nat
      BY <1>1, <1>5, VadAssumption DEF Buffers, Vads, Positions
    <3>2. buf.end = vad.processed + vad.rest + 0 /\ buf.first <= start /\ start <= vad.processed
      BY <1>5 DEF Aligned
    <3> QED BY <3>1, <3>2, DetectionAssumption DEF Slices, Later
  <2>2. task' = Idle(tk) /\ UNCHANGED <<buf, broken>>
    BY <1>5, <2>1 DEF EndsAppend
  <2> QED BY <1>2, <2>2, FreeSound
<1> QED BY <1>3, <1>5 DEF EndsAppend

\* The consumer's caller goes on.
LEMMA ReturnsSound ==
  ASSUME Typed, ~broken', enabled' = enabled, turn'.start = None,
         NEW tk, TypedTasks(tk), tk["consumer"].next \in {"append", "commit"},
         NEW b \in Buffers, Returns("consumer", tk, b),
         tk["consumer"].next = "append" => enabled /\ Aligned(vad, b, None, enabled, 0)
  PROVE  SilenceSound'
<1>1. task'["consumer"] = NoTask
  BY ConsumerRecords DEF Returns
<1>2. CASE tk["consumer"].next = "append"
  <2>1. buf' = Trimmed(b) /\ vad' = vad
    BY <1>2 DEF Returns
  <2>2. Aligned(vad, Trimmed(b), None, enabled, 0)
    BY <1>2, TrimAligned DEF Typed, EndTyped
  <2> QED BY <1>1, <2>1, <2>2, FreeSound
<1>3. CASE tk["consumer"].next = "commit"
  <2>1. buf' = Cleared /\ vad' = VadReset
    BY <1>3 DEF Returns
  <2> QED BY <1>1, <2>1, ResetAligned, FreeSound DEF Typed
<1> QED BY <1>2, <1>3

\* A turn the consumer ends, with what _complete_turn cuts out of the buffer.
Cuttable(c) ==
  /\ c.next \in {"append", "commit"} /\ c.from # None
  /\ buf.first <= c.from /\ c.from <= c.at /\ c.at <= buf.end
  /\ c.next = "append" => enabled /\ c.at <= vad.processed /\ c.at < buf.end

LEMMA EnqueueSound ==
  ASSUME Typed, ~broken, enabled' = enabled, turn'.start = None,
         Aligned(vad, buf, None, enabled, 0),
         NEW tk, TypedTasks(tk), Cuttable(tk["consumer"]), Enqueue("consumer", tk)
  PROVE  SilenceSound'
<1> DEFINE c == tk["consumer"]
           b == DiscardedBefore(buf, c.at)
<1>1. /\ vad \in Vads /\ buf \in Buffers /\ enabled \in BOOLEAN /\ c \in TaskRecords
      /\ c.at \in Nat /\ c.from \in Nat /\ "consumer" \in Actors
  <2>1. c \in TaskRecords /\ "consumer" \in Actors
    BY ConsumerRecords
  <2> QED BY <2>1 DEF Typed, EndTyped, TaskRecords, Positions, Cuttable
<1>2. buf.first \in Nat /\ buf.end \in Nat /\ buf.first <= c.at /\ c.at <= buf.end
  BY <1>1 DEF Buffers, Cuttable
<1>3. Slices(buf, c.from, c.at)
  BY <1>1 DEF Slices, Cuttable
<1>4. b \in Buffers
  BY <1>1, <1>2, BufferTyped
<1>5. c.next = "append" => Aligned(vad, b, None, enabled, 0)
  BY <1>1, DiscardAligned DEF Cuttable
<1>6. /\ UNCHANGED broken
      /\ \/ Returns("consumer", tk, b)
         \/ task' = [tk EXCEPT !["consumer"].pc = "put"] /\ buf' = b /\ UNCHANGED vad
  BY <1>3 DEF Enqueue
<1>7. CASE Returns("consumer", tk, b)
  <2>1. c.next \in {"append", "commit"} /\ (c.next = "append" => enabled)
    BY DEF Cuttable
  <2> HIDE DEF b
  <2> QED BY <1>4, <1>5, <1>6, <1>7, <2>1, ReturnsSound
<1>8. CASE task' = [tk EXCEPT !["consumer"].pc = "put"] /\ buf' = b /\ UNCHANGED vad
  <2> DEFINE n == task'["consumer"]
  <2>1. n.pc = "put" /\ n.next = c.next
    BY <1>1, <1>8, ConsumerRecords DEF TaskRecords
  <2>2. c.next \in {"append", "commit"} /\ (c.next = "append" => enabled)
    BY DEF Cuttable
  <2>3. CutOut(n) \/ Aligned(vad', buf', turn'.start, enabled', Unheard(n))
    BY <1>5, <1>8, <2>1, <2>2 DEF CutOut, Unheard
  <2>4. Placed(n, vad', buf', turn'.start, enabled')
    BY <2>1, <2>2 DEF Placed
  <2> HIDE DEF n
  <2>5. Follows(task["consumer"])'
    BY <2>3, <2>4 DEF Follows, n
  <2> QED BY <1>6, <2>5 DEF SilenceSound
<1> QED BY <1>6, <1>7, <1>8

LEMMA StopsSound ==
  ASSUME Typed, ~broken, UNCHANGED enabled, NEW tk, TypedTasks(tk), NEW t \in TurnRecords,
         NEW to \in Nat, Aligned(vad, buf, None, enabled, 0),
         Cuttable([tk["consumer"] EXCEPT !.rev = t.rev, !.from = t.start, !.at = to]),
         tk["consumer"].pc # "vad", StopSpeech("consumer", tk, t, to)
  PROVE  SilenceSound'
<1> DEFINE arguments == [tk["consumer"] EXCEPT !.rev = t.rev, !.from = t.start, !.at = to]
           called == [tk EXCEPT !["consumer"] = arguments]
<1>1. /\ turn' = [t EXCEPT !.start = None]
      /\ \/ Returns("consumer", called, buf) /\ UNCHANGED broken
         \/ Enqueue("consumer", called)
         \/ /\ task' = [called EXCEPT !["consumer"].pc = "gather"]
            /\ UNCHANGED <<buf, vad, broken>>
  BY DEF StopSpeech, Stops
<1>2. tk["consumer"] \in TaskRecords /\ "consumer" \in Actors /\ "consumer" \notin Detectors
  BY ConsumerRecords
<1>3. arguments \in TaskRecords /\ arguments.pc # "vad"
  BY <1>2 DEF TaskRecords, TurnRecords
<1>c. Cuttable(arguments)
  OBVIOUS
<1> HIDE DEF arguments
<1>4. TypedTasks(called) /\ called["consumer"] = arguments
  BY <1>2, <1>3, TaskTyped
<1> HIDE DEF called
<1>5. turn'.start = None /\ arguments.next \in {"append", "commit"}
      /\ (arguments.next = "append" => enabled) /\ buf \in Buffers
  BY <1>1, <1>c DEF TurnRecords, Cuttable, Typed, EndTyped
<1>6. CASE Returns("consumer", called, buf) /\ UNCHANGED broken
  BY <1>4, <1>5, <1>6, ReturnsSound
<1>7. CASE Enqueue("consumer", called)
  BY <1>4, <1>5, <1>7, <1>c, EnqueueSound
<1>8. CASE task' = [called EXCEPT !["consumer"].pc = "gather"] /\ UNCHANGED <<buf, vad, broken>>
  <2> DEFINE n == task'["consumer"]
  <2>1. /\ n.pc = "gather" /\ n.next = arguments.next /\ n.from = arguments.from
        /\ n.at = arguments.at
    BY <1>3, <1>4, <1>8, ConsumerRecords DEF TaskRecords
  <2> HIDE DEF n
  <2>2. CutOut(n) \/ Aligned(vad', buf', turn'.start, enabled', Unheard(n))
    BY <1>5, <1>8, <2>1 DEF Unheard
  <2>3. Placed(n, vad', buf', turn'.start, enabled')
    BY <1>5, <1>8, <1>c, <2>1 DEF Placed, Cuttable
  <2>4. Follows(task["consumer"])'
    BY <2>2, <2>3 DEF Follows, n
  <2> QED BY <1>8, <2>4 DEF SilenceSound
<1> QED BY <1>1, <1>6, <1>7, <1>8

\* Between two events, and while a step waits, everything buffered has been heard.
LEMMA FollowsNow ==
  ASSUME Typed, SilenceSound, task["consumer"].pc \notin {"gone", "vad", "put"}
  PROVE  /\ Aligned(vad, buf, turn.start, enabled, 0) /\ Aligned(vad, buf, None, enabled, 0)
         /\ Placed(task["consumer"], vad, buf, turn.start, enabled) /\ ~broken
         /\ turn.start \in Positions
<1>1. Aligned(vad, buf, turn.start, enabled, 0)
  BY DEF SilenceSound, Follows, CutOut, Unheard
<1> QED BY <1>1, ReleasedStart DEF SilenceSound, Follows, Typed, TurnTyped, TurnRecords

LEMMA TakesNow == Takes => task["consumer"] = NoTask /\ task["consumer"].pc = "none"
  BY NoTaskTyped DEF Takes

LEMMA FailsSound == ASSUME Typed, ~broken, task' = Gone(task), UNCHANGED broken PROVE SilenceSound'
<1>1. task'["consumer"].pc = "gone"
  BY ConsumerRecords DEF Typed, EndTyped
<1> QED BY <1>1, GoneSound

\* New VAD settings count from zero again, as the buffer does when it is empty.
LEMMA UpdateSound ==
  ASSUME Typed, SilenceSound, NEW on \in BOOLEAN, NEW threshold \in BOOLEAN,
         UpdateSession(on, threshold)
  PROVE  SilenceSound'
<1>1. Takes /\ ~broken
  BY DEF UpdateSession, SilenceSound
<1>2. CASE Fails /\ UNCHANGED broken
  BY <1>1, <1>2, FailsSound DEF Fails
<1>3. CASE /\ (threshold \/ on # enabled) => turn.start = None /\ ~(Held(buf) > 0)
           /\ enabled' = on /\ vad' = IF threshold THEN VadReset ELSE vad
           /\ UNCHANGED <<buf, turn, task, broken>>
  <2>1. Aligned(vad, buf, turn.start, enabled, 0)
    BY <1>1, TakesNow, FollowsNow
  <2>2. Aligned(vad', buf', turn'.start, enabled', 0)
    <3>1. CASE ~threshold /\ on = enabled
      BY <1>3, <2>1, <3>1
    <3>2. CASE threshold \/ on # enabled
      <4>1. buf.first = buf.end /\ buf.end = 0 /\ buf.first = 0 /\ turn.start = None
        <5>1. buf.first \in Nat /\ buf.end \in Nat /\ buf.first <= buf.end
          BY BufferTyped DEF Typed, EndTyped
        <5>2. turn.start = None /\ ~(buf.end - buf.first > 0)
          BY <1>3, <3>2 DEF Held
        <5>3. buf.first = buf.end
          BY <5>1, <5>2
        <5> QED BY <2>1, <5>2, <5>3 DEF Aligned
      <4>2. CASE threshold
        BY <1>3, <4>1, <4>2 DEF Aligned, VadReset, None
      <4>3. CASE ~threshold
        <5>1. vad.processed \in Nat /\ vad.rest \in Nat
          BY VadAssumption DEF Typed, EndTyped, Vads
        <5>2. vad.processed = 0 /\ vad.rest = 0
          BY <2>1, <4>1, <5>1 DEF Aligned
        <5> QED BY <1>3, <2>1, <4>1, <4>3, <5>2 DEF Aligned
      <4> QED BY <4>2, <4>3
    <3> QED BY <3>1, <3>2
  <2>3. task'["consumer"] = NoTask
    BY <1>1, <1>3, TakesNow
  <2> QED BY <1>1, <1>3, <2>2, <2>3, FreeSound
<1> QED BY <1>2, <1>3 DEF UpdateSession

LEMMA HearsSound == ASSUME Typed, SilenceSound, AppendAudio(Window) PROVE SilenceSound'
<1>1. Takes /\ ~broken
  BY DEF AppendAudio, SilenceSound
<1>2. CASE Fails /\ UNCHANGED broken
  BY <1>1, <1>2, FailsSound DEF Fails
<1>3. CASE /\ buf' = Appended(buf, Window)
           /\ task' = IF enabled THEN [task EXCEPT !["consumer"].pc = "vad",
                                                   !["consumer"].at = Window] ELSE task
           /\ UNCHANGED <<enabled, vad, turn, broken>>
  <2>1. Aligned(vad, buf, turn.start, enabled, 0)
    BY <1>1, TakesNow, FollowsNow
  <2>2. /\ buf'.first = buf.first /\ buf'.end = buf.end + Window
        /\ buf.first \in Nat /\ buf.end \in Nat /\ buf.first <= buf.end
    BY <1>3 DEF Appended, Typed, EndTyped, Buffers
  <2>3. buf'.first # buf'.end
    BY <2>2, VadAssumption
  <2>4. CASE enabled
    <3>1. vad.processed \in Nat /\ vad.rest \in Nat
      BY VadAssumption DEF Typed, EndTyped, Vads
    <3>2. buf'.end = vad'.processed + vad'.rest + Window
      BY <1>3, <2>1, <2>2, <2>4, <3>1, VadAssumption DEF Aligned
    <3>3. Aligned(vad', buf', turn'.start, enabled', Window)
      BY <1>3, <2>1, <2>2, <2>3, <2>4, <3>2 DEF Aligned
    <3>4. task'["consumer"].pc = "vad"
      <4>1. task \in [Actors -> TaskRecords] /\ "consumer" \in Actors
        BY DEF Typed, EndTyped, TypedTasks, Actors
      <4> QED BY <1>3, <2>4, <4>1 DEF TaskRecords
    <3>5. Follows(task["consumer"])'
      BY <1>3, <2>4, <3>3, <3>4 DEF Follows, Unheard, Placed
    <3> QED BY <1>1, <1>3, <3>5 DEF SilenceSound
  <2>5. CASE ~enabled
    <3>1. Aligned(vad', buf', turn'.start, enabled', 0)
      BY <1>3, <2>1, <2>2, <2>3, <2>5 DEF Aligned
    <3>2. task'["consumer"] = NoTask
      BY <1>1, <1>3, <2>5, TakesNow
    <3> QED BY <1>1, <1>3, <3>1, <3>2, FreeSound
  <2> QED BY <2>4, <2>5
<1> QED BY <1>2, <1>3 DEF AppendAudio

LEMMA VadRunsSound ==
  ASSUME Pad < MinSilence, Typed, SilenceSound, NEW speech \in BOOLEAN, VadRuns(speech)
  PROVE  SilenceSound'
<1> DEFINE c == task["consumer"]
           r == Process(vad, Window, speech)
           n == task'["consumer"]
<1>1. c.pc = "vad" /\ c.at = Window /\ c \in TaskRecords /\ "consumer" \in Actors
  BY ConsumerRecords DEF VadRuns, Typed, EndTyped, TypedTasks
<1>2. /\ vad' = r.vad /\ n.pc = r.signal /\ n.at = r.at
      /\ UNCHANGED <<enabled, buf, turn, broken>>
  <2>1. task \in [Actors -> TaskRecords]
    BY DEF Typed, EndTyped, TypedTasks
  <2>2. /\ vad' = r.vad
        /\ task' = [task EXCEPT !["consumer"].pc = r.signal, !["consumer"].at = r.at]
        /\ UNCHANGED <<enabled, buf, turn, broken>>
    BY <1>1 DEF VadRuns
  <2> HIDE DEF r
  <2> QED BY <1>1, <2>1, <2>2 DEF TaskRecords
<1>3. enabled /\ ~broken /\ Aligned(vad, buf, turn.start, TRUE, Window)
  BY <1>1 DEF SilenceSound, Follows, CutOut, Unheard, Placed, Aligned
<1>4. vad \in Vads /\ buf \in Buffers /\ turn.start \in Positions
  BY DEF Typed, EndTyped, TurnTyped, TurnRecords
<1>5. r.signal \in {"quiet", "started", "stopped"}
  BY <1>4, ProcessTyped
<1>6. /\ Aligned(r.vad, buf, turn.start, TRUE, 0)
      /\ r.signal = "started" => r.at <= r.vad.processed /\ r.vad.silence = None
      /\ r.signal = "stopped" =>
           /\ r.at <= r.vad.processed /\ r.at < buf.end /\ r.vad.silence = None
           /\ turn.start # None => turn.start <= r.at
  BY <1>3, <1>4, ProcessAligned
<1> HIDE DEF r, n
<1>7. Aligned(vad', buf', turn'.start, enabled', Unheard(n))
  BY <1>2, <1>3, <1>5, <1>6 DEF Unheard, Aligned
<1>8. Placed(n, vad', buf', turn'.start, enabled')
  BY <1>2, <1>3, <1>5, <1>6 DEF Placed
<1>9. Follows(task["consumer"])'
  BY <1>7, <1>8 DEF Follows, n
<1> QED BY <1>2, <1>3, <1>9 DEF SilenceSound

LEMMA ListensSound ==
  ASSUME Typed, SilenceSound, HeardNothing \/ Interrupted \/ SpeechStarted \/ ResumedGathered
  PROVE  SilenceSound'
<1>1. task["consumer"].pc \in {"quiet", "started", "barge", "resuming"}
      /\ UNCHANGED <<enabled, vad>>
  BY DEF HeardNothing, Interrupted, SpeechStarted, ResumedGathered
<1>2. /\ Aligned(vad, buf, turn.start, enabled, 0) /\ ~broken /\ enabled /\ TypedTasks(task)
      /\ turn.start \in Positions
      /\ task["consumer"].pc = "started" =>
           task["consumer"].at <= vad.processed /\ vad.silence = None
  BY <1>1, FollowsNow DEF Placed, Typed, EndTyped
<1>3. ASSUME NEW p, EndsAppend(task, p, turn.start), UNCHANGED turn PROVE SilenceSound'
  <2>1. turn.start = turn'.start
    BY <1>3
  <2> QED BY <1>1, <1>2, <1>3, <2>1, AppendSound
<1>4. CASE SpeechStarted
  <2>1. /\ turn' = [named |-> TRUE, rev |-> turn.rev + 1, start |-> Clamped(task["consumer"].at)]
        /\ \/ EndsAppend(task, Outdated(partial), turn'.start)
           \/ /\ task' = [task EXCEPT !["consumer"].pc = "barge"]
              /\ UNCHANGED <<buf, broken>>
        /\ task["consumer"].pc = "started"
    BY <1>4 DEF SpeechStarted
  <2> DEFINE start == Clamped(task["consumer"].at)
  <2>2. /\ buf.first \in Nat /\ task["consumer"].at \in Nat /\ vad.processed \in Nat
        /\ vad.silence = None /\ task["consumer"].at <= vad.processed
        /\ buf.first <= vad.processed
    BY <1>2, <2>1, BufferTyped, ConsumerRecords DEF Typed, EndTyped, TaskRecords, Vads, Aligned
  <2>3. start \in Nat /\ buf.first <= start /\ start <= vad.processed
    BY <2>2 DEF Clamped, Later
  <2>4. turn'.start = start
    BY <2>1
  <2> HIDE DEF start
  <2>5. Aligned(vad, buf, start, enabled, 0) /\ start \in Positions
    BY <1>2, <2>2, <2>3 DEF Aligned, Positions
  <2>6. CASE EndsAppend(task, Outdated(partial), turn'.start)
    BY <1>1, <1>2, <2>4, <2>5, <2>6, AppendSound
  <2>7. CASE task' = [task EXCEPT !["consumer"].pc = "barge"] /\ UNCHANGED <<buf, broken>>
    <3>1. task'["consumer"].pc = "barge"
      BY <1>2, <2>7, ConsumerRecords DEF TaskRecords
    <3> QED BY <1>1, <1>2, <2>4, <2>5, <2>7, <3>1, WaitsSound
  <2> QED BY <2>1, <2>6, <2>7
<1> QED BY <1>3, <1>4 DEF HeardNothing, Interrupted, ResumedGathered

LEMMA ResumesSound == ASSUME Typed, SilenceSound, SpeechResumed PROVE SilenceSound'
<1> DEFINE tk == CancelDetection(Superseded(task))
<1>1. /\ task["consumer"].pc = "started" /\ UNCHANGED <<enabled, vad, turn>>
      /\ \/ task' = [tk EXCEPT !["consumer"].pc = "resuming"] /\ UNCHANGED <<buf, broken>>
         \/ EndsAppend(tk, Outdated(partial), turn.start)
  BY DEF SpeechResumed
<1>2. TypedTasks(tk) /\ turn.start = turn'.start
  BY <1>1, CancelTyped DEF Typed, EndTyped
<1>3. /\ Aligned(vad, buf, turn.start, enabled, 0) /\ ~broken /\ enabled /\ turn.start \in Positions
  BY <1>1, FollowsNow DEF Placed
<1> HIDE DEF tk
<1>4. CASE task' = [tk EXCEPT !["consumer"].pc = "resuming"] /\ UNCHANGED <<buf, broken>>
  <2>1. task'["consumer"].pc = "resuming"
    BY <1>2, <1>4, ConsumerGoesTo
  <2> QED BY <1>1, <1>3, <1>4, <2>1, WaitsSound
<1>5. CASE EndsAppend(tk, Outdated(partial), turn.start)
  BY <1>1, <1>2, <1>3, <1>5, AppendSound
<1> QED BY <1>1, <1>4, <1>5

\* The pause is judged by a task of its own: the samples it judges are there.
LEMMA PausesSound ==
  ASSUME Inv, Typed, SilenceSound, StopCandidate \/ StopGathered PROVE SilenceSound'
<1> DEFINE c == task["consumer"]
           tk == CancelDetection(Superseded(task))
           n == [tk EXCEPT !["candidate"] = NewCandidate]
           m == [task EXCEPT !["candidate"] = NewCandidate]
<1>1. c.pc \in {"stopped", "stopping"} /\ UNCHANGED <<enabled, vad, turn>>
  BY DEF StopCandidate, StopGathered
<1>2. /\ Aligned(vad, buf, turn.start, enabled, 0) /\ ~broken /\ enabled /\ TypedTasks(task)
      /\ turn.start \in Positions /\ turn.start = turn'.start
      /\ c.at <= vad.processed /\ c.at < buf.end /\ vad.silence = None
      /\ turn.start # None => turn.start <= c.at
  BY <1>1, FollowsNow DEF Placed, Typed, EndTyped
<1>3. TypedTasks(tk) /\ TypedTasks(n) /\ TypedTasks(m)
  BY <1>2, CancelTyped, NewCandidateTyped, TaskTyped DEF Actors, Detectors
<1>4. tk["consumer"] = c
  BY <1>2, CancelTyped, CancelStays
<1>5. turn.start # None => Slices(buf, Later(turn.start, c.at - MaxPartial), c.at)
  <2> SUFFICES ASSUME turn.start # None PROVE Slices(buf, Later(turn.start, c.at - MaxPartial), c.at)
    OBVIOUS
  <2>1. /\ buf.first \in Nat /\ buf.end \in Nat /\ c.at \in Nat /\ turn.start \in Nat
        /\ buf.first <= turn.start
    BY <1>2, BufferTyped, TypedRecord, ConsumerIs DEF Typed, EndTyped, Aligned, Positions
  <2> QED BY <1>2, <2>1, DetectionAssumption DEF Slices, Later
<1> HIDE DEF tk, n, m
<1>6. \/ \E t \in {task, n, m} : EndsAppend(t, partial, turn.start)
      \/ task' = [tk EXCEPT !["consumer"].pc = "stopping"] /\ UNCHANGED <<buf, broken>>
  BY <1>5 DEF StopCandidate, StopGathered, tk, n, m
<1>7. CASE \E t \in {task, n, m} : EndsAppend(t, partial, turn.start)
  <2>1. PICK t \in {task, n, m} : EndsAppend(t, partial, turn.start)
    BY <1>7
  <2>2. TypedTasks(t)
    BY <1>2, <1>3
  <2> QED BY <1>1, <1>2, <2>1, <2>2, AppendSound
<1>8. CASE task' = [tk EXCEPT !["consumer"].pc = "stopping"] /\ UNCHANGED <<buf, broken>>
  <2> DEFINE k == task'["consumer"]
  <2>1. k.pc = "stopping" /\ k.at = c.at
    <3> DEFINE moved == [tk EXCEPT !["consumer"].pc = "stopping"]
    <3>1. TypedTasks(tk)
      BY <1>3
    <3>2. /\ moved["consumer"] = [tk["consumer"] EXCEPT !.pc = "stopping"]
          /\ tk["consumer"] \in TaskRecords
      BY <3>1, ConsumerRecords
    <3>3. k = moved["consumer"]
      BY <1>8
    <3> HIDE DEF moved, k
    <3> QED BY <1>4, <3>2, <3>3 DEF TaskRecords
  <2> HIDE DEF k
  <2>2. Aligned(vad', buf', turn'.start, enabled', Unheard(k))
    BY <1>1, <1>2, <1>8, <2>1 DEF Unheard
  <2>3. Placed(k, vad', buf', turn'.start, enabled')
    BY <1>1, <1>2, <1>8, <2>1 DEF Placed
  <2>4. Follows(task["consumer"])'
    BY <2>2, <2>3 DEF Follows, k
  <2> QED BY <1>2, <1>8, <2>4 DEF SilenceSound
<1> QED BY <1>6, <1>7, <1>8

\* The pause ends the turn, before the samples that are still to come.
LEMMA FixedSilenceSound == ASSUME Inv, Typed, SilenceSound, FixedSilence PROVE SilenceSound'
<1> DEFINE c == task["consumer"]
<1>1. c.pc = "stopped" /\ UNCHANGED enabled
  BY DEF FixedSilence
<1>2. /\ Aligned(vad, buf, turn.start, enabled, 0) /\ Aligned(vad, buf, None, enabled, 0)
      /\ ~broken /\ enabled /\ TypedTasks(task) /\ turn.start \in Positions
      /\ c.at <= vad.processed /\ c.at < buf.end /\ (turn.start # None => turn.start <= c.at)
  BY <1>1, FollowsNow DEF Placed, Typed, EndTyped
<1>3. /\ c \in TaskRecords /\ c.at \in Nat /\ turn \in TurnRecords
      /\ buf.first \in Nat /\ buf.end \in Nat /\ "consumer" \in Actors
  BY <1>2, ConsumerRecords, BufferTyped, TypedRecord DEF Typed, EndTyped
<1>4. CASE turn.start # None /\ StopSpeech("consumer", [task EXCEPT !["consumer"].next = "append"],
                                           turn, c.at)
  <2> DEFINE n == [task EXCEPT !["consumer"].next = "append"]
             k == [n["consumer"] EXCEPT !.rev = turn.rev, !.from = turn.start, !.at = c.at]
  <2>1. TypedTasks(n) /\ n["consumer"].pc = "stopped"
    BY <1>1, <1>2, ContinuesTyped
  <2>2. n["consumer"].next = "append"
    BY <1>2, <1>3 DEF TypedTasks, TaskRecords
  <2>4. StopSpeech("consumer", n, turn, c.at)
    BY <1>4
  <2> HIDE DEF n
  <2>3. k.next = "append" /\ k.from = turn.start /\ k.at = c.at
    BY <2>1, <2>2, ConsumerRecords DEF TaskRecords
  <2>5. Cuttable(k)
    <3>1. buf.first <= turn.start /\ turn.start <= c.at /\ c.at <= buf.end
      BY <1>2, <1>3, <1>4 DEF Aligned
    <3> HIDE DEF k
    <3> QED BY <1>2, <1>4, <2>3, <3>1 DEF Cuttable
  <2> QED BY <1>1, <1>2, <1>3, <2>1, <2>4, <2>5, StopsSound
<1>5. CASE /\ UNCHANGED <<turn, vad>>
           /\ EndsAppend(task, partial, turn.start)
  <2>1. turn.start = turn'.start
    BY <1>5
  <2> QED BY <1>1, <1>2, <1>5, <2>1, AppendSound
<1> QED BY <1>4, <1>5 DEF FixedSilence

\* A commit cuts out the open turn, or all that is buffered.
LEMMA CommitsSound ==
  ASSUME Typed, ~broken, Aligned(vad, buf, turn.start, enabled, 0), UNCHANGED enabled,
         NEW tk, TypedTasks(tk), Commits(tk)
  PROVE  SilenceSound'
<1> DEFINE r == [NoTask EXCEPT !.next = "commit"]
           committing == [tk EXCEPT !["consumer"] = r]
           manual == [named |-> TRUE, rev |-> turn.rev + 1, start |-> buf.first]
<1>1. /\ r \in TaskRecords /\ r.pc = "none" /\ r.next = "commit"
      /\ "consumer" \in Actors /\ "consumer" \notin Detectors
  BY NoTaskTyped DEF TaskRecords, Actors, Detectors
<1>2. \/ turn.start # None /\ StopSpeech("consumer", committing, turn, buf.end)
      \/ task' = Idle(tk) /\ UNCHANGED <<vad, buf, turn, broken>>
      \/ turn.rev < MaxTurns /\ StopSpeech("consumer", committing, manual, buf.end)
  BY DEF Commits
<1> HIDE DEF r
<1>3. TypedTasks(committing) /\ committing["consumer"] = r
  BY <1>1, TaskTyped
<1>4. /\ buf.first \in Nat /\ buf.end \in Nat /\ buf.first <= buf.end /\ turn \in TurnRecords
      /\ turn.rev \in 0..MaxTurns /\ vad.processed \in Nat /\ vad.rest \in Nat
      /\ Aligned(vad, buf, None, enabled, 0)
  BY BufferTyped, ReleasedStart, VadAssumption DEF Typed, EndTyped, TurnTyped, TurnRecords, Vads
<1>5. ASSUME NEW t \in TurnRecords, t.start # None, buf.first <= t.start, t.start <= buf.end,
             StopSpeech("consumer", committing, t, buf.end)
      PROVE  SilenceSound'
  <2> DEFINE k == [committing["consumer"] EXCEPT !.rev = t.rev, !.from = t.start, !.at = buf.end]
  <2>1. k.next = "commit" /\ k.from = t.start /\ k.at = buf.end
    BY <1>1, <1>3 DEF TaskRecords
  <2>2. Cuttable(k)
    <3> HIDE DEF k
    <3> QED BY <1>4, <1>5, <2>1 DEF Cuttable
  <2> HIDE DEF committing
  <2>3. committing["consumer"].pc # "vad"
    BY <1>1, <1>3
  <2> QED BY <1>3, <1>4, <1>5, <2>2, <2>3, StopsSound
<1>6. CASE turn.start # None /\ StopSpeech("consumer", committing, turn, buf.end)
  <2>1. turn.start \in Nat /\ buf.first <= turn.start /\ turn.start <= vad.processed
    BY <1>4, <1>6 DEF Aligned, TurnRecords, Positions
  <2>2. turn.start <= buf.end
    <3>1. CASE enabled
      BY <1>4, <2>1, <3>1 DEF Aligned
    <3>2. CASE ~enabled
      BY <1>4, <2>1, <3>2 DEF Aligned
    <3> QED BY <3>1, <3>2
  <2> HIDE DEF committing
  <2> QED BY <1>4, <1>5, <1>6, <2>1, <2>2
<1>7. CASE task' = Idle(tk) /\ UNCHANGED <<vad, buf, turn, broken>>
  <2>1. task'["consumer"] = NoTask
    BY <1>7, ConsumerRecords
  <2> QED BY <1>7, <2>1, FreeSound
<1>8. CASE turn.rev < MaxTurns /\ StopSpeech("consumer", committing, manual, buf.end)
  <2>1. manual \in TurnRecords /\ manual.start = buf.first
    <3>1. turn.rev + 1 \in 0..MaxTurns
      BY <1>4, <1>8, DetectionAssumption
    <3> QED BY <1>4, <3>1 DEF TurnRecords, Positions
  <2> HIDE DEF committing, manual
  <2>2. manual.start # None /\ buf.first <= manual.start
    BY <1>4, <2>1 DEF None
  <2> QED BY <1>4, <1>5, <1>8, <2>1, <2>2
<1> QED BY <1>2, <1>6, <1>7, <1>8

LEMMA CommitSound ==
  ASSUME Inv, Typed, SilenceSound, CommitAudio \/ CommitGathered
  PROVE  SilenceSound'
<1> DEFINE tk == CancelDetection(Superseded(task))
<1>1. /\ task["consumer"].pc \in {"none", "committing"} /\ UNCHANGED enabled
      /\ \/ Commits(tk) \/ Commits(task)
         \/ task' = [tk EXCEPT !["consumer"].pc = "committing"] /\ UNCHANGED <<vad, buf, turn, broken>>
  BY TakesNow DEF CommitAudio, CommitGathered
<1>2. TypedTasks(tk) /\ TypedTasks(task) /\ Aligned(vad, buf, turn.start, enabled, 0) /\ ~broken
  BY <1>1, CancelTyped, FollowsNow DEF Typed, EndTyped
<1> HIDE DEF tk
<1>3. CASE task' = [tk EXCEPT !["consumer"].pc = "committing"] /\ UNCHANGED <<vad, buf, turn, broken>>
  <2>1. task'["consumer"].pc = "committing"
    BY <1>2, <1>3, ConsumerGoesTo
  <2> QED BY <1>1, <1>2, <1>3, <2>1, GathersSound
<1> QED BY <1>1, <1>2, <1>3, CommitsSound

LEMMA ClearSound ==
  ASSUME Inv, Typed, SilenceSound, ClearAudio \/ ClearGathered
  PROVE  SilenceSound'
<1> DEFINE tk == CancelDetection(Superseded(task))
<1>1. /\ task["consumer"].pc \in {"none", "clearing", "clearing partial"}
      /\ UNCHANGED <<enabled, broken>>
      /\ \E t \in {tk, task}, pc \in {"clearing", "clearing partial"} :
           \/ task' = [t EXCEPT !["consumer"].pc = pc] /\ UNCHANGED <<buf, vad, turn>>
           \/ /\ task' = Idle(t) /\ buf' = Cleared /\ vad' = VadReset
              /\ turn' = [turn EXCEPT !.named = FALSE, !.start = None]
  BY TakesNow DEF ClearAudio, ClearGathered, Clears
<1>2. /\ TypedTasks(tk) /\ TypedTasks(task) /\ Aligned(vad, buf, turn.start, enabled, 0) /\ ~broken
      /\ turn \in TurnRecords
  BY <1>1, CancelTyped, FollowsNow DEF Typed, EndTyped, TurnTyped
<1> HIDE DEF tk
<1>3. PICK t \in {tk, task}, pc \in {"clearing", "clearing partial"} :
           \/ task' = [t EXCEPT !["consumer"].pc = pc] /\ UNCHANGED <<buf, vad, turn>>
           \/ /\ task' = Idle(t) /\ buf' = Cleared /\ vad' = VadReset
              /\ turn' = [turn EXCEPT !.named = FALSE, !.start = None]
  BY <1>1
<1>4. TypedTasks(t)
  BY <1>2
<1>5. CASE task' = [t EXCEPT !["consumer"].pc = pc] /\ UNCHANGED <<buf, vad, turn>>
  <2>1. task'["consumer"].pc = pc
    BY <1>4, <1>5, ConsumerGoesTo
  <2> QED BY <1>1, <1>2, <1>5, <2>1, GathersSound
<1>6. CASE /\ task' = Idle(t) /\ buf' = Cleared /\ vad' = VadReset
           /\ turn' = [turn EXCEPT !.named = FALSE, !.start = None]
  <2>1. task'["consumer"] = NoTask /\ turn'.start = None
    BY <1>2, <1>4, <1>6, ConsumerRecords DEF TurnRecords
  <2>2. Aligned(vad', buf', turn'.start, enabled', 0)
    BY <1>1, <1>6, <2>1, ResetAligned DEF Typed
  <2> QED BY <1>1, <1>2, <2>1, <2>2, FreeSound
<1> QED BY <1>3, <1>5, <1>6

-----------------------------------------------------------------------------
(* The slices: the other tasks.                                            *)

\* What the partial transcriptions, the worker, the schedulers and a task that is over
\* leave alone.
LEMMA ApartSound ==
  ASSUME SilenceSound, UNCHANGED <<enabled, vad, buf, turn, broken>>,
         task'["consumer"] = task["consumer"]
  PROVE  SilenceSound'
  BY DEF SilenceSound, Follows

\* A detection task is over, or cuts its turn out of what is buffered: the consumer
\* goes on as if the buffer had been shorter.
LEMMA CutSound ==
  ASSUME Typed, SilenceSound, UNCHANGED <<enabled, vad, broken>>, turn'.start = None,
         task'["consumer"] = task["consumer"], task["consumer"].pc \notin {"gather", "put"},
         \/ buf' = buf
         \/ \E s \in Nat : /\ buf' = DiscardedBefore(buf, s)
                           /\ buf.first <= s /\ s <= vad.processed /\ s < buf.end
  PROVE  SilenceSound'
<1> DEFINE c == task["consumer"]
<1> SUFFICES ASSUME c.pc # "gone" PROVE Follows(c)'
  BY DEF SilenceSound
<1>1. Follows(c) /\ vad \in Vads /\ buf \in Buffers /\ enabled \in BOOLEAN
  BY DEF SilenceSound, Typed, EndTyped
<1>2. Aligned(vad, buf, None, enabled, Unheard(c))
  BY <1>1, ReleasedStart DEF Follows, CutOut
<1>3. Aligned(vad, buf', None, enabled, Unheard(c)) /\ buf'.end = buf.end
  <2>1. CASE buf' = buf
    BY <1>2, <2>1
  <2>2. ASSUME NEW s \in Nat, buf' = DiscardedBefore(buf, s), s <= vad.processed, s < buf.end
        PROVE  Aligned(vad, buf', None, enabled, Unheard(c)) /\ buf'.end = buf.end
    <3>1. DiscardedBefore(buf, s).end = buf.end
      BY <1>1 DEF DiscardedBefore, Buffers
    <3> QED BY <1>1, <1>2, <2>2, <3>1, DiscardAligned
  <2> QED BY <2>1, <2>2
<1>4. Placed(c, vad, buf', None, enabled)
  BY <1>1, <1>3 DEF Follows, Placed
<1> QED BY <1>3, <1>4 DEF Follows

LEMMA DetectorSound ==
  ASSUME Inv, Typed, SilenceSound, \A d \in Detectors : task[d].pc # "gather",
         NEW a \in Actors, DetectorSteps(a)
  PROVE  SilenceSound'
<1>1. TypedTasks(task) /\ "consumer" \in Actors /\ task \in [Actors -> TaskRecords]
  BY DEF Typed, EndTyped, TypedTasks, Actors
<1>2. CASE Unwinds(a)
  <2>1. a # "consumer"
    BY <1>2, Deciding DEF Unwinds
  <2>2. task'["consumer"] = task["consumer"]
    BY <1>1, <1>2, <2>1 DEF Unwinds
  <2> QED BY <1>2, <2>2, ApartSound DEF Unwinds
<1>3. CASE a = "consumer" /\ (PartialGathered(a) \/ PutGetsRoom(a))
  <2> DEFINE c == task["consumer"]
  <2>1. task[a].pc \in {"gather", "put"}
    BY <1>3 DEF PartialGathered, PutGetsRoom, At
  <2>3. /\ ~broken /\ Follows(c) /\ c.next \in {"append", "commit"} /\ turn.start = None
        /\ c.next = "append" => enabled
    BY <1>1, <1>3, <2>1 DEF SilenceSound, Follows, Placed, TaskRecords
  <2>4. CASE PartialGathered(a)
    <3>1. c.pc = "gather" /\ UNCHANGED <<enabled, turn>> /\ Enqueue("consumer", task)
      BY <1>3, <2>4 DEF PartialGathered, At
    <3>2. Aligned(vad, buf, None, enabled, 0)
      BY <2>3, <3>1 DEF Follows, CutOut, Unheard
    <3>3. Cuttable(c)
      BY <2>3, <3>1 DEF Follows, Placed, Cuttable
    <3> QED BY <1>1, <2>3, <3>1, <3>2, <3>3, EnqueueSound
  <2>5. CASE PutGetsRoom(a)
    <3>1. /\ c.pc = "put" /\ UNCHANGED <<enabled, turn, broken>>
          /\ Returns("consumer", task, buf)
      BY <1>3, <2>5 DEF PutGetsRoom, At
    <3>2. c.next = "append" => Aligned(vad, buf, None, enabled, 0)
      BY <2>3, <3>1 DEF Follows, CutOut, Unheard
    <3>3. buf \in Buffers
      BY DEF Typed, EndTyped
    <3> QED BY <1>1, <2>3, <3>1, <3>2, <3>3, ReturnsSound
  <2> QED BY <1>3, <2>4, <2>5
<1>4. CASE a \in Detectors /\ (PartialGathered(a) \/ PutGetsRoom(a))
  <2>1. PutGetsRoom(a)
    BY <1>4 DEF PartialGathered, At
  <2>2. task[a].next = "none" /\ a # "consumer"
    BY <1>1, <1>4, ConsumerIs DEF TypedTasks
  <2>3. task' = [task EXCEPT ![a] = NoTask] /\ UNCHANGED <<enabled, vad, buf, turn, broken>>
    BY <2>1, <2>2 DEF PutGetsRoom, Returns
  <2>4. task'["consumer"] = task["consumer"]
    BY <1>1, <2>2, <2>3
  <2> QED BY <2>3, <2>4, ApartSound
<1> QED BY <1>2, <1>3, <1>4, ConsumerIs DEF DetectorSteps

\* What a detection task that is not cancelled does to its pause: it goes on judging, gives
\* up, hands over to the fallback timer, or ends the turn it belongs to.
LEMMA JudgingSteps ==
  ASSUME CandidateSubmits \/ CandidateAnswered \/ FallbackWakes \/ FallbackWatched
  PROVE  /\ UNCHANGED enabled
         /\ \E a \in Detectors :
              /\ task[a].pc \in Judging /\ ~task[a].cancelled
              /\ \/ /\ turn.start # None /\ task[a].rev = turn.rev
                    /\ StopSpeech(a, task, turn, task[a].at)
                 \/ /\ UNCHANGED <<vad, buf, turn, broken>> /\ a = "candidate"
                    /\ task' = [[task EXCEPT !["candidate"] = NoTask] EXCEPT !["fallback"] = NewFallback]
                 \/ /\ UNCHANGED <<vad, buf, turn, broken>>
                    /\ \/ \E pc \in {"submit", "watch"} : task' = [task EXCEPT ![a].pc = pc]
                       \/ task' = [task EXCEPT ![a] = NoTask]
<1>1. CASE CandidateSubmits
  BY <1>1 DEF CandidateSubmits, At, Judging, Detectors
<1>2. CASE CandidateAnswered
  <2>1. CandidateStale \/ (turn.start # None /\ task["candidate"].rev = turn.rev)
    BY DEF CandidateStale
  <2> QED BY <1>2, <2>1 DEF CandidateAnswered, At, Judging, Detectors
<1>3. CASE FallbackWakes
  BY <1>3 DEF FallbackWakes, FallbackDecides, FallbackHolds, At, Judging, Detectors
<1>4. CASE FallbackWatched
  BY <1>4 DEF FallbackWatched, FallbackDecides, FallbackHolds, At, Judging, Detectors
<1> QED BY <1>1, <1>2, <1>3, <1>4

\* A pause that is judged to end the turn is cut out of what is still buffered.
LEMMA JudgesSound ==
  ASSUME Inv, Typed, SilenceSound, Judged, partial.pc = "none",
         CandidateSubmits \/ CandidateAnswered \/ FallbackWakes \/ FallbackWatched
  PROVE  SilenceSound'
<1>1. PICK a \in Detectors :
        /\ task[a].pc \in Judging /\ ~task[a].cancelled
        /\ \/ /\ turn.start # None /\ task[a].rev = turn.rev
              /\ StopSpeech(a, task, turn, task[a].at)
           \/ /\ UNCHANGED <<vad, buf, turn, broken>> /\ a = "candidate"
              /\ task' = [[task EXCEPT !["candidate"] = NoTask] EXCEPT !["fallback"] = NewFallback]
           \/ /\ UNCHANGED <<vad, buf, turn, broken>>
              /\ \/ \E pc \in {"submit", "watch"} : task' = [task EXCEPT ![a].pc = pc]
                 \/ task' = [task EXCEPT ![a] = NoTask]
  BY JudgingSteps
<1>2. /\ TypedTasks(task) /\ task \in [Actors -> TaskRecords] /\ turn \in TurnRecords
      /\ a \in Actors /\ "consumer" \in Actors \ {a} /\ a # "consumer"
      /\ "fallback" # "consumer" /\ "candidate" # "consumer" /\ task[a] \in TaskRecords
      /\ task[a].next = "none" /\ UNCHANGED enabled /\ task[a].at \in Nat
  BY JudgingSteps, TypedRecord, DetectorIs, ConsumerIs DEF TypedTasks, Detectors
<1>3. CASE /\ UNCHANGED <<vad, buf, turn, broken>>
           /\ \/ a = "candidate" /\ task' = [[task EXCEPT !["candidate"] = NoTask] EXCEPT !["fallback"] = NewFallback]
              \/ \E pc \in {"submit", "watch"} : task' = [task EXCEPT ![a].pc = pc]
              \/ task' = [task EXCEPT ![a] = NoTask]
  <2>1. task'["consumer"] = task["consumer"]
    BY <1>2, <1>3
  <2> QED BY <1>2, <1>3, <2>1, ApartSound
<1>4. CASE /\ turn.start # None /\ task[a].rev = turn.rev
           /\ StopSpeech(a, task, turn, task[a].at)
  <2> DEFINE arguments == [task[a] EXCEPT !.rev = turn.rev, !.from = turn.start, !.at = task[a].at]
             called == [task EXCEPT ![a] = arguments]
             b == DiscardedBefore(buf, task[a].at)
  <2>1. /\ buf.first <= turn.start /\ turn.start <= task[a].at
        /\ task[a].at <= vad.processed /\ task[a].at < buf.end
    BY <1>1, <1>4 DEF Judged, Judges
  <2>2. /\ arguments \in TaskRecords /\ arguments.from = turn.start /\ arguments.at = task[a].at
        /\ arguments.next = "none"
    BY <1>2 DEF TaskRecords, TurnRecords
  <2>3. /\ turn' = [turn EXCEPT !.start = None]
        /\ \/ Returns(a, called, buf) /\ UNCHANGED broken
           \/ Enqueue(a, called)
    BY <1>4 DEF StopSpeech, Stops
  <2>4. turn'.start = None
    BY <1>2, <2>3 DEF TurnRecords
  <2> HIDE DEF arguments
  <2>5. called[a] = arguments /\ called["consumer"] = task["consumer"] /\ called \in [Actors -> TaskRecords]
    BY <1>2, <2>2
  <2> HIDE DEF called
  <2>6. buf.first \in Nat /\ buf.end \in Nat /\ vad.processed \in Nat /\ turn.start \in Nat
        /\ buf \in Buffers
    BY <1>2, <1>4, BufferTyped DEF Typed, EndTyped, Vads, TurnRecords, Positions
  <2>7. Slices(buf, called[a].from, called[a].at)
    BY <1>2, <2>1, <2>2, <2>5, <2>6 DEF Slices
  <2>8. /\ UNCHANGED broken
        /\ \/ Returns(a, called, buf) \/ Returns(a, called, b)
           \/ task' = [called EXCEPT ![a].pc = "put"] /\ buf' = b /\ UNCHANGED vad
    BY <2>2, <2>3, <2>5, <2>7 DEF Enqueue
  <2> HIDE DEF b
  <2>9. /\ task'["consumer"] = task["consumer"] /\ UNCHANGED vad /\ buf' \in {buf, b}
    BY <1>2, <2>2, <2>5, <2>8 DEF Returns
  <2>10. task["consumer"].pc \notin {"gather", "put"}
    BY <1>1, Deciding DEF Ends, Detecting, Judging
  <2>11. \/ buf' = buf
         \/ \E s \in Nat : /\ buf' = DiscardedBefore(buf, s)
                           /\ buf.first <= s /\ s <= vad.processed /\ s < buf.end
    <3>1. buf.first <= task[a].at
      BY <1>2, <2>1, <2>6
    <3> QED BY <1>2, <2>1, <2>9, <3>1 DEF b
  <2> QED BY <1>2, <2>4, <2>8, <2>9, <2>10, <2>11, CutSound
<1> QED BY <1>1, <1>3, <1>4

LEMMA ModeStays == ASSUME [Next]_vars PROVE mode' = mode
<1> USE DEF Fails
<1>1. ASSUME NEW on \in BOOLEAN, NEW threshold \in BOOLEAN, UpdateSession(on, threshold)
      PROVE  mode' = mode
  BY <1>1 DEF UpdateSession
<1>2. CASE AppendAudio(Window) \/ CommitAudio \/ ClearAudio
  BY <1>2 DEF AppendAudio, CommitAudio, ClearAudio
<1>3. CASE ConsumerSteps
  BY <1>3 DEF ConsumerSteps, VadRuns, HeardNothing, SpeechStarted, Interrupted, SpeechResumed,
     ResumedGathered, FixedSilence, StopCandidate, StopGathered, CommitGathered, ClearGathered
<1>4. ASSUME NEW a \in Actors, DetectorSteps(a) PROVE mode' = mode
  BY <1>4 DEF DetectorSteps, Unwinds, PartialGathered, PutGetsRoom
<1>5. CASE CandidateSubmits \/ CandidateAnswered \/ FallbackWakes \/ FallbackWatched
  BY <1>5 DEF CandidateSubmits, CandidateAnswered, FallbackWakes, FallbackWatched
<1>6. CASE PartialAnswered \/ PartialUnwinds \/ WorkerTakes
           \/ (\E fails \in BOOLEAN : WorkerAnswers(fails))
  BY <1>6 DEF PartialAnswered, PartialUnwinds, WorkerTakes, WorkerAnswers
<1>7. CASE ConsumerCancelled \/ DrainBegins \/ DrainPassesTasks \/ DrainPassesPartial \/ DrainEnds
  BY <1>7 DEF ConsumerCancelled, DrainBegins, DrainPassesTasks, DrainPassesPartial, DrainEnds
<1>8. CASE SchedulerSteps \/ (\E s \in Sessions \ {Me} : OtherSession(s)) \/ SchedulerCloses
           \/ UNCHANGED vars
  BY <1>8 DEF SchedulerSteps, OtherSession, SchedulerCloses, vars, detectionVars
<1> QED BY <1>1, <1>2, <1>3, <1>4, <1>5, <1>6, <1>7, <1>8 DEF Next

-----------------------------------------------------------------------------
(* The slices: the pauses that are judged, without partial transcription.  *)

\* A step that keeps a pause, or ends its turn, or begins another.
LEMMA JudgedKept ==
  ASSUME Typed, Typed', NEW tk, TypedTasks(tk), Judges(tk), turn.rev <= turn'.rev,
         \A d \in Detectors : task'[d].pc \in Judging =>
           tk[d].pc \in Judging /\ task'[d].rev = tk[d].rev /\ task'[d].at = tk[d].at,
         \/ turn'.start = None
         \/ turn.rev < turn'.rev
         \/ /\ turn' = turn /\ buf'.first = buf.first /\ buf.end <= buf'.end
            /\ vad.processed <= vad'.processed
  PROVE  Judged'
<1> SUFFICES ASSUME NEW d \in Detectors, task'[d].pc \in Judging
             PROVE  /\ task'[d].rev <= turn'.rev
                    /\ turn'.start # None /\ task'[d].rev = turn'.rev =>
                         /\ buf'.first <= turn'.start /\ turn'.start <= task'[d].at
                         /\ task'[d].at <= vad'.processed /\ task'[d].at < buf'.end
  BY DEF Judged, Judges, Judging
<1>1. /\ tk[d].rev <= turn.rev
      /\ turn.start # None /\ tk[d].rev = turn.rev =>
           /\ buf.first <= turn.start /\ turn.start <= tk[d].at
           /\ tk[d].at <= vad.processed /\ tk[d].at < buf.end
      /\ task'[d].rev = tk[d].rev /\ task'[d].at = tk[d].at
  BY DEF Judges
<1>2. tk[d].rev \in Nat /\ tk[d].at \in Nat
  BY DetectorIs, DetectionAssumption DEF TypedTasks, TaskRecords
<1>3. turn.rev \in Nat /\ turn'.rev \in Nat
  BY DetectionAssumption DEF Typed, TurnTyped, TurnRecords
<1>4. /\ buf.first \in Nat /\ buf.end \in Nat /\ buf'.end \in Nat
      /\ vad.processed \in Nat /\ vad'.processed \in Nat
  BY DEF Typed, EndTyped, Buffers, Vads
<1>5. task'[d].rev <= turn'.rev
  BY <1>1, <1>2, <1>3
<1>6. CASE turn'.start = None \/ turn.rev < turn'.rev
  BY <1>1, <1>2, <1>3, <1>5, <1>6
<1>7. CASE /\ turn' = turn /\ buf'.first = buf.first /\ buf.end <= buf'.end
           /\ vad.processed <= vad'.processed
  BY <1>1, <1>2, <1>3, <1>4, <1>5, <1>7
<1> QED BY <1>6, <1>7

\* A cancelled or superseded task still has its pause.
LEMMA CancelJudged ==
  ASSUME Typed, Partless, Judged
  PROVE  /\ TypedTasks(task)
         /\ \A tk \in {CancelDetection(Superseded(task)), CancelDetection(task), Superseded(task)} :
              /\ TypedTasks(tk) /\ Judges(tk) /\ tk["consumer"] = task["consumer"]
              /\ \A a \in Actors : tk[a].pc # "gather" /\ tk[a].pc = task[a].pc
<1>1. TypedTasks(task)
  BY DEF Typed, EndTyped
<1>2. ASSUME NEW tk, TypedTasks(tk), tk["consumer"] = task["consumer"],
             \A a \in Actors : tk[a].pc = task[a].pc /\ tk[a].rev = task[a].rev /\ tk[a].at = task[a].at
      PROVE  /\ Judges(tk) /\ tk["consumer"] = task["consumer"]
             /\ \A a \in Actors : tk[a].pc # "gather" /\ tk[a].pc = task[a].pc
  BY <1>2, ConsumerIs DEF Judged, Judges, Partless
<1>3. /\ TypedTasks(Superseded(task)) /\ TypedTasks(CancelDetection(task))
      /\ TypedTasks(CancelDetection(Superseded(task)))
  BY <1>1, CancelTyped
<1>4. /\ Superseded(task)["consumer"] = task["consumer"]
      /\ CancelDetection(task)["consumer"] = task["consumer"]
      /\ \A a \in Actors :
           /\ Superseded(task)[a].pc = task[a].pc /\ Superseded(task)[a].rev = task[a].rev
           /\ Superseded(task)[a].at = task[a].at
           /\ CancelDetection(task)[a].pc = task[a].pc /\ CancelDetection(task)[a].rev = task[a].rev
           /\ CancelDetection(task)[a].at = task[a].at
  BY <1>1, CancelStays
<1>5. LET s == Superseded(task)
      IN  /\ CancelDetection(s)["consumer"] = s["consumer"]
          /\ \A a \in Actors :
               /\ CancelDetection(s)[a].pc = s[a].pc /\ CancelDetection(s)[a].rev = s[a].rev
               /\ CancelDetection(s)[a].at = s[a].at
  BY <1>3, CancelStays
<1>6. ASSUME NEW tk \in {CancelDetection(Superseded(task)), CancelDetection(task), Superseded(task)}
      PROVE  /\ TypedTasks(tk) /\ tk["consumer"] = task["consumer"]
             /\ \A a \in Actors :
                  tk[a].pc = task[a].pc /\ tk[a].rev = task[a].rev /\ tk[a].at = task[a].at
  <2> DEFINE s == Superseded(task)
             k == CancelDetection(task)
             m == CancelDetection(Superseded(task))
  <2>1. tk \in {m, k, s}
    BY <1>6
  <2>2. /\ TypedTasks(s) /\ s["consumer"] = task["consumer"]
        /\ \A a \in Actors : s[a].pc = task[a].pc /\ s[a].rev = task[a].rev /\ s[a].at = task[a].at
    BY <1>3, <1>4
  <2>3. /\ TypedTasks(k) /\ k["consumer"] = task["consumer"]
        /\ \A a \in Actors : k[a].pc = task[a].pc /\ k[a].rev = task[a].rev /\ k[a].at = task[a].at
    BY <1>3, <1>4
  <2>4. TypedTasks(m)
    BY <1>3
  <2>5. /\ m["consumer"] = s["consumer"]
        /\ \A a \in Actors : m[a].pc = s[a].pc /\ m[a].rev = s[a].rev /\ m[a].at = s[a].at
    BY <1>5
  <2> HIDE DEF s, k, m
  <2>6. /\ TypedTasks(m) /\ m["consumer"] = task["consumer"]
        /\ \A a \in Actors : m[a].pc = task[a].pc /\ m[a].rev = task[a].rev /\ m[a].at = task[a].at
    BY <2>2, <2>4, <2>5
  <2> QED BY <2>1, <2>2, <2>3, <2>6
<1> QED BY <1>1, <1>2, <1>6

\* The end of _append_audio.
LEMMA AppendJudged ==
  ASSUME ~PartialEnabled, Typed, Typed', NEW tk, TypedTasks(tk), Judges(tk),
         \A d \in Detectors : tk[d].pc # "gather",
         NEW p, p.pc = "none", NEW start, start = turn'.start, EndsAppend(tk, p, start),
         turn' = turn \/ turn.rev < turn'.rev, UNCHANGED vad
  PROVE  Partless' /\ Judged'
<1>1. /\ \A d \in Detectors : task'[d] = tk[d]
      /\ task'["consumer"].pc \in {"none", "gone"}
  BY AppendStays
<1>2. partial' = p /\ (start = None \/ buf' = buf)
  BY DEF EndsAppend
<1>3. Partless'
  BY <1>1, <1>2, ConsumerIs DEF Partless
<1>4. /\ turn.rev \in Nat /\ turn'.rev \in Nat /\ buf.end \in Nat /\ vad.processed \in Nat
  BY DetectionAssumption DEF Typed, EndTyped, TurnTyped, TurnRecords, Buffers, Vads
<1>5. Judged'
  BY <1>1, <1>2, <1>4, JudgedKept
<1> QED BY <1>3, <1>5

\* The consumer goes on to something that concerns no pause.
LEMMA MovesJudged ==
  ASSUME Typed, Typed', NEW tk, TypedTasks(tk), Judges(tk),
         \A d \in Detectors : tk[d].pc # "gather",
         partial'.pc = "none", task'["consumer"].pc # "gather",
         \A d \in Detectors : task'[d] = tk[d],
         UNCHANGED turn, turn.start = None \/ UNCHANGED <<vad, buf>>
  PROVE  Partless' /\ Judged'
<1>1. Partless'
  BY ConsumerIs DEF Partless
<1>2. /\ turn.rev \in Nat /\ turn'.rev \in Nat /\ buf.end \in Nat /\ vad.processed \in Nat
  BY DetectionAssumption DEF Typed, EndTyped, TurnTyped, TurnRecords, Buffers, Vads
<1>3. Judged'
  BY <1>2, JudgedKept
<1> QED BY <1>1, <1>3

LEMMA GoneJudged ==
  ASSUME Typed, Typed', Partless, Judged, task' \in {Gone(task), Gone(Superseded(task))},
         UNCHANGED <<turn, vad, buf, partial>>
  PROVE  Partless' /\ Judged'
<1>1. PICK tk \in {task, Superseded(task)} : task' = Gone(tk)
  OBVIOUS
<1>2. TypedTasks(tk) /\ Judges(tk) /\ \A a \in Actors : tk[a].pc # "gather"
  BY CancelJudged DEF Judged, Partless
<1>3. task'["consumer"].pc = "gone" /\ \A d \in Detectors : task'[d] = tk[d]
  BY <1>1, <1>2, ConsumerRecords, OthersStay, ConsumerIs DEF Gone
<1>4. partial'.pc = "none"
  BY DEF Partless
<1> QED BY <1>2, <1>3, <1>4, MovesJudged, ConsumerIs

LEMMA UpdateJudged ==
  ASSUME Typed, Typed', Partless, Judged, NEW on \in BOOLEAN, NEW threshold \in BOOLEAN,
         UpdateSession(on, threshold)
  PROVE  Partless' /\ Judged'
<1>1. CASE Fails
  BY <1>1, GoneJudged DEF Fails
<1>2. CASE /\ UNCHANGED <<turn, buf, task, partial>>
           /\ threshold => turn.start = None
           /\ vad' = IF threshold THEN VadReset ELSE vad
  <2>1. TypedTasks(task) /\ Judges(task) /\ (turn.start = None \/ vad' = vad)
    BY <1>2 DEF Typed, EndTyped, Judged
  <2>2. /\ partial'.pc = "none" /\ task'["consumer"].pc # "gather"
        /\ \A d \in Detectors : task[d].pc # "gather" /\ task'[d] = task[d]
    BY <1>2, ConsumerIs DEF Partless
  <2> QED BY <1>2, <2>1, <2>2, MovesJudged
<1> QED BY <1>1, <1>2 DEF UpdateSession

LEMMA HearsJudged ==
  ASSUME Typed, Typed', Partless, Judged, AppendAudio(Window) PROVE Partless' /\ Judged'
<1>1. CASE Fails
  BY <1>1, GoneJudged DEF Fails
<1>2. CASE /\ buf' = Appended(buf, Window)
           /\ task' = IF enabled THEN [task EXCEPT !["consumer"].pc = "vad",
                                                   !["consumer"].at = Window] ELSE task
           /\ UNCHANGED <<vad, turn, partial>>
  <2>1. TypedTasks(task) /\ task \in [Actors -> TaskRecords] /\ task["consumer"] \in TaskRecords
    BY ConsumerIs DEF Typed, EndTyped, TypedTasks
  <2>2. task'["consumer"].pc # "gather" /\ \A d \in Detectors : task'[d] = task[d]
    BY <1>2, <2>1, ConsumerIs DEF TaskRecords, Partless
  <2>3. Partless'
    BY <1>2, <2>2, ConsumerIs DEF Partless
  <2>4. buf'.first = buf.first /\ buf'.end = buf.end + Window
    BY <1>2 DEF Appended, Typed, EndTyped, Buffers
  <2>5. buf.end \in Nat /\ turn.rev \in Nat /\ vad.processed \in Nat /\ Window \in Nat
    BY VadAssumption, DetectionAssumption
       DEF Typed, EndTyped, TurnTyped, TurnRecords, Buffers, Vads
  <2>6. /\ turn' = turn /\ turn.rev <= turn'.rev /\ buf.end <= buf'.end
        /\ vad.processed <= vad'.processed
    BY <1>2, <2>4, <2>5
  <2>7. Judges(task) /\ \A d \in Detectors : task'[d] = task[d]
    BY <2>2 DEF Judged
  <2>8. Judged'
    BY <2>1, <2>4, <2>6, <2>7, JudgedKept
  <2> QED BY <2>3, <2>8
<1> QED BY <1>1, <1>2 DEF AppendAudio

\* The voice activity detection only moves on.
LEMMA VadRunsJudged ==
  ASSUME Typed, Typed', Partless, Judged, SilenceSound, SilenceSound',
         NEW speech \in BOOLEAN, VadRuns(speech)
  PROVE  Partless' /\ Judged'
<1> DEFINE r == Process(vad, task["consumer"].at, speech)
<1>1. /\ task["consumer"].pc = "vad" /\ vad' = r.vad /\ UNCHANGED <<enabled, buf, turn, partial>>
      /\ task' = [task EXCEPT !["consumer"].pc = r.signal, !["consumer"].at = r.at]
  BY DEF VadRuns
<1>2. /\ TypedTasks(task) /\ task \in [Actors -> TaskRecords] /\ task["consumer"] \in TaskRecords
      /\ task["consumer"].at = Window /\ "consumer" \in Actors
  BY <1>1, ConsumerIs DEF Typed, EndTyped, TypedTasks
<1>3. r.signal \in {"quiet", "started", "stopped"}
  BY <1>2, ProcessTyped DEF Typed, EndTyped
<1> HIDE DEF r
<1>4. task'["consumer"].pc = r.signal /\ \A d \in Detectors : task'[d] = task[d]
  BY <1>1, <1>2, ConsumerIs DEF TaskRecords
<1>5. enabled /\ buf.end = vad.processed + vad.rest + Window
  BY <1>1 DEF SilenceSound, Follows, CutOut, Unheard, Placed, Aligned
<1>6. buf'.end = vad'.processed + vad'.rest + 0
  BY <1>1, <1>3, <1>4, <1>5 DEF SilenceSound, Follows, CutOut, Unheard, Aligned
<1>7. /\ vad.processed \in Nat /\ vad.rest \in Nat /\ vad'.processed \in Nat
      /\ vad'.rest \in 0..(Window - 1) /\ Window \in Nat /\ buf.end \in Nat
      /\ turn.rev \in Nat /\ turn'.rev \in Nat
  BY VadAssumption, DetectionAssumption
     DEF Typed, EndTyped, TurnTyped, TurnRecords, Buffers, Vads
<1>8. vad.processed <= vad'.processed
  <2>1. vad.processed + vad.rest + Window = vad'.processed + vad'.rest
    BY <1>1, <1>5, <1>6, <1>7
  <2> QED BY <1>7, <2>1
<1>9. Partless'
  BY <1>1, <1>3, <1>4, ConsumerIs DEF Partless
<1>10. turn' = turn /\ turn.rev <= turn'.rev /\ buf' = buf /\ buf.end <= buf'.end
  BY <1>1, <1>7
<1>11. Judges(task) /\ \A d \in Detectors : task'[d] = task[d]
  BY <1>4 DEF Judged
<1>12. Judged'
  BY <1>2, <1>8, <1>10, <1>11, JudgedKept
<1> QED BY <1>9, <1>12

LEMMA ListensJudged ==
  ASSUME ~PartialEnabled, Typed, Typed', Partless, Judged,
         HeardNothing \/ Interrupted \/ SpeechStarted \/ ResumedGathered
  PROVE  Partless' /\ Judged'
<1>1. /\ TypedTasks(task) /\ Judges(task) /\ turn.rev \in Nat
      /\ \A d \in Detectors : task[d].pc # "gather"
      /\ partial.pc = "none" /\ Outdated(partial).pc = "none"
  BY ConsumerIs, DetectionAssumption
     DEF Typed, EndTyped, TurnTyped, TurnRecords, PartialsTyped, TypedPartial, PartialRecords,
         Judged, Partless, Outdated
<1>2. CASE HeardNothing \/ Interrupted \/ ResumedGathered
  <2>1. /\ UNCHANGED <<turn, vad>>
        /\ \E p \in {partial, Outdated(partial)} : EndsAppend(task, p, turn.start)
    BY <1>2 DEF HeardNothing, Interrupted, ResumedGathered
  <2>2. PICK p \in {partial, Outdated(partial)} : EndsAppend(task, p, turn.start)
    BY <2>1
  <2>3. p.pc = "none" /\ turn.start = turn'.start
    BY <1>1, <2>1
  <2> QED BY <1>1, <2>1, <2>2, <2>3, AppendJudged
<1>3. CASE SpeechStarted
  <2> DEFINE p == Outdated(partial)
  <2>1. /\ turn' = [named |-> TRUE, rev |-> turn.rev + 1, start |-> Clamped(task["consumer"].at)]
        /\ vad' = vad
        /\ \/ EndsAppend(task, p, turn'.start)
           \/ /\ task' = [task EXCEPT !["consumer"].pc = "barge"]
              /\ partial' = p
    BY <1>3 DEF SpeechStarted
  <2>2. turn'.rev = turn.rev + 1 /\ turn.rev < turn'.rev /\ turn.rev <= turn'.rev
    <3>1. turn'.rev = turn.rev + 1
      BY <2>1
    <3> QED BY <1>1, <3>1
  <2> HIDE DEF p
  <2>3. p.pc = "none"
    BY <1>1 DEF p
  <2>4. CASE EndsAppend(task, p, turn'.start)
    <3>1. PICK start : start = turn'.start
      OBVIOUS
    <3>2. EndsAppend(task, p, start)
      BY <2>4, <3>1
    <3> QED BY <1>1, <2>1, <2>2, <2>3, <3>1, <3>2, AppendJudged
  <2>5. CASE task' = [task EXCEPT !["consumer"].pc = "barge"] /\ partial' = p
    <3>1. task'["consumer"].pc = "barge" /\ \A d \in Detectors : task'[d] = task[d]
      <4> DEFINE moved == [task EXCEPT !["consumer"].pc = "barge"]
      <4>1. TypedTasks(task)
        BY <1>1
      <4>2. moved["consumer"].pc = "barge" /\ \A d \in Detectors : moved[d] = task[d]
        BY <4>1, ConsumerGoesTo
      <4>3. task' = moved
        BY <2>5
      <4> HIDE DEF moved
      <4> QED BY <4>2, <4>3
    <3>2. Partless'
      BY <1>1, <2>3, <2>5, <3>1, ConsumerIs DEF Partless
    <3>3. Judged'
      BY <1>1, <2>2, <3>1, JudgedKept
    <3> QED BY <3>2, <3>3
  <2> QED BY <2>1, <2>4, <2>5
<1> QED BY <1>2, <1>3

LEMMA ResumesJudged ==
  ASSUME ~PartialEnabled, Typed, Typed', Partless, Judged, SpeechResumed
  PROVE  Partless' /\ Judged'
<1> DEFINE tk == CancelDetection(Superseded(task))
           p == Outdated(partial)
<1>1. TypedTasks(tk) /\ Judges(tk) /\ \A a \in Actors : tk[a].pc # "gather"
  BY CancelJudged
<1>2. partial.pc = "none" /\ p.pc = "none"
  BY DEF Partless, Outdated, Typed, PartialsTyped, TypedPartial, PartialRecords
<1>3. /\ UNCHANGED <<turn, vad>>
      /\ \/ task' = [tk EXCEPT !["consumer"].pc = "resuming"] /\ UNCHANGED <<buf, partial>>
         \/ EndsAppend(tk, p, turn.start)
  BY DEF SpeechResumed
<1> HIDE DEF tk, p
<1>4. \A d \in Detectors : tk[d].pc # "gather"
  BY <1>1, DetectorIs
<1>5. CASE task' = [tk EXCEPT !["consumer"].pc = "resuming"] /\ UNCHANGED <<buf, partial>>
  <2>2. task'["consumer"].pc = "resuming" /\ \A d \in Detectors : task'[d] = tk[d]
    <3> DEFINE moved == [tk EXCEPT !["consumer"].pc = "resuming"]
    <3>1. TypedTasks(tk)
      BY <1>1
    <3>2. moved["consumer"].pc = "resuming" /\ \A d \in Detectors : moved[d] = tk[d]
      BY <3>1, ConsumerGoesTo
    <3>3. task' = moved
      BY <1>5
    <3> HIDE DEF moved
    <3> QED BY <3>2, <3>3
  <2>3. /\ task'["consumer"].pc # "gather" /\ \A d \in Detectors : task'[d] = tk[d]
        /\ partial'.pc = "none" /\ UNCHANGED <<vad, buf>>
    BY <1>2, <1>3, <1>5, <2>2
  <2> QED BY <1>1, <1>3, <1>4, <2>3, MovesJudged
<1>6. CASE EndsAppend(tk, p, turn.start)
  <2>1. turn.start = turn'.start
    BY <1>3
  <2> QED BY <1>1, <1>2, <1>3, <1>4, <1>6, <2>1, AppendJudged
<1> QED BY <1>3, <1>5, <1>6

\* A pause that is to be judged lies in the open turn and in what is buffered.
LEMMA PausesJudged ==
  ASSUME ~PartialEnabled, Inv, Typed, Typed', Partless, Judged, SilenceSound,
         StopCandidate \/ StopGathered
  PROVE  Partless' /\ Judged'
<1> DEFINE c == task["consumer"]
           s == Superseded(task)
           tk == CancelDetection(Superseded(task))
           n == [tk EXCEPT !["candidate"] = NewCandidate]
           m == [task EXCEPT !["candidate"] = NewCandidate]
<1>1. c.pc \in {"stopped", "stopping"} /\ UNCHANGED <<vad, turn>> /\ partial.pc = "none"
  BY DEF StopCandidate, StopGathered, Partless
<1>2. /\ Aligned(vad, buf, turn.start, enabled, 0)
      /\ c.at <= vad.processed /\ c.at < buf.end
      /\ turn.start # None => turn.start <= c.at
  BY <1>1, FollowsNow DEF Placed
<1>3. /\ TypedTasks(task) /\ TypedTasks(s) /\ TypedTasks(tk)
      /\ Judges(task) /\ Judges(s) /\ Judges(tk)
      /\ \A d \in Detectors : task[d].pc # "gather" /\ s[d].pc # "gather" /\ tk[d].pc # "gather"
  BY CancelJudged, DetectorIs DEF Judged, Partless
<1>4. /\ NewCandidate \in TaskRecords /\ NewCandidate.pc = "new" /\ NewCandidate.next = "none"
      /\ NewCandidate.rev = turn.rev /\ NewCandidate.at = c.at /\ turn.rev \in Nat
  <2>1. c \in TaskRecords /\ turn \in TurnRecords /\ c.at \in Nat /\ turn.rev \in 0..MaxTurns
    BY TypedRecord, ConsumerIs DEF TurnRecords
  <2>2. NoTask \in TaskRecords /\ NoTask.next = "none"
    BY NoTaskTyped
  <2>3. NewCandidate \in TaskRecords
    BY NewCandidateTyped
  <2>4. /\ NewCandidate.pc = "new" /\ NewCandidate.next = "none"
        /\ NewCandidate.rev = turn.rev /\ NewCandidate.at = c.at
    BY <2>2 DEF NewCandidate, TaskRecords
  <2> QED BY <2>1, <2>3, <2>4, DetectionAssumption
<1> HIDE DEF tk, s
<1>5. ASSUME NEW k, TypedTasks(k), Judges(k), \A d \in Detectors : k[d].pc # "gather",
             NEW l, l = [k EXCEPT !["candidate"] = NewCandidate]
      PROVE  TypedTasks(l) /\ Judges(l) /\ \A d \in Detectors : l[d].pc # "gather"
  <2>1. TypedTasks(l) /\ l["candidate"] = NewCandidate
        /\ \A b \in Actors \ {"candidate"} : l[b] = k[b]
    <3>1. "candidate" \in Actors /\ "candidate" # "consumer"
      BY DetectorIs
    <3> DEFINE r == NewCandidate
               moved == [k EXCEPT !["candidate"] = r]
    <3>2. TypedTasks(k) /\ r \in TaskRecords /\ r.next = "none" /\ l = moved
      BY <1>4, <1>5
    <3> HIDE DEF r
    <3>3. TypedTasks(k)
      BY <3>2
    <3>4. moved["candidate"] = r /\ \A b \in Actors \ {"candidate"} : moved[b] = k[b]
      BY <3>1, <3>3, OthersStay
    <3>5. TypedTasks(moved)
      BY <3>1, <3>2, TaskTyped
    <3>6. TypedTasks(moved) /\ moved["candidate"] = r
          /\ \A b \in Actors \ {"candidate"} : moved[b] = k[b]
      BY <3>4, <3>5
    <3> HIDE DEF moved
    <3>7. r = NewCandidate
      BY DEF r
    <3>8. l = moved
      BY <3>2
    <3> QED BY <3>6, <3>7, <3>8
  <2>2. turn.start # None => buf.first <= turn.start
    BY <1>2 DEF Aligned
  <2>3. ASSUME NEW d \in Detectors
        PROVE  /\ l[d].pc # "gather"
               /\ l[d].pc \in Judging =>
                    /\ l[d].rev <= turn.rev
                    /\ turn.start # None /\ l[d].rev = turn.rev =>
                         /\ buf.first <= turn.start /\ turn.start <= l[d].at
                         /\ l[d].at <= vad.processed /\ l[d].at < buf.end
    <3>1. CASE d = "candidate"
      BY <1>2, <1>4, <2>1, <2>2, <3>1
    <3>2. CASE d # "candidate"
      <4>1. l[d] = k[d]
        BY <2>1, <3>2, DetectorIs
      <4> QED BY <1>5, <4>1 DEF Judges
    <3> QED BY <3>1, <3>2
  <2> QED BY <2>1, <2>3 DEF Judges
<1>6. /\ TypedTasks(n) /\ Judges(n) /\ \A d \in Detectors : n[d].pc # "gather"
      /\ TypedTasks(m) /\ Judges(m) /\ \A d \in Detectors : m[d].pc # "gather"
  BY <1>3, <1>5
<1> HIDE DEF n, m
<1>7. \/ \E t \in {task, n, m} : EndsAppend(t, partial, turn.start)
      \/ task' = [tk EXCEPT !["consumer"].pc = "stopping"] /\ UNCHANGED <<buf, partial>>
      \/ task' = Gone(s) /\ UNCHANGED <<buf, partial>>
  BY DEF StopCandidate, StopGathered, tk, n, m, s
<1>8. CASE \E t \in {task, n, m} : EndsAppend(t, partial, turn.start)
  <2>1. PICK t \in {task, n, m} : EndsAppend(t, partial, turn.start)
    BY <1>8
  <2>2. TypedTasks(t) /\ Judges(t) /\ \A d \in Detectors : t[d].pc # "gather"
    BY <1>3, <1>6, <2>1
  <2>3. turn.start = turn'.start
    BY <1>1
  <2> QED BY <1>1, <2>1, <2>2, <2>3, AppendJudged
<1>9. CASE task' = [tk EXCEPT !["consumer"].pc = "stopping"] /\ UNCHANGED <<buf, partial>>
  <2>2. task'["consumer"].pc = "stopping" /\ \A d \in Detectors : task'[d] = tk[d]
    <3> DEFINE moved == [tk EXCEPT !["consumer"].pc = "stopping"]
    <3>1. TypedTasks(tk)
      BY <1>3
    <3>2. moved["consumer"].pc = "stopping" /\ \A d \in Detectors : moved[d] = tk[d]
      BY <3>1, ConsumerGoesTo
    <3>3. task' = moved
      BY <1>9
    <3> HIDE DEF moved
    <3> QED BY <3>2, <3>3
  <2>3. /\ task'["consumer"].pc # "gather" /\ \A d \in Detectors : task'[d] = tk[d]
        /\ partial'.pc = "none" /\ UNCHANGED <<vad, buf>>
    BY <1>1, <1>9, <2>2
  <2> QED BY <1>1, <1>3, <2>3, MovesJudged
<1>10. CASE task' = Gone(s) /\ UNCHANGED <<buf, partial>>
  BY <1>1, <1>10, GoneJudged DEF s
<1> QED BY <1>7, <1>8, <1>9, <1>10

\* Without a partial task, the end of a turn waits for nothing before its audio is cut out.
LEMMA StopPartless ==
  ASSUME NEW tk, TypedTasks(tk), NEW a \in Actors, NEW t \in TurnRecords, NEW to \in Nat,
         tk[a].pc # "vad", partial.pc = "none", StopSpeech(a, tk, t, to)
  PROVE  /\ \A b \in Actors \ {a} : task'[b] = tk[b]
         /\ task'[a].pc \in {"none", "put", "gone"}
         /\ turn'.start = None /\ turn'.rev = t.rev /\ partial' = partial
<1> DEFINE arguments == [tk[a] EXCEPT !.rev = t.rev, !.from = t.start, !.at = to]
           called == [tk EXCEPT ![a] = arguments]
<1>1. /\ turn' = [t EXCEPT !.start = None] /\ partial' = partial
      /\ task' = [called EXCEPT ![a] = NoTask] \/ Enqueue(a, called)
  BY DEF StopSpeech, Stops, Returns
<1>2. tk[a] \in TaskRecords
  BY DEF TypedTasks
<1>3. arguments \in TaskRecords /\ arguments.next = tk[a].next /\ arguments.pc = tk[a].pc
  BY <1>2 DEF TaskRecords, TurnRecords
<1>4. a \in Detectors => arguments.next = "none"
  BY <1>3 DEF TypedTasks
<1> HIDE DEF arguments
<1>5. TypedTasks(called) /\ called[a] = arguments /\ \A b \in Actors \ {a} : called[b] = tk[b]
  BY <1>3, <1>4, TaskTyped
<1> HIDE DEF called
<1>6. turn'.start = None /\ turn'.rev = t.rev
  BY <1>1 DEF TurnRecords
<1>7. CASE Enqueue(a, called)
  BY <1>1, <1>5, <1>6, <1>7, EnqueueStays
<1>8. CASE task' = [called EXCEPT ![a] = NoTask]
  BY <1>1, <1>5, <1>6, <1>8, OthersStay, NoTaskTyped
<1> QED BY <1>1, <1>7, <1>8

\* The consumer ends a turn itself: no pause is judged.
LEMMA EndsJudged ==
  ASSUME Typed, Partless, NEW tk, TypedTasks(tk), NEW t \in TurnRecords, NEW to \in Nat,
         tk["consumer"].pc # "vad", StopSpeech("consumer", tk, t, to),
         \A d \in Detectors : tk[d].pc = "none"
  PROVE  Partless' /\ Judged'
<1>1. /\ \A d \in Detectors : task'[d] = tk[d]
      /\ task'["consumer"].pc \in {"none", "put", "gone"} /\ partial' = partial
  BY StopPartless, ConsumerIs DEF Partless
<1>2. \A d \in Detectors : task'[d].pc = "none"
  BY <1>1
<1>3. Partless'
  BY <1>1, <1>2, ConsumerIs DEF Partless
<1>4. Judged'
  BY <1>2 DEF Judged, Judges, Judging
<1> QED BY <1>3, <1>4

LEMMA FixedSilenceJudged ==
  ASSUME ~PartialEnabled, Inv, Typed, Typed', Partless, Judged, FixedSilence
  PROVE  Partless' /\ Judged'
<1>1. /\ \A d \in Detectors : task[d].pc = "none"
      /\ task["consumer"].pc = "stopped" /\ partial.pc = "none"
  BY Deciding DEF FixedSilence, Partless
<1>2. TypedTasks(task) /\ turn \in TurnRecords /\ task["consumer"].at \in Nat
  BY TypedRecord, ConsumerIs
<1>3. CASE StopSpeech("consumer", [task EXCEPT !["consumer"].next = "append"], turn,
                      task["consumer"].at)
  <2> DEFINE n == [task EXCEPT !["consumer"].next = "append"]
  <2>1. TypedTasks(n) /\ n["consumer"].pc = "stopped"
    BY <1>1, <1>2, ContinuesTyped
  <2>2. \A d \in Detectors : n[d] = task[d]
    BY ConsumerIs DEF Typed, EndTyped, TypedTasks
  <2>3. StopSpeech("consumer", n, turn, task["consumer"].at)
    BY <1>3
  <2> HIDE DEF n
  <2>4. n["consumer"].pc # "vad" /\ \A d \in Detectors : n[d].pc = "none"
    BY <1>1, <2>1, <2>2
  <2> QED BY <1>2, <2>1, <2>3, <2>4, EndsJudged
<1>4. CASE UNCHANGED <<turn, vad>> /\ EndsAppend(task, partial, turn.start)
  <2>1. /\ turn.start = turn'.start /\ turn' = turn /\ Judges(task)
        /\ \A d \in Detectors : task[d].pc # "gather"
    BY <1>1, <1>4 DEF Judged
  <2> QED BY <1>1, <1>2, <1>4, <2>1, AppendJudged
<1> QED BY <1>3, <1>4 DEF FixedSilence

LEMMA CommitsJudged ==
  ASSUME Typed, Typed', Partless, NEW tk, TypedTasks(tk), Commits(tk),
         \A d \in Detectors : tk[d].pc = "none"
  PROVE  Partless' /\ Judged'
<1> DEFINE r == [NoTask EXCEPT !.next = "commit"]
           committing == [tk EXCEPT !["consumer"] = r]
           manual == [named |-> TRUE, rev |-> turn.rev + 1, start |-> buf.first]
<1>1. r \in TaskRecords /\ r.pc = "none"
  BY NoTaskTyped DEF TaskRecords
<1>2. \/ StopSpeech("consumer", committing, turn, buf.end)
      \/ task' = Idle(tk) /\ UNCHANGED partial
      \/ turn.rev < MaxTurns /\ StopSpeech("consumer", committing, manual, buf.end)
  BY DEF Commits
<1> HIDE DEF r
<1>3. /\ TypedTasks(committing) /\ committing["consumer"] = r
      /\ \A d \in Detectors : committing[d] = tk[d]
  BY <1>1, TaskTyped, ConsumerIs, DetectorIs DEF Actors, Detectors
<1>4. /\ buf.first \in Nat /\ buf.end \in Nat /\ turn \in TurnRecords /\ turn.rev \in 0..MaxTurns
  BY BufferTyped DEF Typed, EndTyped, TurnTyped, TurnRecords
<1>5. ASSUME NEW t \in TurnRecords, StopSpeech("consumer", committing, t, buf.end)
      PROVE  Partless' /\ Judged'
  <2> HIDE DEF committing
  <2>1. committing["consumer"].pc # "vad" /\ \A d \in Detectors : committing[d].pc = "none"
    BY <1>1, <1>3
  <2> QED BY <1>3, <1>4, <1>5, <2>1, EndsJudged
<1>6. CASE task' = Idle(tk) /\ UNCHANGED partial
  <2>1. task'["consumer"] = NoTask /\ \A d \in Detectors : task'[d] = tk[d]
    BY <1>6, OthersStay, ConsumerIs DEF Idle
  <2>2. \A a \in Actors : task'[a].pc = "none"
    BY <2>1, NoTaskTyped, ConsumerIs
  <2> QED BY <1>6, <2>2, ConsumerIs DEF Partless, Judged, Judges, Judging
<1>7. CASE turn.rev < MaxTurns /\ StopSpeech("consumer", committing, manual, buf.end)
  <2>1. turn.rev + 1 \in 0..MaxTurns
    BY <1>4, <1>7, DetectionAssumption
  <2>2. manual \in TurnRecords
    BY <1>4, <2>1 DEF TurnRecords, Positions
  <2> HIDE DEF manual, committing
  <2> QED BY <1>5, <1>7, <2>2
<1>8. CASE StopSpeech("consumer", committing, turn, buf.end)
  <2> HIDE DEF committing
  <2> QED BY <1>4, <1>5, <1>8
<1> QED BY <1>2, <1>6, <1>7, <1>8

LEMMA CommitJudged ==
  ASSUME Inv, Typed, Typed', Partless, Judged, CommitAudio \/ CommitGathered
  PROVE  Partless' /\ Judged'
<1> DEFINE tk == CancelDetection(Superseded(task))
<1>1. /\ TypedTasks(task) /\ TypedTasks(tk) /\ Judges(tk)
      /\ \A d \in Detectors : tk[d].pc # "gather" /\ tk[d].pc = task[d].pc
  BY CancelJudged, DetectorIs
<1>2. CASE /\ task' = [tk EXCEPT !["consumer"].pc = "committing"]
           /\ UNCHANGED <<vad, buf, turn, partial>>
  <2>1. task'["consumer"].pc = "committing" /\ \A d \in Detectors : task'[d] = tk[d]
    <3> DEFINE moved == [tk EXCEPT !["consumer"].pc = "committing"]
    <3>1. TypedTasks(tk)
      BY <1>1
    <3>2. task' = moved
      BY <1>2
    <3> HIDE DEF tk
    <3>3. moved["consumer"].pc = "committing" /\ \A d \in Detectors : moved[d] = tk[d]
      BY <3>1, ConsumerGoesTo
    <3> HIDE DEF moved
    <3> QED BY <3>2, <3>3
  <2> HIDE DEF tk
  <2>2. /\ task'["consumer"].pc # "gather" /\ partial'.pc = "none" /\ UNCHANGED <<turn, vad, buf>>
    BY <1>2, <2>1 DEF Partless
  <2> QED BY <1>1, <2>1, <2>2, MovesJudged
<1>3. CASE ~Detecting /\ (Commits(tk) \/ Commits(task))
  <2>1. \A d \in Detectors : tk[d].pc = "none" /\ task[d].pc = "none"
    BY <1>1, <1>3, Deciding
  <2> HIDE DEF tk
  <2> QED BY <1>1, <1>3, <2>1, CommitsJudged
<1> QED BY <1>2, <1>3 DEF CommitAudio, CommitGathered

LEMMA IdleStays ==
  ASSUME NEW tk, TypedTasks(tk)
  PROVE  Idle(tk)["consumer"] = NoTask /\ \A d \in Detectors : Idle(tk)[d] = tk[d]
  BY OthersStay, ConsumerIs DEF Idle

LEMMA ClearJudged ==
  ASSUME Inv, Typed, Typed', Partless, Judged, ClearAudio \/ ClearGathered
  PROVE  Partless' /\ Judged'
<1> DEFINE tk == CancelDetection(Superseded(task))
<1>1. /\ TypedTasks(task) /\ TypedTasks(tk) /\ Judges(tk) /\ Judges(task) /\ turn \in TurnRecords
      /\ \A d \in Detectors : tk[d].pc # "gather" /\ task[d].pc # "gather"
  BY CancelJudged, DetectorIs DEF Judged, Partless, Typed, TurnTyped
<1>2. /\ partial.pc = "none" /\ Outdated(partial).pc = "none" /\ CancelPartial(partial).pc = "none"
      /\ CancelPartial(Outdated(partial)).pc = "none" /\ NoPartial.pc = "none"
      /\ CancelPartial(NoPartial).pc = "none"
  BY DEF Partless, Outdated, CancelPartial, NoPartial, Typed, PartialsTyped, TypedPartial,
         PartialRecords
<1>0. LET t == [turn EXCEPT !.named = FALSE, !.start = None]
      IN  t.start = None /\ turn.rev <= t.rev
  <2>1. turn \in TurnRecords /\ turn.rev \in Nat
    BY <1>1, DetectionAssumption DEF TurnRecords
  <2> QED BY <2>1 DEF TurnRecords
<1>3. PICK t \in {tk, task}, pc \in {"clearing", "clearing partial"} :
        \/ task' = [t EXCEPT !["consumer"].pc = pc] /\ UNCHANGED <<vad, buf, turn>>
        \/ task' = Idle(t) /\ turn' = [turn EXCEPT !.named = FALSE, !.start = None]
  BY DEF ClearAudio, ClearGathered, Clears
<1>4. partial'.pc = "none"
  BY <1>2 DEF ClearAudio, ClearGathered, Clears
<1> HIDE DEF tk
<1>5. TypedTasks(t) /\ Judges(t) /\ \A d \in Detectors : t[d].pc # "gather"
  BY <1>1, <1>3
<1>6. CASE task' = [t EXCEPT !["consumer"].pc = pc] /\ UNCHANGED <<vad, buf, turn>>
  <2>1. task'["consumer"].pc = pc /\ \A d \in Detectors : task'[d] = t[d]
    <3> DEFINE moved == [t EXCEPT !["consumer"].pc = pc]
    <3>1. TypedTasks(t)
      BY <1>5
    <3>2. moved["consumer"].pc = pc /\ \A d \in Detectors : moved[d] = t[d]
      BY <3>1, ConsumerGoesTo
    <3>3. task' = moved
      BY <1>6
    <3> HIDE DEF moved
    <3> QED BY <3>2, <3>3
  <2>2. task'["consumer"].pc # "gather" /\ UNCHANGED <<vad, buf, turn>>
    BY <1>3, <1>6, <2>1
  <2> QED BY <1>4, <1>5, <2>1, <2>2, MovesJudged
<1>7. CASE task' = Idle(t) /\ turn' = [turn EXCEPT !.named = FALSE, !.start = None]
  <2>1. task'["consumer"] = NoTask /\ \A d \in Detectors : task'[d] = t[d]
    BY <1>5, <1>7, IdleStays
  <2>2. turn'.start = None /\ turn.rev <= turn'.rev
    BY <1>7, <1>0
  <2>4. Judged'
    BY <1>5, <2>1, <2>2, JudgedKept
  <2>5. Partless'
    BY <1>4, <1>5, <2>1, NoTaskTyped, ConsumerIs DEF Partless
  <2> QED BY <2>4, <2>5
<1> QED BY <1>3, <1>6, <1>7

\* The tasks that unwind or get their room in the queue judge nothing.
LEMMA DetectorJudged ==
  ASSUME Inv, Typed, Typed', Partless, Judged, NEW a \in Actors, DetectorSteps(a)
  PROVE  Partless' /\ Judged'
<1>1. TypedTasks(task) /\ Judges(task) /\ \A d \in Detectors : task[d].pc # "gather"
  BY DetectorIs DEF Typed, EndTyped, Judged, Partless
<1>2. CASE Unwinds(a)
  <2>1. task' = [task EXCEPT ![a] = NoTask] /\ UNCHANGED <<vad, buf, turn, partial>>
    BY <1>2 DEF Unwinds
  <2>2. task'[a] = NoTask /\ \A b \in Actors \ {a} : task'[b] = task[b]
    BY <1>1, <2>1, OthersStay
  <2> QED BY <2>1, <2>2, NoTaskTyped, DetectorIs DEF Partless, Judged, Judges, Judging
<1>3. CASE PutGetsRoom(a)
  <2>1. /\ task' = [task EXCEPT ![a] = NoTask] /\ UNCHANGED <<turn, partial>>
        /\ task[a].pc = "put" /\ (task[a].next = "none" => vad' = vad /\ buf' = buf)
    BY <1>3 DEF PutGetsRoom, Returns, At
  <2>2. task'[a] = NoTask /\ \A b \in Actors \ {a} : task'[b] = task[b]
    BY <1>1, <2>1, OthersStay
  <2>3. Partless'
    BY <2>1, <2>2, NoTaskTyped DEF Partless
  <2>4. CASE a = "consumer"
    <3>1. \A d \in Detectors : task[d].pc = "none" /\ task'[d] = task[d]
      BY <2>1, <2>2, <2>4, Deciding, DetectorIs DEF Ends
    <3> QED BY <2>3, <3>1 DEF Judged, Judges, Judging
  <2>5. CASE a \in Detectors
    <3>1. vad' = vad /\ buf' = buf
      BY <1>1, <2>1, <2>5 DEF TypedTasks
    <3> QED BY <2>1, <2>2, <2>3, <3>1, NoTaskTyped, DetectorIs DEF Judged, Judges, Judging
  <2> QED BY <2>4, <2>5, ConsumerIs
<1>4. ~PartialGathered(a)
  BY DEF PartialGathered, At, Partless
<1> QED BY <1>2, <1>3, <1>4 DEF DetectorSteps

\* The fallback timer has the pause of the verdict it waits on; a turn that ends has no
\* pause to judge.
LEMMA VerdictJudged ==
  ASSUME Inv, Typed, Typed', Partless, Judged,
         CandidateSubmits \/ CandidateAnswered \/ FallbackWakes \/ FallbackWatched
  PROVE  Partless' /\ Judged'
<1>1. PICK a \in Detectors :
        /\ task[a].pc \in Judging /\ ~task[a].cancelled
        /\ \/ /\ turn.start # None /\ task[a].rev = turn.rev
              /\ StopSpeech(a, task, turn, task[a].at)
           \/ /\ UNCHANGED <<vad, buf, turn, broken>> /\ a = "candidate"
              /\ task' = [[task EXCEPT !["candidate"] = NoTask] EXCEPT !["fallback"] = NewFallback]
           \/ /\ UNCHANGED <<vad, buf, turn, broken>>
              /\ \/ \E pc \in {"submit", "watch"} : task' = [task EXCEPT ![a].pc = pc]
                 \/ task' = [task EXCEPT ![a] = NoTask]
  BY JudgingSteps
<1>2. /\ TypedTasks(task) /\ a \in Actors /\ task[a].at \in Nat /\ turn \in TurnRecords
      /\ "candidate" \in Actors /\ "fallback" \in Actors /\ "consumer" \in Actors
      /\ "consumer" \notin {"candidate", "fallback"} /\ task[a] \in TaskRecords
      /\ Judges(task) /\ \A b \in Actors : task[b].pc # "gather"
  BY TypedRecord, DetectorIs DEF Judged, Partless
<1>3. CASE StopSpeech(a, task, turn, task[a].at)
  <2>1. task[a].pc # "vad" /\ partial.pc = "none"
    BY <1>1 DEF Judging, Partless
  <2>2. /\ \A b \in Actors \ {a} : task'[b] = task[b]
        /\ task'[a].pc \in {"none", "put", "gone"}
        /\ turn'.start = None /\ turn'.rev = turn.rev /\ partial' = partial
    BY <1>2, <1>3, <2>1, StopPartless
  <2>3. Partless'
    BY <1>2, <2>1, <2>2 DEF Partless
  <2>4. /\ turn.rev <= turn'.rev
        /\ \A d \in Detectors : task'[d].pc \in Judging =>
             task[d].pc \in Judging /\ task'[d].rev = task[d].rev /\ task'[d].at = task[d].at
    <3>1. turn.rev \in Nat
      BY DetectionAssumption DEF Typed, TurnTyped, TurnRecords
    <3>2. turn.rev <= turn'.rev
      BY <2>2, <3>1
    <3> QED BY <2>2, <3>2, DetectorIs DEF Judging
  <2>5. Judged'
    BY <1>2, <2>2, <2>4, JudgedKept
  <2> QED BY <2>3, <2>5
<1>4. ASSUME UNCHANGED <<vad, buf, turn>>, UNCHANGED partial,
             \A b \in Actors : task'[b].pc # "gather",
             \A d \in Detectors : task'[d].pc \in Judging =>
               \E e \in Detectors : /\ task[e].pc \in Judging
                                    /\ task'[d].rev = task[e].rev /\ task'[d].at = task[e].at
      PROVE  Partless' /\ Judged'
  BY <1>2, <1>4 DEF Judges, Judged, Partless
<1>5. UNCHANGED <<vad, buf, turn>> => UNCHANGED partial
  <2>1. CASE CandidateSubmits
    BY <2>1 DEF CandidateSubmits
  <2>2. CASE CandidateAnswered
    BY <2>2 DEF CandidateAnswered, StopSpeech, Partless
  <2>3. CASE FallbackWakes \/ FallbackWatched
    BY <2>3 DEF FallbackWakes, FallbackWatched, FallbackDecides, StopSpeech, Partless
  <2> QED BY <2>1, <2>2, <2>3
<1>6. CASE /\ UNCHANGED <<vad, buf, turn, broken>>
           /\ \/ \E pc \in {"submit", "watch"} : task' = [task EXCEPT ![a].pc = pc]
              \/ task' = [task EXCEPT ![a] = NoTask]
  <2>1. /\ \A b \in Actors \ {a} : task'[b] = task[b]
        /\ \/ task'[a].pc = "none"
           \/ task'[a].pc # "gather" /\ task'[a].rev = task[a].rev /\ task'[a].at = task[a].at
    <3>1. CASE \E pc \in {"submit", "watch"} : task' = [task EXCEPT ![a].pc = pc]
      <4>1. PICK pc \in {"submit", "watch"} : task' = [task EXCEPT ![a].pc = pc]
        BY <3>1
      <4>2. task'[a] = [task[a] EXCEPT !.pc = pc] /\ \A b \in Actors \ {a} : task'[b] = task[b]
        BY <1>2, <4>1, OthersStay
      <4> QED BY <1>2, <4>1, <4>2 DEF TaskRecords
    <3>2. CASE task' = [task EXCEPT ![a] = NoTask]
      BY <1>2, <3>2, OthersStay, NoTaskTyped
    <3> QED BY <1>6, <3>1, <3>2
  <2>2. /\ \A b \in Actors : task'[b].pc # "gather"
        /\ \A d \in Detectors : task'[d].pc \in Judging =>
             \E e \in Detectors : /\ task[e].pc \in Judging
                                  /\ task'[d].rev = task[e].rev /\ task'[d].at = task[e].at
    BY <1>1, <1>2, <2>1, DetectorIs DEF Judging
  <2> QED BY <1>4, <1>5, <1>6, <2>2
<1>7. CASE /\ UNCHANGED <<vad, buf, turn, broken>> /\ a = "candidate"
           /\ task' = [[task EXCEPT !["candidate"] = NoTask] EXCEPT !["fallback"] = NewFallback]
  <2>1. /\ task'["consumer"] = task["consumer"] /\ task'["candidate"] = NoTask
        /\ task'["fallback"] = NewFallback
    BY <1>2, <1>7 DEF TypedTasks
  <2>2. /\ NewFallback.pc = "sleep" /\ NewFallback.rev = task["candidate"].rev
        /\ NewFallback.at = task["candidate"].at
    BY DEF NewFallback, NoTask
  <2>3. /\ \A b \in Actors : task'[b].pc # "gather"
        /\ \A d \in Detectors : task'[d].pc \in Judging =>
             \E e \in Detectors : /\ task[e].pc \in Judging
                                  /\ task'[d].rev = task[e].rev /\ task'[d].at = task[e].at
    BY <1>1, <1>2, <1>7, <2>1, <2>2, NoTaskTyped DEF Judging, Actors, Detectors
  <2> QED BY <1>4, <1>5, <1>7, <2>3
<1> QED BY <1>1, <1>3, <1>6, <1>7

-----------------------------------------------------------------------------
(* The slices: every step.                                                 *)

LEMMA StepSilence ==
  ASSUME Pad < MinSilence, Inv, Inv', Typed, SilenceSound, Judged,
         mode = "fixed_silence" \/ Partless, [Next]_vars
  PROVE  SilenceSound'
<1>a. \A d \in Detectors : task[d].pc # "gather"
  BY FixedAlone, DetectorIs DEF Partless
<1>1. ASSUME NEW on \in BOOLEAN, NEW threshold \in BOOLEAN, UpdateSession(on, threshold)
      PROVE  SilenceSound'
  BY <1>1, UpdateSound
<1>2. CASE AppendAudio(Window)
  BY <1>2, HearsSound
<1>3. CASE CommitAudio \/ ClearAudio
  BY <1>3, CommitSound, ClearSound
<1>4. CASE ConsumerSteps
  <2>1. CASE StopCandidate \/ StopGathered
    BY <2>1, PausesSound
  <2>2. ASSUME NEW speech \in BOOLEAN, VadRuns(speech) PROVE SilenceSound'
    BY <2>2, VadRunsSound
  <2>3. CASE HeardNothing \/ Interrupted \/ SpeechStarted \/ ResumedGathered
    BY <2>3, ListensSound
  <2>4. CASE SpeechResumed
    BY <2>4, ResumesSound
  <2>5. CASE FixedSilence
    BY <2>5, FixedSilenceSound
  <2>6. CASE CommitGathered \/ ClearGathered
    BY <2>6, CommitSound, ClearSound
  <2> QED BY <1>4, <2>1, <2>2, <2>3, <2>4, <2>5, <2>6 DEF ConsumerSteps
<1>5. ASSUME NEW a \in Actors, DetectorSteps(a) PROVE SilenceSound'
  BY <1>5, <1>a, DetectorSound
<1>6. CASE CandidateSubmits \/ CandidateAnswered \/ FallbackWakes \/ FallbackWatched
  <2>1. CASE mode = "fixed_silence"
    BY <1>6, <2>1, FixedAlone, DetectorIs DEF CandidateSubmits, CandidateAnswered, FallbackWakes,
       FallbackWatched, At
  <2>2. CASE Partless
    BY <1>6, <2>2, JudgesSound DEF Partless
  <2> QED BY <2>1, <2>2
<1>7. CASE PartialAnswered \/ PartialUnwinds \/ WorkerTakes
           \/ (\E fails \in BOOLEAN : WorkerAnswers(fails))
  <2>1. UNCHANGED <<enabled, vad, buf, turn, broken, task>>
    BY <1>7 DEF PartialAnswered, PartialUnwinds, WorkerTakes, WorkerAnswers
  <2> QED BY <2>1, ApartSound
<1>8. CASE ConsumerCancelled
  BY <1>8, FailsSound DEF ConsumerCancelled, Fails, SilenceSound
<1>9. CASE DrainBegins \/ DrainPassesTasks \/ DrainPassesPartial \/ DrainEnds
  <2>1. drain' # "no" /\ UNCHANGED broken
    BY <1>9 DEF DrainBegins, DrainPassesTasks, DrainPassesPartial, DrainEnds
  <2>2. task'["consumer"].pc = "gone"
    BY <2>1 DEF Inv, DrainOrder
  <2> QED BY <2>1, <2>2, GoneSound DEF SilenceSound
<1>10. CASE SchedulerSteps \/ (\E s \in Sessions \ {Me} : OtherSession(s)) \/ SchedulerCloses
            \/ UNCHANGED vars
  <2>1. UNCHANGED <<enabled, vad, buf, turn, broken, task>>
    BY <1>10 DEF SchedulerSteps, OtherSession, SchedulerCloses, vars, detectionVars
  <2> QED BY <2>1, ApartSound
<1> QED BY <1>1, <1>2, <1>3, <1>4, <1>5, <1>6, <1>7, <1>8, <1>9, <1>10 DEF Next

LEMMA StepJudged ==
  ASSUME ~PartialEnabled, Inv, Inv', Typed, Typed', Partless, Judged,
         SilenceSound, SilenceSound', [Next]_vars
  PROVE  Partless' /\ Judged'
<1>1. ASSUME NEW on \in BOOLEAN, NEW threshold \in BOOLEAN, UpdateSession(on, threshold)
      PROVE  Partless' /\ Judged'
  BY <1>1, UpdateJudged
<1>2. CASE AppendAudio(Window)
  BY <1>2, HearsJudged
<1>3. CASE CommitAudio \/ ClearAudio
  BY <1>3, CommitJudged, ClearJudged
<1>4. CASE ConsumerSteps
  <2>1. CASE StopCandidate \/ StopGathered
    BY <2>1, PausesJudged
  <2>2. ASSUME NEW speech \in BOOLEAN, VadRuns(speech) PROVE Partless' /\ Judged'
    BY <2>2, VadRunsJudged
  <2>3. CASE HeardNothing \/ Interrupted \/ SpeechStarted \/ ResumedGathered
    BY <2>3, ListensJudged
  <2>4. CASE SpeechResumed
    BY <2>4, ResumesJudged
  <2>5. CASE FixedSilence
    BY <2>5, FixedSilenceJudged
  <2>6. CASE CommitGathered \/ ClearGathered
    BY <2>6, CommitJudged, ClearJudged
  <2> QED BY <1>4, <2>1, <2>2, <2>3, <2>4, <2>5, <2>6 DEF ConsumerSteps
<1>5. ASSUME NEW a \in Actors, DetectorSteps(a) PROVE Partless' /\ Judged'
  BY <1>5, DetectorJudged
<1>6. CASE CandidateSubmits \/ CandidateAnswered \/ FallbackWakes \/ FallbackWatched
  BY <1>6, VerdictJudged
<1>7. CASE PartialAnswered \/ PartialUnwinds
  BY <1>7 DEF PartialAnswered, PartialUnwinds, Partless, Judged, Judges
<1>8. CASE WorkerTakes \/ (\E fails \in BOOLEAN : WorkerAnswers(fails))
  BY <1>8 DEF WorkerTakes, WorkerAnswers, Partless, Judged, Judges
<1>9. CASE ConsumerCancelled
  BY <1>9, GoneJudged DEF ConsumerCancelled, Fails
<1>10. CASE DrainBegins \/ DrainPassesTasks \/ DrainPassesPartial \/ DrainEnds
  <2>1. \/ DrainBegins
        \/ /\ task' = task /\ drain' \in {"partial", "idle", "done"}
           /\ partial'.pc = "none"
    BY <1>10 DEF DrainPassesTasks, DrainPassesPartial, DrainEnds, CancelPartial, NoPartial, Partless
  <2>2. CASE DrainBegins
    <3> DEFINE tk == CancelDetection(task)
    <3>1. /\ TypedTasks(tk) /\ Judges(tk) /\ tk["consumer"] = task["consumer"]
          /\ \A a \in Actors : tk[a].pc # "gather"
      BY CancelJudged
    <3>2. task' = tk /\ UNCHANGED <<turn, vad, buf>> /\ partial' = Outdated(partial)
      BY <2>2 DEF DrainBegins
    <3>3. partial'.pc = "none"
      BY <3>2 DEF Partless, Outdated, Typed, PartialsTyped, TypedPartial, PartialRecords
    <3> HIDE DEF tk
    <3> QED BY <3>1, <3>2, <3>3, MovesJudged, DetectorIs
  <2>3. CASE task' = task /\ drain' \in {"partial", "idle", "done"} /\ partial'.pc = "none"
    <3>1. \A d \in Detectors : task'[d].pc = "none"
      BY <2>3 DEF Inv, DrainOrder, Detecting
    <3> QED BY <2>3, <3>1 DEF Partless, Judged, Judges, Judging
  <2> QED BY <2>1, <2>2, <2>3
<1>11. CASE SchedulerSteps \/ (\E s \in Sessions \ {Me} : OtherSession(s)) \/ SchedulerCloses
            \/ UNCHANGED vars
  <2>1. UNCHANGED <<vad, buf, turn, task, partial>>
    BY <1>11 DEF SchedulerSteps, OtherSession, SchedulerCloses, vars, detectionVars
  <2> QED BY <2>1 DEF Partless, Judged, Judges
<1> QED BY <1>1, <1>2, <1>3, <1>4, <1>5, <1>6, <1>7, <1>8, <1>9, <1>10, <1>11 DEF Next

LEMMA StepSound ==
  ASSUME Pad < MinSilence, Inv, Inv', Typed, Typed', Sound, [Next]_vars PROVE Sound'
<1>1. CASE ~PartialEnabled
  <2>1. Partless /\ SilenceSound /\ Judged
    BY <1>1 DEF Sound, Unpartial
  <2>2. SilenceSound'
    BY <2>1, StepSilence
  <2>3. Partless' /\ Judged'
    BY <1>1, <2>1, <2>2, StepJudged
  <2> QED BY <2>2, <2>3 DEF Sound
<1>2. CASE PartialEnabled /\ mode = "fixed_silence"
  <2>1. SilenceSound /\ Judged /\ mode' = "fixed_silence"
    BY <1>2, ModeStays DEF Sound, Unpartial
  <2>2. SilenceSound'
    BY <1>2, <2>1, StepSilence
  <2>3. \A d \in Detectors : task'[d].pc = "none"
    BY <2>1 DEF Inv, Order, OneDecides, Detecting
  <2>4. Judged'
    BY <2>3 DEF Judged, Judges, Judging
  <2> QED BY <1>2, <2>2, <2>4 DEF Sound
<1>3. CASE PartialEnabled /\ mode # "fixed_silence"
  BY <1>3, ModeStays DEF Sound, Unpartial
<1> QED BY <1>1, <1>2, <1>3

LEMMA InitSound == Init => Sound
<1> SUFFICES ASSUME Init PROVE Partless /\ SilenceSound /\ Judged
  BY DEF Sound
<1>1. ~broken /\ \A a \in Actors : task[a] = NoTask /\ task[a].pc = "none"
  BY NoTaskTyped DEF Init
<1>2. Aligned(vad, buf, turn.start, enabled, 0)
  BY ResetAligned DEF Init
<1>3. SilenceSound
  BY <1>1, <1>2, FreeFollows, ConsumerIs DEF SilenceSound
<1>4. Partless
  BY <1>1 DEF Init, Partless, NoPartial
<1>5. Judged
  BY <1>1, DetectorIs DEF Judged, Judges, Judging
<1> QED BY <1>3, <1>4, <1>5

LEMMA SoundAlways == ASSUME Pad < MinSilence PROVE Spec => []Sound
<1>1. Inv /\ Inv' /\ Typed /\ Typed' /\ Sound /\ [Next]_vars => Sound'
  BY StepSound
<1> QED BY <1>1, InitSound, InductiveInvariant, TypedAlways, PTL DEF Spec

\* Whatever a caller of a session without semantic turns says and whenever a turn is
\* committed, cleared or its VAD set anew, every slice lies within the buffer and the
\* call goes on, provided the padding is shorter than the silence that ends a turn
\* (_append_audio, _speech_started, _complete_turn, BoundedAudioBuffer).
THEOREM FixedSilenceSlicesHoldAlways == Spec => []FixedSilenceSlicesHold
<1>1. CASE Pad < MinSilence
  <2>1. Sound => FixedSilenceSlicesHold
    BY DEF Sound, Unpartial, SilenceSound, FixedSilenceSlicesHold
  <2> QED BY <1>1, <2>1, SoundAlways, PTL
<1>2. CASE ~(Pad < MinSilence)
  <2>1. FixedSilenceSlicesHold
    BY <1>2 DEF FixedSilenceSlicesHold
  <2> QED BY <2>1, PTL
<1> QED BY <1>1, <1>2

\* The same of a session whose pauses are judged, as the shipped profiles run it, without
\* partial transcription: whichever of the verdict, the fallback timer and a commit ends a
\* turn, what is cut out is still buffered. It is the task of a partial transcript, which
\* the end of a turn awaits, that lets the next turn move on in between
\* (_speech_stop_candidate, _semantic_fallback, _complete_turn).
THEOREM SlicesHoldAlways ==
  ASSUME Pad < MinSilence, ~PartialEnabled
  PROVE  Spec => []SlicesHold
<1>1. Sound => SlicesHold
  BY DEF Sound, Unpartial, SilenceSound, SlicesHold
<1> QED BY <1>1, SoundAlways, PTL

-----------------------------------------------------------------------------
(* Resumed speech.                                                         *)

\* While a task puts the turn before into the queue, the open turn is in speech: its
\* next pause cancels that task and waits for it, so that speech that is resumed after
\* a pause finds none.
Spoken ==
  LET c == task["consumer"].pc
  IN  turn.start # None /\ (\E d \in Detectors : Ends(d)) =>
        \/ c \in {"stopped", "stopping", "gone"}
        \/ vad.speech # None /\ c \notin {"started", "resuming"}

Heard == task["consumer"].pc = "started" => vad.speech # None

Named == turn.start # None => turn.named

\* Resumed speech has cancelled them all, and none ends a turn.
TakenBack ==
  task["consumer"].pc = "resuming" =>
    \A d \in Detectors : ~Ends(d) /\ (task[d].pc # "none" => task[d].cancelled)

Resumable == Named /\ Heard /\ Spoken /\ TakenBack

LEMMA NobodyEnds ==
  ASSUME Named', Heard', task'["consumer"].pc # "resuming",
         turn'.start = None \/ \A d \in Detectors : ~Ends(d)'
  PROVE  Resumable'
  BY DEF Resumable, Spoken, TakenBack

LEMMA ConsumerGoesOn ==
  ASSUME Resumable, UNCHANGED <<turn, vad>>,
         task["consumer"].pc \notin {"stopped", "stopping", "gone"},
         task'["consumer"].pc \notin {"started", "resuming"},
         \A d \in Detectors : Ends(d)' => Ends(d)
  PROVE  Resumable'
  BY DEF Resumable, Named, Heard, Spoken, TakenBack

LEMMA ConsumerGoes ==
  ASSUME Resumable, UNCHANGED turn, task'["consumer"].pc = "gone" PROVE Resumable'
  BY DEF Resumable, Named, Heard, Spoken, TakenBack

LEMMA DetectorsGoOn ==
  ASSUME Resumable, UNCHANGED <<turn, vad>>, task'["consumer"] = task["consumer"],
         \A d \in Detectors : Ends(d)' => Ends(d),
         task["consumer"].pc = "resuming" =>
           \A d \in Detectors : task'[d].pc # "none" =>
             task[d].pc # "none" /\ (task[d].cancelled => task'[d].cancelled)
  PROVE  Resumable'
  BY DEF Resumable, Named, Heard, Spoken, TakenBack

\* Signals of a window: none starts speech that has started.
LEMMA SignalsOf ==
  ASSUME NEW v \in Vads, NEW speech \in BOOLEAN
  PROVE  LET r == Process(v, Window, speech)
         IN  /\ r.signal = "started" => r.vad.speech # None
             /\ v.speech # None =>
                  r.signal = "stopped" \/ (r.signal = "quiet" /\ r.vad.speech # None)
<1> DEFINE r == Advance(v, speech)
           q == Process(v, Window, speech)
<1> SUFFICES /\ q.signal = "started" => q.vad.speech # None
             /\ v.speech # None => q.signal = "stopped" \/ (q.signal = "quiet" /\ q.vad.speech # None)
  OBVIOUS
<1>1. /\ v.rest \in 0..(Window - 1) /\ v.rest \in Nat /\ Window \in Nat /\ Window # 0
      /\ v.processed \in Nat /\ Pad \in Nat /\ v.candidate \in Positions
  BY VadAssumption DEF Vads
<1>2. r \in [vad : Vads, signal : {"quiet", "started", "stopped"}, at : Nat]
  BY AdvanceTyped
<1>3. /\ r.signal = "started" => r.vad.speech # None
      /\ v.speech # None => r.signal = "stopped" \/ (r.signal = "quiet" /\ r.vad.speech # None)
  <2>1. CASE v.speech = None
    <3> DEFINE from == Since(v.candidate, v.processed)
               begin == IF from > Pad THEN from - Pad ELSE 0
    <3>1. from \in Nat
      BY <1>1, SinceTyped
    <3>2. begin # None
      BY <1>1, <3>1 DEF None
    <3>3. r.signal = "started" => r.vad.speech = begin
      BY <2>1 DEF Advance, Listen, Nothing, Vads
    <3> QED BY <2>1, <3>2, <3>3
  <2>2. CASE v.speech # None
    <3>1. r.signal = "stopped" \/ (r.signal = "quiet" /\ r.vad.speech = v.speech)
      BY <2>2 DEF Advance, Follow, Nothing, Vads
    <3> QED BY <2>2, <3>1
  <2> QED BY <2>1, <2>2
<1>4. v.rest + Window - Window = v.rest /\ ~(v.rest + Window < Window)
  BY <1>1
<1>5. q = [r EXCEPT !.vad.processed = @ + Window, !.vad.rest = v.rest]
  BY <1>4 DEF Process
<1> HIDE DEF r, q
<1>6. q.signal = r.signal /\ q.vad.speech = r.vad.speech
  BY <1>2, <1>5 DEF Vads
<1> QED BY <1>3, <1>6

LEMMA UpdateResumable ==
  ASSUME Inv, Typed, Resumable, NEW on \in BOOLEAN, NEW threshold \in BOOLEAN,
         UpdateSession(on, threshold)
  PROVE  Resumable'
<1>1. task["consumer"].pc = "none"
  BY TakesNow DEF UpdateSession
<1>2. CASE Fails
  BY <1>2, ConsumerGoes, ConsumerRecords DEF Fails, Typed, EndTyped
<1>3. CASE threshold /\ turn.start = None /\ UNCHANGED <<turn, task>>
  BY <1>1, <1>3, NobodyEnds DEF Named, Heard
<1>4. CASE vad' = vad /\ UNCHANGED <<turn, task>>
  BY <1>1, <1>4, ConsumerGoesOn DEF Ends
<1> QED BY <1>2, <1>3, <1>4 DEF UpdateSession

LEMMA HearsResumable ==
  ASSUME Inv, Typed, Resumable, AppendAudio(Window) PROVE Resumable'
<1>1. task["consumer"].pc = "none"
  BY TakesNow DEF AppendAudio
<1>2. CASE Fails
  BY <1>2, ConsumerGoes, ConsumerRecords DEF Fails, Typed, EndTyped
<1>3. CASE /\ task' = IF enabled THEN [task EXCEPT !["consumer"].pc = "vad",
                                                   !["consumer"].at = Window] ELSE task
           /\ UNCHANGED <<vad, turn>>
  <2>1. task \in [Actors -> TaskRecords] /\ task["consumer"] \in TaskRecords
    BY ConsumerIs DEF Typed, EndTyped, TypedTasks
  <2>2. task'["consumer"].pc \in {"none", "vad"} /\ \A d \in Detectors : task'[d] = task[d]
    BY <1>1, <1>3, <2>1, ConsumerIs DEF TaskRecords
  <2> QED BY <1>1, <1>3, <2>2, ConsumerGoesOn DEF Ends
<1> QED BY <1>2, <1>3 DEF AppendAudio

LEMMA VadRunsResumable ==
  ASSUME Inv, Typed, Resumable, NEW speech \in BOOLEAN, VadRuns(speech) PROVE Resumable'
<1> DEFINE r == Process(vad, Window, speech)
<1>1. task["consumer"].pc = "vad" /\ task["consumer"].at = Window /\ vad \in Vads
      /\ task \in [Actors -> TaskRecords] /\ task["consumer"] \in TaskRecords
  BY ConsumerIs DEF VadRuns, Typed, EndTyped, TypedTasks
<1>2. /\ vad' = r.vad /\ UNCHANGED turn
      /\ task' = [task EXCEPT !["consumer"].pc = r.signal, !["consumer"].at = r.at]
  BY <1>1 DEF VadRuns
<1>3. /\ r.signal \in {"quiet", "started", "stopped"}
      /\ r.signal = "started" => r.vad.speech # None
      /\ vad.speech # None => r.signal = "stopped" \/ (r.signal = "quiet" /\ r.vad.speech # None)
  BY <1>1, SignalsOf, ProcessTyped
<1> HIDE DEF r
<1>4. task'["consumer"].pc = r.signal /\ \A d \in Detectors : task'[d] = task[d]
  BY <1>1, <1>2, ConsumerIs DEF TaskRecords
<1>5. Named' /\ Heard' /\ TakenBack'
  BY <1>2, <1>3, <1>4 DEF Resumable, Named, Heard, TakenBack
<1>6. Spoken'
  <2> SUFFICES ASSUME turn'.start # None, NEW d \in Detectors, Ends(d)'
               PROVE  \/ task'["consumer"].pc \in {"stopped", "stopping", "gone"}
                      \/ vad'.speech # None /\ task'["consumer"].pc \notin {"started", "resuming"}
    BY DEF Spoken
  <2>1. turn.start # None /\ Ends(d)
    BY <1>2, <1>4 DEF Ends
  <2>2. vad.speech # None
    BY <1>1, <2>1 DEF Resumable, Spoken
  <2> QED BY <1>2, <1>3, <1>4, <2>2
<1> QED BY <1>5, <1>6 DEF Resumable

LEMMA ListensResumable ==
  ASSUME Inv, Typed, Resumable, HeardNothing \/ Interrupted \/ ResumedGathered \/ SpeechStarted
  PROVE  Resumable'
<1>1. TypedTasks(task)
  BY DEF Typed, EndTyped
<1>2. CASE HeardNothing \/ Interrupted \/ ResumedGathered
  <2>1. /\ UNCHANGED <<turn, vad>> /\ \E p : EndsAppend(task, p, turn.start)
        /\ task["consumer"].pc \in {"quiet", "barge", "resuming"}
    BY <1>2 DEF HeardNothing, Interrupted, ResumedGathered
  <2>2. task'["consumer"].pc \in {"none", "gone"} /\ \A d \in Detectors : task'[d] = task[d]
    BY <1>1, <2>1, AppendStays
  <2> QED BY <2>1, <2>2, ConsumerGoesOn DEF Ends
<1>3. CASE SpeechStarted
  <2>1. /\ task["consumer"].pc = "started" /\ vad' = vad
        /\ turn' = [named |-> TRUE, rev |-> turn.rev + 1, start |-> Clamped(task["consumer"].at)]
        /\ \/ \E p, start : EndsAppend(task, p, start)
           \/ task' = [task EXCEPT !["consumer"].pc = "barge"]
    BY <1>3 DEF SpeechStarted
  <2>2. task'["consumer"].pc \in {"none", "gone", "barge"}
    <3>1. CASE \E p, start : EndsAppend(task, p, start)
      BY <1>1, <3>1, AppendStays
    <3>2. CASE task' = [task EXCEPT !["consumer"].pc = "barge"]
      BY <1>1, <3>2, OthersStay, ConsumerIs
    <3> QED BY <2>1, <3>1, <3>2
  <2>3. vad'.speech # None
    BY <2>1 DEF Resumable, Heard
  <2> QED BY <2>1, <2>2, <2>3 DEF Resumable, Named, Heard, Spoken, TakenBack
<1> QED BY <1>2, <1>3

\* Speech is resumed: no task is about to queue the turn it resumes.
LEMMA ResumesResumable ==
  ASSUME Inv, Typed, Resumable, SpeechResumed PROVE Resumable'
<1> DEFINE tk == CancelDetection(Superseded(task))
<1>1. /\ task["consumer"].pc = "started" /\ turn.start # None /\ UNCHANGED <<turn, vad>>
      /\ TypedTasks(task) /\ TypedTasks(Superseded(task))
  BY CancelTyped DEF SpeechResumed, Typed, EndTyped
<1>2. \A d \in Detectors : ~Ends(d)
  BY <1>1 DEF Resumable, Spoken
<1>3. /\ TypedTasks(tk) /\ tk["consumer"] = task["consumer"]
      /\ \A d \in Detectors : tk[d].pc = task[d].pc /\ (tk[d].pc # "none" => tk[d].cancelled)
  <2> DEFINE s == Superseded(task)
  <2>1. s["consumer"] = task["consumer"] /\ \A a \in Actors : s[a].pc = task[a].pc
    BY <1>1, CancelStays
  <2>2. TypedTasks(s)
    BY <1>1
  <2> HIDE DEF s
  <2>3. /\ TypedTasks(CancelDetection(s)) /\ CancelDetection(s)["consumer"] = s["consumer"]
        /\ \A a \in Actors : CancelDetection(s)[a].pc = s[a].pc
    BY <2>2, CancelTyped, CancelStays
  <2>4. \A d \in Detectors : CancelDetection(s)[d].pc # "none" => CancelDetection(s)[d].cancelled
    <3> TAKE d \in Detectors
    <3>1. d \in Actors
      BY ConsumerIs
    <3>2. /\ CancelDetection(s)[d].pc = s[d].pc
          /\ CancelDetection(s)[d].cancelled =
               (s[d].cancelled \/ (d \in Detectors /\ s[d].pc # "none"))
      BY <2>2, <3>1, CancelStays
    <3> QED BY <3>2
  <2>5. tk = CancelDetection(s)
    BY DEF s
  <2> QED BY <2>1, <2>3, <2>4, <2>5, DetectorIs
<1>4. \/ task' = [tk EXCEPT !["consumer"].pc = "resuming"]
      \/ \E p : EndsAppend(tk, p, turn.start)
  BY DEF SpeechResumed
<1> HIDE DEF tk
<1>5. /\ \A d \in Detectors : task'[d] = tk[d]
      /\ task'["consumer"].pc \in {"none", "gone", "resuming"}
  <2>1. CASE task' = [tk EXCEPT !["consumer"].pc = "resuming"]
    <3> DEFINE moved == [tk EXCEPT !["consumer"].pc = "resuming"]
    <3>1. TypedTasks(tk)
      BY <1>3
    <3>2. moved["consumer"].pc = "resuming" /\ \A d \in Detectors : moved[d] = tk[d]
      BY <3>1, ConsumerGoesTo
    <3>3. task' = moved
      BY <2>1
    <3> HIDE DEF moved
    <3> QED BY <3>2, <3>3
  <2>2. CASE \E p : EndsAppend(tk, p, turn.start)
    BY <1>3, <2>2, AppendStays
  <2> QED BY <1>4, <2>1, <2>2
<1>6. \A d \in Detectors : ~Ends(d)' /\ (task'[d].pc # "none" => task'[d].cancelled)
  BY <1>2, <1>3, <1>5 DEF Ends
<1> QED BY <1>1, <1>5, <1>6 DEF Resumable, Named, Heard, Spoken, TakenBack

LEMMA FixedSilenceResumable ==
  ASSUME Inv, Typed, Resumable, FixedSilence PROVE Resumable'
<1>1. /\ \A d \in Detectors : task[d].pc = "none" /\ ~Ends(d)
      /\ task["consumer"].pc = "stopped"
  BY Deciding DEF FixedSilence
<1>2. TypedTasks(task) /\ turn \in TurnRecords /\ task["consumer"].at \in Nat
  BY TypedRecord, ConsumerIs
<1>3. CASE StopSpeech("consumer", [task EXCEPT !["consumer"].next = "append"], turn,
                      task["consumer"].at)
  <2> DEFINE n == [task EXCEPT !["consumer"].next = "append"]
  <2>1. TypedTasks(n) /\ n["consumer"].pc = "stopped"
    BY <1>1, <1>2, ContinuesTyped
  <2>2. \A d \in Detectors : n[d] = task[d]
    BY ConsumerIs DEF Typed, EndTyped, TypedTasks
  <2>3. StopSpeech("consumer", n, turn, task["consumer"].at)
    BY <1>3
  <2> HIDE DEF n
  <2>4. /\ \A d \in Detectors : task'[d] = n[d]
        /\ task'["consumer"].pc \in {"none", "put", "gone", "gather"} /\ turn'.start = None
    BY <1>2, <2>1, <2>3, StopStays, ConsumerIs
  <2> QED BY <2>4, NobodyEnds DEF Named, Heard
<1>4. CASE UNCHANGED <<turn, vad>> /\ EndsAppend(task, partial, turn.start)
  <2>1. task'["consumer"].pc \in {"none", "gone"} /\ \A d \in Detectors : task'[d] = task[d]
    BY <1>2, <1>4, AppendStays
  <2>2. Named' /\ Heard' /\ task'["consumer"].pc # "resuming" /\ \A d \in Detectors : ~Ends(d)'
    BY <1>1, <1>4, <2>1 DEF Resumable, Named, Heard, Ends
  <2> QED BY <2>2, NobodyEnds
<1> QED BY <1>3, <1>4 DEF FixedSilence

\* A pause cancels a task that still puts the turn before into the queue, and waits.
LEMMA PausesResumable ==
  ASSUME Inv, Typed, Resumable, StopCandidate \/ StopGathered PROVE Resumable'
<1> DEFINE tk == CancelDetection(Superseded(task))
           n == [task EXCEPT !["candidate"] = NewCandidate]
           m == [tk EXCEPT !["candidate"] = NewCandidate]
<1>1. TypedTasks(task) /\ TypedTasks(Superseded(task)) /\ TypedTasks(tk)
  BY CancelTyped DEF Typed, EndTyped
<1>2. /\ \A a \in Actors : tk[a].pc = task[a].pc /\ Superseded(task)[a].pc = task[a].pc
  BY <1>1, CancelStays
<1> HIDE DEF tk
<1>3. NewCandidate.pc = "new" /\ TypedTasks(n) /\ TypedTasks(m)
  BY <1>1, NewCandidateTyped, NoTaskTyped, TaskTyped DEF NewCandidate, TaskRecords, Actors, Detectors
<1>4. \A d \in Detectors : /\ n[d].pc \in {task[d].pc, "new"}
                           /\ m[d].pc \in {task[d].pc, "new"}
  BY <1>1, <1>2, <1>3, OthersStay, DetectorIs DEF Detectors
<1> HIDE DEF n, m
<1>5. UNCHANGED <<turn, vad>> /\ task["consumer"].pc \in {"stopped", "stopping"}
  BY DEF StopCandidate, StopGathered
<1>6. CASE task' = Gone(Superseded(task))
  BY <1>1, <1>5, <1>6, ConsumerGoes, ConsumerRecords
<1>7. CASE task' = [tk EXCEPT !["consumer"].pc = "stopping"]
  <2>1. task'["consumer"].pc = "stopping"
    BY <1>1, <1>7, OthersStay, ConsumerIs
  <2> QED BY <1>5, <2>1 DEF Resumable, Named, Heard, Spoken, TakenBack
<1>8. ASSUME NEW t, TypedTasks(t), EndsAppend(t, partial, turn.start),
             turn.start = None \/ \A d \in Detectors : t[d].pc \notin {"gather", "put"}
      PROVE  Resumable'
  <2>1. task'["consumer"].pc \in {"none", "gone"} /\ \A d \in Detectors : task'[d] = t[d]
    BY <1>8, AppendStays
  <2>2. Named' /\ Heard' /\ task'["consumer"].pc # "resuming"
    BY <1>5, <2>1 DEF Resumable, Named, Heard
  <2>3. turn'.start = None \/ \A d \in Detectors : ~Ends(d)'
    BY <1>5, <1>8, <2>1 DEF Ends
  <2> QED BY <2>2, <2>3, NobodyEnds
<1>9. CASE turn.start # None /\ Detecting /\ task' = [tk EXCEPT !["consumer"].pc = "stopping"]
  BY <1>7, <1>9
<1>10. CASE turn.start = None /\ EndsAppend(task, partial, turn.start)
  BY <1>1, <1>8, <1>10
<1>11. CASE ~Detecting /\ (EndsAppend(n, partial, turn.start) \/ EndsAppend(m, partial, turn.start))
  <2>1. \A d \in Detectors : /\ n[d].pc \notin {"gather", "put"}
                             /\ m[d].pc \notin {"gather", "put"}
    BY <1>4, <1>11, Deciding
  <2> QED BY <1>3, <1>8, <1>11, <2>1
<1>12. \/ task' = Gone(Superseded(task))
       \/ task' = [tk EXCEPT !["consumer"].pc = "stopping"]
       \/ turn.start = None /\ EndsAppend(task, partial, turn.start)
       \/ ~Detecting /\ (EndsAppend(n, partial, turn.start) \/ EndsAppend(m, partial, turn.start))
  BY DEF StopCandidate, StopGathered, Resumable, Named, tk, n, m
<1> QED BY <1>6, <1>7, <1>10, <1>11, <1>12

LEMMA CommitsResumable ==
  ASSUME Inv, Typed, Resumable, NEW tk, TypedTasks(tk), Commits(tk),
         \A d \in Detectors : tk[d].pc \notin {"gather", "put"}
  PROVE  Resumable'
<1> DEFINE r == [NoTask EXCEPT !.next = "commit"]
           committing == [tk EXCEPT !["consumer"] = r]
           manual == [named |-> TRUE, rev |-> turn.rev + 1, start |-> buf.first]
<1>1. r \in TaskRecords /\ r.pc = "none"
  BY NoTaskTyped DEF TaskRecords
<1>2. \/ StopSpeech("consumer", committing, turn, buf.end)
      \/ task' = Idle(tk) /\ UNCHANGED <<vad, turn>>
      \/ turn.rev < MaxTurns /\ StopSpeech("consumer", committing, manual, buf.end)
  BY DEF Commits
<1> HIDE DEF r
<1>3. /\ TypedTasks(committing) /\ committing["consumer"] = r
      /\ \A d \in Detectors : committing[d] = tk[d]
  BY <1>1, TaskTyped, ConsumerIs, DetectorIs DEF Actors, Detectors
<1>4. /\ buf.first \in Nat /\ buf.end \in Nat /\ turn \in TurnRecords /\ turn.rev \in 0..MaxTurns
  BY BufferTyped DEF Typed, EndTyped, TurnTyped, TurnRecords
<1>5. ASSUME NEW t \in TurnRecords, StopSpeech("consumer", committing, t, buf.end)
      PROVE  Resumable'
  <2> HIDE DEF committing
  <2>1. /\ turn'.start = None /\ task'["consumer"].pc \in {"none", "put", "gone", "gather"}
    BY <1>1, <1>3, <1>4, <1>5, StopStays, ConsumerIs
  <2> QED BY <2>1, NobodyEnds DEF Named, Heard
<1>6. CASE task' = Idle(tk) /\ UNCHANGED <<vad, turn>>
  <2>1. task'["consumer"] = NoTask /\ \A d \in Detectors : task'[d] = tk[d]
    BY <1>6, OthersStay, ConsumerIs DEF Idle
  <2>2. Named' /\ Heard' /\ task'["consumer"].pc # "resuming" /\ \A d \in Detectors : ~Ends(d)'
    BY <1>6, <2>1, NoTaskTyped DEF Resumable, Named, Heard, Ends
  <2> QED BY <2>2, NobodyEnds
<1>7. CASE turn.rev < MaxTurns /\ StopSpeech("consumer", committing, manual, buf.end)
  <2>1. turn.rev + 1 \in 0..MaxTurns
    BY <1>4, <1>7, DetectionAssumption
  <2>2. manual \in TurnRecords
    BY <1>4, <2>1 DEF TurnRecords, Positions
  <2> HIDE DEF manual, committing
  <2> QED BY <1>5, <1>7, <2>2
<1>8. CASE StopSpeech("consumer", committing, turn, buf.end)
  <2> HIDE DEF committing
  <2> QED BY <1>4, <1>5, <1>8
<1> QED BY <1>2, <1>6, <1>7, <1>8

LEMMA CommitResumable ==
  ASSUME Inv, Typed, Resumable, CommitAudio \/ CommitGathered PROVE Resumable'
<1> DEFINE tk == CancelDetection(Superseded(task))
<1>1. TypedTasks(task) /\ TypedTasks(Superseded(task)) /\ TypedTasks(tk)
  BY CancelTyped DEF Typed, EndTyped
<1>2. \A d \in Detectors : tk[d].pc = task[d].pc
  BY <1>1, CancelStays, DetectorIs
<1>3. CASE /\ task["consumer"].pc = "none"
           /\ task' = [tk EXCEPT !["consumer"].pc = "committing"] /\ UNCHANGED <<vad, turn>>
  <2>1. task'["consumer"].pc = "committing" /\ \A d \in Detectors : task'[d] = tk[d]
    BY <1>1, <1>3, OthersStay, ConsumerIs
  <2> QED BY <1>2, <1>3, <2>1, ConsumerGoesOn DEF Ends
<1>4. CASE ~Detecting /\ (Commits(tk) \/ Commits(task))
  <2>1. \A d \in Detectors : tk[d].pc \notin {"gather", "put"} /\ task[d].pc \notin {"gather", "put"}
    BY <1>2, <1>4, Deciding
  <2> HIDE DEF tk
  <2> QED BY <1>1, <1>4, <2>1, CommitsResumable
<1> QED BY <1>3, <1>4, TakesNow DEF CommitAudio, CommitGathered

LEMMA ClearResumable ==
  ASSUME Inv, Typed, Resumable, ClearAudio \/ ClearGathered PROVE Resumable'
<1> DEFINE tk == CancelDetection(Superseded(task))
<1>1. TypedTasks(task) /\ TypedTasks(Superseded(task)) /\ TypedTasks(tk) /\ turn \in TurnRecords
  BY CancelTyped DEF Typed, EndTyped, TurnTyped
<1>2. \A d \in Detectors : tk[d].pc = task[d].pc
  BY <1>1, CancelStays, DetectorIs
<1>3. PICK t \in {tk, task}, pc \in {"clearing", "clearing partial"} :
        \/ task' = [t EXCEPT !["consumer"].pc = pc] /\ UNCHANGED <<vad, turn>>
        \/ task' = Idle(t) /\ turn' = [turn EXCEPT !.named = FALSE, !.start = None]
  BY DEF ClearAudio, ClearGathered, Clears
<1>4. task["consumer"].pc \in {"none", "clearing", "clearing partial"}
  BY TakesNow DEF ClearAudio, ClearGathered
<1> HIDE DEF tk
<1>5. TypedTasks(t) /\ \A d \in Detectors : t[d].pc = task[d].pc
  BY <1>1, <1>2
<1>6. CASE task' = [t EXCEPT !["consumer"].pc = pc] /\ UNCHANGED <<vad, turn>>
  <2>1. task'["consumer"].pc = pc /\ \A d \in Detectors : task'[d] = t[d]
    <3> DEFINE moved == [t EXCEPT !["consumer"].pc = pc]
    <3>1. TypedTasks(t)
      BY <1>5
    <3>2. moved["consumer"].pc = pc /\ \A d \in Detectors : moved[d] = t[d]
      BY <3>1, ConsumerGoesTo
    <3>3. task' = moved
      BY <1>6
    <3> HIDE DEF moved
    <3> QED BY <3>2, <3>3
  <2> QED BY <1>4, <1>5, <1>6, <2>1, ConsumerGoesOn DEF Ends
<1>7. CASE task' = Idle(t) /\ turn' = [turn EXCEPT !.named = FALSE, !.start = None]
  <2>1. task'["consumer"] = NoTask /\ turn'.start = None
    BY <1>1, <1>5, <1>7, ConsumerRecords DEF TurnRecords
  <2> QED BY <2>1, NoTaskTyped, NobodyEnds DEF Named, Heard
<1> QED BY <1>3, <1>6, <1>7

LEMMA DetectorResumable ==
  ASSUME Inv, Typed, Resumable, NEW a \in Actors, DetectorSteps(a) PROVE Resumable'
<1>1. TypedTasks(task)
  BY DEF Typed, EndTyped
<1>2. CASE Unwinds(a)
  <2>1. a \in Detectors /\ task' = [task EXCEPT ![a] = NoTask] /\ UNCHANGED <<turn, vad>>
    BY <1>2, Deciding, ConsumerIs DEF Unwinds
  <2>2. task'[a] = NoTask /\ \A b \in Actors \ {a} : task'[b] = task[b]
    BY <1>1, <2>1, OthersStay
  <2>3. task'["consumer"] = task["consumer"] /\ \A d \in Detectors : task'[d] \in {task[d], NoTask}
    BY <2>1, <2>2, ConsumerIs, DetectorIs
  <2> QED BY <2>1, <2>3, NoTaskTyped, DetectorsGoOn DEF Ends
<1>3. CASE PartialGathered(a) \/ PutGetsRoom(a)
  <2>1. Ends(a) /\ ~task[a].cancelled /\ UNCHANGED turn
    BY <1>3 DEF PartialGathered, PutGetsRoom, At, Ends
  <2>2. /\ \A b \in Actors \ {a} : task'[b] = task[b]
        /\ task'[a].pc \in {"none", "put", "gone"}
        /\ task[a].next = "none" => vad' = vad
    <3>1. CASE PartialGathered(a)
      BY <1>1, <3>1, EnqueueStays DEF PartialGathered
    <3>2. CASE PutGetsRoom(a)
      <4>1. task' = [task EXCEPT ![a] = NoTask] /\ (task[a].next = "none" => vad' = vad)
        BY <3>2 DEF PutGetsRoom, Returns
      <4> QED BY <1>1, <4>1, OthersStay, NoTaskTyped
    <3> QED BY <1>3, <3>1, <3>2
  <2>3. CASE a = "consumer"
    <3>1. \A d \in Detectors : ~Ends(d)'
      BY <2>1, <2>2, <2>3, Deciding, ConsumerIs DEF Ends
    <3>2. Named' /\ Heard' /\ task'["consumer"].pc # "resuming"
      BY <2>1, <2>2, <2>3 DEF Resumable, Named, Heard
    <3> QED BY <3>1, <3>2, NobodyEnds
  <2>4. CASE a \in Detectors
    <3>1. vad' = vad
      BY <1>1, <2>2, <2>4 DEF TypedTasks
    <3>2. task["consumer"].pc # "resuming"
      BY <2>1, <2>4 DEF Resumable, TakenBack
    <3>3. task'["consumer"] = task["consumer"]
      BY <2>2, <2>4, ConsumerIs
    <3>4. \A d \in Detectors : Ends(d)' => Ends(d)
      BY <2>1, <2>2, DetectorIs DEF Ends
    <3> QED BY <2>1, <3>1, <3>2, <3>3, <3>4, DetectorsGoOn
  <2> QED BY <2>3, <2>4, ConsumerIs
<1> QED BY <1>2, <1>3 DEF DetectorSteps

\* A judging task that lives on ends the turn, or something else than a turn.
LEMMA JudgesResumable ==
  ASSUME Inv, Typed, Resumable,
         CandidateSubmits \/ CandidateAnswered \/ FallbackWakes \/ FallbackWatched
  PROVE  Resumable'
<1>1. PICK a \in Detectors : /\ task[a].pc \in {"new", "submit", "sleep", "watch"}
                             /\ ~task[a].cancelled
                             /\ \/ StopSpeech(a, task, turn, task[a].at)
                                \/ /\ UNCHANGED <<turn, vad>>
                                   /\ \/ \E pc \in {"submit", "watch"} : task' = [task EXCEPT ![a].pc = pc]
                                      \/ task' = [task EXCEPT ![a] = NoTask]
                                      \/ task' = [[task EXCEPT !["candidate"] = NoTask]
                                                    EXCEPT !["fallback"] = NewFallback]
  BY DEF CandidateSubmits, CandidateAnswered, FallbackWakes, FallbackWatched, FallbackDecides,
         At, Detectors
<1>2. TypedTasks(task) /\ a \in Actors /\ task[a].at \in Nat /\ turn \in TurnRecords
      /\ "consumer" \in Actors \ {a} /\ "candidate" \in Actors /\ "fallback" \in Actors
      /\ "consumer" \notin {"candidate", "fallback"} /\ task[a].next = "none"
  BY <1>1, TypedRecord DEF Actors, Detectors, TypedTasks
<1>3. task["consumer"].pc # "resuming"
  BY <1>1 DEF Resumable, TakenBack
<1>4. CASE StopSpeech(a, task, turn, task[a].at)
  <2>1. task[a].pc # "vad"
    BY <1>1
  <2>2. turn'.start = None /\ vad' = vad /\ task'["consumer"] = task["consumer"]
    BY <1>2, <1>4, <2>1, StopStays
  <2> QED BY <1>3, <2>2, NobodyEnds DEF Resumable, Named, Heard
<1>5. CASE /\ UNCHANGED <<turn, vad>>
           /\ \/ \E pc \in {"submit", "watch"} : task' = [task EXCEPT ![a].pc = pc]
              \/ task' = [task EXCEPT ![a] = NoTask]
  <2>1. /\ task'[a].pc \in {"submit", "watch", "none"}
        /\ \A b \in Actors \ {a} : task'[b] = task[b]
    <3>1. CASE \E pc \in {"submit", "watch"} : task' = [task EXCEPT ![a].pc = pc]
      <4>1. PICK pc \in {"submit", "watch"} : task' = [task EXCEPT ![a].pc = pc]
        BY <3>1
      <4>2. task'[a].pc = pc /\ \A b \in Actors \ {a} : task'[b] = task[b]
        BY <1>2, <4>1, OthersStay
      <4> QED BY <4>1, <4>2
    <3>2. CASE task' = [task EXCEPT ![a] = NoTask]
      BY <1>2, <3>2, OthersStay, NoTaskTyped
    <3> QED BY <1>5, <3>1, <3>2
  <2>2. \A d \in Detectors : Ends(d)' => Ends(d)
    BY <2>1, DetectorIs DEF Ends
  <2> QED BY <1>2, <1>3, <1>5, <2>1, <2>2, DetectorsGoOn
<1>6. CASE /\ UNCHANGED <<turn, vad>>
           /\ task' = [[task EXCEPT !["candidate"] = NoTask] EXCEPT !["fallback"] = NewFallback]
  <2>1. /\ task'["consumer"] = task["consumer"] /\ task'["candidate"] = NoTask
        /\ task'["fallback"] = NewFallback
    BY <1>2, <1>6 DEF TypedTasks
  <2>2. NewFallback.pc = "sleep"
    BY DEF NewFallback, NoTask
  <2>3. \A d \in Detectors : ~Ends(d)'
    BY <2>1, <2>2, NoTaskTyped DEF Ends, Detectors
  <2> QED BY <1>3, <1>6, <2>1, <2>3, DetectorsGoOn
<1> QED BY <1>1, <1>4, <1>5, <1>6

LEMMA StepResumable == ASSUME Inv, Inv', Typed, Resumable, [Next]_vars PROVE Resumable'
<1>1. ASSUME NEW on \in BOOLEAN, NEW threshold \in BOOLEAN, UpdateSession(on, threshold)
      PROVE  Resumable'
  BY <1>1, UpdateResumable
<1>2. CASE AppendAudio(Window)
  BY <1>2, HearsResumable
<1>3. CASE CommitAudio \/ ClearAudio
  BY <1>3, CommitResumable, ClearResumable
<1>4. CASE ConsumerSteps
  BY <1>4, VadRunsResumable, ListensResumable, ResumesResumable, FixedSilenceResumable,
     PausesResumable, CommitResumable, ClearResumable DEF ConsumerSteps
<1>5. ASSUME NEW a \in Actors, DetectorSteps(a) PROVE Resumable'
  BY <1>5, DetectorResumable
<1>6. CASE CandidateSubmits \/ CandidateAnswered \/ FallbackWakes \/ FallbackWatched
  BY <1>6, JudgesResumable
<1>7. CASE PartialAnswered \/ PartialUnwinds \/ WorkerTakes
           \/ (\E fails \in BOOLEAN : WorkerAnswers(fails))
  <2>1. UNCHANGED <<turn, vad, task>>
    BY <1>7 DEF PartialAnswered, PartialUnwinds, WorkerTakes, WorkerAnswers
  <2> QED BY <2>1, DetectorsGoOn DEF Ends
<1>8. CASE ConsumerCancelled
  BY <1>8, ConsumerGoes, ConsumerRecords DEF ConsumerCancelled, Fails, Typed, EndTyped
<1>9. CASE DrainBegins \/ DrainPassesTasks \/ DrainPassesPartial \/ DrainEnds
  <2>1. drain' # "no" /\ UNCHANGED turn
    BY <1>9 DEF DrainBegins, DrainPassesTasks, DrainPassesPartial, DrainEnds
  <2>2. task'["consumer"].pc = "gone"
    BY <2>1 DEF Inv, DrainOrder
  <2> QED BY <2>1, <2>2, ConsumerGoes
<1>10. CASE SchedulerSteps \/ (\E s \in Sessions \ {Me} : OtherSession(s)) \/ SchedulerCloses
            \/ UNCHANGED vars
  <2>1. UNCHANGED <<turn, vad, task>>
    BY <1>10 DEF SchedulerSteps, OtherSession, SchedulerCloses, vars, detectionVars
  <2> QED BY <2>1, DetectorsGoOn DEF Ends
<1> QED BY <1>1, <1>2, <1>3, <1>4, <1>5, <1>6, <1>7, <1>8, <1>9, <1>10 DEF Next

LEMMA ResumableAlways == Spec => []Resumable
<1>1. Init => Resumable
  <2> SUFFICES ASSUME Init PROVE Resumable
    OBVIOUS
  <2>1. turn.start = None /\ task["consumer"].pc = "none"
    BY ConsumerIs, NoTaskTyped DEF Init
  <2> QED BY <2>1 DEF Resumable, Named, Heard, Spoken, TakenBack
<1>2. Inv /\ Inv' /\ Typed /\ Resumable /\ [Next]_vars => Resumable'
  BY StepResumable
<1> QED BY <1>1, <1>2, InductiveInvariant, TypedAlways, PTL DEF Spec

\* Speech that is resumed takes back a pause that is being judged, and never cancels
\* the task that puts a turn into the queue (_speech_resumed, _cancel_turn_detection).
THEOREM ResumptionLosesNoTurnAlways == Spec => []ResumptionLosesNoTurn
<1>1. Resumable => ResumptionLosesNoTurn
  BY DEF Resumable, TakenBack, ResumptionLosesNoTurn, Ends
<1> QED BY <1>1, ResumableAlways, PTL

-----------------------------------------------------------------------------
(* Ended turns.                                                            *)

Kept == \A r \in EndsBy : r \in Owed' \/ answering'.rev = r \/ Drops(r)

\* A step that ends no turn and leaves alone who owes one.
LEMMA OwedStays ==
  ASSUME UNCHANGED <<completed, turns>>,
         \A b \in Actors : Owing(b) => Owing(b)' /\ task'[b].rev = task[b].rev
  PROVE  Kept
<1>1. ASSUME NEW r \in Owed PROVE r \in Owed'
  <2>1. CASE \E b \in Actors : Owing(b) /\ task[b].rev = r
    BY <2>1 DEF Owed
  <2>2. CASE \E i \in DOMAIN turns : turns[i] = r
    BY <2>2 DEF Owed
  <2> QED BY <1>1, <2>1, <2>2 DEF Owed
<1> QED BY <1>1 DEF Kept, EndsBy

\* Nobody owes a turn that is not queued, and none ends.
LEMMA NobodyOwes ==
  ASSUME UNCHANGED <<completed, turns>>, \A b \in Actors : ~Owing(b) PROVE Kept
  BY OwedStays

\* The detection tasks stay as they are, and the consumer ends no turn.
LEMMA ConsumerOwesNone ==
  ASSUME UNCHANGED <<completed, turns>>, ~Ends("consumer"),
         \A d \in Detectors : task'[d] = task[d]
  PROVE  Kept
<1>1. ASSUME NEW b \in Actors, Owing(b) PROVE Owing(b)' /\ task'[b].rev = task[b].rev
  <2>1. b \in Detectors
    BY <1>1, ConsumerIs DEF Owing
  <2> QED BY <1>1, <2>1 DEF Owing, Ends
<1> QED BY <1>1, OwedStays

LEMMA KeptUntilGone == ASSUME broken' \/ task'["consumer"].pc = "gone" PROVE Kept
  BY DEF Kept, Drops

\* A turn that ends in the step is owed after it, and so is every other.
LEMMA OwedGrows ==
  ASSUME completed' # completed => completed' \in Owed',
         \A b \in Actors : Owing(b) => task[b].rev \in Owed',
         \A i \in DOMAIN turns : turns[i] \in Owed'
  PROVE  Kept
  BY DEF Kept, EndsBy, Owed

LEMMA QueueOwes ==
  ASSUME turns \in Seq(1..MaxTurns)
  PROVE  /\ turns' = turns => \A i \in DOMAIN turns : turns[i] \in Owed'
         /\ \A r \in 0..MaxTurns : turns' = Append(turns, r) =>
              r \in Owed' /\ \A i \in DOMAIN turns : turns[i] \in Owed'
<1>1. ASSUME NEW r \in 0..MaxTurns, turns' = Append(turns, r)
      PROVE  r \in Owed' /\ \A i \in DOMAIN turns : turns[i] \in Owed'
  <2>1. DOMAIN turns = 1..Len(turns) /\ Len(turns) \in Nat
    OBVIOUS
  <2>2. DOMAIN turns' = 1..(Len(turns) + 1) /\ turns'[Len(turns) + 1] = r
        /\ \A i \in 1..Len(turns) : turns'[i] = turns[i]
    BY <1>1
  <2>3. Len(turns) + 1 \in DOMAIN turns' /\ \A i \in DOMAIN turns : i \in DOMAIN turns'
    BY <2>1, <2>2
  <2> HIDE <1>1
  <2> QED BY <2>1, <2>2, <2>3 DEF Owed
<1> QED BY <1>1 DEF Owed

\* The rest of _complete_turn: the turn is queued, or its task waits for room.
LEMMA EnqueueOwes ==
  ASSUME turns \in Seq(1..MaxTurns), NEW tk, TypedTasks(tk), NEW a \in Actors,
         ~tk[a].cancelled, Enqueue(a, tk)
  PROVE  \/ broken'
         \/ tk[a].rev \in Owed' /\ \A i \in DOMAIN turns : turns[i] \in Owed'
<1>1. tk[a] \in TaskRecords /\ tk[a].rev \in 0..MaxTurns
  BY DEF TypedTasks, TaskRecords
<1>2. CASE turns' = Append(turns, tk[a].rev)
  BY <1>1, <1>2, QueueOwes
<1>3. CASE turns' = turns /\ task' = [tk EXCEPT ![a].pc = "put"]
  <2>1. task'[a].pc = "put" /\ task'[a].cancelled = FALSE /\ task'[a].rev = tk[a].rev
    BY <1>1, <1>3 DEF TypedTasks, TaskRecords
  <2>2. tk[a].rev \in Owed'
    BY <2>1 DEF Owed, Owing, Ends
  <2> QED BY <1>3, <2>2, QueueOwes
<1> QED BY <1>2, <1>3 DEF Enqueue, Raises

\* _speech_stopped and _complete_turn until the partial task is awaited.
LEMMA StopOwes ==
  ASSUME Typed, NEW tk, TypedTasks(tk), NEW a \in Actors, ~tk[a].cancelled,
         NEW t \in TurnRecords, NEW to \in Nat, tk[a].pc # "vad", StopSpeech(a, tk, t, to)
  PROVE  \/ broken'
         \/ /\ completed' # completed => completed' \in Owed'
            /\ \A i \in DOMAIN turns : turns[i] \in Owed'
<1> DEFINE arguments == [tk[a] EXCEPT !.rev = t.rev, !.from = t.start, !.at = to]
           called == [tk EXCEPT ![a] = arguments]
<1>1. \/ UNCHANGED <<completed, turns>>
      \/ completed' = t.rev /\ Enqueue(a, called)
      \/ completed' = t.rev /\ turns' = turns /\ task' = [called EXCEPT ![a].pc = "gather"]
  BY DEF StopSpeech
<1>2. tk[a] \in TaskRecords /\ turns \in Seq(1..MaxTurns)
  BY DEF TypedTasks, Typed, EndTyped
<1>3. /\ arguments \in TaskRecords /\ arguments.next = tk[a].next /\ arguments.pc = tk[a].pc
      /\ arguments.rev = t.rev /\ arguments.cancelled = FALSE
  BY <1>2 DEF TaskRecords, TurnRecords
<1>4. a \in Detectors => arguments.next = "none"
  BY <1>3 DEF TypedTasks
<1> HIDE DEF arguments
<1>5. TypedTasks(called) /\ called[a] = arguments
  BY <1>3, <1>4, TaskTyped
<1> HIDE DEF called
<1>6. CASE UNCHANGED <<completed, turns>>
  BY <1>2, <1>6, QueueOwes
<1>7. CASE completed' = t.rev /\ Enqueue(a, called)
  BY <1>2, <1>3, <1>5, <1>7, EnqueueOwes
<1>8. CASE completed' = t.rev /\ turns' = turns /\ task' = [called EXCEPT ![a].pc = "gather"]
  <2>1. task'[a].pc = "gather" /\ task'[a].cancelled = FALSE /\ task'[a].rev = t.rev
    BY <1>3, <1>5, <1>8 DEF TypedTasks, TaskRecords
  <2>2. completed' \in Owed'
    BY <1>8, <2>1 DEF Owed, Owing, Ends
  <2> QED BY <1>2, <1>8, <2>2, QueueOwes
<1> QED BY <1>1, <1>6, <1>7, <1>8

\* The task of the caller of _speech_stopped owed none before, and no other is touched.
LEMMA StopKeeps ==
  ASSUME Typed, NEW tk, TypedTasks(tk), NEW a \in Actors, ~tk[a].cancelled,
         NEW t \in TurnRecords, NEW to \in Nat, tk[a].pc # "vad", StopSpeech(a, tk, t, to),
         ~Ends(a), \A b \in Actors \ {a} : Owing(b) => tk[b] = task[b]
  PROVE  Kept
<1>1. CASE broken'
  BY <1>1, KeptUntilGone
<1>2. CASE ~broken'
  <2>1. /\ completed' # completed => completed' \in Owed'
        /\ \A i \in DOMAIN turns : turns[i] \in Owed'
    BY <1>2, StopOwes
  <2>2. ASSUME NEW b \in Actors, Owing(b) PROVE task[b].rev \in Owed'
    <3>1. b \in Actors \ {a}
      BY <2>2 DEF Owing
    <3>2. task'[b] = task[b]
      BY <2>2, <3>1, StopStays
    <3> QED BY <2>2, <3>2 DEF Owed, Owing, Ends
  <2> QED BY <2>1, <2>2, OwedGrows
<1> QED BY <1>1, <1>2

\* The consumer listens.
LEMMA ListensOwes ==
  ASSUME Inv, Typed, Resumable,
         \/ \E on, threshold \in BOOLEAN : UpdateSession(on, threshold)
         \/ AppendAudio(Window)
         \/ \E speech \in BOOLEAN : VadRuns(speech)
         \/ HeardNothing \/ SpeechStarted \/ Interrupted \/ SpeechResumed \/ ResumedGathered
  PROVE  Kept
<1>1. TypedTasks(task) /\ task \in [Actors -> TaskRecords] /\ task["consumer"] \in TaskRecords
  BY ConsumerIs DEF Typed, EndTyped, TypedTasks
<1>2. CASE Fails
  BY <1>1, <1>2, KeptUntilGone, ConsumerRecords DEF Fails
<1>3. CASE task' = task /\ UNCHANGED <<completed, turns>>
  BY <1>3, OwedStays DEF Owing, Ends
<1>4. CASE \E on, threshold \in BOOLEAN : UpdateSession(on, threshold)
  BY <1>2, <1>3, <1>4 DEF UpdateSession
<1>5. CASE AppendAudio(Window)
  <2>1. CASE task' = [task EXCEPT !["consumer"].pc = "vad", !["consumer"].at = Window]
             /\ UNCHANGED <<completed, turns>>
    <3>1. \A d \in Detectors : task'[d] = task[d]
      BY <1>1, <2>1, ConsumerIs
    <3>2. ~Ends("consumer")
      BY <1>5, TakesNow DEF AppendAudio, Ends
    <3> QED BY <2>1, <3>1, <3>2, ConsumerOwesNone
  <2> QED BY <1>2, <1>3, <1>5, <2>1 DEF AppendAudio
<1>6. CASE \E speech \in BOOLEAN : VadRuns(speech)
  <2>1. PICK speech \in BOOLEAN : VadRuns(speech)
    BY <1>6
  <2>2. \E pc, at : task' = [task EXCEPT !["consumer"].pc = pc, !["consumer"].at = at]
    BY <2>1 DEF VadRuns
  <2>3. \A d \in Detectors : task'[d] = task[d]
    BY <1>1, <2>2, ConsumerIs
  <2>4. ~Ends("consumer") /\ UNCHANGED <<completed, turns>>
    BY <2>1 DEF VadRuns, Ends
  <2> QED BY <2>3, <2>4, ConsumerOwesNone
<1>7. CASE HeardNothing \/ SpeechStarted \/ Interrupted \/ ResumedGathered
  <2>1. /\ UNCHANGED <<completed, turns>> /\ ~Ends("consumer")
        /\ \/ \E p, start : EndsAppend(task, p, start)
           \/ task' = [task EXCEPT !["consumer"].pc = "barge"]
    BY <1>7 DEF HeardNothing, SpeechStarted, Interrupted, ResumedGathered, Ends
  <2>2. \A d \in Detectors : task'[d] = task[d]
    <3>1. CASE \E p, start : EndsAppend(task, p, start)
      BY <1>1, <3>1, AppendStays
    <3>2. CASE task' = [task EXCEPT !["consumer"].pc = "barge"]
      BY <1>1, <3>2, ConsumerIs
    <3> QED BY <2>1, <3>1, <3>2
  <2> QED BY <2>1, <2>2, ConsumerOwesNone
<1>8. CASE SpeechResumed
  <2>1. /\ task["consumer"].pc = "started" /\ turn.start # None
        /\ UNCHANGED <<completed, turns>>
    BY <1>8 DEF SpeechResumed
  <2>2. \A b \in Actors : ~Ends(b)
    BY <2>1, ConsumerIs DEF Resumable, Spoken, Ends
  <2> QED BY <2>1, <2>2, NobodyOwes DEF Owing
<1> QED BY <1>4, <1>5, <1>6, <1>7, <1>8

LEMMA FixedSilenceOwes == ASSUME Inv, Typed, FixedSilence PROVE Kept
<1>1. \A b \in Actors : ~Ends(b)
  BY Deciding, ConsumerIs DEF FixedSilence, Ends
<1>2. TypedTasks(task) /\ turn \in TurnRecords /\ task["consumer"].at \in Nat
  BY TypedRecord, ConsumerIs
<1>3. CASE StopSpeech("consumer", [task EXCEPT !["consumer"].next = "append"], turn,
                      task["consumer"].at)
  <2> DEFINE n == [task EXCEPT !["consumer"].next = "append"]
  <2>1. TypedTasks(n) /\ n["consumer"].pc # "vad"
    BY <1>2, ContinuesTyped DEF FixedSilence
  <2>2. ~n["consumer"].cancelled
    BY <1>2, Deciding, ConsumerIs DEF TypedTasks, TaskRecords
  <2>3. StopSpeech("consumer", n, turn, task["consumer"].at)
    BY <1>3
  <2> HIDE DEF n
  <2> QED BY <1>1, <1>2, <2>1, <2>2, <2>3, StopKeeps, ConsumerIs DEF Owing
<1>4. CASE UNCHANGED <<completed, turns>>
  BY <1>1, <1>4, NobodyOwes DEF Owing
<1> QED BY <1>3, <1>4 DEF FixedSilence

\* The next pause: it drops only turns before the open one.
LEMMA PausesOwes == ASSUME Inv, Typed, Resumable, StopCandidate \/ StopGathered PROVE Kept
<1> DEFINE tk == CancelDetection(Superseded(task))
<1>1. TypedTasks(task) /\ TypedTasks(Superseded(task)) /\ TypedTasks(tk)
  BY CancelTyped DEF Typed, EndTyped
<1>2. /\ UNCHANGED <<turn, completed, turns>> /\ ~Ends("consumer")
      /\ task["consumer"].pc \in {"stopped", "stopping"}
  BY DEF StopCandidate, StopGathered, Ends
<1> HIDE DEF tk
<1>3. CASE task' = Gone(Superseded(task))
  BY <1>1, <1>3, KeptUntilGone, ConsumerRecords
<1>4. CASE /\ task["consumer"].pc = "stopped" /\ turn.start # None
           /\ task' = [tk EXCEPT !["consumer"].pc = "stopping"]
  <2>1. ConsumerTurnsTo("stopping")
    BY <1>1, <1>4, OthersStay, ConsumerIs DEF ConsumerTurnsTo
  <2>2. /\ completed < turn.rev
        /\ \A i \in DOMAIN turns : turns[i] <= completed
        /\ \A b \in Actors : Ends(b) => task[b].rev <= completed
    BY <1>4 DEF Inv, Order, Completed
  <2>3. /\ completed \in Nat /\ turn.rev \in Nat
        /\ \A b \in Actors : task[b].rev \in Nat
        /\ \A i \in DOMAIN turns : turns[i] \in Nat
    <3>1. turns \in Seq(1..MaxTurns) /\ turn.rev \in 0..MaxTurns /\ completed \in 0..MaxTurns
      BY DEF Typed, EndTyped, TurnTyped, TurnRecords
    <3>2. \A b \in Actors : task[b].rev \in Nat
      BY TypedRecord
    <3>3. MaxTurns \in Nat
      BY DetectionAssumption
    <3>4. ASSUME NEW i \in DOMAIN turns PROVE turns[i] \in 1..MaxTurns
      <4>1. DOMAIN turns = 1..Len(turns) /\ turns \in [1..Len(turns) -> 1..MaxTurns]
        BY <3>1, LenProperties
      <4> QED BY <4>1
    <3>5. completed \in Nat /\ turn.rev \in Nat
      BY <3>1, <3>3
    <3>6. \A i \in DOMAIN turns : turns[i] \in Nat
      BY <3>3, <3>4
    <3> QED BY <3>2, <3>5, <3>6
  <2>4. ASSUME NEW r \in EndsBy PROVE r < turn.rev
    <3>1. r \in Owed
      BY <1>2, <2>4 DEF EndsBy
    <3>2. CASE \E i \in DOMAIN turns : r = turns[i]
      BY <2>2, <2>3, <3>2
    <3>3. CASE \E b \in Actors : Ends(b) /\ r = task[b].rev
      <4>1. PICK b \in Actors : Ends(b) /\ r = task[b].rev
        BY <3>3
      <4>2. task[b].rev <= completed /\ task[b].rev \in Nat
        BY <2>2, <2>3, <4>1
      <4> QED BY <2>2, <2>3, <4>1, <4>2
    <3> QED BY <3>1, <3>2, <3>3 DEF Owed, Owing
  <2> QED BY <2>1, <2>4 DEF Kept, Drops
<1>5. CASE turn.start = None /\ EndsAppend(task, partial, turn.start)
  BY <1>1, <1>2, <1>5, AppendStays, ConsumerOwesNone
<1>6. CASE ~Detecting
  BY <1>2, <1>6, Deciding, NobodyOwes, ConsumerIs DEF Owing
<1>7. \/ task' = Gone(Superseded(task))
      \/ /\ task["consumer"].pc = "stopped" /\ turn.start # None
         /\ task' = [tk EXCEPT !["consumer"].pc = "stopping"]
      \/ turn.start = None /\ EndsAppend(task, partial, turn.start)
      \/ ~Detecting
  BY DEF StopCandidate, StopGathered, Resumable, Named, tk
<1> QED BY <1>3, <1>4, <1>5, <1>6, <1>7

LEMMA CommitsOwes ==
  ASSUME Inv, Typed, NEW tk, TypedTasks(tk), Commits(tk), \A b \in Actors : ~Ends(b)
  PROVE  Kept
<1> DEFINE r == [NoTask EXCEPT !.next = "commit"]
           committing == [tk EXCEPT !["consumer"] = r]
           manual == [named |-> TRUE, rev |-> turn.rev + 1, start |-> buf.first]
<1>1. r \in TaskRecords /\ r.pc = "none" /\ r.cancelled = FALSE
  BY NoTaskTyped DEF TaskRecords
<1>2. \/ StopSpeech("consumer", committing, turn, buf.end)
      \/ UNCHANGED <<completed, turns>>
      \/ turn.rev < MaxTurns /\ StopSpeech("consumer", committing, manual, buf.end)
  BY DEF Commits
<1> HIDE DEF r
<1>3. TypedTasks(committing) /\ committing["consumer"] = r
  BY <1>1, TaskTyped, ConsumerIs, DetectorIs DEF Actors, Detectors
<1>4. /\ buf.first \in Nat /\ buf.end \in Nat /\ turn \in TurnRecords /\ turn.rev \in 0..MaxTurns
  BY BufferTyped DEF Typed, EndTyped, TurnTyped, TurnRecords
<1>5. ASSUME NEW t \in TurnRecords, StopSpeech("consumer", committing, t, buf.end)
      PROVE  Kept
  <2> HIDE DEF committing
  <2> QED BY <1>1, <1>3, <1>4, <1>5, StopKeeps, ConsumerIs DEF Owing
<1>6. CASE UNCHANGED <<completed, turns>>
  BY <1>6, NobodyOwes DEF Owing
<1>7. CASE turn.rev < MaxTurns /\ StopSpeech("consumer", committing, manual, buf.end)
  <2>1. turn.rev + 1 \in 0..MaxTurns
    BY <1>4, <1>7, DetectionAssumption
  <2>2. manual \in TurnRecords
    BY <1>4, <2>1 DEF TurnRecords, Positions
  <2> HIDE DEF manual, committing
  <2> QED BY <1>5, <1>7, <2>2
<1>8. CASE StopSpeech("consumer", committing, turn, buf.end)
  <2> HIDE DEF committing
  <2> QED BY <1>4, <1>5, <1>8
<1> QED BY <1>2, <1>6, <1>7, <1>8

LEMMA CommitOwes ==
  ASSUME Inv, Typed, CommitAudio \/ CommitGathered PROVE Kept
<1> DEFINE tk == CancelDetection(Superseded(task))
<1>1. TypedTasks(task) /\ TypedTasks(Superseded(task)) /\ TypedTasks(tk)
  BY CancelTyped DEF Typed, EndTyped
<1>2. CASE task["consumer"].pc = "none" /\ task' = [tk EXCEPT !["consumer"].pc = "committing"]
  <2>1. ConsumerTurnsTo("committing")
    BY <1>1, <1>2, OthersStay, ConsumerIs DEF ConsumerTurnsTo
  <2> QED BY <2>1 DEF Kept, Drops
<1>3. CASE ~Detecting /\ ~Ends("consumer") /\ (Commits(tk) \/ Commits(task))
  <2>1. \A b \in Actors : ~Ends(b)
    BY <1>3, Deciding, ConsumerIs
  <2> HIDE DEF tk
  <2> QED BY <1>1, <1>3, <2>1, CommitsOwes
<1> QED BY <1>2, <1>3, TakesNow DEF CommitAudio, CommitGathered, Ends

LEMMA ClearOwes == ASSUME Inv, Typed, ClearAudio \/ ClearGathered PROVE Kept
<1> DEFINE tk == CancelDetection(Superseded(task))
<1>1. TypedTasks(task) /\ TypedTasks(Superseded(task)) /\ TypedTasks(tk)
  BY CancelTyped DEF Typed, EndTyped
<1>2. UNCHANGED <<completed, turns>> /\ ~Ends("consumer")
  BY TakesNow DEF ClearAudio, ClearGathered, Ends
<1>3. CASE ClearAudio /\ Detecting
  <2>1. task["consumer"].pc = "none" /\ task' = [tk EXCEPT !["consumer"].pc = "clearing"]
    BY <1>3, TakesNow DEF ClearAudio
  <2>2. ConsumerTurnsTo("clearing")
    BY <1>1, <2>1, OthersStay, ConsumerIs DEF ConsumerTurnsTo
  <2> QED BY <2>2 DEF Kept, Drops
<1>4. CASE ~Detecting
  BY <1>2, <1>4, Deciding, NobodyOwes, ConsumerIs DEF Owing
<1>5. CASE ClearGathered
  <2>1. \/ task' = [task EXCEPT !["consumer"].pc = "clearing partial"]
        \/ task' = [task EXCEPT !["consumer"] = NoTask]
    BY <1>5 DEF ClearGathered, Clears, Idle
  <2>2. \A d \in Detectors : task'[d] = task[d]
    BY <1>1, <2>1, ConsumerIs DEF TypedTasks
  <2> QED BY <1>2, <2>2, ConsumerOwesNone
<1> QED BY <1>3, <1>4, <1>5

\* A task that is cancelled owes no turn, and one that goes on queues its own.
LEMMA DetectorOwes == ASSUME Inv, Typed, NEW a \in Actors, DetectorSteps(a) PROVE Kept
<1>1. TypedTasks(task) /\ turns \in Seq(1..MaxTurns) /\ task[a] \in TaskRecords
      /\ task[a].rev \in 0..MaxTurns
  BY DEF Typed, EndTyped, TypedTasks, TaskRecords
<1>2. CASE Unwinds(a)
  <2>1. \A b \in Actors \ {a} : task'[b] = task[b]
    BY <1>1, <1>2, OthersStay DEF Unwinds
  <2>2. ~Owing(a) /\ UNCHANGED <<completed, turns>>
    BY <1>2 DEF Unwinds, Owing
  <2> QED BY <2>1, <2>2, OwedStays DEF Owing, Ends
<1>3. CASE PartialGathered(a) \/ PutGetsRoom(a)
  <2>1. ~task[a].cancelled /\ completed' = completed
    BY <1>3 DEF PartialGathered, PutGetsRoom, At
  <2>2. \A b \in Actors \ {a} : task'[b] = task[b]
    <3>1. CASE PartialGathered(a)
      BY <1>1, <3>1, EnqueueStays DEF PartialGathered
    <3>2. CASE PutGetsRoom(a)
      BY <1>1, <3>2, OthersStay DEF PutGetsRoom, Returns
    <3> QED BY <1>3, <3>1, <3>2
  <2>3. \/ broken'
        \/ task[a].rev \in Owed' /\ \A i \in DOMAIN turns : turns[i] \in Owed'
    <3>1. CASE PartialGathered(a)
      BY <1>1, <2>1, <3>1, EnqueueOwes DEF PartialGathered
    <3>2. CASE PutGetsRoom(a)
      <4>1. turns' = Append(turns, task[a].rev)
        BY <3>2 DEF PutGetsRoom
      <4> QED BY <1>1, <4>1, QueueOwes
    <3> QED BY <1>3, <3>1, <3>2
  <2>4. ASSUME NEW b \in Actors, Owing(b), b # a PROVE task[b].rev \in Owed'
    <3>1. task'[b] = task[b]
      BY <2>2, <2>4
    <3> QED BY <2>4, <3>1 DEF Owed, Owing, Ends
  <2> QED BY <2>1, <2>3, <2>4, KeptUntilGone, OwedGrows
<1> QED BY <1>2, <1>3 DEF DetectorSteps

LEMMA JudgesOwes ==
  ASSUME Inv, Typed, CandidateSubmits \/ CandidateAnswered \/ FallbackWakes \/ FallbackWatched
  PROVE  Kept
<1>1. PICK a \in Detectors : /\ task[a].pc \in {"new", "submit", "sleep", "watch"}
                             /\ ~task[a].cancelled
                             /\ \/ StopSpeech(a, task, turn, task[a].at)
                                \/ /\ UNCHANGED <<completed, turns>>
                                   /\ \/ \E pc \in {"submit", "watch"} : task' = [task EXCEPT ![a].pc = pc]
                                      \/ task' = [task EXCEPT ![a] = NoTask]
                                      \/ /\ a = "candidate"
                                         /\ task' = [[task EXCEPT !["candidate"] = NoTask]
                                                       EXCEPT !["fallback"] = NewFallback]
  BY DEF CandidateSubmits, CandidateAnswered, FallbackWakes, FallbackWatched, FallbackDecides,
         At, Detectors
<1>2. TypedTasks(task) /\ a \in Actors /\ task[a].at \in Nat /\ turn \in TurnRecords
  BY <1>1, TypedRecord DEF Actors, Detectors
<1>3. ~Ends(a) /\ task[a].pc # "vad"
  BY <1>1 DEF Ends
<1>4. CASE StopSpeech(a, task, turn, task[a].at)
  BY <1>1, <1>2, <1>3, <1>4, StopKeeps
<1>5. CASE UNCHANGED <<completed, turns>> /\ \A b \in Actors \ {a} : task'[b] = task[b]
  BY <1>3, <1>5, OwedStays DEF Owing, Ends
<1>6. CASE /\ UNCHANGED <<completed, turns>>
           /\ \/ \E pc \in {"submit", "watch"} : task' = [task EXCEPT ![a].pc = pc]
              \/ task' = [task EXCEPT ![a] = NoTask]
  <2>1. \A b \in Actors \ {a} : task'[b] = task[b]
    <3>1. CASE \E pc \in {"submit", "watch"} : task' = [task EXCEPT ![a].pc = pc]
      BY <1>2, <3>1, OthersStay
    <3>2. CASE task' = [task EXCEPT ![a] = NoTask]
      BY <1>2, <3>2, OthersStay
    <3> QED BY <1>6, <3>1, <3>2
  <2> QED BY <1>5, <1>6, <2>1
<1>7. CASE /\ a = "candidate" /\ UNCHANGED <<completed, turns>>
           /\ task' = [[task EXCEPT !["candidate"] = NoTask] EXCEPT !["fallback"] = NewFallback]
  <2>1. ~Ends("fallback")
    BY <1>1, <1>7 DEF Inv, Order, OneDecides, Ends
  <2>2. task'["consumer"] = task["consumer"]
    BY <1>2, <1>7, ConsumerIs DEF TypedTasks, Actors
  <2>3. \A b \in Actors : Owing(b) => b = "consumer"
    BY <1>3, <1>7, <2>1 DEF Owing, Actors, Detectors
  <2> QED BY <1>7, <2>2, <2>3, OwedStays DEF Owing, Ends
<1> QED BY <1>1, <1>4, <1>5, <1>6, <1>7

LEMMA StepKept == ASSUME Inv, Inv', Typed, Resumable, [Next]_vars PROVE Kept
<1>1. CASE \/ \E on, threshold \in BOOLEAN : UpdateSession(on, threshold)
           \/ AppendAudio(Window)
  BY <1>1, ListensOwes
<1>2. CASE CommitAudio \/ ClearAudio
  BY <1>2, CommitOwes, ClearOwes
<1>3. CASE ConsumerSteps
  BY <1>3, ListensOwes, FixedSilenceOwes, PausesOwes, CommitOwes, ClearOwes DEF ConsumerSteps
<1>4. ASSUME NEW a \in Actors, DetectorSteps(a) PROVE Kept
  BY <1>4, DetectorOwes
<1>5. CASE CandidateSubmits \/ CandidateAnswered \/ FallbackWakes \/ FallbackWatched
  BY <1>5, JudgesOwes
<1>6. CASE WorkerTakes
  <2>1. task' = task /\ completed' = completed /\ turns # <<>>
        /\ answering'.rev = Head(turns) /\ turns' = Tail(turns)
    BY <1>6 DEF WorkerTakes
  <2>2. turns \in Seq(1..MaxTurns)
    BY DEF Typed, EndTyped
  <2>3. ASSUME NEW i \in DOMAIN turns PROVE turns[i] \in Owed' \/ answering'.rev = turns[i]
    <3>1. CASE i = 1
      BY <2>1, <3>1
    <3>2. CASE i # 1
      <4>1. i - 1 \in DOMAIN turns' /\ turns'[i - 1] = turns[i]
        BY <2>1, <2>2, <3>2
      <4> QED BY <4>1 DEF Owed
    <3> QED BY <3>1, <3>2
  <2>4. ASSUME NEW b \in Actors, Owing(b) PROVE task[b].rev \in Owed'
    BY <2>1, <2>4 DEF Owed, Owing, Ends
  <2> QED BY <2>1, <2>3, <2>4 DEF Kept, EndsBy, Owed
<1>7. CASE PartialAnswered \/ PartialUnwinds \/ (\E fails \in BOOLEAN : WorkerAnswers(fails))
  BY <1>7, OwedStays DEF PartialAnswered, PartialUnwinds, WorkerAnswers, Owing, Ends
<1>8. CASE ConsumerCancelled
  BY <1>8, KeptUntilGone, ConsumerRecords DEF ConsumerCancelled, Fails, Typed, EndTyped
<1>9. CASE DrainBegins \/ DrainPassesTasks \/ DrainPassesPartial \/ DrainEnds
  <2>1. drain' # "no"
    BY <1>9 DEF DrainBegins, DrainPassesTasks, DrainPassesPartial, DrainEnds
  <2>2. task'["consumer"].pc = "gone"
    BY <2>1 DEF Inv, DrainOrder
  <2> QED BY <2>2, KeptUntilGone
<1>10. CASE SchedulerSteps \/ (\E s \in Sessions \ {Me} : OtherSession(s)) \/ SchedulerCloses
            \/ UNCHANGED vars
  BY <1>10, OwedStays
     DEF SchedulerSteps, OtherSession, SchedulerCloses, vars, detectionVars, Owing, Ends
<1> QED BY <1>1, <1>2, <1>3, <1>4, <1>5, <1>6, <1>7, <1>8, <1>9, <1>10 DEF Next

\* A turn that has ended stays on its way to its transcription until the worker takes
\* it, unless a slice has raised, the session is over, the client clears or commits, or
\* the next turn comes to a pause of its own (_complete_turn, _speech_resumed,
\* _run_completed_turns).
THEOREM EndedTurnsKeptAlways == Spec => EndedTurnsKept
<1>1. Inv /\ Inv' /\ Typed /\ Resumable /\ [Next]_vars => [Kept]_vars
  BY StepKept
<1>2. EndedTurnsKept <=> [][Kept]_vars
  BY PTL DEF EndedTurnsKept, Kept
<1> QED BY <1>1, <1>2, ResumableAlways, InductiveInvariant, TypedAlways, PTL DEF Spec
=============================================================================
