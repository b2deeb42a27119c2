------------------------- MODULE SttSchedulerProofs -------------------------
(* Proofs about SttScheduler, for every number of sessions and every bound  *)
(* on its queue, and about the history that MCSttScheduler adds to it.      *)
EXTENDS MCSttScheduler, TLAPS

\* The session of the worker that runs nothing is none.
LEMMA NoSession == NoJob.session \notin Sessions
  BY DEF NoJob, Sessions

\* Every operation of the scheduler keeps queues, futures and the running job
\* well-typed.
LEMMA TypeStep == TypeOK /\ [Next]_vars => TypeOK'
<1> SUFFICES ASSUME TypeOK, [Next]_vars PROVE TypeOK'
  OBVIOUS
<1> USE DEF TypeOK
<1>1. ASSUME NEW s \in Sessions, NEW c \in Classes, Enqueue(c, s) PROVE TypeOK'
  <2>1. queue' \in [Classes -> SUBSET Sessions]
    BY <1>1 DEF Enqueue
  <2>2. waiter' \in [Classes -> [Sessions -> Waiters]]
    BY <1>1 DEF Enqueue, Waiters
  <2>3. outdated' \in SUBSET Sessions
    BY <1>1 DEF Enqueue
  <2> QED BY <1>1, <2>1, <2>2, <2>3 DEF Enqueue
<1>2. ASSUME NEW s \in Sessions, SubmitFinal(s) \/ SubmitPartial(s) PROVE TypeOK'
  <2>1. "final" \in Classes /\ "partial" \in Classes
    BY DEF Classes
  <2>2. Enqueue("final", s) \/ Enqueue("partial", s)
    BY <1>2 DEF SubmitFinal, SubmitPartial
  <2> QED BY <1>1, <2>1, <2>2
<1>3. ASSUME NEW s \in Sessions, CancelSession(s) PROVE TypeOK'
  <2>1. queue' \in [Classes -> SUBSET Sessions]
    BY <1>3 DEF CancelSession
  <2>2. waiter' \in [Classes -> [Sessions -> Waiters]]
    <3>1. ASSUME NEW c \in Classes
          PROVE [waiter[c] EXCEPT ![s] = IF s \in queue[c] /\ @ = "pending" THEN "cancelled" ELSE @]
                  \in [Sessions -> Waiters]
      BY DEF Waiters
    <3> QED BY <1>3, <3>1 DEF CancelSession
  <2> QED BY <1>3, <2>1, <2>2 DEF CancelSession
<1>4. ASSUME NEW s \in Sessions, DrainBegins(s) \/ SessionIsIdle(s) PROVE TypeOK'
  BY <1>4 DEF DrainBegins, SessionIsIdle
<1>5. ASSUME NEW c \in Classes, NEW s \in Sessions, WaiterLeaves(c, s) PROVE TypeOK'
  BY <1>5 DEF WaiterLeaves, Waiters
<1>6. ASSUME NEW s \in Sessions, PartialOutdated(s) PROVE TypeOK'
  BY <1>6 DEF PartialOutdated
<1>7. ASSUME NEW c \in Classes, NEW s \in Sessions, WorkerTakes(c, s) PROVE TypeOK'
  <2>1. s \in 0..NumSessions
    BY SttAssumption DEF Sessions
  <2>2. active' \in [class : Classes, session : Sessions]
    BY <1>7 DEF WorkerTakes
  <2> QED BY <1>7, <2>1, <2>2 DEF WorkerTakes
<1>8. ASSUME NEW c \in Classes, NEW s \in Sessions, JobEnds(c, s) PROVE TypeOK'
  BY <1>8 DEF JobEnds, Resolve, Waiters
<1>9. CASE Close
  <2>1. waiter' \in [Classes -> [Sessions -> Waiters]]
    BY <1>9 DEF Close, Waiters
  <2> QED BY <1>9, <2>1 DEF Close
<1>10. CASE WorkerStops
  <2>1. CASE active = NoJob
    BY <1>10, <2>1 DEF WorkerStops
  <2>2. CASE active # NoJob
    <3>1. active.class \in Classes /\ active.session \in Sessions
      BY <2>2
    <3>2. Resolve(active.class, active.session, "cancelled")
      BY <1>10, <2>2 DEF WorkerStops
    <3>3. waiter' \in [Classes -> [Sessions -> Waiters]]
      BY <3>1, <3>2 DEF Resolve, Waiters
    <3> QED BY <1>10, <3>3 DEF WorkerStops
  <2> QED BY <2>1, <2>2
<1>11. CASE UNCHANGED vars
  BY <1>11 DEF vars
<1> QED BY <1>2, <1>3, <1>4, <1>5, <1>6, <1>7, <1>8, <1>9, <1>10, <1>11 DEF Next

\* The job the worker holds survives every step but the end of that job, and no
\* pending future loses its job to a cancellation or the close.
LEMMA JobStep == IInv /\ [Next]_vars =>
                   /\ (worker = "running" <=> active # NoJob)'
                   /\ PendingHasJob'
<1> DEFINE Held == worker = "running" <=> active # NoJob
<1> SUFFICES ASSUME IInv, [Next]_vars PROVE Held' /\ PendingHasJob'
  OBVIOUS
<1> USE DEF IInv, TypeOK, PendingHasJob, Running, Classes, NoJob
<1>1. ASSUME NEW s \in Sessions, SubmitFinal(s) \/ SubmitPartial(s) PROVE Held' /\ PendingHasJob'
  BY <1>1 DEF SubmitFinal, SubmitPartial, Enqueue
<1>2. ASSUME NEW s \in Sessions, CancelSession(s) \/ SessionIsIdle(s) PROVE Held' /\ PendingHasJob'
  BY <1>2 DEF CancelSession, SessionIsIdle
<1>3. ASSUME NEW c \in Classes, NEW s \in Sessions,
             WaiterLeaves(c, s) \/ PartialOutdated(s) \/ DrainBegins(s)
      PROVE Held' /\ PendingHasJob'
  BY <1>3 DEF WaiterLeaves, PartialOutdated, DrainBegins
<1>4. ASSUME NEW c \in Classes, NEW s \in Sessions, WorkerTakes(c, s) PROVE Held' /\ PendingHasJob'
  BY <1>4 DEF WorkerTakes
<1>5. ASSUME NEW c \in Classes, NEW s \in Sessions, JobEnds(c, s) PROVE Held' /\ PendingHasJob'
  BY <1>5 DEF JobEnds, Resolve
<1>6. CASE Close
  BY <1>6 DEF Close
<1>7. CASE WorkerStops
  BY <1>7 DEF WorkerStops, Resolve
<1>8. CASE UNCHANGED vars
  BY <1>8 DEF vars
<1> QED BY <1>1, <1>2, <1>3, <1>4, <1>5, <1>6, <1>7, <1>8 DEF Next

\* The predicate the worker's condition is notified for says the same as
\* "neither queued nor running": an active job names its session.
LEMMA IdleExactly ==
  ASSUME TypeOK, NEW s \in Sessions
  PROVE  SessionIdle(s) <=> \A c \in Classes : s \notin queue[c] /\ ~Running(c, s)
<1>1. CASE active = NoJob
  BY <1>1, NoSession DEF SessionIdle, Running
<1>2. CASE active \in [class : Classes, session : Sessions]
  <2>1. active.class \in Classes /\ active = [class |-> active.class, session |-> active.session]
    BY <1>2
  <2> QED BY <2>1 DEF SessionIdle, Running
<1> QED BY <1>1, <1>2 DEF TypeOK

\* A session that was once seen idle gets no new job, and the worker has none
\* of it to take.
LEMMA IdleStep == IInv /\ [Next]_vars => IdleIsFinal'
<1> DEFINE Idle == \A s \in Sessions : release[s] = "idle" => SessionIdle(s)
<1>a. TypeOK => (Idle <=> IdleIsFinal)
  BY IdleExactly DEF IdleIsFinal
<1>b. TypeOK' => (Idle' <=> IdleIsFinal')
  BY <1>a, PTL
<1> SUFFICES ASSUME TypeOK, worker = "running" <=> active # NoJob, Idle, [Next]_vars PROVE Idle'
  BY <1>a, <1>b, TypeStep DEF IInv
<1> USE DEF TypeOK, SessionIdle, Idle
<1>1. ASSUME NEW s \in Sessions, SubmitFinal(s) \/ SubmitPartial(s) PROVE Idle'
  <2>1. PICK c \in Classes : Enqueue(c, s) /\ release[s] \in {"no", "draining"}
    BY <1>1 DEF SubmitFinal, SubmitPartial, Classes
  <2>2. \A t \in Sessions \ {s}, d \in Classes : t \in queue'[d] => t \in queue[d]
    BY <2>1 DEF Enqueue
  <2> QED BY <2>1, <2>2 DEF Enqueue
<1>2. ASSUME NEW s \in Sessions,
             CancelSession(s) \/ SessionIsIdle(s) \/ PartialOutdated(s) \/ DrainBegins(s)
      PROVE Idle'
  BY <1>2 DEF CancelSession, SessionIsIdle, PartialOutdated, DrainBegins
<1>3. ASSUME NEW c \in Classes, NEW s \in Sessions, WaiterLeaves(c, s) PROVE Idle'
  BY <1>3 DEF WaiterLeaves
<1>4. ASSUME NEW c \in Classes, NEW s \in Sessions, WorkerTakes(c, s) PROVE Idle'
  BY <1>4 DEF WorkerTakes, NextSession
<1>5. ASSUME NEW c \in Classes, NEW s \in Sessions, JobEnds(c, s) PROVE Idle'
  BY <1>5, NoSession DEF JobEnds
<1>6. CASE Close
  BY <1>6 DEF Close
<1>7. CASE WorkerStops
  BY <1>7, NoSession DEF WorkerStops
<1>8. CASE UNCHANGED vars
  BY <1>8 DEF vars
<1> QED BY <1>1, <1>2, <1>3, <1>4, <1>5, <1>6, <1>7, <1>8 DEF Next

-----------------------------------------------------------------------------
\* The inductive invariant holds in every behaviour of the scheduler.
THEOREM InductiveInvariant == Spec => []IInv
<1>1. Init => IInv
  <2> SUFFICES ASSUME Init PROVE IInv
    OBVIOUS
  <2>1. TypeOK
    <3>1. outdated \in SUBSET Sessions
      BY DEF Init
    <3>2. 0 \in 0..NumSessions
      BY SttAssumption
    <3>3. "none" \in Waiters
      BY DEF Waiters
    <3>4. waiter \in [Classes -> [Sessions -> Waiters]] /\ queue \in [Classes -> SUBSET Sessions]
      BY <3>3 DEF Init
    <3> QED BY <3>1, <3>2, <3>4 DEF Init, TypeOK
  <2> QED BY <2>1, NoSession DEF Init, IInv, PendingHasJob, IdleIsFinal, Running, NoJob
<1>2. IInv /\ [Next]_vars => IInv'
  BY TypeStep, JobStep, IdleStep DEF IInv
<1> QED BY <1>1, <1>2, PTL DEF Spec

\* No accepted transcription job is ever lost, for any number of sessions: its
\* future is pending only while the job is queued or running.
THEOREM PendingHasJobAlways == Spec => []PendingHasJob
<1>1. IInv => PendingHasJob
  BY DEF IInv
<1> QED BY <1>1, InductiveInvariant, PTL

\* A session that wait_session_idle has reported idle stays so: the condition
\* under which its slot may go to the next client.
THEOREM IdleIsFinalAlways == Spec => []IdleIsFinal
<1>1. IInv => IdleIsFinal
  BY DEF IInv
<1> QED BY <1>1, InductiveInvariant, PTL

-----------------------------------------------------------------------------
(* Who overtakes a waiting final.                                          *)

Counts == overtaken \in [Sessions -> [Sessions -> 0..2]]

\* A session with a larger id that has overtaken s was served last, or one after it,
\* until the order starts again below s.
LaterOnce ==
  \A s, t \in Sessions : s \in queue["final"] /\ t > s /\ overtaken[s][t] # 0 =>
    overtaken[s][t] = 1 /\ (last["final"] >= t \/ last["final"] < s)

\* Once a session with a smaller id has overtaken s, only such ones do. The first is
\* served again only after another.
EarlierInTurn ==
  \A s, t \in Sessions : s \in queue["final"] /\ t < s /\ overtaken[s][t] # 0 =>
    /\ last["final"] < s
    /\ \/ overtaken[s][t] = 1 /\ last["final"] = t
       \/ \E u \in 1..(s - 1) \ {t} : overtaken[s][u] # 0

NotItself == \A s \in Sessions : s \in queue["final"] => overtaken[s][s] = 0

Rotation == LaterOnce /\ EarlierInTurn /\ NotItself

\* Only _next_job begins a job, and only a final moves the place of the finals.
LEMMA OnlyTakesBegin ==
  ASSUME TypeOK, [Next]_vars, \A c \in Classes, t \in Sessions : ~WorkerTakes(c, t)
  PROVE  ~Begins /\ last' = last
<1>1. ASSUME NEW t \in Sessions, NEW c \in Classes, JobEnds(c, t) PROVE active' = NoJob /\ last' = last
  BY <1>1 DEF JobEnds
<1>2. ASSUME WorkerStops PROVE active' = NoJob /\ last' = last
  BY <1>2 DEF WorkerStops
<1>3. ASSUME NEW t \in Sessions,
             SubmitFinal(t) \/ SubmitPartial(t) \/ PartialOutdated(t) \/ DrainBegins(t)
               \/ CancelSession(t) \/ SessionIsIdle(t)
      PROVE  UNCHANGED <<active, last>>
  BY <1>3 DEF SubmitFinal, SubmitPartial, Enqueue, PartialOutdated, DrainBegins, CancelSession,
              SessionIsIdle
<1>4. ASSUME NEW t \in Sessions, NEW c \in Classes, WaiterLeaves(c, t)
      PROVE  UNCHANGED <<active, last>>
  BY <1>4 DEF WaiterLeaves
<1>5. Close \/ UNCHANGED vars => UNCHANGED <<active, last>>
  BY DEF Close, vars
<1> QED BY <1>1, <1>2, <1>3, <1>4, <1>5 DEF Next, Begins

\* Finals come first: a partial begins only when no final is queued.
LEMMA PartialsYield ==
  ASSUME NEW t \in Sessions, WorkerTakes("partial", t) PROVE queue["final"] = {}
  BY DEF WorkerTakes, NextClass

\* Who is next while s waits: below s, the next one or the first; from s on, a later
\* one or one below s.
LEMMA WhoIsNext ==
  ASSUME TypeOK, NEW s \in queue["final"], NEW u \in Sessions, u # s, NextSession("final", u)
  PROVE  /\ u # last["final"]
         /\ u < s \/ (last["final"] >= s /\ u > last["final"])
<1> DEFINE rest == {t \in queue["final"] : last["final"] \in queue["final"] /\ t > last["final"]}
<1>1. /\ queue["final"] \subseteq Sessions /\ last["final"] \in 0..NumSessions
      /\ NumSessions \in Nat
  BY SttAssumption DEF TypeOK, Classes
<1>2. s \in 1..NumSessions /\ u \in 1..NumSessions
  BY <1>1 DEF Sessions
<1>3. u \in queue["final"] /\ IF rest = {} THEN \A t \in queue["final"] : u <= t
                                ELSE u \in rest /\ \A t \in rest : u <= t
  BY DEF NextSession
<1>4. CASE rest = {}
  <2>1. u <= s
    BY <1>3, <1>4
  <2>2. u < s
    BY <1>2, <2>1
  <2>3. ASSUME u = last["final"] PROVE FALSE
    <3>1. s \in rest
      BY <1>3, <2>2, <2>3
    <3> QED BY <1>4, <3>1
  <2> QED BY <2>2, <2>3
<1>5. CASE rest # {}
  <2>1. u > last["final"] /\ last["final"] \in queue["final"]
    BY <1>3, <1>5
  <2>2. CASE last["final"] < s
    <3>1. s \in rest
      BY <2>1, <2>2
    <3>2. u <= s
      BY <1>3, <1>5, <3>1
    <3> QED BY <1>1, <1>2, <2>1, <3>2
  <2>3. CASE last["final"] >= s
    BY <1>1, <1>2, <2>1, <2>3
  <2> QED BY <1>1, <1>2, <2>2, <2>3
<1> QED BY <1>4, <1>5

\* What a final that begins does to the count of a session that goes on waiting.
LEMMA FinalBegins ==
  ASSUME IInv, Counts, HistoryNext, NEW s \in queue'["final"],
         NEW u \in Sessions, WorkerTakes("final", u), s \in Sessions
  PROVE  /\ s \in queue["final"] /\ u # s /\ last'["final"] = u
         /\ NextSession("final", u)
         /\ overtaken'[s] = IF overtaken[s][u] < 2
                            THEN [overtaken[s] EXCEPT ![u] = @ + 1] ELSE overtaken[s]
<1>1. NextSession("final", u) /\ active' = [class |-> "final", session |-> u]
  BY DEF WorkerTakes
<1>2. last'["final"] = u /\ queue'["final"] = queue["final"] \ {u}
  BY DEF WorkerTakes, IInv, TypeOK, Classes
<1>3. active = NoJob
  BY DEF WorkerTakes, IInv
<1>4. Begins /\ active'.session = u
  BY <1>1, <1>3 DEF Begins, NoJob
<1>5. s \in queue["final"] /\ u # s
  BY <1>2
<1>6. overtaken'[s] = Counted(s)
  BY DEF HistoryNext
<1> QED BY <1>1, <1>2, <1>4, <1>5, <1>6 DEF Counted

LEMMA RotationKept == ASSUME IInv, Counts, Rotation, HistoryNext PROVE Rotation'
<1> DEFINE Waits(s) ==
      /\ \A t \in Sessions : t > s /\ overtaken[s][t] # 0 =>
           overtaken[s][t] = 1 /\ (last["final"] >= t \/ last["final"] < s)
      /\ \A t \in Sessions : t < s /\ overtaken[s][t] # 0 =>
           /\ last["final"] < s
           /\ \/ overtaken[s][t] = 1 /\ last["final"] = t
              \/ \E u \in 1..(s - 1) \ {t} : overtaken[s][u] # 0
      /\ overtaken[s][s] = 0
<1>a. Rotation <=> \A s \in Sessions : s \in queue["final"] => Waits(s)
  BY DEF Rotation, LaterOnce, EarlierInTurn, NotItself
<1>b. Rotation' <=> \A s \in Sessions : s \in queue'["final"] => Waits(s)'
  BY DEF Rotation, LaterOnce, EarlierInTurn, NotItself
<1> SUFFICES ASSUME NEW s \in Sessions, s \in queue'["final"] PROVE Waits(s)'
  BY <1>b
<1>1. [Next]_vars /\ overtaken'[s] = Counted(s) /\ TypeOK
  BY DEF HistoryNext, IInv
<1>2. CASE s \notin queue["final"]
  <2>1. overtaken'[s] = NobodyYet
    BY <1>1, <1>2 DEF Counted
  <2>2. \A t \in Sessions : overtaken'[s][t] = 0
    BY <2>1 DEF NobodyYet
  <2> QED BY <2>2
<1>3. CASE s \in queue["final"]
  <2>0. Waits(s)
    BY <1>3, <1>a
  <2>1. CASE \A c \in Classes, u \in Sessions : ~WorkerTakes(c, u)
    <3>1. overtaken'[s] = overtaken[s] /\ last' = last
      BY <1>1, <1>3, <2>1, OnlyTakesBegin DEF Counted
    <3> QED BY <2>0, <3>1
  <2>2. ASSUME NEW u \in Sessions, WorkerTakes("partial", u) PROVE Waits(s)'
    BY <1>3, <2>2, PartialsYield
  <2>3. ASSUME NEW u \in Sessions, WorkerTakes("final", u) PROVE Waits(s)'
    <3>1. /\ u # s /\ last'["final"] = u /\ NextSession("final", u)
          /\ overtaken'[s] = IF overtaken[s][u] < 2
                             THEN [overtaken[s] EXCEPT ![u] = @ + 1] ELSE overtaken[s]
      BY <2>3, FinalBegins
    <3>2. /\ u # last["final"]
          /\ u < s \/ (last["final"] >= s /\ u > last["final"])
      BY <1>1, <1>3, <3>1, WhoIsNext
    <3>3. overtaken[s] \in [Sessions -> 0..2]
      BY DEF Counts
    <3>4. s \in Nat /\ u \in Nat /\ last["final"] \in Nat /\ Sessions \subseteq Nat
      BY <1>1, SttAssumption DEF TypeOK, Classes, Sessions
    <3>5. \A t \in Sessions \ {u} : overtaken'[s][t] = overtaken[s][t]
      BY <3>1, <3>3
    <3>6. overtaken'[s][u] = IF overtaken[s][u] < 2 THEN overtaken[s][u] + 1 ELSE overtaken[s][u]
      BY <3>1, <3>3
    <3>7. 1..(s - 1) \subseteq Sessions
      BY SttAssumption DEF Sessions
    <3>8. CASE u > s
      <4>1. last["final"] >= s /\ u > last["final"]
        BY <3>2, <3>4, <3>8
      <4>2. overtaken[s][u] = 0
        BY <2>0, <3>4, <3>8, <4>1
      <4>3. \A t \in Sessions : t < s => overtaken'[s][t] = 0
        BY <2>0, <3>4, <3>5, <3>8, <4>1
      <4>4. ASSUME NEW t \in Sessions, t > s, overtaken'[s][t] # 0
            PROVE  overtaken'[s][t] = 1 /\ last'["final"] >= t
        <5>1. CASE t = u
          BY <3>1, <3>4, <3>6, <4>2, <5>1
        <5>2. CASE t # u
          BY <2>0, <3>1, <3>4, <3>5, <4>1, <4>4, <5>2
        <5> QED BY <5>1, <5>2
      <4> QED BY <2>0, <3>1, <3>5, <4>3, <4>4
    <3>9. CASE u < s
      <4>1. ASSUME NEW t \in Sessions, t > s, overtaken'[s][t] # 0
            PROVE  overtaken'[s][t] = 1 /\ last'["final"] < s
        <5>1. t # u /\ last'["final"] < s
          BY <3>1, <3>4, <3>9, <4>1
        <5>2. overtaken'[s][t] = overtaken[s][t]
          BY <3>5, <5>1
        <5> QED BY <2>0, <4>1, <5>1, <5>2
      <4>2. ASSUME NEW t \in Sessions, t < s, overtaken'[s][t] # 0, t # u
            PROVE  \E v \in 1..(s - 1) \ {t} : overtaken'[s][v] # 0
        <5>1. u \in 1..(s - 1) \ {t}
          BY <3>4, <3>9, <4>2, SttAssumption DEF Sessions
        <5>2. overtaken[s][u] \in 0..2
          BY <3>3
        <5>3. overtaken'[s][u] # 0
          BY <3>6, <5>2
        <5> QED BY <5>1, <5>3
      <4>3. \/ overtaken'[s][u] = 1 /\ last'["final"] = u
            \/ \E v \in 1..(s - 1) \ {u} : overtaken'[s][v] # 0
        <5>1. CASE overtaken[s][u] = 0
          BY <3>1, <3>6, <5>1
        <5>2. CASE overtaken[s][u] # 0
          <6>1. PICK v \in 1..(s - 1) \ {u} : overtaken[s][v] # 0
            BY <2>0, <3>2, <3>9, <5>2
          <6>2. overtaken'[s][v] # 0
            BY <3>5, <3>7, <6>1
          <6> QED BY <6>1, <6>2
        <5> QED BY <5>1, <5>2
      <4> QED BY <2>0, <3>1, <3>5, <3>9, <4>1, <4>2, <4>3
    <3> QED BY <3>1, <3>4, <3>8, <3>9
  <2> QED BY <2>1, <2>2, <2>3 DEF Classes
<1> QED BY <1>2, <1>3

\* What the round-robin is, for any number of sessions and any size of the queue: a
\* waiting final is overtaken twice by the same session only if two sessions with
\* smaller ids overtake it, and by no partial at all (_next_job, _next_session).
THEOREM OvertakenByEarlierOnlyAlways == HistorySpec => []OvertakenByEarlierOnly
<1>1. HistorySpec => Spec
  <2>1. [HistoryNext]_<<vars, overtaken>> => [Next]_vars
    BY DEF HistoryNext
  <2> QED BY <2>1, PTL DEF HistorySpec, HistoryInit, Spec
<1>2. HistoryInit => Counts /\ Rotation
  BY DEF HistoryInit, Init, Classes, NobodyYet, Counts, Rotation, LaterOnce, EarlierInTurn, NotItself
<1>3. TypeOK' /\ Counts /\ [HistoryNext]_<<vars, overtaken>> => Counts'
  <2>1. ASSUME TypeOK', Counts, HistoryNext PROVE Counts'
    <3>1. ASSUME NEW s \in Sessions PROVE Counted(s) \in [Sessions -> 0..2]
      <4>1. overtaken[s] \in [Sessions -> 0..2]
        BY <2>1 DEF Counts
      <4>2. Begins => active'.session \in Sessions
        BY <2>1 DEF TypeOK, Begins
      <4>3. NobodyYet \in [Sessions -> 0..2]
        BY DEF NobodyYet
      <4> QED BY <4>1, <4>2, <4>3 DEF Counted
    <3> QED BY <2>1, <3>1 DEF HistoryNext, Counts
  <2> QED BY <2>1 DEF Counts
<1>4. IInv /\ Counts /\ Rotation /\ [HistoryNext]_<<vars, overtaken>> => Rotation'
  <2>1. ASSUME Rotation, UNCHANGED <<vars, overtaken>> PROVE Rotation'
    BY <2>1 DEF Rotation, LaterOnce, EarlierInTurn, NotItself, vars
  <2> QED BY <2>1, RotationKept
<1>5. TypeOK /\ Counts /\ Rotation => OvertakenByEarlierOnly
  <2> SUFFICES ASSUME TypeOK, Counts, Rotation, NEW s \in Sessions, NEW t \in Sessions,
                      s \in queue["final"], overtaken[s][t] = 2
               PROVE  t < s /\ \E u \in 1..(s - 1) \ {t} : overtaken[s][u] > 0
    BY DEF OvertakenByEarlierOnly
  <2>1. s \in Nat /\ t \in Nat
    BY DEF Sessions
  <2>2. t < s
    BY <2>1 DEF Rotation, NotItself, LaterOnce
  <2>3. PICK u \in 1..(s - 1) \ {t} : overtaken[s][u] # 0
    BY <2>2 DEF Rotation, EarlierInTurn
  <2>4. u \in Sessions
    BY <2>3, SttAssumption DEF Sessions
  <2>5. overtaken[s][u] \in 0..2
    BY <2>4 DEF Counts
  <2> QED BY <2>2, <2>3, <2>5
<1>6. IInv => TypeOK
  BY DEF IInv
<1> QED BY <1>1, <1>2, <1>3, <1>4, <1>5, <1>6, InductiveInvariant, PTL DEF HistorySpec
=============================================================================
