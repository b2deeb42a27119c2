---------------------------- MODULE ServiceProofs ----------------------------
(***************************************************************************)
(* Proofs about Sessions, Lifecycle and their composition ServiceProcess,  *)
(* for every set of connections and number of slots, with and without the  *)
(* turn model.                                                             *)
(***************************************************************************)
EXTENDS ServiceProcess, TLAPS

\* Every step of every handler, release task and of the shutdown keeps the
\* types (the bounds of TypeOK) of all records.
LEMMA TypeStep == TypeOK /\ [Next]_vars => TypeOK'
<1> SUFFICES ASSUME TypeOK, [Next]_vars PROVE TypeOK'
  OBVIOUS
<1> USE SlotAssumption DEF TypeOK, Slots, HandlerPCs, ReleasePCs, ServicePCs, CloseCodes, Lifecycles
<1>1. ASSUME NEW c \in Conns, HandlerStep(c) PROVE TypeOK'
  <2>1. CASE Arrive(c)
    BY <2>1 DEF Arrive, slotVars, sessVars, svcVars
  <2>2. CASE Reject(c)
    BY <2>2 DEF Reject, slotVars, sessVars, svcVars
  <2>3. CASE Refuse(c)
    BY <2>3 DEF Refuse, slotVars, sessVars, svcVars
  <2>4. CASE VadFactoryFails(c)
    BY <2>4 DEF VadFactoryFails, slotVars, sessVars, svcVars
  <2>5. CASE Admit(c)
    BY <2>5 DEF Admit, FirstIdle, svcVars
  <2>6. CASE BeginEvent(c) \/ EndEvent(c)
    <3>1. CASE BeginEvent(c)
      BY <3>1 DEF BeginEvent, connVars, slotVars, svcVars
    <3>2. CASE EndEvent(c)
      BY <3>2 DEF EndEvent, connVars, slotVars, svcVars
    <3> QED BY <2>6, <3>1, <3>2
  <2>7. CASE SubmitWork(c)
    BY <2>7 DEF SubmitWork, connVars, slotVars, svcVars
  <2>13. CASE WorkDone(c)
    BY <2>13 DEF WorkDone, connVars, slotVars, svcVars
  <2>8. CASE ServeEnds(c)
    BY <2>8 DEF ServeEnds, CallRelease, BeginClose, connVars, slotVars, svcVars
  <2>9. CASE ServeFails(c)
    BY <2>9 DEF ServeFails, CallRelease, BeginClose, connVars, slotVars, svcVars
  <2>10. CASE FailedServeReleases(c)
    BY <2>10 DEF FailedServeReleases, CallRelease, connVars, slotVars, svcVars
  <2>11. CASE TransportClosed(c)
    BY <2>11 DEF TransportClosed, slotVars, sessVars, svcVars
  <2>12. CASE HandlerReleased(c) \/ HandlerDone(c)
    BY <2>12 DEF HandlerReleased, HandlerDone, BeginClose, slotVars, sessVars, svcVars
  <2> QED BY <1>1, <2>1, <2>2, <2>3, <2>4, <2>5, <2>6, <2>7, <2>8, <2>9, <2>10, <2>11, <2>12, <2>13 DEF HandlerStep
<1>2. ASSUME NEW c \in Conns, ReleaseStep(c) PROVE TypeOK'
  <2>1. CASE ReleaseBegins(c)
    BY <2>1 DEF ReleaseBegins, connVars, svcVars
  <2>2. CASE ReleaseDrained(c)
    BY <2>2 DEF ReleaseDrained, connVars, svcVars
  <2>3. CASE ReleaseStuck(c)
    BY <2>3 DEF ReleaseStuck, connVars, svcVars
  <2> QED BY <1>2, <2>1, <2>2, <2>3 DEF ReleaseStep
<1>3. CASE ServiceStep
  <2>1. CASE StartupCompletes \/ LlamaExits \/ ServiceDrains
    BY <2>1 DEF StartupCompletes, LlamaExits, ServiceDrains, connVars, slotVars, sessVars
  <2>2. CASE ConnectionsDrained \/ DeadlinePasses
    BY <2>2 DEF ConnectionsDrained, DeadlinePasses, connVars, slotVars, sessVars
  <2>3. CASE DeadlineLoopEnds
    BY <2>3 DEF DeadlineLoopEnds, connVars, slotVars, sessVars
  <2>4. CASE DeadlineReleased \/ SchedulersClose
    BY <2>4 DEF DeadlineReleased, SchedulersClose, connVars, slotVars, sessVars
  <2>5. ASSUME NEW c \in Conns, DeadlineClose(c) PROVE TypeOK'
    <3>1. CASE lifecycle[c] = "active"
      <4>1. /\ transport' = [transport EXCEPT ![c] = IF @ = "open" THEN "closing" ELSE @]
            /\ closeCode' = [closeCode EXCEPT ![c] = IF transport[c] = "open" THEN "1012" ELSE @]
        BY <2>5, <3>1 DEF DeadlineClose, BeginClose
      <4>2. toVisit' \subseteq toVisit
        BY <2>5 DEF DeadlineClose
      <4>3. UNCHANGED <<handler, slotVars, sessVars, capDraining, service, deadline, lifeReady, schedulers>>
        BY <2>5 DEF DeadlineClose
      <4> QED BY <4>1, <4>2, <4>3 DEF slotVars, sessVars
    <3>2. CASE lifecycle[c] # "active"
      BY <2>5, <3>2 DEF DeadlineClose, slotVars, sessVars
    <3> QED BY <3>1, <3>2
  <2>6. ASSUME NEW c \in Conns, DeadlineRelease(c) PROVE TypeOK'
    BY <2>6 DEF DeadlineRelease, CallRelease, connVars, slotVars
  <2> QED BY <1>3, <2>1, <2>2, <2>3, <2>4, <2>5, <2>6 DEF ServiceStep, DrainStep
<1>4. CASE UNCHANGED vars
  BY <1>4 DEF vars, connVars, slotVars, sessVars, svcVars
<1> QED BY <1>1, <1>2, <1>3, <1>4 DEF Next

\* Everything a step can do to one connection's records is confined to that
\* connection and to the slot it owns.
LEMMA SlotsAgreeStep ==
  TypeOK /\ SlotsAgree /\ ReleaseFollowsLifecycle /\ SessionFollowsHandler /\ [Next]_vars
    => SlotsAgree'
<1> SUFFICES ASSUME TypeOK, SlotsAgree, ReleaseFollowsLifecycle, SessionFollowsHandler, [Next]_vars
             PROVE SlotsAgree'
  OBVIOUS
<1> USE NoneAssumption DEF TypeOK, SlotsAgree, Slots, Lifecycles
<1>1. CASE UNCHANGED <<slotState, slotOwner, slotOf, lifecycle>>
  BY <1>1
<1>2. ASSUME NEW c \in Conns, Admit(c) PROVE SlotsAgree'
  BY <1>2 DEF Admit, FirstIdle, SessionFollowsHandler
<1>3. ASSUME NEW c \in Conns, ReleaseBegins(c) PROVE SlotsAgree'
  BY <1>3 DEF ReleaseBegins, ReleaseFollowsLifecycle
<1>4. ASSUME NEW c \in Conns, ReleaseDrained(c) PROVE SlotsAgree'
  BY <1>4 DEF ReleaseDrained, ReleaseFollowsLifecycle
<1>5. ASSUME NEW c \in Conns, ReleaseStuck(c) PROVE SlotsAgree'
  BY <1>5 DEF ReleaseStuck, ReleaseFollowsLifecycle
<1>6. ASSUME NEW c \in Conns, HandlerStep(c), ~Admit(c)
      PROVE UNCHANGED <<slotState, slotOwner, slotOf, lifecycle>>
  BY <1>6 DEF HandlerStep, Arrive, Reject, Refuse, VadFactoryFails, BeginEvent, EndEvent, SubmitWork,
     WorkDone, ServeEnds, ServeFails, FailedServeReleases, TransportClosed, HandlerReleased, HandlerDone,
     slotVars, sessVars
<1>7. CASE ServiceStep
  BY <1>1, <1>7 DEF ServiceStep, DrainStep, StartupCompletes, LlamaExits, ServiceDrains, ConnectionsDrained, DeadlinePasses,
     DeadlineClose, DeadlineRelease, DeadlineLoopEnds, DeadlineReleased, SchedulersClose, slotVars, sessVars
<1> QED
  BY <1>1, <1>2, <1>3, <1>4, <1>5, <1>6, <1>7 DEF Next, ReleaseStep, vars, slotVars, sessVars

\* A step keeps release tasks, registration and handlers in accord with the
\* lifecycle of each session (realtime.py, sessions.py).
LEMMA SessionStep ==
  IInv /\ [Next]_vars => ReleaseFollowsLifecycle' /\ SessionFollowsHandler'
<1> SUFFICES ASSUME IInv, [Next]_vars
             PROVE ReleaseFollowsLifecycle' /\ SessionFollowsHandler'
  OBVIOUS
<1> USE NoneAssumption DEF IInv, TypeOK, ReleaseFollowsLifecycle, SessionFollowsHandler, Slots
<1>1. ASSUME NEW c \in Conns, HandlerStep(c)
      PROVE ReleaseFollowsLifecycle' /\ SessionFollowsHandler'
  <2>1. CASE Arrive(c) \/ Reject(c) \/ Refuse(c) \/ VadFactoryFails(c)
    BY <2>1 DEF Arrive, Reject, Refuse, VadFactoryFails, slotVars, sessVars, svcVars
  <2>2. CASE Admit(c)
    BY <2>2 DEF Admit, FirstIdle, svcVars
  <2>3. CASE BeginEvent(c) \/ EndEvent(c) \/ SubmitWork(c) \/ WorkDone(c)
    BY <2>3 DEF BeginEvent, EndEvent, SubmitWork, WorkDone, connVars, slotVars, svcVars
  <2>4. CASE ServeEnds(c) \/ ServeFails(c) \/ FailedServeReleases(c)
    BY <2>4 DEF ServeEnds, ServeFails, FailedServeReleases, CallRelease, Settled, ServingIsActiveOrClosed,
       Lifecycles, connVars, slotVars, svcVars
  <2>5. CASE TransportClosed(c) \/ HandlerReleased(c) \/ HandlerDone(c)
    BY <2>5 DEF TransportClosed, HandlerReleased, HandlerDone, slotVars, sessVars, svcVars
  <2> QED BY <1>1, <2>1, <2>2, <2>3, <2>4, <2>5 DEF HandlerStep
<1>2. ASSUME NEW c \in Conns, ReleaseStep(c)
      PROVE ReleaseFollowsLifecycle' /\ SessionFollowsHandler'
  <2>1. CASE ReleaseBegins(c)
    BY <2>1 DEF ReleaseBegins, connVars, slotVars, svcVars
  <2>2. CASE ReleaseDrained(c)
    BY <2>2 DEF ReleaseDrained, connVars, slotVars, svcVars
  <2>3. CASE ReleaseStuck(c)
    BY <2>3 DEF ReleaseStuck, connVars, slotVars, svcVars
  <2> QED BY <1>2, <2>1, <2>2, <2>3 DEF ReleaseStep
<1>3. CASE ServiceStep
  <2>1. CASE ~\E c \in Conns : DeadlineRelease(c)
    BY <1>3, <2>1 DEF ServiceStep, DrainStep, StartupCompletes, LlamaExits, ServiceDrains, ConnectionsDrained, DeadlinePasses,
       DeadlineClose, DeadlineLoopEnds, DeadlineReleased, SchedulersClose, connVars, slotVars, sessVars
  <2>2. ASSUME NEW c \in Conns, DeadlineRelease(c)
        PROVE ReleaseFollowsLifecycle' /\ SessionFollowsHandler'
    BY <2>2 DEF DeadlineRelease, CallRelease, Settled, ShutdownProgress, Lifecycles, connVars, slotVars
  <2> QED BY <2>1, <2>2
<1>4. CASE UNCHANGED vars
  BY <1>4 DEF vars, connVars, slotVars, sessVars, svcVars
<1> QED BY <1>1, <1>2, <1>3, <1>4 DEF Next

\* A step never gives back a slot whose session still has scheduler work, nor
\* gives work to a session without a slot.
LEMMA QuiescenceStep == IInv /\ [Next]_vars => ReuseIsQuiescent'
<1> SUFFICES ASSUME IInv, [Next]_vars PROVE ReuseIsQuiescent'
  OBVIOUS
<1> USE NoneAssumption DEF IInv, TypeOK, SlotsAgree, ReuseIsQuiescent, Slots
<1>1. CASE UNCHANGED <<slotState, slotOwner, slotOf, busy>>
  BY <1>1
<1>2. ASSUME NEW c \in Conns, Admit(c) PROVE ReuseIsQuiescent'
  BY <1>2 DEF Admit, FirstIdle, SessionFollowsHandler
<1>3. ASSUME NEW c \in Conns, SubmitWork(c) PROVE ReuseIsQuiescent'
  <2>1. lifecycle[c] \in {"active", "draining", "stuck"}
    BY <1>3 DEF SubmitWork, Settled, SessionFollowsHandler, ServingIsActiveOrClosed, Lifecycles
  <2> QED BY <1>3, <2>1 DEF SubmitWork, slotVars
<1>4. ASSUME NEW c \in Conns, WorkDone(c) PROVE ReuseIsQuiescent'
  BY <1>4 DEF WorkDone, slotVars
<1>5. ASSUME NEW c \in Conns, ReleaseBegins(c) PROVE ReuseIsQuiescent'
  BY <1>5 DEF ReleaseBegins
<1>6. ASSUME NEW c \in Conns, ReleaseDrained(c) PROVE ReuseIsQuiescent'
  BY <1>6 DEF ReleaseDrained, ReleaseFollowsLifecycle
<1>7. ASSUME NEW c \in Conns, ReleaseStuck(c) PROVE ReuseIsQuiescent'
  BY <1>7 DEF ReleaseStuck
<1>8. ASSUME NEW c \in Conns, HandlerStep(c), ~Admit(c), ~SubmitWork(c), ~WorkDone(c)
      PROVE UNCHANGED <<slotState, slotOwner, slotOf, busy>>
  BY <1>8 DEF HandlerStep, Arrive, Reject, Refuse, VadFactoryFails, BeginEvent, EndEvent,
     ServeEnds, ServeFails, FailedServeReleases, TransportClosed, HandlerReleased, HandlerDone,
     slotVars, sessVars
<1>9. CASE ServiceStep
  BY <1>1, <1>9 DEF ServiceStep, DrainStep, StartupCompletes, LlamaExits, ServiceDrains, ConnectionsDrained, DeadlinePasses,
     DeadlineClose, DeadlineRelease, DeadlineLoopEnds, DeadlineReleased, SchedulersClose, slotVars, sessVars
<1> QED
  BY <1>1, <1>2, <1>3, <1>4, <1>5, <1>6, <1>7, <1>8, <1>9 DEF Next, ReleaseStep, vars, slotVars, sessVars

\* A step releases a session under its running consumer only once the shutdown
\* has closed its transport.
LEMMA ServingStep == IInv /\ [Next]_vars => ServingIsActiveOrClosed'
<1> SUFFICES ASSUME IInv, [Next]_vars PROVE ServingIsActiveOrClosed'
  OBVIOUS
<1> USE DEF IInv, TypeOK, ServingIsActiveOrClosed
<1>1. ASSUME NEW c \in Conns, HandlerStep(c) PROVE ServingIsActiveOrClosed'
  <2>1. CASE Arrive(c) \/ Reject(c) \/ Refuse(c) \/ VadFactoryFails(c)
    BY <2>1 DEF Arrive, Reject, Refuse, VadFactoryFails, slotVars, sessVars, svcVars
  <2>2. CASE Admit(c)
    BY <2>2 DEF Admit, svcVars, ReleaseFollowsLifecycle, SessionFollowsHandler, ReleasePCs
  <2>3. CASE BeginEvent(c) \/ EndEvent(c) \/ SubmitWork(c) \/ WorkDone(c)
    BY <2>3 DEF BeginEvent, EndEvent, SubmitWork, WorkDone, connVars, slotVars, svcVars
  <2>4. CASE ServeEnds(c) \/ ServeFails(c) \/ FailedServeReleases(c)
    BY <2>4 DEF ServeEnds, ServeFails, FailedServeReleases, CallRelease, BeginClose, connVars, slotVars, svcVars
  <2>5. CASE TransportClosed(c) \/ HandlerReleased(c) \/ HandlerDone(c)
    BY <2>5 DEF TransportClosed, HandlerReleased, HandlerDone, BeginClose, slotVars, sessVars, svcVars
  <2> QED BY <1>1, <2>1, <2>2, <2>3, <2>4, <2>5 DEF HandlerStep
<1>2. ASSUME NEW c \in Conns, ReleaseStep(c) PROVE ServingIsActiveOrClosed'
  <2>1. releaseTask[c] # "none"
    BY <1>2 DEF ReleaseStep, ReleaseBegins, ReleaseDrained, ReleaseStuck
  <2>2. /\ UNCHANGED <<handler, transport, inEvent>>
        /\ \A d \in Conns \ {c} : lifecycle'[d] = lifecycle[d] /\ releaseTask'[d] = releaseTask[d]
    BY <1>2 DEF ReleaseStep, ReleaseBegins, ReleaseDrained, ReleaseStuck, connVars
  <2> QED BY <2>1, <2>2
<1>3. CASE ServiceStep
  <2>1. CASE \E c \in Conns : DeadlineClose(c)
    BY <2>1 DEF DeadlineClose, BeginClose, sessVars
  <2>2. ASSUME NEW c \in Conns, DeadlineRelease(c) PROVE ServingIsActiveOrClosed'
    BY <2>2 DEF DeadlineRelease, CallRelease, ShutdownProgress, connVars
  <2>3. CASE \A c \in Conns : ~DeadlineClose(c) /\ ~DeadlineRelease(c)
    BY <1>3, <2>3 DEF ServiceStep, DrainStep, StartupCompletes, LlamaExits, ServiceDrains, ConnectionsDrained, DeadlinePasses,
       DeadlineLoopEnds, DeadlineReleased, SchedulersClose, connVars, sessVars
  <2> QED BY <2>1, <2>2, <2>3
<1>4. CASE UNCHANGED vars
  BY <1>4 DEF vars, connVars, sessVars
<1> QED BY <1>1, <1>2, <1>3, <1>4 DEF Next

\* A step keeps what RealtimeService.aclose relies on at each of its awaits.
LEMMA ShutdownStep == IInv /\ [Next]_vars => ShutdownProgress'
<1> SUFFICES ASSUME IInv, [Next]_vars PROVE ShutdownProgress'
  OBVIOUS
<1> USE DEF IInv, TypeOK, ShutdownProgress, ServicePCs, Settled
<1>1. ASSUME NEW c \in Conns, HandlerStep(c) PROVE ShutdownProgress'
  <2>1. CASE Arrive(c) \/ Reject(c) \/ Refuse(c) \/ VadFactoryFails(c)
    BY <2>1 DEF Arrive, Reject, Refuse, VadFactoryFails, slotVars, sessVars, svcVars
  <2>2. CASE Admit(c)
    BY <2>2 DEF Admit, svcVars, SessionFollowsHandler
  <2>3. CASE BeginEvent(c) \/ EndEvent(c) \/ SubmitWork(c) \/ WorkDone(c)
    BY <2>3 DEF BeginEvent, EndEvent, SubmitWork, WorkDone, connVars, slotVars, svcVars
  <2>4. CASE ServeEnds(c) \/ ServeFails(c) \/ FailedServeReleases(c)
    BY <2>4 DEF ServeEnds, ServeFails, FailedServeReleases, CallRelease, BeginClose, connVars, slotVars,
       svcVars, ReleasePCs
  <2>5. CASE TransportClosed(c) \/ HandlerReleased(c) \/ HandlerDone(c)
    BY <2>5 DEF TransportClosed, HandlerReleased, HandlerDone, BeginClose, slotVars, sessVars, svcVars
  <2> QED BY <1>1, <2>1, <2>2, <2>3, <2>4, <2>5 DEF HandlerStep
<1>2. ASSUME NEW c \in Conns, ReleaseStep(c) PROVE ShutdownProgress'
  <2>1. lifecycle[c] \in {"active", "draining"}
    BY <1>2 DEF ReleaseStep, ReleaseBegins, ReleaseDrained, ReleaseStuck, ReleaseFollowsLifecycle
  <2>2. /\ UNCHANGED <<connVars, svcVars>>
        /\ \A d \in Conns \ {c} : lifecycle'[d] = lifecycle[d] /\ releaseTask'[d] = releaseTask[d]
        /\ \/ lifecycle'[c] = "draining" /\ releaseTask'[c] = "draining"
           \/ lifecycle'[c] \in {"stuck", "closed"}
    BY <1>2 DEF ReleaseStep, ReleaseBegins, ReleaseDrained, ReleaseStuck
  <2> QED BY <2>1, <2>2 DEF connVars, svcVars
<1>3. CASE ServiceStep
  <2>1. CASE StartupCompletes \/ LlamaExits \/ ServiceDrains \/ DeadlinePasses \/ ConnectionsDrained
    BY <2>1 DEF StartupCompletes, LlamaExits, ServiceDrains, DeadlinePasses, ConnectionsDrained, SessionFollowsHandler,
       Lifecycles, connVars, slotVars, sessVars
  <2>2. CASE DeadlineLoopEnds
    BY <2>2 DEF DeadlineLoopEnds, connVars, sessVars
  <2>3. CASE DeadlineReleased
    BY <2>3 DEF DeadlineReleased, ReleasesOver, Lifecycles, ReleaseFollowsLifecycle, connVars, sessVars
  <2>4. CASE SchedulersClose
    BY <2>4 DEF SchedulersClose, connVars, sessVars
  <2>5. ASSUME NEW c \in Conns, DeadlineClose(c) PROVE ShutdownProgress'
    BY <2>5 DEF DeadlineClose, BeginClose, sessVars, ServingIsActiveOrClosed
  <2>6. ASSUME NEW c \in Conns, DeadlineRelease(c) PROVE ShutdownProgress'
    BY <2>6 DEF DeadlineRelease, CallRelease, connVars, ReleasePCs
  <2> QED BY <1>3, <2>1, <2>2, <2>3, <2>4, <2>5, <2>6 DEF ServiceStep, DrainStep
<1>4. CASE UNCHANGED vars
  BY <1>4 DEF vars, connVars, sessVars, svcVars
<1> QED BY <1>1, <1>2, <1>3, <1>4 DEF Next

\* Nobody has come yet.
LEMMA IInvInit == Init => IInv
<1> SUFFICES ASSUME Init PROVE IInv
  OBVIOUS
<1> USE DEF Init
<1>1. TypeOK
  BY DEF TypeOK, HandlerPCs, ReleasePCs, ServicePCs, CloseCodes, Lifecycles
<1>2. SlotsAgree /\ ReuseIsQuiescent
  BY DEF SlotsAgree, ReuseIsQuiescent
<1>3. ReleaseFollowsLifecycle /\ SessionFollowsHandler
  BY DEF ReleaseFollowsLifecycle, SessionFollowsHandler
<1>4. ServingIsActiveOrClosed /\ ShutdownProgress
  BY DEF ServingIsActiveOrClosed, ShutdownProgress
<1> QED BY <1>1, <1>2, <1>3, <1>4 DEF IInv

\* Together, a step keeps the whole invariant.
LEMMA IInvStep == IInv /\ [Next]_vars => IInv'
BY TypeStep, SlotsAgreeStep, SessionStep, QuiescenceStep, ServingStep, ShutdownStep DEF IInv

-----------------------------------------------------------------------------
\* The inductive invariant holds in every behaviour of the service.
THEOREM InductiveInvariant == Spec => []IInv
BY IInvInit, IInvStep, PTL DEF Spec

\* Type correctness of the admission and shutdown state.
THEOREM TypeCorrect == Spec => []TypeOK
<1>1. IInv => TypeOK
  BY DEF IInv
<1> QED BY <1>1, InductiveInvariant, PTL

\* Slot and session records never disagree, for any number of connections and
\* slots: no slot is shared, lost or handed out twice.
THEOREM SlotsAgreeAlways == Spec => []SlotsAgree
<1>1. IInv => SlotsAgree
  BY DEF IInv
<1> QED BY <1>1, InductiveInvariant, PTL

\* No slot returns to idle while the schedulers still hold its session's work.
THEOREM ReuseIsQuiescentAlways == Spec => []ReuseIsQuiescent
<1>1. IInv => ReuseIsQuiescent
  BY DEF IInv
<1> QED BY <1>1, InductiveInvariant, PTL

\* The shutdown closes the shared schedulers under no unsettled session.
THEOREM SchedulersOutliveSessionsAlways == Spec => []SchedulersOutliveSessions
<1>1. IInv => SchedulersOutliveSessions
  <2> SUFFICES ASSUME IInv, schedulers = "closed", NEW c \in Conns
               PROVE /\ lifecycle[c] \in {"none", "stuck", "closed"}
                     /\ busy[c] => lifecycle[c] = "stuck"
    BY DEF SchedulersOutliveSessions
  <2>1. lifecycle[c] \in {"none", "stuck", "closed"}
    BY DEF IInv, ShutdownProgress
  <2>2. ASSUME busy[c] PROVE lifecycle[c] = "stuck"
    <3>1. slotOf[c] \in Slots /\ slotOwner[slotOf[c]] = c
      BY <2>2 DEF IInv, TypeOK, ReuseIsQuiescent
    <3>2. lifecycle[c] = slotState[slotOf[c]]
      BY <3>1, NoneAssumption DEF IInv, SlotsAgree
    <3> QED BY <2>1, <3>1, <3>2 DEF IInv, TypeOK
  <2> QED BY <2>1, <2>2
<1> QED BY <1>1, InductiveInvariant, PTL

\* Quarantine is final: no step of any handler, release task or shutdown takes
\* a slot out of the stuck state or away from its session.
THEOREM QuarantineIsFinalAlways == Spec => QuarantineIsFinal
<1>1. IInv /\ [Next]_vars =>
        [\A s \in Slots : slotState[s] = "stuck" =>
           slotState'[s] = "stuck" /\ slotOwner'[s] = slotOwner[s]]_vars
  <2> SUFFICES ASSUME IInv, Next, NEW s \in Slots, slotState[s] = "stuck"
               PROVE slotState'[s] = "stuck" /\ slotOwner'[s] = slotOwner[s]
    OBVIOUS
  <2> USE DEF IInv, TypeOK
  <2>1. CASE UNCHANGED <<slotState, slotOwner>>
    BY <2>1
  <2>2. ASSUME NEW c \in Conns, Admit(c)
        PROVE slotState'[s] = "stuck" /\ slotOwner'[s] = slotOwner[s]
    BY <2>2 DEF Admit, FirstIdle
  <2>3. ASSUME NEW c \in Conns, ReleaseStep(c)
        PROVE slotState'[s] = "stuck" /\ slotOwner'[s] = slotOwner[s]
    <3>1. lifecycle[c] \in {"active", "draining"} /\ slotState[slotOf[c]] = lifecycle[c]
      BY <2>3, NoneAssumption DEF ReleaseStep, ReleaseBegins, ReleaseDrained, ReleaseStuck,
         ReleaseFollowsLifecycle, SlotsAgree
    <3> QED BY <2>3, <3>1 DEF ReleaseStep, ReleaseBegins, ReleaseDrained, ReleaseStuck
  <2>4. ASSUME NEW c \in Conns, HandlerStep(c), ~Admit(c)
        PROVE UNCHANGED <<slotState, slotOwner>>
    BY <2>4 DEF HandlerStep, Arrive, Reject, Refuse, VadFactoryFails, BeginEvent, EndEvent, SubmitWork,
       WorkDone, ServeEnds, ServeFails, FailedServeReleases, TransportClosed, HandlerReleased,
       HandlerDone, slotVars
  <2>5. CASE ServiceStep
    BY <2>1, <2>5 DEF ServiceStep, DrainStep, StartupCompletes, LlamaExits, ServiceDrains, ConnectionsDrained, DeadlinePasses,
       DeadlineClose, DeadlineRelease, DeadlineLoopEnds, DeadlineReleased, SchedulersClose, slotVars
  <2> QED BY <2>1, <2>2, <2>3, <2>4, <2>5 DEF Next
<1> QED BY <1>1, InductiveInvariant, PTL DEF Spec, QuarantineIsFinal

\* A settled session is never released again, whoever asks for it.
THEOREM ReleasedOnceAlways == Spec => ReleasedOnce
<1>1. IInv /\ IInv' /\ [Next]_vars =>
        [\A c \in Conns : Settled(c) =>
           /\ lifecycle'[c] = lifecycle[c]
           /\ releaseTask'[c] = "none"]_vars
  <2> SUFFICES ASSUME IInv, IInv', Next, NEW c \in Conns, Settled(c)
               PROVE lifecycle'[c] = lifecycle[c] /\ releaseTask'[c] = "none"
    OBVIOUS
  <2> USE DEF IInv, TypeOK, Settled
  <2>1. releaseTask[c] = "none" /\ handler[c] \notin {"away", "accepting"}
    BY DEF ReleaseFollowsLifecycle, SessionFollowsHandler, ReleasePCs
  <2>2. lifecycle'[c] = lifecycle[c]
    <3>1. ASSUME NEW d \in Conns, ReleaseStep(d) PROVE lifecycle'[c] = lifecycle[c]
      BY <2>1, <3>1 DEF ReleaseStep, ReleaseBegins, ReleaseDrained, ReleaseStuck
    <3>2. ASSUME NEW d \in Conns, HandlerStep(d) PROVE lifecycle'[c] = lifecycle[c]
      BY <2>1, <3>2 DEF HandlerStep, Arrive, Reject, Admit, Refuse, VadFactoryFails, BeginEvent, EndEvent,
         SubmitWork, WorkDone, ServeEnds, ServeFails, FailedServeReleases, TransportClosed,
         HandlerReleased, HandlerDone, sessVars
    <3>3. CASE ServiceStep
      BY <3>3 DEF ServiceStep, DrainStep, StartupCompletes, LlamaExits, ServiceDrains, ConnectionsDrained, DeadlinePasses,
         DeadlineClose, DeadlineRelease, DeadlineLoopEnds, DeadlineReleased, SchedulersClose, sessVars
    <3> QED BY <3>1, <3>2, <3>3 DEF Next
  <2> QED BY <2>2 DEF ReleaseFollowsLifecycle, ReleasePCs
<1> QED BY <1>1, InductiveInvariant, PTL DEF Spec, ReleasedOnce

-----------------------------------------------------------------------------
(* The service implements the abstract pool of slots.                      *)

\* A step that leaves every record of the pool alone is a stutter of the pool.
LEMMA PoolStutters ==
  UNCHANGED <<slotState, slotOwner, slotOf, busy, capDraining, schedulers>> => UNCHANGED Pool!vars
BY DEF Pool!vars

\* The handshake, the events of a session, its scheduler work and the end of
\* its handler are a claim, the begin or the end of work, or nothing.
LEMMA HandlerMaps ==
  ASSUME NEW c \in Conns, IInv, IInv', HandlerStep(c)
  PROVE  Pool!Next \/ UNCHANGED Pool!vars
<1> USE NoneAssumption DEF IInv, TypeOK
<1>1. CASE Admit(c)
  <2> PICK s \in Slots :
        /\ FirstIdle(s)
        /\ slotState' = [slotState EXCEPT ![s] = "active"]
        /\ slotOwner' = [slotOwner EXCEPT ![s] = c]
        /\ slotOf' = [slotOf EXCEPT ![c] = s]
    BY <1>1 DEF Admit
  <2>1. slotOf[c] = None /\ slotOwner[s] = None
    BY <1>1 DEF Admit, FirstIdle, SessionFollowsHandler, SlotsAgree
  <2>2. {d \in Conns : slotOf'[d] # None} = {d \in Conns : slotOf[d] # None} \cup {c}
    BY DEF Slots
  <2>3. {t \in Slots : slotState'[t] = "stuck"} = {t \in Slots : slotState[t] = "stuck"}
    BY DEF FirstIdle
  <2>4. Pool!Claim(c, s)
    BY <1>1, <2>1, <2>2, <2>3 DEF Admit, Pool!Claim, svcVars
  <2> QED BY <2>4 DEF Pool!Next
<1>2. CASE SubmitWork(c)
  <2>1. slotOf[c] \in Slots /\ slotOwner[slotOf[c]] = c
    BY <1>2 DEF SubmitWork, ReuseIsQuiescent, slotVars, sessVars
  <2>2. {d \in Conns : busy'[d]} = {d \in Conns : busy[d]} \cup {c}
    BY <1>2 DEF SubmitWork
  <2>3. Pool!WorkBegins(c)
    BY <1>2, <2>1, <2>2 DEF SubmitWork, Pool!WorkBegins, slotVars, svcVars
  <2> QED BY <2>3 DEF Pool!Next
<1>3. CASE WorkDone(c)
  <2>1. {d \in Conns : busy'[d]} = {d \in Conns : busy[d]} \ {c}
    BY <1>3 DEF WorkDone
  <2>2. Pool!WorkEnds(c)
    BY <1>3, <2>1 DEF WorkDone, Pool!WorkEnds, slotVars, svcVars
  <2> QED BY <2>2 DEF Pool!Next
<1>4. CASE ~Admit(c) /\ ~SubmitWork(c) /\ ~WorkDone(c)
  <2>1. UNCHANGED <<slotState, slotOwner, slotOf, busy, capDraining, schedulers>>
    BY <1>4 DEF HandlerStep, Arrive, Reject, Refuse, VadFactoryFails, BeginEvent, EndEvent,
       ServeEnds, ServeFails, FailedServeReleases, TransportClosed, HandlerReleased, HandlerDone,
       slotVars, sessVars, svcVars
  <2> QED BY <2>1, PoolStutters
<1> QED BY <1>1, <1>2, <1>3, <1>4

\* The release task returns the place of a client that is served no more, or
\* quarantines it.
LEMMA ReleaseMaps ==
  ASSUME NEW c \in Conns, IInv, ReleaseStep(c)
  PROVE  Pool!Next \/ UNCHANGED Pool!vars
<1> USE NoneAssumption DEF IInv, TypeOK
<1>1. PICK s \in Slots :
        /\ s = slotOf[c]
        /\ lifecycle[c] \in {"active", "draining"}
        /\ slotOwner[s] = c
        /\ slotState[s] = lifecycle[c]
  BY DEF ReleaseStep, ReleaseBegins, ReleaseDrained, ReleaseStuck, ReleaseFollowsLifecycle, SlotsAgree
<1>2. CASE ReleaseBegins(c)
  <2>1. {t \in Slots : slotState'[t] = "stuck"} = {t \in Slots : slotState[t] = "stuck"}
    BY <1>1, <1>2 DEF ReleaseBegins
  <2>2. UNCHANGED Pool!vars
    BY <1>2, <2>1 DEF ReleaseBegins, Pool!vars, svcVars
  <2> QED BY <2>2
<1>3. CASE ReleaseDrained(c)
  <2>1. {t \in Slots : slotState'[t] = "stuck"} = {t \in Slots : slotState[t] = "stuck"}
    BY <1>1, <1>3 DEF ReleaseDrained
  <2>2. Pool!Return(s)
    BY <1>1, <1>3, <2>1 DEF ReleaseDrained, Pool!Return, svcVars
  <2> QED BY <2>2 DEF Pool!Next
<1>4. CASE ReleaseStuck(c)
  <2>1. {t \in Slots : slotState'[t] = "stuck"} = {t \in Slots : slotState[t] = "stuck"} \cup {s}
    BY <1>1, <1>4 DEF ReleaseStuck
  <2>2. Pool!Quarantine(s)
    BY <1>1, <1>4, <2>1 DEF ReleaseStuck, Pool!Quarantine, svcVars
  <2> QED BY <2>2 DEF Pool!Next
<1> QED BY <1>2, <1>3, <1>4 DEF ReleaseStep

\* The shutdown first shuts the pool and, when no place is held, ends it.
LEMMA ServiceMaps ==
  ASSUME IInv, ServiceStep
  PROVE  Pool!Next \/ UNCHANGED Pool!vars
<1>1. CASE ServiceDrains
  <2>1. Pool!Shut
    BY <1>1 DEF ServiceDrains, Pool!Shut, slotVars, sessVars
  <2> QED BY <2>1 DEF Pool!Next
<1>2. CASE SchedulersClose
  <2>1. capDraining
    BY <1>2 DEF IInv, ShutdownProgress, SchedulersClose
  <2>2. ASSUME NEW s \in Slots, slotState[s] # "stuck" PROVE slotOwner[s] = None
    BY <1>2, <2>2, NoneAssumption DEF IInv, TypeOK, ShutdownProgress, SlotsAgree, SchedulersClose
  <2>3. Pool!End
    BY <1>2, <2>1, <2>2 DEF SchedulersClose, Pool!End, slotVars, sessVars
  <2> QED BY <2>3 DEF Pool!Next
<1>3. CASE ~ServiceDrains /\ ~SchedulersClose
  <2>1. UNCHANGED <<slotState, slotOwner, slotOf, busy, capDraining, schedulers>>
    BY <1>3 DEF ServiceStep, DrainStep, StartupCompletes, LlamaExits, ConnectionsDrained, DeadlinePasses, DeadlineClose,
       DeadlineRelease, DeadlineLoopEnds, DeadlineReleased, slotVars, sessVars
  <2> QED BY <2>1, PoolStutters
<1> QED BY <1>1, <1>2, <1>3

\* Whatever handlers, release tasks, inference threads and the shutdown do, the
\* service behaves as the abstract pool of slots.
THEOREM Implements == Spec => ImplementsPool
<1>1. Init => Pool!Init
  BY DEF Init, Pool!Init
<1>2. IInv /\ IInv' /\ [Next]_vars => [Pool!Next]_(Pool!vars)
  <2> SUFFICES ASSUME IInv, IInv', [Next]_vars PROVE Pool!Next \/ UNCHANGED Pool!vars
    OBVIOUS
  <2>1. CASE UNCHANGED vars
    BY <2>1, PoolStutters DEF vars, slotVars, sessVars, svcVars
  <2> QED BY <2>1, HandlerMaps, ReleaseMaps, ServiceMaps DEF Next
<1> QED BY <1>1, <1>2, InductiveInvariant, PTL DEF Spec, ImplementsPool, Pool!Spec

-----------------------------------------------------------------------------
(* The lifecycle of the service and its child.                             *)

\* A step of the startup task, of a close, of the watches, of the lifespan or of
\* the child keeps the lifecycle's invariant: what is held, who is in start() or
\* stop(), how far the lifespan has come, and that somebody watches the child.
LEMMA LifeStep == LifeInv /\ [LifeNext]_lifeVars => LifeInv'
<1> SUFFICES ASSUME LifeInv, [LifeNext]_lifeVars PROVE LifeInv'
  OBVIOUS
<1> USE LifecycleAssumption
    DEF LifeInv, LifeTypeOK, LlamaTypeOK, LlamaInv, LifespanProgress, HeldFollows, CallFollows,
        Watched, Released, ReadyIsReal, RealtimeReady, LifecycleReady, Over, StarterOver, HeldDuring,
        Runtimes, Loading, Created, Closing, ToClose, lifeVars, lifecycleVars, llamaVars
<1>1. CASE StartupBegins
  BY <1>1, SMTT(30) DEF StartupBegins, Enter
<1>2. CASE StageEnds
  <2>1. starter' = Following(starter) /\ Following(starter) \in Loading
    BY <1>2 DEF StageEnds, Enter, Following
  <2>2. LifeTypeOK'
    <3>1. /\ starter' \in Loading /\ phase' = starter' /\ held' \subseteq Runtimes
          /\ UNCHANGED <<watch, cancelled, serving, draining, ttsActive, app, child, exitWatch>>
      BY <1>2, <2>1 DEF StageEnds, Enter, StartLlama
    <3>2. LlamaTypeOK'
      BY <1>2, <2>1 DEF StageEnds, StartLlama
    <3> QED BY <3>1, <3>2
  <2>3. LlamaInv'
    <3>1. starter \in Loading \ {"starting_llama", "warming_gemma"}
      BY <1>2 DEF StageEnds
    <3>2. starter' = "starting_llama" => starter \in {"checking_cuda", "loading_smart_turn"}
      BY <2>1, <3>1 DEF Following
    <3>3. starter' = "starting_llama" => child = "none"
      BY <3>1, <3>2
    <3> QED BY <1>2, <3>3 DEF StageEnds, StartLlama
  <2>4. LifespanProgress'
    <3>1. /\ starter \in Loading /\ starter' \in Loading /\ phase' = starter' /\ held \subseteq held'
          /\ UNCHANGED <<cancelled, serving, draining, ttsActive, app>>
      BY <1>2, <2>1 DEF StageEnds, Enter
    <3> QED BY <3>1
  <2>5. CallFollows'
    BY <1>2 DEF StageEnds, Enter, Following, StartLlama
  <2>6. Watched'
    BY <1>2 DEF StageEnds, Enter, Following, StartLlama
  <2>7. HeldFollows'
    <3>1. held = HeldDuring(starter) /\ held' = held \cup Created(starter') /\ UNCHANGED <<app, watch>>
      BY <1>2 DEF StageEnds, Enter
    <3>2. starter \in Loading \ {"starting_llama", "warming_gemma"}
      BY <1>2 DEF StageEnds
    <3>3. HeldDuring(starter) \cup Created(Following(starter)) = HeldDuring(Following(starter))
      BY <3>2 DEF Following
    <3>4. held' = HeldDuring(starter')
      BY <2>1, <3>1, <3>3
    <3> QED BY <2>1, <3>1, <3>2, <3>4
  <2>8. ReadyIsReal' /\ Released'
    <3>1. /\ starter \in Loading /\ starter' \in Loading /\ phase' = starter' /\ held \subseteq held'
          /\ UNCHANGED <<cancelled, serving, draining, ttsActive, app>>
      BY <1>2, <2>1 DEF StageEnds, Enter
    <3> QED BY <3>1
  <2> QED BY <2>2, <2>3, <2>4, <2>5, <2>6, <2>7, <2>8
<1>3. CASE LlamaStartReturns
  <2>1. /\ starter = "starting_llama" /\ starter' = "loading_parakeet" /\ phase' = "loading_parakeet"
        /\ held' = held \cup {"parakeet"} /\ watch' = "waiting"
        /\ call = "probed" /\ call' = "none" /\ llama' = "ready"
        /\ UNCHANGED <<cancelled, serving, draining, ttsActive, app, child, exitWatch, failure>>
    BY <1>3 DEF LlamaStartReturns, Enter, Following, LlamaStarted
  <2>2. LifeTypeOK' /\ LlamaInv'
    BY <2>1
  <2>3. CallFollows' /\ Watched'
    BY <2>1
  <2>4. LifespanProgress'
    BY <2>1
  <2>5. HeldFollows' /\ ReadyIsReal' /\ Released'
    BY <2>1
  <2> QED BY <2>2, <2>3, <2>4, <2>5
<1>4. CASE GemmaAnswers
  BY <1>4 DEF GemmaAnswers, WarmupAnswered
<1>5. CASE StartupEnds
  BY <1>5 DEF StartupEnds
<1>6. CASE StageFails
  <2>1. /\ starter \in (Loading \ {"starting_llama"}) \cup {"warmed"}
        /\ phase' = "failed" /\ starter' = "closing" /\ cancelled' = FALSE
        /\ UNCHANGED <<watch, serving, draining, ttsActive, app, held, llama, child, exitWatch, failure, call>>
    BY <1>6 DEF StageFails, FailStartup
  <2>2. LifeTypeOK'
    <3>1. (cancelled \in BOOLEAN)'
      BY <2>1
    <3>2. (phase \in Loading \cup {"created", "ready", "draining", "stopping", "stopped", "failed"})'
      BY <2>1
    <3> QED BY <2>1, <3>1, <3>2
  <2>3. LlamaInv'
    BY <2>1
  <2>4. CallFollows' /\ Watched'
    BY <2>1
  <2>5. LifespanProgress'
    BY <2>1
  <2>6. HeldFollows' /\ ReadyIsReal' /\ Released'
    BY <2>1
  <2> QED BY <2>2, <2>3, <2>4, <2>5, <2>6
<1>7. CASE LlamaStartRefused
  <2>1. /\ starter \in Loading \ {"starting_llama"} /\ ~cancelled
        /\ held' = held \cup {"llama"}
        /\ phase' = "failed" /\ starter' = "closing" /\ cancelled' = FALSE
        /\ UNCHANGED <<watch, serving, draining, ttsActive, app, llama, child, exitWatch, failure, call>>
    BY <1>7 DEF LlamaStartRefused, StartRefused, Following, FailStartup
  <2>2. LifeTypeOK'
    <3>1. (cancelled \in BOOLEAN)'
      BY <2>1
    <3>2. (phase \in Loading \cup {"created", "ready", "draining", "stopping", "stopped", "failed"})'
      BY <2>1
    <3> QED BY <2>1, <3>1, <3>2
  <2>3. LlamaInv'
    BY <2>1
  <2>4. CallFollows' /\ Watched'
    BY <2>1
  <2>5. LifespanProgress'
    BY <2>1
  <2>6. HeldFollows' /\ ReadyIsReal' /\ Released'
    BY <2>1
  <2> QED BY <2>2, <2>3, <2>4, <2>5, <2>6
<1>8. CASE LlamaStartFails
  <2>1. /\ starter = "starting_llama" /\ llama' = "failed" /\ call' = "none" /\ UNCHANGED failure
        /\ \/ call = "spawning" /\ UNCHANGED <<child, exitWatch>>
           \/ call = "aborting" /\ child' = "none" /\ exitWatch' = "none"
        /\ phase' = "failed" /\ starter' = "closing" /\ cancelled' = FALSE
        /\ UNCHANGED <<watch, serving, draining, ttsActive, app, held>>
    BY <1>8 DEF LlamaStartFails, FailStartup, SpawnFails, Stopped, ProcessGone
  <2>2. LifeTypeOK'
    <3>1. (cancelled \in BOOLEAN)'
      BY <2>1
    <3>2. (phase \in Loading \cup {"created", "ready", "draining", "stopping", "stopped", "failed"})'
      BY <2>1
    <3> QED BY <2>1, <3>1, <3>2
  <2>3. LlamaInv'
    BY <2>1
  <2>4. CallFollows' /\ Watched'
    BY <2>1
  <2>5. LifespanProgress'
    BY <2>1
  <2>6. HeldFollows' /\ ReadyIsReal' /\ Released'
    BY <2>1
  <2> QED BY <2>2, <2>3, <2>4, <2>5, <2>6
<1>9. CASE LlamaStartCancelled
  <2>1. CASE StartAborts /\ UNCHANGED <<phase, starter, held, watch, serving, draining, ttsActive, app>>
             /\ cancelled' = FALSE
    <3>1. /\ cancelled' = FALSE /\ llama' = "stopping" /\ call' = "aborting"
          /\ call \in {"probing", "probed"} /\ starter = "starting_llama"
          /\ UNCHANGED <<phase, starter, held, watch, serving, draining, ttsActive, app, child, exitWatch, failure>>
      BY <1>9, <2>1 DEF LlamaStartCancelled, StartAborts
    <3>2. (cancelled \in BOOLEAN)'
      BY <3>1
    <3>3. LifeTypeOK'
      BY <3>1, <3>2
    <3>4. LlamaInv' /\ LifespanProgress' /\ CallFollows'
      BY <3>1
    <3>5. HeldFollows' /\ Watched' /\ ReadyIsReal' /\ Released'
      BY <3>1
    <3> QED BY <3>3, <3>4, <3>5
  <2>2. CASE call = "aborting" /\ StopInterrupted /\ FailStartup /\ UNCHANGED held
    <3>1. /\ starter = "starting_llama" /\ call = "aborting" /\ call' = "none"
          /\ phase' = "failed" /\ starter' = "closing" /\ cancelled' = FALSE
          /\ UNCHANGED <<watch, serving, draining, ttsActive, app, held, llama, child, exitWatch, failure>>
      BY <1>9, <2>2 DEF LlamaStartCancelled, StopInterrupted, FailStartup
    <3>2. (cancelled \in BOOLEAN)'
      BY <3>1
    <3>3. (phase \in Loading \cup {"created", "ready", "draining", "stopping", "stopped", "failed"})'
      BY <3>1
    <3>4. LifeTypeOK'
      BY <3>1, <3>2, <3>3
    <3>5. LlamaInv' /\ LifespanProgress' /\ CallFollows'
      BY <3>1
    <3>6. HeldFollows' /\ Watched' /\ ReadyIsReal' /\ Released'
      BY <3>1
    <3> QED BY <3>4, <3>5, <3>6
  <2> QED BY <1>9, <2>1, <2>2 DEF LlamaStartCancelled
<1>10. CASE LlamaStartProceeds
  BY <1>10, SMTT(30) DEF LlamaStartProceeds, StartAborts, Spawned, ProbeAnswered
<1>11. CASE CloseOne
  BY <1>11, SMTT(30) DEF CloseOne, Uncalled, ClosesNext, CloseRuntime, StopNothing, StopLlama
<1>12. CASE CloseRaises
  BY <1>12 DEF CloseRaises, Uncalled
<1>13. CASE LlamaStopReturns
  BY <1>13, SMTT(30) DEF LlamaStopReturns, Stopped, ProcessGone
<1>14. CASE CloseEnds
  <2>1. CASE app = "closing"
    <3>1. LifespanProgress' /\ LifeTypeOK'
      BY <1>14, <2>1 DEF CloseEnds, Uncalled
    <3>2. LlamaInv' /\ HeldFollows' /\ CallFollows' /\ Watched' /\ ReadyIsReal' /\ Released'
      BY <1>14, <2>1 DEF CloseEnds, Uncalled
    <3> QED BY <3>1, <3>2
  <2>2. CASE app # "closing"
    BY <1>14, <2>2, SMTT(30) DEF CloseEnds, Uncalled
  <2> QED BY <2>1, <2>2
<1>15. CASE CloseCancelled
  <2>1. /\ starter = "closing" /\ starter' = "cancelled" /\ cancelled' = FALSE /\ call' = "none"
        /\ UNCHANGED <<phase, held, watch, serving, draining, ttsActive, app, llama, child, exitWatch, failure>>
    BY <1>15 DEF CloseCancelled, StopInterrupted
  <2>2. LifeTypeOK'
    <3>1. (cancelled \in BOOLEAN)'
      BY <2>1
    <3>2. (phase \in Loading \cup {"created", "ready", "draining", "stopping", "stopped", "failed"})'
      BY <2>1
    <3> QED BY <2>1, <3>1, <3>2
  <2>3. LifespanProgress'
    BY <2>1
  <2>4. HeldFollows'
    BY <2>1
  <2>5. LlamaInv' /\ CallFollows' /\ Watched' /\ ReadyIsReal' /\ Released'
    BY <2>1
  <2> QED BY <2>2, <2>3, <2>4, <2>5
<1>16. CASE WatchSees
  BY <1>16, SMTT(30) DEF WatchSees
<1>17. CASE ChildWatched
  <2>1. CASE Unexpected
    BY <1>17, <2>1, SMTT(30) DEF ChildWatched, ExitSeen
  <2>2. CASE ~Unexpected
    BY <1>17, <2>2, SMTT(30) DEF ChildWatched, ExitSeen, Unexpected
  <2> QED BY <2>1, <2>2
<1>18. CASE Shutdown
  <2>1. CASE starter = "created"
    BY <1>18, <2>1 DEF Shutdown
  <2>2. CASE starter # "created" /\ StarterOver
    BY <1>18, <2>2 DEF Shutdown
  <2>3. CASE starter # "created" /\ ~StarterOver
    BY <1>18, <2>3 DEF Shutdown
  <2> QED BY <2>1, <2>2, <2>3
<1>19. CASE DrainBegins
  BY <1>19, SMTT(30) DEF DrainBegins, StarterOver
<1>20. CASE DrainEnds
  <2>1. /\ app = "draining" /\ serving' = FALSE /\ phase' = "stopping" /\ app' = "closing"
        /\ ttsActive' \in BOOLEAN /\ (ttsActive' => serving)
        /\ UNCHANGED <<starter, held, watch, cancelled, draining, llama, child, exitWatch, failure, call>>
    BY <1>20 DEF DrainEnds
  <2>2. LifeTypeOK'
    <3>1. (ttsActive \in BOOLEAN)' /\ (serving \in BOOLEAN)'
      BY <2>1
    <3>2. (phase \in Loading \cup {"created", "ready", "draining", "stopping", "stopped", "failed"})'
      BY <2>1
    <3> QED BY <2>1, <3>1, <3>2
  <2>3. LlamaInv' /\ CallFollows' /\ Watched'
    BY <2>1
  <2>4. LifespanProgress'
    BY <2>1
  <2>5. HeldFollows' /\ ReadyIsReal' /\ Released'
    BY <2>1
  <2> QED BY <2>2, <2>3, <2>4, <2>5
<1>21. CASE ChildDies
  <2>1. child = "alive" /\ child' = "dead" /\ UNCHANGED lifecycleVars
        /\ UNCHANGED <<llama, exitWatch, failure, call>>
    BY <1>21 DEF ChildDies, ChildExits
  <2>2. LifeTypeOK' /\ LlamaInv'
    BY <2>1, SMTT(30)
  <2>3. LifespanProgress' /\ CallFollows' /\ Watched'
    BY <2>1, SMTT(30)
  <2>4. HeldFollows' /\ ReadyIsReal' /\ Released'
    BY <2>1, SMTT(30)
  <2> QED BY <2>2, <2>3, <2>4
<1>22. CASE UNCHANGED lifeVars
  BY <1>22
<1> QED
  BY <1>1, <1>2, <1>3, <1>4, <1>5, <1>6, <1>7, <1>8, <1>9, <1>10, <1>11, <1>12, <1>13, <1>14,
     <1>15, <1>16, <1>17, <1>18, <1>19, <1>20, <1>21, <1>22
     DEF LifeNext, Starts, Closes, Watches, Stops

\* Before the startup task has run nothing is held.
LEMMA LifeInvInit == LifeInit => LifeInv
BY LifecycleAssumption
   DEF LifeInit, LlamaInit, LifeInv, LifeTypeOK, LlamaTypeOK, LlamaInv, LifespanProgress, HeldFollows,
       CallFollows, Watched, Released, ReadyIsReal, RealtimeReady, LifecycleReady, Over, StarterOver,
       Runtimes, Loading, Closing

\* The invariant of the lifecycle holds in every behaviour, whatever stage of the
\* start fails or is cancelled and whenever the child dies.
THEOREM LifeInvAlways == LifeSpec => []LifeInv
BY LifeInvInit, LifeStep, PTL DEF LifeSpec

\* Readiness is real: every runtime is there, and a child whose exit nobody has
\* noticed and both watches would.
THEOREM ReadyIsRealAlways == LifeSpec => []ReadyIsReal
<1>1. LifeInv => ReadyIsReal
  BY DEF LifeInv
<1> QED BY <1>1, LifeInvAlways, PTL

\* A failed start and a shutdown leave nothing behind, unless the TTS runtime
\* refuses to be closed.
THEOREM ReleasedAlways == LifeSpec => []Released
<1>1. LifeInv => Released
  BY DEF LifeInv
<1> QED BY <1>1, LifeInvAlways, PTL

\* Readiness comes with the end of the start and with nothing else: a service
\* that has lost it never gets it back.
LEMMA ReadinessComes ==
  ASSUME LifeInv, Starts \/ Closes \/ Watches \/ Shutdown \/ ChildDies, Serviceable', ~Serviceable
  PROVE  StartupEnds
<1> USE DEF Serviceable, LifecycleReady
<1>1. CASE Starts
  <2>1. CASE StartupBegins \/ StageEnds \/ LlamaStartReturns \/ GemmaAnswers
    BY <2>1 DEF StartupBegins, StageEnds, LlamaStartReturns, LlamaStarted, GemmaAnswers, Enter, LifeInv,
       LifespanProgress, CallFollows, Loading
  <2>2. CASE StageFails \/ LlamaStartRefused \/ LlamaStartFails
    BY <2>2 DEF StageFails, LlamaStartRefused, LlamaStartFails, FailStartup
  <2>3. CASE LlamaStartCancelled \/ LlamaStartProceeds
    BY <2>3 DEF LlamaStartCancelled, LlamaStartProceeds, FailStartup, StartAborts, Spawned, ProbeAnswered,
       StopInterrupted, lifecycleVars
  <2> QED BY <1>1, <2>1, <2>2, <2>3 DEF Starts
<1>2. CASE Closes
  BY <1>2 DEF Closes, CloseOne, CloseRaises, LlamaStopReturns, CloseEnds, CloseCancelled, CloseRuntime,
     StopNothing, StopLlama, StopInterrupted, Stopped, llamaVars
<1>3. CASE Watches \/ Shutdown \/ ChildDies
  BY <1>3 DEF Watches, WatchSees, ChildWatched, ExitSeen, Shutdown, ChildDies, ChildExits, lifecycleVars, llamaVars
<1> QED BY <1>1, <1>2, <1>3

\* Readiness comes once: what comes after it can only take it away.
THEOREM ReadinessIsNotRegainedAlways == LifeSpec => ReadinessIsNotRegained
<1>1. LifeInv /\ [LifeNext]_lifeVars => [serving /\ ~RealtimeReady => ~RealtimeReady']_lifeVars
  <2> SUFFICES ASSUME LifeInv, LifeNext, serving, RealtimeReady'
               PROVE  RealtimeReady
    BY DEF RealtimeReady, LifecycleReady, lifeVars, lifecycleVars, llamaVars
  <2>1. Serviceable'
    BY DEF RealtimeReady, Serviceable
  <2>2. ASSUME Starts \/ Closes \/ Watches \/ Shutdown \/ ChildDies, ~Serviceable PROVE FALSE
    <3>1. StartupEnds
      BY <2>1, <2>2, ReadinessComes
    <3> QED BY <3>1 DEF StartupEnds, LifeInv, LifespanProgress
  <2>3. CASE Starts \/ Closes \/ Watches \/ Shutdown \/ ChildDies
    <3>1. Serviceable
      BY <2>2, <2>3
    <3>2. draining' = draining
      BY <2>3 DEF Starts, StartupBegins, StageEnds, LlamaStartReturns, GemmaAnswers, StartupEnds, StageFails,
         LlamaStartRefused, LlamaStartFails, LlamaStartCancelled, LlamaStartProceeds, Enter, FailStartup,
         Closes, CloseOne, CloseRaises, LlamaStopReturns, CloseEnds, CloseCancelled,
         Watches, WatchSees, ChildWatched, Shutdown, ChildDies, lifecycleVars
    <3> QED BY <3>1, <3>2 DEF RealtimeReady, Serviceable
  <2>4. CASE Stops
    BY <2>4 DEF Stops, DrainBegins, DrainEnds, RealtimeReady
  <2> QED BY <2>3, <2>4 DEF LifeNext
<1> QED BY <1>1, LifeInvAlways, PTL DEF LifeSpec, ReadinessIsNotRegained

-----------------------------------------------------------------------------
(* The service process: the two together.                                  *)

\* Every step of the process is a step of Sessions or nothing to it, and a step
\* of Lifecycle or nothing to it.
LEMMA ServiceStepMaps ==
  ServiceInv /\ [ServiceNext]_serviceVars => [Next]_vars /\ [LifeNext]_lifeVars
<1> SUFFICES ASSUME ServiceInv, [ServiceNext]_serviceVars
             PROVE  [Next]_vars /\ [LifeNext]_lifeVars
  OBVIOUS
<1>1. CASE LifecycleMoves
  <2>1. LifeNext
    BY <1>1 DEF LifecycleMoves, LifeNext
  <2>5. lifeReady \in BOOLEAN /\ lifeReady' \in BOOLEAN
    BY <1>1, Zenon DEF LifecycleMoves, Serviceable, ServiceInv, IInv, TypeOK
  <2>2. CASE lifeReady' = lifeReady
    BY <1>1, <2>1, <2>2 DEF LifecycleMoves, vars, svcVars, drainVars
  <2>3. CASE lifeReady /\ ~lifeReady'
    <3>1. LlamaExits
      BY <1>1, <2>3, <2>5 DEF LifecycleMoves, LlamaExits, drainVars
    <3> QED BY <2>1, <3>1 DEF Next, ServiceStep
  <2>4. CASE ~lifeReady /\ lifeReady'
    <3>1. Serviceable' /\ ~Serviceable
      BY <1>1, <2>4 DEF LifecycleMoves, ServiceInv, HalvesAgree
    <3>2. starter = "warmed"
      BY <1>1, <3>1, ReadinessComes DEF LifecycleMoves, ServiceInv, StartupEnds
    <3>3. service = "running"
      BY <3>2 DEF ServiceInv, HalvesAgree, LifeInv, LifespanProgress, StarterOver
    <3>4. StartupCompletes
      BY <1>1, <2>4, <2>5, <3>3 DEF LifecycleMoves, StartupCompletes, drainVars
    <3> QED BY <2>1, <3>4 DEF Next, ServiceStep
  <2> QED BY <2>2, <2>3, <2>4, <2>5
<1>2. CASE SessionsMove
  BY <1>2 DEF SessionsMove, Next, ServiceStep
<1>3. CASE DrainStarts
  BY <1>3 DEF DrainStarts, Next, ServiceStep, LifeNext, Stops
<1>4. CASE DrainCompletes
  BY <1>4 DEF DrainCompletes, Next, ServiceStep, LifeNext, Stops
<1>5. CASE UNCHANGED serviceVars
  BY <1>5 DEF serviceVars
<1> QED BY <1>1, <1>2, <1>3, <1>4, <1>5 DEF ServiceNext

\* What the two components say together gives a session its runtimes.
LEMMA RuntimesFollow ==
  IInv /\ LifeInv /\ HalvesAgree /\ AdmittedAfterStart => SessionsHaveRuntimes
<1> SUFFICES ASSUME IInv, LifeInv, HalvesAgree, AdmittedAfterStart,
                    NEW c \in Conns, lifecycle[c] \in {"active", "draining"}
             PROVE  held = Runtimes /\ schedulers = "open" /\ call = "none"
  BY DEF SessionsHaveRuntimes
<1>1. starter = "done" /\ service # "stopped"
  BY DEF IInv, SessionFollowsHandler, ShutdownProgress, AdmittedAfterStart
<1>2. app \notin {"closing", "raised", "down"} /\ schedulers = "open"
  BY <1>1 DEF HalvesAgree, IInv, TypeOK, ShutdownProgress
<1>3. held = Runtimes /\ call = "none"
  BY <1>1, <1>2 DEF LifeInv, LlamaTypeOK, LifeTypeOK, HeldFollows, CallFollows, Closing
<1> QED BY <1>2, <1>3

\* The first step of the drain revokes readiness, whichever of its conditions the
\* service had lost before.
LEMMA DrainRevokes == LifeInv /\ DrainBegins => ~Serviceable'
BY DEF DrainBegins, Serviceable, LifecycleReady, LifeInv, LifeTypeOK

\* A step of the process keeps the two halves in agreement.
LEMMA HalvesStep == ServiceInv /\ [ServiceNext]_serviceVars => HalvesAgree'
<1> SUFFICES ASSUME ServiceInv, [ServiceNext]_serviceVars PROVE HalvesAgree'
  OBVIOUS
<1> USE DEF ServiceInv, HalvesAgree
<1>1. CASE LifecycleMoves
  <2>1. service' = service /\ (lifeReady' <=> Serviceable')
    BY <1>1, Zenon DEF LifecycleMoves, drainVars
  <2>2. app' = app \/ (app = "up" /\ app' = "stopping")
          \/ (app = "closing" /\ app' \in {"raised", "down"})
    <3>1. CASE Starts
      BY <3>1 DEF Starts, StartupBegins, StageEnds, LlamaStartReturns, GemmaAnswers, StartupEnds, StageFails,
         LlamaStartRefused, LlamaStartFails, LlamaStartCancelled, LlamaStartProceeds, Enter, FailStartup,
         lifecycleVars
    <3>2. CASE Closes
      BY <3>2 DEF Closes, CloseOne, CloseRaises, LlamaStopReturns, CloseEnds, CloseCancelled
    <3>3. CASE Watches \/ Shutdown \/ ChildDies
      BY <3>3 DEF Watches, WatchSees, ChildWatched, Shutdown, ChildDies, lifecycleVars
    <3> QED BY <1>1, <3>1, <3>2, <3>3 DEF LifecycleMoves
  <2> QED BY <2>1, <2>2
<1>2. CASE SessionsMove
  <2>1. lifeReady' = lifeReady /\ app' = app /\ Serviceable' = Serviceable
    <3>1. lifeReady' = lifeReady
      BY <1>2 DEF SessionsMove, HandlerStep, Arrive, Reject, Admit, Refuse, VadFactoryFails, BeginEvent,
         EndEvent, SubmitWork, WorkDone, ServeEnds, ServeFails, FailedServeReleases, TransportClosed,
         HandlerReleased, HandlerDone, ReleaseStep, ReleaseBegins, ReleaseDrained, ReleaseStuck, DrainStep,
         ConnectionsDrained, DeadlinePasses, DeadlineClose, DeadlineRelease, DeadlineLoopEnds,
         DeadlineReleased, svcVars
    <3>2. UNCHANGED lifeVars
      BY <1>2 DEF SessionsMove
    <3> QED BY <3>1, <3>2 DEF lifeVars, lifecycleVars, llamaVars, Serviceable, LifecycleReady
  <2>2. service' = service
          \/ (service \notin {"running", "stopped"} /\ service' \notin {"running", "stopped"})
    BY <1>2 DEF SessionsMove, HandlerStep, Arrive, Reject, Admit, Refuse, VadFactoryFails, BeginEvent,
       EndEvent, SubmitWork, WorkDone, ServeEnds, ServeFails, FailedServeReleases, TransportClosed,
       HandlerReleased, HandlerDone, ReleaseStep, ReleaseBegins, ReleaseDrained, ReleaseStuck, DrainStep,
       ConnectionsDrained, DeadlinePasses, DeadlineClose, DeadlineRelease, DeadlineLoopEnds,
       DeadlineReleased, svcVars
  <2> QED BY <2>1, <2>2
<1>3. CASE DrainStarts
  BY <1>3, DrainRevokes DEF DrainStarts, DrainBegins, ServiceDrains
<1>4. CASE DrainCompletes
  <2>1. ~Serviceable /\ ~Serviceable'
    BY <1>4 DEF DrainCompletes, DrainEnds, Serviceable, LifecycleReady, LifeInv, LifespanProgress
  <2> QED BY <1>4, <2>1 DEF DrainCompletes, DrainEnds, SchedulersClose
<1>5. CASE UNCHANGED serviceVars
  BY <1>5 DEF serviceVars, vars, svcVars, lifeVars, lifecycleVars, llamaVars, Serviceable, LifecycleReady
<1> QED BY <1>1, <1>2, <1>3, <1>4, <1>5 DEF ServiceNext

\* A step lets nobody in before the start is over, and the start never comes back.
LEMMA AdmissionStep == ServiceInv /\ [ServiceNext]_serviceVars => AdmittedAfterStart'
<1> SUFFICES ASSUME ServiceInv, [ServiceNext]_serviceVars PROVE AdmittedAfterStart'
  OBVIOUS
<1> USE DEF ServiceInv, AdmittedAfterStart
<1>1. starter = "done" => starter' = "done"
  <2> SUFFICES ASSUME starter = "done" PROVE starter' = "done"
    OBVIOUS
  <2>1. [LifeNext]_lifeVars
    BY ServiceStepMaps
  <2>2. CASE Starts
    BY <2>2 DEF Starts, StartupBegins, StageEnds, LlamaStartReturns, LlamaStarted, GemmaAnswers, StartupEnds,
       StageFails, LlamaStartRefused, LlamaStartFails, LlamaStartCancelled, LlamaStartProceeds,
       lifecycleVars, Loading, LifeInv, CallFollows
  <2>3. CASE Closes
    BY <2>3 DEF Closes, CloseOne, CloseRaises, LlamaStopReturns, CloseEnds, CloseCancelled, Closing
  <2>4. CASE Watches \/ Stops \/ Shutdown \/ ChildDies
    BY <2>4 DEF Watches, WatchSees, ChildWatched, Stops, DrainBegins, DrainEnds, Shutdown, ChildDies,
       lifecycleVars
  <2>5. CASE UNCHANGED lifeVars
    BY <2>5 DEF lifeVars, lifecycleVars
  <2> QED BY <2>1, <2>2, <2>3, <2>4, <2>5 DEF LifeNext
<1>2. CASE UNCHANGED <<handler, slotOf>>
  BY <1>1, <1>2
<1>3. CASE LifecycleMoves
  BY <1>2, <1>3 DEF LifecycleMoves, connVars, sessVars
<1>4. CASE SessionsMove
  <2>1. ASSUME NEW c \in Conns, HandlerStep(c) PROVE AdmittedAfterStart'
    <3>1. CASE Arrive(c)
      <4>1. starter = "done"
        BY <3>1, Zenon DEF Arrive, Ready, HalvesAgree, Serviceable, LifeInv, LifespanProgress
      <4> QED BY <1>1, <4>1
    <3>2. CASE Admit(c)
      BY <1>1, <3>2 DEF Admit
    <3>3. CASE ~Arrive(c) /\ ~Admit(c)
      <4>1. slotOf' = slotOf /\ \A d \in Conns : handler'[d] = "accepting" => handler[d] = "accepting"
        BY <2>1, <3>3 DEF HandlerStep, Reject, Refuse, VadFactoryFails, BeginEvent, EndEvent, SubmitWork,
           WorkDone, ServeEnds, ServeFails, FailedServeReleases, TransportClosed, HandlerReleased, HandlerDone,
           connVars, sessVars, IInv, TypeOK
      <4> QED BY <1>1, <4>1
    <3> QED BY <3>1, <3>2, <3>3
  <2>2. ASSUME NEW c \in Conns, ReleaseStep(c) PROVE AdmittedAfterStart'
    BY <1>2, <2>2 DEF ReleaseStep, ReleaseBegins, ReleaseDrained, ReleaseStuck, connVars
  <2>3. CASE DrainStep
    BY <1>2, <2>3 DEF DrainStep, ConnectionsDrained, DeadlinePasses, DeadlineClose, DeadlineRelease,
       DeadlineLoopEnds, DeadlineReleased, connVars, sessVars
  <2> QED BY <1>4, <2>1, <2>2, <2>3 DEF SessionsMove
<1>5. CASE DrainStarts \/ DrainCompletes
  BY <1>2, <1>5 DEF DrainStarts, ServiceDrains, DrainCompletes, SchedulersClose, connVars, sessVars
<1>6. CASE UNCHANGED serviceVars
  BY <1>2, <1>6 DEF serviceVars, vars, connVars, sessVars
<1> QED BY <1>3, <1>4, <1>5, <1>6 DEF ServiceNext

\* The invariant of the process, for every number of connections and slots.
THEOREM ServiceInvAlways == ServiceSpec => []ServiceInv
<1>1. ServiceInit => ServiceInv
  <2> SUFFICES ASSUME ServiceInit PROVE ServiceInv
    OBVIOUS
  <2>1. IInv /\ LifeInv
    BY IInvInit, LifeInvInit DEF ServiceInit
  <2>2. HalvesAgree /\ AdmittedAfterStart
    BY DEF ServiceInit, Init, LifeInit, HalvesAgree, Serviceable, AdmittedAfterStart
  <2> QED BY <2>1, <2>2, RuntimesFollow DEF ServiceInv
<1>2. ServiceInv /\ [ServiceNext]_serviceVars => ServiceInv'
  <2> SUFFICES ASSUME ServiceInv, [ServiceNext]_serviceVars PROVE ServiceInv'
    OBVIOUS
  <2>1. IInv' /\ LifeInv'
    BY ServiceStepMaps, IInvStep, LifeStep DEF ServiceInv
  <2>2. HalvesAgree' /\ AdmittedAfterStart'
    BY HalvesStep, AdmissionStep
  <2>3. SessionsHaveRuntimes'
    BY <2>1, <2>2, RuntimesFollow, PTL
  <2> QED BY <2>1, <2>2, <2>3 DEF ServiceInv
<1> QED BY <1>1, <1>2, PTL DEF ServiceSpec

\* Nothing that a session needs is closed or stopped under it.
THEOREM SessionsHaveRuntimesAlways == ServiceSpec => []SessionsHaveRuntimes
<1>1. ServiceInv => SessionsHaveRuntimes
  BY DEF ServiceInv
<1> QED BY <1>1, ServiceInvAlways, PTL

\* The process behaves as Sessions, whatever its lifecycle does: what is proved
\* there of slots and sessions holds of the process.
THEOREM ImplementsSessions == ServiceSpec => Spec
<1>1. ServiceInit => Init
  BY DEF ServiceInit
<1>2. ServiceInv /\ [ServiceNext]_serviceVars => [Next]_vars
  BY ServiceStepMaps
<1> QED BY <1>1, <1>2, ServiceInvAlways, PTL DEF ServiceSpec, Spec

\* And as Lifecycle, whatever its sessions do.
THEOREM ImplementsLifecycle == ServiceSpec => LifeSpec
<1>1. ServiceInit => LifeInit
  BY DEF ServiceInit
<1>2. ServiceInv /\ [ServiceNext]_serviceVars => [LifeNext]_lifeVars
  BY ServiceStepMaps
<1> QED BY <1>1, <1>2, ServiceInvAlways, PTL DEF ServiceSpec, LifeSpec

\* So the process, startup and shutdown included, is a pool of slots.
THEOREM ServiceImplementsPool == ServiceSpec => ImplementsPool
BY ImplementsSessions, Implements, PTL
=============================================================================
