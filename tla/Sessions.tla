------------------------------ MODULE Sessions ------------------------------
(***************************************************************************)
(* Admission, release and shutdown of the GPU service: CapacityManager     *)
(* (capacity.py), SessionRegistry (sessions.py), the WebSocket handler and *)
(* the drain of RealtimeService (realtime.py).                             *)
(*                                                                         *)
(* Every coroutine runs on one event loop, so a step of this module is a   *)
(* stretch of code between two awaits that really suspend. The locks of    *)
(* capacity.py and sessions.py are never held across such an await: an     *)
(* uncontended asyncio.Lock does not yield, and registry.create runs from  *)
(* the claim of a slot to the first event sent in one step.                *)
(***************************************************************************)
EXTENDS Integers, FiniteSets

CONSTANTS
  Conns,      \* WebSocket connection attempts; each has one handler
  NumSlots,   \* settings.server.max_sessions
  None        \* "no session" / "no slot"

ASSUME SlotAssumption == NumSlots \in 1..64
ASSUME NoneAssumption == None \notin Conns /\ None \notin Int

Slots == 1..NumSlots

VARIABLES
  handler,      \* where handle_websocket of a connection is suspended
  transport,    \* WebSocketTransport: none, open, closing, closed
  closeCode,    \* the code its WebSocket is closed with
  slotState,    \* SessionSlot.state
  slotOwner,    \* SessionSlot.session_id
  slotOf,       \* SessionState.slot
  lifecycle,    \* SessionState.lifecycle
  registered,   \* SessionRegistry._sessions
  releaseTask,  \* SessionRegistry._releases and the progress of the task
  inEvent,      \* the consumer task is suspended inside pipeline.handle_event
  busy,         \* a shared scheduler runs or queues work of the session
  capDraining,  \* CapacityManager._draining
  service,      \* where RealtimeService.aclose is suspended
  deadline,     \* `states`: the sessions found when the drain deadline passed
  toVisit,      \* the ones its loop has not handled yet
  lifeReady,    \* _started and ServiceLifecycle.ready
  schedulers    \* the shared schedulers: open, closed

connVars == <<handler, transport, closeCode>>
slotVars == <<slotState, slotOwner>>
sessVars == <<slotOf, lifecycle, registered, releaseTask, inEvent, busy>>
svcVars  == <<capDraining, service, deadline, toVisit, lifeReady, schedulers>>
vars == <<connVars, slotVars, sessVars, svcVars>>

HandlerPCs == {"away", "accepting", "refusing", "serving", "failing",
               "releasing", "finishing", "done"}
ReleasePCs == {"none", "created", "draining"}
ServicePCs == {"running", "waiting", "closing", "releasing", "stopping", "stopped"}
CloseCodes == {"none", "1000", "1012", "4429", "failure"}
Lifecycles == {"none", "active", "draining", "stuck", "closed"}

TypeOK ==
  /\ handler \in [Conns -> HandlerPCs]
  /\ transport \in [Conns -> {"none", "open", "closing", "closed"}]
  /\ closeCode \in [Conns -> CloseCodes]
  /\ slotState \in [Slots -> {"idle", "active", "draining", "stuck"}]
  /\ slotOwner \in [Slots -> Conns \cup {None}]
  /\ slotOf \in [Conns -> Slots \cup {None}]
  /\ lifecycle \in [Conns -> Lifecycles]
  /\ registered \in SUBSET Conns
  /\ releaseTask \in [Conns -> ReleasePCs]
  /\ inEvent \in [Conns -> BOOLEAN]
  /\ busy \in [Conns -> BOOLEAN]
  /\ capDraining \in BOOLEAN
  /\ service \in ServicePCs
  /\ deadline \in SUBSET Conns
  /\ toVisit \in SUBSET Conns
  /\ lifeReady \in BOOLEAN
  /\ schedulers \in {"open", "closed"}

Init ==
  /\ handler = [c \in Conns |-> "away"]
  /\ transport = [c \in Conns |-> "none"]
  /\ closeCode = [c \in Conns |-> "none"]
  /\ slotState = [s \in Slots |-> "idle"]
  /\ slotOwner = [s \in Slots |-> None]
  /\ slotOf = [c \in Conns |-> None]
  /\ lifecycle = [c \in Conns |-> "none"]
  /\ registered = {}
  /\ releaseTask = [c \in Conns |-> "none"]
  /\ inEvent = [c \in Conns |-> FALSE]
  /\ busy = [c \in Conns |-> FALSE]
  /\ capDraining = FALSE
  /\ service = "running"
  /\ deadline = {}
  /\ toVisit = {}
  /\ lifeReady = FALSE
  /\ schedulers = "open"

-----------------------------------------------------------------------------
(* Admission.                                                              *)

\* RealtimeService.ready: _draining is set by the first step of aclose.
Ready == service = "running" /\ lifeReady

Settled(c) == lifecycle[c] \in {"stuck", "closed"}

\* Mutant: a quarantined slot counts as free.
FirstUnowned(s) ==
  /\ slotState[s] \in {"idle", "stuck"}
  /\ \A t \in Slots : t < s => slotState[t] \notin {"idle", "stuck"}

\* The slot claim() takes: the first idle one, in index order.
FirstIdle(s) ==
  /\ slotState[s] = "idle"
  /\ \A t \in Slots : t < s => slotState[t] # "idle"

NoneIdle == \A s \in Slots : slotState[s] # "idle"

\* An authenticated client with the right subprotocol passes the readiness
\* check; transport.start() then suspends in websocket.accept().
Arrive(c) ==
  /\ handler[c] = "away"
  /\ Ready
  /\ handler' = [handler EXCEPT ![c] = "accepting"]
  /\ UNCHANGED <<transport, closeCode, slotVars, sessVars, svcVars>>

\* A client that arrives while the service is not ready is answered by _reject,
\* before any slot is claimed. (Failed authentication touches no state at all.)
Reject(c) ==
  /\ handler[c] = "away"
  /\ ~Ready
  /\ handler' = [handler EXCEPT ![c] = "done"]
  /\ transport' = [transport EXCEPT ![c] = "closed"]
  /\ closeCode' = [closeCode EXCEPT ![c] = IF service # "running" THEN "1012" ELSE "failure"]
  /\ UNCHANGED <<slotVars, sessVars, svcVars>>

\* registry.create(): claim, build the session, register it; then the pipeline
\* is built and session.created queued, all without suspending.
Admit(c) ==
  /\ handler[c] = "accepting"
  /\ ~capDraining
  /\ \E s \in Slots :
       /\ FirstIdle(s)
       /\ slotState' = [slotState EXCEPT ![s] = "active"]
       /\ slotOwner' = [slotOwner EXCEPT ![s] = c]
       /\ slotOf' = [slotOf EXCEPT ![c] = s]
  /\ lifecycle' = [lifecycle EXCEPT ![c] = "active"]
  /\ registered' = registered \cup {c}
  /\ handler' = [handler EXCEPT ![c] = "serving"]
  /\ transport' = [transport EXCEPT ![c] = "open"]
  /\ UNCHANGED <<closeCode, releaseTask, inEvent, busy, svcVars>>

\* claim() returns None, when the service drains or no slot is idle: the
\* handler reports session_limit_reached and closes the socket with 4429.
Refuse(c) ==
  /\ handler[c] = "accepting"
  /\ capDraining \/ NoneIdle
  /\ handler' = [handler EXCEPT ![c] = "refusing"]
  /\ transport' = [transport EXCEPT ![c] = "closing"]
  /\ closeCode' = [closeCode EXCEPT ![c] = "4429"]
  /\ UNCHANGED <<slotVars, sessVars, svcVars>>

\* The VAD cannot be built: the slot just claimed is given back in the same
\* step and the exception leaves the handler.
VadFactoryFails(c) ==
  /\ handler[c] = "accepting"
  /\ ~capDraining
  /\ ~NoneIdle
  /\ handler' = [handler EXCEPT ![c] = "done"]
  /\ transport' = [transport EXCEPT ![c] = "closed"]
  /\ closeCode' = [closeCode EXCEPT ![c] = "failure"]
  /\ UNCHANGED <<slotVars, sessVars, svcVars>>

-----------------------------------------------------------------------------
(* A session being served.                                                 *)

\* The consumer takes an event; handle_event refuses once the pipeline drains
\* (the error then ends the session, see ServeFails).
BeginEvent(c) ==
  /\ handler[c] = "serving"
  /\ ~inEvent[c]
  /\ releaseTask[c] # "draining"
  /\ ~Settled(c)
  /\ inEvent' = [inEvent EXCEPT ![c] = TRUE]
  /\ UNCHANGED <<connVars, slotVars, slotOf, lifecycle, registered, releaseTask, busy, svcVars>>

EndEvent(c) ==
  /\ inEvent[c]
  /\ inEvent' = [inEvent EXCEPT ![c] = FALSE]
  /\ UNCHANGED <<connVars, slotVars, slotOf, lifecycle, registered, releaseTask, busy, svcVars>>

\* A pipeline hands work to an inference thread while it does not drain: what a
\* consumer hands over later is stale, and the workers drop it. An event that
\* was already being handled when the drain began can still do so, unless the
\* send that precedes the work fails because the transport is closed.
SubmitWork(c) ==
  /\ schedulers = "open"
  /\ slotOf[c] # None
  /\ \/ releaseTask[c] # "draining" /\ ~Settled(c)
     \/ inEvent[c] /\ transport[c] = "open"
  /\ ~busy[c]
  /\ busy' = [busy EXCEPT ![c] = TRUE]
  /\ UNCHANGED <<connVars, slotVars, slotOf, lifecycle, registered, releaseTask, inEvent, svcVars>>

\* The inference thread returns. Threads cannot be cancelled.
WorkDone(c) ==
  /\ busy[c]
  /\ busy' = [busy EXCEPT ![c] = FALSE]
  /\ UNCHANGED <<connVars, slotVars, slotOf, lifecycle, registered, releaseTask, inEvent, svcVars>>

\* Mutant: a settled session is released again.
CallReleaseAgain(c) ==
  releaseTask' = IF releaseTask[c] = "none" THEN [releaseTask EXCEPT ![c] = "created"]
                 ELSE releaseTask

\* SessionRegistry.release up to its shielded await: one shared task.
CallRelease(c) ==
  releaseTask' =
    IF ~Settled(c) /\ releaseTask[c] = "none"
    THEN [releaseTask EXCEPT ![c] = "created"] ELSE releaseTask

\* WebSocketTransport.close: idempotent, the first caller chooses the code.
BeginClose(c, code) ==
  /\ transport' = [transport EXCEPT ![c] = IF @ = "open" THEN "closing" ELSE @]
  /\ closeCode' = [closeCode EXCEPT ![c] = IF transport[c] = "open" THEN code ELSE @]

\* The socket is disconnected: _serve_session cancels the consumer and returns.
ServeEnds(c) ==
  /\ handler[c] = "serving"
  /\ inEvent' = [inEvent EXCEPT ![c] = FALSE]
  /\ CallRelease(c)
  /\ handler' = [handler EXCEPT ![c] = "releasing"]
  /\ UNCHANGED <<transport, closeCode, slotVars, slotOf, lifecycle, registered, busy, svcVars>>

\* The receiver or the consumer raises: a structured error, then the close.
ServeFails(c) ==
  /\ handler[c] = "serving"
  /\ inEvent' = [inEvent EXCEPT ![c] = FALSE]
  /\ BeginClose(c, "failure")
  /\ handler' = [handler EXCEPT ![c] = "failing"]
  /\ UNCHANGED <<slotVars, slotOf, lifecycle, registered, releaseTask, busy, svcVars>>

\* The awaited close is over, or another task's close is under way (the call
\* then returned at once): the finally block releases the session.
FailedServeReleases(c) ==
  /\ handler[c] = "failing"
  /\ closeCode[c] = "failure" => transport[c] = "closed"
  /\ CallRelease(c)
  /\ handler' = [handler EXCEPT ![c] = "releasing"]
  /\ UNCHANGED <<transport, closeCode, slotVars, slotOf, lifecycle, registered, inEvent, busy, svcVars>>

\* The sender has drained or timed out and the socket is closed.
TransportClosed(c) ==
  /\ transport[c] = "closing"
  /\ transport' = [transport EXCEPT ![c] = "closed"]
  /\ handler' = [handler EXCEPT ![c] = IF @ = "refusing" THEN "done" ELSE @]
  /\ UNCHANGED <<closeCode, slotVars, sessVars, svcVars>>

\* release() returns in the handler, which closes the transport with 1000.
HandlerReleased(c) ==
  /\ handler[c] = "releasing"
  /\ releaseTask[c] = "none"
  /\ BeginClose(c, "1000")
  /\ handler' = [handler EXCEPT ![c] = "finishing"]
  /\ UNCHANGED <<slotVars, sessVars, svcVars>>

HandlerDone(c) ==
  /\ handler[c] = "finishing"
  /\ closeCode[c] = "1000" => transport[c] = "closed"
  /\ handler' = [handler EXCEPT ![c] = "done"]
  /\ UNCHANGED <<transport, closeCode, slotVars, sessVars, svcVars>>

-----------------------------------------------------------------------------
(* The release task: SessionRegistry._release_once.                        *)

\* begin_release, then pipeline.drain() under wait_for.
ReleaseBegins(c) ==
  /\ releaseTask[c] = "created"
  /\ releaseTask' = [releaseTask EXCEPT ![c] = "draining"]
  /\ lifecycle' = [lifecycle EXCEPT ![c] = "draining"]
  /\ slotState' = [slotState EXCEPT ![slotOf[c]] = IF @ = "active" THEN "draining" ELSE @]
  /\ UNCHANGED <<connVars, slotOwner, slotOf, registered, inEvent, busy, svcVars>>

\* Mutant: the drain cancels the session's work and does not wait for it.
ReleaseUnwaited(c) ==
  /\ releaseTask[c] = "draining"
  /\ releaseTask' = [releaseTask EXCEPT ![c] = "none"]
  /\ lifecycle' = [lifecycle EXCEPT ![c] = "closed"]
  /\ registered' = registered \ {c}
  /\ slotState' = [slotState EXCEPT ![slotOf[c]] = "idle"]
  /\ slotOwner' = [slotOwner EXCEPT ![slotOf[c]] = None]
  /\ UNCHANGED <<connVars, slotOf, inEvent, busy, svcVars>>

\* drain() returned: both schedulers confirmed the session idle.
ReleaseDrained(c) ==
  /\ releaseTask[c] = "draining"
  /\ ~busy[c]
  /\ releaseTask' = [releaseTask EXCEPT ![c] = "none"]
  /\ lifecycle' = [lifecycle EXCEPT ![c] = "closed"]
  /\ registered' = registered \ {c}
  /\ slotState' = [slotState EXCEPT ![slotOf[c]] = "idle"]
  /\ slotOwner' = [slotOwner EXCEPT ![slotOf[c]] = None]
  /\ UNCHANGED <<connVars, slotOf, inEvent, busy, svcVars>>

\* Mutant: a failed drain forgets to record the outcome in the slot.
ReleaseStuckInName(c) ==
  /\ releaseTask[c] = "draining"
  /\ releaseTask' = [releaseTask EXCEPT ![c] = "none"]
  /\ lifecycle' = [lifecycle EXCEPT ![c] = "stuck"]
  /\ UNCHANGED <<connVars, slotVars, slotOf, registered, inEvent, busy, svcVars>>

\* The drain timed out or raised: the slot is quarantined for good.
ReleaseStuck(c) ==
  /\ releaseTask[c] = "draining"
  /\ releaseTask' = [releaseTask EXCEPT ![c] = "none"]
  /\ lifecycle' = [lifecycle EXCEPT ![c] = "stuck"]
  /\ slotState' = [slotState EXCEPT ![slotOf[c]] = "stuck"]
  /\ UNCHANGED <<connVars, slotOwner, slotOf, registered, inEvent, busy, svcVars>>

-----------------------------------------------------------------------------
(* Shutdown: RealtimeService.aclose.                                       *)

\* The startup task ends: the lifecycle is ready and the schedulers run.
StartupCompletes ==
  /\ service = "running" /\ ~lifeReady
  /\ lifeReady' = TRUE
  /\ UNCHANGED <<connVars, slotVars, sessVars, capDraining, service, deadline, toVisit, schedulers>>

\* The llama.cpp child exits: readiness is revoked, sessions live on.
LlamaExits ==
  /\ lifeReady
  /\ lifeReady' = FALSE
  /\ UNCHANGED <<connVars, slotVars, sessVars, capDraining, service, deadline, toVisit, schedulers>>

\* Admission and readiness are revoked in one step, before the wait.
ServiceDrains ==
  /\ service = "running"
  /\ service' = "waiting"
  /\ capDraining' = TRUE
  /\ lifeReady' = FALSE
  /\ UNCHANGED <<connVars, slotVars, sessVars, deadline, toVisit, schedulers>>

\* wait_connections_drained(): no registered session is left unsettled.
ConnectionsDrained ==
  /\ service = "waiting"
  /\ \A c \in registered : Settled(c)
  /\ service' = "stopping"
  /\ UNCHANGED <<connVars, slotVars, sessVars, capDraining, deadline, toVisit, lifeReady, schedulers>>

\* The drain deadline passes; registry.states() is read in the same step.
DeadlinePasses ==
  /\ service = "waiting"
  /\ service' = "closing"
  /\ deadline' = registered
  /\ toVisit' = registered
  /\ UNCHANGED <<connVars, slotVars, sessVars, capDraining, lifeReady, schedulers>>

\* Mutant: the loop closes the sessions that drain already instead.
DeadlineCloseDraining(c) ==
  /\ service = "closing"
  /\ c \in toVisit
  /\ toVisit' = toVisit \ {c}
  /\ IF lifecycle[c] = "draining"
     THEN BeginClose(c, "1012")
     ELSE UNCHANGED <<transport, closeCode>>
  /\ UNCHANGED <<handler, slotVars, sessVars, capDraining, service, deadline, lifeReady, schedulers>>

\* The loop closes the transport of each session that is still active. It
\* awaits the close it began itself before it goes on to the next session.
DeadlineClose(c) ==
  /\ service = "closing"
  /\ c \in toVisit
  /\ \A d \in deadline \ toVisit : closeCode[d] = "1012" => transport[d] # "closing"
  /\ toVisit' = toVisit \ {c}
  /\ IF lifecycle[c] = "active"
     THEN BeginClose(c, "1012")
     ELSE UNCHANGED <<transport, closeCode>>
  /\ UNCHANGED <<handler, slotVars, sessVars, capDraining, service, deadline, lifeReady, schedulers>>

DeadlineLoopEnds ==
  /\ service = "closing"
  /\ toVisit = {}
  /\ \A d \in deadline : closeCode[d] = "1012" => transport[d] # "closing"
  /\ service' = "releasing"
  /\ toVisit' = deadline
  /\ UNCHANGED <<connVars, slotVars, sessVars, capDraining, deadline, lifeReady, schedulers>>

\* gather(registry.release(state) for state in states)
DeadlineRelease(c) ==
  /\ service = "releasing"
  /\ c \in toVisit
  /\ toVisit' = toVisit \ {c}
  /\ CallRelease(c)
  /\ UNCHANGED <<connVars, slotVars, slotOf, lifecycle, registered, inEvent, busy,
                 capDraining, service, deadline, lifeReady, schedulers>>

\* Mutant: the threads of the sessions are waited for as well.
ReleasesAndThreadsOver == \A c \in deadline : releaseTask[c] = "none" /\ ~busy[c]

ReleasesOver == \A c \in deadline : releaseTask[c] = "none"

DeadlineReleased ==
  /\ service = "releasing"
  /\ toVisit = {}
  /\ ReleasesOver
  /\ service' = "stopping"
  /\ UNCHANGED <<connVars, slotVars, sessVars, capDraining, deadline, toVisit, lifeReady, schedulers>>

\* The schedulers are closed; their workers are cancelled, threads run on.
SchedulersClose ==
  /\ service = "stopping"
  /\ service' = "stopped"
  /\ schedulers' = "closed"
  /\ UNCHANGED <<connVars, slotVars, sessVars, capDraining, deadline, toVisit, lifeReady>>

-----------------------------------------------------------------------------
HandlerStep(c) ==
  \/ Arrive(c) \/ Reject(c) \/ Admit(c) \/ Refuse(c) \/ VadFactoryFails(c)
  \/ BeginEvent(c) \/ EndEvent(c) \/ SubmitWork(c) \/ WorkDone(c)
  \/ ServeEnds(c) \/ ServeFails(c) \/ FailedServeReleases(c)
  \/ TransportClosed(c) \/ HandlerReleased(c) \/ HandlerDone(c)

ReleaseStep(c) == ReleaseBegins(c) \/ ReleaseDrained(c) \/ ReleaseStuck(c)

\* aclose between its first step and its last.
DrainStep ==
  \/ ConnectionsDrained \/ DeadlinePasses
  \/ \E c \in Conns : DeadlineClose(c) \/ DeadlineRelease(c)
  \/ DeadlineLoopEnds \/ DeadlineReleased

ServiceStep ==
  \/ StartupCompletes \/ LlamaExits \/ ServiceDrains \/ DrainStep \/ SchedulersClose

Next ==
  \/ \E c \in Conns : HandlerStep(c) \/ ReleaseStep(c)
  \/ ServiceStep

Spec == Init /\ [][Next]_vars

\* The event loop runs every ready callback, timers fire, and a closed socket
\* delivers websocket.disconnect. Clients, inference threads, the llama.cpp
\* child and the decision to shut down are not fair.
Fairness ==
  /\ \A c \in Conns :
       /\ WF_vars(Admit(c) \/ Refuse(c))
       /\ WF_vars(ServeEnds(c) /\ transport[c] = "closed")
       /\ WF_vars(FailedServeReleases(c))
       /\ WF_vars(TransportClosed(c))
       /\ WF_vars(HandlerReleased(c))
       /\ WF_vars(HandlerDone(c))
       /\ WF_vars(ReleaseBegins(c))
       /\ WF_vars(ReleaseDrained(c) \/ ReleaseStuck(c))
       /\ WF_vars(DeadlineClose(c))
       /\ WF_vars(DeadlineRelease(c))
  /\ WF_vars(ConnectionsDrained \/ DeadlinePasses)
  /\ WF_vars(DeadlineLoopEnds)
  /\ WF_vars(DeadlineReleased)
  /\ WF_vars(SchedulersClose)

FairSpec == Spec /\ Fairness

-----------------------------------------------------------------------------
(* Properties.                                                             *)

\* The two records of who uses a slot agree: a slot is idle exactly when it has
\* no owner, and its state follows the lifecycle of the session that owns it,
\* through create, release, quarantine and shutdown.
SlotsAgree ==
  /\ \A s \in Slots :
       /\ slotState[s] = "idle" <=> slotOwner[s] = None
       /\ slotOwner[s] # None => /\ slotOf[slotOwner[s]] = s
                                 /\ lifecycle[slotOwner[s]] = slotState[s]
  /\ \A c \in Conns :
       lifecycle[c] \in {"active", "draining", "stuck"} =>
         slotOf[c] # None /\ slotOwner[slotOf[c]] = c

\* A slot is given back only when nothing of its session is left in a shared
\* scheduler: work in flight always belongs to the owner of a slot in use
\* ("drains shared-worker work for that session, [...] and only then returns a
\* slot to idle", docs/architecture.md).
ReuseIsQuiescent ==
  \A c \in Conns : busy[c] =>
    /\ slotOf[c] # None
    /\ slotOwner[slotOf[c]] = c
    /\ slotState[slotOf[c]] # "idle"

\* The shared schedulers are closed under nobody: by then every session is
\* closed or quarantined, and only a quarantined one may still own a thread.
SchedulersOutliveSessions ==
  schedulers = "closed" =>
    \A c \in Conns :
      /\ lifecycle[c] \in {"none", "stuck", "closed"}
      /\ busy[c] => lifecycle[c] = "stuck"

\* A quarantined slot is never reused, and never leaves its session
\* ("it becomes stuck and is quarantined", docs/operations.md).
QuarantineIsFinal ==
  [][\A s \in Slots : slotState[s] = "stuck" =>
       slotState'[s] = "stuck" /\ slotOwner'[s] = slotOwner[s]]_vars

\* The handler and the shutdown may both release a session, in any order: it is
\* drained once, and a settled session never touches its former slot again.
ReleasedOnce ==
  [][\A c \in Conns : Settled(c) =>
       /\ lifecycle'[c] = lifecycle[c]
       /\ releaseTask'[c] = "none"]_vars

\* After a drain has started every handler comes to its end: no connection is
\* left open by a session nobody closes.
HandlersFinish ==
  service = "waiting" ~> \A c \in Conns : handler[c] \in {"away", "done"}

-----------------------------------------------------------------------------
(* The inductive invariant behind the properties above (ServiceProofs).   *)

\* The release task and the lifecycle advance together.
ReleaseFollowsLifecycle ==
  \A c \in Conns :
    /\ releaseTask[c] = "created" => lifecycle[c] = "active"
    /\ releaseTask[c] = "draining" <=> lifecycle[c] = "draining"

\* A connection has a session exactly from its admission on.
SessionFollowsHandler ==
  \A c \in Conns :
    /\ handler[c] \in {"away", "accepting"} => lifecycle[c] = "none"
    /\ handler[c] \in {"serving", "failing", "releasing", "finishing"} => lifecycle[c] # "none"
    /\ lifecycle[c] = "none" => slotOf[c] = None
    /\ lifecycle[c] # "none" => slotOf[c] # None
    /\ c \in registered <=> lifecycle[c] \in {"active", "draining", "stuck"}

\* A session is released under its running consumer only by the shutdown, which
\* has closed the transport first: no event can start work any more.
ServingIsActiveOrClosed ==
  \A c \in Conns :
    /\ inEvent[c] => handler[c] = "serving"
    /\ handler[c] = "serving" =>
         \/ lifecycle[c] = "active" /\ releaseTask[c] = "none"
         \/ transport[c] # "open"

\* How far the shutdown has come, and what it may rely on at each point.
ShutdownProgress ==
  /\ capDraining <=> service # "running"
  /\ schedulers = "closed" <=> service = "stopped"
  /\ toVisit \subseteq deadline
  /\ \A c \in deadline : lifecycle[c] # "none"
  /\ service = "closing" =>
       \A c \in deadline \ toVisit : handler[c] = "serving" => transport[c] # "open"
  /\ service = "releasing" =>
       /\ \A c \in deadline : handler[c] = "serving" => transport[c] # "open"
       /\ \A c \in deadline \ toVisit : Settled(c) \/ releaseTask[c] # "none"
  /\ service \in {"closing", "releasing"} =>
       \A c \in Conns : lifecycle[c] \in {"active", "draining"} => c \in deadline
  /\ service \in {"stopping", "stopped"} =>
       \A c \in Conns : lifecycle[c] \in {"none", "stuck", "closed"}

\* All of it together is inductive; it implies SchedulersOutliveSessions.
IInv ==
  /\ TypeOK
  /\ SlotsAgree
  /\ ReuseIsQuiescent
  /\ ReleaseFollowsLifecycle
  /\ SessionFollowsHandler
  /\ ServingIsActiveOrClosed
  /\ ShutdownProgress

-----------------------------------------------------------------------------
(* The abstract specification this module implements.                      *)

Pool == INSTANCE SlotPool WITH
  Clients     <- Conns,
  Places      <- Slots,
  Nobody      <- None,
  owner       <- slotOwner,
  seen        <- {c \in Conns : slotOf[c] # None},
  working     <- {c \in Conns : busy[c]},
  quarantined <- {s \in Slots : slotState[s] = "stuck"},
  closing     <- capDraining,
  ended       <- schedulers = "closed"

\* Every step of handlers, release tasks, threads and shutdown is one step of
\* the pool or none: a place changes hands only by a claim of a client that
\* never had one, and by a return when its client's last work is over.
ImplementsPool == Pool!Spec

-----------------------------------------------------------------------------
\* docs/protocol.md:87 says of close code 4429 "all configured session slots
\* occupied". A claim refused because the drain began during the handshake is
\* reported the same way although slots are idle (1012 is the drain's code).
FullMeansOccupied ==
  [][\A c \in Conns : closeCode'[c] = "4429" /\ closeCode[c] # "4429" => NoneIdle]_vars
=============================================================================
