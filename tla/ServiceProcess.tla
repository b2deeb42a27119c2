--------------------------- MODULE ServiceProcess ---------------------------
(***************************************************************************)
(* The whole service process: Sessions and Lifecycle, which share          *)
(* readiness and the two ends of the drain. The lifespan of the            *)
(* application (app.py) awaits the startup task, then                      *)
(* RealtimeService.aclose, then ServiceLifecycle.aclose; everything else   *)
(* interleaves.                                                            *)
(***************************************************************************)
EXTENDS Sessions, Lifecycle

drainVars == <<capDraining, service, deadline, toVisit, schedulers>>
serviceVars == <<vars, lifeVars>>

ServiceInit == Init /\ LifeInit

\* What RealtimeService.ready asks besides its own _draining.
Serviceable == serving /\ LifecycleReady

\* The startup task, the watches, the close and the child, whatever the
\* sessions do meanwhile.
LifecycleMoves ==
  /\ Starts \/ Closes \/ Watches \/ Shutdown \/ ChildDies
  /\ lifeReady' = Serviceable'
  /\ UNCHANGED <<connVars, slotVars, sessVars, drainVars>>

SessionsMove ==
  /\ DrainStep \/ \E c \in Conns : HandlerStep(c) \/ ReleaseStep(c)
  /\ UNCHANGED lifeVars

\* aclose revokes admission and readiness in one step.
DrainStarts == DrainBegins /\ ServiceDrains

\* Mutant: the lifespan starts the drain and does not await it.
DrainUnawaited ==
  /\ DrainEnds
  /\ UNCHANGED vars

\* The schedulers close, and the lifespan goes on to the runtimes. Only the work
\* of a session can have left the TTS runtime active.
DrainCompletes ==
  /\ DrainEnds /\ SchedulersClose
  /\ ttsActive' => \E c \in Conns : slotOf[c] # None

ServiceNext == LifecycleMoves \/ SessionsMove \/ DrainStarts \/ DrainCompletes

ServiceSpec == ServiceInit /\ [][ServiceNext]_serviceVars

\* The fairness of the two, and a lifespan that goes on when what it awaits ends.
ServiceFairSpec ==
  /\ ServiceSpec
  /\ Fairness /\ LifeFairness
  /\ WF_serviceVars(DrainStarts) /\ WF_serviceVars(DrainCompletes)

-----------------------------------------------------------------------------
\* A session that is being served or drained has every runtime loaded, the
\* schedulers running and nobody stopping the child: no start that fails and no
\* shutdown takes them away under it, in whatever order the lifespan, the drain and
\* the handlers proceed (create_app's lifespan, RealtimeService.start and aclose).
SessionsHaveRuntimes ==
  \A c \in Conns : lifecycle[c] \in {"active", "draining"} =>
    held = Runtimes /\ schedulers = "open" /\ call = "none"

-----------------------------------------------------------------------------
(* What makes it inductive (ServiceProofs).                                *)

\* The two halves agree on readiness and on how far the shutdown has come.
HalvesAgree ==
  /\ lifeReady <=> Serviceable
  /\ service = "running" <=> app \in {"up", "stopping"}
  /\ service = "stopped" <=> app \in {"closing", "raised", "down"}

\* Nobody is let in before the start is over.
AdmittedAfterStart ==
  \A c \in Conns : handler[c] = "accepting" \/ slotOf[c] # None => starter = "done"

ServiceInv ==
  /\ IInv
  /\ LifeInv
  /\ SessionsHaveRuntimes
  /\ HalvesAgree
  /\ AdmittedAfterStart
=============================================================================
