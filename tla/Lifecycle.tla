----------------------------- MODULE Lifecycle ------------------------------
(***************************************************************************)
(* The life of the service process: the startup task that loads the models *)
(* one after the other and then starts the schedulers (app.py,             *)
(* lifecycle.py), the watch on the llama-server child, readiness, and the  *)
(* shutdown, which may come while the startup is still loading. Sessions   *)
(* has the drain of the connections that is one step here.                 *)
(***************************************************************************)
EXTENDS LlamaProcess, Naturals

CONSTANT SmartTurn  \* semantic_turn.mode = "smart_turn_v3"

ASSUME LifecycleAssumption == SmartTurn \in BOOLEAN

VARIABLES
  phase,      \* ServiceLifecycle.phase
  starter,    \* the startup task: the phase it is in, or how it has ended
  held,       \* the runtimes that are not None
  watch,      \* _llama_monitor
  cancelled,  \* the startup task has been cancelled and does not know yet
  serving,    \* RealtimeService._started
  draining,   \* RealtimeService._draining
  ttsActive,  \* _active of the TTS runtime, as its close() finds it
  app         \* the lifespan of the application

lifecycleVars == <<phase, starter, held, watch, cancelled, serving, draining, ttsActive, app>>
lifeVars == <<lifecycleVars, llamaVars>>

Loading ==
  {"loading_auth", "verifying_models", "checking_cuda", "starting_llama", "loading_parakeet",
   "loading_qwen", "warming_gemma"} \cup (IF SmartTurn THEN {"loading_smart_turn"} ELSE {})

\* The runtime a stage creates.
Created(stage) ==
  CASE stage = "loading_smart_turn" -> {"smart_turn"}
    [] stage = "starting_llama" -> {"llama"}
    [] stage = "loading_parakeet" -> {"parakeet"}
    [] stage = "loading_qwen" -> {"qwen"}
    [] stage = "warming_gemma" -> {"gemma"}
    [] OTHER -> {}

Runtimes ==
  {"llama", "parakeet", "qwen", "gemma"} \cup (IF SmartTurn THEN {"smart_turn"} ELSE {})

\* The order _close_resources takes them in.
CloseOrder == <<"gemma", "qwen", "parakeet", "smart_turn", "llama">>

LifeTypeOK ==
  /\ LlamaTypeOK
  /\ phase \in Loading \cup {"created", "ready", "draining", "stopping", "stopped", "failed"}
  /\ starter \in Loading \cup {"created", "warmed", "closing", "failed", "cancelled", "done"}
  /\ held \subseteq Runtimes
  /\ watch \in {"none", "waiting", "done"}
  /\ cancelled \in BOOLEAN /\ serving \in BOOLEAN /\ draining \in BOOLEAN
  /\ ttsActive \in BOOLEAN
  /\ app \in {"up", "stopping", "draining", "closing", "raised", "down"}

LifeInit ==
  /\ LlamaInit
  /\ phase = "created" /\ starter = "created" /\ held = {} /\ watch = "none"
  /\ cancelled = FALSE /\ serving = FALSE /\ draining = FALSE
  /\ ttsActive = FALSE /\ app = "up"

LifecycleReady == phase = "ready" /\ "llama" \in held /\ llama = "ready"

\* What /health/ready and admission ask.
RealtimeReady == serving /\ ~draining /\ LifecycleReady

-----------------------------------------------------------------------------
(* The startup task. It learns of its cancellation where it awaits.        *)

Enter(stage) ==
  /\ phase' = stage /\ starter' = stage
  /\ held' = held \cup Created(stage)
  /\ UNCHANGED <<cancelled, serving, draining, ttsActive, app>>

Following(stage) ==
  CASE stage = "loading_auth" -> "verifying_models"
    [] stage = "verifying_models" -> "checking_cuda"
    [] stage = "checking_cuda" -> IF SmartTurn THEN "loading_smart_turn" ELSE "starting_llama"
    [] stage = "loading_smart_turn" -> "starting_llama"
    [] stage = "starting_llama" -> "loading_parakeet"
    [] stage = "loading_parakeet" -> "loading_qwen"
    [] stage = "loading_qwen" -> "warming_gemma"

StartupBegins ==
  /\ starter = "created"
  /\ Enter("loading_auth")
  /\ UNCHANGED <<watch, llamaVars>>

\* The threads of a stage have returned. llama.start() runs to its first await.
StageEnds ==
  /\ ~cancelled
  /\ starter \in Loading \ {"starting_llama", "warming_gemma"}
  /\ Enter(Following(starter))
  /\ IF starter' = "starting_llama" THEN StartLlama ELSE UNCHANGED llamaVars
  /\ UNCHANGED watch

LlamaStartReturns ==
  /\ ~cancelled /\ LlamaStarted
  /\ Enter(Following(starter))
  /\ watch' = "waiting"

\* Mutant: the warm-up takes any child for an answer.
WarmupSkipped == TRUE

WarmupAnswered == child = "alive"

\* The answer of the warm-up is in, the startup task has not run yet.
GemmaAnswers ==
  /\ ~cancelled
  /\ starter = "warming_gemma" /\ WarmupAnswered
  /\ starter' = "warmed"
  /\ UNCHANGED <<phase, held, watch, cancelled, serving, draining, ttsActive, app, llamaVars>>

\* start() returns, and realtime.start() behind it, without an await between.
StartupEnds ==
  /\ ~cancelled /\ starter = "warmed"
  /\ phase' = "ready"
  /\ serving' = (llama = "ready")
  /\ starter' = "done"
  /\ UNCHANGED <<held, watch, cancelled, draining, ttsActive, app, llamaVars>>

FailStartup ==
  /\ phase' = "failed" /\ starter' = "closing" /\ cancelled' = FALSE
  /\ UNCHANGED <<watch, serving, draining, ttsActive, app>>

\* A stage raises, or its cancellation arrives. The thread of a cancelled load goes on
\* and may set the model of its runtime after the close: that is not followed here.
StageFails ==
  /\ starter \in (Loading \ {"starting_llama"}) \cup {"warmed"}
  /\ starter = "warmed" => cancelled
  /\ FailStartup
  /\ UNCHANGED <<held, llamaVars>>

\* llama.start() raises before its first await.
LlamaStartRefused ==
  /\ ~cancelled
  /\ starter \in Loading \ {"warming_gemma"}
  /\ Following(starter) = "starting_llama" /\ StartRefused
  /\ held' = held \cup Created("starting_llama")
  /\ FailStartup

LlamaStartFails ==
  /\ starter = "starting_llama"
  /\ SpawnFails \/ (~cancelled /\ Stopped("aborting"))
  /\ FailStartup
  /\ UNCHANGED held

\* The cancellation reaches start's handler, or the stop() that it awaits.
LlamaStartCancelled ==
  /\ cancelled /\ starter = "starting_llama"
  /\ \/ /\ StartAborts
        /\ cancelled' = FALSE
        /\ UNCHANGED <<phase, starter, held, watch, serving, draining, ttsActive, app>>
     \/ /\ call = "aborting" /\ StopInterrupted
        /\ FailStartup
        /\ UNCHANGED held

LlamaStartProceeds ==
  /\ \/ ~cancelled /\ (Spawned \/ ProbeAnswered)
     \/ ~cancelled /\ call = "probing" /\ StartAborts
  /\ UNCHANGED lifecycleVars

-----------------------------------------------------------------------------
(* _close_resources, called by the startup that failed or by the shutdown. *)

Closing == starter = "closing" \/ app = "closing"

\* Mutant: the clean-up has not been told of the newest runtime.
CloseKnown == held \ {"smart_turn"}

ToClose == held

ClosesNext(r) ==
  /\ r \in ToClose
  /\ \A i, j \in DOMAIN CloseOrder : i < j /\ CloseOrder[j] = r => CloseOrder[i] \notin ToClose

Uncalled == call = "none" /\ ~cancelled

\* A model runtime is let go in one step.
CloseRuntime(r) ==
  /\ r # "llama" /\ (r = "qwen" => ~ttsActive)
  /\ held' = held \ {r}
  /\ UNCHANGED llamaVars

\* llama.stop() runs to its first await, if there is a process to stop.
CloseOne ==
  /\ Closing /\ Uncalled
  /\ \E r \in Runtimes :
       /\ ClosesNext(r)
       /\ \/ CloseRuntime(r)
          \/ r = "llama" /\ StopNothing /\ held' = held \ {"llama"}
          \/ r = "llama" /\ StopLlama /\ UNCHANGED held
  /\ UNCHANGED <<phase, starter, watch, cancelled, serving, draining, ttsActive, app>>

\* close() of a TTS runtime that is active raises, out of _close_resources, of
\* aclose and of the lifespan: what comes later in the order stays.
CloseRaises ==
  /\ app = "closing" /\ Uncalled /\ ClosesNext("qwen") /\ ttsActive
  /\ app' = "raised"
  /\ UNCHANGED <<phase, starter, held, watch, cancelled, serving, draining, ttsActive, llamaVars>>

LlamaStopReturns ==
  /\ Closing /\ ~cancelled /\ Stopped("stopping")
  /\ held' = held \ {"llama"}
  /\ UNCHANGED <<phase, starter, watch, cancelled, serving, draining, ttsActive, app>>

\* The monitor is cancelled and gathered.
CloseEnds ==
  /\ Closing /\ Uncalled /\ ToClose = {}
  /\ watch' = "none"
  /\ IF app = "closing"
       THEN app' = "down" /\ phase' = "stopped" /\ UNCHANGED starter
       ELSE starter' = "failed" /\ UNCHANGED <<app, phase>>
  /\ UNCHANGED <<held, cancelled, serving, draining, ttsActive, llamaVars>>

\* The cancellation finds the startup task closing: it ends there.
CloseCancelled ==
  /\ starter = "closing" /\ cancelled
  /\ starter' = "cancelled" /\ cancelled' = FALSE
  /\ IF call = "none" THEN UNCHANGED llamaVars ELSE StopInterrupted
  /\ UNCHANGED <<phase, held, watch, serving, draining, ttsActive, app>>

-----------------------------------------------------------------------------
(* The watch, the shutdown and the child.                                  *)

WatchSees ==
  /\ watch = "waiting" /\ failure
  /\ watch' = "done"
  /\ phase' = IF phase \in {"stopping", "stopped"} THEN phase ELSE "failed"
  /\ UNCHANGED <<starter, held, cancelled, serving, draining, ttsActive, app, llamaVars>>

StarterOver == starter \in {"failed", "cancelled", "done"}

\* The server stops; a startup task that has not run yet never will.
Shutdown ==
  /\ app = "up"
  /\ app' = "stopping"
  /\ IF starter = "created"
       THEN starter' = "cancelled" /\ UNCHANGED cancelled
       ELSE cancelled' = ~StarterOver /\ UNCHANGED starter
  /\ UNCHANGED <<phase, held, watch, serving, draining, ttsActive, llamaVars>>

\* realtime.aclose revokes admission.
DrainBegins ==
  /\ app = "stopping" /\ StarterOver
  /\ draining' = TRUE
  /\ phase' = IF phase = "ready" THEN "draining" ELSE phase
  /\ app' = "draining"
  /\ UNCHANGED <<starter, held, watch, cancelled, serving, ttsActive, llamaVars>>

\* The connections and the schedulers are gone; lifecycle.aclose begins. A TTS
\* worker cancelled while its thread computes a chunk cannot close the generator,
\* and leaves the runtime active.
DrainEnds ==
  /\ app = "draining"
  /\ serving' = FALSE
  /\ ttsActive' \in (IF serving THEN BOOLEAN ELSE {FALSE})
  /\ phase' = "stopping"
  /\ app' = "closing"
  /\ UNCHANGED <<starter, held, watch, cancelled, draining, llamaVars>>

ChildDies == ChildExits /\ UNCHANGED lifecycleVars
ChildWatched == ExitSeen /\ UNCHANGED lifecycleVars

-----------------------------------------------------------------------------
Starts ==
  \/ StartupBegins \/ StageEnds \/ LlamaStartProceeds \/ LlamaStartReturns \/ GemmaAnswers
  \/ StartupEnds \/ StageFails \/ LlamaStartRefused \/ LlamaStartFails \/ LlamaStartCancelled

Closes == CloseOne \/ CloseRaises \/ LlamaStopReturns \/ CloseEnds \/ CloseCancelled

Watches == WatchSees \/ ChildWatched

Stops == DrainBegins \/ DrainEnds

LifeNext == Starts \/ Closes \/ Watches \/ Stops \/ Shutdown \/ ChildDies

LifeSpec == LifeInit /\ [][LifeNext]_lifeVars

\* Threads and probes return, and a child that is told to stop is killed. Nobody
\* has to stop the service.
LifeFairness ==
  /\ WF_lifeVars(Starts) /\ WF_lifeVars(Closes) /\ WF_lifeVars(Watches)
  /\ WF_lifeVars(llama = "stopping" /\ ChildDies)

\* The drain has a deadline.
LifeFairSpec == LifeSpec /\ LifeFairness /\ WF_lifeVars(Stops)

-----------------------------------------------------------------------------
(* What the start and the end of the service promise.                      *)

Over == app \in {"raised", "down"}

\* A service that calls itself ready has every runtime, and a child whose exit
\* nobody has noticed and somebody would notice, although start() and
\* LlamaProcess.start() set their last state whatever the two watches have set
\* in the meantime (LlamaProcess.start, ServiceLifecycle.start, .ready).
ReadyIsReal ==
  RealtimeReady =>
    /\ held = Runtimes /\ ~failure /\ child # "none"
    /\ exitWatch = "waiting" /\ watch = "waiting"

\* A start that fails, and a shutdown in any phase of the start, also one that
\* cancels the failed start's own clean-up or a llama.stop() half way, leaves
\* no runtime, no child and no task, unless the TTS runtime refuses to be closed
\* (_close_resources, LlamaProcess.stop).
Released ==
  starter = "failed" \/ (Over /\ ~ttsActive)
    => held = {} /\ child = "none" /\ exitWatch = "none" /\ watch = "none"

\* The shutdown comes to its end whatever the startup task is waiting for
\* (create_app's lifespan).
ShutdownEnds == app = "stopping" ~> Over

\* The exit of the child revokes readiness (LlamaProcess._monitor).
ExitRevokes == child = "dead" ~> ~RealtimeReady

\* A started service that has lost its readiness never calls itself ready again,
\* although its two watches, start() and the drain all write the states that
\* readiness is made of, in any order (ServiceLifecycle.ready, _monitor_llama).
ReadinessIsNotRegained == [][serving /\ ~RealtimeReady => ~RealtimeReady']_lifeVars

\* docs/operations.md:18-21 has the service stop the llama-server last of all. It
\* stays, with the runtimes after it, when the TTS runtime refuses to be closed.
ChildIsStopped == Over => child = "none"

-----------------------------------------------------------------------------
(* What makes the invariants inductive (ServiceProofs).                   *)

\* The runtimes there are while a stage runs.
HeldDuring(stage) ==
  CASE stage \in {"loading_auth", "verifying_models", "checking_cuda"} -> {}
    [] stage = "loading_smart_turn" -> {"smart_turn"}
    [] stage = "starting_llama" -> Runtimes \ {"parakeet", "qwen", "gemma"}
    [] stage = "loading_parakeet" -> Runtimes \ {"qwen", "gemma"}
    [] stage = "loading_qwen" -> Runtimes \ {"gemma"}
    [] stage = "warming_gemma" -> Runtimes

\* How far the lifespan has come, and what it has waited for.
LifespanProgress ==
  /\ app \notin {"up", "stopping"} => StarterOver
  /\ draining <=> app \notin {"up", "stopping"}
  /\ serving => starter = "done" /\ app \in {"up", "stopping", "draining"}
  /\ phase = "ready" => starter = "done" /\ app \in {"up", "stopping"}
  /\ cancelled => app = "stopping" /\ starter \in Loading \cup {"warmed", "closing"}
  /\ ttsActive => app \in {"closing", "raised"} /\ "qwen" \in held
  /\ app = "raised" => ttsActive

\* The startup task owns what is held until its end, then the lifespan does.
HeldFollows ==
  /\ starter \in {"created", "failed"} => held = {}
  /\ starter \in Loading => held = HeldDuring(starter)
  /\ starter = "warmed" => held = Runtimes
  /\ starter = "done" /\ app \notin {"closing", "raised", "down"} => held = Runtimes
  /\ app = "down" => held = {} /\ watch = "none"
  /\ starter = "failed" => watch = "none"

\* Who is in start() or stop() of the child, and that its runtime is held then.
CallFollows ==
  /\ call \in {"spawning", "probing", "probed", "aborting"} <=> starter = "starting_llama"
  /\ call = "stopping" => Closing
  /\ child # "none" => "llama" \in held
  /\ call = "stopping" => "llama" \in held

\* Once the child has started nothing hides its exit: the two watches are there
\* or have done their part.
Watched ==
  /\ starter \in {"loading_parakeet", "loading_qwen", "warming_gemma", "warmed"}
     \/ (starter = "done" /\ app \in {"up", "stopping", "draining"})
       => watch = "waiting" \/ (watch = "done" /\ failure)
  /\ (starter = "warmed" \/ (starter = "done" /\ app \in {"up", "stopping", "draining"}))
       /\ llama = "ready" => exitWatch = "waiting" /\ ~failure

LifeInv ==
  /\ LifeTypeOK
  /\ LlamaInv
  /\ ReadyIsReal
  /\ Released
  /\ LifespanProgress
  /\ HeldFollows
  /\ CallFollows
  /\ Watched
=============================================================================
