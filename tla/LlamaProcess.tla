---------------------------- MODULE LlamaProcess ----------------------------
(***************************************************************************)
(* The one llama-server child of the service (llama_process.py): starting  *)
(* it and probing it, watching for its exit, stopping it. Lifecycle calls  *)
(* start and stop; the coroutine that calls them is never in both.         *)
(***************************************************************************)
VARIABLES
  llama,      \* LlamaProcess.state
  child,      \* _process: none, or an alive or dead operating system process
  exitWatch,  \* _monitor_task
  failure,    \* failure_event is set
  call        \* how far a call of start or stop has come

llamaVars == <<llama, child, exitWatch, failure, call>>

LlamaTypeOK ==
  /\ llama \in {"stopped", "starting", "ready", "stopping", "failed"}
  /\ child \in {"none", "alive", "dead"}
  /\ exitWatch \in {"none", "waiting", "done"}
  /\ failure \in BOOLEAN
  /\ call \in {"none", "spawning", "probing", "probed", "aborting", "stopping"}

LlamaInit ==
  /\ llama = "stopped" /\ child = "none" /\ exitWatch = "none"
  /\ failure = FALSE /\ call = "none"

\* start() up to create_subprocess_exec.
StartLlama ==
  /\ llama = "stopped" /\ call = "none"
  /\ llama' = "starting" /\ failure' = FALSE /\ call' = "spawning"
  /\ UNCHANGED <<child, exitWatch>>

Spawned ==
  /\ call = "spawning"
  /\ child' = "alive" /\ exitWatch' = "waiting" /\ call' = "probing"
  /\ UNCHANGED <<llama, failure>>

\* The structured tool call and the answer after it have come back.
ProbeAnswered ==
  /\ call = "probing" /\ child = "alive"
  /\ call' = "probed"
  /\ UNCHANGED <<llama, child, exitWatch, failure>>

\* _wait_until_ready returns, whatever the exit watch has seen meanwhile.
LlamaStarted ==
  /\ call = "probed"
  /\ llama' = "ready" /\ call' = "none"
  /\ UNCHANGED <<child, exitWatch, failure>>

\* The binary or the model file is missing: raised before anything is done.
StartRefused ==
  /\ llama = "stopped" /\ call = "none"
  /\ UNCHANGED llamaVars

\* No process: what stop() sets, and then start's handler.
SpawnFails ==
  /\ call = "spawning"
  /\ llama' = "failed" /\ call' = "none"
  /\ UNCHANGED <<child, exitWatch, failure>>

\* start's handler calls stop(): the probe failed, ran out of time, found the
\* child gone, or was cancelled.
StartAborts ==
  /\ call \in {"probing", "probed"}
  /\ llama' = "stopping" /\ call' = "aborting"
  /\ UNCHANGED <<child, exitWatch, failure>>

\* stop() of a process that is there.
StopLlama ==
  /\ call = "none" /\ child # "none"
  /\ llama' = "stopping" /\ call' = "stopping"
  /\ UNCHANGED <<child, exitWatch, failure>>

\* stop() without one.
StopNothing ==
  /\ call = "none" /\ child = "none"
  /\ llama' = IF llama = "failed" THEN "failed" ELSE "stopped"
  /\ UNCHANGED <<child, exitWatch, failure, call>>

\* process.wait has returned, and then the gathered exit watch.
ProcessGone == child = "dead" /\ exitWatch = "done"

\* The end of stop(), and of start's handler if that called it.
Stopped(by) ==
  /\ call = by /\ ProcessGone
  /\ llama' = IF by = "aborting" THEN "failed" ELSE "stopped"
  /\ child' = "none" /\ exitWatch' = "none" /\ call' = "none"
  /\ UNCHANGED failure

\* A cancellation ends the stop() it meets.
StopInterrupted ==
  /\ call \in {"aborting", "stopping"}
  /\ call' = "none"
  /\ UNCHANGED <<llama, child, exitWatch, failure>>

\* On its own, or by SIGTERM or SIGKILL.
ChildExits ==
  /\ child = "alive"
  /\ child' = "dead"
  /\ UNCHANGED <<llama, exitWatch, failure, call>>

\* Mutant: the condition is inverted.
ExitExpected == llama \in {"stopping", "stopped"}

Unexpected == llama \notin {"stopping", "stopped"}

\* _monitor: process.wait returns.
ExitSeen ==
  /\ exitWatch = "waiting" /\ child = "dead"
  /\ exitWatch' = "done"
  /\ IF Unexpected
       THEN llama' = "failed" /\ failure' = TRUE
       ELSE UNCHANGED <<llama, failure>>
  /\ UNCHANGED <<child, call>>

-----------------------------------------------------------------------------
\* The process and the task that watches it come and go together, and only the
\* exit of this process is on record.
LlamaInv ==
  /\ child = "none" <=> exitWatch = "none"
  /\ exitWatch = "done" => child = "dead"
  /\ call = "spawning" => child = "none" /\ ~failure
  /\ call \in {"probing", "probed", "aborting", "stopping"} => child # "none"
  /\ child # "none" /\ failure => exitWatch = "done"
=============================================================================
