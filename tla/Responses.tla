----------------------------- MODULE Responses -----------------------------
(***************************************************************************)
(* The response lifecycle of one session: VoicePipeline (pipeline.py) with *)
(* its GenerationCancellation (cancellation.py), seen from the tasks that  *)
(* share it. On the event loop run: the consumer of client events, the     *)
(* worker of completed turns, the deferred-response task, one runner per   *)
(* response, the prefix-prefill tasks and the drain of the release task.   *)
(*                                                                         *)
(* A step is a stretch of code between two awaits that suspend.            *)
(* transport.send never suspends: it queues the event or raises.           *)
(***************************************************************************)
EXTENDS Naturals, Sequences, FiniteSets

CONSTANTS
  MaxGens,      \* bound: generations begun in a behaviour
  MaxTurns,     \* bound: turns begun in a behaviour
  MaxPrefills,  \* bound: prefill tasks created in a behaviour; with 1, no prefix is
                \* replaced before the first generation
  Interrupt,    \* SessionState.interrupt_response
  Faults        \* what may happen to the outbound queue: "full", "dead"

ASSUME BoundAssumption == MaxGens \in Nat /\ MaxTurns \in Nat /\ MaxPrefills \in Nat
ASSUME EnvAssumption == Interrupt \in BOOLEAN /\ Faults \subseteq {"full", "dead"}

Gens == 1..MaxGens          \* a generation, its token, response and context
Prefills == 1..MaxPrefills
Starters == {"consumer", "worker", "deferred"}
Cancellers == {"consumer", "drain"}
Awaiters == Starters \cup Cancellers

VARIABLES
  consumer,   \* where the consumer of client events is suspended
  worker,     \* _turn_worker_task
  turns,      \* _completed_turns
  deferred,   \* _deferred_response_task: its progress, its kind, its turn
  runner,     \* _response_task of each generation
  kind,       \* "llm", "speak" (direct_speak), "call" (pending_tool_call)
  turnOf,     \* ResponseContext.turn_revision
  outcome,    \* what the client was told; "lost": finalized, done not sent
  begun,      \* how many generations have been begun
  active,     \* _response, 0 for None; _response_idle is set iff it is 0
  token,      \* GenerationCancellation._current, 0 for None
  starts,     \* the generation a starter suspended in _start_response begins
  waits,      \* the prefill task whose cancellation it awaits
  victim,     \* the generation whose runner a canceller awaits
  prefill,    \* state of each prefill task
  prefillTask,\* _prefill_task, 0 for None
  awaits,     \* the prefill task a runner awaits
  generationStarted, \* _generation_started
  pendingCall,\* state.pending_call: the generation that emitted it, or 0
  turn,       \* state.current_turn_revision
  turnKnown,  \* state.current_turn_id is not None
  speaking,   \* state.speech_start_sample is not None
  draining,   \* _draining
  drain,      \* what drain() awaits
  outbox,     \* the outbound queue: ok, full, or dead (closed, sender gone)
  asked,      \* history: generations cancelled by a client, barge-in or drain
  speechTurn, \* history: the turn of the last speech_started of the VAD
  callTurn    \* history: the turn whose mixed generation made the deferred call

taskVars  == <<consumer, worker, turns, deferred>>
genVars   == <<runner, kind, turnOf, outcome, begun, active, token>>
waitVars  == <<starts, waits, victim>>
fillVars  == <<prefill, prefillTask, awaits, generationStarted>>
turnVars  == <<turn, turnKnown, speaking, speechTurn, callTurn>>
drainVars == <<draining, drain>>
vars == <<taskVars, genVars, waitVars, fillVars, turnVars, drainVars,
          pendingCall, outbox, asked>>

NoDeferred == [pc |-> "none", kind |-> "none", turn |-> 0]
DeferredTasks ==
  [pc : {"none", "created", "waiting", "woken", "starting"},
   kind : {"none", "reply", "call"}, turn : 0..MaxTurns]

TypeOK ==
  /\ consumer \in {"ready", "vad", "updating", "starting", "cancelling",
                   "interrupting", "leaving", "failed", "gone"}
  /\ worker \in {"none", "idle", "transcribing", "starting", "done"}
  /\ turns \in Seq(1..MaxTurns)
  /\ deferred \in DeferredTasks
  /\ runner \in [Gens -> {"none", "created", "prefill", "streaming", "speaking",
                          "cancelled", "unwinding", "failing", "aborting", "done", "dead"}]
  /\ kind \in [Gens -> {"none", "llm", "speak", "call"}]
  /\ turnOf \in [Gens -> 0..MaxTurns]
  /\ outcome \in [Gens -> {"none", "open", "completed", "cancelled", "failed", "lost"}]
  /\ begun \in 0..MaxGens
  /\ active \in 0..MaxGens
  /\ token \in 0..MaxGens
  /\ starts \in [Starters -> 0..MaxGens]
  /\ waits \in [Awaiters -> 0..MaxPrefills]
  /\ victim \in [Cancellers -> 0..MaxGens]
  /\ prefill \in [Prefills -> {"none", "running", "cancelling", "ok", "failed", "cancelled"}]
  /\ prefillTask \in 0..MaxPrefills
  /\ awaits \in [Gens -> 0..MaxPrefills]
  /\ generationStarted \in BOOLEAN
  /\ pendingCall \in 0..MaxGens
  /\ turn \in 0..MaxTurns
  /\ turnKnown \in BOOLEAN
  /\ speaking \in BOOLEAN
  /\ draining \in BOOLEAN
  /\ drain \in {"no", "prefill", "worker", "deferred", "response",
                "schedulers", "done", "failed"}
  /\ outbox \in {"ok", "full", "dead"}
  /\ asked \subseteq Gens
  /\ speechTurn \in 0..MaxTurns /\ callTurn \in 0..MaxTurns

Init ==
  /\ consumer = "ready" /\ worker = "none" /\ turns = <<>> /\ deferred = NoDeferred
  /\ runner = [g \in Gens |-> "none"] /\ kind = [g \in Gens |-> "none"]
  /\ turnOf = [g \in Gens |-> 0] /\ outcome = [g \in Gens |-> "none"]
  /\ begun = 0 /\ active = 0 /\ token = 0
  /\ starts = [a \in Starters |-> 0] /\ waits = [a \in Awaiters |-> 0]
  /\ victim = [a \in Cancellers |-> 0]
  /\ prefill = [p \in Prefills |-> "none"] /\ prefillTask = 0
  /\ awaits = [g \in Gens |-> 0] /\ generationStarted = FALSE
  /\ pendingCall = 0
  /\ turn = 0 /\ turnKnown = FALSE /\ speaking = FALSE /\ speechTurn = 0 /\ callTurn = 0
  /\ draining = FALSE /\ drain = "no"
  /\ outbox = "ok" /\ asked = {}

CanSend == outbox = "ok"

-----------------------------------------------------------------------------
(* Prefix prefill: _schedule_prefix_prefill.                               *)

PrefillOver(p) == prefill[p] \in {"ok", "failed", "cancelled"}

\* The cancelled prefill that a starter awaits has ended.
GatherOver(a) == waits[a] # 0 => PrefillOver(waits[a])

CancelledPrefill(p) == [prefill EXCEPT ![p] = IF @ = "running" THEN "cancelling" ELSE @]

\* A new task replaces _prefill_task.
CreatePrefill ==
  \E p \in Prefills :
    /\ prefill[p] = "none"
    /\ \A q \in Prefills : q < p => prefill[q] # "none"
    /\ prefill' = [prefill EXCEPT ![p] = "running"]
    /\ prefillTask' = p

\* The key is unchanged, or no task exists yet: nothing is awaited.
PrefillAtOnce ==
  \/ prefillTask # 0 /\ UNCHANGED <<prefill, prefillTask>>
  \/ prefillTask = 0 /\ CreatePrefill

\* The key changed: the old task is cancelled and its end awaited.
PrefillReplaced ==
  /\ prefillTask # 0
  /\ \E p \in Prefills : prefill[p] = "none"
  /\ prefill' = CancelledPrefill(prefillTask)
  /\ UNCHANGED prefillTask

\* The llama.cpp request of a prefill task ends, or its cancellation lands.
PrefillEnds(p) ==
  /\ \/ prefill[p] = "running" /\ \E r \in {"ok", "failed"} : prefill' = [prefill EXCEPT ![p] = r]
     \/ prefill[p] = "cancelling" /\ prefill' = [prefill EXCEPT ![p] = "cancelled"]
  /\ UNCHANGED <<taskVars, genVars, waitVars, prefillTask, awaits, generationStarted,
                 turnVars, drainVars, pendingCall, outbox, asked>>

-----------------------------------------------------------------------------
(* _start_response, split at its one suspending await. The callers' own    *)
(* variables are set by the actions that use these operators.              *)

\* Mutant: a pending call is not looked at.
MayReplyOverCall == active = 0

\* The checks at its head, for a caller that gives no direct text.
MayReply == active = 0 /\ pendingCall = 0

\* It hands a reply over to a deferred task while a direct speak is active.
MayDefer == active # 0 /\ kind[active] = "speak" /\ deferred.pc = "none"

DeferReply == deferred' = [pc |-> "created", kind |-> "reply", turn |-> 0]

\* A new generation takes the token. Without a turn, a new turn is opened.
Begin(k) ==
  /\ begun < MaxGens
  /\ turnKnown \/ turn < MaxTurns
  /\ begun' = begun + 1
  /\ token' = begun + 1
  /\ kind' = [kind EXCEPT ![begun + 1] = k]
  /\ turn' = IF turnKnown THEN turn ELSE turn + 1
  /\ turnOf' = [turnOf EXCEPT ![begun + 1] = turn']
  /\ turnKnown' = TRUE
  /\ callTurn' = IF k = "call" THEN deferred.turn ELSE callTurn
  /\ UNCHANGED <<speaking, speechTurn>>

\* The response becomes the session's and is announced; when the event cannot
\* be queued the exception leaves before the runner is created.
Launch(g) ==
  /\ active' = g
  /\ outcome' = [outcome EXCEPT ![g] = IF CanSend THEN "open" ELSE @]
  /\ runner' = [runner EXCEPT ![g] = IF CanSend THEN "created" ELSE @]

\* From the checks to the runner without suspending.
StartAtOnce(k) ==
  /\ Begin(k)
  /\ IF k # "speak" /\ ~generationStarted
     THEN generationStarted' = TRUE /\ PrefillAtOnce
     ELSE UNCHANGED <<generationStarted, prefill, prefillTask>>
  /\ Launch(begun + 1)
  /\ UNCHANGED <<starts, waits, awaits>>

\* The first generation of the session has another prefix than the prefill.
StartSuspends(a, k) ==
  /\ k # "speak" /\ ~generationStarted
  /\ Begin(k)
  /\ PrefillReplaced
  /\ starts' = [starts EXCEPT ![a] = begun + 1]
  /\ waits' = [waits EXCEPT ![a] = prefillTask]
  /\ UNCHANGED <<active, outcome, runner, awaits, generationStarted>>

\* Mutant: the token is taken after the await.
StartResumesWithToken(a) ==
  /\ starts[a] # 0
  /\ GatherOver(a)
  /\ CreatePrefill
  /\ generationStarted' = TRUE
  /\ Launch(starts[a])
  /\ token' = starts[a]
  /\ starts' = [starts EXCEPT ![a] = 0]
  /\ waits' = [waits EXCEPT ![a] = 0]
  /\ UNCHANGED <<kind, turnOf, begun, awaits, turnVars>>

StartResumes(a) ==
  /\ starts[a] # 0
  /\ GatherOver(a)
  /\ CreatePrefill
  /\ generationStarted' = TRUE
  /\ Launch(starts[a])
  /\ starts' = [starts EXCEPT ![a] = 0]
  /\ waits' = [waits EXCEPT ![a] = 0]
  /\ UNCHANGED <<kind, turnOf, begun, token, awaits, turnVars>>

-----------------------------------------------------------------------------
(* _cancel_response, split at the await of the runner.                     *)

\* Mutant: only a response that has begun to stream is cancelled.
CancellableStreaming ==
  active # 0 /\ token # 0 /\ runner[active] \in {"streaming", "speaking"}

\* It has something to do: a response is active and some token is current.
Cancellable == active # 0 /\ token # 0

\* task.cancel(): a runner that has not run its first step never runs at all,
\* and one that is cleaning up after a failure skips the rest of it.
Cancelled(pc) ==
  CASE pc = "created" -> "dead"
    [] pc \in {"prefill", "streaming"} -> "cancelled"
    [] pc = "speaking" -> "unwinding"
    [] pc \in {"unwinding", "failing"} -> "aborting"
    [] OTHER -> pc

CancelBegins(a) ==
  /\ Cancellable
  /\ token' = 0
  /\ asked' = asked \cup {active}
  /\ victim' = [victim EXCEPT ![a] = active]
  /\ runner' = [runner EXCEPT ![active] = Cancelled(@)]
  /\ prefill' = IF runner[active] = "prefill" THEN CancelledPrefill(awaits[active]) ELSE prefill
  /\ UNCHANGED <<kind, turnOf, outcome, begun, active, starts, waits,
                 prefillTask, awaits, generationStarted>>

\* Mutant: a runner cancelled before its first step is waited for as well.
RunnerFinished(g) == runner[g] = "done"

RunnerOver(g) == runner[g] \in {"none", "done", "dead"}

\* The runner has ended; if it has not finalized the response the canceller
\* does (and raises when the events cannot be queued).
CancelTailRaises(a) == outcome[victim[a]] \in {"none", "open"} /\ ~CanSend

CancelEnds(a) ==
  /\ victim[a] # 0
  /\ RunnerOver(victim[a])
  /\ outcome' = [outcome EXCEPT ![victim[a]] =
                   IF CanSend /\ @ \in {"none", "open"} THEN "cancelled" ELSE @]
  /\ token' = IF CanSend /\ token = victim[a] THEN 0 ELSE token
  /\ victim' = [victim EXCEPT ![a] = 0]
  /\ UNCHANGED <<runner, kind, turnOf, begun, active, starts, waits, fillVars, asked>>

-----------------------------------------------------------------------------
(* The consumer: one client event at a time, handle_event.                 *)

CanHandle == consumer = "ready" /\ ~draining

\* The loop is first in, first out: when the consumer waits for a thread or for
\* another task, every runner created before takes its first step meanwhile.
RunnersStarted == \A g \in Gens : runner[g] # "created"

\* An exception other than PipelineEventError ends the session.
ConsumerRaises ==
  /\ consumer' = "failed"
  /\ UNCHANGED <<worker, turns, deferred, genVars, waitVars, fillVars, turnVars,
                 drainVars, pendingCall, outbox, asked>>

\* response.create
CreateStarts ==
  /\ CanHandle /\ MayReply
  /\ \/ StartAtOnce("llm") /\ consumer' = (IF CanSend THEN "ready" ELSE "failed")
     \/ StartSuspends("consumer", "llm") /\ consumer' = "starting"
  /\ UNCHANGED <<worker, turns, deferred, victim, drainVars, pendingCall, outbox, asked>>

CreateResumes ==
  /\ consumer = "starting"
  /\ StartResumes("consumer")
  /\ consumer' = (IF CanSend THEN "ready" ELSE "failed")
  /\ UNCHANGED <<worker, turns, deferred, victim, drainVars, pendingCall, outbox, asked>>

CreateDefers ==
  /\ CanHandle /\ MayDefer
  /\ DeferReply
  /\ UNCHANGED <<consumer, worker, turns, genVars, waitVars, fillVars, turnVars,
                 drainVars, pendingCall, outbox, asked>>

\* Another response is active: ValueError. (A second deferral, or a pending
\* call, is answered with an error event and changes nothing.)
CreateConflicts ==
  /\ CanHandle /\ active # 0 /\ kind[active] # "speak"
  /\ ConsumerRaises

\* response.speak
SpeakStarts ==
  /\ CanHandle /\ active = 0
  /\ StartAtOnce("speak")
  /\ consumer' = (IF CanSend THEN "ready" ELSE "failed")
  /\ UNCHANGED <<worker, turns, deferred, victim, drainVars, pendingCall, outbox, asked>>

SpeakConflicts ==
  /\ CanHandle /\ active # 0
  /\ ConsumerRaises

\* response.cancel names a response the client was told of, whose runner has
\* therefore started. With the active response it must match, or the session
\* ends; a generation that is no longer current is left alone.
CancelArrives(g) ==
  /\ CanHandle /\ g = active
  /\ runner[g] # "created" /\ outcome[g] # "none"
  /\ token = g
  /\ CancelBegins("consumer")
  /\ consumer' = "cancelling"
  /\ UNCHANGED <<worker, turns, deferred, turnVars, drainVars, pendingCall, outbox>>

CancelMismatches(g) ==
  /\ CanHandle /\ active # 0 /\ g # active /\ outcome[g] # "none"
  /\ ConsumerRaises

CancelReturns ==
  /\ consumer = "cancelling"
  /\ CancelEnds("consumer")
  /\ consumer' = (IF CancelTailRaises("consumer") THEN "failed" ELSE "ready")
  /\ UNCHANGED <<worker, turns, deferred, turnVars, drainVars, pendingCall, outbox>>

\* session.update: configures the session, and prefills its prefix again while
\* nothing was generated.
UpdateArrives ==
  /\ CanHandle /\ ~generationStarted
  /\ \/ PrefillAtOnce /\ UNCHANGED waits /\ consumer' = (IF CanSend THEN "ready" ELSE "failed")
     \/ /\ PrefillReplaced
        /\ waits' = [waits EXCEPT !["consumer"] = prefillTask]
        /\ consumer' = "updating"
  /\ UNCHANGED <<worker, turns, deferred, genVars, starts, victim, awaits, generationStarted,
                 turnVars, drainVars, pendingCall, outbox, asked>>

UpdateResumes ==
  /\ consumer = "updating"
  /\ GatherOver("consumer")
  /\ CreatePrefill
  /\ waits' = [waits EXCEPT !["consumer"] = 0]
  /\ consumer' = (IF CanSend THEN "ready" ELSE "failed")
  /\ UNCHANGED <<worker, turns, deferred, genVars, starts, victim, awaits, generationStarted,
                 turnVars, drainVars, pendingCall, outbox, asked>>

\* conversation.item.create with the output of the pending call: the exchange
\* is committed, then acknowledged. Refused while a generated response is
\* active.
OutputArrives ==
  /\ CanHandle /\ pendingCall # 0
  /\ active # 0 => kind[active] = "speak"
  /\ pendingCall' = 0
  /\ consumer' = (IF CanSend THEN "ready" ELSE "failed")
  /\ UNCHANGED <<worker, turns, deferred, genVars, waitVars, fillVars, turnVars,
                 drainVars, outbox, asked>>

\* input_audio_buffer.append: the VAD runs in a thread.
AudioArrives ==
  /\ CanHandle /\ RunnersStarted
  /\ consumer' = "vad"
  /\ UNCHANGED <<worker, turns, deferred, genVars, waitVars, fillVars, turnVars,
                 drainVars, pendingCall, outbox, asked>>

VadHearsNothing ==
  /\ consumer = "vad"
  /\ consumer' = "ready"
  /\ UNCHANGED <<worker, turns, deferred, genVars, waitVars, fillVars, turnVars,
                 drainVars, pendingCall, outbox, asked>>

\* _speech_started: a new turn, which drops a pending call and, when the
\* session interrupts, cancels the active response before it is announced.
SpeechStarts ==
  /\ consumer = "vad" /\ ~speaking /\ turn < MaxTurns
  /\ turn' = turn + 1 /\ turnKnown' = TRUE /\ speaking' = TRUE /\ speechTurn' = turn + 1
  /\ pendingCall' = 0
  /\ IF Interrupt /\ Cancellable
     THEN CancelBegins("consumer") /\ consumer' = "interrupting"
     ELSE /\ consumer' = (IF CanSend THEN "ready" ELSE "failed")
          /\ UNCHANGED <<genVars, waitVars, fillVars, asked>>
  /\ UNCHANGED <<worker, turns, deferred, callTurn, drainVars, outbox>>

SpeechAnnounced ==
  /\ consumer = "interrupting"
  /\ CancelEnds("consumer")
  /\ consumer' = (IF CanSend THEN "ready" ELSE "failed")
  /\ UNCHANGED <<worker, turns, deferred, turnVars, drainVars, pendingCall, outbox>>

\* _speech_stopped and _complete_turn: turn t is queued for its worker, which
\* is created if need be. The queue holds 4 turns; MaxTurns is kept below it.
CompleteTurn(t) ==
  IF CanSend
  THEN /\ turns' = Append(turns, t)
       /\ worker' = IF worker \in {"none", "done"} THEN "idle" ELSE worker
       /\ speaking' = FALSE
       /\ consumer' = "ready"
  ELSE /\ speaking' = TRUE
       /\ consumer' = "failed"
       /\ UNCHANGED <<turns, worker>>

SpeechStops ==
  /\ consumer = "vad" /\ speaking
  /\ CompleteTurn(turn)
  /\ UNCHANGED <<deferred, genVars, waitVars, fillVars, turn, turnKnown, speechTurn, callTurn,
                 drainVars, pendingCall, outbox, asked>>

\* input_audio_buffer.commit ends the turn being spoken, or makes a turn of
\* the buffered audio without touching the response or a pending call.
CommitArrives ==
  /\ CanHandle
  /\ \/ speaking /\ UNCHANGED <<turn, turnKnown>>
     \/ ~speaking /\ turn < MaxTurns /\ turn' = turn + 1 /\ turnKnown' = TRUE
  /\ CompleteTurn(turn')
  /\ UNCHANGED <<deferred, genVars, waitVars, fillVars, speechTurn, callTurn, drainVars,
                 pendingCall, outbox, asked>>

\* input_audio_buffer.clear
AudioCleared ==
  /\ CanHandle
  /\ turnKnown' = FALSE /\ speaking' = FALSE
  /\ UNCHANGED <<taskVars, genVars, waitVars, fillVars, turn, speechTurn, callTurn, drainVars,
                 pendingCall, outbox, asked>>

\* The receiver ended: the consumer is cancelled wherever it is suspended. A
\* gather it awaits cancels its children once more, and ends when they do.
ConsumerCancelled ==
  /\ consumer \notin {"failed", "leaving", "gone"}
  /\ consumer' = "leaving"
  /\ starts' = [starts EXCEPT !["consumer"] = 0]
  /\ runner' = IF victim["consumer"] = 0 THEN runner
               ELSE [runner EXCEPT ![victim["consumer"]] = Cancelled(@)]
  /\ UNCHANGED <<worker, turns, deferred, kind, turnOf, outcome, begun, active, token,
                 waits, victim, fillVars, turnVars, drainVars, pendingCall, outbox, asked>>

ConsumerLeaves ==
  /\ consumer = "leaving" /\ RunnersStarted
  /\ GatherOver("consumer")
  /\ victim["consumer"] # 0 => RunnerOver(victim["consumer"])
  /\ consumer' = "gone"
  /\ victim' = [victim EXCEPT !["consumer"] = 0]
  /\ waits' = [waits EXCEPT !["consumer"] = 0]
  /\ UNCHANGED <<worker, turns, deferred, genVars, starts, fillVars, turnVars, drainVars,
                 pendingCall, outbox, asked>>

\* The handler reports the failure and closes the transport, then releases.
HandlerCloses ==
  /\ consumer = "failed" /\ RunnersStarted
  /\ consumer' = "gone"
  /\ outbox' = "dead"
  /\ UNCHANGED <<worker, turns, deferred, genVars, waitVars, fillVars, turnVars,
                 drainVars, pendingCall, asked>>

Consumer ==
  \/ CreateStarts \/ CreateResumes \/ CreateDefers \/ CreateConflicts
  \/ SpeakStarts \/ SpeakConflicts
  \/ \E g \in Gens : CancelArrives(g) \/ CancelMismatches(g)
  \/ CancelReturns \/ UpdateArrives \/ UpdateResumes \/ OutputArrives
  \/ AudioArrives \/ VadHearsNothing \/ SpeechStarts \/ SpeechAnnounced
  \/ SpeechStops \/ CommitArrives \/ AudioCleared
  \/ ConsumerCancelled \/ ConsumerLeaves \/ HandlerCloses

-----------------------------------------------------------------------------
(* The worker of completed turns: _run_completed_turns.                    *)

WorkerTakes ==
  /\ worker = "idle" /\ turns # <<>>
  /\ worker' = "transcribing"
  /\ UNCHANGED <<consumer, turns, deferred, genVars, waitVars, fillVars, turnVars,
                 drainVars, pendingCall, outbox, asked>>

\* The final transcript arrived and is announced; the turn is answered unless
\* it is empty or a later turn has begun.
Transcribed == worker = "transcribing" /\ CanSend
Answerable == Transcribed /\ ~draining /\ turn = Head(turns)

TurnSkipped ==
  /\ Transcribed
  /\ worker' = "idle" /\ turns' = Tail(turns)
  /\ UNCHANGED <<consumer, deferred, genVars, waitVars, fillVars, turnVars,
                 drainVars, pendingCall, outbox, asked>>

TurnReplied ==
  /\ Answerable /\ MayReply
  /\ \/ StartAtOnce("llm") /\ worker' = "idle" /\ turns' = Tail(turns)
     \/ StartSuspends("worker", "llm") /\ worker' = "starting" /\ UNCHANGED turns
  /\ UNCHANGED <<consumer, deferred, victim, drainVars, pendingCall, outbox, asked>>

TurnDeferred ==
  /\ Answerable /\ MayDefer
  /\ DeferReply
  /\ worker' = "idle" /\ turns' = Tail(turns)
  /\ UNCHANGED <<consumer, genVars, waitVars, fillVars, turnVars, drainVars,
                 pendingCall, outbox, asked>>

TurnReplyResumes ==
  /\ worker = "starting"
  /\ StartResumes("worker")
  /\ turns' = Tail(turns)
  /\ worker' = (IF CanSend THEN "idle" ELSE "done")
  /\ UNCHANGED <<consumer, deferred, victim, drainVars, pendingCall, outbox, asked>>

\* STT failed, an event could not be queued, or _start_response refused: the
\* worker reports the failure, closes the transport and ends.
TurnFails ==
  /\ worker = "transcribing"
  /\ worker' = "done" /\ turns' = Tail(turns)
  /\ outbox' = IF CanSend THEN "dead" ELSE outbox
  /\ UNCHANGED <<consumer, deferred, genVars, waitVars, fillVars, turnVars,
                 drainVars, pendingCall, asked>>

Worker ==
  WorkerTakes \/ TurnSkipped \/ TurnReplied \/ TurnDeferred \/ TurnReplyResumes \/ TurnFails

-----------------------------------------------------------------------------
(* The deferred task: _start_response_after_direct_speak for a reply and   *)
(* _start_tool_call_response for the call of a mixed generation.           *)

TurnIsCurrent == turnKnown /\ turn = deferred.turn
\* Mutant: the call of a mixed generation is started whatever was said since.
WantedAnyway == deferred.kind \in {"reply", "call"}
Wanted == deferred.kind = "call" => TurnIsCurrent

\* It waits until no response is active; once woken it does not look again.
DeferredWaits ==
  /\ deferred.pc = "created" /\ active # 0 /\ Wanted
  /\ deferred' = [deferred EXCEPT !.pc = "waiting"]
  /\ UNCHANGED <<consumer, worker, turns, genVars, waitVars, fillVars, turnVars,
                 drainVars, pendingCall, outbox, asked>>

Awake == deferred.pc = "woken" \/ (deferred.pc = "created" /\ active = 0)

DeferredStarts ==
  /\ Awake /\ Wanted /\ ~draining /\ MayReply
  /\ \/ /\ StartAtOnce(IF deferred.kind = "call" THEN "call" ELSE "llm")
        /\ deferred' = NoDeferred
     \/ /\ deferred.kind = "reply"
        /\ StartSuspends("deferred", "llm")
        /\ deferred' = [deferred EXCEPT !.pc = "starting"]
  /\ UNCHANGED <<consumer, worker, turns, victim, drainVars, pendingCall, outbox, asked>>

DeferredResumes ==
  /\ deferred.pc = "starting"
  /\ StartResumes("deferred")
  /\ deferred' = NoDeferred
  /\ UNCHANGED <<consumer, worker, turns, victim, drainVars, pendingCall, outbox, asked>>

\* Draining, a call whose turn is over, or a conflict: a call is dropped
\* silently, a reply with an error event.
DeferredDrops ==
  /\ \/ Awake /\ (draining \/ ~MayReply)
     \/ deferred.pc \in {"created", "woken"} /\ ~Wanted
  /\ deferred' = NoDeferred
  /\ UNCHANGED <<consumer, worker, turns, genVars, waitVars, fillVars, turnVars,
                 drainVars, pendingCall, outbox, asked>>

Deferred == DeferredWaits \/ DeferredStarts \/ DeferredResumes \/ DeferredDrops

-----------------------------------------------------------------------------
(* The runner of a generation: _run_response, _run_speak_response and      *)
(* _run_tool_call_response.                                                *)

\* _finalize_response, then the finally block, which clears _response only if
\* it is still this one and so sets _response_idle.
RunnerEnds(g, result) ==
  /\ runner' = [runner EXCEPT ![g] = "done"]
  /\ outcome' = [outcome EXCEPT ![g] = IF @ = "open" THEN result ELSE @]
  /\ token' = IF token = g /\ outcome'[g] \notin {"open", "lost"} THEN 0 ELSE token
  /\ active' = IF active = g THEN 0 ELSE active
  /\ awaits' = [awaits EXCEPT ![g] = 0]
  /\ UNCHANGED <<kind, turnOf, begun>>

WakeDeferred(g) ==
  deferred' = IF active = g /\ deferred.pc = "waiting"
              THEN [deferred EXCEPT !.pc = "woken"] ELSE deferred

\* The done event of a runner whose events cannot be queued never leaves; the
\* flag `finalized` may have been set before the send raised.
EndsCancelled(g) == \E r \in IF CanSend THEN {"cancelled"} ELSE {"open", "lost"} : RunnerEnds(g, r)
EndsFailed(g) == RunnerEnds(g, IF CanSend THEN "failed" ELSE "open")

\* _emit_tool_call: the call is pending before it is announced.
EmitsCall(g) ==
  /\ pendingCall' = g
  /\ \E r \in IF CanSend THEN {"completed"} ELSE {"open", "lost"} : RunnerEnds(g, r)

RunnerGoes(g, pc) ==
  /\ runner' = [runner EXCEPT ![g] = pc]
  /\ awaits' = [awaits EXCEPT ![g] = IF pc = "prefill" THEN prefillTask ELSE 0]
  /\ UNCHANGED <<kind, turnOf, outcome, begun, active, token, deferred, pendingCall>>

\* The first await: the prefill task, when the session has one.
AfterPrefill(g, state) ==
  \/ state \in {"none", "ok"} /\ RunnerGoes(g, "streaming")
  \/ state = "failed" /\ EndsFailed(g) /\ WakeDeferred(g) /\ UNCHANGED pendingCall
  \/ state = "cancelled" /\ EndsCancelled(g) /\ WakeDeferred(g) /\ UNCHANGED pendingCall

ReplyBegins(g) ==
  /\ runner[g] = "created" /\ kind[g] = "llm"
  /\ \/ prefillTask = 0 /\ AfterPrefill(g, "none")
     \/ prefillTask # 0 /\ PrefillOver(prefillTask) /\ AfterPrefill(g, prefill[prefillTask])
     \/ prefillTask # 0 /\ ~PrefillOver(prefillTask) /\ RunnerGoes(g, "prefill")

PrefillAwaited(g) ==
  /\ runner[g] = "prefill"
  /\ PrefillOver(awaits[g])
  /\ AfterPrefill(g, prefill[awaits[g]])

\* A direct speak sends its text and starts its TTS at once.
SpeakBegins(g) ==
  /\ runner[g] = "created" /\ kind[g] = "speak"
  /\ IF CanSend THEN RunnerGoes(g, "speaking")
     ELSE EndsFailed(g) /\ WakeDeferred(g) /\ UNCHANGED pendingCall

CallBegins(g) ==
  /\ runner[g] = "created" /\ kind[g] = "call"
  /\ IF token = g THEN EmitsCall(g) ELSE EndsCancelled(g) /\ UNCHANGED pendingCall
  /\ WakeDeferred(g)

\* The first text of the stream creates the TTS task and is sent.
TextArrives(g) ==
  /\ runner[g] = "streaming" /\ token = g
  /\ RunnerGoes(g, IF CanSend THEN "speaking" ELSE "failing")

\* The stream ends with nothing but a call.
CallArrives(g) ==
  /\ runner[g] = "streaming"
  /\ EmitsCall(g) /\ WakeDeferred(g)

\* llama.cpp fails, or returns nothing.
StreamFails(g) ==
  /\ runner[g] = "streaming"
  /\ EndsFailed(g) /\ WakeDeferred(g) /\ UNCHANGED pendingCall

\* An event of the stream finds its token replaced.
FindsItselfStale(g) ==
  /\ token # g
  /\ \/ /\ runner[g] = "streaming"
        /\ EndsCancelled(g) /\ WakeDeferred(g) /\ UNCHANGED pendingCall
     \/ runner[g] = "speaking" /\ kind[g] = "llm" /\ RunnerGoes(g, "unwinding")

\* Everything was spoken. The call of a mixed generation is deferred, unless
\* the session drains or the place of the deferred task is taken.
SpeechEnds(g) ==
  /\ runner[g] = "speaking" /\ CanSend
  /\ RunnerEnds(g, "completed")
  /\ \/ WakeDeferred(g)
     \/ /\ kind[g] = "llm" /\ ~draining /\ deferred.pc = "none"
        /\ deferred' = [pc |-> "created", kind |-> "call", turn |-> turnOf[g]]
  /\ UNCHANGED pendingCall

\* The text, its speech or the sending of them fails: the TTS task is
\* cancelled and awaited.
SpeechFails(g) ==
  /\ runner[g] = "speaking"
  /\ \E o \in IF CanSend THEN {outcome[g]} ELSE {outcome[g], "lost"} :
       outcome' = [outcome EXCEPT ![g] = o]
  /\ runner' = [runner EXCEPT ![g] = "failing"]
  /\ UNCHANGED <<kind, turnOf, begun, active, token, awaits, deferred, pendingCall>>

FailureReported(g) ==
  /\ runner[g] = "failing"
  /\ EndsFailed(g) /\ WakeDeferred(g) /\ UNCHANGED pendingCall

\* CancelledError is handled: what it awaited has ended.
CancellationHandled(g) ==
  /\ \/ runner[g] = "cancelled" /\ (awaits[g] # 0 => PrefillOver(awaits[g]))
     \/ runner[g] = "unwinding"
  /\ EndsCancelled(g) /\ WakeDeferred(g) /\ UNCHANGED pendingCall

\* Cancelled again while it was cleaning up: only the finally block is left.
CleanupAborted(g) ==
  /\ runner[g] = "aborting"
  /\ RunnerEnds(g, "open") /\ WakeDeferred(g) /\ UNCHANGED pendingCall

RunnerStep(g) ==
  \/ ReplyBegins(g) \/ PrefillAwaited(g) \/ SpeakBegins(g) \/ CallBegins(g)
  \/ TextArrives(g) \/ CallArrives(g) \/ StreamFails(g) \/ FindsItselfStale(g)
  \/ SpeechEnds(g) \/ SpeechFails(g) \/ FailureReported(g)
  \/ CancellationHandled(g) \/ CleanupAborted(g)

Runner(g) ==
  /\ RunnerStep(g)
  /\ UNCHANGED <<consumer, worker, turns, waitVars, prefill, prefillTask,
                 generationStarted, turnVars, drainVars, outbox, asked>>

-----------------------------------------------------------------------------
(* drain(), called by the release task. Each stage it finds is cancelled   *)
(* and awaited before the next is looked at; absent stages do not suspend. *)

\* _serve_session is over, or the shutdown closed the transport under it.
Released == consumer = "gone" \/ outbox = "dead"

PrefillPassed  == IF drain = "no" THEN Released /\ prefillTask = 0
                  ELSE GatherOver("drain")
WorkerPassed   == /\ PrefillPassed
                  /\ IF drain \in {"no", "prefill"} THEN worker = "none" ELSE GatherOver("worker")
\* Mutant: drain() forgets the deferred task.
DeferredIgnored == WorkerPassed
DeferredPassed == /\ WorkerPassed
                  /\ IF drain \in {"no", "prefill", "worker"} THEN deferred.pc = "none"
                     ELSE GatherOver("deferred")

DrainReaches(stage) ==
  /\ draining' = TRUE
  /\ drain' = stage
  /\ prefillTask' = IF drain = "prefill" THEN 0 ELSE prefillTask

DrainAwaitsPrefill ==
  /\ drain = "no" /\ Released /\ prefillTask # 0
  /\ DrainReaches("prefill")
  /\ prefill' = CancelledPrefill(prefillTask)
  /\ waits' = [waits EXCEPT !["drain"] = prefillTask]
  /\ UNCHANGED <<taskVars, genVars, starts, victim, awaits, generationStarted, turnVars,
                 pendingCall, outbox, asked>>

DrainCancelsWorker ==
  /\ drain \in {"no", "prefill"} /\ PrefillPassed
  /\ worker # "none"
  /\ DrainReaches("worker")
  /\ worker' = "none"
  /\ starts' = [starts EXCEPT !["worker"] = 0]
  /\ UNCHANGED <<consumer, turns, deferred, genVars, waits, victim, prefill, awaits,
                 generationStarted, turnVars, pendingCall, outbox, asked>>

DrainCancelsDeferred ==
  /\ drain \in {"no", "prefill", "worker"} /\ WorkerPassed
  /\ deferred.pc # "none"
  /\ DrainReaches("deferred")
  /\ deferred' = NoDeferred
  /\ starts' = [starts EXCEPT !["deferred"] = 0]
  /\ UNCHANGED <<consumer, worker, turns, genVars, waits, victim, prefill, awaits,
                 generationStarted, turnVars, pendingCall, outbox, asked>>

\* The queued turns are dropped in the same stretch.
DrainCancelsResponse ==
  /\ drain \in {"no", "prefill", "worker", "deferred"} /\ DeferredPassed
  /\ draining' = TRUE /\ drain' = "response" /\ turns' = <<>>
  /\ CancelBegins("drain")
  /\ UNCHANGED <<consumer, worker, deferred, turnVars, pendingCall, outbox>>

DrainFindsNoResponse ==
  /\ drain \in {"no", "prefill", "worker", "deferred"} /\ DeferredPassed
  /\ ~Cancellable
  /\ DrainReaches("schedulers")
  /\ turns' = <<>>
  /\ UNCHANGED <<consumer, worker, deferred, genVars, waitVars, prefill, awaits,
                 generationStarted, turnVars, pendingCall, outbox, asked>>

\* When the last events of the response cannot be queued, drain() raises and
\* the release quarantines the slot.
DrainPassesResponse ==
  /\ drain = "response"
  /\ CancelEnds("drain")
  /\ drain' = IF CancelTailRaises("drain") THEN "failed" ELSE "schedulers"
  /\ UNCHANGED <<taskVars, turnVars, draining, pendingCall, outbox>>

\* The schedulers confirm the session idle; the cancellation state is reset.
DrainReturns ==
  /\ drain = "schedulers"
  /\ drain' = "done"
  /\ token' = 0
  /\ UNCHANGED <<taskVars, runner, kind, turnOf, outcome, begun, active, waitVars,
                 fillVars, turnVars, draining, pendingCall, outbox, asked>>

Drain ==
  \/ DrainAwaitsPrefill \/ DrainCancelsWorker \/ DrainCancelsDeferred
  \/ DrainCancelsResponse \/ DrainFindsNoResponse \/ DrainPassesResponse \/ DrainReturns

-----------------------------------------------------------------------------
(* The outbound queue as the pipeline sees it (WebSocketTransport.send).   *)

QueueFills  == outbox = "ok" /\ "full" \in Faults /\ outbox' = "full"
QueueDrains == outbox = "full" /\ outbox' = "ok"
QueueDies   == outbox # "dead" /\ "dead" \in Faults /\ outbox' = "dead"

Outbox ==
  /\ QueueFills \/ QueueDrains \/ QueueDies
  /\ UNCHANGED <<taskVars, genVars, waitVars, fillVars, turnVars, drainVars,
                 pendingCall, asked>>

-----------------------------------------------------------------------------
Next ==
  \/ Consumer \/ Worker \/ Deferred \/ Drain \/ Outbox
  \/ \E g \in Gens : Runner(g)
  \/ \E p \in Prefills : PrefillEnds(p)

Spec == Init /\ [][Next]_vars

\* The event loop resumes what has nothing left to await; llama.cpp requests
\* end (the HTTP client times out), and so does the speech of a response, with
\* the two exceptions that Speech shows. Clients, speakers and the network owe nothing, and a
\* finished turn need not be transcribed in time.
Fairness ==
  /\ \A g \in Gens : WF_vars(Runner(g))
  /\ \A p \in Prefills : WF_vars(PrefillEnds(p))
  /\ WF_vars(CreateResumes \/ UpdateResumes \/ CancelReturns \/ SpeechAnnounced
             \/ ConsumerLeaves \/ HandlerCloses)
  /\ WF_vars(TurnReplyResumes) /\ WF_vars(Deferred) /\ WF_vars(Drain)

FairSpec == Spec /\ Fairness

-----------------------------------------------------------------------------
(* Properties. All but NewestKeepsToken and EverythingEnds are stated of   *)
(* sessions in which no prefix is replaced (MaxPrefills = 1): with a       *)
(* replaced one StartsWhenFree fails, and OneProducer and others with it.  *)

Told == {"completed", "cancelled", "failed"}

\* Announced to a client that is still there, and not ended towards it.
Open(g) == outcome[g] = "open" /\ outbox # "dead" /\ consumer \notin {"leaving", "gone"}

\* At most one generation can still produce text, speech or a call, whichever
\* of the three tasks started it.
Producing(g) == runner[g] \in {"created", "prefill", "streaming", "speaking"}
OneProducer == \A g, h \in Gens : Producing(g) /\ Producing(h) => g = h

\* Once speech_started was announced, no response of an earlier turn is open:
\* barge-in reaches the response whatever its runner awaits and whoever
\* started it (_speech_started, _cancel_response).
BargeInSilences ==
  Interrupt /\ consumer # "interrupting" =>
    \A g \in Gens : Open(g) => turnOf[g] >= speechTurn

\* A call spoken over is never left pending: neither one emitted before the
\* caller spoke nor the deferred call of a mixed generation.
PendingCallIsCurrent ==
  Interrupt /\ pendingCall # 0 =>
    (IF kind[pendingCall] = "call" THEN callTurn ELSE turnOf[pendingCall]) >= speechTurn

\* While a call waits for its output no reply is generated, by any of the
\* three tasks that start replies; a direct speak may run meanwhile.
PendingCallBlocksReplies ==
  pendingCall # 0 => \A g \in Gens : kind[g] = "llm" => ~Producing(g)

\* Who may produce: one generation, and with a call pending no reply. Three
\* tasks start responses, each after awaits of its own (_start_response,
\* _start_response_after_direct_speak, _run_completed_turns).
ProducersInv == TypeOK /\ OneProducer /\ PendingCallBlocksReplies

\* When drain() goes on to wait for the schedulers, every task of the session
\* that could still give them work has ended, and no prefill of the session runs
\* in llama.cpp either: its slot is handed to the next session together with
\* the session slot.
DrainQuiesces ==
  drain \in {"schedulers", "done"} =>
    /\ \A g \in Gens : ~Producing(g)
    /\ deferred.pc = "none" /\ worker = "none" /\ turns = <<>>
    /\ \A p \in Prefills : prefill[p] \notin {"running", "cancelling"}

\* The newest generation keeps the token, in whatever order suspended starters
\* resume: an older one finds itself stale instead of speaking over it.
NewestKeepsToken == token \in {0, begun}

\* Again and again no announced response is left open towards the client and no
\* drain under way: each ends, whoever cancels it and whatever it waits for, given
\* that its speech ends (_finalize_response, _cancel_response, drain; Speech has
\* the segment queue that can keep it from that).
EverythingEnds ==
  []<>(/\ \A g \in Gens : ~Open(g)
       /\ draining => drain \in {"done", "failed"})

-----------------------------------------------------------------------------
(* What the documents promise and the code does not keep.                  *)

\* The plugin treats a response.created before the last response.done as fatal,
\* "server created overlapping responses": at most one response is open.
OneOpenResponse ==
  \A g, h \in Gens : Open(g) /\ Open(h) => g = h

\* _start_response raises "a response is already active for this session": a
\* response is announced only when none is active.
StartsWhenFree ==
  [][\A g \in Gens : outcome[g] = "none" /\ outcome'[g] = "open" => active = 0]_vars

\* docs/architecture.md: "cancellation can discard stale text and audio without
\* suppressing a subsequent response". A response ends cancelled only if
\* somebody cancelled it.
CancelledOnlyOnRequest ==
  ~draining => \A g \in Gens : outcome[g] = "cancelled" => g \in asked

\* The same promise: a response that is over leaves the session free for the
\* next one.
OverMeansFree == ~draining /\ active # 0 => outcome[active] \notin Told

\* docs/runtime-lifecycle.md: "A timeout quarantines the slot": a drain does
\* not fail for another reason.
DrainFailsOnlyLate == drain # "failed"

\* docs/protocol.md: "`response.done` terminates exactly one response". While
\* the client is served, an ended runner has told it the end of its response.
RunnerTellsTheEnd ==
  \A g \in Gens :
    runner[g] = "done" /\ consumer = "ready" /\ outbox # "dead"
      => outcome[g] \in Told
=============================================================================
