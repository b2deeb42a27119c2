# Verification of livekit-hugging-voice

TLA+ modules for the GPU service and for the LiveKit plugin that talks to it,
the TLC runs that check them on small instances, and TLAPS proofs of what holds
for every size. Paths below are relative to the repository; `SVC` stands for
`services/gpu-service/src/hugging_voice_service`, "plugin" for
`packages/livekit-plugins-hugging-voice/livekit/plugins/hugging_voice`.

## 1. Inventory

One GPU-service process serves a bounded number of WebSocket sessions. Apart
from model inference, which runs in threads, everything runs on one asyncio
event loop, so state changes hands only where a coroutine suspends. That is
where most of the hard behaviour of this code lies: a task that checks, awaits
and then acts; a task cancelled at an await nobody thought of; two tasks that
both believe they are next.

| Part | Source | State | Operations | Correct means |
|---|---|---|---|---|
| Slot capacity, session registry | `SVC/capacity.py`, `SVC/sessions.py` | slots (idle, active, draining, stuck), sessions, one release task per session | claim, create, release, quarantine, drain | a slot is reused only when nothing of its old session is left; a stuck slot never; a session is drained once |
| WebSocket handler, service drain | `SVC/realtime.py` | per connection: receiver, consumer, bounded queues; the service's `aclose` | handshake, admission, serve, close, drain with deadline | the drain ends, every handler ends, the shared workers outlive the sessions |
| Response lifecycle | `SVC/pipeline.py` | active response and its runner, generation token, prefill task, completed turns, deferred task, pending call | create, speak, cancel, barge-in, tool call, defer, drain | one producer; barge-in silences; announced responses end; a drain leaves no task behind |
| Speech path of a response | `SVC/pipeline.py` | bounded segment queue, speech task | cut, put, synthesize, unwind | nothing lost, nothing spoken after the end, no deadlock |
| Generation cancellation | `SVC/cancellation.py` | the current token | start, cancel, finish, is_current | an outdated generation never passes for the current one |
| STT scheduler | `SVC/schedulers/stt.py` | two classes of queues, one worker | submit, cancel, wait idle, close | no final is overtaken for ever, no job lost, idle is final |
| TTS scheduler, Qwen runtime | `SVC/schedulers/tts.py`, `SVC/runtimes/qwen_tts.py` | queue per session, rotating order, one job per worker | submit, cancel generation or session, wait idle, close | one worker per session, finals before fillers, rotation, no job lost |
| Turn scheduler | `SVC/schedulers/turn.py` | queue per session, a worker restarted lazily | submit, cancel, wait idle, close | as STT, and no job without a worker |
| Turn detection, partial transcripts | `SVC/pipeline.py` 370-1010 | open turn, candidate task, fallback timer, partial task, queue of completed turns | append, VAD decisions, semantic verdict, fallback, commit, clear, drain | a turn is completed once, by whichever verdict is current, in order; an ended turn reaches its transcription; silence ends it |
| VAD, input buffer | `SVC/runtimes/silero.py`, `SVC/sessions.py` | counters; audio with its absolute position | process, advance; append, slice, discard | a turn's audio is still there when the turn ends |
| Conversation | `SVC/conversation.py` | bounded history, pending call | add, trim, invalidate | the client's copy and the service's agree |
| Service lifecycle, llama.cpp child | `SVC/lifecycle.py`, `SVC/llama_process.py`, `SVC/app.py` | startup phase, runtimes, two watches on the child | start, monitor, close, drain | readiness only with everything up; partial failure unwinds; shutdown ends |
| Plugin session | plugin `realtime.py` | connection, outbound queue, pending request, response with its channels | connect, send, generate, say, interrupt, retry, close | a request is answered once; a response's channels are closed; nothing of an old connection is applied to a new one |
| Plugin chat context | plugin `realtime.py` | chat context, acknowledgements, invalidated calls | update, replay, invalidate | confirmed context survives a reconnect; no call stays pending on one side |
| Segmenter, llama.cpp chat client | `SVC/text_segmenter.py`, `SVC/runtimes/llama_cpp_chat.py` | text cut so far; stream so far | pure functions of a stream | agreement with a reference definition (not modelled yet) |
| The rest | configuration, authentication, telemetry, protocol schemas, model download, resampling, probing | none over time | validation and I/O | not modelled |

How they interact. The handler claims a slot and creates the session, then runs
two tasks: a receiver that fills a bounded inbound queue and a consumer that
calls `VoicePipeline.handle_event` for each event, in order. The pipeline
creates tasks of its own: a worker for completed turns, a runner and a speech
task per response, a prefill task, a task for a deferred response. They share
the fields of the pipeline without locks. Runners and the turn worker await
futures of the shared schedulers, whose workers run inference in threads.
Events for the client go to the bounded outbound queue of the transport;
`send` never suspends, it raises when the queue is full or closed. When a
handler ends, or the drain of the service passes its deadline, the registry's
release task drains the pipeline, which cancels and awaits each of these tasks
and then waits for the schedulers, before the slot is returned to idle; a drain
that fails or times out makes the slot `stuck`.

The plugin holds one WebSocket at a time and three tasks for it (sender,
receiver, audio conversion) under one main task that reconnects. LiveKit calls
into it from the same loop and reads channels that the receiver fills. After a
reconnect the plugin replays its chat context before it accepts anything new.

`PROJECT.json` lists the hazards that follow, each at its line, with the
properties that would catch it.

## 2. Modules

| Module | Models |
|---|---|
| `Sessions` | capacity, registry, handler and `RealtimeService.aclose` |
| `SlotPool` | what the service promises about its slots: claimed once per client, returned only when the client's work is over, or quarantined; `Sessions` implements it |
| `Responses`, `ResponsesProofs` | one session's `VoicePipeline` from client events to `drain`: its responses |
| `Speech`, `SpeechProofs` | the segment queue inside one response |
| `TurnDetection`, `TurnDetectionProofs` | the same pipeline from appended audio to completed turns, and the drain of those tasks. It composes `TurnScheduler`, `Vad` and `AudioBuffer` |
| `TurnScheduler` | the smart-turn scheduler that the detection tasks of all sessions share |
| `Vad` | the counters of the voice activity detector, as operators on a record |
| `AudioBuffer` | the bounded input buffer, as operators on a record |
| `SttScheduler`, `MCSttScheduler`, `SttSchedulerProofs` | STT scheduling; a history of who was overtaken; its theorems |
| `TtsScheduler`, `MCTtsScheduler`, `TtsSchedulerProofs` | TTS scheduling with the reentrance guard of the runtime; the same history; its theorems |
| `Lifecycle` | startup stages, readiness, the close of the runtimes. It composes `LlamaProcess` |
| `ServiceProcess`, `ServiceProofs` | the whole process: `Sessions` and `Lifecycle` under the lifespan of the application; the theorems of both, that `Sessions` implements `SlotPool`, and that the process implements all three |
| `LlamaProcess` | the llama-server child and the task that watches it |
| `PluginSession`, `PluginSessionProofs` | the plugin's connection, requests, responses, interruption and close, over a transport and an abstract service |
| `PluginContext`, `PluginContextProofs` | the plugin's chat context and the service's conversation, over a connection that may be lost |

A step is a stretch of code between two awaits that really suspend. In this
code `transport.send` and an uncontended `asyncio.Lock` do not suspend. A
`gather` does, over finished tasks too: the service runs on Python 3.11, where
even then the result arrives by a callback of the loop. So do threads, queues
that are full or empty, and futures. Each module names the places where
a coroutine can be suspended as the values of one variable (`handler`,
`service`, `consumer`, `runner`, `drain`, `worker`, `task`, `starter`, `run`), and has one action for
each stretch. `PROJECT.json` maps every definition to its lines.

The modules meet at interfaces each of them states: `Sessions` sees the work of
a pipeline as "a shared scheduler is busy with this session" and its drain as a
step that ends or fails; `Responses` drains to the point where it waits for the
schedulers; the schedulers start from there (`release`) and answer with "the
session is idle". `IdleIsFinal` in the schedulers is what `ReuseIsQuiescent` in
`Sessions` relies on. `TurnDetection` ends where a completed turn is taken from
its queue; there `Responses` begins. `Sessions` and
`Lifecycle` each leave out the other: to `Sessions` readiness comes and goes, to
`Lifecycle` the drain is one step. `ServiceProcess` is their composition: its steps
are the steps of one, or the three that both take, and `lifeReady` of `Sessions` is
what `ServiceLifecycle.ready` says. `PluginSession` and `Responses` meet in the events of a response:
the plugin is checked against a service with one response at a time, which
`OneOpenResponse` of `Responses` says the service is (and section 5 where it is
not).

### Abstractions

- `Sessions`: payloads, authentication and protocol errors are one failure of
  the handler. Inference threads may never return. Cancellation of handlers by
  the ASGI server at process exit is left out.
- `Responses`: conversation contents, replay of function calls and
  `tools_frozen` are left out; a turn is a number; the
  VAD hears speech begin and end whenever it likes. The outbound queue is ok,
  full or dead. A `response.cancel` carries two ids the client learns from
  `response.created`, so it follows the first step of the runner: the loop is
  first in, first out, and the client's event needs at least one more turn of
  it. `RunnersStarted` states the same for steps that wait for a thread. The
  model still interleaves a little more than the loop does. How a turn comes to its
  end is `TurnDetection`'s: here speech stops, or a commit arrives, at any time.
  Whether a caller may interrupt is fixed for a session.
- `Speech`: the segmenter cuts any number of segments; segments are numbers.
- `SttScheduler`: a session awaits one final at a time and may submit no second
  partial, so a queue is a set of sessions. Jobs are stale from the moment the drain
  of their session begins (`release` is "draining"), before it cancels them.
- `Sessions`: `busy` is an inference thread. What a consumer that is suspended in the
  VAD hands to a scheduler after the deadline's drain has begun is stale, the workers
  drop it before a thread sees it, and so it is left out.
- `Vad`: `process_pcm16` is called with samples that complete at most one window, and
  so gives at most one signal; a longer append can give several.
- `TtsScheduler`: a session has one generation at a time (`Responses` is about
  that); a job whose waiter was cancelled stays queued until it is dropped.
- `TurnDetection`: a window of audio is speech or silence, as the model of the
  VAD decides; samples are counted, never stored. A counter that is only
  compared with a remembered value (`_turn_candidate_id`, `partial_epoch`) is a
  flag of the task that remembers it. A window gives at most one signal.
  `PartialEnabled` is `transcription.partial_enabled`; where it is set, a partial
  transcript may become due at the end of any append to an open turn. In the
  instances the padding is shorter than the minimum silence, as in every
  configuration the repository ships (200 ms and 250 ms). `drain` begins when the
  consumer has been cancelled; the deadline's drain under a consumer that is still
  there is left out.
- `TurnScheduler`: a session has one job at a time, because a detection task
  awaits its verdict; other sessions submit whenever they like.
- `Lifecycle`: a stage creates one runtime or fails; probing, warming and
  loading are steps. Of the runtimes' own `close()` only the one that refuses,
  that of an active TTS runtime, is modelled; what leaves it active is
  `TtsScheduler`'s `runtime`, here any outcome of a drain after a session. A load
  that is cancelled in its thread lets go of its runtime at once; in the code the
  thread goes on, and may set the model again after `close()` (`lifecycle.py:357-369`,
  `479-488`).
- `ServiceProcess`: nothing is abstracted beyond its parts.
- `PluginSession`: a call that is refused at once changes nothing and is left
  out; text and audio of a response are one kind of delta; the transport keeps
  the order and loses what is under way when it fails. An attempt to connect
  ends within its own timeout.
- `PluginContext`: one update of the context is under way at a time, nothing is
  interrupted between a call and its `response.done`, and a coroutine that has
  been woken runs before a reconnect completes. Configuration updates and calls
  that LiveKit adds from outside are left out.

## 3. Runs

| Run | Instance | Asks |
|---|---|---|
| `sessions` | 2 connections, 2 slots | `IInv`: slots and sessions agree, a reused slot is quiescent, the schedulers outlive the sessions; quarantine is final, released once; it implements `SlotPool`; every handler ends |
| `responses` | 2 generations, 2 turns, 1 prefill, transport may die | `ProducersInv`: one producer, none while a call is pending; barge-in silences; the pending call is current; a drain leaves nothing behind |
| `responses_live` | 2 generations, 1 turn, 2 prefills | with a replaced prefill, the newest generation keeps the token; announced responses and drains end |
| `stt` | 3 sessions, one of them with partials, 2 jobs | `IInv`: no job lost, idle is final; a waiting final is only overtaken again and again by two sessions with smaller ids in turn; it is answered unless two such go on for ever; released sessions become idle |
| `tts` | 2 sessions, 2 workers, 2 generations, 3 jobs, both faults | `IInv`: order matches queues, one worker per session, no job lost, idle is final; rotation; finals before fillers; finals and drains end |
| `speech` | queue of 8, up to 10 segments, synthesis may fail | `SpeechInv`: nothing lost, late or out of order; responses that can end do |
| `turns` | both modes, 2 sessions on the scheduler, queue of 1 turn, windows of 3 samples, padding of 2, buffer of 12, positions up to 15, 2 turns | `IInv`: no queued job without a worker, idle is final; slices hold in fixed-silence mode; turns in order and once; a turn that has ended is dropped only in the steps `Drops` lists; partials are current; silence ends a turn |
| `service` | all eight stages, 2 connections, 1 slot | `ServiceInv`: the invariants of sessions and lifecycle, and that they agree; what was created is released; no session is without its runtimes; the shutdown ends, whatever stage, session or thread it meets; the child's exit revokes readiness |
| `plugin` | 2 connections, 1 retry, 2 requests, 2 responses, queues of 1 and 2 | `SessionInv`: open channels belong to the current response, no false overlap; a disconnect leaves nothing; no request crosses connections; every request is answered; a session that closes is closed one day (not: has closed everything, see `ClosedIsClean`) |
| `plugin_context` | 5 items, 2 connections, history of 3 | `ContextInv`: a replay is always accepted; what was confirmed is there; both sides agree on the pending call |
| `responses_poisoned`, `turns_slices` | | see section 5; expected to be violated |

Why the bounds are enough. Two connections and two slots give reuse of a slot by
another session and two sessions that the deadline visits one after the other;
the safety of `Sessions` is proved for any number of both. Two generations give
every conflict between an old and a new response; two turns let a turn queue
behind the one that is answered. Three sessions are what it takes for the STT
round-robin to start again at the first id while a later one waits, which is where it
is no round-robin (section 5); two places let that happen and make a third submission
fail. The capacity of the segment queue is the code's
own, and ten segments overfill it. In `responses` one prefill means that nothing
replaces the prefix of the session before its first generation; with two,
`StartsWhenFree` fails and takes `ProducersInv` and `DrainQuiesces` with it, so
`responses_live` asks what is left. Its single turn means that it contains no
barge-in of a second turn. In `turns` the buffer holds more than `Keep` and less
than the positions there are, so it is trimmed both ways; a queue of one turn
makes the second completion wait for room; two verdicts reach the forced end. The
padding is less than the closing silence and less than a window, and no multiple of
what the VAD counts in: a turn begins before its first window, so that its start may
lie before the end of the last turn or before what is left of the buffer, and only the clamp
of `pipeline.py:539-549` keeps it inside (without it, `FixedSilenceSlicesHold` fails in
the run). Both runs on turns transcribe partially, which adds behaviours and takes none away. In
`service` two connections on one slot give a refusal, a slot that is used again and
a session that drains while another waits for its place; its stages are the code's
eight. In `plugin` a second connection meets what the
first left, and a channel of one command is full while another is sent. In
`plugin_context` five items are a call, its output, a message on each side and
one more, which exceeds the history.

Larger instances were checked once and are not part of the runs, for their time:
`Responses` with three generations, two turns and one prefill on a healthy
transport (15.7 million states; the properties of `responses` hold);
`EverythingEnds` with barge-in, for one generation with two turns and two
prefills (784,000 states) and for two generations with two turns and one prefill
(two million); `TtsScheduler` with three sessions on one worker
(`NobodyOvertakesTwice` holds); `ServiceProcess` without the turn model
(`SmartTurn = FALSE`), and with `ReadinessIsNotRegained`.

`CHECK_DEADLOCK FALSE` is set everywhere because every behaviour may end: a
session closes, a service stops, bounded inputs run out. That nothing stops too
early is what the liveness properties say.

### Fairness

Weak fairness only, on what the event loop, timers and threads that are known
to return will do, never on clients, speakers or the network.

- `Sessions`: ready callbacks run, timers fire, a closed socket delivers a
  disconnect. Inference threads, the llama.cpp child and the decision to shut
  down are not fair.
- `Responses`: suspended tasks resume once what they await is over; llama.cpp
  requests end because the HTTP client has a timeout; speech ends, with the
  exceptions `Speech` shows.
- `SttScheduler`, `TtsScheduler`: the worker tasks run and an inference returns.
  Nobody has to submit, to leave or to close. Frames need not fail.
- `Speech`: the model's stream ends or fails, a synthesis returns or fails.
- `TurnDetection`: the consumer, the detection tasks, the timer, the turn worker,
  the drain and the scheduler go on. Nobody has to speak, to send audio or to
  hang up, but once a task has closed the transport the consumer ends.
- `ServiceProcess`: that of `Sessions`, and the startup task, the closing task and the watches go on, a child
  that is told to stop is killed (`llama_process.py` falls back to `kill`). The
  child need not die on its own, and nobody has to stop the service. `ShutdownEnds` must
  hold although a thread of a session never returns to its scheduler; that the close
  of a runtime ends is assumed, and `ParakeetRuntime.close` does wait for a thread
  that is still in it.
- `PluginSession`: only the timeout of a request, the steps of a close and an
  attempt to connect, which has a timeout. The receiver, the sender and the
  service may stall for ever: `EveryRequestAnswered` and `CloseEnded` must hold
  all the same.

## 4. Proofs

Proved for every value of the constants, from the assumptions on them only: at
least one slot and at most 64, the empty owner is no connection; at least one
STT session and one place, the same for turn verdicts; the name of "no session"
is no TTS session's id; a verdict and a place for a completed turn at least, and
more audio kept than one window (`DetectionAssumption`: two verdicts, four
places, two seconds against 32 ms in `config.py` and `pipeline.py`); bounds are
natural numbers. A theorem that needs more says so in its `ASSUME`.

`ServiceProofs`. The safety properties of `Sessions` are not inductive: that a
slot returns to idle with nothing left in the schedulers depends on the
consumer of its session having stopped submitting. It stops because its handler
ended, or because the shutdown closed its transport before it released the
session under the running consumer. `IInv` says so: besides `TypeOK`,
`SlotsAgree` and `ReuseIsQuiescent` it has

- `ReleaseFollowsLifecycle`: a release task that is created belongs to an active
  session, one that drains to a draining session;
- `SessionFollowsHandler`: a connection has a session exactly from its admission
  on, and keeps its slot number;
- `ServingIsActiveOrClosed`: a handler still serves only an active session with
  no release, or a closed transport;
- `ShutdownProgress`: what the shutdown may rely on at each of its awaits; which
  sessions it has closed, which it has released, which it need not visit.

`InductiveInvariant` is proved by one lemma for each group of conjuncts and one
step for each action; it states the property `IInv` of the run. `SlotsAgreeAlways`, `ReuseIsQuiescentAlways`,
`SchedulersOutliveSessionsAlways` and `TypeCorrect` follow from it, and the
action properties `QuarantineIsFinalAlways` and `ReleasedOnceAlways` from it and
the step.

`Implements` proves that `Sessions` implements `SlotPool` under the mapping
`Pool` (a place is a slot, its owner the session, working clients the sessions a
scheduler is busy with): an admission is a `Claim`, a scheduler's work begins
and ends, `ReleaseDrained` is a `Return`, `ReleaseStuck` a `Quarantine`,
`ServiceDrains` shuts the pool and `SchedulersClose` ends it, everything else is
a stutter. It needs `IInv`: a slot may be returned because its session has no
work (`ReuseIsQuiescent`), and the pool may end because only quarantined places
are left (`ShutdownProgress`).

`LifeInv` is the invariant of `Lifecycle`. That what was created is released
(`Released`) and that readiness is real (`ReadyIsReal`) depend on who owns what at
each moment, as the startup task may fail, be cancelled, and be cancelled again while
it closes what it has created:

- `LlamaInv`: the child and the task that watches it come and go together;
- `LifespanProgress`: what the lifespan has waited for; a cancellation is only
  pending for a startup task that lives;
- `HeldFollows`: the runtimes there are in each stage, and that the startup task has
  left none when it has failed;
- `CallFollows`: who is in `start()` or `stop()` of the child, whose runtime is held
  then: `StartLlama` and `StopLlama` are never called into each other;
- `Watched`: once the child has started, both watches are there or have done their
  part. With it, `start()` can set its last phase over what a watch has set and
  readiness is still real.

`LifeInvAlways`, `ReadyIsRealAlways` and `ReleasedAlways` follow, and
`ReadinessIsNotRegainedAlways`, as readiness comes with `StartupEnds` only.

`ServiceInv` adds to both invariants `HalvesAgree` (`lifeReady` of `Sessions` is what
`Lifecycle` says, and both are at the same place of the shutdown) and
`AdmittedAfterStart`. From these `SessionsHaveRuntimesAlways`: a session is there only
between the end of the start and the end of the drain, and there everything is held.
`ImplementsSessions` and `ImplementsLifecycle` prove that the process refines either
part (`ServiceStepMaps`): every step of one is a step of the other or nothing to it;
`StartupEnds` is what `Sessions` calls `StartupCompletes`, the loss of readiness what
it calls `LlamaExits`. So whatever is proved of the parts holds of the process, and
`ServiceImplementsPool` follows.

`SttSchedulerProofs`. `IInv` adds to `TypeOK`, `PendingHasJob` and `IdleIsFinal`
that the worker is running exactly while there is an active job: without it an
idle session could have a job that the worker is about to report.
`PendingHasJobAlways` and `IdleIsFinalAlways` follow.
`OvertakenByEarlierOnlyAlways` is what there is of a round-robin for any number of
sessions, and the reason behind the hypothesis of `FinalsAnswered`. It rests on
`Rotation`, of every waiting final: a session with a larger id has begun at most one
job since, and the rotation has not come round to it again (`LaterOnce`); of those with
a smaller id that have begun one, the first cannot begin another before a second of
them has (`EarlierInTurn`); and nobody overtakes itself. `WhoIsNext` says of `_next_session` what
it must of the choice, `PartialsYield` that no partial begins before a waiting final.
That the stronger `NobodyOvertakesTwice` is false with three sessions is in section 5.

`TtsSchedulerProofs`. `IInv` adds to `TypeOK`, `OneWorkerPerSession`,
`OrderIsQueues`, `PendingHasJob` and `IdleIsFinal`

- `JobsBelong`: a queued job somebody awaits is of its session's current
  generation, so that `cancel_generation` for an older one cannot take it;
- `WorkerHasJob`: a worker between taking and ending a job holds one;
- `OverIsOver`: nothing is queued after the close, and no generation lives once
  the drain of its session waits.

Most of the work is about the two structures of `_next_job`: the order of the
sessions and the queue of each. The lemmas say what remains of a sequence without
repetitions when it is rotated (`RotatedAt`), a member is removed or
added (`Removed`, `AppendedAt`), or the stale jobs are filtered out (`Selected`).
`FinalsBeforeFillerAlways` needs `OrderIsQueues`: a session missing from the
order could have a final segment that the search does not see.

`NobodyOvertakesTwiceAlways` is about the rotation, for any number of sessions and
workers. Why nobody is overtaken twice is in `Rotation`: a session that has
overtaken a waiting one comes after it in the order, so that it can only be taken
first once that one has been taken. `TakenFirst` says the same of the search: who is
taken has no waiting session before it. That a cancellation, a retirement, an
arrival and the rotation itself keep who comes before whom are `RemovedAhead`,
`AppendedAhead` and `RotatedAhead`.

`TurnDetectionProofs`. `Inv` is about the composition of the pipeline with the
scheduler all sessions share. `SchedulerInv`, `TurnsInOrder` and
`PartialIsCurrent` are not inductive without the three other parts of `IInv`:

- `OneDecides`: of the candidate and the fallback timer at most one lives, and the
  consumer ends a turn itself only when neither does; so nobody can be overtaken
  between completing a turn and queueing it;
- `Completed`: an open turn is not completed, everything queued, answered or on
  its way to the queue is, so that the next turn is newer than all of them;
- `DrainOrder`: what the drain has passed stays gone. The candidate can only
  submit before its session is forgotten, which keeps `ReleasedIsIdle`.

Of the types `Inv` only has the shapes of the records (`Shapes`): the order of the
steps does not depend on the audio's positions. The lemmas go by
who steps: a step that completes nothing (`OrderStays`), one that queues a turn
(`OrderGrows`), `_speech_stopped` and `_complete_turn` (`StopSpeechKeeps`), then
each action of the consumer, the detection tasks, the workers and the drain.
`TurnsInOrderAlways`, `PartialIsCurrentAlways`, `SchedulerInvAlways` and
`DrainOrderAlways` follow. The rest of the module is about the audio, and rests
on `Inv`:

- `Typed` is the type invariant with what it needs to be one: an open turn has a
  verdict left, a detection task ends nothing but a turn, the rest of a window is
  shorter than a window. `TypedAlways` and `IInvAlways` follow.
- `Sound` is why no slice is cut out of a buffer that has been trimmed past it: in
  a session that ends its turns by silence, and in one that judges its pauses and
  transcribes no part of a turn. `Aligned` relates the positions of
  the VAD to those of the buffer (what is buffered has been heard or waits for
  its window, an empty buffer counts from zero, the open turn and its pause lie
  within the buffer); `Placed` says for each place of the consumer what the
  positions in its hand may be. A pause that is judged outlives many steps of the
  consumer: `Judges` says that as long as its turn is the open one, the pause lies
  within it and within the buffer, so that a verdict, the fallback timer or a forced
  end finds the turn's audio. It holds because the consumer only trims while no turn
  is open, and because a turn is cut out in the step that closes it (`Partless`: no
  task waits for a partial transcript). Where one does, that step is two, and
  `SlicesHold` is false (section 5). `FixedSilenceSlicesHold` says itself that it is
  about `Pad < MinSilence`, which the code does not enforce (section 5), so
  `FixedSilenceSlicesHoldAlways` has no hypothesis; `SlicesHoldAlways` has that one and
  `~PartialEnabled`. The shipped configurations satisfy both.
- `Resumable` is why speech that is resumed never takes back a turn on its way to
  the queue. `TakenBack` alone is not inductive: that no task which ends a turn is
  left when speech is resumed needs `Spoken` (while a task queues the turn before,
  the open turn is in speech, and its next pause takes that task back first),
  which needs `Heard` and `Named`. `ResumptionLosesNoTurnAlways` follows.
- `Kept` is the step of `EndedTurnsKept`. Who ends a turn or queues one adds to what
  is owed (`StopOwes`, `EnqueueOwes`), everyone else leaves it as it is (`OwedStays`), but
  for those who cancel the detection tasks: the drain and the end of the session, a
  discard and a commit, which `Drops` names; the next pause, whose turn is newer than
  all that is owed (`Completed` in `Inv`); and resumed speech, which by `Resumable`
  finds none of them with a turn to queue. `EndedTurnsKeptAlways` follows.

`SpeechProofs`. `SpeechInv` is inductive as it stands. `NothingLost` carries the
proof: it says for each place of the two tasks how many segments are still to be
put, queued or spoken, whoever stops whom; `Handover` is what the runner and the
speech task know of each other. The lemmas say what a `put` and a `get` do to the
numbers in the queue; then each task's steps, the unwinding and the cancellation.

`PluginSessionProofs`. `IInv` is `SessionInv` with `DisconnectIsClean` and
without `NoFalseOverlap`, which is what `InOrder` says of the next message.
`InOrder` is about the whole stream of messages under way: the end of each
response, and of the plugin's own, comes before the next one. It is kept when the
service says more (`InOrderCreated`, `InOrderSaid`: a response begins only when the one before has
been ended), when a message is taken off (`InOrderTaken`), and when LiveKit
interrupts, which ends the response for the plugin only. `NoStaleRequestAlways`
needs `QueuedIsCurrent`: what is not audio is queued for this connection or, before
the first, for that one.

`PluginContextProofs`. The chat context and the service's conversation are apart most
of the time, and each property says when they must agree again. `IInv` is what holds
of them whatever is under way:

- `Fresh`, `Underway`: an item reaches the context once, by an update or by an event;
  of an update one addition is in one place, and an answer on its way is about it;
- `Exchanged`: in the context, a call that is not invalidated is answered before the
  next one, its output follows it and is its only one;
- `Interrupted` (connected): a call that is open for the plugin is the pending one,
  or the acknowledgement of its output or speech is on its way; a new call is only
  announced after such speech. This is what keeps `Exchanged` when the call arrives;
- `Continued` (bootstrap): what is still to be sent continues what has been, in the
  order of `Exchanged`, so that the service accepts it (`ReplayAccepted`).

`ContextInvAlways` follows. The other direction, that the plugin knows of the
service's pending call, is `PendInv`; `PendingAgreesAlways` has the hypotheses
`~BootUpdates` and `~ManualTurns`, as either breaks it (section 5). For
`ContextAgreesAlways`, `HistoryInv` says that whatever the plugin would replay, has
an acknowledgement for, or is told is in the conversation or the conversation has
been full, but for a filler that it will hear with a call open and leave out. That the
call will be open then needs `PendInv`, so it has the hypothesis `~BootUpdates`, which
an update breaks as well; turns that the client commits do not. `TrimmedFull` is about
`Conversation._trim`: the newest group stays, and what goes leaves the
conversation within one of its bound, as the group after it would not have fitted.

`ResponsesProofs`. Three tasks start responses, and two of them may find the
session taken after a suspension that they do not check again. With a prefix that
is replaced `StartsWhenFree` fails (section 5), so what rests on it is proved of the
behaviours in which nobody waits for a replaced prefill:
`Spec /\ []NoneReplaced`. `OnePrefix` proves that these are all behaviours of a
session whose prefix never changes (`MaxPrefills <= 1`), which is what the run
`responses` looks at. `IInv` consists of

- `Single`: at most one runner lives, it is the active one, and it holds the token
  as long as nobody cancelled it;
- `Current`: what could still become a pending call is of the newest speech, so
  that `PendingCallIsCurrent` holds when it does;
- `Stages`: what each await of `drain` has passed stays gone, the worker first, the
  prefill last;
- `Suspended`, `TurnHeld`, `Spoken`: who waits in `_schedule_prefix_prefill` waits
  for a prefill, and the worker has its turn at hand.

`ProducersInvAlways`, `PendingCallIsCurrentAlways` and `DrainQuiescesAlways` follow.
`NewestKeepsTokenAlways` needs neither and holds of every behaviour.
`BargeInSilencesAlways` adds `BInv` (a response of an earlier turn is open only
until the consumer, which is interrupting it, has announced the speech) and the hypothesis
`"full" \notin Faults`: a runner that cannot tell the client its end leaves the
response open for the client (section 5, `RunnerTellsTheEnd`).

Only model-checked: all liveness (fairness and ENABLED are out of the prover's
reach). Every safety property of a passing run is proved.
`SlicesHold` is false with semantic turns and partial transcription (section 5), and
`ProducersInv` and `DrainQuiesces` are where a prefix is replaced.

## 5. Where the code and its documents differ

Two runs must end in a counterexample, each against a sentence of the
documents or of the code (quoted in `PROJECT.json`):

- `responses_poisoned`: a runner cancelled while it awaits the session's prefill
  cancels that task; every later runner awaits the same task, gets
  `CancelledError` and ends its response as cancelled.
- `turns_slices`: a candidate task clears `speech_start_sample`, then awaits the
  partial task (`pipeline.py:899`) before it slices the audio. Meanwhile the
  consumer sees no open speech and trims the buffer to its last two seconds, past
  the start of the turn. The slice raises and the call ends: just what the clamp
  at `pipeline.py:539-549` is there to prevent. It takes
  `transcription.partial_enabled`, which is off by default (`config.py:297`) and in
  every shipped profile; `SlicesHoldAlways` proves that nothing else can lead there.

Further differences are stated as properties of the modules, without a run of
their own. Each fails when it is checked in the configuration given:

| Property | Configuration | What happens |
|---|---|---|
| `OverMeansFree` in `Responses` | as `responses`, `Faults = {}` | a runner cancelled before its first step never reaches the `finally` that clears `_response`; every later response is a conflict |
| `StartsWhenFree` | `MaxPrefills = 2`, `Faults = {}` | `_start_response` checks that no response is active, awaits the replaced prefill, and takes the session without looking again |
| `ProducersInv`, `DrainQuiesces` | `MaxPrefills = 2`, `Faults = {}` | consequences of it: two runners at once, of which the drain sees one; and the deadline's drain passes a consumer suspended in `_start_response`, which then starts another prefill |
| `OneOpenResponse` | as `responses`, `Faults = {}` | while a canceller awaits the old runner, the turn worker or the deferred task starts the next response, before the `response.done` of the old one; the plugin treats that as fatal (its `realtime.py:1245`) |
| `RunnerTellsTheEnd` | `MaxGens = 1`, `MaxTurns = 1`, `Faults = {"full"}` | the full outbound queue raises in the runner's own task, whose error path raises again: no `response.done`, and the session goes on |
| `DrainFailsOnlyLate` | `MaxGens = 1`, `MaxTurns = 1`, `Faults = {}` | events of a cancelled response cannot be sent on a closed transport, and `drain` raises: the slot is quarantined without a timeout |
| `NobodyOvertakesTwice` in `MCSttScheduler` | as `stt` | the round-robin restarts at the first id when the session served last has nothing queued (`schedulers/stt.py:180`), so two early ids overtake a third for as long as they alternate |
| `EveryFinalAnswered` in `SttScheduler` | as `stt`, `Partial = {}` | the consequence: with three sessions (a service may have 64) an accepted final may wait for ever, although `docs/architecture.md:57` calls the scheduler round-robin. `FinalsAnswered` says what the others must not do |
| `EndedTurnsNeverDropped` in `TurnDetection` | as `turns` | a turn that has ended waits in `_complete_turn` for the partial task or for room in the queue (`pipeline.py:899`, `919`). The next pause of a caller who speaks on (`pipeline.py:599`), or a commit (`pipeline.py:993`), cancels the task it waits in: its transcription never happens and nobody is told. Once there is a newer turn its answer would have been stale anyway (`pipeline.py:982-983`) |
| `ResponseEnds` in `Speech` | `MaxSpeak = 8`, `TtsMayFail = FALSE` | `response.speak` puts all segments on a queue of eight places before the task that reads it exists |
| `ResponseEnds` in `Speech` | `MaxSpeak = 7`, `TtsMayFail = TRUE` | the speech task fails, and the runner waits for room on a queue nobody reads |
| `FullMeansOccupied` in `Sessions` | as `sessions` | a connection refused because the drain began is closed with the code for "all slots occupied" |
| `ChildIsStopped` in `Lifecycle` | as `service` | a TTS worker cancelled in its thread cannot close its generator (`qwen_tts.py:473-476`), so the runtime stays active and its `close()` raises (`qwen_tts.py:478-480`) out of `_close_resources` and the lifespan: Parakeet, Smart Turn and the llama-server child are not closed, although `docs/operations.md:18-21` has the service stop the child |
| `FailureIsScoped` in `TtsScheduler` | 1 worker, 2 sessions, 3 jobs, `Faults = {"frame"}` | `on_frame` raises, the generator is closed later, and the next job of the worker is refused as reentrant |
| `NoStaleAudio` in `PluginSession` | as `plugin` | a frame in the audio worker thread when the connection is lost is sent on the next one |
| `ClosedIsClean` in `PluginSession` | as `plugin` | a `response.created` that the receiver handles while `aclose` is suspended in `ws.close()`, after it has finished the response (plugin `realtime.py:761-788`), opens another one; the session is closed with its channels open |
| `PendingAgrees`, `ContextAgrees` in `PluginContext` | `BootUpdates = TRUE` | a call's output added while the context is being replayed is neither replayed nor sent (plugin `realtime.py:588-590`, `859-864`): the call stays pending at the service and blocks its replies; a message is missing from the conversation until the next connection |
| `PendingAgrees` | `ManualTurns = TRUE` | a manual commit keeps `pending_call` (`pipeline.py:1011-1021`), which a spoken turn drops |
| `ConfirmedIsReplayed` | as `plugin_context` | two confirmed things are not replayed: a `say` spoken after speech invalidated a call, which the plugin takes for a filler although the service has it in its conversation, and the exchange of an output that crossed that speech |

Found by the proof of `FixedSilenceSlicesHold`, which is why it speaks of
`Pad < MinSilence` only: without that conjunct it fails (`Pad = 1`, `MinSilence = 1`,
`Modes = {"fixed_silence"}`, `MaxSamples = 6`: 18 steps). The padded end of a turn is
then the end of what has been heard, and the slice may empty the buffer at a position
other than zero. A `session.update` with other VAD settings is allowed then
(`pipeline.py:369-374` looks at the size of the buffer only) and resets the VAD to
zero, but not the positions of the buffer; the slice of the next turn lies before the
buffer and raises. The ranges of `speech_pad_ms` (up to 500) and `min_silence_ms`
(from 250) in `config.py:115-116` and `events.py:168-169` overlap and are not checked
against each other; every configuration shipped has 200 ms and 250 ms.

Observed while modelling, and visible in the modules, without a document to hold
them against: `ServiceLifecycle.start` sets its last phase over a `failed` the
monitor has set (readiness stays false: `ready` looks at the child too); the
child's death while loading makes `/health/live` fail; `_response_created`
accepts any created event as the answer to a pending request; an interruption
that finds the receiver blocked on a full channel closes the channel under it,
which costs the connection.

## 6. Not modelled, and the plan

Next, in this order:

1. `Segmenter` and the stream filter of the llama.cpp chat client: functions of
   a short stream over a small alphabet, against a reference definition.
2. The plugin's options and tools updates during a session; the deltas of a
   response one by one.
3. `PluginSession` composed with `Responses` where `OneOpenResponse` holds.

Left out for good: model runtimes (an inference is a step), protocol schemas,
configuration, authentication, telemetry, model delivery, resampling, probing:
they keep no state that tasks share. How a slot is told apart inside llama.cpp
and what a model says are environment.

## 7. Running it

    tlc -workers 2 -config Responses.cfg Responses
    tlapm ServiceProofs.tla

`tlapm` takes four minutes for `TurnDetectionProofs`, three for
`PluginContextProofs`, two for `ServiceProofs`, about one for each of
`TtsSchedulerProofs`, `ResponsesProofs` and `PluginSessionProofs`, and less for the
others.

With two workers `turns` and `stt` take about two minutes each (1.1 and 0.5 million
states), `plugin` and `responses_live` a minute and a half each (1.0 and 1.2 million, mostly for
liveness), `responses` one minute (five million), `tts` one minute, `plugin_context` half a minute
(2.7 million); the others take seconds. The
definitions marked `Mutant` in the modules are plausible mistakes: put in place
of the definition that follows them, each makes the property that
`PROJECT.json` lists fail in the listed run.
