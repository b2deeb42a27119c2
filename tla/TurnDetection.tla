---------------------------- MODULE TurnDetection ----------------------------
(***************************************************************************)
(* Turn detection of one session's pipeline (pipeline.py): the consumer of *)
(* client events with its voice activity detection, the tasks that judge   *)
(* whether a pause ends the turn, partial transcription, the queue of      *)
(* completed turns and the drain. Composed with the scheduler that the     *)
(* judging tasks of all sessions share.                                    *)
(*                                                                         *)
(* An action is what the event loop runs between two suspensions. A        *)
(* counter that is only compared for equality with a remembered value, and *)
(* never returns to one, is a flag of the remembering task: current for    *)
(* _turn_candidate_id, fresh for partial_epoch.                            *)
(***************************************************************************)
EXTENDS TurnScheduler, Vad, AudioBuffer, Sequences

CONSTANTS
  Modes,        \* the values of semantic_turn.mode to look at
  MaxVerdicts,  \* MAX_INCOMPLETE_VERDICTS
  QueueSize,    \* completed_turn_queue_size
  Keep,         \* the samples kept, and the limit of 64,000 bytes, while nobody speaks
  MaxPartial,   \* partial_max_audio_ms and max_audio_ms, in samples
  PartialEnabled, \* transcription.partial_enabled
  MaxSamples,   \* bound: positions of the audio between two clears
  MaxTurns      \* bound: the turns of the session

\* config.py and the constants of pipeline.py: two verdicts, four turns in the queue, and
\* more audio kept than the window the VAD reads.
ASSUME DetectionAssumption ==
  /\ MaxVerdicts \in Nat \ {0} /\ QueueSize \in Nat \ {0}
  /\ Keep \in Nat /\ Window <= Keep
  /\ MaxPartial \in Nat /\ MaxTurns \in Nat /\ PartialEnabled \in BOOLEAN

Me == 1  \* this session, among Sessions

Detectors == {"candidate", "fallback"}
Actors == Detectors \cup {"consumer"}

VARIABLES
  mode,       \* semantic_turn.mode
  enabled,    \* vad_enabled
  vad,        \* state.vad
  buf,        \* state.input_audio_buffer
  turn,       \* current_turn_id, current_turn_revision, speech_start_sample
  verdicts,   \* _incomplete_verdicts
  completed,  \* _completed_turn
  task,       \* where the consumer and the detection tasks are, with their arguments
  partial,    \* _partial_task and the arguments of its job
  orphans,    \* partial tasks the session has lost track of
  turns,      \* _completed_turns
  answering,  \* _turn_worker_task and the last turn it took
  broken,     \* slice_samples or append has raised
  failing,    \* a task has sent an error and closed the transport
  drain       \* how far pipeline.drain has come

detectionVars == <<mode, enabled, vad, buf, turn, verdicts, completed, task, partial,
                   orphans, turns, answering, broken, failing, drain>>
vars == <<detectionVars, schedulerVars>>

NoTask == [pc |-> "none", rev |-> 0, from |-> 0, at |-> 0, next |-> "none",
           current |-> FALSE, cancelled |-> FALSE]
NoPartial == [pc |-> "none", rev |-> 0, fresh |-> FALSE]
DonePartial == [NoPartial EXCEPT !.pc = "done"]

Places == {"none", "vad", "quiet", "started", "stopped", "barge", "resuming", "stopping",
           "committing", "clearing", "clearing partial", "gone", "new", "submit", "sleep",
           "watch", "gather", "put"}

TypeOK ==
  /\ mode \in Modes /\ enabled \in BOOLEAN
  /\ vad \in Vads
  /\ buf \in Buffers
  /\ turn \in [named : BOOLEAN, rev : 0..MaxTurns, start : Positions]
  /\ verdicts \in 0..MaxVerdicts
  /\ completed \in 0..MaxTurns
  /\ task \in [Actors -> [pc : Places, rev : 0..MaxTurns, from : Positions, at : Nat,
                          next : {"none", "append", "commit"},
                          current : BOOLEAN, cancelled : BOOLEAN]]
  /\ partial \in [pc : {"none", "running", "cancelled", "done"}, rev : 0..MaxTurns,
                  fresh : BOOLEAN]
  /\ orphans \subseteq [pc : {"running"}, rev : 1..MaxTurns, fresh : BOOLEAN]
  /\ \A i \in DOMAIN turns : turns[i] \in 1..MaxTurns
  /\ Len(turns) <= QueueSize
  /\ answering \in [pc : {"none", "waiting", "busy"}, rev : 0..MaxTurns]
  /\ broken \in BOOLEAN /\ failing \in BOOLEAN
  /\ drain \in {"no", "tasks", "partial", "idle", "done"}

Init ==
  /\ SchedulerInit
  /\ mode \in Modes /\ enabled = TRUE
  /\ vad = VadReset /\ buf = Cleared
  /\ turn = [named |-> FALSE, rev |-> 0, start |-> None]
  /\ verdicts = 0 /\ completed = 0
  /\ task = [a \in Actors |-> NoTask]
  /\ partial = NoPartial /\ orphans = {}
  /\ turns = <<>>
  /\ answering = [pc |-> "none", rev |-> 0]
  /\ broken = FALSE /\ failing = FALSE
  /\ drain = "no"

At(a, pc) == task[a].pc = pc /\ ~task[a].cancelled

Idle(tk) == [tk EXCEPT !["consumer"] = NoTask]
Gone(tk) == [tk EXCEPT !["consumer"] = [NoTask EXCEPT !.pc = "gone"]]

\* The consumer takes the next event; handle_event refuses all of them later.
Takes == task["consumer"] = NoTask /\ drain = "no"

-----------------------------------------------------------------------------
(* Cancelling the detection.                                               *)

\* _turn_candidate_id += 1
Superseded(tk) ==
  [a \in Actors |-> IF a \in Detectors THEN [tk[a] EXCEPT !.current = FALSE] ELSE tk[a]]

Detecting == \E a \in Detectors : task[a].pc # "none"

\* _cancel_turn_detection, up to its gather.
CancelDetection(tk) ==
  [a \in Actors |-> IF a \in Detectors /\ tk[a].pc # "none"
                    THEN [tk[a] EXCEPT !.cancelled = TRUE] ELSE tk[a]]

\* partial_epoch += 1
Outdated(p) == [p EXCEPT !.fresh = FALSE]
OutdatedAll == {Outdated(p) : p \in orphans}

\* _partial_task.cancel()
CancelPartial(p) == IF p.pc = "running" THEN [p EXCEPT !.pc = "cancelled"] ELSE p

\* A cancelled task has reached its CancelledError and returned.
Unwinds(a) ==
  /\ task[a].cancelled
  /\ task' = [task EXCEPT ![a] = NoTask]
  /\ IF task[a].pc = "submit" THEN WaiterLeaves(Me) ELSE UNCHANGED schedulerVars
  /\ UNCHANGED <<mode, enabled, vad, buf, turn, verdicts, completed, partial, orphans, turns,
                 answering, broken, failing, drain>>

-----------------------------------------------------------------------------
(* The end of a turn: _speech_stopped and _complete_turn.                  *)

\* _append_audio trims what nobody speaks into.
Trimmed(b) ==
  IF Held(b) > Keep THEN DiscardedBefore(b, Later(b.first, b.end - Keep)) ELSE b

\* The caller of _speech_stopped goes on: a detection task is over, the consumer
\* has an append or a commit to end.
Returns(a, tk, b) ==
  /\ task' = [tk EXCEPT ![a] = NoTask]
  /\ buf' = IF tk[a].next = "commit" THEN Cleared
            ELSE IF tk[a].next = "append" THEN Trimmed(b) ELSE b
  /\ vad' = IF tk[a].next = "commit" THEN VadReset ELSE vad

\* An exception ends the session of the consumer, closes the transport from the
\* candidate task, and goes unseen in the fallback task.
Raises(a, tk) ==
  /\ task' = IF a = "consumer" THEN Gone(tk) ELSE [tk EXCEPT ![a] = NoTask]
  /\ failing' = (failing \/ a = "candidate")
  /\ broken' = TRUE

\* The rest of _complete_turn: the audio is cut out, put waits for room.
Enqueue(a, tk) ==
  IF ~Slices(buf, tk[a].from, tk[a].at)
  THEN Raises(a, tk) /\ UNCHANGED <<buf, vad, turns, answering>>
  ELSE LET b == DiscardedBefore(buf, tk[a].at)
       IN  /\ answering' = IF answering.pc = "none" THEN [answering EXCEPT !.pc = "waiting"]
                           ELSE answering
           /\ IF Len(turns) < QueueSize
              THEN turns' = Append(turns, tk[a].rev) /\ Returns(a, tk, b)
              ELSE /\ task' = [tk EXCEPT ![a].pc = "put"]
                   /\ buf' = b
                   /\ UNCHANGED <<turns, vad>>
           /\ UNCHANGED <<broken, failing>>

\* Mutant: the start is forgotten when the turn has been queued.
StopsLate(tk, t) == t

\* speech_start_sample = None, before the first suspension.
Stops(tk, t) == [t EXCEPT !.start = None]

\* _speech_stopped and _complete_turn until the partial task is awaited. tk is
\* the tasks with what the caller knows of itself, t the turn that ends.
StopSpeech(a, tk, t, to) ==
  LET arguments == [tk[a] EXCEPT !.rev = t.rev, !.from = t.start, !.at = to]
      called == [tk EXCEPT ![a] = arguments]
  IN  /\ turn' = Stops(tk, t)
      /\ IF t.rev = completed
         THEN Returns(a, called, buf)
              /\ UNCHANGED <<completed, partial, orphans, turns, answering, broken, failing>>
         ELSE /\ completed' = t.rev
              /\ orphans' = OutdatedAll
              /\ IF partial.pc = "none"
                 THEN Enqueue(a, called) /\ UNCHANGED partial
                 ELSE /\ partial' = CancelPartial(Outdated(partial))
                      /\ task' = [called EXCEPT ![a].pc = "gather"]
                      /\ UNCHANGED <<buf, vad, turns, answering, broken, failing>>

\* The partial task is over. A newer one that the consumer has started for the
\* next turn meanwhile is forgotten.
PartialGathered(a) ==
  /\ At(a, "gather") /\ partial.pc # "cancelled"
  /\ partial' = NoPartial
  /\ orphans' = orphans \cup (IF partial.pc = "running" THEN {partial} ELSE {})
  /\ Enqueue(a, task)
  /\ UNCHANGED <<mode, enabled, turn, verdicts, completed, drain,
                 schedulerVars>>

PutGetsRoom(a) ==
  /\ At(a, "put") /\ Len(turns) < QueueSize
  /\ turns' = Append(turns, task[a].rev)
  /\ Returns(a, task, buf)
  /\ UNCHANGED <<mode, enabled, turn, verdicts, completed, partial, orphans, answering,
                 broken, failing, drain, schedulerVars>>

-----------------------------------------------------------------------------
(* The consumer: session.update and input_audio_buffer.append.             *)

Fails ==
  /\ task' = Gone(task)
  /\ UNCHANGED <<mode, enabled, vad, buf, turn, verdicts, completed, partial, orphans,
                 turns, answering, failing, drain, schedulerVars>>

\* _update_session: VAD settings change only while nothing is buffered; a new
\* threshold resets the VAD, but not the buffer's positions.
UpdateSession(on, threshold) ==
  /\ Takes
  /\ IF (threshold \/ on # enabled) /\ (turn.start # None \/ Held(buf) > 0)
     THEN Fails /\ UNCHANGED broken
     ELSE /\ enabled' = on
          /\ vad' = IF threshold THEN VadReset ELSE vad
          /\ UNCHANGED <<mode, buf, turn, verdicts, completed, task, partial, orphans,
                         turns, answering, broken, failing, drain,
                         schedulerVars>>

\* _append_audio up to its thread.
AppendAudio(n) ==
  /\ Takes
  /\ buf.end + n <= MaxSamples
  /\ IF ~Fits(buf, n)
     THEN Fails /\ UNCHANGED broken
     ELSE /\ buf' = Appended(buf, n)
          /\ task' = IF enabled THEN [task EXCEPT !["consumer"].pc = "vad",
                                                  !["consumer"].at = n] ELSE task
          /\ UNCHANGED <<mode, enabled, vad, turn, verdicts, completed, partial, orphans,
                         turns, answering, broken, failing, drain,
                         schedulerVars>>

\* The thread has run process_pcm16; the event loop has not seen its signal yet.
VadRuns(speech) ==
  /\ task["consumer"].pc = "vad"
  /\ LET r == Process(vad, task["consumer"].at, speech)
     IN  /\ vad' = r.vad
         /\ task' = [task EXCEPT !["consumer"].pc = r.signal, !["consumer"].at = r.at]
  /\ UNCHANGED <<mode, enabled, buf, turn, verdicts, completed, partial, orphans, turns,
                 answering, broken, failing, drain, schedulerVars>>

\* The end of _append_audio: a partial transcription of the open turn is due or
\* not, or the buffer is trimmed.
EndsAppend(tk, p, start) ==
  \/ /\ start = None
     /\ buf' = Trimmed(buf) /\ partial' = p /\ task' = Idle(tk)
     /\ UNCHANGED broken
  \/ /\ start # None
     /\ partial' = p /\ task' = Idle(tk)
     /\ UNCHANGED <<buf, broken>>
  \/ /\ PartialEnabled /\ start # None /\ p.pc \in {"none", "done"}
     /\ UNCHANGED buf
     /\ IF Slices(buf, Later(start, buf.end - MaxPartial), buf.end)
        THEN /\ partial' = [pc |-> "running", rev |-> turn'.rev, fresh |-> TRUE]
             /\ task' = Idle(tk)
             /\ UNCHANGED broken
        ELSE task' = Gone(tk) /\ broken' = TRUE /\ partial' = p

HeardNothing ==
  /\ task["consumer"].pc = "quiet"
  /\ UNCHANGED turn
  /\ EndsAppend(task, partial, turn.start)
  /\ UNCHANGED <<mode, enabled, vad, verdicts, completed, orphans, turns, answering,
                 failing, drain, schedulerVars>>

\* Mutant: the turn starts where the VAD says.
Unclamped(at) == at

\* The pre-roll may be gone from the buffer.
Clamped(at) == Later(at, buf.first)

\* _speech_started: a new turn, which interrupts a response if there is one.
SpeechStarted ==
  /\ task["consumer"].pc = "started" /\ turn.start = None
  /\ turn.rev < MaxTurns
  /\ verdicts' = 0
  /\ turn' = [named |-> TRUE, rev |-> turn.rev + 1, start |-> Clamped(task["consumer"].at)]
  /\ orphans' = OutdatedAll
  /\ \/ EndsAppend(task, Outdated(partial), turn'.start)
     \/ /\ task' = [task EXCEPT !["consumer"].pc = "barge"]
        /\ partial' = Outdated(partial)
        /\ UNCHANGED <<buf, broken>>
  /\ UNCHANGED <<mode, enabled, vad, completed, turns, answering, failing,
                 drain, schedulerVars>>

\* _cancel_response has ended (Responses).
Interrupted ==
  /\ task["consumer"].pc = "barge"
  /\ UNCHANGED turn
  /\ EndsAppend(task, partial, turn.start)
  /\ UNCHANGED <<mode, enabled, vad, verdicts, completed, orphans, turns, answering,
                 failing, drain, schedulerVars>>

\* _speech_resumed: the pause was none.
SpeechResumed ==
  /\ task["consumer"].pc = "started" /\ turn.start # None
  /\ UNCHANGED turn
  /\ LET tk == CancelDetection(Superseded(task))
     IN  IF Detecting
         THEN /\ task' = [tk EXCEPT !["consumer"].pc = "resuming"]
              /\ UNCHANGED <<buf, partial, orphans, broken>>
         ELSE /\ orphans' = OutdatedAll
              /\ EndsAppend(tk, Outdated(partial), turn.start)
  /\ UNCHANGED <<mode, enabled, vad, verdicts, completed, turns, answering, failing, drain, schedulerVars>>

ResumedGathered ==
  /\ task["consumer"].pc = "resuming" /\ ~Detecting
  /\ UNCHANGED turn
  /\ orphans' = OutdatedAll
  /\ EndsAppend(task, Outdated(partial), turn.start)
  /\ UNCHANGED <<mode, enabled, vad, verdicts, completed, turns, answering, failing, drain, schedulerVars>>

\* _speech_stop_candidate without a scheduler: the pause ends the turn.
FixedSilence ==
  /\ task["consumer"].pc = "stopped" /\ mode = "fixed_silence"
  /\ IF turn.named /\ turn.start # None
     THEN StopSpeech("consumer", [task EXCEPT !["consumer"].next = "append"], turn,
                     task["consumer"].at)
     ELSE /\ UNCHANGED <<turn, completed, orphans, vad, turns, answering, failing>>
          /\ EndsAppend(task, partial, turn.start)
  /\ UNCHANGED <<mode, enabled, verdicts, drain, schedulerVars>>

NewCandidate ==
  [NoTask EXCEPT !.pc = "new", !.rev = turn.rev, !.at = task["consumer"].at, !.current = TRUE]

\* _speech_stop_candidate: the pause is judged by a task of its own.
StopCandidate ==
  /\ task["consumer"].pc = "stopped" /\ mode = "smart_turn_v3"
  /\ UNCHANGED turn
  /\ LET at == task["consumer"].at
         tk == CancelDetection(Superseded(task))
     IN  IF ~turn.named \/ turn.start = None THEN EndsAppend(task, partial, turn.start)
         ELSE IF ~Slices(buf, Later(turn.start, at - MaxPartial), at)
         THEN task' = Gone(Superseded(task)) /\ broken' = TRUE /\ UNCHANGED <<buf, partial>>
         ELSE IF Detecting
         THEN /\ task' = [tk EXCEPT !["consumer"].pc = "stopping"]
              /\ UNCHANGED <<buf, partial, broken>>
         ELSE EndsAppend([tk EXCEPT !["candidate"] = NewCandidate], partial, turn.start)
  /\ UNCHANGED <<mode, enabled, vad, verdicts, completed, orphans, turns, answering, failing, drain, schedulerVars>>

StopGathered ==
  /\ task["consumer"].pc = "stopping" /\ ~Detecting
  /\ UNCHANGED turn
  /\ EndsAppend([task EXCEPT !["candidate"] = NewCandidate], partial, turn.start)
  /\ UNCHANGED <<mode, enabled, vad, verdicts, completed, orphans, turns, answering, failing, drain, schedulerVars>>

-----------------------------------------------------------------------------
(* The consumer: input_audio_buffer.commit and .clear.                     *)

\* _commit_audio, the detection over: the open turn ends here, or what is
\* buffered becomes a turn. tk has the consumer's continuation.
Commits(tk) ==
  LET committing == [tk EXCEPT !["consumer"] = [NoTask EXCEPT !.next = "commit"]]
      manual == [named |-> TRUE, rev |-> turn.rev + 1, start |-> buf.first]
  IN  IF turn.start # None THEN StopSpeech("consumer", committing, turn, buf.end)
      ELSE IF Held(buf) = 0
      THEN /\ task' = Idle(tk)
           /\ UNCHANGED <<vad, buf, turn, completed, partial, orphans, turns, answering,
                          broken, failing>>
      ELSE turn.rev < MaxTurns /\ StopSpeech("consumer", committing, manual, buf.end)

\* Mutant: the detection tasks are not cancelled first.
CommitAtOnce ==
  /\ Takes
  /\ Commits(task)
  /\ UNCHANGED <<mode, enabled, verdicts, drain, schedulerVars>>

CommitAudio ==
  /\ Takes
  /\ LET tk == CancelDetection(Superseded(task))
     IN  IF Detecting
         THEN /\ task' = [tk EXCEPT !["consumer"].pc = "committing"]
              /\ UNCHANGED <<vad, buf, turn, completed, partial, orphans, turns, answering,
                             broken, failing>>
         ELSE Commits(tk)
  /\ UNCHANGED <<mode, enabled, verdicts, drain, schedulerVars>>

CommitGathered ==
  /\ task["consumer"].pc = "committing" /\ ~Detecting
  /\ Commits(task)
  /\ UNCHANGED <<mode, enabled, verdicts, drain, schedulerVars>>

\* _clear_audio, the detection over: the partial task goes, then everything.
Clears(tk, p) ==
  IF p.pc # "none"
  THEN /\ partial' = CancelPartial(p)
       /\ task' = [tk EXCEPT !["consumer"].pc = "clearing partial"]
       /\ UNCHANGED <<buf, vad, turn>>
  ELSE /\ partial' = p
       /\ task' = Idle(tk)
       /\ buf' = Cleared /\ vad' = VadReset
       /\ turn' = [turn EXCEPT !.named = FALSE, !.start = None]

ClearAudio ==
  /\ Takes
  /\ orphans' = OutdatedAll
  /\ LET tk == CancelDetection(Superseded(task))
     IN  IF Detecting
         THEN /\ task' = [tk EXCEPT !["consumer"].pc = "clearing"]
              /\ partial' = Outdated(partial)
              /\ UNCHANGED <<buf, vad, turn>>
         ELSE Clears(tk, Outdated(partial))
  /\ UNCHANGED <<mode, enabled, verdicts, completed, turns, answering, broken,
                 failing, drain, schedulerVars>>

ClearGathered ==
  /\ \/ task["consumer"].pc = "clearing" /\ ~Detecting /\ Clears(task, partial)
     \/ task["consumer"].pc = "clearing partial" /\ partial.pc # "cancelled"
        /\ Clears(task, NoPartial)
  /\ UNCHANGED <<mode, enabled, verdicts, completed, orphans, turns, answering, broken, failing, drain, schedulerVars>>

-----------------------------------------------------------------------------
(* _classify_turn_candidate and _semantic_fallback.                        *)

\* stale() of a candidate, while its task lives.
CandidateStale ==
  LET c == task["candidate"]
  IN  drain # "no" \/ ~turn.named \/ turn.rev # c.rev \/ ~c.current \/ turn.start = None

CandidateSubmits ==
  /\ At("candidate", "new")
  /\ Submit(Me)
  /\ task' = [task EXCEPT !["candidate"].pc = "submit"]
  /\ UNCHANGED <<mode, enabled, vad, buf, turn, verdicts, completed, partial, orphans, turns,
                 answering, broken, failing, drain>>

\* The verdict is "unfinished" once too often: the turn is answered.
Forced == verdicts + 1 >= MaxVerdicts

NewFallback ==
  [NoTask EXCEPT !.pc = "sleep", !.rev = task["candidate"].rev, !.at = task["candidate"].at,
                 !.current = TRUE]

\* The scheduler has answered.
CandidateAnswered ==
  /\ At("candidate", "submit") /\ waiter[Me] # "pending"
  /\ LET verdict == waiter[Me]
         over == [task EXCEPT !["candidate"] = NoTask]
         rest == <<vad, buf, turn, completed, partial, orphans, turns, answering, broken>>
     IN  IF verdict = "failed"
         THEN /\ task' = over /\ failing' = TRUE
              /\ UNCHANGED <<rest, verdicts>>
         ELSE IF verdict \in {"stale", "cancelled"} \/ CandidateStale
         THEN /\ task' = over
              /\ UNCHANGED <<rest, verdicts, failing>>
         ELSE /\ verdicts' = IF verdict = "incomplete" THEN verdicts + 1 ELSE verdicts
              /\ IF verdict = "complete" \/ Forced
                 THEN StopSpeech("candidate", task, turn, task["candidate"].at)
                 ELSE /\ task' = [over EXCEPT !["fallback"] = NewFallback]
                      /\ UNCHANGED <<rest, failing>>
  /\ waiter' = [waiter EXCEPT ![Me] = "none"]
  /\ UNCHANGED <<mode, enabled, drain, queue, active, abandoned, worker,
                 last, release, closed>>

\* The condition of _semantic_fallback.
FallbackHolds ==
  LET f == task["fallback"]
  IN  drain = "no" /\ turn.named /\ turn.rev = f.rev /\ f.current /\ turn.start # None

FallbackDecides ==
  IF FallbackHolds
  THEN StopSpeech("fallback", task, turn, task["fallback"].at)
  ELSE /\ task' = [task EXCEPT !["fallback"] = NoTask]
       /\ UNCHANGED <<vad, buf, turn, completed, partial, orphans, turns, answering, broken,
                      failing>>

\* The sleep is over: possible speech is waited for, as the thread shows it.
FallbackWakes ==
  /\ At("fallback", "sleep")
  /\ IF drain = "no" /\ task["fallback"].current /\ CandidateActive(vad)
     THEN /\ task' = [task EXCEPT !["fallback"].pc = "watch"]
          /\ UNCHANGED <<vad, buf, turn, completed, partial, orphans, turns, answering, broken,
                         failing>>
     ELSE FallbackDecides
  /\ UNCHANGED <<mode, enabled, verdicts, drain, schedulerVars>>

\* The candidate speech is over, or the continuation deadline is.
FallbackWatched ==
  /\ At("fallback", "watch")
  /\ FallbackDecides
  /\ UNCHANGED <<mode, enabled, verdicts, drain, schedulerVars>>

-----------------------------------------------------------------------------
(* _run_partial and _run_completed_turns.                                  *)

\* Mutant: a partial result of this turn is good however old.
TurnFresh(p) == drain = "no" /\ turn.named /\ turn.rev = p.rev

\* ~stale() of a partial transcription.
Fresh(p) == drain = "no" /\ turn.named /\ turn.rev = p.rev /\ p.fresh

\* The STT scheduler has answered; a transcript that is not stale is sent.
PartialAnswered ==
  /\ \/ /\ partial.pc = "running"
        /\ partial' = DonePartial
        /\ UNCHANGED orphans
     \/ \E p \in orphans :
          /\ orphans' = orphans \ {p}
          /\ UNCHANGED partial
  /\ UNCHANGED <<mode, enabled, vad, buf, turn, verdicts, completed, task, turns, answering,
                 broken, failing, drain, schedulerVars>>

PartialUnwinds ==
  /\ partial.pc = "cancelled"
  /\ partial' = DonePartial
  /\ UNCHANGED <<mode, enabled, vad, buf, turn, verdicts, completed, task, orphans, turns,
                 answering, broken, failing, drain, schedulerVars>>

WorkerTakes ==
  /\ answering.pc = "waiting" /\ turns # <<>>
  /\ answering' = [pc |-> "busy", rev |-> Head(turns)]
  /\ turns' = Tail(turns)
  /\ UNCHANGED <<mode, enabled, vad, buf, turn, verdicts, completed, task, partial, orphans,
                 broken, failing, drain, schedulerVars>>

\* The turn is transcribed and answered (Responses), or either fails.
WorkerAnswers(fails) ==
  /\ answering.pc = "busy"
  /\ answering' = [answering EXCEPT !.pc = IF fails THEN "none" ELSE "waiting"]
  /\ failing' = (failing \/ fails)
  /\ UNCHANGED <<mode, enabled, vad, buf, turn, verdicts, completed, task, partial, orphans,
                 turns, broken, drain, schedulerVars>>

-----------------------------------------------------------------------------
(* The end of the session: the handler cancels the consumer and releases.  *)

ConsumerCancelled ==
  /\ task["consumer"].pc # "gone"
  /\ Fails
  /\ UNCHANGED broken

DrainBegins ==
  /\ task["consumer"].pc = "gone" /\ drain = "no"
  /\ drain' = "tasks"
  /\ task' = CancelDetection(task)
  /\ partial' = Outdated(partial) /\ orphans' = OutdatedAll
  /\ UNCHANGED <<mode, enabled, vad, buf, turn, verdicts, completed, turns, answering, broken, failing, schedulerVars>>

DrainPassesTasks ==
  /\ drain = "tasks" /\ ~Detecting
  /\ drain' = "partial"
  /\ partial' = CancelPartial(partial)
  /\ UNCHANGED <<mode, enabled, vad, buf, turn, verdicts, completed, task, orphans, turns,
                 answering, broken, failing, schedulerVars>>

\* The partial task is over; the worker of completed turns is cancelled and its
\* queue emptied, the response cancelled (Responses), the STT scheduler idle
\* (SttScheduler), and the turn scheduler told to forget the session.
DrainPassesPartial ==
  /\ drain = "partial" /\ partial.pc \in {"none", "done"} /\ orphans = {}
  /\ drain' = "idle"
  /\ partial' = NoPartial
  /\ answering' = [answering EXCEPT !.pc = "none"]
  /\ turns' = <<>>
  /\ CancelSession(Me)
  /\ UNCHANGED <<mode, enabled, vad, buf, turn, verdicts, completed, task, orphans, broken, failing>>

DrainEnds ==
  /\ drain = "idle"
  /\ SessionIsIdle(Me)
  /\ drain' = "done"
  /\ buf' = Cleared /\ vad' = VadReset
  /\ UNCHANGED <<mode, enabled, turn, verdicts, completed, task, partial, orphans, turns,
                 answering, broken, failing>>

-----------------------------------------------------------------------------
(* The scheduler, and the other sessions that share it.                    *)

\* is_stale() of a job: a task that left its job was superseded or is drained.
\* Another session's job is not stale, and what it makes of its verdict makes no
\* difference here.
JobStale(s, mine) == s = Me /\ (~mine \/ CandidateStale)

SchedulerSteps ==
  /\ \/ \E s \in Sessions : Take(s, JobStale(s, waiter[s] = "pending"))
     \/ \E verdict \in IF active = Me THEN Verdicts ELSE {"none"} :
          Predicted(verdict, JobStale(active, ~abandoned))
     \/ WorkerEnds
  /\ UNCHANGED detectionVars

\* Another pipeline submits one job after the other; it is released after this one.
OtherSession(s) ==
  /\ \/ release[s] = "no" /\ Cardinality(queue) < MaxJobs /\ Submit(s)
     \/ drain = "done" /\ waiter[s] # "pending" /\ CancelSession(s)
     \/ SessionIsIdle(s)
  /\ UNCHANGED detectionVars

SchedulerCloses == Close /\ UNCHANGED detectionVars

-----------------------------------------------------------------------------
ConsumerSteps ==
  \/ \E speech \in BOOLEAN : VadRuns(speech)
  \/ HeardNothing \/ SpeechStarted \/ Interrupted \/ SpeechResumed \/ ResumedGathered
  \/ FixedSilence \/ StopCandidate \/ StopGathered
  \/ CommitGathered \/ ClearGathered

DetectorSteps(a) == Unwinds(a) \/ PartialGathered(a) \/ PutGetsRoom(a)

Next ==
  \/ \E on, threshold \in BOOLEAN : UpdateSession(on, threshold)
  \/ AppendAudio(Window)
  \/ CommitAudio
  \/ ClearAudio
  \/ ConsumerSteps
  \/ \E a \in Actors : DetectorSteps(a)
  \/ CandidateSubmits \/ CandidateAnswered
  \/ FallbackWakes \/ FallbackWatched
  \/ PartialAnswered \/ PartialUnwinds
  \/ WorkerTakes
  \/ \E fails \in BOOLEAN : WorkerAnswers(fails)
  \/ ConsumerCancelled
  \/ DrainBegins \/ DrainPassesTasks \/ DrainPassesPartial \/ DrainEnds
  \/ SchedulerSteps
  \/ \E s \in Sessions \ {Me} : OtherSession(s)
  \/ SchedulerCloses

Spec == Init /\ [][Next]_vars

\* Tasks and threads go on; nobody has to speak, send an event or hang up,
\* unless a task has closed the transport.
Fairness ==
  /\ WF_vars(ConsumerSteps)
  /\ \A a \in Actors : WF_vars(DetectorSteps(a))
  /\ WF_vars(CandidateSubmits \/ CandidateAnswered)
  /\ WF_vars(FallbackWakes \/ FallbackWatched)
  /\ WF_vars(PartialAnswered \/ PartialUnwinds)
  /\ WF_vars(WorkerTakes \/ \E fails \in BOOLEAN : WorkerAnswers(fails))
  /\ WF_vars(failing /\ ConsumerCancelled)
  /\ WF_vars(DrainBegins \/ DrainPassesTasks \/ DrainPassesPartial \/ DrainEnds)
  /\ WF_vars(SchedulerSteps)

FairSpec == Spec /\ Fairness

-----------------------------------------------------------------------------
\* A task that has a turn to put into the queue.
Ends(a) == task[a].pc \in {"gather", "put"}

\* What the drain has passed stays gone: the consumer, then the detection tasks,
\* and no session is forgotten before they are (pipeline.py:296-330).
DrainOrder ==
  /\ drain # "no" => task["consumer"].pc = "gone"
  /\ drain \in {"partial", "idle", "done"} => ~Detecting
  /\ drain \notin {"idle", "done"} => release[Me] = "no"

\* One task at a time decides about a pause; the consumer only ends a turn itself
\* when none does (pipeline.py:589-766).
OneDecides ==
  /\ ~task["consumer"].cancelled
  /\ task["candidate"].pc = "none" \/ task["fallback"].pc = "none"
  /\ Ends("consumer") => ~Detecting
  /\ Detecting \/ task["consumer"].pc = "stopping" => mode = "smart_turn_v3"

\* An open turn is not completed; what is queued, answered or about to be queued is,
\* and nothing about to be queued was answered before (pipeline.py:893-919).
Completed ==
  /\ completed <= turn.rev
  /\ turn.start # None => completed < turn.rev
  /\ answering.rev <= completed
  /\ \A i \in DOMAIN turns : turns[i] <= completed
  /\ \A a \in Actors : Ends(a) =>
       task[a].rev <= completed /\ (~task[a].cancelled => answering.rev < task[a].rev)

IInv == TypeOK /\ SchedulerInv /\ DrainOrder /\ OneDecides /\ Completed

\* Every slice lies within what the buffer holds, also of a caller who talks over
\* the previous turn or pauses for long (pipeline.py:539-549, sessions.py:71-85):
\* so it is where the consumer itself ends the turns and the padding is shorter than
\* the closing silence. The code does not relate the two, and with a padding as long
\* as the silence it fails.
FixedSilenceSlicesHold == mode = "fixed_silence" /\ Pad < MinSilence => ~broken

\* The same with a semantic verdict: pipeline.py:539-549 clamps the start of a
\* turn to "what the buffer still holds" because the exception "ends the call".
SlicesHold == ~broken

\* Turns are queued for transcription in the order in which they were spoken and
\* none twice, whichever of the consumer, the verdict, the fallback timer and a
\* commit ends them (pipeline.py:893-919).
TurnsInOrder ==
  LET ending == {a \in Actors : Ends(a) /\ ~task[a].cancelled}
  IN  /\ \A i, j \in DOMAIN turns : i < j => turns[i] < turns[j]
      /\ \A i \in DOMAIN turns : answering.rev < turns[i]
      /\ \A a \in ending : \A i \in DOMAIN turns : turns[i] < task[a].rev
      /\ \A a, b \in ending : a # b => task[a].rev # task[b].rev

\* A turn that has ended and that a task is about to put into the queue, or that
\* waits there.
Owing(a) == Ends(a) /\ ~task[a].cancelled
Owed == {task[a].rev : a \in {b \in Actors : Owing(b)}} \cup {turns[i] : i \in DOMAIN turns}

ConsumerTurnsTo(pc) == task["consumer"].pc # pc /\ task'["consumer"].pc = pc

\* The steps in which an ended turn may be dropped: a slice has raised, the session is
\* over, the client discards its audio or commits what there is, or the next turn has
\* come to a pause of its own.
Drops(r) ==
  \/ broken'
  \/ task'["consumer"].pc = "gone"
  \/ ConsumerTurnsTo("clearing") \/ ConsumerTurnsTo("committing")
  \/ ConsumerTurnsTo("stopping") /\ r < turn.rev

\* The turns that have ended before this step or in it.
EndsBy == Owed \cup ({completed'} \ {completed})

\* A turn that has ended stays on its way to its transcription, through the wait for
\* the partial task and for room in the queue, until the worker takes it. Above all,
\* speech that goes on takes back a pause that is being judged and never a turn that
\* has ended (pipeline.py:562-576, 773-787, 887-919).
EndedTurnsKept ==
  [][\A r \in EndsBy : r \in Owed' \/ answering'.rev = r \/ Drops(r)]_vars

\* Not so: that only the client or the end of the session drops one. A caller who
\* speaks and pauses again while the last turn waits in the gather or the put of
\* _complete_turn loses it, by the _cancel_turn_detection of the new pause
\* (pipeline.py:599), and one who commits then by that of the commit (pipeline.py:993).
EndedTurnsNeverDropped ==
  [][\A r \in EndsBy :
       r \in Owed' \/ answering'.rev = r \/ broken'
         \/ task'["consumer"].pc = "gone" \/ ConsumerTurnsTo("clearing")]_vars

\* The part of it that lies with resumed speech: no task it has cancelled has a turn to
\* put into the queue (pipeline.py:572-576, 773-787).
ResumptionLosesNoTurn ==
  task["consumer"].pc = "resuming" =>
    \A a \in Detectors : task[a].cancelled => task[a].pc \notin {"gather", "put"}

\* A partial transcript that would be sent now is one of the open turn, also by
\* a partial task the session has lost track of (pipeline.py:845-876).
PartialIsCurrent ==
  \A p \in orphans \cup {partial} : p.pc = "running" /\ Fresh(p) => turn.start # None

\* A caller who has paused and stays silent is heard: the turn ends by a verdict,
\* the fallback timer or a forced end, unless speech resumes or the session ends
\* (pipeline.py:655-766).
SilentTurnEnds ==
  (turn.start # None /\ vad.speech = None /\ mode = "smart_turn_v3") ~>
    (turn.start = None \/ vad.speech # None \/ task["consumer"].pc = "gone")
=============================================================================
