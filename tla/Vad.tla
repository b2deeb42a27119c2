--------------------------------- MODULE Vad ---------------------------------
(***************************************************************************)
(* SessionVAD of runtimes/silero.py: how the speech probability of every   *)
(* window becomes the signals speech_started and speech_stopped. A window  *)
(* is given by whether its probability reaches the threshold; durations    *)
(* are in samples.                                                         *)
(***************************************************************************)
EXTENDS Integers

CONSTANTS
  Window,        \* window_samples
  MinSpeech,     \* _min_speech_samples
  Continuation,  \* _continuation_samples
  MinSilence,    \* _min_silence_samples
  Pad            \* _speech_pad_samples

ASSUME VadAssumption ==
  /\ Window \in Nat \ {0} /\ MinSpeech \in Nat \ {0} /\ MinSilence \in Nat \ {0}
  /\ Continuation \in Nat /\ Pad \in Nat

None == -1

Positions == Nat \cup {None}

Vads == [processed : Nat, rest : 0..(Window - 1), candidate : Positions,
         quiet : Positions, speech : Positions, silence : Positions]

\* _clear_turn_state.
TurnCleared(v) ==
  [v EXCEPT !.candidate = None, !.quiet = None, !.speech = None, !.silence = None]

\* reset, and the state __init__ leaves.
VadReset == [processed |-> 0, rest |-> 0, candidate |-> None, quiet |-> None,
             speech |-> None, silence |-> None]

Nothing(v) == [vad |-> v, signal |-> "quiet", at |-> 0]

Since(position, now) == IF position = None THEN now ELSE position

\* _advance before speech: a candidate becomes speech after MinSpeech, its
\* silences included; a silence longer than Continuation ends it.
Listen(v, speech) ==
  LET end == v.processed + Window
      start == Since(v.candidate, v.processed)
      quiet == Since(v.quiet, v.processed)
      begin == IF start > Pad THEN start - Pad ELSE 0
  IN  CASE speech /\ end - start >= MinSpeech ->
             [vad |-> [v EXCEPT !.candidate = start, !.quiet = None, !.speech = begin],
              signal |-> "started", at |-> begin]
        [] speech /\ end - start < MinSpeech ->
             Nothing([v EXCEPT !.candidate = start, !.quiet = None])
        [] ~speech /\ v.candidate # None /\ end - quiet > Continuation ->
             Nothing([v EXCEPT !.candidate = None, !.quiet = None])
        [] ~speech /\ v.candidate # None /\ end - quiet <= Continuation ->
             Nothing([v EXCEPT !.quiet = quiet])
        [] OTHER -> Nothing(v)

\* _advance in speech: it ends after MinSilence, and keeps Pad of the silence.
Follow(v, speech) ==
  LET end == v.processed + Window
      silence == Since(v.silence, v.processed)
      stop == IF silence + Pad < end THEN silence + Pad ELSE end
  IN  CASE speech -> Nothing([v EXCEPT !.silence = None])
        [] ~speech /\ end - silence >= MinSilence ->
             [vad |-> TurnCleared(v), signal |-> "stopped", at |-> stop]
        [] OTHER -> Nothing([v EXCEPT !.silence = silence])

Advance(v, speech) == IF v.speech = None THEN Listen(v, speech) ELSE Follow(v, speech)

\* process_pcm16 of n samples that complete at most one window, and so give at most
\* one signal. A longer append can give several, which the session handles in their order.
Process(v, n, speech) ==
  IF v.rest + n < Window THEN Nothing([v EXCEPT !.rest = @ + n])
  ELSE LET r == Advance(v, speech)
       IN  [r EXCEPT !.vad.processed = @ + Window, !.vad.rest = v.rest + n - Window]

\* speech_candidate_active.
CandidateActive(v) == v.candidate # None
=============================================================================
