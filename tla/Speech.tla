------------------------------- MODULE Speech -------------------------------
(***************************************************************************)
(* The speech path of one response (pipeline.py): the runner cuts text     *)
(* into segments and puts them on a bounded queue, the speech task takes   *)
(* them off and has them synthesized one by one. A model reply            *)
(* (_run_response) starts the speech task with its first text; direct      *)
(* speech (_run_speak_response) puts everything before it starts it.       *)
(*                                                                         *)
(* The segments are numbered as they are cut; Responses has the rest of    *)
(* the life of a response, tool calls and the transport's failures.        *)
(***************************************************************************)
EXTENDS Naturals, Sequences

CONSTANTS
  Capacity,   \* maxsize of the segment queue, 8 in the code
  MaxText,    \* bound: the segments of a model reply
  MaxSpeak,   \* bound: the segments of a response.speak text
  TtsMayFail  \* the synthesis of a segment may raise

ASSUME SpeechAssumption ==
  /\ Capacity \in Nat \ {0} /\ MaxText \in Nat /\ MaxSpeak \in Nat \ {0}
  /\ TtsMayFail \in BOOLEAN

End == 0  \* the None that ends the queue

VARIABLES
  kind,      \* model or speak
  runner,    \* what the runner awaits
  cut,       \* segments the segmenter has returned so far
  put,       \* segments put on the queue so far
  segments,  \* the queue
  tts,       \* tts_task
  spoken,    \* segments whose synthesis has returned
  textDone,  \* context.text_done
  audioDone, \* context.audio_done
  outcome    \* how the response ends: none yet, completed, failed, cancelled

vars == <<kind, runner, cut, put, segments, tts, spoken, textDone, audioDone, outcome>>

MaxCut == IF MaxText > MaxSpeak THEN MaxText ELSE MaxSpeak

TypeOK ==
  /\ kind \in {"model", "speak"}
  /\ runner \in {"reading", "putting", "flushing", "awaiting", "unwinding", "done"}
  /\ cut \in 0..MaxCut /\ put \in 0..cut /\ spoken \in 0..put
  /\ segments \in Seq(0..MaxCut) /\ Len(segments) <= Capacity
  /\ tts \in {"none", "waiting", "speaking", "ended", "failed", "stopping", "cancelled"}
  /\ textDone \in BOOLEAN /\ audioDone \in BOOLEAN
  /\ outcome \in {"none", "completed", "failed", "cancelled"}

\* Direct speech has its whole text, delta and text.done sent, cut at once.
Init ==
  /\ put = 0 /\ segments = <<>> /\ tts = "none" /\ spoken = 0
  /\ audioDone = FALSE /\ outcome = "none"
  /\ \/ kind = "model" /\ runner = "reading" /\ cut = 0 /\ textDone = FALSE
     \/ kind = "speak" /\ runner = "flushing" /\ cut \in 1..MaxSpeak /\ textDone = TRUE

TtsOver == tts \in {"none", "ended", "failed", "cancelled"}

-----------------------------------------------------------------------------
(* The runner.                                                             *)

\* A text delta arrives; the segmenter returns what it completes.
TextArrives ==
  /\ runner = "reading"
  /\ \E n \in 0..2 :
       /\ cut + n <= MaxText
       /\ cut' = cut + n
       /\ runner' = IF n = 0 THEN "reading" ELSE "putting"
  /\ tts' = IF tts = "none" THEN "waiting" ELSE tts
  /\ UNCHANGED <<kind, put, segments, spoken, textDone, audioDone, outcome>>

HasRoom == Len(segments) < Capacity

\* segments.put returns: at once, or when the speech task has made room.
PutSegment ==
  /\ runner \in {"putting", "flushing"} /\ put < cut
  /\ HasRoom
  /\ segments' = Append(segments, put + 1)
  /\ put' = put + 1
  /\ runner' = IF runner = "putting" /\ put' = cut THEN "reading" ELSE runner
  /\ UNCHANGED <<kind, cut, tts, spoken, textDone, audioDone, outcome>>

Unwind(o) ==
  /\ runner' = "unwinding"
  /\ outcome' = o
  /\ tts' = IF TtsOver THEN tts ELSE "stopping"
  /\ UNCHANGED <<kind, cut, put, segments, spoken, textDone, audioDone>>

\* The model's stream ends and the segmenter is flushed.
StreamEnds ==
  /\ runner = "reading" /\ tts # "none"
  /\ \E n \in 0..2 : cut + n <= MaxText /\ cut' = cut + n
  /\ runner' = "flushing"
  /\ UNCHANGED <<kind, put, segments, tts, spoken, textDone, audioDone, outcome>>

\* It ends without text or call, or raises.
StreamFails ==
  /\ runner = "reading"
  /\ Unwind("failed")

AllPut == runner = "flushing" /\ put = cut

\* The None is put; a model reply then sends text.done, direct speech starts its
\* speech task only now.
PutEnd ==
  /\ AllPut
  /\ HasRoom
  /\ segments' = Append(segments, End)
  /\ tts' = IF tts = "none" THEN "waiting" ELSE tts
  /\ textDone' = TRUE
  /\ runner' = "awaiting"
  /\ UNCHANGED <<kind, cut, put, spoken, audioDone, outcome>>

Completes ==
  /\ runner = "awaiting" /\ tts = "ended"
  /\ audioDone' = TRUE
  /\ outcome' = "completed"
  /\ runner' = "done"
  /\ UNCHANGED <<kind, cut, put, segments, tts, spoken, textDone>>

\* Awaiting the speech task raises what the synthesis raised.
SpeechFailureSeen ==
  /\ runner = "awaiting" /\ tts = "failed"
  /\ Unwind("failed")

\* The runner is cancelled, or finds its generation outdated, at any await.
Cancel ==
  /\ runner \in {"reading", "putting", "flushing", "awaiting"}
  /\ Unwind("cancelled")

\* Mutant: the cancelled speech task is not waited for.
NotGathered == TRUE

Gathered == TtsOver

\* gather(tts_task) has returned: the done events, then response.done.
Unwound ==
  /\ runner = "unwinding"
  /\ Gathered
  /\ textDone' = TRUE /\ audioDone' = TRUE
  /\ runner' = "done"
  /\ UNCHANGED <<kind, cut, put, segments, tts, spoken, outcome>>

-----------------------------------------------------------------------------
(* The speech task: _run_tts.                                              *)

Meaning == IF Head(segments) = End THEN "ended" ELSE "speaking"

TakeSegment ==
  /\ tts = "waiting" /\ segments # <<>>
  /\ segments' = Tail(segments)
  /\ tts' = Meaning
  /\ UNCHANGED <<kind, runner, cut, put, spoken, textDone, audioDone, outcome>>

SegmentSpoken ==
  /\ tts = "speaking"
  /\ spoken' = spoken + 1
  /\ tts' = "waiting"
  /\ UNCHANGED <<kind, runner, cut, put, segments, textDone, audioDone, outcome>>

\* The scheduler is full or closed, or the job raised.
SegmentFails ==
  /\ TtsMayFail /\ tts = "speaking"
  /\ tts' = "failed"
  /\ UNCHANGED <<kind, runner, cut, put, segments, spoken, textDone, audioDone, outcome>>

\* Mutant: the cancellation is swallowed and the loop goes on.
StopIgnored == "waiting"

StopsAs == "cancelled"

SpeechStops ==
  /\ tts = "stopping"
  /\ tts' = StopsAs
  /\ UNCHANGED <<kind, runner, cut, put, segments, spoken, textDone, audioDone, outcome>>

-----------------------------------------------------------------------------
Runs ==
  \/ PutSegment \/ PutEnd \/ Completes \/ SpeechFailureSeen \/ Unwound

Speaks == TakeSegment \/ SegmentSpoken \/ SegmentFails \/ SpeechStops

Next == TextArrives \/ StreamEnds \/ StreamFails \/ Cancel \/ Runs \/ Speaks

Spec == Init /\ [][Next]_vars

\* The event loop runs what can run, the model's stream ends or fails, and a
\* synthesis returns. Nobody has to cancel.
Fairness ==
  /\ WF_vars(Runs)
  /\ WF_vars(Speaks)
  /\ WF_vars(StreamEnds \/ StreamFails)

FairSpec == Spec /\ Fairness

-----------------------------------------------------------------------------
(* Properties.                                                             *)

\* A response is reported as completed only when every segment of its text has
\* been spoken, and none is left behind on the queue.
CompletedIsSpoken ==
  outcome = "completed" => put = cut /\ spoken = put /\ segments = <<>>

\* When response.done is sent the speech task is over: no audio of a response
\* follows its end, and no segment is submitted for it.
NoSpeechAfterDone == runner = "done" => TtsOver

\* What is on the queue and still to be spoken: all but the None, which comes last.
ToSpeak == IF segments # <<>> /\ segments[Len(segments)] = End
             THEN Len(segments) - 1 ELSE Len(segments)

\* The speech task takes exactly what was put, in order: segments it holds, has
\* spoken or has still to take are the numbers up to `put`.
NothingLost ==
  /\ \A i \in DOMAIN segments :
       IF segments[i] = End THEN i = Len(segments) ELSE segments[i] + ToSpeak = put + i
  /\ tts \in {"none", "waiting", "ended"} => spoken + ToSpeak = put
  /\ tts = "speaking" => spoken + 1 + ToSpeak = put

\* What the runner and the speech task know of each other: the None follows the
\* whole text, nothing follows it, and only a runner that unwinds stops the task.
Handover ==
  /\ runner \in {"reading", "putting", "flushing"} =>
       /\ \A i \in DOMAIN segments : segments[i] # End
       /\ tts \in {"none", "waiting", "speaking", "failed"}
  /\ runner = "reading" => put = cut
  /\ runner = "awaiting" => tts \in {"waiting", "speaking", "ended", "failed"}
  /\ runner = "unwinding" => TtsOver \/ tts = "stopping"
  /\ tts = "ended" => segments = <<>> /\ put = cut
  /\ \A i \in DOMAIN segments : segments[i] = End => put = cut
  /\ outcome = "none" <=> runner \in {"reading", "putting", "flushing", "awaiting"}
  /\ outcome = "completed" => tts = "ended"

\* What a listener of the response relies on: all of it is spoken, once, in
\* order, and before its end (_run_response, _run_tts).
SpeechInv == TypeOK /\ CompletedIsSpoken /\ NoSpeechAfterDone /\ NothingLost /\ Handover

\* A response ends as long as its speech does not fail, when direct speech has
\* fewer segments than the queue has places; a model reply may have any number.
SpokenResponseEnds ==
  (kind = "speak" => cut < Capacity) => <>(runner = "done" \/ tts = "failed")

\* "response.done terminates exactly one response" (docs/protocol.md:68): every
\* response ends. Direct speech of eight segments does not.
ResponseEnds == <>(runner = "done")

\* A cancelled response ends in any case: that is what frees a runner that waits
\* for room on a queue nobody reads.
CancelledEnds == outcome = "cancelled" ~> runner = "done"

\* Both: however the two tasks wait for each other over the bounded queue, a
\* response ends (_run_response, _cancel_response).
ResponsesEnd == SpokenResponseEnds /\ CancelledEnds
=============================================================================
