--------------------------- MODULE ResponsesProofs ---------------------------
(***************************************************************************)
(* Proofs about Responses, for any number of generations, turns and        *)
(* prefill tasks.                                                          *)
(*                                                                         *)
(* A starter that is suspended in _start_response checks nothing again when *)
(* it goes on, so that all but NewestKeepsToken is proved of the sessions   *)
(* in which nobody has to wait for the end of a replaced prefill.           *)
(***************************************************************************)
EXTENDS Responses, SequenceTheorems, TLAPS

\* No starter and no session.update waits in _schedule_prefix_prefill.
NoneReplaced == \A a \in Starters : waits[a] = 0

-----------------------------------------------------------------------------
(* The inductive invariant.                                                *)

\* Who is suspended there waits for a prefill.
Suspended ==
  /\ \A a \in Starters : starts[a] # 0 => waits[a] # 0
  /\ consumer = "updating" => waits["consumer"] # 0

Alive(g) == runner[g] \notin {"none", "done", "dead"}

\* What has not come to an end by itself.
Busy(g) == Producing(g) \/ runner[g] = "failing"

\* One runner at a time, which holds the token as long as nobody cancelled it.
Single ==
  /\ active <= begun /\ pendingCall <= begun /\ speechTurn <= turn
  /\ \A g \in Gens : Alive(g) => active = g
  /\ \A g \in Gens : Busy(g) => token = g

\* What could still become a pending call belongs to the turn.
Current ==
  Interrupt => \A g \in Gens : Producing(g) =>
      turnOf[g] >= speechTurn /\ (kind[g] = "call" => callTurn >= speechTurn)

Live(p) == prefill[p] \in {"running", "cancelling"}

\* What drain() has passed does not come back.
DrainReal == drain # "no" => draining /\ Released
WorkerPast == drain \notin {"no", "prefill"} => worker = "none"
DeferredPast == drain \notin {"no", "prefill", "worker"} => deferred.pc = "none"
ResponsePast ==
  drain \notin {"no", "prefill", "worker", "deferred"} =>
    turns = <<>> /\ \A g \in Gens : ~Busy(g)
PrefillPast ==
  /\ drain = "prefill" => waits["drain"] = prefillTask
  /\ \A p \in Prefills : Live(p) => p = prefillTask /\ drain \in {"no", "prefill"}

Stages == DrainReal /\ WorkerPast /\ DeferredPast /\ ResponsePast /\ PrefillPast

\* The worker has its turn at hand.
TurnHeld == worker \in {"transcribing", "starting"} => turns # <<>>

\* Only a turn is spoken.
Spoken == speaking => turn # 0

IInv ==
  /\ TypeOK /\ Spoken /\ TurnHeld /\ Suspended /\ Single /\ Current /\ Stages
  /\ PendingCallBlocksReplies /\ PendingCallIsCurrent

-----------------------------------------------------------------------------
(* Types, operator by operator.                                            *)

LEMMA Numbers ==
  /\ MaxGens \in Nat /\ MaxTurns \in Nat /\ MaxPrefills \in Nat
  /\ 0 \in 0..MaxGens /\ 0 \in 0..MaxTurns /\ 0 \in 0..MaxPrefills
BY BoundAssumption

LEMMA NaturalNumbers ==
  ASSUME TypeOK
  PROVE  /\ active \in Nat /\ begun \in Nat /\ pendingCall \in Nat
         /\ turn \in Nat /\ speechTurn \in Nat /\ callTurn \in Nat
         /\ \A g \in Gens : g \in Nat \ {0}
PROOF
  <1>1. \A g \in Gens : g \in Nat \ {0}
    BY Numbers DEF Gens
  <1>2. QED
    BY <1>1, Numbers DEF TypeOK

LEMMA InitTyped == Init => TypeOK
PROOF
  <1> SUFFICES ASSUME Init PROVE TypeOK
    OBVIOUS
  <1>1. turns \in Seq(1..MaxTurns) /\ deferred \in DeferredTasks
    BY Numbers DEF Init, NoDeferred, DeferredTasks
  <1>2. /\ runner \in [Gens -> {"none", "created", "prefill", "streaming", "speaking",
                                "cancelled", "unwinding", "failing", "aborting", "done", "dead"}]
        /\ kind \in [Gens -> {"none", "llm", "speak", "call"}]
        /\ turnOf \in [Gens -> 0..MaxTurns]
        /\ outcome \in [Gens -> {"none", "open", "completed", "cancelled", "failed", "lost"}]
        /\ awaits \in [Gens -> 0..MaxPrefills]
        /\ prefill \in [Prefills -> {"none", "running", "cancelling", "ok", "failed", "cancelled"}]
    BY Numbers DEF Init
  <1>3. /\ starts \in [Starters -> 0..MaxGens] /\ waits \in [Awaiters -> 0..MaxPrefills]
        /\ victim \in [Cancellers -> 0..MaxGens]
    BY Numbers DEF Init
  <1>4. QED
    BY <1>1, <1>2, <1>3, Numbers DEF Init, TypeOK

\* A step that leaves one group of the variables alone leaves their types.
GenTypes ==
  /\ runner \in [Gens -> {"none", "created", "prefill", "streaming", "speaking",
                          "cancelled", "unwinding", "failing", "aborting", "done", "dead"}]
  /\ kind \in [Gens -> {"none", "llm", "speak", "call"}]
  /\ turnOf \in [Gens -> 0..MaxTurns]
  /\ outcome \in [Gens -> {"none", "open", "completed", "cancelled", "failed", "lost"}]
  /\ begun \in 0..MaxGens /\ active \in 0..MaxGens /\ token \in 0..MaxGens
  /\ asked \subseteq Gens

WaitTypes ==
  /\ starts \in [Starters -> 0..MaxGens] /\ waits \in [Awaiters -> 0..MaxPrefills]
  /\ victim \in [Cancellers -> 0..MaxGens]
  /\ prefill \in [Prefills -> {"none", "running", "cancelling", "ok", "failed", "cancelled"}]
  /\ prefillTask \in 0..MaxPrefills /\ awaits \in [Gens -> 0..MaxPrefills]
  /\ generationStarted \in BOOLEAN

TurnTypes ==
  /\ turn \in 0..MaxTurns /\ speechTurn \in 0..MaxTurns /\ callTurn \in 0..MaxTurns
  /\ turnKnown \in BOOLEAN /\ speaking \in BOOLEAN

TaskTypes ==
  /\ consumer \in {"ready", "vad", "updating", "starting", "cancelling",
                   "interrupting", "leaving", "failed", "gone"}
  /\ worker \in {"none", "idle", "transcribing", "starting", "done"}
  /\ turns \in Seq(1..MaxTurns) /\ deferred \in DeferredTasks

RestTypes ==
  /\ pendingCall \in 0..MaxGens /\ draining \in BOOLEAN
  /\ drain \in {"no", "prefill", "worker", "deferred", "response", "schedulers", "done", "failed"}
  /\ outbox \in {"ok", "full", "dead"}

LEMMA TypesApart ==
  TypeOK <=> GenTypes /\ WaitTypes /\ TurnTypes /\ TaskTypes /\ RestTypes
BY DEF TypeOK, GenTypes, WaitTypes, TurnTypes, TaskTypes, RestTypes

LEMMA TypesJoined ==
  ASSUME GenTypes', WaitTypes', TurnTypes', TaskTypes', RestTypes'
  PROVE  TypeOK'
BY DEF TypeOK, GenTypes, WaitTypes, TurnTypes, TaskTypes, RestTypes

LEMMA TypesKept ==
  /\ GenTypes /\ UNCHANGED genVars /\ UNCHANGED asked => GenTypes'
  /\ WaitTypes /\ UNCHANGED waitVars /\ UNCHANGED fillVars => WaitTypes'
  /\ TurnTypes /\ UNCHANGED turnVars => TurnTypes'
  /\ TaskTypes /\ UNCHANGED taskVars => TaskTypes'
  /\ RestTypes /\ UNCHANGED <<pendingCall, draining, drain, outbox>> => RestTypes'
BY DEF GenTypes, WaitTypes, TurnTypes, TaskTypes, RestTypes,
       genVars, waitVars, fillVars, turnVars, taskVars

LEMMA BeginTyped ==
  ASSUME TypeOK, NEW k \in {"llm", "speak", "call"}, Begin(k)
  PROVE  /\ begun + 1 \in Gens /\ begun' \in 0..MaxGens /\ token' \in 0..MaxGens
         /\ kind' \in [Gens -> {"none", "llm", "speak", "call"}]
         /\ turnOf' \in [Gens -> 0..MaxTurns] /\ TurnTypes'
PROOF
  <1>1. begun + 1 \in Gens /\ begun' = begun + 1 /\ token' = begun + 1
    BY Numbers DEF TypeOK, Begin, Gens
  <1>2. turn' \in 0..MaxTurns /\ turnKnown' \in BOOLEAN
    BY Numbers DEF TypeOK, Begin
  <1>3. deferred.turn \in 0..MaxTurns
    BY DEF TypeOK, DeferredTasks
  <1>4. turnOf' = [turnOf EXCEPT ![begun + 1] = turn']
        /\ kind' = [kind EXCEPT ![begun + 1] = k]
        /\ callTurn' \in {deferred.turn, callTurn} /\ UNCHANGED <<speaking, speechTurn>>
    BY DEF Begin
  <1>5. QED
    BY <1>1, <1>2, <1>3, <1>4 DEF TypeOK, TurnTypes, Gens

LEMMA PrefillTyped ==
  ASSUME TypeOK
  PROVE  /\ \A p : CancelledPrefill(p) \in
                     [Prefills -> {"none", "running", "cancelling", "ok", "failed", "cancelled"}]
         /\ CreatePrefill \/ PrefillAtOnce =>
              /\ prefill' \in [Prefills -> {"none", "running", "cancelling", "ok", "failed", "cancelled"}]
              /\ prefillTask' \in 0..MaxPrefills
PROOF
  <1>1. prefill \in [Prefills -> {"none", "running", "cancelling", "ok", "failed", "cancelled"}]
        /\ prefillTask \in 0..MaxPrefills
    BY DEF TypeOK
  <1>2. \A p : CancelledPrefill(p) \in
                 [Prefills -> {"none", "running", "cancelling", "ok", "failed", "cancelled"}]
    BY <1>1 DEF CancelledPrefill
  <1>3. ASSUME CreatePrefill
        PROVE  /\ prefill' \in [Prefills -> {"none", "running", "cancelling", "ok", "failed", "cancelled"}]
               /\ prefillTask' \in 0..MaxPrefills
    BY <1>1, <1>3, Numbers DEF CreatePrefill, Prefills
  <1>4. QED
    BY <1>1, <1>2, <1>3 DEF PrefillAtOnce

LEMMA StartTyped ==
  ASSUME TypeOK, NEW k \in {"llm", "speak", "call"}, StartAtOnce(k), UNCHANGED <<victim, asked>>
  PROVE  GenTypes' /\ WaitTypes' /\ TurnTypes'
PROOF
  <1>1. Begin(k) /\ Launch(begun + 1) /\ UNCHANGED <<starts, waits, awaits>>
    BY DEF StartAtOnce
  <1>2. begun + 1 \in Gens /\ begun + 1 \in 0..MaxGens
    BY <1>1, BeginTyped, Numbers DEF Gens
  <1>3. GenTypes'
    BY <1>1, <1>2, BeginTyped DEF TypeOK, GenTypes, Launch
  <1>4. WaitTypes'
    <2>1. \/ PrefillAtOnce /\ generationStarted' = TRUE
          \/ UNCHANGED <<generationStarted, prefill, prefillTask>>
      BY DEF StartAtOnce
    <2>2. QED
      BY <1>1, <2>1, PrefillTyped DEF TypeOK, WaitTypes
  <1>5. QED
    BY <1>1, <1>3, <1>4, BeginTyped

LEMMA CancelledTyped ==
  ASSUME NEW pc \in {"none", "created", "prefill", "streaming", "speaking", "cancelled",
                     "unwinding", "failing", "aborting", "done", "dead"}
  PROVE  /\ Cancelled(pc) \in {"none", "cancelled", "unwinding", "aborting", "done", "dead"}
         /\ Cancelled(pc) \in {"none", "done", "dead"} <=> pc \in {"none", "created", "done", "dead"}
BY DEF Cancelled

LEMMA CancelBeginsTyped ==
  ASSUME TypeOK, NEW a \in Cancellers, CancelBegins(a)
  PROVE  GenTypes' /\ WaitTypes'
PROOF
  <1>1. active \in Gens /\ 0 \in 0..MaxGens
    BY Numbers DEF CancelBegins, Cancellable, TypeOK, Gens
  <1>2. runner' \in [Gens -> {"none", "created", "prefill", "streaming", "speaking", "cancelled",
                              "unwinding", "failing", "aborting", "done", "dead"}]
    <2>1. Cancelled(runner[active]) \in {"none", "cancelled", "unwinding", "aborting", "done", "dead"}
      BY <1>1, CancelledTyped DEF TypeOK
    <2>2. runner' = [runner EXCEPT ![active] = Cancelled(runner[active])]
      BY DEF CancelBegins
    <2>3. QED
      BY <2>1, <2>2 DEF TypeOK
  <1>3. GenTypes'
    BY <1>1, <1>2 DEF CancelBegins, TypeOK, GenTypes
  <1>4. WaitTypes'
    BY <1>1, PrefillTyped DEF CancelBegins, TypeOK, WaitTypes
  <1>5. QED
    BY <1>3, <1>4

LEMMA CancelEndsTyped ==
  ASSUME TypeOK, NEW a \in Cancellers, CancelEnds(a)
  PROVE  GenTypes' /\ WaitTypes'
PROOF
  <1>1. GenTypes'
    BY Numbers DEF CancelEnds, TypeOK, GenTypes
  <1>2. WaitTypes'
    BY Numbers DEF CancelEnds, TypeOK, WaitTypes, fillVars
  <1>3. QED
    BY <1>1, <1>2

\* A generation without a suspended starter begins at once.
LEMMA NothingSuspends ==
  ASSUME TypeOK, Suspended, NoneReplaced, NoneReplaced'
  PROVE  /\ \A a \in Starters : \A k : ~StartSuspends(a, k)
         /\ \A a \in Starters : starts[a] = 0 /\ ~StartResumes(a)
         /\ consumer # "updating"
         /\ UpdateArrives => PrefillAtOnce /\ UNCHANGED waits
PROOF
  <1>1. ASSUME NEW a \in Starters, waits' = [waits EXCEPT ![a] = prefillTask], prefillTask # 0
        PROVE  FALSE
    BY <1>1 DEF TypeOK, NoneReplaced, Awaiters
  <1>2. \A a \in Starters : \A k : ~StartSuspends(a, k)
    BY <1>1 DEF StartSuspends, PrefillReplaced
  <1>3. \A a \in Starters : starts[a] = 0
    BY DEF Suspended, NoneReplaced
  <1>4. "consumer" \in Starters
    BY DEF Starters
  <1>5. UpdateArrives => PrefillAtOnce /\ UNCHANGED waits
    BY <1>1, <1>4 DEF UpdateArrives, PrefillReplaced
  <1>6. QED
    BY <1>2, <1>3, <1>4, <1>5 DEF StartResumes, Suspended, NoneReplaced

LEMMA ConsumerTyped ==
  ASSUME TypeOK, Spoken, Suspended, NoneReplaced, NoneReplaced', Consumer
  PROVE  TypeOK'
PROOF
  <1>1. GenTypes /\ WaitTypes /\ TurnTypes /\ TaskTypes /\ RestTypes
    BY TypesApart
  <1>2. "consumer" \in Starters /\ "consumer" \in Cancellers
    BY DEF Starters, Cancellers
  <1>3. ~CreateResumes /\ ~UpdateResumes
    BY <1>2, NothingSuspends DEF CreateResumes, UpdateResumes
  <1>4. CASE CreateStarts
    <2>1. StartAtOnce("llm") /\ UNCHANGED <<victim, asked>>
      BY <1>2, <1>4, NothingSuspends DEF CreateStarts
    <2>2. GenTypes' /\ WaitTypes' /\ TurnTypes'
      BY <2>1, StartTyped
    <2>3. TaskTypes' /\ RestTypes'
      BY <1>1, <1>2, <1>4, NothingSuspends DEF CreateStarts, TaskTypes, RestTypes, drainVars
    <2>4. QED
      BY <2>2, <2>3, TypesJoined
  <1>5. CASE SpeakStarts
    <2>1. GenTypes' /\ WaitTypes' /\ TurnTypes'
      BY <1>5, StartTyped DEF SpeakStarts
    <2>2. TaskTypes' /\ RestTypes'
      BY <1>1, <1>5 DEF SpeakStarts, TaskTypes, RestTypes, drainVars
    <2>3. QED
      BY <2>1, <2>2, TypesJoined
  <1>6. CASE CreateDefers
    <2>1. TaskTypes'
      BY <1>1, <1>6, Numbers DEF CreateDefers, DeferReply, TaskTypes, DeferredTasks
    <2>2. QED
      BY <1>1, <1>6, <2>1, TypesKept, TypesJoined DEF CreateDefers, drainVars
  <1>7. CASE \/ CreateConflicts \/ SpeakConflicts \/ AudioArrives \/ VadHearsNothing
             \/ \E g \in Gens : CancelMismatches(g)
    <2>1. /\ consumer' \in {"failed", "vad", "ready"}
          /\ UNCHANGED <<worker, turns, deferred, genVars, waitVars, fillVars, turnVars,
                         drainVars, pendingCall, outbox, asked>>
      BY <1>7 DEF CreateConflicts, SpeakConflicts, AudioArrives, VadHearsNothing, CancelMismatches,
                  ConsumerRaises
    <2>2. TaskTypes'
      BY <1>1, <2>1 DEF TaskTypes
    <2>3. QED
      BY <1>1, <2>1, <2>2, TypesKept, TypesJoined DEF drainVars
  <1>8. CASE \E g \in Gens : CancelArrives(g)
    <2>1. CancelBegins("consumer") /\ consumer' = "cancelling"
          /\ UNCHANGED <<worker, turns, deferred, turnVars, drainVars, pendingCall, outbox>>
      BY <1>8 DEF CancelArrives
    <2>2. GenTypes' /\ WaitTypes'
      BY <1>2, <2>1, CancelBeginsTyped
    <2>3. TurnTypes' /\ TaskTypes' /\ RestTypes'
      BY <1>1, <2>1, TypesKept DEF TaskTypes, RestTypes, drainVars
    <2>4. QED
      BY <2>2, <2>3, TypesJoined
  <1>9. CASE CancelReturns \/ SpeechAnnounced
    <2>1. CancelEnds("consumer") /\ consumer' \in {"failed", "ready"}
          /\ UNCHANGED <<worker, turns, deferred, turnVars, drainVars, pendingCall, outbox>>
      BY <1>9 DEF CancelReturns, SpeechAnnounced
    <2>2. GenTypes' /\ WaitTypes'
      BY <1>2, <2>1, CancelEndsTyped
    <2>3. TurnTypes' /\ TaskTypes' /\ RestTypes'
      BY <1>1, <2>1, TypesKept DEF TaskTypes, RestTypes, drainVars
    <2>4. QED
      BY <2>2, <2>3, TypesJoined
  <1>10. CASE UpdateArrives
    <2>1. PrefillAtOnce /\ UNCHANGED waits
      BY <1>10, NothingSuspends
    <2>2. WaitTypes'
      BY <1>1, <1>10, <2>1, PrefillTyped DEF UpdateArrives, WaitTypes
    <2>3. GenTypes' /\ TurnTypes' /\ TaskTypes' /\ RestTypes'
      BY <1>1, <1>10, TypesKept DEF UpdateArrives, TaskTypes, RestTypes, drainVars
    <2>4. QED
      BY <2>2, <2>3, TypesJoined
  <1>11. CASE OutputArrives
    <2>1. TaskTypes' /\ RestTypes'
      BY <1>1, <1>11, Numbers DEF OutputArrives, TaskTypes, RestTypes, drainVars
    <2>2. GenTypes' /\ WaitTypes' /\ TurnTypes'
      BY <1>1, <1>11, TypesKept DEF OutputArrives
    <2>3. QED
      BY <2>1, <2>2, TypesJoined
  <1>12. CASE SpeechStarts
    <2>1. TurnTypes'
      BY <1>1, <1>12, Numbers DEF SpeechStarts, TurnTypes
    <2>2. TaskTypes' /\ RestTypes'
      BY <1>1, <1>12, Numbers DEF SpeechStarts, TaskTypes, RestTypes, drainVars
    <2>3. CASE CancelBegins("consumer")
      BY <1>2, <2>1, <2>2, <2>3, CancelBeginsTyped, TypesJoined
    <2>4. CASE UNCHANGED <<genVars, waitVars, fillVars, asked>>
      BY <1>1, <2>1, <2>2, <2>4, TypesKept, TypesJoined
    <2>5. QED
      BY <1>12, <2>3, <2>4 DEF SpeechStarts
  <1>13. CASE SpeechStops \/ CommitArrives
    <2> DEFINE t == turn'
    <2>1. /\ CompleteTurn(t) /\ t \in 1..MaxTurns /\ turnKnown' \in BOOLEAN
          /\ UNCHANGED <<deferred, genVars, waitVars, fillVars, speechTurn, callTurn, drainVars,
                         pendingCall, outbox, asked>>
      <3>1. CASE SpeechStops
        <4>1. turn' = turn /\ turn \in 1..MaxTurns
          BY <1>1, <3>1, Numbers DEF SpeechStops, TurnTypes, Spoken
        <4>2. QED
          BY <1>1, <3>1, <4>1 DEF SpeechStops, TurnTypes
      <3>2. CASE CommitArrives
        <4>1. CASE speaking /\ UNCHANGED <<turn, turnKnown>>
          BY <1>1, <3>2, <4>1, Numbers DEF CommitArrives, TurnTypes, Spoken
        <4>2. CASE ~speaking /\ turn < MaxTurns /\ turn' = turn + 1 /\ turnKnown' = TRUE
          BY <1>1, <3>2, <4>2, Numbers DEF CommitArrives, TurnTypes
        <4>3. QED
          BY <3>2, <4>1, <4>2 DEF CommitArrives
      <3>3. QED
        BY <1>13, <3>1, <3>2
    <2> HIDE DEF t
    <2>2. turns' \in Seq(1..MaxTurns)
      <3>1. turns' = turns \/ turns' = Append(turns, t)
        BY <2>1 DEF CompleteTurn
      <3>2. turns \in Seq(1..MaxTurns) /\ t \in 1..MaxTurns
        BY <1>1, <2>1 DEF TaskTypes
      <3>3. Append(turns, t) \in Seq(1..MaxTurns)
        BY <3>2, AppendProperties
      <3>4. QED
        BY <3>1, <3>2, <3>3
    <2>3. consumer' \in {"ready", "failed"} /\ worker' \in {worker, "idle"} /\ speaking' \in BOOLEAN
      BY <2>1 DEF CompleteTurn
    <2>4. TaskTypes' /\ TurnTypes'
      BY <1>1, <2>1, <2>2, <2>3, Numbers DEF TaskTypes, TurnTypes, t
    <2>5. QED
      BY <1>1, <2>1, <2>4, TypesKept, TypesJoined DEF drainVars
  <1>14. CASE AudioCleared
    <2>1. TurnTypes'
      BY <1>1, <1>14 DEF AudioCleared, TurnTypes
    <2>2. QED
      BY <1>1, <1>14, <2>1, TypesKept, TypesJoined DEF AudioCleared, drainVars
  <1>15. CASE ConsumerCancelled
    <2>1. GenTypes'
      <3> DEFINE v == victim["consumer"]
      <3>1. CASE v = 0
        BY <1>1, <1>15, <3>1 DEF ConsumerCancelled, GenTypes
      <3>2. CASE v # 0
        <4>1. v \in Gens
          BY <1>1, <1>2, <3>2, Numbers DEF WaitTypes, Gens
        <4>2. runner' = [runner EXCEPT ![v] = Cancelled(runner[v])]
          BY <1>15, <3>2 DEF ConsumerCancelled
        <4>3. Cancelled(runner[v]) \in {"none", "cancelled", "unwinding", "aborting", "done", "dead"}
          BY <1>1, <4>1, CancelledTyped DEF GenTypes
        <4>4. QED
          BY <1>1, <1>15, <4>2, <4>3, ZenonT(30) DEF ConsumerCancelled, GenTypes
      <3>3. QED
        BY <3>1, <3>2
    <2>2. WaitTypes' /\ TaskTypes'
      BY <1>1, <1>15, Numbers DEF ConsumerCancelled, WaitTypes, TaskTypes, fillVars
    <2>3. TurnTypes' /\ RestTypes'
      BY <1>1, <1>15, TypesKept DEF ConsumerCancelled, drainVars
    <2>4. QED
      BY <2>1, <2>2, <2>3, TypesJoined
  <1>16. CASE ConsumerLeaves
    <2>1. WaitTypes'
      BY <1>1, <1>16, Numbers DEF ConsumerLeaves, WaitTypes, fillVars
    <2>2. TaskTypes'
      BY <1>1, <1>16 DEF ConsumerLeaves, TaskTypes
    <2>3. QED
      BY <1>1, <1>16, <2>1, <2>2, TypesKept, TypesJoined DEF ConsumerLeaves, drainVars
  <1>17. CASE HandlerCloses
    <2>1. TaskTypes' /\ RestTypes'
      BY <1>1, <1>17 DEF HandlerCloses, TaskTypes, RestTypes, drainVars
    <2>2. QED
      BY <1>1, <1>17, <2>1, TypesKept, TypesJoined DEF HandlerCloses
  <1>18. QED
    BY <1>3, <1>4, <1>5, <1>6, <1>7, <1>8, <1>9, <1>10, <1>11, <1>12, <1>13, <1>14, <1>15, <1>16,
       <1>17
       DEF Consumer

LEMMA WorkerTyped ==
  ASSUME TypeOK, Suspended, TurnHeld, NoneReplaced, NoneReplaced', Worker
  PROVE  TypeOK'
PROOF
  <1>1. GenTypes /\ WaitTypes /\ TurnTypes /\ TaskTypes /\ RestTypes
    BY TypesApart
  <1>2. "worker" \in Starters
    BY DEF Starters
  <1>3. worker \in {"transcribing", "starting"} => Tail(turns) \in Seq(1..MaxTurns)
    BY <1>1, HeadTailProperties DEF TurnHeld, TaskTypes
  <1>4. CASE WorkerTakes \/ TurnSkipped
    <2>1. TaskTypes'
      BY <1>1, <1>3, <1>4 DEF WorkerTakes, TurnSkipped, Transcribed, TaskTypes
    <2>2. QED
      BY <1>1, <1>4, <2>1, TypesKept, TypesJoined DEF WorkerTakes, TurnSkipped, drainVars
  <1>5. CASE TurnReplied
    <2>1. StartAtOnce("llm") /\ UNCHANGED <<victim, asked>> /\ worker' = "idle" /\ turns' = Tail(turns)
          /\ worker = "transcribing" /\ UNCHANGED <<consumer, deferred, drainVars, pendingCall, outbox>>
      BY <1>2, <1>5, NothingSuspends DEF TurnReplied, Answerable, Transcribed
    <2>2. GenTypes' /\ WaitTypes' /\ TurnTypes'
      BY <2>1, StartTyped
    <2>3. TaskTypes' /\ RestTypes'
      BY <1>1, <1>3, <2>1 DEF TaskTypes, RestTypes, drainVars
    <2>4. QED
      BY <2>2, <2>3, TypesJoined
  <1>6. CASE TurnDeferred
    <2>1. TaskTypes'
      BY <1>1, <1>3, <1>6, Numbers
         DEF TurnDeferred, Answerable, Transcribed, DeferReply, TaskTypes, DeferredTasks
    <2>2. QED
      BY <1>1, <1>6, <2>1, TypesKept, TypesJoined DEF TurnDeferred, drainVars
  <1>7. CASE TurnFails
    <2>1. TaskTypes' /\ RestTypes'
      BY <1>1, <1>3, <1>7 DEF TurnFails, TaskTypes, RestTypes, drainVars
    <2>2. QED
      BY <1>1, <1>7, <2>1, TypesKept, TypesJoined DEF TurnFails
  <1>8. ~TurnReplyResumes
    BY <1>2, NothingSuspends DEF TurnReplyResumes
  <1>9. QED
    BY <1>4, <1>5, <1>6, <1>7, <1>8 DEF Worker

LEMMA DeferredTyped ==
  ASSUME TypeOK, Suspended, NoneReplaced, NoneReplaced', Deferred
  PROVE  TypeOK'
PROOF
  <1>1. GenTypes /\ WaitTypes /\ TurnTypes /\ TaskTypes /\ RestTypes
    BY TypesApart
  <1>2. "deferred" \in Starters /\ NoDeferred \in DeferredTasks
    BY Numbers DEF Starters, NoDeferred, DeferredTasks
  <1>3. CASE DeferredWaits \/ DeferredDrops
    <2>1. TaskTypes'
      BY <1>1, <1>2, <1>3 DEF DeferredWaits, DeferredDrops, TaskTypes, DeferredTasks
    <2>2. QED
      BY <1>1, <1>3, <2>1, TypesKept, TypesJoined DEF DeferredWaits, DeferredDrops, drainVars
  <1>4. CASE DeferredStarts
    <2>1. PICK k \in {"llm", "call"} : StartAtOnce(k) /\ deferred' = NoDeferred
      BY <1>2, <1>4, NothingSuspends DEF DeferredStarts
    <2>2. UNCHANGED <<consumer, worker, turns, victim, drainVars, pendingCall, outbox, asked>>
      BY <1>4 DEF DeferredStarts
    <2>3. GenTypes' /\ WaitTypes' /\ TurnTypes'
      BY <2>1, <2>2, StartTyped
    <2>4. TaskTypes' /\ RestTypes'
      BY <1>1, <1>2, <2>1, <2>2 DEF TaskTypes, RestTypes, drainVars
    <2>5. QED
      BY <2>3, <2>4, TypesJoined
  <1>5. ~DeferredResumes
    BY <1>2, NothingSuspends DEF DeferredResumes
  <1>6. QED
    BY <1>3, <1>4, <1>5 DEF Deferred

LEMMA DrainTyped ==
  ASSUME TypeOK, Drain
  PROVE  TypeOK'
PROOF
  <1>1. GenTypes /\ WaitTypes /\ TurnTypes /\ TaskTypes /\ RestTypes
    BY TypesApart
  <1>2. "drain" \in Cancellers /\ <<>> \in Seq(1..MaxTurns) /\ NoDeferred \in DeferredTasks
    BY Numbers DEF Cancellers, NoDeferred, DeferredTasks
  <1>3. \A stage : DrainReaches(stage) => prefillTask' \in 0..MaxPrefills
    BY <1>1, Numbers DEF DrainReaches, WaitTypes
  <1>4. CASE DrainAwaitsPrefill
    <2>1. WaitTypes'
      BY <1>1, <1>3, <1>4, PrefillTyped DEF DrainAwaitsPrefill, WaitTypes
    <2>2. RestTypes'
      BY <1>1, <1>4 DEF DrainAwaitsPrefill, DrainReaches, RestTypes
    <2>3. QED
      BY <1>1, <1>4, <2>1, <2>2, TypesKept, TypesJoined DEF DrainAwaitsPrefill
  <1>5. CASE DrainCancelsWorker \/ DrainCancelsDeferred
    <2>1. WaitTypes'
      BY <1>1, <1>3, <1>5, Numbers DEF DrainCancelsWorker, DrainCancelsDeferred, WaitTypes
    <2>2. TaskTypes' /\ RestTypes'
      BY <1>1, <1>2, <1>5 DEF DrainCancelsWorker, DrainCancelsDeferred, DrainReaches, TaskTypes, RestTypes
    <2>3. QED
      BY <1>1, <1>5, <2>1, <2>2, TypesKept, TypesJoined DEF DrainCancelsWorker, DrainCancelsDeferred
  <1>6. CASE DrainCancelsResponse
    <2>1. GenTypes' /\ WaitTypes'
      BY <1>2, <1>6, CancelBeginsTyped DEF DrainCancelsResponse
    <2>2. TaskTypes' /\ RestTypes'
      BY <1>1, <1>2, <1>6 DEF DrainCancelsResponse, TaskTypes, RestTypes
    <2>3. QED
      BY <1>1, <1>6, <2>1, <2>2, TypesKept, TypesJoined DEF DrainCancelsResponse
  <1>7. CASE DrainFindsNoResponse
    <2>1. WaitTypes'
      BY <1>1, <1>3, <1>7 DEF DrainFindsNoResponse, WaitTypes, waitVars
    <2>2. TaskTypes' /\ RestTypes'
      BY <1>1, <1>2, <1>7 DEF DrainFindsNoResponse, DrainReaches, TaskTypes, RestTypes
    <2>3. QED
      BY <1>1, <1>7, <2>1, <2>2, TypesKept, TypesJoined DEF DrainFindsNoResponse
  <1>8. CASE DrainPassesResponse
    <2>1. GenTypes' /\ WaitTypes'
      BY <1>2, <1>8, CancelEndsTyped DEF DrainPassesResponse
    <2>2. RestTypes'
      BY <1>1, <1>8 DEF DrainPassesResponse, RestTypes
    <2>3. QED
      BY <1>1, <1>8, <2>1, <2>2, TypesKept, TypesJoined DEF DrainPassesResponse
  <1>9. CASE DrainReturns
    <2>1. GenTypes' /\ RestTypes'
      BY <1>1, <1>9, Numbers DEF DrainReturns, GenTypes, RestTypes
    <2>2. QED
      BY <1>1, <1>9, <2>1, TypesKept, TypesJoined DEF DrainReturns
  <1>10. QED
    BY <1>4, <1>5, <1>6, <1>7, <1>8, <1>9 DEF Drain

-----------------------------------------------------------------------------
(* What the steps of a runner come to.                                     *)

\* It goes on, to clean up or to its next await.
RunnerMoves(g) ==
  /\ Producing(g)
  /\ \E pc \in {"prefill", "streaming", "speaking", "failing", "unwinding"} :
       (pc = "unwinding" => token # g) /\ runner' = [runner EXCEPT ![g] = pc]
  /\ outcome' = outcome \/ (~CanSend /\ outcome' = [outcome EXCEPT ![g] = "lost"])
  /\ UNCHANGED <<kind, turnOf, begun, active, token, pendingCall>>

\* It ends, a response perhaps with its call pending.
RunnerStops(g) ==
  /\ Alive(g)
  /\ \E r \in {"open", "completed", "cancelled", "failed", "lost"} :
       RunnerEnds(g, r) /\ (r \in {"open", "lost"} => ~CanSend \/ runner[g] = "aborting")
  /\ pendingCall' = pendingCall \/ (pendingCall' = g /\ Producing(g))

LEMMA EndKinds ==
  ASSUME NEW g \in Gens, Alive(g), EndsCancelled(g) \/ EndsFailed(g), UNCHANGED pendingCall
  PROVE  RunnerStops(g)
BY DEF EndsCancelled, EndsFailed, RunnerStops

LEMMA MoveKinds ==
  ASSUME NEW g \in Gens, Producing(g), NEW pc \in {"prefill", "streaming", "speaking", "failing"},
         RunnerGoes(g, pc)
  PROVE  RunnerMoves(g)
BY DEF RunnerGoes, RunnerMoves

LEMMA ProducingIsAlive == \A g \in Gens : Producing(g) => Alive(g)
BY DEF Producing, Alive

LEMMA RunnerKinds ==
  ASSUME TypeOK, NEW g \in Gens, RunnerStep(g)
  PROVE  RunnerStops(g) \/ RunnerMoves(g)
PROOF
  <1>1. ASSUME NEW state, AfterPrefill(g, state), Producing(g)
        PROVE  RunnerStops(g) \/ RunnerMoves(g)
    BY <1>1, EndKinds, MoveKinds, ProducingIsAlive DEF AfterPrefill
  <1>2. CASE ReplyBegins(g) \/ PrefillAwaited(g)
    <2>1. Producing(g)
      BY <1>2 DEF ReplyBegins, PrefillAwaited, Producing
    <2>2. QED
      BY <1>1, <1>2, <2>1, MoveKinds DEF ReplyBegins, PrefillAwaited
  <1>3. CASE SpeakBegins(g) \/ TextArrives(g)
    <2>1. Producing(g)
      BY <1>3 DEF SpeakBegins, TextArrives, Producing
    <2>2. QED
      BY <1>3, <2>1, EndKinds, MoveKinds, ProducingIsAlive DEF SpeakBegins, TextArrives
  <1>4. CASE CallBegins(g) \/ CallArrives(g)
    <2>1. Producing(g)
      BY <1>4 DEF CallBegins, CallArrives, Producing
    <2>2. CASE EmitsCall(g)
      BY <2>1, <2>2, ProducingIsAlive DEF EmitsCall, RunnerStops
    <2>3. QED
      BY <1>4, <2>1, <2>2, EndKinds, ProducingIsAlive DEF CallBegins, CallArrives
  <1>5. CASE StreamFails(g) \/ FailureReported(g) \/ CancellationHandled(g)
    <2>1. Alive(g)
      BY <1>5 DEF StreamFails, FailureReported, CancellationHandled, Alive
    <2>2. QED
      BY <1>5, <2>1, EndKinds DEF StreamFails, FailureReported, CancellationHandled
  <1>6. CASE FindsItselfStale(g)
    <2>1. Producing(g) /\ token # g
      BY <1>6 DEF FindsItselfStale, Producing
    <2>2. CASE RunnerGoes(g, "unwinding")
      BY <2>1, <2>2 DEF RunnerGoes, RunnerMoves
    <2>3. QED
      BY <1>6, <2>1, <2>2, EndKinds, ProducingIsAlive DEF FindsItselfStale
  <1>7. CASE SpeechEnds(g) \/ CleanupAborted(g)
    BY <1>7 DEF SpeechEnds, CleanupAborted, RunnerStops, Alive
  <1>8. CASE SpeechFails(g)
    <2>1. Producing(g) /\ runner' = [runner EXCEPT ![g] = "failing"]
          /\ UNCHANGED <<kind, turnOf, begun, active, token, pendingCall>>
      BY <1>8 DEF SpeechFails, Producing
    <2>2. outcome' = outcome \/ (~CanSend /\ outcome' = [outcome EXCEPT ![g] = "lost"])
      <3>1. PICK o : o \in (IF CanSend THEN {outcome[g]} ELSE {outcome[g], "lost"})
                     /\ outcome' = [outcome EXCEPT ![g] = o]
        BY <1>8 DEF SpeechFails
      <3>2. outcome = [outcome EXCEPT ![g] = outcome[g]]
        BY DEF TypeOK
      <3>3. QED
        BY <3>1, <3>2
    <2>3. QED
      BY <2>1, <2>2 DEF RunnerMoves
  <1>9. QED
    BY <1>2, <1>3, <1>4, <1>5, <1>6, <1>7, <1>8 DEF RunnerStep

LEMMA RunnerDefers ==
  ASSUME TypeOK, NEW g \in Gens, RunnerStep(g)
  PROVE  /\ deferred' \in DeferredTasks /\ awaits' \in [Gens -> 0..MaxPrefills]
         /\ draining /\ deferred.pc = "none" => deferred'.pc = "none"
PROOF
  <1>1. \A pc : RunnerGoes(g, pc) => UNCHANGED deferred /\ awaits' \in [Gens -> 0..MaxPrefills]
    BY Numbers DEF RunnerGoes, TypeOK
  <1>2. \A r : RunnerEnds(g, r) => awaits' \in [Gens -> 0..MaxPrefills]
    BY Numbers DEF RunnerEnds, TypeOK
  <1>3. WakeDeferred(g) => /\ deferred' \in DeferredTasks
                           /\ deferred.pc = "none" => deferred'.pc = "none"
    BY DEF WakeDeferred, TypeOK, DeferredTasks
  <1>4. EndsCancelled(g) \/ EndsFailed(g) \/ EmitsCall(g) => awaits' \in [Gens -> 0..MaxPrefills]
    BY <1>2 DEF EndsCancelled, EndsFailed, EmitsCall
  <1>5. deferred \in DeferredTasks /\ awaits \in [Gens -> 0..MaxPrefills] /\ turnOf[g] \in 0..MaxTurns
    BY DEF TypeOK
  <1>6. \A state : AfterPrefill(g, state) =>
          /\ deferred' \in DeferredTasks /\ awaits' \in [Gens -> 0..MaxPrefills]
          /\ deferred.pc = "none" => deferred'.pc = "none"
    BY <1>1, <1>3, <1>4, <1>5 DEF AfterPrefill
  <1>7. CASE ReplyBegins(g) \/ PrefillAwaited(g)
    BY <1>1, <1>5, <1>6, <1>7 DEF ReplyBegins, PrefillAwaited
  <1>8. CASE SpeakBegins(g) \/ CallBegins(g) \/ TextArrives(g) \/ CallArrives(g)
    BY <1>1, <1>3, <1>4, <1>5, <1>8 DEF SpeakBegins, CallBegins, TextArrives, CallArrives
  <1>9. CASE StreamFails(g) \/ FindsItselfStale(g) \/ FailureReported(g) \/ CancellationHandled(g)
    BY <1>1, <1>3, <1>4, <1>5, <1>9
       DEF StreamFails, FindsItselfStale, FailureReported, CancellationHandled
  <1>10. CASE SpeechEnds(g)
    BY <1>2, <1>3, <1>5, <1>10 DEF SpeechEnds, DeferredTasks
  <1>11. CASE SpeechFails(g) \/ CleanupAborted(g)
    BY <1>2, <1>3, <1>5, <1>11 DEF SpeechFails, CleanupAborted
  <1>12. QED
    BY <1>7, <1>8, <1>9, <1>10, <1>11 DEF RunnerStep

LEMMA RunnerTyped ==
  ASSUME TypeOK, NEW g \in Gens, Runner(g)
  PROVE  TypeOK'
PROOF
  <1>1. GenTypes /\ WaitTypes /\ TurnTypes /\ TaskTypes /\ RestTypes
    BY TypesApart
  <1>2. RunnerStep(g)
        /\ UNCHANGED <<consumer, worker, turns, waitVars, prefill, prefillTask,
                       generationStarted, turnVars, drainVars, outbox, asked>>
    BY DEF Runner
  <1>3. WaitTypes' /\ TaskTypes'
    BY <1>1, <1>2, RunnerDefers DEF WaitTypes, TaskTypes, waitVars
  <1>4. CASE RunnerStops(g)
    <2>1. GenTypes'
      BY <1>1, <1>2, <1>4, Numbers DEF RunnerStops, RunnerEnds, GenTypes
    <2>2. RestTypes'
      BY <1>1, <1>2, <1>4, Numbers DEF RunnerStops, RestTypes, drainVars, Gens
    <2>3. QED
      BY <1>1, <1>2, <1>3, <2>1, <2>2, TypesKept, TypesJoined
  <1>5. CASE RunnerMoves(g)
    <2>1. GenTypes'
      BY <1>1, <1>2, <1>5 DEF RunnerMoves, GenTypes
    <2>2. RestTypes'
      BY <1>1, <1>2, <1>5 DEF RunnerMoves, RestTypes, drainVars
    <2>3. QED
      BY <1>1, <1>2, <1>3, <2>1, <2>2, TypesKept, TypesJoined
  <1>6. QED
    BY <1>2, <1>4, <1>5, RunnerKinds

LEMMA StepTyped ==
  ASSUME TypeOK, Spoken, TurnHeld, Suspended, NoneReplaced, NoneReplaced', [Next]_vars
  PROVE  TypeOK'
PROOF
  <1>1. GenTypes /\ WaitTypes /\ TurnTypes /\ TaskTypes /\ RestTypes
    BY TypesApart
  <1>2. CASE Outbox
    <2>1. RestTypes'
      BY <1>1, <1>2 DEF Outbox, QueueFills, QueueDrains, QueueDies, RestTypes, drainVars
    <2>2. QED
      BY <1>1, <1>2, <2>1, TypesKept, TypesJoined DEF Outbox
  <1>3. ASSUME NEW p \in Prefills, PrefillEnds(p)
        PROVE  TypeOK'
    <2>1. WaitTypes'
      BY <1>1, <1>3 DEF PrefillEnds, WaitTypes, waitVars
    <2>2. QED
      BY <1>1, <1>3, <2>1, TypesKept, TypesJoined DEF PrefillEnds, drainVars
  <1>4. CASE UNCHANGED vars
    BY <1>1, <1>4, TypesKept, TypesJoined DEF vars, drainVars
  <1>5. QED
    BY <1>2, <1>3, <1>4, ConsumerTyped, WorkerTyped, DeferredTyped, DrainTyped, RunnerTyped DEF Next

-----------------------------------------------------------------------------
(* What the other steps come to.                                           *)

Starting ==
  \E k \in {"llm", "speak", "call"} :
    /\ StartAtOnce(k) /\ active = 0 /\ ~draining
    /\ k # "speak" => pendingCall = 0
    /\ k = "call" => turn = deferred.turn
    /\ consumer' = consumer \/ (consumer = "ready" /\ consumer' \in {"ready", "failed"})
    /\ UNCHANGED <<victim, drainVars, pendingCall, outbox>>

\* The generations stay as they are.
Quiet ==
  /\ UNCHANGED <<runner, kind, turnOf, begun, active, speechTurn, callTurn>>
  /\ turn' >= turn /\ pendingCall' \in {0, pendingCall}
  /\ token' = token \/ (drain = "schedulers" /\ token' = 0)

Cancels ==
  \E a \in Cancellers :
    (CancelBegins(a) \/ CancelEnds(a)) /\ UNCHANGED <<turnVars, pendingCall>>

LEMMA StartKinds ==
  ASSUME TypeOK, Suspended, NoneReplaced, NoneReplaced',
         CreateStarts \/ SpeakStarts \/ TurnReplied \/ DeferredStarts
  PROVE  Starting
PROOF
  <1>1. {"consumer", "worker", "deferred"} \subseteq Starters
    BY DEF Starters
  <1>2. CASE CreateStarts
    BY <1>1, <1>2, NothingSuspends DEF CreateStarts, CanHandle, MayReply, Starting
  <1>3. CASE SpeakStarts
    BY <1>3 DEF SpeakStarts, CanHandle, Starting
  <1>4. CASE TurnReplied
    BY <1>1, <1>4, NothingSuspends DEF TurnReplied, Answerable, MayReply, Starting
  <1>5. CASE DeferredStarts
    <2>1. PICK k \in {"llm", "call"} : StartAtOnce(k) /\ (k = "call" => deferred.kind = "call")
      BY <1>1, <1>5, NothingSuspends DEF DeferredStarts
    <2>2. QED
      BY <1>5, <2>1 DEF DeferredStarts, MayReply, Wanted, TurnIsCurrent, Starting
  <1>6. QED
    BY <1>2, <1>3, <1>4, <1>5

LEMMA StepKinds ==
  ASSUME TypeOK, Suspended, NoneReplaced, NoneReplaced',
         Consumer \/ Worker \/ Deferred \/ Drain \/ Outbox \/ (\E p \in Prefills : PrefillEnds(p))
  PROVE  Starting \/ Quiet \/ Cancels \/ SpeechStarts \/ ConsumerCancelled
PROOF
  <1>1. "consumer" \in Starters /\ Cancellers = {"consumer", "drain"}
        /\ "worker" \in Starters /\ "deferred" \in Starters
    BY DEF Starters, Cancellers
  <1>2. turn \in Nat /\ turn >= turn /\ turn + 1 >= turn
    BY Numbers DEF TypeOK
  <1>3. CASE CreateStarts \/ SpeakStarts \/ TurnReplied \/ DeferredStarts
    BY <1>3, StartKinds
  <1>4. CASE \/ CreateDefers \/ CreateConflicts \/ SpeakConflicts \/ AudioArrives \/ VadHearsNothing
             \/ UpdateArrives \/ OutputArrives \/ \E g \in Gens : CancelMismatches(g)
    BY <1>2, <1>4
       DEF CreateDefers, CreateConflicts, SpeakConflicts, AudioArrives, VadHearsNothing,
           UpdateArrives, OutputArrives, CancelMismatches, ConsumerRaises, genVars, turnVars, Quiet
  <1>5. CASE (\E g \in Gens : CancelArrives(g)) \/ CancelReturns \/ SpeechAnnounced
    BY <1>1, <1>5 DEF CancelArrives, CancelReturns, SpeechAnnounced, Cancels
  <1>6. CASE AudioCleared \/ ConsumerLeaves \/ HandlerCloses
    BY <1>2, <1>6 DEF AudioCleared, ConsumerLeaves, HandlerCloses, genVars, turnVars, Quiet
  <1>7. CASE SpeechStops \/ CommitArrives
    <2>1. turn' \in {turn, turn + 1}
      BY <1>7 DEF SpeechStops, CommitArrives
    <2>2. UNCHANGED <<genVars, speechTurn, callTurn, pendingCall>>
      BY <1>7 DEF SpeechStops, CommitArrives
    <2>3. QED
      BY <1>2, <2>1, <2>2 DEF genVars, Quiet
  <1>8. CASE Consumer
    BY <1>1, <1>3, <1>4, <1>5, <1>6, <1>7, <1>8, NothingSuspends DEF Consumer, CreateResumes, UpdateResumes
  <1>9. CASE Worker
    <2>1. CASE WorkerTakes \/ TurnSkipped \/ TurnDeferred \/ TurnFails
      BY <1>2, <2>1 DEF WorkerTakes, TurnSkipped, TurnDeferred, TurnFails, genVars, turnVars, Quiet
    <2>2. QED
      BY <1>1, <1>3, <1>9, <2>1, NothingSuspends DEF Worker, TurnReplyResumes
  <1>10. CASE Deferred
    <2>1. CASE DeferredWaits \/ DeferredDrops
      BY <1>2, <2>1 DEF DeferredWaits, DeferredDrops, genVars, turnVars, Quiet
    <2>2. QED
      BY <1>1, <1>3, <1>10, <2>1, NothingSuspends DEF Deferred, DeferredResumes
  <1>11. CASE Drain
    <2>1. CASE DrainAwaitsPrefill \/ DrainCancelsWorker \/ DrainCancelsDeferred \/ DrainFindsNoResponse
      BY <1>2, <2>1 DEF DrainAwaitsPrefill, DrainCancelsWorker, DrainCancelsDeferred,
                        DrainFindsNoResponse, genVars, turnVars, Quiet
    <2>2. CASE DrainCancelsResponse \/ DrainPassesResponse
      BY <1>1, <2>2 DEF DrainCancelsResponse, DrainPassesResponse, Cancels
    <2>3. CASE DrainReturns
      BY <1>2, <2>3 DEF DrainReturns, turnVars, Quiet
    <2>4. QED
      BY <1>11, <2>1, <2>2, <2>3 DEF Drain
  <1>12. CASE Outbox \/ \E p \in Prefills : PrefillEnds(p)
    BY <1>2, <1>12 DEF Outbox, PrefillEnds, genVars, turnVars, Quiet
  <1>13. QED
    BY <1>8, <1>9, <1>10, <1>11, <1>12

-----------------------------------------------------------------------------
(* One runner, one token.                                                  *)

\* What task.cancel() does to whoever produces.
LEMMA CancelledStops ==
  ASSUME TypeOK, NEW v \in Gens, runner' = [runner EXCEPT ![v] = Cancelled(runner[v])]
  PROVE  \A g \in Gens : /\ Alive(g)' => Alive(g)
                         /\ Busy(g)' => Busy(g) /\ g # v
                         /\ g # v => runner'[g] = runner[g]
PROOF
  <1>1. Cancelled(runner[v]) \in {"none", "cancelled", "unwinding", "aborting", "done", "dead"}
        /\ (runner[v] \in {"none", "done", "dead"} => Cancelled(runner[v]) \in {"none", "done", "dead"})
    BY CancelledTyped DEF TypeOK
  <1>2. \A g \in Gens : runner'[g] = IF g = v THEN Cancelled(runner[v]) ELSE runner[g]
    BY DEF TypeOK
  <1>3. QED
    BY <1>1, <1>2 DEF Alive, Busy, Producing

LEMMA CancelStops ==
  ASSUME TypeOK, CancelBegins("consumer") \/ CancelBegins("drain")
  PROVE  /\ active \in Gens /\ token' = 0
         /\ UNCHANGED <<kind, turnOf, begun, active>>
         /\ \A g \in Gens : /\ Alive(g)' => Alive(g)
                            /\ Busy(g)' => Busy(g) /\ g # active
                            /\ g # active => runner'[g] = runner[g]
PROOF
  <1>1. active \in Gens
    BY Numbers DEF CancelBegins, Cancellable, TypeOK, Gens
  <1>2. runner' = [runner EXCEPT ![active] = Cancelled(runner[active])] /\ token' = 0
        /\ UNCHANGED <<kind, turnOf, begun, active>>
    BY DEF CancelBegins
  <1>3. QED
    BY <1>1, <1>2, CancelledStops

LEMMA LeaverStops ==
  ASSUME TypeOK, ConsumerCancelled
  PROVE  \A g \in Gens : (Alive(g)' => Alive(g)) /\ (Busy(g)' => Busy(g))
PROOF
  <1> DEFINE v == victim["consumer"]
  <1>1. CASE v = 0
    BY <1>1 DEF ConsumerCancelled, Alive, Busy, Producing
  <1>2. CASE v # 0
    <2>1. v \in Gens
      BY <1>2, Numbers DEF TypeOK, Cancellers, Gens
    <2>2. runner' = [runner EXCEPT ![v] = Cancelled(runner[v])]
      BY <1>2 DEF ConsumerCancelled
    <2>3. QED
      BY <2>1, <2>2, CancelledStops
  <1>3. QED
    BY <1>1, <1>2

\* The new generation is the only one.
LEMMA StartAlone ==
  ASSUME TypeOK, Single, NEW k \in {"llm", "speak", "call"}, StartAtOnce(k), active = 0
  PROVE  /\ begun + 1 \in Gens /\ begun' = begun + 1 /\ active' = begun + 1 /\ token' = begun + 1
         /\ \A g \in Gens : ~Alive(g) /\ (Alive(g)' => g = begun + 1)
         /\ kind' = [kind EXCEPT ![begun + 1] = k] /\ turnOf' = [turnOf EXCEPT ![begun + 1] = turn']
         /\ turn' \in {turn, turn + 1} /\ UNCHANGED speechTurn
         /\ callTurn' = IF k = "call" THEN deferred.turn ELSE callTurn
PROOF
  <1>1. Begin(k) /\ Launch(begun + 1)
    BY DEF StartAtOnce
  <1>2. begun + 1 \in Gens
    BY <1>1, BeginTyped
  <1>3. \A g \in Gens : ~Alive(g)
    BY DEF Single, Gens
  <1>4. \A g \in Gens : g # begun + 1 => runner'[g] = runner[g]
    BY <1>1, <1>2 DEF Launch, TypeOK
  <1>5. \A g \in Gens : Alive(g)' => g = begun + 1
    BY <1>3, <1>4 DEF Alive
  <1>6. QED
    BY <1>1, <1>2, <1>3, <1>5 DEF Begin, Launch

LEMMA BusyIsAlive == \A g \in Gens : Busy(g) => Alive(g)
BY DEF Busy, Producing, Alive

LEMMA SingleStays ==
  ASSUME TypeOK, TypeOK', Suspended, Single, Stages, NoneReplaced, NoneReplaced', [Next]_vars
  PROVE  Single'
PROOF
  <1>1. /\ active \in Nat /\ begun \in Nat /\ pendingCall \in Nat /\ turn \in Nat /\ speechTurn \in Nat
        /\ active <= begun /\ pendingCall <= begun /\ speechTurn <= turn
        /\ \A g \in Gens : Alive(g) => active = g
        /\ \A g \in Gens : Busy(g) => token = g
        /\ \A g \in Gens : g \in Nat \ {0}
    BY NaturalNumbers DEF Single
  <1>2. CASE Starting
    <2>1. PICK k \in {"llm", "speak", "call"} : StartAtOnce(k) /\ active = 0 /\ UNCHANGED pendingCall
      BY <1>2 DEF Starting
    <2>2. /\ begun + 1 \in Gens /\ begun' = begun + 1 /\ active' = begun + 1 /\ token' = begun + 1
          /\ \A g \in Gens : Alive(g)' => g = begun + 1
          /\ turn' \in {turn, turn + 1} /\ UNCHANGED speechTurn
      BY <2>1, StartAlone
    <2>3. \A g \in Gens : Busy(g)' => Alive(g)'
      BY DEF Busy, Producing, Alive
    <2>4. active' <= begun' /\ pendingCall' <= begun' /\ speechTurn' <= turn'
      BY <1>1, <2>1, <2>2
    <2>5. QED
      BY <2>2, <2>3, <2>4 DEF Single
  <1>3. CASE Quiet
    <2>1. active' <= begun' /\ pendingCall' <= begun' /\ speechTurn' <= turn'
      <3>1. turn' \in Nat
        BY Numbers DEF TypeOK
      <3>2. QED
        BY <1>1, <1>3, <3>1 DEF Quiet
    <2>2. drain = "schedulers" => \A g \in Gens : ~Busy(g)
      BY DEF Stages, ResponsePast
    <2>3. \A g \in Gens : (Alive(g)' <=> Alive(g)) /\ (Busy(g)' <=> Busy(g))
      BY <1>3 DEF Quiet, Alive, Busy, Producing
    <2>4. QED
      BY <1>1, <1>3, <2>1, <2>2, <2>3 DEF Quiet, Single
  <1>4. ASSUME speechTurn' <= turn', pendingCall' \in {0, pendingCall}, NEW a \in Cancellers,
               CancelBegins(a) \/ CancelEnds(a)
        PROVE  Single'
    <2>1. CASE CancelBegins(a)
      <3>1. CancelBegins("consumer") \/ CancelBegins("drain")
        BY <1>4, <2>1 DEF Cancellers
      <3>2. QED
        BY <1>1, <1>4, <3>1, CancelStops, BusyIsAlive DEF Single
    <2>2. CASE CancelEnds(a)
      <3>1. UNCHANGED <<runner, begun, active>>
            /\ (token' = token \/ (token' = 0 /\ token = victim[a] /\ RunnerOver(token)))
        BY <2>2 DEF CancelEnds
      <3>2. \A g \in Gens : (Alive(g)' <=> Alive(g)) /\ (Busy(g)' <=> Busy(g))
        BY <3>1 DEF Alive, Busy, Producing
      <3>3. \A g \in Gens : RunnerOver(g) => ~Busy(g)
        BY DEF RunnerOver, Busy, Producing
      <3>4. QED
        BY <1>1, <1>4, <3>1, <3>2, <3>3 DEF Single
    <2>3. QED
      BY <1>4, <2>1, <2>2
  <1>5. CASE Cancels
    BY <1>1, <1>4, <1>5 DEF Cancels, turnVars
  <1>6. CASE SpeechStarts
    <2>1. speechTurn' = turn' /\ turn' \in Nat /\ pendingCall' = 0
      BY <1>1, <1>6 DEF SpeechStarts
    <2>2. CASE CancelBegins("consumer")
      BY <1>4, <2>1, <2>2 DEF Cancellers
    <2>3. CASE UNCHANGED genVars
      BY <1>1, <2>1, <2>3 DEF genVars, Single, Alive, Busy, Producing
    <2>4. QED
      BY <1>6, <2>2, <2>3 DEF SpeechStarts
  <1>7. CASE ConsumerCancelled
    BY <1>1, <1>7, LeaverStops DEF ConsumerCancelled, turnVars, Single
  <1>8. ASSUME NEW h \in Gens, Runner(h)
        PROVE  Single'
    <2>1. UNCHANGED <<turn, speechTurn>> /\ RunnerStep(h)
      BY <1>8 DEF Runner, turnVars
    <2>2. CASE RunnerStops(h)
      <3>1. active = h /\ begun' = begun /\ active' = 0 /\ pendingCall' \in {pendingCall, h}
        BY <1>1, <2>2 DEF RunnerStops, RunnerEnds
      <3>2. \A g \in Gens : ~Alive(g)'
        BY <1>1, <2>2, <3>1 DEF RunnerStops, RunnerEnds, Alive, TypeOK
      <3>3. \A g \in Gens : ~Busy(g)'
        BY <3>2 DEF Alive, Busy, Producing
      <3>4. QED
        BY <1>1, <2>1, <3>1, <3>2, <3>3 DEF Single
    <2>3. CASE RunnerMoves(h)
      <3>1. Busy(h) /\ Alive(h) /\ UNCHANGED <<begun, active, token, pendingCall>>
        BY <2>3, BusyIsAlive DEF RunnerMoves, Busy
      <3>2. \A g \in Gens : g # h => runner'[g] = runner[g]
        BY <2>3 DEF RunnerMoves, TypeOK
      <3>3. \A g \in Gens : (Alive(g)' => Alive(g)) /\ (Busy(g)' => Busy(g))
        BY <3>1, <3>2 DEF Alive, Busy, Producing
      <3>4. QED
        BY <1>1, <2>1, <3>1, <3>3 DEF Single
    <2>4. QED
      BY <2>1, <2>2, <2>3, RunnerKinds
  <1>9. CASE UNCHANGED vars
    BY <1>1, <1>9 DEF vars, genVars, turnVars, Single, Alive, Busy, Producing
  <1>10. QED
    BY <1>2, <1>3, <1>5, <1>6, <1>7, <1>8, <1>9, StepKinds DEF Next

-----------------------------------------------------------------------------
(* Who is suspended, and what is spoken.                                   *)

LEMMA SuspendedStays ==
  ASSUME TypeOK, Suspended, NoneReplaced, NoneReplaced', [Next]_vars
  PROVE  Suspended'
PROOF
  <1>1. \A a \in Starters : starts[a] = 0 /\ ~StartResumes(a)
    BY NothingSuspends
  <1>2. "consumer" \in Starters /\ "worker" \in Starters /\ "deferred" \in Starters
    BY DEF Starters
  <1>3. consumer # "updating"
    BY NothingSuspends
  <1>4. UpdateArrives => consumer' # "updating"
    BY <1>2 DEF UpdateArrives, PrefillReplaced, TypeOK, NoneReplaced, Awaiters
  <1>5. \A a \in Cancellers : CancelBegins(a) \/ CancelEnds(a) => UNCHANGED starts
    BY DEF CancelBegins, CancelEnds
  <1>6. \A k : StartAtOnce(k) => UNCHANGED starts
    BY DEF StartAtOnce
  <1>7. \A k : ~StartSuspends("consumer", k) /\ ~StartSuspends("worker", k)
               /\ ~StartSuspends("deferred", k)
    BY <1>2, NothingSuspends
  <1>8. \A a \in Starters : starts'[a] = 0
    <2>1. CASE Consumer
      BY <1>1, <1>2, <1>3, <1>5, <1>6, <1>7, <2>1
         DEF Consumer, CreateStarts, CreateResumes, CreateDefers, CreateConflicts, SpeakStarts,
             SpeakConflicts, CancelArrives, CancelMismatches, CancelReturns, UpdateArrives,
             UpdateResumes, OutputArrives, AudioArrives, VadHearsNothing, SpeechStarts,
             SpeechAnnounced, SpeechStops, CommitArrives, AudioCleared, ConsumerCancelled,
             ConsumerLeaves, HandlerCloses, ConsumerRaises, waitVars, TypeOK, Cancellers
    <2>2. CASE Worker \/ Deferred
      BY <1>1, <1>2, <1>6, <1>7, <2>2
         DEF Worker, WorkerTakes, TurnSkipped, TurnReplied, TurnDeferred, TurnReplyResumes, TurnFails,
             Deferred, DeferredWaits, DeferredStarts, DeferredResumes, DeferredDrops, waitVars
    <2>3. CASE Drain
      BY <1>1, <1>5, <2>3
         DEF Drain, DrainAwaitsPrefill, DrainCancelsWorker, DrainCancelsDeferred, DrainCancelsResponse,
             DrainFindsNoResponse, DrainPassesResponse, DrainReturns, waitVars, TypeOK, Cancellers
    <2>4. CASE Outbox \/ (\E g \in Gens : Runner(g)) \/ (\E p \in Prefills : PrefillEnds(p)) \/ UNCHANGED vars
      BY <1>1, <2>4 DEF Outbox, Runner, PrefillEnds, waitVars, vars
    <2>5. QED
      BY <2>1, <2>2, <2>3, <2>4 DEF Next
  <1>9. consumer' # "updating"
    <2>1. CASE Consumer
      BY <1>3, <1>4, <2>1
         DEF Consumer, CreateStarts, CreateResumes, CreateDefers, CreateConflicts, SpeakStarts,
             SpeakConflicts, CancelArrives, CancelMismatches, CancelReturns,
             UpdateResumes, OutputArrives, AudioArrives, VadHearsNothing, SpeechStarts,
             SpeechAnnounced, SpeechStops, CommitArrives, CompleteTurn, AudioCleared, ConsumerCancelled,
             ConsumerLeaves, HandlerCloses, ConsumerRaises, taskVars
    <2>2. CASE Worker \/ Deferred \/ Drain
      BY <1>3, <2>2
         DEF Worker, WorkerTakes, TurnSkipped, TurnReplied, TurnDeferred, TurnReplyResumes, TurnFails,
             Deferred, DeferredWaits, DeferredStarts, DeferredResumes, DeferredDrops,
             Drain, DrainAwaitsPrefill, DrainCancelsWorker, DrainCancelsDeferred, DrainCancelsResponse,
             DrainFindsNoResponse, DrainPassesResponse, DrainReturns, taskVars
    <2>3. CASE Outbox \/ (\E g \in Gens : Runner(g)) \/ (\E p \in Prefills : PrefillEnds(p)) \/ UNCHANGED vars
      BY <1>3, <2>3 DEF Outbox, Runner, PrefillEnds, taskVars, vars
    <2>4. QED
      BY <2>1, <2>2, <2>3 DEF Next
  <1>10. QED
    BY <1>8, <1>9 DEF Suspended

LEMMA SpokenStays ==
  ASSUME TypeOK, Spoken, Suspended, NoneReplaced, NoneReplaced', [Next]_vars
  PROVE  Spoken'
PROOF
  <1>1. turn \in Nat
    BY Numbers DEF TypeOK
  <1>2. \A k : StartAtOnce(k) => turn' \in {turn, turn + 1} /\ UNCHANGED speaking
    BY DEF StartAtOnce, Begin
  <1>3. CASE Starting
    <2>1. turn' \in {turn, turn + 1} /\ UNCHANGED speaking
      BY <1>2, <1>3 DEF Starting
    <2>2. QED
      BY <1>1, <2>1 DEF Spoken
  <1>4. CASE SpeechStarts \/ SpeechStops \/ CommitArrives \/ AudioCleared
    <2>1. CASE SpeechStops
      BY <1>1, <2>1 DEF SpeechStops, Spoken
    <2>2. CASE CommitArrives
      <3>1. (speaking /\ turn' = turn) \/ turn' = turn + 1
        BY <2>2 DEF CommitArrives
      <3>2. QED
        BY <1>1, <3>1 DEF Spoken
    <2>3. QED
      BY <1>1, <1>4, <2>1, <2>2 DEF SpeechStarts, AudioCleared, Spoken
  <1>5. CASE UNCHANGED turnVars
    BY <1>5 DEF turnVars, Spoken
  <1>6. \/ Starting \/ SpeechStarts \/ SpeechStops \/ CommitArrives \/ AudioCleared
        \/ UNCHANGED turnVars
    <2>1. CASE CreateStarts \/ SpeakStarts \/ TurnReplied \/ DeferredStarts
      BY <2>1, StartKinds
    <2>2. CASE Consumer
      BY <2>1, <2>2, NothingSuspends
         DEF Consumer, CreateResumes, CreateDefers, CreateConflicts,
             SpeakConflicts, CancelArrives, CancelMismatches, CancelReturns, UpdateArrives,
             UpdateResumes, OutputArrives, AudioArrives, VadHearsNothing,
             SpeechAnnounced, ConsumerCancelled, ConsumerLeaves, HandlerCloses, ConsumerRaises, Starters
    <2>3. CASE Worker \/ Deferred
      BY <2>1, <2>3, NothingSuspends
         DEF Worker, WorkerTakes, TurnSkipped, TurnDeferred, TurnReplyResumes, TurnFails,
             Deferred, DeferredWaits, DeferredResumes, DeferredDrops, Starters
    <2>4. CASE Drain
      BY <2>4
         DEF Drain, DrainAwaitsPrefill, DrainCancelsWorker, DrainCancelsDeferred, DrainCancelsResponse,
             DrainFindsNoResponse, DrainPassesResponse, DrainReturns
    <2>5. CASE Outbox \/ (\E g \in Gens : Runner(g)) \/ (\E p \in Prefills : PrefillEnds(p)) \/ UNCHANGED vars
      BY <2>5 DEF Outbox, Runner, PrefillEnds, vars
    <2>6. QED
      BY <2>2, <2>3, <2>4, <2>5 DEF Next
  <1>7. QED
    BY <1>3, <1>4, <1>5, <1>6

-----------------------------------------------------------------------------
(* Who may produce, and for which turn.                                    *)

\* What a step leaves of the generations that could speak or call.
LEMMA NobodyNew ==
  ASSUME \A g \in Gens : Producing(g)' => Producing(g),
         UNCHANGED <<kind, turnOf, callTurn, speechTurn>>, pendingCall' \in {0, pendingCall},
         Current, PendingCallBlocksReplies, PendingCallIsCurrent
  PROVE  Current' /\ PendingCallBlocksReplies' /\ PendingCallIsCurrent'
BY DEF Current, PendingCallBlocksReplies, PendingCallIsCurrent

LEMMA ProducersStay ==
  ASSUME TypeOK, TypeOK', Suspended, Single, Stages, NoneReplaced, NoneReplaced', [Next]_vars,
         Current, PendingCallBlocksReplies, PendingCallIsCurrent
  PROVE  Current' /\ PendingCallBlocksReplies' /\ PendingCallIsCurrent'
PROOF
  <1>1. /\ begun \in Nat /\ pendingCall \in Nat /\ turn \in Nat /\ speechTurn \in Nat /\ callTurn \in Nat
        /\ pendingCall <= begun /\ speechTurn <= turn
        /\ \A g \in Gens : g \in Nat \ {0}
    BY NaturalNumbers DEF Single
  <1>2. \A g \in Gens : Producing(g) <=> Busy(g) /\ runner[g] # "failing"
    BY DEF Busy, Producing
  <1>3. CASE Starting
    <2>1. PICK k \in {"llm", "speak", "call"} :
            /\ StartAtOnce(k) /\ active = 0 /\ UNCHANGED pendingCall
            /\ k # "speak" => pendingCall = 0
            /\ k = "call" => turn = deferred.turn
      BY <1>3 DEF Starting
    <2> DEFINE new == begun + 1
    <2>2. /\ new \in Gens /\ kind' = [kind EXCEPT ![new] = k] /\ turnOf' = [turnOf EXCEPT ![new] = turn']
          /\ \A g \in Gens : ~Alive(g) /\ (Alive(g)' => g = new)
          /\ turn' \in {turn, turn + 1} /\ UNCHANGED speechTurn
          /\ callTurn' = IF k = "call" THEN deferred.turn ELSE callTurn
      BY <2>1, StartAlone
    <2>3. \A g \in Gens : Producing(g)' => g = new
      BY <2>2 DEF Producing, Alive
    <2>4. kind'[new] = k /\ turnOf'[new] = turn' /\ turn' >= speechTurn'
      BY <1>1, <2>2 DEF TypeOK
    <2>5. k = "call" => callTurn' >= speechTurn'
      BY <1>1, <2>1, <2>2
    <2>6. pendingCall # new /\ (pendingCall # 0 => k = "speak")
      BY <1>1, <2>1
    <2>7. Current'
      BY <2>3, <2>4, <2>5 DEF Current
    <2>8. PendingCallBlocksReplies'
      BY <2>1, <2>3, <2>4, <2>6 DEF PendingCallBlocksReplies
    <2>9. pendingCall # 0 =>
            /\ kind'[pendingCall] = kind[pendingCall] /\ turnOf'[pendingCall] = turnOf[pendingCall]
            /\ UNCHANGED callTurn
      BY <2>2, <2>6 DEF TypeOK
    <2>10. PendingCallIsCurrent'
      BY <2>1, <2>2, <2>9 DEF PendingCallIsCurrent
    <2>11. QED
      BY <2>7, <2>8, <2>10
  <1>4. CASE Quiet
    <2>1. \A g \in Gens : Producing(g)' => Producing(g)
      BY <1>4 DEF Quiet, Producing
    <2>2. QED
      BY <1>4, <2>1, NobodyNew DEF Quiet
  <1>5. CASE Cancels
    <2>1. PICK a \in Cancellers : (CancelBegins(a) \/ CancelEnds(a)) /\ UNCHANGED <<turnVars, pendingCall>>
      BY <1>5 DEF Cancels
    <2>2. CASE CancelBegins(a)
      <3>1. CancelBegins("consumer") \/ CancelBegins("drain")
        BY <2>1, <2>2 DEF Cancellers
      <3>2. \A g \in Gens : Producing(g)' => Producing(g)
        BY <1>2, <3>1, CancelStops DEF Busy, Producing
      <3>3. QED
        BY <2>1, <3>1, <3>2, CancelStops, NobodyNew DEF turnVars
    <2>3. CASE CancelEnds(a)
      <3>1. UNCHANGED <<runner, kind, turnOf>>
        BY <2>3 DEF CancelEnds
      <3>2. QED
        BY <2>1, <3>1, NobodyNew DEF turnVars, Producing
    <2>4. QED
      BY <2>1, <2>2, <2>3
  <1>6. CASE SpeechStarts
    <2>1. pendingCall' = 0 /\ PendingCallBlocksReplies' /\ PendingCallIsCurrent'
      BY <1>6 DEF SpeechStarts, PendingCallBlocksReplies, PendingCallIsCurrent
    <2>2. ASSUME Interrupt, NEW g \in Gens
          PROVE  ~Producing(g)'
      <3>1. Busy(g) => token = g /\ active = g
        BY BusyIsAlive DEF Single
      <3>2. CASE CancelBegins("consumer")
        <4>1. Producing(g)' => Busy(g)' /\ g # active
          BY <3>2, CancelStops DEF Busy
        <4>2. Producing(g)' => Busy(g)
          BY <3>2, <4>1, CancelStops
        <4>3. QED
          BY <3>1, <4>1, <4>2
      <3>3. CASE ~Cancellable /\ UNCHANGED genVars
        BY <1>1, <1>2, <3>1, <3>3 DEF Cancellable, genVars, Producing
      <3>4. QED
        BY <1>6, <2>2, <3>2, <3>3 DEF SpeechStarts
    <2>3. QED
      BY <2>1, <2>2 DEF Current
  <1>7. CASE ConsumerCancelled
    <2>1. \A g \in Gens : Producing(g)' => Producing(g)
      <3> DEFINE v == victim["consumer"]
      <3>1. CASE v = 0
        BY <1>7, <3>1 DEF ConsumerCancelled, Producing
      <3>2. CASE v # 0
        <4>1. v \in Gens /\ runner' = [runner EXCEPT ![v] = Cancelled(runner[v])]
          BY <1>7, <3>2, Numbers DEF ConsumerCancelled, TypeOK, Cancellers, Gens
        <4>2. QED
          BY <4>1, CancelledStops DEF Busy, Producing
      <3>3. QED
        BY <3>1, <3>2
    <2>2. QED
      BY <1>7, <2>1, NobodyNew DEF ConsumerCancelled, turnVars
  <1>8. ASSUME NEW h \in Gens, Runner(h)
        PROVE  Current' /\ PendingCallBlocksReplies' /\ PendingCallIsCurrent'
    <2>1. UNCHANGED <<turn, callTurn, speechTurn>> /\ RunnerStep(h)
      BY <1>8 DEF Runner, turnVars
    <2>2. CASE RunnerStops(h)
      <3>1. UNCHANGED <<kind, turnOf>> /\ (pendingCall' = pendingCall \/ (pendingCall' = h /\ Producing(h)))
            /\ runner' = [runner EXCEPT ![h] = "done"] /\ Alive(h)
        BY <2>2 DEF RunnerStops, RunnerEnds
      <3>2. \A g \in Gens : ~Producing(g)'
        <4>1. \A g \in Gens : Producing(g) => g = h
          BY <3>1, ProducingIsAlive DEF Single
        <4>2. \A g \in Gens : runner'[g] = IF g = h THEN "done" ELSE runner[g]
          BY <3>1 DEF TypeOK
        <4>3. QED
          BY <4>1, <4>2 DEF Producing
      <3>3. Current' /\ PendingCallBlocksReplies'
        BY <3>2 DEF Current, PendingCallBlocksReplies
      <3>4. PendingCallIsCurrent'
        BY <2>1, <3>1 DEF Current, PendingCallIsCurrent
      <3>5. QED
        BY <3>3, <3>4
    <2>3. CASE RunnerMoves(h)
      <3>1. UNCHANGED <<kind, turnOf, pendingCall>> /\ Producing(h)
        BY <2>3 DEF RunnerMoves
      <3>2. \A g \in Gens : g # h => runner'[g] = runner[g]
        BY <2>3 DEF RunnerMoves, TypeOK
      <3>3. \A g \in Gens : Producing(g)' => Producing(g)
        BY <3>1, <3>2 DEF Producing
      <3>4. QED
        BY <2>1, <3>1, <3>3, NobodyNew
    <2>4. QED
      BY <2>1, <2>2, <2>3, RunnerKinds
  <1>9. CASE UNCHANGED vars
    BY <1>9, NobodyNew DEF vars, genVars, turnVars, Producing
  <1>10. QED
    BY <1>3, <1>4, <1>5, <1>6, <1>7, <1>8, <1>9, StepKinds DEF Next

-----------------------------------------------------------------------------
(* What drain() has passed.                                                *)

\* Nothing but drain() itself moves it on, and the session stays released.
LEMMA OnlyDrainDrains ==
  ASSUME [Next]_vars
  PROVE  /\ Drain \/ UNCHANGED drainVars
         /\ Released => Released'
PROOF
  <1>1. CASE Consumer
    BY <1>1
       DEF Consumer, CreateStarts, CreateResumes, CreateDefers, CreateConflicts, SpeakStarts,
           SpeakConflicts, CancelArrives, CancelMismatches, CancelReturns, UpdateArrives,
           UpdateResumes, OutputArrives, AudioArrives, VadHearsNothing, SpeechStarts,
           SpeechAnnounced, SpeechStops, CommitArrives, CompleteTurn, AudioCleared, ConsumerCancelled,
           ConsumerLeaves, HandlerCloses, ConsumerRaises, CanHandle, Released, taskVars
  <1>2. CASE Worker \/ Deferred
    BY <1>2
       DEF Worker, WorkerTakes, TurnSkipped, TurnReplied, TurnDeferred, TurnReplyResumes, TurnFails,
           Transcribed, Answerable, CanSend,
           Deferred, DeferredWaits, DeferredStarts, DeferredResumes, DeferredDrops, Released
  <1>3. CASE Drain
    BY <1>3 DEF Drain, DrainAwaitsPrefill, DrainCancelsWorker, DrainCancelsDeferred, DrainCancelsResponse,
                DrainFindsNoResponse, DrainPassesResponse, DrainReturns, Released, taskVars
  <1>4. CASE Outbox \/ (\E g \in Gens : Runner(g)) \/ (\E p \in Prefills : PrefillEnds(p)) \/ UNCHANGED vars
    BY <1>4 DEF Outbox, QueueFills, QueueDrains, QueueDies, Runner, PrefillEnds, taskVars, drainVars, vars, Released
  <1>5. QED
    BY <1>1, <1>2, <1>3, <1>4 DEF Next

\* A released session takes no further event and completes no turn.
LEMMA ConsumerIdle ==
  ASSUME TypeOK, Suspended, NoneReplaced, NoneReplaced', DrainReal, drain # "no", Consumer
  PROVE  UNCHANGED <<worker, turns, deferred, prefillTask>>
PROOF
  <1>1. draining /\ Released
    BY DEF DrainReal
  <1>2. ~CanHandle /\ ~CreateResumes /\ ~UpdateResumes
    BY <1>1, NothingSuspends DEF CanHandle, CreateResumes, UpdateResumes, Starters
  <1>3. CASE SpeechStops
    <2>1. ~CanSend
      BY <1>1, <1>3 DEF SpeechStops, Released, CanSend
    <2>2. QED
      BY <1>3, <2>1 DEF SpeechStops, CompleteTurn, fillVars
  <1>4. CASE SpeechStarts
    BY <1>4 DEF SpeechStarts, CancelBegins, fillVars
  <1>5. CASE CancelReturns \/ SpeechAnnounced
    BY <1>5 DEF CancelReturns, SpeechAnnounced, CancelEnds, fillVars
  <1>6. CASE VadHearsNothing \/ ConsumerCancelled \/ ConsumerLeaves \/ HandlerCloses
    BY <1>6 DEF VadHearsNothing, ConsumerCancelled, ConsumerLeaves, HandlerCloses, fillVars
  <1>7. QED
    BY <1>2, <1>3, <1>4, <1>5, <1>6
       DEF Consumer, CreateStarts, CreateDefers, CreateConflicts, SpeakStarts, SpeakConflicts,
           CancelArrives, CancelMismatches, UpdateArrives, OutputArrives, AudioArrives,
           CommitArrives, AudioCleared

LEMMA PassedStages ==
  ASSUME TypeOK, Stages
  PROVE  /\ PrefillPassed => \A p \in Prefills : ~Live(p)
         /\ WorkerPassed => PrefillPassed /\ worker = "none"
         /\ DeferredPassed => WorkerPassed /\ deferred.pc = "none"
         /\ PrefillPassed => Released
PROOF
  <1>1. ASSUME PrefillPassed, NEW p \in Prefills, Live(p)
        PROVE  FALSE
    <2>1. p = prefillTask /\ drain \in {"no", "prefill"} /\ p # 0
      BY <1>1, Numbers DEF Stages, PrefillPast, Prefills
    <2>2. drain = "prefill" /\ waits["drain"] = p /\ PrefillOver(p)
      BY <1>1, <2>1 DEF PrefillPassed, GatherOver, Stages, PrefillPast
    <2>3. QED
      BY <1>1, <2>2 DEF PrefillOver, Live
  <1>2. WorkerPassed => PrefillPassed /\ worker = "none"
    BY DEF WorkerPassed, Stages, WorkerPast
  <1>3. DeferredPassed => WorkerPassed /\ deferred.pc = "none"
    BY DEF DeferredPassed, Stages, DeferredPast
  <1>4. PrefillPassed => Released
    BY DEF PrefillPassed, Stages, DrainReal
  <1>5. QED
    BY <1>1, <1>2, <1>3, <1>4

LEMMA DrainRealStays ==
  ASSUME TypeOK, Stages, [Next]_vars
  PROVE  DrainReal'
PROOF
  <1>1. CASE UNCHANGED drainVars
    BY <1>1, OnlyDrainDrains DEF drainVars, Stages, DrainReal
  <1>2. CASE Drain
    <2>1. Released
      BY <1>2, PassedStages DEF Drain, DrainAwaitsPrefill, DrainCancelsWorker, DrainCancelsDeferred,
         DrainCancelsResponse, DrainFindsNoResponse, DrainPassesResponse, DrainReturns, Stages, DrainReal
    <2>2. draining'
      BY <1>2 DEF Drain, DrainAwaitsPrefill, DrainCancelsWorker, DrainCancelsDeferred,
         DrainCancelsResponse, DrainFindsNoResponse, DrainPassesResponse, DrainReturns, DrainReaches,
         Stages, DrainReal
    <2>3. QED
      BY <2>1, <2>2, OnlyDrainDrains DEF DrainReal
  <1>3. QED
    BY <1>1, <1>2, OnlyDrainDrains

LEMMA TurnHeldStays ==
  ASSUME TypeOK, TurnHeld, Stages, Suspended, NoneReplaced, NoneReplaced', [Next]_vars
  PROVE  TurnHeld'
PROOF
  <1>1. CASE SpeechStops \/ CommitArrives
    <2> DEFINE t == turn'
    <2>1. CompleteTurn(t)
      BY <1>1 DEF SpeechStops, CommitArrives
    <2>2. CASE turns' = Append(turns, t)
      <3>1. turns \in Seq(1..MaxTurns) /\ Len(turns) \in Nat
        BY DEF TypeOK
      <3> HIDE DEF t
      <3>2. Append(turns, t) # <<>>
        <4>1. Len(Append(turns, t)) = Len(turns) + 1 /\ Len(<<>>) = 0
          BY <3>1
        <4>2. QED
          BY <3>1, <4>1
      <3>3. QED
        BY <2>2, <3>2 DEF TurnHeld
    <2>3. CASE UNCHANGED <<turns, worker>>
      BY <2>3 DEF TurnHeld
    <2>4. QED
      BY <2>1, <2>2, <2>3 DEF CompleteTurn
  <1>2. CASE Worker
    BY <1>2, NothingSuspends
       DEF Worker, WorkerTakes, TurnSkipped, TurnReplied, TurnDeferred, TurnReplyResumes, TurnFails,
           StartSuspends, Starters, TurnHeld
  <1>3. CASE Drain
    <2>1. UNCHANGED <<worker, turns>> \/ worker' = "none"
      BY <1>3, PassedStages
         DEF Drain, DrainAwaitsPrefill, DrainCancelsWorker, DrainCancelsDeferred,
             DrainCancelsResponse, DrainFindsNoResponse, DrainPassesResponse, DrainReturns, taskVars
    <2>2. QED
      BY <2>1 DEF TurnHeld
  <1>4. CASE UNCHANGED <<worker, turns>>
    BY <1>4 DEF TurnHeld
  <1>5. Consumer => SpeechStops \/ CommitArrives \/ UNCHANGED <<worker, turns>>
    BY DEF Consumer, CreateStarts, CreateResumes, CreateDefers, CreateConflicts, SpeakStarts,
           SpeakConflicts, CancelArrives, CancelMismatches, CancelReturns, UpdateArrives,
           UpdateResumes, OutputArrives, AudioArrives, VadHearsNothing, SpeechStarts,
           SpeechAnnounced, AudioCleared, ConsumerCancelled,
           ConsumerLeaves, HandlerCloses, ConsumerRaises, taskVars
  <1>6. Deferred => UNCHANGED <<worker, turns>>
    BY DEF Deferred, DeferredWaits, DeferredStarts, DeferredResumes, DeferredDrops
  <1>7. Outbox \/ (\E g \in Gens : Runner(g)) \/ (\E p \in Prefills : PrefillEnds(p)) \/ UNCHANGED vars
          => UNCHANGED <<worker, turns>>
    BY DEF Outbox, Runner, PrefillEnds, taskVars, vars
  <1>8. QED
    BY <1>1, <1>2, <1>3, <1>4, <1>5, <1>6, <1>7 DEF Next

LEMMA WorkerPastStays ==
  ASSUME TypeOK, Stages, Suspended, NoneReplaced, NoneReplaced', [Next]_vars
  PROVE  WorkerPast'
PROOF
  <1>1. DrainReal /\ WorkerPast
    BY DEF Stages
  <1>2. CASE Drain
    <2>1. CASE drain' \in {"no", "prefill"}
      BY <2>1 DEF WorkerPast
    <2>2. CASE DrainCancelsWorker
      BY <2>2 DEF DrainCancelsWorker, WorkerPast
    <2>3. CASE DrainCancelsDeferred \/ DrainCancelsResponse \/ DrainFindsNoResponse
      BY <2>3, PassedStages DEF DrainCancelsDeferred, DrainCancelsResponse, DrainFindsNoResponse, WorkerPast
    <2>4. CASE DrainPassesResponse \/ DrainReturns
      BY <1>1, <2>4 DEF DrainPassesResponse, DrainReturns, taskVars, WorkerPast
    <2>5. QED
      BY <1>2, <2>1, <2>2, <2>3, <2>4 DEF Drain, DrainAwaitsPrefill, DrainReaches
  <1>3. CASE ~Drain
    <2>1. UNCHANGED drain
      BY <1>3, OnlyDrainDrains DEF drainVars
    <2>2. CASE Consumer
      BY <1>1, <2>1, <2>2, ConsumerIdle DEF WorkerPast
    <2>3. CASE Worker
      BY <1>1, <2>1, <2>3, NothingSuspends
         DEF Worker, WorkerTakes, TurnSkipped, TurnReplied, TurnDeferred, TurnReplyResumes, TurnFails,
             Transcribed, Answerable, Starters, WorkerPast
    <2>4. CASE Deferred
      BY <1>1, <2>1, <2>4
         DEF Deferred, DeferredWaits, DeferredStarts, DeferredResumes, DeferredDrops, WorkerPast
    <2>5. CASE Outbox \/ (\E g \in Gens : Runner(g)) \/ (\E p \in Prefills : PrefillEnds(p)) \/ UNCHANGED vars
      BY <1>1, <2>1, <2>5 DEF Outbox, Runner, PrefillEnds, taskVars, vars, WorkerPast
    <2>6. QED
      BY <1>3, <2>2, <2>3, <2>4, <2>5 DEF Next
  <1>4. QED
    BY <1>2, <1>3

LEMMA DeferredPastStays ==
  ASSUME TypeOK, Stages, Suspended, NoneReplaced, NoneReplaced', [Next]_vars
  PROVE  DeferredPast'
PROOF
  <1>1. DrainReal /\ DeferredPast
    BY DEF Stages
  <1>2. CASE Drain
    <2>1. CASE drain' \in {"no", "prefill", "worker"}
      BY <2>1 DEF DeferredPast
    <2>2. CASE DrainCancelsDeferred
      BY <2>2 DEF DrainCancelsDeferred, NoDeferred, DeferredPast
    <2>3. CASE DrainCancelsResponse \/ DrainFindsNoResponse
      BY <2>3, PassedStages DEF DrainCancelsResponse, DrainFindsNoResponse, DeferredPast
    <2>4. CASE DrainPassesResponse \/ DrainReturns
      BY <1>1, <2>4 DEF DrainPassesResponse, DrainReturns, taskVars, DeferredPast
    <2>5. QED
      BY <1>2, <2>1, <2>2, <2>3, <2>4 DEF Drain, DrainAwaitsPrefill, DrainCancelsWorker, DrainReaches
  <1>3. CASE ~Drain
    <2>1. UNCHANGED drain /\ (drain # "no" => draining)
      BY <1>1, <1>3, OnlyDrainDrains DEF drainVars, DrainReal
    <2>2. CASE Consumer
      BY <1>1, <2>1, <2>2, ConsumerIdle DEF DeferredPast
    <2>3. CASE Worker
      BY <1>1, <2>1, <2>3
         DEF Worker, WorkerTakes, TurnSkipped, TurnReplied, TurnDeferred, TurnReplyResumes, TurnFails,
             Answerable, DeferredPast
    <2>4. CASE Deferred
      BY <1>1, <2>1, <2>4
         DEF Deferred, DeferredWaits, DeferredStarts, DeferredResumes, DeferredDrops, Awake, NoDeferred,
             DeferredPast
    <2>5. ASSUME NEW g \in Gens, Runner(g)
          PROVE  DeferredPast'
      BY <1>1, <2>1, <2>5, RunnerDefers DEF Runner, DeferredPast
    <2>6. CASE Outbox \/ (\E p \in Prefills : PrefillEnds(p)) \/ UNCHANGED vars
      BY <1>1, <2>1, <2>6 DEF Outbox, PrefillEnds, taskVars, vars, DeferredPast
    <2>7. QED
      BY <1>3, <2>2, <2>3, <2>4, <2>5, <2>6 DEF Next
  <1>4. QED
    BY <1>2, <1>3

LEMMA NobodyGetsBusy ==
  ASSUME TypeOK, Suspended, NoneReplaced, NoneReplaced', ~Drain, draining, [Next]_vars,
         \A g \in Gens : ~Busy(g)
  PROVE  \A g \in Gens : ~Busy(g)'
PROOF
  <1>1. ~Starting
    BY DEF Starting
  <1>2. CASE Quiet \/ UNCHANGED vars
    BY <1>2 DEF Quiet, vars, genVars, Busy, Producing
  <1>3. ASSUME NEW a \in Cancellers, CancelBegins(a) \/ CancelEnds(a)
        PROVE  \A g \in Gens : ~Busy(g)'
    <2>1. CASE CancelEnds(a)
      BY <2>1 DEF CancelEnds, Busy, Producing
    <2>2. CASE CancelBegins("consumer") \/ CancelBegins("drain")
      BY <2>2, CancelStops
    <2>3. QED
      BY <1>3, <2>1, <2>2 DEF Cancellers
  <1>4. CASE SpeechStarts
    BY <1>3, <1>4 DEF SpeechStarts, genVars, Cancellers, Busy, Producing
  <1>5. CASE ConsumerCancelled
    BY <1>5, LeaverStops
  <1>6. ASSUME NEW h \in Gens, Runner(h)
        PROVE  \A g \in Gens : ~Busy(g)'
    <2>1. RunnerStops(h)
      BY <1>6, RunnerKinds DEF Runner, RunnerMoves, Busy
    <2>2. \A g \in Gens : runner'[g] = IF g = h THEN "done" ELSE runner[g]
      BY <2>1 DEF RunnerStops, RunnerEnds, TypeOK
    <2>3. QED
      BY <2>2 DEF Busy, Producing
  <1>7. QED
    BY <1>1, <1>2, <1>3, <1>4, <1>5, <1>6, StepKinds DEF Next, Cancels

LEMMA ResponsePastStays ==
  ASSUME TypeOK, Single, Stages, Suspended, NoneReplaced, NoneReplaced', [Next]_vars
  PROVE  ResponsePast'
PROOF
  <1>1. DrainReal /\ WorkerPast /\ ResponsePast
    BY DEF Stages
  <1>2. CASE Drain
    <2>1. CASE drain' \in {"no", "prefill", "worker", "deferred"}
      BY <2>1 DEF ResponsePast
    <2>2. CASE DrainCancelsResponse
      <3>1. turns' = <<>> /\ CancelBegins("drain")
        BY <2>2 DEF DrainCancelsResponse
      <3>2. \A g \in Gens : ~Busy(g)'
        BY <3>1, CancelStops, BusyIsAlive DEF Single
      <3>3. QED
        BY <3>1, <3>2 DEF ResponsePast
    <2>3. CASE DrainFindsNoResponse
      <3>1. turns' = <<>> /\ ~Cancellable /\ UNCHANGED runner
        BY <2>3 DEF DrainFindsNoResponse, genVars
      <3>2. \A g \in Gens : ~Busy(g)
        BY <3>1, BusyIsAlive, NaturalNumbers DEF Cancellable, Single
      <3>3. QED
        BY <3>1, <3>2 DEF ResponsePast, Busy, Producing
    <2>4. CASE DrainPassesResponse \/ DrainReturns
      BY <1>1, <2>4 DEF DrainPassesResponse, DrainReturns, CancelEnds, taskVars, ResponsePast, Busy, Producing
    <2>5. QED
      BY <1>2, <2>1, <2>2, <2>3, <2>4
         DEF Drain, DrainAwaitsPrefill, DrainCancelsWorker, DrainCancelsDeferred, DrainReaches
  <1>3. CASE ~Drain
    <2>1. UNCHANGED drain /\ (drain # "no" => draining)
      BY <1>1, <1>3, OnlyDrainDrains DEF drainVars, DrainReal
    <2>2. ASSUME drain \notin {"no", "prefill", "worker", "deferred"}
          PROVE  \A g \in Gens : ~Busy(g)'
      BY <1>1, <1>3, <2>1, <2>2, NobodyGetsBusy DEF ResponsePast
    <2>3. ASSUME drain \notin {"no", "prefill", "worker", "deferred"}
          PROVE  UNCHANGED turns
      <3>1. worker = "none"
        BY <1>1, <2>3 DEF WorkerPast
      <3>2. CASE Consumer
        BY <1>1, <2>3, <3>2, ConsumerIdle
      <3>3. ~Worker
        BY <3>1, NothingSuspends DEF Worker, WorkerTakes, TurnSkipped, TurnReplied, TurnDeferred,
           TurnReplyResumes, TurnFails, Transcribed, Answerable, Starters
      <3>4. CASE \/ Deferred \/ Outbox \/ (\E g \in Gens : Runner(g)) \/ UNCHANGED vars
                 \/ (\E p \in Prefills : PrefillEnds(p))
        BY <3>4 DEF Deferred, DeferredWaits, DeferredStarts, DeferredResumes, DeferredDrops,
                    Outbox, Runner, PrefillEnds, taskVars, vars
      <3>5. QED
        BY <1>3, <3>2, <3>3, <3>4 DEF Next
    <2>4. QED
      BY <1>1, <2>1, <2>2, <2>3 DEF ResponsePast
  <1>4. QED
    BY <1>2, <1>3

\* A prefill that is cancelled or ends was live before, and only one that a
\* starter or session.update creates comes to be.
LEMMA NoMoreLive ==
  ASSUME TypeOK, NEW q, prefill' \in {prefill, CancelledPrefill(q)}
  PROVE  \A p \in Prefills : Live(p)' => Live(p)
PROOF
  <1>1. CASE prefill' = CancelledPrefill(q)
    <2>1. \A p \in Prefills : prefill'[p] = prefill[p] \/ (prefill[p] = "running" /\ prefill'[p] = "cancelling")
      BY <1>1 DEF CancelledPrefill, TypeOK
    <2>2. QED
      BY <2>1 DEF Live
  <1>2. QED
    BY <1>1 DEF Live

LEMMA FirstPrefill ==
  ASSUME TypeOK, PrefillPast, PrefillAtOnce, drain = "no"
  PROVE  \A p \in Prefills : Live(p)' => p = prefillTask'
PROOF
  <1>1. CASE UNCHANGED <<prefill, prefillTask>>
    BY <1>1 DEF PrefillPast, Live
  <1>2. CASE prefillTask = 0 /\ CreatePrefill
    <2>1. PICK q \in Prefills : prefill' = [prefill EXCEPT ![q] = "running"] /\ prefillTask' = q
      BY <1>2 DEF CreatePrefill
    <2>2. \A p \in Prefills : p # q => prefill'[p] = prefill[p]
      BY <2>1 DEF TypeOK
    <2>3. \A p \in Prefills : ~Live(p)
      BY <1>2, Numbers DEF PrefillPast, Prefills
    <2>4. QED
      BY <2>1, <2>2, <2>3 DEF Live
  <1>3. QED
    BY <1>1, <1>2 DEF PrefillAtOnce

LEMMA PrefillPastStays ==
  ASSUME TypeOK, Stages, Suspended, NoneReplaced, NoneReplaced', [Next]_vars
  PROVE  PrefillPast'
PROOF
  <1>1. DrainReal /\ PrefillPast
    BY DEF Stages
  <1>2. CASE Drain
    <2>1. CASE DrainAwaitsPrefill
      <3>1. drain = "no" /\ prefill' = CancelledPrefill(prefillTask) /\ drain' = "prefill"
            /\ prefillTask' = prefillTask /\ waits' = [waits EXCEPT !["drain"] = prefillTask]
        BY <2>1 DEF DrainAwaitsPrefill, DrainReaches
      <3>2. waits'["drain"] = prefillTask'
        BY <3>1 DEF TypeOK, Awaiters, Cancellers
      <3>3. QED
        BY <1>1, <3>1, <3>2, NoMoreLive DEF PrefillPast
    <2>2. CASE DrainCancelsWorker \/ DrainCancelsDeferred \/ DrainCancelsResponse \/ DrainFindsNoResponse
      <3>1. \A p \in Prefills : ~Live(p)
        BY <2>2, PassedStages
           DEF DrainCancelsWorker, DrainCancelsDeferred, DrainCancelsResponse, DrainFindsNoResponse
      <3>2. drain' # "prefill"
        BY <2>2 DEF DrainCancelsWorker, DrainCancelsDeferred, DrainCancelsResponse, DrainFindsNoResponse,
                    DrainReaches
      <3>3. prefill' = prefill \/ prefill' = CancelledPrefill(awaits[active])
        BY <2>2 DEF DrainCancelsWorker, DrainCancelsDeferred, DrainCancelsResponse, DrainFindsNoResponse,
                    CancelBegins
      <3>4. QED
        BY <3>1, <3>2, <3>3, NoMoreLive DEF PrefillPast
    <2>3. CASE DrainPassesResponse \/ DrainReturns
      BY <1>1, <2>3 DEF DrainPassesResponse, DrainReturns, CancelEnds, fillVars, PrefillPast, Live
    <2>4. QED
      BY <1>2, <2>1, <2>2, <2>3 DEF Drain
  <1>3. CASE ~Drain
    <2>1. UNCHANGED drain /\ (~draining => drain = "no")
      BY <1>1, <1>3, OnlyDrainDrains DEF drainVars, DrainReal
    <2>2. ASSUME waits'["drain"] = waits["drain"], UNCHANGED prefillTask,
                 prefill' = prefill \/ prefill' = CancelledPrefill(awaits[active])
          PROVE  PrefillPast'
      BY <1>1, <2>1, <2>2, NoMoreLive DEF PrefillPast
    <2>3. CASE Starting
      <3>1. PICK k \in {"llm", "speak", "call"} : StartAtOnce(k) /\ ~draining
        BY <2>3 DEF Starting
      <3>2. PrefillAtOnce \/ UNCHANGED <<prefill, prefillTask>>
        BY <3>1 DEF StartAtOnce
      <3>3. drain = "no"
        BY <2>1, <3>1
      <3>4. \A p \in Prefills : Live(p)' => p = prefillTask'
        BY <1>1, <3>2, <3>3, FirstPrefill DEF PrefillPast, Live
      <3>5. QED
        BY <2>1, <3>3, <3>4 DEF PrefillPast
    <2>4. CASE UpdateArrives
      <3>1. drain = "no" /\ PrefillAtOnce
        BY <2>1, <2>4, NothingSuspends DEF UpdateArrives, CanHandle
      <3>2. \A p \in Prefills : Live(p)' => p = prefillTask'
        BY <1>1, <3>1, FirstPrefill
      <3>3. QED
        BY <2>1, <3>1, <3>2 DEF PrefillPast
    <2>5. ASSUME NEW p \in Prefills, PrefillEnds(p)
          PROVE  PrefillPast'
      <3>1. \A q \in Prefills : Live(q)' => Live(q)
        BY <2>5 DEF PrefillEnds, Live, TypeOK
      <3>2. UNCHANGED <<waits, prefillTask>>
        BY <2>5 DEF PrefillEnds, waitVars
      <3>3. QED
        BY <1>1, <2>1, <3>1, <3>2 DEF PrefillPast
    <2>6. CASE Consumer
      <3>1. CASE CreateStarts \/ SpeakStarts
        BY <2>3, <3>1, StartKinds
      <3>2. CASE ConsumerLeaves
        BY <2>2, <3>2 DEF ConsumerLeaves, fillVars, TypeOK, Awaiters
      <3>3. CASE (\E g \in Gens : CancelArrives(g)) \/ SpeechStarts
        BY <2>2, <3>3 DEF CancelArrives, SpeechStarts, CancelBegins, waitVars, fillVars
      <3>4. CASE CancelReturns \/ SpeechAnnounced
        BY <2>2, <3>4 DEF CancelReturns, SpeechAnnounced, CancelEnds, fillVars
      <3>5. CASE \/ CreateDefers \/ CreateConflicts \/ SpeakConflicts \/ OutputArrives \/ AudioArrives
                 \/ VadHearsNothing \/ SpeechStops \/ CommitArrives \/ AudioCleared
                 \/ ConsumerCancelled \/ HandlerCloses \/ \E g \in Gens : CancelMismatches(g)
        BY <2>2, <3>5 DEF CreateDefers, CreateConflicts, SpeakConflicts, OutputArrives, AudioArrives,
           VadHearsNothing, SpeechStops, CommitArrives, AudioCleared, ConsumerCancelled, HandlerCloses,
           CancelMismatches, ConsumerRaises, waitVars, fillVars
      <3>6. ~CreateResumes /\ ~UpdateResumes
        BY NothingSuspends DEF CreateResumes, UpdateResumes, Starters
      <3>7. QED
        BY <2>4, <2>6, <3>1, <3>2, <3>3, <3>4, <3>5, <3>6 DEF Consumer
    <2>7. CASE Worker \/ Deferred
      <3>1. CASE TurnReplied \/ DeferredStarts
        BY <2>3, <3>1, StartKinds
      <3>2. ~TurnReplyResumes /\ ~DeferredResumes
        BY NothingSuspends DEF TurnReplyResumes, DeferredResumes, Starters
      <3>3. CASE WorkerTakes \/ TurnSkipped \/ TurnDeferred \/ TurnFails \/ DeferredWaits \/ DeferredDrops
        BY <2>2, <3>3 DEF WorkerTakes, TurnSkipped, TurnDeferred, TurnFails, DeferredWaits, DeferredDrops,
           waitVars, fillVars
      <3>4. QED
        BY <2>7, <3>1, <3>2, <3>3 DEF Worker, Deferred
    <2>8. CASE Outbox \/ (\E g \in Gens : Runner(g)) \/ UNCHANGED vars
      BY <2>2, <2>8 DEF Outbox, Runner, waitVars, fillVars, vars
    <2>9. QED
      BY <1>3, <2>5, <2>6, <2>7, <2>8 DEF Next
  <1>4. QED
    BY <1>2, <1>3

-----------------------------------------------------------------------------
(* The invariants.                                                         *)

LEMMA InitIsInv == Init => IInv
PROOF
  <1> SUFFICES ASSUME Init PROVE IInv
    OBVIOUS
  <1>1. TypeOK /\ Spoken /\ TurnHeld
    BY InitTyped DEF Init, Spoken, TurnHeld
  <1>2. Suspended /\ Single
    BY DEF Init, Suspended, Single, Alive, Busy, Producing
  <1>3. Current /\ PendingCallBlocksReplies /\ PendingCallIsCurrent
    BY DEF Init, Current, PendingCallBlocksReplies, PendingCallIsCurrent, Producing
  <1>4. Stages
    BY DEF Init, Stages, DrainReal, WorkerPast, DeferredPast, ResponsePast, PrefillPast, Live
  <1>5. QED
    BY <1>1, <1>2, <1>3, <1>4 DEF IInv

LEMMA StepKeepsInv ==
  ASSUME IInv, NoneReplaced, NoneReplaced', [Next]_vars
  PROVE  IInv'
PROOF
  <1>1. /\ TypeOK /\ Spoken /\ TurnHeld /\ Suspended /\ Single /\ Current /\ Stages
        /\ PendingCallBlocksReplies /\ PendingCallIsCurrent
    BY DEF IInv
  <1>2. TypeOK'
    BY <1>1, StepTyped
  <1>3. Spoken' /\ TurnHeld' /\ Suspended' /\ Single'
    BY <1>1, <1>2, SpokenStays, TurnHeldStays, SuspendedStays, SingleStays
  <1>4. Current' /\ PendingCallBlocksReplies' /\ PendingCallIsCurrent'
    BY <1>1, <1>2, ProducersStay
  <1>5. Stages'
    BY <1>1, DrainRealStays, WorkerPastStays, DeferredPastStays, ResponsePastStays, PrefillPastStays
       DEF Stages
  <1>6. QED
    BY <1>2, <1>3, <1>4, <1>5 DEF IInv

\* The inductive invariant, of the sessions in which no starter and no
\* session.update has to wait for the end of a replaced prefill
\* (_schedule_prefix_prefill).
THEOREM InductiveInvariant == Spec /\ []NoneReplaced => []IInv
PROOF
  <1>1. IInv /\ NoneReplaced /\ NoneReplaced' /\ [Next]_vars => IInv'
    BY StepKeepsInv
  <1>2. QED
    BY InitIsInv, <1>1, PTL DEF Spec

-----------------------------------------------------------------------------
(* Sessions with one prefill task.                                         *)

\* No further prefill task can come about.
Filled == prefillTask # 0 => \A p \in Prefills : prefill[p] # "none"

LEMMA NothingToReplace ==
  ASSUME TypeOK, Filled, NoneReplaced, [Next]_vars
  PROVE  NoneReplaced'
PROOF
  <1>1. ~PrefillReplaced
    BY DEF PrefillReplaced, Filled
  <1>2. "drain" \notin Starters /\ Starters \subseteq Awaiters /\ waits \in [Awaiters -> 0..MaxPrefills]
    BY DEF Starters, Awaiters, TypeOK
  <1>3. ASSUME UNCHANGED waits \/ \E a : waits' = [waits EXCEPT ![a] = 0] \/ waits' = [waits EXCEPT !["drain"] = prefillTask]
        PROVE  NoneReplaced'
    BY <1>2, <1>3 DEF NoneReplaced
  <1>4. \A k : StartAtOnce(k) => UNCHANGED waits
    BY DEF StartAtOnce
  <1>5. \A a, k : ~StartSuspends(a, k)
    BY <1>1 DEF StartSuspends
  <1>6. \A a : StartResumes(a) => waits' = [waits EXCEPT ![a] = 0]
    BY DEF StartResumes
  <1>7. \A a : CancelBegins(a) \/ CancelEnds(a) => UNCHANGED waits
    BY DEF CancelBegins, CancelEnds
  <1>8. CASE Consumer
    <2>1. CASE CreateStarts \/ CreateResumes \/ SpeakStarts
      BY <1>3, <1>4, <1>5, <1>6, <2>1 DEF CreateStarts, CreateResumes, SpeakStarts
    <2>2. CASE (\E g \in Gens : CancelArrives(g)) \/ CancelReturns \/ SpeechAnnounced \/ SpeechStarts
      BY <1>3, <1>7, <2>2 DEF CancelArrives, CancelReturns, SpeechAnnounced, SpeechStarts, waitVars
    <2>3. CASE UpdateArrives \/ UpdateResumes \/ ConsumerLeaves
      BY <1>1, <1>3, <2>3 DEF UpdateArrives, UpdateResumes, ConsumerLeaves
    <2>4. QED
      BY <1>3, <1>8, <2>1, <2>2, <2>3
         DEF Consumer, CreateDefers, CreateConflicts, SpeakConflicts, CancelMismatches, OutputArrives,
             AudioArrives, VadHearsNothing, SpeechStops, CommitArrives, AudioCleared, ConsumerCancelled,
             HandlerCloses, ConsumerRaises, waitVars
  <1>9. CASE Worker \/ Deferred
    BY <1>3, <1>4, <1>5, <1>6, <1>9
       DEF Worker, WorkerTakes, TurnSkipped, TurnReplied, TurnDeferred, TurnReplyResumes, TurnFails,
           Deferred, DeferredWaits, DeferredStarts, DeferredResumes, DeferredDrops, waitVars
  <1>10. CASE Drain
    BY <1>3, <1>7, <1>10
       DEF Drain, DrainAwaitsPrefill, DrainCancelsWorker, DrainCancelsDeferred, DrainCancelsResponse,
           DrainFindsNoResponse, DrainPassesResponse, DrainReturns, waitVars
  <1>11. CASE Outbox \/ (\E g \in Gens : Runner(g)) \/ (\E p \in Prefills : PrefillEnds(p)) \/ UNCHANGED vars
    BY <1>3, <1>11 DEF Outbox, Runner, PrefillEnds, waitVars, vars
  <1>12. QED
    BY <1>8, <1>9, <1>10, <1>11 DEF Next

LEMMA FilledStays ==
  ASSUME MaxPrefills <= 1, TypeOK, Filled, Suspended, NoneReplaced, NoneReplaced', [Next]_vars
  PROVE  Filled'
PROOF
  <1>1. \A p, q \in Prefills : p = q
    BY Numbers DEF Prefills
  <1>2. ASSUME PrefillAtOnce
        PROVE  Filled'
    BY <1>1, <1>2 DEF PrefillAtOnce, CreatePrefill, Filled, TypeOK
  <1>3. ASSUME NEW q, prefill' \in {prefill, CancelledPrefill(q)}, prefillTask' \in {0, prefillTask}
        PROVE  Filled'
    <2>1. \A p \in Prefills : prefill[p] # "none" => prefill'[p] # "none"
      <3>1. CASE prefill' = CancelledPrefill(q)
        <4>1. \A p \in Prefills : prefill'[p] = prefill[p] \/ prefill'[p] = "cancelling"
          BY <3>1 DEF CancelledPrefill, TypeOK
        <4>2. QED
          BY <4>1
      <3>2. QED
        BY <1>3, <3>1
    <2>2. QED
      BY <1>3, <2>1 DEF Filled
  <1>4. UNCHANGED <<prefill, prefillTask>> => Filled'
    BY DEF Filled
  <1>5. \A k : StartAtOnce(k) => PrefillAtOnce \/ UNCHANGED <<prefill, prefillTask>>
    BY DEF StartAtOnce
  <1>6. CASE Consumer
    <2>1. CASE CreateStarts \/ SpeakStarts
      BY <1>2, <1>4, <1>5, <2>1, StartKinds DEF Starting
    <2>2. CASE (\E g \in Gens : CancelArrives(g)) \/ SpeechStarts
      BY <1>3, <1>4, <2>2 DEF CancelArrives, SpeechStarts, CancelBegins, fillVars
    <2>3. CASE CancelReturns \/ SpeechAnnounced
      BY <1>4, <2>3 DEF CancelReturns, SpeechAnnounced, CancelEnds, fillVars
    <2>4. CASE UpdateArrives
      BY <1>2, <2>4, NothingSuspends
    <2>5. ~CreateResumes /\ ~UpdateResumes
      BY NothingSuspends DEF CreateResumes, UpdateResumes, Starters
    <2>6. QED
      BY <1>4, <1>6, <2>1, <2>2, <2>3, <2>4, <2>5
         DEF Consumer, CreateDefers, CreateConflicts, SpeakConflicts, CancelMismatches, OutputArrives,
             AudioArrives, VadHearsNothing, SpeechStops, CommitArrives, AudioCleared, ConsumerCancelled,
             ConsumerLeaves, HandlerCloses, ConsumerRaises, fillVars
  <1>7. CASE Worker \/ Deferred
    <2>1. CASE TurnReplied \/ DeferredStarts
      BY <1>2, <1>4, <1>5, <2>1, StartKinds DEF Starting
    <2>2. ~TurnReplyResumes /\ ~DeferredResumes
      BY NothingSuspends DEF TurnReplyResumes, DeferredResumes, Starters
    <2>3. QED
      BY <1>4, <1>7, <2>1, <2>2
         DEF Worker, WorkerTakes, TurnSkipped, TurnDeferred, TurnFails,
             Deferred, DeferredWaits, DeferredDrops, fillVars
  <1>8. CASE Drain
    <2>1. prefillTask' \in {0, prefillTask}
      BY <1>8 DEF Drain, DrainAwaitsPrefill, DrainCancelsWorker, DrainCancelsDeferred, DrainCancelsResponse,
                  DrainFindsNoResponse, DrainPassesResponse, DrainReturns, DrainReaches, CancelBegins,
                  CancelEnds, fillVars
    <2>2. \E q : prefill' \in {prefill, CancelledPrefill(q)}
      BY <1>8 DEF Drain, DrainAwaitsPrefill, DrainCancelsWorker, DrainCancelsDeferred, DrainCancelsResponse,
                  DrainFindsNoResponse, DrainPassesResponse, DrainReturns, CancelBegins,
                  CancelEnds, fillVars
    <2>3. QED
      BY <1>3, <2>1, <2>2
  <1>9. ASSUME NEW p \in Prefills, PrefillEnds(p)
        PROVE  Filled'
    <2>1. \A q \in Prefills : prefill[q] # "none" => prefill'[q] # "none"
      BY <1>9 DEF PrefillEnds, TypeOK
    <2>2. QED
      BY <1>9, <2>1 DEF PrefillEnds, Filled
  <1>10. CASE Outbox \/ (\E g \in Gens : Runner(g)) \/ UNCHANGED vars
    BY <1>4, <1>10 DEF Outbox, Runner, fillVars, vars
  <1>11. QED
    BY <1>6, <1>7, <1>8, <1>9, <1>10 DEF Next

-----------------------------------------------------------------------------
(* What holds of every session.                                            *)

\* With one prefix for the whole session no prefill is ever replaced, so that
\* nobody is suspended on one (_schedule_prefix_prefill).
THEOREM OnePrefix ==
  ASSUME MaxPrefills <= 1
  PROVE  Spec => []NoneReplaced
PROOF
  <1> DEFINE J == IInv /\ Filled /\ NoneReplaced
  <1>1. Init => J
    BY InitIsInv DEF Init, Filled, NoneReplaced, Awaiters
  <1>2. J /\ [Next]_vars => J'
    <2> SUFFICES ASSUME J, [Next]_vars PROVE J'
      OBVIOUS
    <2>1. TypeOK /\ Suspended
      BY DEF IInv
    <2>2. NoneReplaced'
      BY <2>1, NothingToReplace
    <2>3. IInv' /\ Filled'
      BY <2>1, <2>2, StepKeepsInv, FilledStays
    <2>4. QED
      BY <2>2, <2>3
  <1>3. QED
    BY <1>1, <1>2, PTL DEF Spec

\* At most one generation can produce, whichever of the three tasks started it, and
\* while a call waits for its output no reply does (_start_response,
\* _start_response_after_direct_speak, _run_completed_turns).
THEOREM ProducersInvAlways == Spec /\ []NoneReplaced => []ProducersInv
PROOF
  <1>1. IInv => ProducersInv
    BY ProducingIsAlive DEF IInv, Single, ProducersInv, OneProducer
  <1>2. QED
    BY <1>1, InductiveInvariant, PTL

\* No call that was spoken over is left pending, neither an emitted one nor the
\* deferred call of a mixed generation (_speech_started, _start_tool_call_response).
THEOREM PendingCallIsCurrentAlways == Spec /\ []NoneReplaced => []PendingCallIsCurrent
PROOF
  <1>1. IInv => PendingCallIsCurrent
    BY DEF IInv
  <1>2. QED
    BY <1>1, InductiveInvariant, PTL

\* When drain() goes on to the schedulers, no task of the session is left that could
\* give them work, and no prefill of the session is left in llama.cpp (drain).
THEOREM DrainQuiescesAlways == Spec /\ []NoneReplaced => []DrainQuiesces
PROOF
  <1>1. IInv => DrainQuiesces
    BY DEF IInv, Stages, WorkerPast, DeferredPast, ResponsePast, PrefillPast, Live, Busy, DrainQuiesces
  <1>2. QED
    BY <1>1, InductiveInvariant, PTL

\* Of all sessions, also those in which starters are suspended: the newest generation
\* keeps the token, in whatever order they resume (GenerationCancellation.begin,
\* _start_response).
THEOREM NewestKeepsTokenAlways == Spec => []NewestKeepsToken
PROOF
  <1>1. Init => NewestKeepsToken
    BY DEF Init, NewestKeepsToken
  <1>2. NewestKeepsToken /\ [Next]_vars => NewestKeepsToken'
    <2> SUFFICES ASSUME NewestKeepsToken, [Next]_vars
                 PROVE  token' \in {0, begun'}
      BY DEF NewestKeepsToken
    <2>1. token \in {0, begun}
      BY DEF NewestKeepsToken
    <2>2. \A k : Begin(k) => token' = begun'
      BY DEF Begin
    <2>3. \A a, k : StartAtOnce(k) \/ StartSuspends(a, k) => token' = begun'
      BY <2>2 DEF StartAtOnce, StartSuspends
    <2>4. \A a : StartResumes(a) => UNCHANGED <<token, begun>>
      BY DEF StartResumes
    <2>5. \A a : CancelBegins(a) \/ CancelEnds(a) => token' \in {0, token} /\ UNCHANGED begun
      BY DEF CancelBegins, CancelEnds
    <2>6. UNCHANGED genVars => token' \in {0, begun'}
      BY <2>1 DEF genVars
    <2>7. CASE Consumer
      <3>1. CASE \/ CreateStarts \/ CreateResumes \/ SpeakStarts \/ (\E g \in Gens : CancelArrives(g))
                 \/ CancelReturns \/ SpeechAnnounced \/ SpeechStarts
        BY <2>1, <2>3, <2>4, <2>5, <2>6, <3>1 DEF CreateStarts, CreateResumes, SpeakStarts, CancelArrives,
           CancelReturns, SpeechAnnounced, SpeechStarts
      <3>2. CASE ConsumerCancelled
        BY <2>1, <3>2 DEF ConsumerCancelled
      <3>3. QED
        BY <2>6, <2>7, <3>1, <3>2
           DEF Consumer, CreateDefers, CreateConflicts, SpeakConflicts, CancelMismatches, UpdateArrives,
               UpdateResumes, OutputArrives, AudioArrives, VadHearsNothing, SpeechStops, CommitArrives,
               AudioCleared, ConsumerLeaves, HandlerCloses, ConsumerRaises
    <2>8. CASE Worker \/ Deferred
      BY <2>1, <2>3, <2>4, <2>6, <2>8
         DEF Worker, WorkerTakes, TurnSkipped, TurnReplied, TurnDeferred, TurnReplyResumes, TurnFails,
             Deferred, DeferredWaits, DeferredStarts, DeferredResumes, DeferredDrops
    <2>9. CASE Drain
      BY <2>1, <2>5, <2>6, <2>9
         DEF Drain, DrainAwaitsPrefill, DrainCancelsWorker, DrainCancelsDeferred, DrainCancelsResponse,
             DrainFindsNoResponse, DrainPassesResponse, DrainReturns
    <2>10. ASSUME NEW g \in Gens, Runner(g)
           PROVE  token' \in {0, begun'}
      <3>1. \A r : RunnerEnds(g, r) => token' \in {0, token} /\ UNCHANGED begun
        BY DEF RunnerEnds
      <3>2. \A pc : RunnerGoes(g, pc) => UNCHANGED <<token, begun>>
        BY DEF RunnerGoes
      <3>3. \A state : AfterPrefill(g, state) => token' \in {0, token} /\ UNCHANGED begun
        BY <3>1, <3>2 DEF AfterPrefill, EndsFailed, EndsCancelled
      <3>4. token' \in {0, token} /\ UNCHANGED begun
        BY <2>10, <3>1, <3>2, <3>3
           DEF Runner, RunnerStep, ReplyBegins, PrefillAwaited, SpeakBegins, CallBegins, TextArrives,
               CallArrives, StreamFails, FindsItselfStale, SpeechEnds, SpeechFails, FailureReported,
               CancellationHandled, CleanupAborted, EndsCancelled, EndsFailed, EmitsCall
      <3>5. QED
        BY <2>1, <3>4
    <2>11. CASE Outbox \/ (\E p \in Prefills : PrefillEnds(p)) \/ UNCHANGED vars
      BY <2>6, <2>11 DEF Outbox, PrefillEnds, vars
    <2>12. QED
      BY <2>7, <2>8, <2>9, <2>10, <2>11 DEF Next
  <1>3. QED
    BY <1>1, <1>2, PTL DEF Spec

-----------------------------------------------------------------------------
(* Barge-in, in the sessions whose client reads what it is sent: nothing    *)
(* that has to be told it waits in a full queue.                            *)

\* The client is there and its consumer takes events.
Serving == outbox # "dead" /\ consumer \notin {"leaving", "gone"}

\* Whom the consumer is cancelling, it waits for.
Cancelling == victim["consumer"] # 0 => consumer \in {"cancelling", "interrupting", "leaving"}

\* Only it cancels, and a response stays open no longer than its runner and
\* its canceller; one of an earlier turn only until speech_started.
Served ==
  Serving => \A g \in Gens :
    /\ runner[g] \in {"cancelled", "unwinding", "aborting"} => victim["consumer"] = g
    /\ outcome[g] = "open" => Alive(g) \/ victim["consumer"] = g
    /\ Interrupt /\ outcome[g] = "open" =>
         turnOf[g] >= speechTurn \/ (consumer = "interrupting" /\ victim["consumer"] = g)

BInv == outbox # "full" /\ Cancelling /\ Served

\* Nothing that the client is told of.
Aside ==
  /\ UNCHANGED <<runner, turnOf, outcome, victim, speechTurn>>
  /\ consumer' = consumer \/ consumer \notin {"cancelling", "interrupting"}

Silences ==
  /\ consumer \in {"ready", "vad"}
  /\ CancelBegins("consumer")
  /\ \/ consumer' = "cancelling" /\ UNCHANGED speechTurn
     \/ consumer' = "interrupting"

Answers ==
  /\ consumer = "vad" /\ (Interrupt => ~Cancellable)
  /\ UNCHANGED <<runner, turnOf, outcome, victim>>
  /\ consumer' \in {"ready", "failed"}

Finishes ==
  /\ consumer \in {"cancelling", "interrupting"}
  /\ CancelEnds("consumer")
  /\ UNCHANGED speechTurn
  /\ CanSend => consumer' = "ready"

LEMMA QueueStays ==
  ASSUME "full" \notin Faults, outbox # "full", [Next]_vars
  PROVE  outbox' # "full" /\ (outbox = "dead" => outbox' = "dead")
PROOF
  <1>1. CASE Consumer
    BY <1>1
       DEF Consumer, CreateStarts, CreateResumes, CreateDefers, CreateConflicts, SpeakStarts,
           SpeakConflicts, CancelArrives, CancelMismatches, CancelReturns, UpdateArrives,
           UpdateResumes, OutputArrives, AudioArrives, VadHearsNothing, SpeechStarts,
           SpeechAnnounced, SpeechStops, CommitArrives, AudioCleared, ConsumerCancelled,
           ConsumerLeaves, HandlerCloses, ConsumerRaises
  <1>2. CASE Worker \/ Deferred
    BY <1>2
       DEF Worker, WorkerTakes, TurnSkipped, TurnReplied, TurnDeferred, TurnReplyResumes, TurnFails,
           Transcribed, Answerable, CanSend,
           Deferred, DeferredWaits, DeferredStarts, DeferredResumes, DeferredDrops
  <1>3. CASE Drain
    BY <1>3 DEF Drain, DrainAwaitsPrefill, DrainCancelsWorker, DrainCancelsDeferred, DrainCancelsResponse,
                DrainFindsNoResponse, DrainPassesResponse, DrainReturns
  <1>4. CASE Outbox \/ (\E g \in Gens : Runner(g)) \/ (\E p \in Prefills : PrefillEnds(p)) \/ UNCHANGED vars
    BY <1>4 DEF Outbox, QueueFills, QueueDrains, QueueDies, Runner, PrefillEnds, vars
  <1>5. QED
    BY <1>1, <1>2, <1>3, <1>4 DEF Next

\* A released session is served no more.
LEMMA DrainIsLate ==
  ASSUME TypeOK, Stages, Drain
  PROVE  ~Serving
PROOF
  <1>1. Released
    BY PassedStages
       DEF Drain, DrainAwaitsPrefill, DrainCancelsWorker, DrainCancelsDeferred, DrainCancelsResponse,
           DrainFindsNoResponse, DrainPassesResponse, DrainReturns, Stages, DrainReal
  <1>2. QED
    BY <1>1 DEF Released, Serving

LEMMA ServedKinds ==
  ASSUME TypeOK, Suspended, NoneReplaced, NoneReplaced', Stages, Serving', [Next]_vars,
         outbox # "full", "full" \notin Faults
  PROVE  /\ Serving /\ CanSend
         /\ \/ Starting \/ Aside \/ Silences \/ Answers \/ Finishes
            \/ \E g \in Gens : Runner(g)
PROOF
  <1>1. outbox = "ok" /\ CanSend
    BY QueueStays DEF Serving, CanSend, TypeOK
  <1>2. "consumer" \in Starters /\ "worker" \in Starters /\ "deferred" \in Starters
    BY DEF Starters
  <1>3. CASE CreateStarts \/ SpeakStarts \/ TurnReplied \/ DeferredStarts
    <2>1. Starting
      BY <1>3, StartKinds
    <2>2. Serving
      BY <1>1, <2>1 DEF Starting, Serving
    <2>3. QED
      BY <1>1, <2>1, <2>2
  <1>4. CASE Consumer
    <2>1. ~ConsumerCancelled /\ ~ConsumerLeaves /\ ~HandlerCloses
      BY DEF Serving, ConsumerCancelled, ConsumerLeaves, HandlerCloses
    <2>2. ~CreateResumes /\ ~UpdateResumes
      BY <1>2, NothingSuspends DEF CreateResumes, UpdateResumes
    <2>3. CASE \E g \in Gens : CancelArrives(g)
      BY <1>1, <2>3 DEF CancelArrives, CanHandle, turnVars, Silences, Serving
    <2>4. CASE SpeechStarts
      BY <1>1, <2>4 DEF SpeechStarts, genVars, waitVars, Silences, Answers, Serving
    <2>5. CASE CancelReturns \/ SpeechAnnounced
      BY <1>1, <2>5 DEF CancelReturns, SpeechAnnounced, CancelTailRaises, turnVars, Finishes, Serving
    <2>6. CASE UpdateArrives
      BY <1>1, <2>6 DEF UpdateArrives, CanHandle, genVars, turnVars, Aside, Serving
    <2>7. CASE SpeechStops \/ CommitArrives \/ AudioCleared
      BY <1>1, <2>7 DEF SpeechStops, CommitArrives, AudioCleared, CanHandle, taskVars, genVars, waitVars, Aside, Serving
    <2>8. QED
      BY <1>1, <1>3, <1>4, <2>1, <2>2, <2>3, <2>4, <2>5, <2>6, <2>7
         DEF Consumer, CreateDefers, CreateConflicts, SpeakConflicts, CancelMismatches, OutputArrives,
             AudioArrives, VadHearsNothing, ConsumerRaises, CanHandle, genVars, waitVars, turnVars,
             Aside, Serving
  <1>5. CASE Worker
    BY <1>1, <1>2, <1>3, <1>5, NothingSuspends
       DEF Worker, WorkerTakes, TurnSkipped, TurnDeferred, TurnReplyResumes, TurnFails,
           genVars, waitVars, turnVars, Aside, Serving
  <1>6. CASE Deferred
    BY <1>1, <1>2, <1>3, <1>6, NothingSuspends
       DEF Deferred, DeferredWaits, DeferredResumes, DeferredDrops,
           genVars, waitVars, turnVars, Aside, Serving
  <1>7. CASE Drain
    <2>1. UNCHANGED <<consumer, outbox>>
      BY <1>7 DEF Drain, DrainAwaitsPrefill, DrainCancelsWorker, DrainCancelsDeferred, DrainCancelsResponse,
                DrainFindsNoResponse, DrainPassesResponse, DrainReturns, taskVars
    <2>2. QED
      BY <1>7, <2>1, DrainIsLate DEF Serving
  <1>8. CASE Outbox \/ (\E p \in Prefills : PrefillEnds(p)) \/ UNCHANGED vars
    BY <1>1, <1>8 DEF Outbox, PrefillEnds, vars, taskVars, genVars, waitVars, turnVars, Aside, Serving
  <1>9. ASSUME NEW g \in Gens, Runner(g)
        PROVE  Serving
    BY <1>1, <1>9 DEF Runner, Serving
  <1>10. QED
    BY <1>1, <1>4, <1>5, <1>6, <1>7, <1>8, <1>9 DEF Next

LEMMA ServedStays ==
  ASSUME IInv, IInv', BInv, NoneReplaced, NoneReplaced', "full" \notin Faults, [Next]_vars
  PROVE  Served'
PROOF
  <1> SUFFICES ASSUME Serving', NEW g \in Gens
               PROVE  /\ runner'[g] \in {"cancelled", "unwinding", "aborting"} => victim'["consumer"] = g
                      /\ outcome'[g] = "open" => Alive(g)' \/ victim'["consumer"] = g
                      /\ Interrupt /\ outcome'[g] = "open" =>
                           \/ turnOf'[g] >= speechTurn'
                           \/ consumer' = "interrupting" /\ victim'["consumer"] = g
    BY DEF Served
  <1>1. TypeOK /\ Suspended /\ Single /\ Stages /\ outbox # "full"
    BY DEF IInv, BInv
  <1>2. /\ Serving /\ CanSend
        /\ Starting \/ Aside \/ Silences \/ Answers \/ Finishes \/ \E h \in Gens : Runner(h)
    BY <1>1, ServedKinds
  <1>3. /\ runner[g] \in {"cancelled", "unwinding", "aborting"} => victim["consumer"] = g
        /\ outcome[g] = "open" => Alive(g) \/ victim["consumer"] = g
        /\ Interrupt /\ outcome[g] = "open" =>
             turnOf[g] >= speechTurn \/ (consumer = "interrupting" /\ victim["consumer"] = g)
    BY <1>2 DEF BInv, Served
  <1>4. /\ consumer \in {"ready", "vad"} => victim["consumer"] = 0
        /\ Alive(g) => active = g
        /\ Busy(g) => token = g
        /\ g # 0
    BY <1>1, Numbers DEF BInv, Cancelling, Single, Gens
  <1>5. CASE Starting
    <2>1. PICK k \in {"llm", "speak", "call"} : StartAtOnce(k) /\ active = 0
      BY <1>5 DEF Starting
    <2>2. UNCHANGED victim /\ (consumer' = consumer \/ (consumer = "ready" /\ consumer' \in {"ready", "failed"}))
      BY <1>5 DEF Starting
    <2>3. Launch(begun + 1) /\ begun + 1 \in Gens /\ turnOf' = [turnOf EXCEPT ![begun + 1] = turn']
          /\ turn' \in {turn, turn + 1} /\ UNCHANGED speechTurn
      BY <1>1, <2>1, StartAlone DEF StartAtOnce
    <2>4. runner' = [runner EXCEPT ![begun + 1] = "created"] /\ outcome' = [outcome EXCEPT ![begun + 1] = "open"]
      BY <1>2, <2>3 DEF Launch
    <2>5. CASE g = begun + 1
      <3>1. runner'[g] = "created" /\ turnOf'[g] = turn'
        BY <2>3, <2>4, <2>5 DEF IInv, TypeOK
      <3>2. turn' >= speechTurn
        BY <1>1, <2>3, Numbers DEF Single, TypeOK
      <3>3. QED
        BY <2>3, <3>1, <3>2 DEF Alive
    <2>6. CASE g # begun + 1
      <3>1. runner'[g] = runner[g] /\ outcome'[g] = outcome[g] /\ turnOf'[g] = turnOf[g]
        BY <1>1, <2>3, <2>4, <2>6 DEF TypeOK
      <3>2. QED
        BY <1>3, <1>4, <2>2, <2>3, <3>1 DEF Alive
    <2>7. QED
      BY <2>5, <2>6
  <1>6. CASE Aside
    BY <1>3, <1>6 DEF Aside, Alive
  <1>7. CASE Silences
    <2>1. CancelBegins("consumer") /\ consumer \in {"ready", "vad"}
          /\ ((consumer' = "cancelling" /\ UNCHANGED speechTurn) \/ consumer' = "interrupting")
      BY <1>7 DEF Silences
    <2>2. victim'["consumer"] = active /\ UNCHANGED <<outcome, turnOf>>
      BY <1>1, <2>1 DEF CancelBegins, TypeOK, Cancellers
    <2>3. g # active => runner'[g] = runner[g]
      BY <1>1, <2>1, CancelStops
    <2>4. CASE g = active
      BY <1>3, <1>4, <2>1, <2>2, <2>4
    <2>5. CASE g # active
      BY <1>3, <1>4, <2>1, <2>2, <2>3, <2>5
    <2>6. QED
      BY <2>4, <2>5
  <1>8. CASE Answers
    <2>1. ~Alive(g) \/ ~Interrupt
      <3>1. Alive(g) => Busy(g) \/ runner[g] \in {"cancelled", "unwinding", "aborting"}
        BY <1>1 DEF Alive, Busy, Producing, TypeOK
      <3>2. Interrupt => active = 0 \/ token = 0
        BY <1>8 DEF Answers, Cancellable
      <3>3. QED
        BY <1>3, <1>4, <1>8, <3>1, <3>2 DEF Answers
    <2>2. QED
      BY <1>3, <1>4, <1>8, <2>1 DEF Answers, Alive
  <1>9. CASE Finishes
    <2>1. CancelEnds("consumer") /\ UNCHANGED speechTurn /\ consumer' = "ready"
      BY <1>2, <1>9 DEF Finishes
    <2>2. UNCHANGED <<runner, turnOf>> /\ RunnerOver(victim["consumer"])
      BY <2>1 DEF CancelEnds
    <2>3. outcome' = [outcome EXCEPT ![victim["consumer"]] =
                        IF outcome[victim["consumer"]] \in {"none", "open"} THEN "cancelled"
                        ELSE outcome[victim["consumer"]]]
      BY <1>2, <2>1 DEF CancelEnds
    <2>4. CASE g = victim["consumer"]
      <3>1. outcome'[g] # "open"
        BY <1>1, <2>3, <2>4 DEF TypeOK
      <3>2. runner'[g] \notin {"cancelled", "unwinding", "aborting"}
        BY <2>2, <2>4 DEF RunnerOver
      <3>3. QED
        BY <3>1, <3>2
    <2>5. CASE g # victim["consumer"]
      <3>1. outcome'[g] = outcome[g]
        BY <1>1, <2>3, <2>5 DEF TypeOK
      <3>2. QED
        BY <1>3, <2>1, <2>2, <2>5, <3>1 DEF Alive
    <2>6. QED
      BY <2>4, <2>5
  <1>10. ASSUME NEW h \in Gens, Runner(h)
         PROVE  /\ runner'[g] \in {"cancelled", "unwinding", "aborting"} => victim'["consumer"] = g
                /\ outcome'[g] = "open" => Alive(g)' \/ victim'["consumer"] = g
                /\ Interrupt /\ outcome'[g] = "open" =>
                     \/ turnOf'[g] >= speechTurn'
                     \/ consumer' = "interrupting" /\ victim'["consumer"] = g
    <2>1. RunnerStep(h) /\ UNCHANGED <<consumer, victim, speechTurn>>
      BY <1>10 DEF Runner, waitVars, turnVars
    <2>2. runner[h] \in {"cancelled", "unwinding", "aborting"} => victim["consumer"] = h
      BY <1>2 DEF BInv, Served
    <2>3. CASE RunnerStops(h)
      <3>1. PICK r : RunnerEnds(h, r) /\ (r \in {"open", "lost"} => runner[h] = "aborting")
        BY <1>2, <2>3 DEF RunnerStops
      <3>2. runner' = [runner EXCEPT ![h] = "done"] /\ UNCHANGED turnOf
            /\ outcome' = [outcome EXCEPT ![h] = IF outcome[h] = "open" THEN r ELSE outcome[h]]
        BY <3>1 DEF RunnerEnds
      <3>3. CASE g = h
        <4>1. runner'[g] = "done" /\ outcome'[g] = IF outcome[g] = "open" THEN r ELSE outcome[g]
          BY <1>1, <3>2, <3>3 DEF TypeOK
        <4>2. QED
          BY <1>3, <2>1, <2>2, <3>1, <3>2, <3>3, <4>1
      <3>4. CASE g # h
        <4>1. runner'[g] = runner[g] /\ outcome'[g] = outcome[g]
          BY <1>1, <3>2, <3>4 DEF TypeOK
        <4>2. QED
          BY <1>3, <2>1, <3>2, <4>1 DEF Alive
      <3>5. QED
        BY <3>3, <3>4
    <2>4. CASE RunnerMoves(h)
      <3>1. token = h
        BY <1>1, <2>4 DEF RunnerMoves, Single, Busy
      <3>2. PICK pc \in {"prefill", "streaming", "speaking", "failing", "unwinding"} :
              pc # "unwinding" /\ runner' = [runner EXCEPT ![h] = pc]
        BY <2>4, <3>1 DEF RunnerMoves
      <3>3. UNCHANGED <<outcome, turnOf>>
        BY <1>2, <2>4 DEF RunnerMoves
      <3>4. runner'[g] = IF g = h THEN pc ELSE runner[g]
        BY <1>1, <3>2 DEF TypeOK
      <3>5. outcome'[g] = "open" => Alive(g)' \/ victim'["consumer"] = g
        BY <1>3, <2>1, <3>2, <3>3, <3>4 DEF Alive
      <3>6. QED
        BY <1>3, <2>1, <3>2, <3>3, <3>4, <3>5
    <2>5. QED
      BY <1>1, <2>1, <2>3, <2>4, RunnerKinds
  <1>11. QED
    BY <1>2, <1>5, <1>6, <1>7, <1>8, <1>9, <1>10

LEMMA CancellingStays ==
  ASSUME TypeOK, Cancelling, Suspended, NoneReplaced, NoneReplaced', [Next]_vars
  PROVE  Cancelling'
PROOF
  <1> SUFFICES ASSUME victim'["consumer"] # 0
               PROVE  consumer' \in {"cancelling", "interrupting", "leaving"}
    BY DEF Cancelling
  <1>1. victim \in [Cancellers -> 0..MaxGens] /\ "consumer" \in Cancellers
    BY DEF TypeOK, Cancellers
  <1>2. victim["consumer"] # 0 => consumer \in {"cancelling", "interrupting", "leaving"}
    BY DEF Cancelling
  <1>3. UNCHANGED <<consumer, victim>> => consumer' \in {"cancelling", "interrupting", "leaving"}
    BY <1>2
  <1>4. CASE Consumer
    <2>1. ~CreateResumes /\ ~UpdateResumes
      BY NothingSuspends DEF CreateResumes, UpdateResumes, Starters
    <2>2. CASE (\E g \in Gens : CancelArrives(g)) \/ ConsumerCancelled
      BY <2>2 DEF CancelArrives, ConsumerCancelled
    <2>3. CASE CancelReturns \/ SpeechAnnounced \/ ConsumerLeaves
      BY <1>1, <2>3 DEF CancelReturns, SpeechAnnounced, ConsumerLeaves, CancelEnds
    <2>4. CASE SpeechStarts
      BY <1>2, <2>4 DEF SpeechStarts, waitVars
    <2>5. CASE \/ CreateStarts \/ CreateDefers \/ CreateConflicts \/ SpeakStarts \/ SpeakConflicts
               \/ \E g \in Gens : CancelMismatches(g)
      BY <1>2, <2>5 DEF CreateStarts, CreateDefers, CreateConflicts, SpeakStarts, SpeakConflicts,
         CancelMismatches, ConsumerRaises, CanHandle, waitVars
    <2>6. CASE UpdateArrives \/ OutputArrives \/ AudioArrives \/ VadHearsNothing
      BY <1>2, <2>6 DEF UpdateArrives, OutputArrives, AudioArrives, VadHearsNothing, CanHandle, waitVars
    <2>7. CASE SpeechStops \/ CommitArrives \/ AudioCleared \/ HandlerCloses
      BY <1>2, <2>7 DEF SpeechStops, CommitArrives, AudioCleared, HandlerCloses, CanHandle, waitVars, taskVars
    <2>8. QED
      BY <1>4, <2>1, <2>2, <2>3, <2>4, <2>5, <2>6, <2>7 DEF Consumer
  <1>5. CASE Worker \/ Deferred
    BY <1>3, <1>5
       DEF Worker, WorkerTakes, TurnSkipped, TurnReplied, TurnDeferred, TurnReplyResumes, TurnFails,
           Deferred, DeferredWaits, DeferredStarts, DeferredResumes, DeferredDrops, waitVars
  <1>6. CASE Drain
    <2>1. UNCHANGED consumer /\ victim'["consumer"] = victim["consumer"]
      BY <1>1, <1>6 DEF Drain, DrainAwaitsPrefill, DrainCancelsWorker, DrainCancelsDeferred, DrainCancelsResponse,
                DrainFindsNoResponse, DrainPassesResponse, DrainReturns, CancelBegins, CancelEnds, taskVars, waitVars
    <2>2. QED
      BY <1>2, <2>1
  <1>7. CASE Outbox \/ (\E g \in Gens : Runner(g)) \/ (\E p \in Prefills : PrefillEnds(p)) \/ UNCHANGED vars
    BY <1>3, <1>7 DEF Outbox, Runner, PrefillEnds, taskVars, waitVars, vars
  <1>8. QED
    BY <1>4, <1>5, <1>6, <1>7 DEF Next

\* Barge-in silences, whatever the runner awaits and whoever started the response
\* (_speech_started, _cancel_response): once speech_started was announced, no
\* response of an earlier turn is open towards a client that keeps reading.
THEOREM BargeInSilencesAlways ==
  ASSUME "full" \notin Faults
  PROVE  Spec /\ []NoneReplaced => []BargeInSilences
PROOF
  <1> DEFINE J == IInv /\ BInv
  <1>1. Init => J
    <2> SUFFICES ASSUME Init PROVE BInv
      BY InitIsInv
    <2>1. QED
      BY DEF Init, BInv, Cancelling, Served, Cancellers
  <1>2. J /\ NoneReplaced /\ NoneReplaced' /\ [Next]_vars => J'
    <2> SUFFICES ASSUME J, NoneReplaced, NoneReplaced', [Next]_vars PROVE J'
      OBVIOUS
    <2>1. IInv'
      BY StepKeepsInv
    <2>2. Served'
      BY <2>1, ServedStays
    <2>3. outbox' # "full" /\ Cancelling'
      BY QueueStays, CancellingStays DEF IInv, BInv
    <2>4. QED
      BY <2>1, <2>2, <2>3 DEF BInv
  <1>3. J => BargeInSilences
    BY DEF BInv, Served, Serving, BargeInSilences, Open
  <1>4. QED
    BY <1>1, <1>2, <1>3, PTL DEF Spec
=============================================================================
