---------------------------- MODULE SpeechProofs -----------------------------
(***************************************************************************)
(* Proof of the safety invariant of Speech: whatever the size of the       *)
(* segment queue and the length of the texts, a completed response has     *)
(* been spoken whole and in order, and nothing is spoken after its end.    *)
(***************************************************************************)
EXTENDS Speech, SequenceTheorems, TLAPS

\* MaxCut bounds both kinds of text.
LEMMA MaxCutIsBound ==
  MaxCut \in Nat /\ MaxText <= MaxCut /\ MaxSpeak <= MaxCut
BY SpeechAssumption DEF MaxCut

-----------------------------------------------------------------------------
(* The queue.                                                              *)

\* Its shape, as the type invariant gives it.
LEMMA QueueShape ==
  ASSUME TypeOK
  PROVE  /\ Len(segments) \in Nat /\ DOMAIN segments = 1..Len(segments)
         /\ \A i \in DOMAIN segments : i \in Nat /\ segments[i] \in Nat
         /\ segments # <<>> => Len(segments) # 0 /\ Len(segments) \in DOMAIN segments
         /\ ToSpeak \in Nat
PROOF
  <1>1. segments \in Seq(0..MaxCut) /\ MaxCut \in Nat
    BY MaxCutIsBound DEF TypeOK
  <1>2. Len(segments) \in Nat /\ DOMAIN segments = 1..Len(segments)
    BY <1>1
  <1>3. \A i \in DOMAIN segments : i \in Nat /\ segments[i] \in Nat
    BY <1>1
  <1>4. segments # <<>> => Len(segments) # 0 /\ Len(segments) \in DOMAIN segments
    BY <1>1
  <1>5. ToSpeak \in Nat
    BY <1>2, <1>4 DEF ToSpeak
  <1>6. QED
    BY <1>2, <1>3, <1>4, <1>5

\* segments.put of a segment: it is the next number, and one more to speak.
LEMMA SegmentPut ==
  ASSUME TypeOK, NothingLost, put \in Nat, \A i \in DOMAIN segments : segments[i] # End,
         segments' = Append(segments, put + 1), put' = put + 1
  PROVE  /\ ToSpeak' = ToSpeak + 1
         /\ \A i \in DOMAIN segments' : segments'[i] # End /\ segments'[i] + ToSpeak' = put' + i
PROOF
  <1>1. /\ Len(segments) \in Nat /\ DOMAIN segments = 1..Len(segments)
        /\ Len(segments') = Len(segments) + 1 /\ DOMAIN segments' = 1..Len(segments) + 1
        /\ \A i \in DOMAIN segments : segments'[i] = segments[i] /\ segments[i] \in Nat
        /\ segments'[Len(segments) + 1] = put + 1
        /\ segments' # <<>>
    BY MaxCutIsBound DEF TypeOK
  <1>2. ToSpeak = Len(segments)
    BY QueueShape DEF ToSpeak
  <1>3. ToSpeak' = Len(segments) + 1
    <2>1. segments'[Len(segments')] # End
      BY <1>1 DEF End
    <2>2. QED
      BY <2>1, <1>1 DEF ToSpeak
  <1>4. \A i \in DOMAIN segments : segments[i] + Len(segments) = put + i
    BY <1>2 DEF NothingLost
  <1>5. ASSUME NEW i \in DOMAIN segments'
        PROVE  segments'[i] # End /\ segments'[i] + ToSpeak' = put' + i
    <2>1. CASE i \in DOMAIN segments
      <3>1. segments'[i] = segments[i] /\ segments[i] # End /\ segments[i] + Len(segments) = put + i
        BY <2>1, <1>1, <1>4
      <3>2. segments[i] \in Nat /\ i \in Nat /\ Len(segments) \in Nat
        BY <2>1, QueueShape
      <3>3. QED
        BY <3>1, <3>2, <1>3
    <2>2. CASE i = Len(segments) + 1
      BY <2>2, <1>1, <1>3 DEF End
    <2>3. QED
      BY <2>1, <2>2, <1>1
  <1>6. QED
    BY <1>2, <1>3, <1>5

\* segments.put(None): there is no more to speak than before.
LEMMA EndPut ==
  ASSUME TypeOK, NothingLost, \A i \in DOMAIN segments : segments[i] # End,
         segments' = Append(segments, End)
  PROVE  /\ ToSpeak' = ToSpeak
         /\ \A i \in DOMAIN segments' :
              IF segments'[i] = End THEN i = Len(segments') ELSE segments'[i] + ToSpeak' = put + i
PROOF
  <1>1. /\ Len(segments) \in Nat /\ DOMAIN segments = 1..Len(segments)
        /\ Len(segments') = Len(segments) + 1 /\ DOMAIN segments' = 1..Len(segments) + 1
        /\ \A i \in DOMAIN segments : segments'[i] = segments[i]
        /\ segments'[Len(segments) + 1] = End
        /\ segments' # <<>>
    BY MaxCutIsBound DEF TypeOK, End
  <1>2. ToSpeak = Len(segments)
    BY QueueShape DEF ToSpeak
  <1>3. ToSpeak' = Len(segments)
    BY <1>1 DEF ToSpeak
  <1>4. \A i \in DOMAIN segments : segments[i] + Len(segments) = put + i
    BY <1>2 DEF NothingLost
  <1>5. QED
    BY <1>1, <1>2, <1>3, <1>4

\* segments.get: a segment is the one that follows those spoken; with the None
\* the queue is empty.
LEMMA Taken ==
  ASSUME TypeOK, NothingLost, segments # <<>>, segments' = Tail(segments)
  PROVE  /\ Head(segments) = End => segments' = <<>> /\ ToSpeak = 0 /\ ToSpeak' = 0
         /\ Head(segments) # End => ToSpeak' + 1 = ToSpeak
         /\ ToSpeak' \in Nat
         /\ \A i \in DOMAIN segments' :
              /\ segments'[i] = segments[i + 1] /\ i + 1 \in DOMAIN segments
              /\ IF segments'[i] = End THEN i = Len(segments')
                                       ELSE segments'[i] + ToSpeak' = put + i
PROOF
  <1>1. /\ Len(segments) \in Nat /\ Len(segments) # 0 /\ DOMAIN segments = 1..Len(segments)
        /\ Len(segments') = Len(segments) - 1 /\ DOMAIN segments' = 1..Len(segments) - 1
        /\ \A i \in DOMAIN segments' : segments'[i] = segments[i + 1]
        /\ \A i \in DOMAIN segments : segments[i] \in Nat
        /\ Head(segments) = segments[1]
        /\ segments' = <<>> <=> Len(segments) = 1
    <2>1. segments \in Seq(0..MaxCut)
      BY DEF TypeOK
    <2>2. segments' \in Seq(0..MaxCut) /\ Len(segments') = Len(segments) - 1
      BY <2>1
    <2>3. segments' = <<>> <=> Len(segments) = 1
      <3>1. segments' = <<>> <=> Len(segments') = 0
        BY <2>2, EmptySeq
      <3>2. Len(segments) \in Nat
        BY <2>1
      <3>3. QED
        BY <3>1, <3>2, <2>2
    <2>4. DOMAIN segments' = 1..Len(segments) - 1
      BY <2>2
    <2>5. \A i \in DOMAIN segments' : segments'[i] = segments[i + 1]
      BY <2>1
    <2>6. Head(segments) = segments[1]
      BY <2>1
    <2>7. QED
      BY <2>2, <2>3, <2>4, <2>5, <2>6, QueueShape
  <1>2. put \in Nat
    BY MaxCutIsBound DEF TypeOK
  <1>3. CASE Head(segments) = End
    <2>1. Len(segments) = 1
      BY <1>3, <1>1 DEF NothingLost
    <2>2. segments' = <<>> /\ ToSpeak = 0 /\ ToSpeak' = 0
      BY <2>1, <1>1, <1>3 DEF ToSpeak
    <2>3. QED
      BY <2>1, <2>2, <1>1, <1>3
  <1>4. CASE Head(segments) # End
    <2>1. ToSpeak' + 1 = ToSpeak /\ ToSpeak \in Nat /\ ToSpeak' \in Nat
      BY <1>4, <1>1 DEF ToSpeak
    <2>2. ASSUME NEW i \in DOMAIN segments'
          PROVE  /\ i + 1 \in DOMAIN segments /\ segments'[i] = segments[i + 1]
                 /\ IF segments'[i] = End THEN i = Len(segments')
                                          ELSE segments'[i] + ToSpeak' = put + i
      <3>1. /\ i \in Nat /\ i + 1 \in DOMAIN segments /\ segments'[i] = segments[i + 1]
            /\ segments'[i] \in Nat
        BY <1>1
      <3>2. IF segments[i + 1] = End THEN i + 1 = Len(segments)
                                     ELSE segments[i + 1] + ToSpeak = put + (i + 1)
        BY <3>1 DEF NothingLost
      <3>3. CASE segments'[i] = End
        BY <3>3, <3>1, <3>2, <1>1
      <3>4. CASE segments'[i] # End
        <4> DEFINE rest == ToSpeak'
        <4>1. segments'[i] + (rest + 1) = put + (i + 1) /\ rest \in Nat
          BY <3>4, <3>1, <3>2, <2>1
        <4> HIDE DEF rest
        <4>2. segments'[i] + rest = put + i
          BY <4>1, <3>1, <1>2
        <4>3. QED
          BY <4>2, <3>1, <3>4 DEF rest
      <3>5. QED
        BY <3>3, <3>4
    <2>3. QED
      BY <2>1, <2>2, <1>4
  <1>5. QED
    BY <1>3, <1>4

-----------------------------------------------------------------------------
LEMMA InitIsSpeechInv == Init => SpeechInv
PROOF
  <1> SUFFICES ASSUME Init PROVE SpeechInv
    OBVIOUS
  <1>1. cut \in 0..MaxCut /\ 0 \in 0..cut /\ 0 \in 0..0
    BY MaxCutIsBound, SpeechAssumption DEF Init
  <1>2. <<>> \in Seq(0..MaxCut) /\ Len(<<>>) = 0 /\ DOMAIN <<>> = {}
    OBVIOUS
  <1>3. TypeOK
    <2>1. segments \in Seq(0..MaxCut) /\ Len(segments) <= Capacity
      BY <1>2, SpeechAssumption DEF Init
    <2>2. cut \in 0..MaxCut /\ put \in 0..cut /\ spoken \in 0..put
      BY <1>1 DEF Init
    <2>3. QED
      BY <2>1, <2>2 DEF Init, TypeOK
  <1>4. ToSpeak = 0
    BY <1>2 DEF Init, ToSpeak
  <1>5. NothingLost
    BY <1>2, <1>4 DEF Init, NothingLost
  <1>6. Handover
    BY <1>2 DEF Init, Handover
  <1>7. CompletedIsSpoken /\ NoSpeechAfterDone
    BY DEF Init, CompletedIsSpoken, NoSpeechAfterDone
  <1>8. QED
    BY <1>3, <1>5, <1>6, <1>7 DEF SpeechInv

\* A step that leaves the queue and what is put alone: only the two tasks move.
LEMMA QueueKept ==
  ASSUME SpeechInv, UNCHANGED <<segments, put>>,
         TypeOK', Handover', CompletedIsSpoken', NoSpeechAfterDone',
         \/ tts' = tts /\ spoken' = spoken
         \/ tts = "none" /\ tts' = "waiting" /\ spoken' = spoken
         \/ tts = "speaking" /\ tts' = "waiting" /\ spoken' = spoken + 1
         \/ tts' \in {"failed", "stopping", "cancelled"}
  PROVE  SpeechInv'
PROOF
  <1>1. ToSpeak' = ToSpeak
    BY DEF ToSpeak
  <1>2. ToSpeak \in Nat /\ spoken \in Nat /\ put \in Nat
    BY MaxCutIsBound, QueueShape DEF SpeechInv, TypeOK
  <1>3. NothingLost'
    BY <1>1, <1>2 DEF NothingLost, SpeechInv
  <1>4. QED
    BY <1>3 DEF SpeechInv

\* What the speech task still owes: it is at most what was put.
LEMMA SpokenWasPut ==
  ASSUME SpeechInv, tts = "speaking"
  PROVE  spoken + 1 \in 0..put
PROOF
  <1>1. ToSpeak \in Nat /\ spoken \in Nat /\ put \in Nat
    BY MaxCutIsBound, QueueShape DEF SpeechInv, TypeOK
  <1>2. QED
    BY <1>1 DEF SpeechInv, NothingLost

LEMMA TextArrivesKeeps ==
  ASSUME SpeechInv, TextArrives
  PROVE  SpeechInv'
PROOF
  <1>1. PICK n \in 0..2 :
          /\ cut + n <= MaxText /\ cut' = cut + n
          /\ runner' = IF n = 0 THEN "reading" ELSE "putting"
    BY DEF TextArrives
  <1>2. cut' \in 0..MaxCut /\ put \in 0..cut' /\ (n = 0 => cut' = cut)
    BY <1>1, MaxCutIsBound, SpeechAssumption DEF SpeechInv, TypeOK
  <1>3. tts \in {"none", "waiting", "speaking", "failed"} /\ outcome = "none" /\ put = cut
    BY DEF SpeechInv, Handover, TextArrives
  <1>4. TypeOK'
    BY <1>1, <1>2, <1>3 DEF SpeechInv, TypeOK, TextArrives
  <1>5. Handover'
    BY <1>1, <1>2, <1>3 DEF SpeechInv, Handover, TextArrives, TtsOver
  <1>6. CompletedIsSpoken' /\ NoSpeechAfterDone'
    BY <1>1, <1>3 DEF CompletedIsSpoken, NoSpeechAfterDone, TextArrives
  <1>7. QED
    BY <1>3, <1>4, <1>5, <1>6, QueueKept DEF TextArrives

LEMMA PutSegmentKeeps ==
  ASSUME SpeechInv, PutSegment
  PROVE  SpeechInv'
PROOF
  <1>1. /\ cut \in Nat /\ put \in Nat /\ put + 1 \in 0..cut /\ put + 1 \in 0..MaxCut
        /\ spoken \in 0..put + 1
    BY MaxCutIsBound DEF SpeechInv, TypeOK, PutSegment
  <1>2. /\ tts \in {"none", "waiting", "speaking", "failed"} /\ outcome = "none"
        /\ \A i \in DOMAIN segments : segments[i] # End
    BY DEF SpeechInv, Handover, PutSegment
  <1>3. /\ segments' = Append(segments, put + 1) /\ put' = put + 1
        /\ UNCHANGED <<kind, cut, tts, spoken, textDone, audioDone, outcome>>
    BY DEF PutSegment
  <1>4. runner' \in {"reading", "putting", "flushing"} /\ (runner' = "reading" => put' = cut)
    BY DEF PutSegment
  <1>5. /\ ToSpeak' = ToSpeak + 1
        /\ \A i \in DOMAIN segments' : segments'[i] # End /\ segments'[i] + ToSpeak' = put' + i
    BY <1>1, <1>2, <1>3, SegmentPut DEF SpeechInv
  <1>6. segments' \in Seq(0..MaxCut) /\ Len(segments') <= Capacity
    <2>1. segments \in Seq(0..MaxCut) /\ Len(segments) < Capacity /\ Capacity \in Nat
      BY SpeechAssumption DEF SpeechInv, TypeOK, PutSegment, HasRoom
    <2>2. QED
      BY <2>1, <1>1, <1>3
  <1>7. TypeOK'
    BY <1>1, <1>3, <1>4, <1>6 DEF SpeechInv, TypeOK
  <1>8. Handover'
    BY <1>2, <1>3, <1>4, <1>5 DEF SpeechInv, Handover
  <1>9. NothingLost'
    <2>1. ToSpeak \in Nat /\ spoken \in Nat
      BY MaxCutIsBound, QueueShape DEF SpeechInv, TypeOK
    <2>2. QED
      BY <2>1, <1>1, <1>3, <1>5 DEF SpeechInv, NothingLost
  <1>10. CompletedIsSpoken' /\ NoSpeechAfterDone'
    BY <1>2, <1>3, <1>4 DEF CompletedIsSpoken, NoSpeechAfterDone
  <1>11. QED
    BY <1>7, <1>8, <1>9, <1>10 DEF SpeechInv

LEMMA PutEndKeeps ==
  ASSUME SpeechInv, PutEnd
  PROVE  SpeechInv'
PROOF
  <1>1. /\ segments' = Append(segments, End) /\ textDone' = TRUE /\ runner' = "awaiting"
        /\ UNCHANGED <<kind, cut, put, spoken, audioDone, outcome>>
        /\ put = cut /\ runner = "flushing"
    BY DEF PutEnd, AllPut
  <1>2. /\ tts \in {"none", "waiting", "speaking", "failed"} /\ outcome = "none"
        /\ \A i \in DOMAIN segments : segments[i] # End
    BY <1>1 DEF SpeechInv, Handover
  <1>3. /\ tts' \in {"waiting", "speaking", "failed"}
        /\ tts' = "waiting" => tts \in {"none", "waiting"}
        /\ tts' = "speaking" => tts = "speaking"
    BY <1>2 DEF PutEnd
  <1>4. /\ ToSpeak' = ToSpeak
        /\ \A i \in DOMAIN segments' :
             IF segments'[i] = End THEN i = Len(segments') ELSE segments'[i] + ToSpeak' = put + i
    BY <1>1, <1>2, EndPut DEF SpeechInv
  <1>5. segments' \in Seq(0..MaxCut) /\ Len(segments') <= Capacity
    <2>1. /\ segments \in Seq(0..MaxCut) /\ Len(segments) < Capacity /\ Capacity \in Nat
          /\ End \in 0..MaxCut
      BY SpeechAssumption, MaxCutIsBound DEF SpeechInv, TypeOK, PutEnd, HasRoom, End
    <2>2. QED
      BY <2>1, <1>1
  <1>6. TypeOK'
    BY <1>1, <1>3, <1>5 DEF SpeechInv, TypeOK
  <1>7. Handover'
    BY <1>1, <1>2, <1>3 DEF SpeechInv, Handover
  <1>8. NothingLost'
    BY <1>1, <1>3, <1>4 DEF SpeechInv, NothingLost
  <1>9. CompletedIsSpoken' /\ NoSpeechAfterDone'
    BY <1>1, <1>2 DEF CompletedIsSpoken, NoSpeechAfterDone
  <1>10. QED
    BY <1>6, <1>7, <1>8, <1>9 DEF SpeechInv

\* Unwinding stops a speech task that still runs, and nothing is put any more.
LEMMA UnwindKeeps ==
  ASSUME SpeechInv, NEW o \in {"failed", "cancelled"}, Unwind(o),
         runner \in {"reading", "putting", "flushing", "awaiting"}
  PROVE  SpeechInv'
PROOF
  <1>1. TypeOK'
    BY DEF SpeechInv, TypeOK, Unwind, TtsOver
  <1>2. Handover'
    BY DEF SpeechInv, Handover, Unwind, TtsOver
  <1>3. CompletedIsSpoken' /\ NoSpeechAfterDone'
    BY DEF CompletedIsSpoken, NoSpeechAfterDone, Unwind
  <1>4. QED
    BY <1>1, <1>2, <1>3, QueueKept DEF Unwind

LEMMA StreamEndsKeeps ==
  ASSUME SpeechInv, StreamEnds
  PROVE  SpeechInv'
PROOF
  <1>1. PICK n \in 0..2 : cut + n <= MaxText /\ cut' = cut + n
    BY DEF StreamEnds
  <1>2. cut' \in 0..MaxCut /\ put \in 0..cut'
    BY <1>1, MaxCutIsBound, SpeechAssumption DEF SpeechInv, TypeOK
  <1>3. /\ tts \in {"none", "waiting", "speaking", "failed"} /\ outcome = "none"
        /\ \A i \in DOMAIN segments : segments[i] # End
    BY DEF SpeechInv, Handover, StreamEnds
  <1>4. TypeOK'
    BY <1>2 DEF SpeechInv, TypeOK, StreamEnds
  <1>5. Handover'
    BY <1>3 DEF SpeechInv, Handover, StreamEnds
  <1>6. CompletedIsSpoken' /\ NoSpeechAfterDone'
    BY <1>3 DEF CompletedIsSpoken, NoSpeechAfterDone, StreamEnds
  <1>7. QED
    BY <1>4, <1>5, <1>6, QueueKept DEF StreamEnds

LEMMA CompletesKeeps ==
  ASSUME SpeechInv, Completes
  PROVE  SpeechInv'
PROOF
  <1>1. TypeOK'
    BY DEF SpeechInv, TypeOK, Completes
  <1>2. Handover'
    BY DEF SpeechInv, Handover, Completes
  <1>3. ToSpeak = 0 /\ segments = <<>> /\ put = cut
    BY DEF SpeechInv, Handover, Completes, ToSpeak
  <1>4. spoken = put
    BY <1>3, MaxCutIsBound DEF SpeechInv, NothingLost, TypeOK, Completes
  <1>5. CompletedIsSpoken' /\ NoSpeechAfterDone'
    BY <1>3, <1>4 DEF CompletedIsSpoken, NoSpeechAfterDone, Completes, TtsOver
  <1>6. QED
    BY <1>1, <1>2, <1>5, QueueKept DEF Completes

LEMMA UnwoundKeeps ==
  ASSUME SpeechInv, Unwound
  PROVE  SpeechInv'
PROOF
  <1>1. TypeOK'
    BY DEF SpeechInv, TypeOK, Unwound
  <1>2. Handover'
    BY DEF SpeechInv, Handover, Unwound
  <1>3. CompletedIsSpoken' /\ NoSpeechAfterDone'
    BY DEF SpeechInv, Handover, CompletedIsSpoken, NoSpeechAfterDone, Unwound, Gathered, TtsOver
  <1>4. QED
    BY <1>1, <1>2, <1>3, QueueKept DEF Unwound

LEMMA TakeSegmentKeeps ==
  ASSUME SpeechInv, TakeSegment
  PROVE  SpeechInv'
PROOF
  <1>1. /\ tts = "waiting" /\ segments # <<>> /\ segments' = Tail(segments) /\ tts' = Meaning
        /\ UNCHANGED <<kind, runner, cut, put, spoken, textDone, audioDone, outcome>>
    BY DEF TakeSegment
  <1>2. /\ Head(segments) = End => segments' = <<>> /\ ToSpeak = 0 /\ ToSpeak' = 0
        /\ Head(segments) # End => ToSpeak' + 1 = ToSpeak
        /\ ToSpeak' \in Nat
        /\ \A i \in DOMAIN segments' :
             /\ segments'[i] = segments[i + 1] /\ i + 1 \in DOMAIN segments
             /\ IF segments'[i] = End THEN i = Len(segments')
                                      ELSE segments'[i] + ToSpeak' = put + i
    BY <1>1, Taken DEF SpeechInv
  <1>3. segments' \in Seq(0..MaxCut) /\ Len(segments') <= Capacity /\ 1 \in DOMAIN segments
        /\ Head(segments) = segments[1]
    BY <1>1, SpeechAssumption DEF SpeechInv, TypeOK
  <1>4. tts' = IF Head(segments) = End THEN "ended" ELSE "speaking"
    BY <1>1 DEF Meaning
  <1>5. outcome # "completed" /\ runner # "unwinding" /\ runner # "done"
    BY <1>1 DEF SpeechInv, Handover, NoSpeechAfterDone, TtsOver
  <1>6. TypeOK'
    BY <1>1, <1>3, <1>4 DEF SpeechInv, TypeOK
  <1>7. Handover'
    <2>1. Head(segments) = End => put = cut /\ runner = "awaiting"
      BY <1>3, <1>5 DEF SpeechInv, Handover, TypeOK
    <2>2. QED
      BY <2>1, <1>1, <1>2, <1>4, <1>5 DEF SpeechInv, Handover, TtsOver
  <1>8. NothingLost'
    <2>1. spoken + ToSpeak = put
      BY <1>1 DEF SpeechInv, NothingLost
    <2>2. ToSpeak \in Nat /\ ToSpeak' \in Nat /\ spoken \in Nat /\ put \in Nat
      BY <1>2, MaxCutIsBound, QueueShape DEF SpeechInv, TypeOK
    <2>3. spoken' + ToSpeak' = put' \/ Head(segments) # End
      BY <2>1, <1>1, <1>2
    <2>4. ASSUME Head(segments) # End
          PROVE  spoken' + 1 + ToSpeak' = put'
      <3> DEFINE rest == ToSpeak'
      <3>1. spoken + (rest + 1) = put /\ rest \in Nat
        BY <2>4, <2>1, <1>2
      <3> HIDE DEF rest
      <3>2. spoken + 1 + rest = put
        BY <3>1, <2>2
      <3>3. QED
        BY <3>2, <1>1 DEF rest
    <2>5. QED
      BY <2>3, <2>4, <1>1, <1>2, <1>4 DEF NothingLost
  <1>9. CompletedIsSpoken' /\ NoSpeechAfterDone'
    BY <1>1, <1>5 DEF CompletedIsSpoken, NoSpeechAfterDone
  <1>10. QED
    BY <1>6, <1>7, <1>8, <1>9 DEF SpeechInv

\* A synthesis that returns, or raises, and a cancellation that lands.
LEMMA SegmentOverKeeps ==
  ASSUME SpeechInv, SegmentSpoken \/ SegmentFails \/ SpeechStops
  PROVE  SpeechInv'
PROOF
  <1>1. /\ UNCHANGED <<kind, runner, cut, put, segments, textDone, audioDone, outcome>>
        /\ \/ tts = "speaking" /\ tts' = "waiting" /\ spoken' = spoken + 1
           \/ tts = "speaking" /\ tts' = "failed" /\ spoken' = spoken
           \/ tts = "stopping" /\ tts' = "cancelled" /\ spoken' = spoken
    BY DEF SegmentSpoken, SegmentFails, SpeechStops, StopsAs
  <1>2. outcome # "completed" /\ (tts = "speaking" => runner # "unwinding" /\ runner # "done")
    BY <1>1 DEF SpeechInv, Handover, NoSpeechAfterDone, TtsOver
  <1>3. TypeOK'
    BY <1>1, SpokenWasPut DEF SpeechInv, TypeOK
  <1>4. Handover'
    BY <1>1, <1>2 DEF SpeechInv, Handover, TtsOver
  <1>5. CompletedIsSpoken' /\ NoSpeechAfterDone'
    BY <1>1, <1>2 DEF SpeechInv, CompletedIsSpoken, NoSpeechAfterDone, TtsOver
  <1>6. QED
    BY <1>1, <1>3, <1>4, <1>5, QueueKept

\* A listener hears all of a completed response, once and in order, and nothing
\* after its end: the runner and the speech task may stop each other anywhere on
\* a queue of any size (_run_response, _run_speak_response, _run_tts).
THEOREM SpeechInvAlways == Spec => []SpeechInv
PROOF
  <1>1. Init => SpeechInv
    BY InitIsSpeechInv
  <1>2. SpeechInv /\ [Next]_vars => SpeechInv'
    <2> SUFFICES ASSUME SpeechInv, [Next]_vars PROVE SpeechInv'
      OBVIOUS
    <2>1. CASE TextArrives
      BY <2>1, TextArrivesKeeps
    <2>2. CASE StreamEnds
      BY <2>2, StreamEndsKeeps
    <2>3. CASE StreamFails \/ Cancel \/ SpeechFailureSeen
      BY <2>3, UnwindKeeps DEF StreamFails, Cancel, SpeechFailureSeen
    <2>4. CASE PutSegment
      BY <2>4, PutSegmentKeeps
    <2>5. CASE PutEnd
      BY <2>5, PutEndKeeps
    <2>6. CASE Completes
      BY <2>6, CompletesKeeps
    <2>7. CASE Unwound
      BY <2>7, UnwoundKeeps
    <2>8. CASE TakeSegment
      BY <2>8, TakeSegmentKeeps
    <2>9. CASE SegmentSpoken \/ SegmentFails \/ SpeechStops
      BY <2>9, SegmentOverKeeps
    <2>10. CASE UNCHANGED vars
      BY <2>10, ZenonT(30) DEF vars, SpeechInv, TypeOK, CompletedIsSpoken, NoSpeechAfterDone, NothingLost,
                   Handover, ToSpeak, TtsOver
    <2>11. QED
      BY <2>1, <2>2, <2>3, <2>4, <2>5, <2>6, <2>7, <2>8, <2>9, <2>10 DEF Next, Runs, Speaks
  <1>3. QED
    BY <1>1, <1>2, PTL DEF Spec
=============================================================================
