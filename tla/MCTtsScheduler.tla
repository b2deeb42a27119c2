--------------------------- MODULE MCTtsScheduler ---------------------------
(***************************************************************************)
(* TtsScheduler with a history variable that counts, for each session with *)
(* a final segment that could be taken, the segments of every other one    *)
(* that were taken before it.                                              *)
(***************************************************************************)
EXTENDS TtsScheduler

VARIABLE overtaken

FinalReady(s) == Runnable(s) /\ queue[s][1].final

NobodyYet == [t \in Sessions |-> 0]

Taken == {w \in Workers : active[w] = NoJob /\ active'[w] # NoJob}

Counted(s) ==
  IF FinalReady(s) /\ FinalReady(s)'
  THEN [t \in Sessions |-> IF overtaken[s][t] < 2 /\ \E w \in Taken : active'[w].session = t
                           THEN overtaken[s][t] + 1 ELSE overtaken[s][t]]
  ELSE NobodyYet

HistoryInit == Init /\ overtaken = [s \in Sessions |-> NobodyYet]

HistoryNext == Next /\ overtaken' = [s \in Sessions |-> Counted(s)]

HistorySpec ==
  HistoryInit /\ [][HistoryNext]_<<vars, overtaken>> /\ Fairness

\* "segments are round-robin across sessions" (docs/architecture.md:57): while a
\* session has a final segment that could be spoken, no other session has two
\* of its segments begun before it, for any number of sessions and workers.
NobodyOvertakesTwice ==
  \A s, t \in Sessions : FinalReady(s) => overtaken[s][t] < 2
=============================================================================
