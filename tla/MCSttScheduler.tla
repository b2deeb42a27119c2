--------------------------- MODULE MCSttScheduler ---------------------------
(***************************************************************************)
(* SttScheduler with a history variable that counts, for each queued final *)
(* job, the jobs of every session that began before it: finals and partial *)
(* ones, up to two.                                                        *)
(***************************************************************************)
EXTENDS SttScheduler

VARIABLE overtaken

NobodyYet == [t \in Sessions |-> 0]

Begins == active' # active /\ active' # NoJob

Counted(s) ==
  IF s \in queue["final"] /\ s \in queue'["final"]
  THEN IF Begins /\ overtaken[s][active'.session] < 2
       THEN [overtaken[s] EXCEPT ![active'.session] = @ + 1]
       ELSE overtaken[s]
  ELSE NobodyYet

HistoryInit == Init /\ overtaken = [s \in Sessions |-> NobodyYet]

HistoryNext == Next /\ overtaken' = [s \in Sessions |-> Counted(s)]

HistorySpec ==
  HistoryInit /\ [][HistoryNext]_<<vars, overtaken>> /\ Fairness

\* What the round-robin of docs/architecture.md:57 is for any number of sessions.
\* While the final of a session waits, no session with a larger id begins two jobs
\* of either class, and one with a smaller id only if another one with a smaller id
\* has begun one too: with two sessions nobody is overtaken twice (_next_job,
\* _next_session).
OvertakenByEarlierOnly ==
  \A s, t \in Sessions : s \in queue["final"] /\ overtaken[s][t] = 2 =>
    t < s /\ \E u \in 1..(s - 1) \ {t} : overtaken[s][u] > 0

\* Round-robin as docs/architecture.md:57 has it. With three sessions it is not.
NobodyOvertakesTwice ==
  \A s, t \in Sessions : s \in queue["final"] => overtaken[s][t] < 2
=============================================================================
