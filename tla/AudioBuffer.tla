----------------------------- MODULE AudioBuffer -----------------------------
(***************************************************************************)
(* BoundedAudioBuffer of sessions.py: the samples first..end-1 of a        *)
(* session's input audio. What they sound like makes no difference, so a   *)
(* buffer is its two positions.                                            *)
(***************************************************************************)
EXTENDS Naturals

CONSTANT MaxBuffered  \* _max_bytes, in samples

ASSUME BufferAssumption == MaxBuffered \in Nat \ {0}

Buffers == {b \in [first : Nat, end : Nat] : b.first <= b.end /\ b.end - b.first <= MaxBuffered}

Cleared == [first |-> 0, end |-> 0]

Held(b) == b.end - b.first

\* append raises BufferError beyond the capacity.
Fits(b, n) == Held(b) + n <= MaxBuffered

Appended(b, n) == [b EXCEPT !.end = @ + n]

\* slice_samples raises ValueError unless this holds.
Slices(b, from, to) == b.first <= from /\ from <= to /\ to <= b.end

\* discard_before, for a sample that is in range.
DiscardedBefore(b, sample) == [b EXCEPT !.first = sample]

Later(m, n) == IF m < n THEN n ELSE m
=============================================================================
