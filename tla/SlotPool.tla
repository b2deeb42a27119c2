------------------------------ MODULE SlotPool ------------------------------
(***************************************************************************)
(* What the service promises about its slots, whatever handlers, release   *)
(* tasks and shutdown do: a pool whose places are claimed once by a client *)
(* and come back only when no shared worker serves that client any more.   *)
(* Sessions implements it.                                                 *)
(***************************************************************************)
CONSTANTS Clients, Places, Nobody

VARIABLES
  owner,        \* who holds a place
  seen,         \* the clients that ever held one
  working,      \* the clients the shared workers serve
  quarantined,  \* the places lost for good
  closing,      \* no place is given out any more
  ended         \* the shared workers are gone

vars == <<owner, seen, working, quarantined, closing, ended>>

Init ==
  /\ owner = [p \in Places |-> Nobody]
  /\ seen = {} /\ working = {} /\ quarantined = {}
  /\ closing = FALSE /\ ended = FALSE

Claim(c, p) ==
  /\ ~closing /\ c \notin seen /\ owner[p] = Nobody
  /\ owner' = [owner EXCEPT ![p] = c]
  /\ seen' = seen \cup {c}
  /\ UNCHANGED <<working, quarantined, closing, ended>>

WorkBegins(c) ==
  /\ ~ended /\ \E p \in Places : owner[p] = c
  /\ working' = working \cup {c}
  /\ UNCHANGED <<owner, seen, quarantined, closing, ended>>

WorkEnds(c) ==
  /\ working' = working \ {c}
  /\ UNCHANGED <<owner, seen, quarantined, closing, ended>>

Return(p) ==
  /\ p \notin quarantined /\ owner[p] \notin working
  /\ owner' = [owner EXCEPT ![p] = Nobody]
  /\ UNCHANGED <<seen, working, quarantined, closing, ended>>

Quarantine(p) ==
  /\ owner[p] # Nobody
  /\ quarantined' = quarantined \cup {p}
  /\ UNCHANGED <<owner, seen, working, closing, ended>>

Shut ==
  /\ closing' = TRUE
  /\ UNCHANGED <<owner, seen, working, quarantined, ended>>

\* The workers go last: no place is held then, unless it is lost.
End ==
  /\ closing /\ \A p \in Places \ quarantined : owner[p] = Nobody
  /\ ended' = TRUE
  /\ UNCHANGED <<owner, seen, working, quarantined, closing>>

Next ==
  \/ \E c \in Clients : WorkBegins(c) \/ WorkEnds(c) \/ \E p \in Places : Claim(c, p)
  \/ \E p \in Places : Return(p) \/ Quarantine(p)
  \/ Shut \/ End

Spec == Init /\ [][Next]_vars
=============================================================================
