--------------------------- MODULE ImageContract ---------------------------
(***************************************************************************)
(* What a VMImage promises its user, whatever happens inside: the spec     *)
(* versions the user requests are attempted one at a time, each attempt    *)
(* ends at most once and its outcome stands until a newer request is taken *)
(* up, requests are taken up in order, and removal is final.               *)
(***************************************************************************)
EXTENDS Naturals

VARIABLES
  requested,  \* the latest requested version
  attempt,    \* the version the status speaks of, 0 while it names none
  state       \* "active", the outcome "Ready" or "Failed", or "Gone"

cvars == <<requested, attempt, state>>

Outcomes == {"Ready", "Failed"}

(* An image is new, or has the outcome of an operator that named none.     *)
Init ==
  /\ requested = 1
  /\ attempt = 0
  /\ state \in {"active"} \cup Outcomes

(* The status names a version for the first time.                          *)
Adopt ==
  /\ attempt = 0
  /\ attempt' = requested
  /\ UNCHANGED <<requested, state>>

Request ==
  /\ state \in Outcomes
  /\ requested' = requested + 1
  /\ UNCHANGED <<attempt, state>>

Conclude ==
  /\ state = "active"
  /\ attempt \in {0, requested}
  /\ attempt' = requested
  /\ state' \in Outcomes
  /\ UNCHANGED requested

TakeUp ==
  /\ state \in Outcomes
  /\ attempt \notin {0, requested}
  /\ attempt' = requested
  /\ state' = "active"
  /\ UNCHANGED requested

Remove ==
  /\ state # "Gone"
  /\ state' = "Gone"
  /\ UNCHANGED <<requested, attempt>>

Next == Adopt \/ Request \/ Conclude \/ TakeUp \/ Remove

Spec == Init /\ [][Next]_cvars
=============================================================================
