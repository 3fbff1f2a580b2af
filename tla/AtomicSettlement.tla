------------------------- MODULE AtomicSettlement ---------------------------
(***************************************************************************)
(* What the settlement of external operations promises: an operation is    *)
(* settled or rejected once and for all, a settled one may be reversed     *)
(* once, and the money moves with the decision.                            *)
(***************************************************************************)
EXTENDS Integers

CONSTANT Operation

VARIABLES
  outcome,  \* of each operation
  paid      \* times its amount has left the customer's account

Init ==
  /\ outcome = [o \in Operation |-> "none"]
  /\ paid = [o \in Operation |-> 0]

Decide(o, verdict) ==
  /\ outcome[o] = "none"
  /\ outcome' = [outcome EXCEPT ![o] = verdict]
  /\ paid' = [paid EXCEPT ![o] = IF verdict = "settled" THEN 1 ELSE 0]

Reverse(o) ==
  /\ outcome[o] = "settled"
  /\ outcome' = [outcome EXCEPT ![o] = "reversed"]
  /\ paid' = [paid EXCEPT ![o] = 0]

Next == \E o \in Operation :
  \/ \E verdict \in {"settled", "rejected"} : Decide(o, verdict)
  \/ Reverse(o)

Spec == Init /\ [][Next]_<<outcome, paid>>
=============================================================================
