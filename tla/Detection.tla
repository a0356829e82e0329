------------------------------ MODULE Detection ------------------------------
(***************************************************************************)
(* What the rule engine promises, apart from when: an event is declared    *)
(* processed only after every rule it matches has raised an alert on it,   *)
(* no rule raises one that does not match, and an event that was declared  *)
(* processed raises no more.                                               *)
(***************************************************************************)
CONSTANTS
  Rows,       (* the events                                                *)
  Rules,      (* the detection rules                                       *)
  Matches     (* Matches[r]: the rules that match event r                  *)

VARIABLES
  raised,     (* raised[r]: the rules that have raised an alert on event r *)
  done        (* events declared processed                                 *)

Init == raised = [r \in Rows |-> {}] /\ done = {}

Raise(r, k) ==
  /\ r \notin done
  /\ k \in Matches[r]
  /\ raised' = [raised EXCEPT ![r] = @ \cup {k}]
  /\ UNCHANGED done

Declare(r) ==
  /\ Matches[r] \subseteq raised[r]
  /\ done' = done \cup {r}
  /\ UNCHANGED raised

Next == \E r \in Rows : (\E k \in Rules : Raise(r, k)) \/ Declare(r)

Spec == Init /\ [][Next]_<<raised, done>>
=============================================================================
