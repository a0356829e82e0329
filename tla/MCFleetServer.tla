---------------------------- MODULE MCFleetServer ----------------------------
(* Instances of FleetServer for TLC.  The sessions are model values that     *)
(* nothing tells apart, so permuting them is a symmetry; it is used where no *)
(* liveness is checked.                                                      *)
EXTENDS FleetServer, TLC

CONSTANTS s1, s2

MCHosts == {"a", "b"}
OneHost == {"a"}
TwoSlots == {s1, s2}

(* A query for each host, and just one.                                      *)
OneEach == [q \in {1, 2} |-> IF q = 1 THEN "a" ELSE "b"]
Single == [q \in {1} |-> "a"]

TwoSymmetry == Permutations(TwoSlots)
==============================================================================
