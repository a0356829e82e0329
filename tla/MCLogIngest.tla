----------------------------- MODULE MCLogIngest -----------------------------
(* Instances of LogIngest for TLC.                                           *)
EXTENDS LogIngest

CONSTANTS s1, s2

TwoSlots == {s1, s2}
MCHosts == {"a", "b"}

(* Host a's second entry is lost with the first one if they are sent         *)
(* together; host b logs nothing, it may take over a's key.                  *)
MCEntries == [h \in MCHosts |->
  IF h = "a" THEN <<"bad", "sound", "unknown", "sound">> ELSE <<>>]

(* Two kinds of trouble in a run, and the two restarts and two deletions it  *)
(* takes for a key to move on to another host and back.                      *)
Mix(f, t, r, d) == [faults |-> f, timeouts |-> t, restarts |-> r, deletes |-> d]
MCTroubles == {Mix(1, 1, 0, 0), Mix(1, 0, 1, 0), Mix(0, 1, 0, 1), Mix(0, 0, 2, 2)}
==============================================================================
