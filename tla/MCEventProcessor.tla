--------------------------- MODULE MCEventProcessor ---------------------------
(* Instances of EventProcessor for TLC.  "Conflict" is one worker with the   *)
(* shared update statement next to the bpf process worker that leaks it;     *)
(* "Faults" is two builders that share statement names with different texts. *)
EXTENDS EventProcessor

ConflictWorkers == {"user_events", "bpf_process_events"}
ConflictRecords == 1..4
ConflictTable == [r \in 1..4 |-> IF r = 2 THEN "user_events" ELSE "bpf_process_events"]
ConflictSelfParent == {1, 4}

FaultWorkers == {"socket_events", "bpf_socket_events", "process_events"}
FaultRecords == 1..3
FaultTable == <<"socket_events", "bpf_socket_events", "process_events">>
FaultSelfParent == {3}
===============================================================================
