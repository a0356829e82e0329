--------------------------- MODULE EventProcessor ---------------------------
(***************************************************************************)
(* The event processor (src/vajra/event_processor): one thread per event   *)
(* table fills the process_tree column of the rows that have none.  All    *)
(* threads take their connections from one ConnectionPool, a second one    *)
(* while they hold the first, and leave prepared statements behind on the  *)
(* connections they return.                                                *)
(*                                                                         *)
(* What a tree contains is the subject of ProcessTree; here a builder      *)
(* returns "built", "empty" (an empty list) or "garbage" (see Build).      *)
(* libpqxx is the release 6 line: preparing a known name with the same     *)
(* text does nothing, with another text throws, and unprepare of an        *)
(* unknown name does nothing.  Statement names that have a single text in  *)
(* the program can therefore never conflict and are not tracked.           *)
(***************************************************************************)
EXTENDS ConnectionPool

CONSTANTS
  Records,      (* rows of the event tables, as numbers in insertion order *)
  TableOf,      (* TableOf[r]: the table row r belongs to                  *)
  SelfParent,   (* the rows whose pid is not above their parent's pid      *)
  BatchLimit,   (* the "limit 500" of the select statements                *)
  MaxFaults     (* database errors that may happen (bound)                 *)

Tables == {"process_events", "socket_events", "user_events",
           "bpf_process_events", "bpf_socket_events", "bpf_file_events",
           "win_process_events", "win_socket_events", "win_file_events"}

(* Each table has one worker, so the table stands for its thread too.      *)
ASSUME EventProcessorAssumption ==
  /\ Threads \subseteq Tables
  /\ Records \subseteq Nat /\ IsFiniteSet(Records)
  /\ TableOf \in [Records -> Threads]
  /\ SelfParent \subseteq Records
  /\ BatchLimit \in Nat \ {0}
  /\ MaxFaults \in Nat

VARIABLES
  tree,         (* tree[r]: the process_tree column of row r               *)
  prepared,     (* prepared[c]: <<name, text>> of c's prepared statements  *)
  pc,           (* pc[w]: where worker w stands in its endless loop        *)
  connection,   (* connection[w]: its first connection, 0 for none         *)
  conn,         (* conn[w]: the second one, for the builder                *)
  batch,        (* batch[w]: rows of the select result still to be handled *)
  record,       (* record[w]: the row in hand, and what its builder gave   *)
  faults,       (* database errors so far                                  *)
  restarts      (* why the process was started again, so far               *)

workerVars == <<prepared, pc, connection, conn, batch, record>>
vars == <<poolVars, tree, workerVars, faults, restarts>>

NoRecord == [id |-> 0, result |-> "none"]
Results == {"empty", "built", "garbage"}
Settled(r) == tree[r] \in Results

-----------------------------------------------------------------------------
(* What distinguishes the nine worker loops.                               *)

(* The statement a worker updates its table with: three of them share a    *)
(* name, each with a text of its own.                                      *)
UpdateStatement(w) ==
  CASE w \in {"process_events", "socket_events", "user_events"} ->
         <<"update_process_tree", w>>
    [] w = "bpf_process_events" -> <<"update_bpf_process_tree", w>>
    [] w = "bpf_socket_events"  -> <<"update_bpf_socket_tree", w>>
    [] w = "bpf_file_events"    -> <<"update_bpf_file_tree", w>>
    [] w = "win_process_events" -> <<"update_win_process_tree", w>>
    [] w = "win_socket_events"  -> <<"update_win_socket_tree", w>>
    [] w = "win_file_events"    -> <<"update_win_file_tree", w>>

(* Only these selects lack "order by id asc".                              *)
Unordered == {"process_events", "socket_events"}

ProcessTables == {"process_events", "bpf_process_events", "win_process_events"}

(* The table a builder looks the process of a socket, file or user event   *)
(* up in, through a statement that is named the same for all of them.      *)
ProcessTableOf(w) ==
  CASE w \in {"process_events", "socket_events", "user_events"} -> "process_events"
    [] w \in {"bpf_process_events", "bpf_socket_events", "bpf_file_events"} ->
         "bpf_process_events"
    [] OTHER -> "win_process_events"

EventStatement(w) ==
  CASE w \in {"socket_events", "bpf_socket_events", "win_socket_events"} ->
         <<"get_socket_data_from_id", w>>
    [] w \in {"bpf_file_events", "win_file_events"} -> <<"get_file_data_from_id", w>>
    [] w = "user_events" -> <<"get_user_data_from_id", w>>
    [] OTHER -> <<"get_process_data_from_id", w>>

(* The shared-name statements of the builder of worker w, in the order it  *)
(* prepares them; get_*_process_tree has only names of its own.            *)
BuilderStatements(w) ==
  IF w \in ProcessTables THEN <<>>
  ELSE <<EventStatement(w), <<"get_process_data", ProcessTableOf(w)>>>>

(* Preparing statement s throws: the name is taken by another text.        *)
Conflicts(s, known) == \E k \in known : k[1] = s[1] /\ k[2] # s[2]

(* Mutant of Unprepare: the statements stay on the connection.             *)
UnprepareNothing(names, known) == known

Unprepare(names, known) == {k \in known : k[1] \notin names}

(* Mutant of Pending: the table name copied from another worker.           *)
PendingAnyTable(w) == {r \in Records : tree[r] = "none"}

(* The rows "where process_tree is null or process_tree = ''", cut to the  *)
(* limit: the first ones by id, or any when the select has no order.       *)
Pending(w) == {r \in Records : TableOf[r] = w /\ tree[r] = "none"}

Selects(w, rows) ==
  /\ rows \subseteq Pending(w)
  /\ \/ rows = Pending(w) /\ Cardinality(rows) <= BatchLimit
     \/ Cardinality(rows) = BatchLimit /\ rows # Pending(w)
  /\ w \notin Unordered => \A x \in rows, y \in Pending(w) \ rows : x < y

-----------------------------------------------------------------------------
Init ==
  /\ PoolInit
  /\ tree = [r \in Records |-> "absent"]
  /\ prepared = [c \in Conns |-> {}]
  /\ pc = [w \in Threads |-> "top"]
  /\ connection = [w \in Threads |-> 0]
  /\ conn = [w \in Threads |-> 0]
  /\ batch = [w \in Threads |-> {}]
  /\ record = [w \in Threads |-> NoRecord]
  /\ faults = 0
  /\ restarts = {}

(* The fleet server inserts a row, its process_tree null.                  *)
Insert(r) ==
  /\ tree[r] = "absent"
  /\ \A s \in Records : s < r => tree[s] # "absent"
  /\ tree' = [tree EXCEPT ![r] = "none"]
  /\ UNCHANGED <<poolVars, workerVars, faults, restarts>>

(* An exception no worker catches ends the process; docker starts it again.*)
Restart(why) ==
  /\ PoolRestart
  /\ prepared' = [c \in Conns |-> {}]
  /\ pc' = [w \in Threads |-> "top"]
  /\ connection' = [w \in Threads |-> 0]
  /\ conn' = [w \in Threads |-> 0]
  /\ batch' = [w \in Threads |-> {}]
  /\ record' = [w \in Threads |-> NoRecord]
  /\ restarts' = restarts \cup {why}
  /\ UNCHANGED tree

(* auto connection = pool->GetConnection();                                *)
GetFirst(w) ==
  /\ pc[w] = "top"
  /\ GetConnection(w)
  /\ connection' = [connection EXCEPT ![w] = Head(pool)]
  /\ pc' = [pc EXCEPT ![w] = "prepare"]
  /\ UNCHANGED <<tree, prepared, conn, batch, record, faults, restarts>>

(* prepare the two statements, run the select and commit.                  *)
SelectBatch(w) ==
  /\ pc[w] = "prepare"
  /\ ~ Conflicts(UpdateStatement(w), prepared[connection[w]])
  /\ prepared' = [prepared EXCEPT ![connection[w]] = @ \cup {UpdateStatement(w)}]
  /\ \E rows \in SUBSET Pending(w) :
       /\ Selects(w, rows)
       /\ batch' = [batch EXCEPT ![w] = rows]
  /\ pc' = [pc EXCEPT ![w] = "next"]
  /\ UNCHANGED <<poolVars, tree, connection, conn, record, faults, restarts>>

(* Of the rows at hand the worker takes the first in the select's order.   *)
IsNextRow(w, r) == r \in batch[w] /\ (w \in Unordered \/ \A s \in batch[w] : r <= s)

(* if (pid <= ppid), in the bpf process worker only: the row gets an empty *)
(* tree through one more statement, and break drops the rest of the batch. *)
SkipsBuilder(w, r) == w = "bpf_process_events" /\ r \in SelfParent

RejectStatement == <<"update_process_tree", "bpf_process_events">>

RejectRow(w) ==
  /\ pc[w] = "next"
  /\ ~ Conflicts(RejectStatement, prepared[connection[w]])
  /\ \E r \in batch[w] :
       /\ IsNextRow(w, r) /\ SkipsBuilder(w, r)
       /\ tree' = [tree EXCEPT ![r] = "empty"]
  /\ prepared' = [prepared EXCEPT ![connection[w]] = @ \cup {RejectStatement}]
  /\ batch' = [batch EXCEPT ![w] = {}]
  /\ UNCHANGED <<poolVars, pc, connection, conn, record, faults, restarts>>

(* The statement about to be prepared on the first connection.             *)
StatementAhead(w) ==
  {s \in {UpdateStatement(w)} : pc[w] = "prepare"} \cup
  {s \in {RejectStatement} :
     pc[w] = "next" /\ \E r \in batch[w] : IsNextRow(w, r) /\ SkipsBuilder(w, r)}

(* The connection has update_process_tree with another text already.       *)
PrepareThrows(w) ==
  /\ \E s \in StatementAhead(w) : Conflicts(s, prepared[connection[w]])
  /\ Restart("conflict")
  /\ UNCHANGED faults

(* auto conn = pool->GetConnection(), with the first connection in hand.   *)
GetSecond(w) ==
  /\ pc[w] = "next"
  /\ \E r \in batch[w] :
       /\ IsNextRow(w, r) /\ ~ SkipsBuilder(w, r)
       /\ GetConnection(w)
       /\ conn' = [conn EXCEPT ![w] = Head(pool)]
       /\ record' = [record EXCEPT ![w] = [id |-> r, result |-> "none"]]
  /\ pc' = [pc EXCEPT ![w] = "build"]
  /\ UNCHANGED <<tree, prepared, connection, batch, faults, restarts>>

(* Either of the two calls finds the queue empty.                          *)
Block(w) ==
  /\ \/ pc[w] = "top"
     \/ pc[w] = "next" /\ \E r \in batch[w] : IsNextRow(w, r) /\ ~ SkipsBuilder(w, r)
  /\ Wait(w)
  /\ UNCHANGED <<tree, workerVars, faults, restarts>>

(* Mutant of Build: a return before the statements are unprepared.         *)
BuildReturnsEarly(w) ==
  /\ pc[w] = "build"
  /\ \A i \in DOMAIN BuilderStatements(w) :
       ~ Conflicts(BuilderStatements(w)[i], prepared[conn[w]])
  /\ prepared' = [prepared EXCEPT
       ![conn[w]] = @ \cup {BuilderStatements(w)[i] : i \in DOMAIN BuilderStatements(w)}]
  /\ record' = [record EXCEPT ![w].result = "empty"]
  /\ pc' = [pc EXCEPT ![w] = "return"]
  /\ UNCHANGED <<poolVars, tree, connection, conn, batch, faults, restarts>>

(* The builder runs to its end and unprepares what it prepared.            *)
Build(w) ==
  LET c == conn[w]
      r == record[w].id
  IN
  /\ pc[w] = "build"
  /\ \A i \in DOMAIN BuilderStatements(w) : ~ Conflicts(BuilderStatements(w)[i], prepared[c])
  /\ prepared' = [prepared EXCEPT
       ![c] = Unprepare({BuilderStatements(w)[i][1] : i \in DOMAIN BuilderStatements(w)}, @)]
  /\ record' = [record EXCEPT ![w].result =
       IF w = "process_events" /\ r \in SelfParent THEN "empty" ELSE "built"]
  /\ pc' = [pc EXCEPT ![w] = "return"]
  /\ UNCHANGED <<poolVars, tree, connection, conn, batch, faults, restarts>>

(* The builder's catch block logs and falls off the end of a function that *)
(* must return a vector: the behaviour is undefined.  Seen from the worker *)
(* the result is whatever the return slot holds, or the process dies.      *)
UndefinedResult(w, leaked) ==
  \/ /\ prepared' = [prepared EXCEPT ![conn[w]] = @ \cup leaked]
     /\ record' = [record EXCEPT ![w].result = "garbage"]
     /\ pc' = [pc EXCEPT ![w] = "return"]
     /\ UNCHANGED <<poolVars, tree, connection, conn, batch, restarts>>
  \/ Restart("undefined")

(* A database error in the builder: both of its statements stay prepared.  *)
BuilderFails(w) ==
  /\ pc[w] = "build"
  /\ faults < MaxFaults
  /\ \A i \in DOMAIN BuilderStatements(w) : ~ Conflicts(BuilderStatements(w)[i], prepared[conn[w]])
  /\ faults' = faults + 1
  /\ UndefinedResult(w, {BuilderStatements(w)[i] : i \in DOMAIN BuilderStatements(w)})

(* The builder's own prepare throws: the statements before it stay.        *)
BuilderConflict(w) ==
  /\ pc[w] = "build"
  /\ \E i \in DOMAIN BuilderStatements(w) :
       /\ Conflicts(BuilderStatements(w)[i], prepared[conn[w]])
       /\ \A j \in 1..(i - 1) : ~ Conflicts(BuilderStatements(w)[j], prepared[conn[w]])
       /\ UndefinedResult(w, {BuilderStatements(w)[j] : j \in 1..(i - 1)})
  /\ UNCHANGED faults

(* pool->ReturnConnection(conn);                                           *)
ReturnSecond(w) ==
  /\ pc[w] = "return"
  /\ ReturnConnection(w, conn[w])
  /\ conn' = [conn EXCEPT ![w] = 0]
  /\ pc' = [pc EXCEPT ![w] = "update"]
  /\ UNCHANGED <<tree, prepared, connection, batch, record, faults, restarts>>

(* exec_prepared(update statement, tree, id); the transaction is committed *)
(* already, so the update takes effect at once.                            *)
Update(w) ==
  /\ pc[w] = "update"
  /\ mode[w] = "out"
  /\ tree' = [tree EXCEPT ![record[w].id] = record[w].result]
  /\ batch' = [batch EXCEPT ![w] = @ \ {record[w].id}]
  /\ record' = [record EXCEPT ![w] = NoRecord]
  /\ pc' = [pc EXCEPT ![w] = "next"]
  /\ UNCHANGED <<poolVars, prepared, connection, conn, faults, restarts>>

(* Mutant of Finish: the connection is not given back.                     *)
FinishHolding(w) ==
  /\ pc[w] = "next"
  /\ batch[w] = {}
  /\ prepared' = [prepared EXCEPT ![connection[w]] = Unprepare({UpdateStatement(w)[1]}, @)]
  /\ connection' = [connection EXCEPT ![w] = 0]
  /\ pc' = [pc EXCEPT ![w] = "top"]
  /\ UNCHANGED <<poolVars, tree, conn, batch, record, faults, restarts>>

(* The batch is done: unprepare, ReturnConnection(connection).             *)
Finish(w) ==
  /\ pc[w] = "next"
  /\ batch[w] = {}
  /\ prepared' = [prepared EXCEPT ![connection[w]] = Unprepare({UpdateStatement(w)[1]}, @)]
  /\ ReturnConnection(w, connection[w])
  /\ connection' = [connection EXCEPT ![w] = 0]
  /\ pc' = [pc EXCEPT ![w] = "top"]
  /\ UNCHANGED <<tree, conn, batch, record, faults, restarts>>

(* A database error outside the builders: nothing catches it.              *)
WorkerFails(w) ==
  /\ pc[w] \in {"prepare", "update"} /\ mode[w] = "out"
  /\ faults < MaxFaults
  /\ faults' = faults + 1
  /\ Restart("fault")

Notify(w) == NotifyOne(w) /\ UNCHANGED <<tree, workerVars, faults, restarts>>

Wake(w) == SpuriousWakeup(w) /\ UNCHANGED <<tree, workerVars, faults, restarts>>

Step(w) ==
  \/ GetFirst(w) \/ SelectBatch(w) \/ PrepareThrows(w) \/ RejectRow(w) \/ GetSecond(w)
  \/ Block(w) \/ Build(w) \/ BuilderConflict(w) \/ ReturnSecond(w) \/ Update(w)
  \/ Finish(w) \/ Notify(w)

Next ==
  \/ \E r \in Records : Insert(r)
  \/ \E w \in Threads : Step(w) \/ BuilderFails(w) \/ WorkerFails(w) \/ Wake(w)

Spec == Init /\ [][Next]_vars

(* The scheduler runs every thread that can run; rows, database errors and *)
(* spurious wake-ups are promised to nobody.                               *)
Fairness == \A w \in Threads : WF_vars(Step(w))

FairSpec == Spec /\ Fairness

-----------------------------------------------------------------------------
(* The select result never goes stale: between the select and the moment a *)
(* row's turn comes nobody else gives the row a tree, so no row is handled *)
(* twice and a tree that was written is not overwritten.                   *)
BatchStaysPending ==
  \A w \in Threads : \A r \in batch[w] : TableOf[r] = w /\ tree[r] = "none"

(* The process ends on a statement-name conflict only if a bpf process row *)
(* with pid <= parent was seen: the process, socket or user worker then    *)
(* met the connection the bpf worker had used.                             *)
ConflictNeedsSelfParent ==
  "conflict" \in restarts =>
     \E r \in SelfParent : TableOf[r] = "bpf_process_events" /\ tree[r] = "empty"

(* A garbage tree, or death by undefined behaviour, needs a database error *)
(* in some builder - not necessarily in the one that suffers from it, for  *)
(* the first error leaves statements that other builders trip over.        *)
GarbageNeedsFault ==
  ("undefined" \in restarts \/ \E r \in Records : tree[r] = "garbage") => faults > 0

(* Every row inserted gets its tree, whatever conflicts end the process in *)
(* between, if the pool has one connection more than there are workers.    *)
EveryRowSettled == \A r \in Records : tree[r] = "none" ~> Settled(r)
=============================================================================
