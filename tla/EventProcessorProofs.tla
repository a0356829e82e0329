------------------------ MODULE EventProcessorProofs ------------------------
(***************************************************************************)
(* Proofs about EventProcessor for any rows, any of the nine workers and   *)
(* any pool.  The workers keep to the protocol of the pool, and from what  *)
(* is proved of the pool - no connection is in two hands - follows what    *)
(* their prepared statements can and cannot run into.                      *)
(***************************************************************************)
EXTENDS EventProcessor, ConnectionPoolProofs

Sharing == {"process_events", "socket_events", "user_events"}

BuilderNames == {"get_process_data_from_id", "get_socket_data_from_id",
                 "get_file_data_from_id", "get_user_data_from_id", "get_process_data"}

WorkerTypeOK ==
  /\ tree \in [Records -> {"absent", "none"} \cup Results]
  /\ DOMAIN prepared = Conns
  /\ pc \in [Threads -> {"top", "prepare", "next", "build", "return", "update"}]
  /\ connection \in [Threads -> Conns \cup {0}]
  /\ conn \in [Threads -> Conns \cup {0}]
  /\ batch \in [Threads -> SUBSET Records]
  /\ record \in [Threads -> [id : Records \cup {0}, result : Results \cup {"none"}]]
  /\ faults \in Nat

(* What a worker holds of the pool is what its two variables point to.     *)
HandsOK ==
  \A w \in Threads :
    /\ connection[w] = 0 <=> pc[w] = "top"
    /\ conn[w] # 0 <=> pc[w] \in {"build", "return"}
    /\ pc[w] # "top" => conn[w] # connection[w]
    /\ held[w] = {connection[w], conn[w]} \ {0}

(* The rows a worker has selected are its own and still without a tree; so *)
(* is the one its builder is at work for.                                  *)
RowsOK ==
  /\ BatchStaysPending
  /\ \A w \in Threads : pc[w] \in {"build", "return", "update"} => record[w].id \in batch[w]

Rejected == \E r \in SelfParent : TableOf[r] = "bpf_process_events" /\ tree[r] = "empty"

(* Where the statements of the name that has several texts can be: on the  *)
(* connection the worker with that text has in hand, except that the bpf   *)
(* process worker leaves its own behind when it has rejected a row.        *)
SharedNameOK ==
  \A c \in Conns : \A k \in prepared[c] :
    \/ k[1] = "update_process_tree" /\ k[2] \in Sharing \cap Threads /\ connection[k[2]] = c
    \/ k = RejectStatement /\ Rejected
    \/ \E w \in Tables \ Sharing : k = UpdateStatement(w)
    \/ k[1] \in BuilderNames /\ faults > 0

ConflictOK == "conflict" \in restarts => Rejected

(* Without a database error no builder returns anything undefined.         *)
ResultsOK ==
  faults = 0 =>
    /\ "undefined" \notin restarts
    /\ \A r \in Records : tree[r] # "garbage"
    /\ \A w \in Threads : record[w].result # "garbage"

WorkersIInv ==
  /\ WorkerTypeOK /\ PoolIInv /\ HandsOK /\ RowsOK /\ SharedNameOK /\ ConflictOK /\ ResultsOK

-----------------------------------------------------------------------------
(* The names: only the three sharing workers update through the shared     *)
(* name, the texts of all other update names are unique, and the builders  *)
(* use other names (the worker loops of event_processor).                  *)
LEMMA UpdateNames ==
  ASSUME NEW w \in Tables
  PROVE  /\ UpdateStatement(w)[2] = w
         /\ w \in Sharing <=> UpdateStatement(w)[1] = "update_process_tree"
         /\ UpdateStatement(w)[1] \notin BuilderNames
         /\ w \in Sharing => UpdateStatement(w) = <<"update_process_tree", w>>
BY DEF Tables, Sharing, UpdateStatement, BuilderNames

LEMMA UpdateNamesUnique ==
  ASSUME NEW v \in Tables \ Sharing, NEW w \in Tables,
         UpdateStatement(v)[1] = UpdateStatement(w)[1]
  PROVE  v = w
BY DEF Tables, Sharing, UpdateStatement

LEMMA BuilderNamesOnly ==
  ASSUME NEW w \in Tables, NEW i \in DOMAIN BuilderStatements(w)
  PROVE  BuilderStatements(w)[i][1] \in BuilderNames
<1>1. CASE w \in ProcessTables
  BY <1>1 DEF BuilderStatements
<1>2. CASE w \notin ProcessTables
  <2>1. EventStatement(w)[1] \in BuilderNames
    BY DEF EventStatement, BuilderNames
  <2>2. QED
    BY <1>2, <2>1 DEF BuilderStatements, BuilderNames
<1>3. QED
  BY <1>1, <1>2

LEMMA WorkersAreTables == Threads \subseteq Tables
BY EventProcessorAssumption

-----------------------------------------------------------------------------
LEMMA WorkersInit == Init => WorkersIInv
<1> SUFFICES ASSUME Init PROVE WorkersIInv
  OBVIOUS
<1>1. PoolIInv
  BY PoolInitInv DEF Init
<1>2. WorkerTypeOK
  BY DEF Init, WorkerTypeOK, NoRecord
<1>3. HandsOK
  BY DEF Init, PoolInit, HandsOK
<1>4. RowsOK
  BY DEF Init, RowsOK, BatchStaysPending
<1>5. SharedNameOK /\ ConflictOK
  BY DEF Init, SharedNameOK, ConflictOK
<1>6. ResultsOK
  BY DEF Init, ResultsOK, NoRecord
<1>7. QED
  BY <1>1, <1>2, <1>3, <1>4, <1>5, <1>6 DEF WorkersIInv

(* A restart leaves the rows alone and everything else as at the start; it *)
(* must only have a reason to be recorded.                                 *)
LEMMA RestartInv ==
  ASSUME WorkersIInv, NEW why, Restart(why), faults' \in Nat, faults' >= faults,
         why = "conflict" => Rejected, why = "undefined" => faults' > 0
  PROVE  WorkersIInv'
<1> USE DEF Restart
<1>0. 0 \notin Conns
  BY DEF Conns
<1>1. PoolIInv'
  BY PoolRestartInv
<1>2. WorkerTypeOK'
  BY DEF WorkersIInv, WorkerTypeOK, NoRecord
<1>3. HandsOK'
  BY DEF PoolRestart, HandsOK
<1>4. RowsOK'
  BY DEF RowsOK, BatchStaysPending
<1>5. SharedNameOK'
  BY DEF SharedNameOK
<1>6. ConflictOK'
  BY DEF WorkersIInv, ConflictOK, Rejected
<1>7. ResultsOK'
  BY DEF WorkersIInv, WorkerTypeOK, ResultsOK, NoRecord
<1>8. QED
  BY <1>1, <1>2, <1>3, <1>4, <1>5, <1>6, <1>7 DEF WorkersIInv

(* A worker that may call GetConnection holds at most its first connection.*)
LEMMA FewHeld ==
  ASSUME HandsOK, NEW w \in Threads, pc[w] \in {"top", "next"}
  PROVE  AtMostOne(held[w])
BY DEF HandsOK, AtMostOne

(* Every step of a worker is a step the pool allows its clients, or none.  *)
LEMMA PoolMoves ==
  ASSUME WorkersIInv, [Next]_vars
  PROVE  [PoolNext]_poolVars
<1> USE DEF WorkersIInv
<1>1. ASSUME NEW why, Restart(why) PROVE PoolNext
  BY <1>1 DEF Restart, PoolNext
<1>2. CASE \E r \in Records : Insert(r)
  BY <1>2 DEF Insert
<1>3. ASSUME NEW w \in Threads, GetFirst(w) PROVE PoolNext
  BY <1>3, FewHeld DEF GetFirst, PoolNext
<1>4. ASSUME NEW w \in Threads, GetSecond(w) PROVE PoolNext
  BY <1>4, FewHeld DEF GetSecond, PoolNext
<1>5. ASSUME NEW w \in Threads, Block(w) PROVE PoolNext
  BY <1>5, FewHeld DEF Block, PoolNext
<1>6. ASSUME NEW w \in Threads, ReturnSecond(w) PROVE PoolNext
  <2>1. conn[w] \in Conns
    BY <1>6 DEF ReturnSecond, HandsOK, WorkerTypeOK
  <2>2. QED
    BY <1>6, <2>1 DEF ReturnSecond, PoolNext
<1>7. ASSUME NEW w \in Threads, Finish(w) PROVE PoolNext
  <2>1. connection[w] \in Conns
    BY <1>7 DEF Finish, HandsOK, WorkerTypeOK
  <2>2. QED
    BY <1>7, <2>1 DEF Finish, PoolNext
<1>8. ASSUME NEW w \in Threads, Notify(w) \/ Wake(w) PROVE PoolNext
  BY <1>8 DEF Notify, Wake, PoolNext
<1>9. ASSUME NEW w \in Threads, SelectBatch(w) \/ RejectRow(w) \/ Build(w) \/ Update(w)
      PROVE  UNCHANGED poolVars
  BY <1>9 DEF SelectBatch, RejectRow, Build, Update
<1>10. ASSUME NEW w \in Threads, BuilderFails(w) \/ BuilderConflict(w)
       PROVE  [PoolNext]_poolVars
  BY <1>10, <1>1 DEF BuilderFails, BuilderConflict, UndefinedResult
<1>11. ASSUME NEW w \in Threads, PrepareThrows(w) \/ WorkerFails(w) PROVE PoolNext
  BY <1>11, <1>1 DEF PrepareThrows, WorkerFails
<1>12. CASE UNCHANGED vars
  BY <1>12 DEF vars
<1>13. QED
  BY <1>2, <1>3, <1>4, <1>5, <1>6, <1>7, <1>8, <1>9, <1>10, <1>11, <1>12 DEF Next, Step

(* The monitor keeps its own invariant in every step of the workers.       *)
LEMMA PoolKept ==
  ASSUME WorkersIInv, [Next]_vars
  PROVE  PoolIInv'
BY PoolMoves, PoolStep DEF WorkersIInv

-----------------------------------------------------------------------------
LEMMA InsertInv ==
  ASSUME WorkersIInv, PoolIInv', NEW r \in Records, Insert(r)
  PROVE  WorkersIInv'
<1> USE DEF WorkersIInv, Insert, poolVars, workerVars
<1>1. WorkerTypeOK'
  BY DEF WorkerTypeOK
<1>2. HandsOK'
  BY DEF HandsOK
<1>3. RowsOK'
  BY DEF RowsOK, BatchStaysPending, WorkerTypeOK
<1>4. Rejected => Rejected'
  BY EventProcessorAssumption DEF Rejected, WorkerTypeOK
<1>5. SharedNameOK' /\ ConflictOK'
  BY <1>4 DEF SharedNameOK, ConflictOK
<1>6. ResultsOK'
  BY DEF ResultsOK, WorkerTypeOK
<1>7. QED
  BY <1>1, <1>2, <1>3, <1>5, <1>6

(* The steps inside the monitor that no worker variable takes part in.     *)
LEMMA MonitorInv ==
  ASSUME WorkersIInv, PoolIInv', NEW w \in Threads, Block(w) \/ Notify(w) \/ Wake(w)
  PROVE  WorkersIInv'
<1>1. UNCHANGED <<held, tree, workerVars, faults, restarts>>
  BY DEF Block, Notify, Wake, Wait, NotifyOne, SpuriousWakeup
<1>2. QED
  BY <1>1 DEF WorkersIInv, workerVars, WorkerTypeOK, HandsOK, RowsOK, BatchStaysPending,
              SharedNameOK, ConflictOK, ResultsOK, Rejected

LEMMA HeadFree ==
  ASSUME WorkersIInv, NEW w \in Threads, GetConnection(w)
  PROVE  /\ Head(pool) \in Conns
         /\ \A u \in Threads : Head(pool) \notin held[u]
<1>1. pool \in Seq(Conns) /\ pool # <<>> /\ Distinct(pool)
  BY DEF WorkersIInv, PoolIInv, PoolTypeOK, GetConnection, Conservation, Distinct
<1>2. Head(pool) \in Pooled /\ Head(pool) \in Conns
  BY <1>1, TailRange, HeadTailProperties DEF Pooled, RangeOf
<1>3. QED
  BY <1>2 DEF WorkersIInv, PoolIInv, Conservation

LEMMA GetFirstInv ==
  ASSUME WorkersIInv, PoolIInv', NEW w \in Threads, GetFirst(w)
  PROVE  WorkersIInv'
<1>1. /\ Head(pool) \in Conns /\ 0 \notin Conns
      /\ held' = [held EXCEPT ![w] = @ \cup {Head(pool)}]
  <2>1. GetConnection(w)
    BY DEF GetFirst
  <2>2. Head(pool) \in Conns
    BY <2>1, HeadFree
  <2>3. QED
    BY <2>1, <2>2 DEF GetConnection, Conns
<1> USE DEF WorkersIInv, GetFirst
<1>2. held \in [Threads -> SUBSET Conns]
  BY DEF PoolIInv, PoolTypeOK
<1>3. WorkerTypeOK'
  BY <1>1 DEF WorkerTypeOK
<1>4. HandsOK'
  BY <1>1, <1>2 DEF HandsOK, WorkerTypeOK
<1>5. RowsOK'
  BY DEF RowsOK, BatchStaysPending, WorkerTypeOK
<1>6. SharedNameOK'
  <2> SUFFICES ASSUME NEW c \in Conns, NEW k \in prepared[c],
                      k[2] \in Threads, connection[k[2]] = c
               PROVE  connection'[k[2]] = c
    BY DEF SharedNameOK, Rejected
  <2>1. k[2] # w
    BY <1>1 DEF HandsOK
  <2>2. QED
    BY <2>1 DEF WorkerTypeOK
<1>7. ConflictOK' /\ ResultsOK'
  BY DEF ConflictOK, ResultsOK, Rejected
<1>8. QED
  BY <1>3, <1>4, <1>5, <1>6, <1>7

LEMMA GetSecondInv ==
  ASSUME WorkersIInv, PoolIInv', NEW w \in Threads, GetSecond(w)
  PROVE  WorkersIInv'
<1>1. PICK r \in batch[w] : /\ GetConnection(w)
                            /\ conn' = [conn EXCEPT ![w] = Head(pool)]
                            /\ record' = [record EXCEPT ![w] = [id |-> r, result |-> "none"]]
  BY DEF GetSecond
<1>3. /\ Head(pool) \in Conns /\ 0 \notin Conns /\ Head(pool) \notin held[w]
      /\ held' = [held EXCEPT ![w] = @ \cup {Head(pool)}]
  <2>1. Head(pool) \in Conns /\ Head(pool) \notin held[w]
    BY <1>1, HeadFree
  <2>2. QED
    BY <1>1, <2>1 DEF GetConnection, Conns
<1> USE DEF WorkersIInv
<1>2. /\ pc[w] = "next" /\ pc' = [pc EXCEPT ![w] = "build"] /\ r \in Records
      /\ UNCHANGED <<tree, prepared, connection, batch, faults, restarts>>
  BY DEF GetSecond, WorkerTypeOK
<1>10. held \in [Threads -> SUBSET Conns]
  BY DEF PoolIInv, PoolTypeOK
<1>4. WorkerTypeOK'
  BY <1>1, <1>2, <1>3 DEF WorkerTypeOK
<1>5. HandsOK'
  <2>1. connection[w] \in held[w] /\ conn[w] = 0 /\ held[w] = {connection[w]}
    BY <1>2, <1>3 DEF HandsOK, WorkerTypeOK
  <2>2. QED
    BY <1>1, <1>2, <1>3, <1>10, <2>1 DEF HandsOK, WorkerTypeOK
<1>6. RowsOK'
  BY <1>1, <1>2 DEF RowsOK, BatchStaysPending, WorkerTypeOK
<1>7. SharedNameOK' /\ ConflictOK'
  BY <1>2 DEF SharedNameOK, ConflictOK, Rejected
<1>8. ResultsOK'
  BY <1>1, <1>2 DEF ResultsOK, WorkerTypeOK
<1>9. QED
  BY <1>4, <1>5, <1>6, <1>7, <1>8

LEMMA SelectBatchInv ==
  ASSUME WorkersIInv, PoolIInv', NEW w \in Threads, SelectBatch(w)
  PROVE  WorkersIInv'
<1> USE DEF WorkersIInv
<1>1. PICK rows \in SUBSET Pending(w) : batch' = [batch EXCEPT ![w] = rows]
  BY DEF SelectBatch
<1>2. /\ pc[w] = "prepare" /\ pc' = [pc EXCEPT ![w] = "next"]
      /\ prepared' = [prepared EXCEPT ![connection[w]] = @ \cup {UpdateStatement(w)}]
      /\ UNCHANGED <<opened, pool, held, mode, tree, connection, conn, record, faults, restarts>>
  BY DEF SelectBatch, poolVars
<1>3. connection[w] \in Conns
  BY <1>2 DEF HandsOK, WorkerTypeOK
<1>4. WorkerTypeOK'
  BY <1>1, <1>2 DEF WorkerTypeOK, Pending
<1>5. HandsOK'
  BY <1>2 DEF HandsOK, WorkerTypeOK
<1>6. RowsOK'
  BY <1>1, <1>2 DEF RowsOK, BatchStaysPending, WorkerTypeOK, Pending
<1>7. SharedNameOK'
  <2> SUFFICES ASSUME NEW c \in Conns, NEW k \in prepared'[c]
               PROVE  \/ /\ k[1] = "update_process_tree" /\ k[2] \in Sharing \cap Threads
                         /\ connection[k[2]] = c
                      \/ k = RejectStatement /\ Rejected
                      \/ \E v \in Tables \ Sharing : k = UpdateStatement(v)
                      \/ k[1] \in BuilderNames /\ faults > 0
    BY <1>2 DEF SharedNameOK, Rejected
  <2>1. CASE k \in prepared[c]
    BY <2>1 DEF SharedNameOK
  <2>2. CASE k = UpdateStatement(w) /\ c = connection[w]
    <3>1. w \in Tables
      BY WorkersAreTables
    <3>2. QED
      BY <2>2, <3>1, UpdateNames
  <2>3. QED
    BY <1>2, <1>3, <2>1, <2>2 DEF WorkerTypeOK
<1>8. ConflictOK' /\ ResultsOK'
  BY <1>2 DEF ConflictOK, ResultsOK, Rejected, WorkerTypeOK
<1>9. QED
  BY <1>4, <1>5, <1>6, <1>7, <1>8

LEMMA RejectRowInv ==
  ASSUME WorkersIInv, PoolIInv', NEW w \in Threads, RejectRow(w)
  PROVE  WorkersIInv'
<1> USE DEF WorkersIInv
<1>1. PICK r \in batch[w] : SkipsBuilder(w, r) /\ tree' = [tree EXCEPT ![r] = "empty"]
  BY DEF RejectRow
<1>2. /\ pc[w] = "next" /\ batch' = [batch EXCEPT ![w] = {}]
      /\ prepared' = [prepared EXCEPT ![connection[w]] = @ \cup {RejectStatement}]
      /\ UNCHANGED <<held, pc, connection, conn, record, faults, restarts>>
  BY DEF RejectRow, poolVars
<1>3. /\ connection[w] \in Conns /\ r \in Records /\ r \in SelfParent
      /\ w = "bpf_process_events" /\ TableOf[r] = w
  BY <1>1, <1>2 DEF HandsOK, WorkerTypeOK, SkipsBuilder, RowsOK, BatchStaysPending
<1>4. WorkerTypeOK'
  BY <1>1, <1>2, <1>3 DEF WorkerTypeOK, Results
<1>5. HandsOK'
  BY <1>2 DEF HandsOK
<1>6. RowsOK'
  BY <1>1, <1>2, <1>3 DEF RowsOK, BatchStaysPending, WorkerTypeOK
<1>7. Rejected'
  BY <1>1, <1>3 DEF Rejected, WorkerTypeOK
<1>8. SharedNameOK'
  BY <1>2, <1>3, <1>7 DEF SharedNameOK, WorkerTypeOK
<1>9. ConflictOK' /\ ResultsOK'
  BY <1>1, <1>2, <1>3, <1>7 DEF ConflictOK, ResultsOK, WorkerTypeOK
<1>10. QED
  BY <1>4, <1>5, <1>6, <1>8, <1>9

(* A builder that has run to its end leaves at most what it found.         *)
LEMMA BuildInv ==
  ASSUME WorkersIInv, PoolIInv', NEW w \in Threads, Build(w)
  PROVE  WorkersIInv'
<1> USE DEF WorkersIInv
<1>1. PICK res \in {"empty", "built"} : record' = [record EXCEPT ![w].result = res]
  BY DEF Build
<1>2. /\ pc[w] = "build" /\ pc' = [pc EXCEPT ![w] = "return"]
      /\ DOMAIN prepared' = DOMAIN prepared
      /\ \A c \in Conns : prepared'[c] \subseteq prepared[c]
      /\ UNCHANGED <<held, tree, connection, conn, batch, faults, restarts>>
  BY DEF Build, poolVars, Unprepare, WorkerTypeOK
<1>3. WorkerTypeOK'
  BY <1>1, <1>2 DEF WorkerTypeOK, Results
<1>4. HandsOK'
  BY <1>2 DEF HandsOK, WorkerTypeOK
<1>5. RowsOK'
  BY <1>1, <1>2 DEF RowsOK, BatchStaysPending, WorkerTypeOK
<1>6. SharedNameOK'
  BY <1>2 DEF SharedNameOK, Rejected, WorkerTypeOK
<1>7. ConflictOK' /\ ResultsOK'
  BY <1>1, <1>2 DEF ConflictOK, ResultsOK, Rejected, WorkerTypeOK
<1>8. QED
  BY <1>3, <1>4, <1>5, <1>6, <1>7

(* An undefined result after a database error, now or before.              *)
LEMMA UndefinedInv ==
  ASSUME WorkersIInv, PoolIInv', NEW w \in Threads, pc[w] = "build",
         NEW leaked, \A k \in leaked : k[1] \in BuilderNames,
         UndefinedResult(w, leaked), faults' \in Nat, faults' >= faults, faults' > 0
  PROVE  WorkersIInv'
<1>1. CASE Restart("undefined")
  BY <1>1, RestartInv
<1>2. CASE ~ Restart("undefined")
  <2> USE DEF WorkersIInv
  <2>1. /\ prepared' = [prepared EXCEPT ![conn[w]] = @ \cup leaked]
        /\ record' = [record EXCEPT ![w].result = "garbage"]
        /\ pc' = [pc EXCEPT ![w] = "return"]
        /\ UNCHANGED <<held, tree, connection, conn, batch, restarts>>
    BY <1>2 DEF UndefinedResult, poolVars
  <2>2. WorkerTypeOK'
    BY <2>1 DEF WorkerTypeOK, Results
  <2>3. HandsOK'
    BY <2>1 DEF HandsOK, WorkerTypeOK
  <2>4. RowsOK'
    BY <2>1 DEF RowsOK, BatchStaysPending, WorkerTypeOK
  <2>5. SharedNameOK'
    <3> SUFFICES ASSUME NEW c \in Conns, NEW k \in prepared'[c]
                 PROVE  \/ /\ k[1] = "update_process_tree" /\ k[2] \in Sharing \cap Threads
                           /\ connection[k[2]] = c
                        \/ k = RejectStatement /\ Rejected
                        \/ \E v \in Tables \ Sharing : k = UpdateStatement(v)
                        \/ k[1] \in BuilderNames /\ faults' > 0
      BY <2>1 DEF SharedNameOK, Rejected
    <3>1. k \in prepared[c] \/ k \in leaked
      BY <2>1 DEF WorkerTypeOK
    <3>2. QED
      BY <3>1 DEF SharedNameOK
  <2>6. ConflictOK' /\ ResultsOK'
    BY <2>1 DEF ConflictOK, ResultsOK, Rejected
  <2>7. QED
    BY <2>2, <2>3, <2>4, <2>5, <2>6
<1>3. QED
  BY <1>1, <1>2

LEMMA BuilderFailsInv ==
  ASSUME WorkersIInv, PoolIInv', NEW w \in Threads, BuilderFails(w)
  PROVE  WorkersIInv'
<1> DEFINE leaked == {BuilderStatements(w)[i] : i \in DOMAIN BuilderStatements(w)}
<1>1. \A k \in leaked : k[1] \in BuilderNames
  BY BuilderNamesOnly, WorkersAreTables
<1>2. pc[w] = "build" /\ UndefinedResult(w, leaked) /\ faults' = faults + 1 /\ faults \in Nat
  BY DEF BuilderFails, WorkersIInv, WorkerTypeOK
<1> HIDE DEF leaked
<1>3. QED
  BY <1>1, <1>2, UndefinedInv

(* A builder's own statement is in the way only after a database error.    *)
LEMMA BuilderConflictInv ==
  ASSUME WorkersIInv, PoolIInv', NEW w \in Threads, BuilderConflict(w)
  PROVE  WorkersIInv'
<1>1. PICK i \in DOMAIN BuilderStatements(w) :
        /\ Conflicts(BuilderStatements(w)[i], prepared[conn[w]])
        /\ UndefinedResult(w, {BuilderStatements(w)[j] : j \in 1..(i - 1)})
  BY DEF BuilderConflict
<1>2. pc[w] = "build" /\ faults' = faults /\ faults \in Nat /\ conn[w] \in Conns
  BY DEF BuilderConflict, WorkersIInv, WorkerTypeOK, HandsOK
<1>3. BuilderStatements(w)[i][1] \in BuilderNames
  BY BuilderNamesOnly, WorkersAreTables
<1>4. PICK k \in prepared[conn[w]] : k[1] \in BuilderNames
  BY <1>1, <1>3 DEF Conflicts
<1>5. faults > 0
  <2>1. \A v \in Tables : k # UpdateStatement(v)
    BY <1>4, UpdateNames
  <2>2. k[1] # "update_process_tree" /\ k # RejectStatement
    BY <1>4 DEF BuilderNames, RejectStatement
  <2>3. QED
    BY <1>2, <2>1, <2>2 DEF WorkersIInv, SharedNameOK
<1> DEFINE leaked == {BuilderStatements(w)[j] : j \in 1..(i - 1)}
<1>6. \A s \in leaked : s[1] \in BuilderNames
  <2>1. \A j \in 1..(i - 1) : j \in DOMAIN BuilderStatements(w)
    BY DEF BuilderStatements
  <2>2. QED
    BY <2>1, BuilderNamesOnly, WorkersAreTables
<1>7. UndefinedResult(w, leaked)
  BY <1>1
<1> HIDE DEF leaked
<1>8. QED
  BY <1>2, <1>5, <1>6, <1>7, UndefinedInv

LEMMA ReturnSecondInv ==
  ASSUME WorkersIInv, PoolIInv', NEW w \in Threads, ReturnSecond(w)
  PROVE  WorkersIInv'
<1> USE DEF WorkersIInv
<1>1. /\ pc[w] = "return" /\ pc' = [pc EXCEPT ![w] = "update"]
      /\ conn' = [conn EXCEPT ![w] = 0]
      /\ held' = [held EXCEPT ![w] = @ \ {conn[w]}]
      /\ held \in [Threads -> SUBSET Conns] /\ 0 \notin Conns
      /\ UNCHANGED <<tree, prepared, connection, batch, record, faults, restarts>>
  BY DEF ReturnSecond, ReturnConnection, PoolIInv, PoolTypeOK, Conns
<1>2. WorkerTypeOK'
  BY <1>1 DEF WorkerTypeOK
<1>3. HandsOK'
  <2>1. held'[w] = {connection[w]} /\ connection[w] # 0
    BY <1>1 DEF HandsOK
  <2>2. QED
    BY <1>1, <2>1 DEF HandsOK, WorkerTypeOK
<1>4. RowsOK'
  BY <1>1 DEF RowsOK, BatchStaysPending, WorkerTypeOK
<1>5. SharedNameOK' /\ ConflictOK' /\ ResultsOK'
  BY <1>1 DEF SharedNameOK, ConflictOK, ResultsOK, Rejected
<1>6. QED
  BY <1>2, <1>3, <1>4, <1>5

LEMMA UpdateInv ==
  ASSUME WorkersIInv, PoolIInv', NEW w \in Threads, Update(w)
  PROVE  WorkersIInv'
<1> USE DEF WorkersIInv
<1> DEFINE r == record[w].id
<1>1. /\ pc[w] = "update" /\ pc' = [pc EXCEPT ![w] = "next"]
      /\ tree' = [tree EXCEPT ![r] = record[w].result]
      /\ batch' = [batch EXCEPT ![w] = @ \ {r}]
      /\ record' = [record EXCEPT ![w] = NoRecord]
      /\ UNCHANGED <<held, prepared, connection, conn, faults, restarts>>
  BY DEF Update, poolVars
<1>2. /\ r \in batch[w] /\ r \in Records /\ TableOf[r] = w /\ tree[r] = "none"
      /\ record[w].result \in Results \cup {"none"}
  BY <1>1 DEF RowsOK, BatchStaysPending, WorkerTypeOK
<1> HIDE DEF r
<1>3. WorkerTypeOK'
  BY <1>1, <1>2 DEF WorkerTypeOK, NoRecord
<1>4. HandsOK'
  BY <1>1 DEF HandsOK, WorkerTypeOK
<1>5. RowsOK'
  BY <1>1, <1>2 DEF RowsOK, BatchStaysPending, WorkerTypeOK
<1>6. Rejected => Rejected'
  BY <1>1, <1>2, EventProcessorAssumption DEF Rejected, WorkerTypeOK
<1>7. SharedNameOK' /\ ConflictOK'
  BY <1>1, <1>6 DEF SharedNameOK, ConflictOK
<1>8. ResultsOK'
  BY <1>1, <1>2 DEF ResultsOK, WorkerTypeOK, NoRecord
<1>9. QED
  BY <1>3, <1>4, <1>5, <1>7, <1>8

(* The worker takes its shared-name statement off before it lets go of the *)
(* connection.                                                             *)
LEMMA FinishInv ==
  ASSUME WorkersIInv, PoolIInv', NEW w \in Threads, Finish(w)
  PROVE  WorkersIInv'
<1> USE DEF WorkersIInv
<1>1. /\ pc[w] = "next" /\ pc' = [pc EXCEPT ![w] = "top"]
      /\ prepared' = [prepared EXCEPT
           ![connection[w]] = Unprepare({UpdateStatement(w)[1]}, @)]
      /\ connection' = [connection EXCEPT ![w] = 0]
      /\ held' = [held EXCEPT ![w] = @ \ {connection[w]}]
      /\ held \in [Threads -> SUBSET Conns] /\ 0 \notin Conns
      /\ UNCHANGED <<tree, conn, batch, record, faults, restarts>>
  BY DEF Finish, ReturnConnection, PoolIInv, PoolTypeOK, Conns
<1>2. WorkerTypeOK'
  BY <1>1 DEF WorkerTypeOK
<1>3. HandsOK'
  <2>1. held'[w] = {} /\ conn[w] = 0
    BY <1>1 DEF HandsOK
  <2>2. QED
    BY <1>1, <2>1 DEF HandsOK, WorkerTypeOK
<1>4. RowsOK'
  BY <1>1 DEF RowsOK, BatchStaysPending, WorkerTypeOK
<1>5. SharedNameOK'
  <2> SUFFICES ASSUME NEW c \in Conns, NEW k \in prepared'[c],
                      k[1] = "update_process_tree", k[2] \in Sharing \cap Threads,
                      connection[k[2]] = c
               PROVE  connection'[k[2]] = c
    BY <1>1 DEF SharedNameOK, Rejected, Unprepare, WorkerTypeOK
  <2>1. k[2] # w
    <3> SUFFICES ASSUME k[2] = w PROVE FALSE
      OBVIOUS
    <3>1. UpdateStatement(w)[1] = "update_process_tree"
      BY UpdateNames, WorkersAreTables
    <3>2. QED
      BY <1>1, <3>1 DEF Unprepare, WorkerTypeOK
  <2>2. QED
    BY <1>1, <2>1 DEF WorkerTypeOK
<1>6. ConflictOK' /\ ResultsOK'
  BY <1>1 DEF ConflictOK, ResultsOK, Rejected, WorkerTypeOK
<1>7. QED
  BY <1>2, <1>3, <1>4, <1>5, <1>6

(* What a worker is about to prepare meets another text of its name only   *)
(* if the bpf process worker has rejected a row: every other worker with   *)
(* that name has its statement on the connection in its own hand.          *)
LEMMA ConflictMeansRejected ==
  ASSUME WorkersIInv, NEW w \in Threads, NEW s \in StatementAhead(w),
         Conflicts(s, prepared[connection[w]])
  PROVE  Rejected
<1> USE DEF WorkersIInv
<1> DEFINE c == connection[w]
<1>1. PICK k \in prepared[c] : k[1] = s[1] /\ k[2] # s[2]
  BY DEF Conflicts
<1>2. pc[w] # "top" /\ c \in Conns
  BY DEF StatementAhead, HandsOK, WorkerTypeOK
<1>3. w \in Tables
  BY WorkersAreTables
<1>4. s = UpdateStatement(w) \/ (s = RejectStatement /\ w = "bpf_process_events")
  BY DEF StatementAhead, SkipsBuilder
<1>5. s[1] \notin BuilderNames
  BY <1>3, <1>4, UpdateNames DEF RejectStatement, BuilderNames
<1>6. ASSUME k[1] = "update_process_tree", k[2] \in Sharing \cap Threads, connection[k[2]] = c
      PROVE  FALSE
  <2>1. k[2] # w
    BY <1>1, <1>3, <1>4, <1>6, UpdateNames DEF Sharing
  <2>2. c \in held[w] /\ c \in held[k[2]]
    BY <1>2, <1>6 DEF HandsOK, Conns
  <2>3. held[w] \cap held[k[2]] = {}
    BY <1>6, <2>1 DEF PoolIInv, Conservation
  <2>4. QED
    BY <2>2, <2>3
<1>7. ASSUME NEW v \in Tables \ Sharing, k = UpdateStatement(v) PROVE FALSE
  <2>1. CASE s = UpdateStatement(w)
    BY <1>1, <1>3, <1>7, <2>1, UpdateNamesUnique
  <2>2. CASE s = RejectStatement
    BY <1>1, <1>7, <2>2, UpdateNames DEF RejectStatement
  <2>3. QED
    BY <1>4, <2>1, <2>2
<1>8. QED
  BY <1>1, <1>2, <1>5, <1>6, <1>7 DEF SharedNameOK

LEMMA PrepareThrowsInv ==
  ASSUME WorkersIInv, NEW w \in Threads, PrepareThrows(w)
  PROVE  WorkersIInv'
<1>1. Rejected
  BY ConflictMeansRejected DEF PrepareThrows
<1>2. Restart("conflict") /\ faults' = faults /\ faults \in Nat
  BY DEF PrepareThrows, WorkersIInv, WorkerTypeOK
<1>3. QED
  BY <1>1, <1>2, RestartInv

LEMMA WorkerFailsInv ==
  ASSUME WorkersIInv, NEW w \in Threads, WorkerFails(w)
  PROVE  WorkersIInv'
<1>1. Restart("fault") /\ faults' = faults + 1 /\ faults \in Nat
  BY DEF WorkerFails, WorkersIInv, WorkerTypeOK
<1>2. QED
  BY <1>1, RestartInv

LEMMA WorkersStep == WorkersIInv /\ [Next]_vars => WorkersIInv'
<1> SUFFICES ASSUME WorkersIInv, [Next]_vars PROVE WorkersIInv'
  OBVIOUS
<1>0. PoolIInv'
  BY PoolKept
<1>1. ASSUME NEW r \in Records, Insert(r) PROVE WorkersIInv'
  BY <1>0, <1>1, InsertInv
<1>2. ASSUME NEW w \in Threads, GetFirst(w) PROVE WorkersIInv'
  BY <1>0, <1>2, GetFirstInv
<1>3. ASSUME NEW w \in Threads, SelectBatch(w) PROVE WorkersIInv'
  BY <1>0, <1>3, SelectBatchInv
<1>4. ASSUME NEW w \in Threads, PrepareThrows(w) PROVE WorkersIInv'
  BY <1>4, PrepareThrowsInv
<1>5. ASSUME NEW w \in Threads, RejectRow(w) PROVE WorkersIInv'
  BY <1>0, <1>5, RejectRowInv
<1>6. ASSUME NEW w \in Threads, GetSecond(w) PROVE WorkersIInv'
  BY <1>0, <1>6, GetSecondInv
<1>7. ASSUME NEW w \in Threads, Block(w) \/ Notify(w) \/ Wake(w) PROVE WorkersIInv'
  BY <1>0, <1>7, MonitorInv
<1>8. ASSUME NEW w \in Threads, Build(w) PROVE WorkersIInv'
  BY <1>0, <1>8, BuildInv
<1>9. ASSUME NEW w \in Threads, BuilderFails(w) PROVE WorkersIInv'
  BY <1>0, <1>9, BuilderFailsInv
<1>10. ASSUME NEW w \in Threads, BuilderConflict(w) PROVE WorkersIInv'
  BY <1>0, <1>10, BuilderConflictInv
<1>11. ASSUME NEW w \in Threads, ReturnSecond(w) PROVE WorkersIInv'
  BY <1>0, <1>11, ReturnSecondInv
<1>12. ASSUME NEW w \in Threads, Update(w) PROVE WorkersIInv'
  BY <1>0, <1>12, UpdateInv
<1>13. ASSUME NEW w \in Threads, Finish(w) PROVE WorkersIInv'
  BY <1>0, <1>13, FinishInv
<1>14. ASSUME NEW w \in Threads, WorkerFails(w) PROVE WorkersIInv'
  BY <1>14, WorkerFailsInv
<1>15. CASE UNCHANGED vars
  BY <1>0, <1>15 DEF vars, poolVars, workerVars, WorkersIInv, WorkerTypeOK, HandsOK, RowsOK,
                     BatchStaysPending, SharedNameOK, ConflictOK, ResultsOK, Rejected
<1>16. QED
  BY <1>1, <1>2, <1>3, <1>4, <1>5, <1>6, <1>7, <1>8, <1>9, <1>10, <1>11, <1>12, <1>13,
     <1>14, <1>15 DEF Next, Step

-----------------------------------------------------------------------------
(* The workers use the pool as it is meant to be used: no third connection *)
(* for anybody, and only what was taken is given back.                     *)
THEOREM WorkersKeepPool == Spec => PoolSpec
<1>1. Init => PoolInit
  BY DEF Init
<1>2. WorkersIInv /\ [Next]_vars => [PoolNext]_poolVars
  BY PoolMoves
<1>3. QED
  BY <1>1, <1>2, WorkersInit, WorkersStep, PTL DEF Spec, PoolSpec

(* No row is given a tree by anybody else between the select that finds it *)
(* and the worker that handles it (the loops of event_processor).          *)
THEOREM BatchesNeverStale == Spec => []BatchStaysPending
<1>1. WorkersIInv => BatchStaysPending
  BY DEF WorkersIInv, RowsOK
<1>2. QED
  BY <1>1, WorkersInit, WorkersStep, PTL DEF Spec

(* A statement-name conflict ends the process only after a bpf process row *)
(* with pid <= parent (update_process_tree of the bpf process worker).     *)
THEOREM ConflictsExplained == Spec => []ConflictNeedsSelfParent
<1>1. WorkersIInv => ConflictNeedsSelfParent
  BY DEF WorkersIInv, ConflictOK, ConflictNeedsSelfParent, Rejected
<1>2. QED
  BY <1>1, WorkersInit, WorkersStep, PTL DEF Spec

(* An undefined result of a builder needs a database error, now or before  *)
(* (the catch blocks of the builders that return nothing).                 *)
THEOREM GarbageExplained == Spec => []GarbageNeedsFault
<1>1. WorkersIInv => GarbageNeedsFault
  BY DEF WorkersIInv, WorkerTypeOK, ResultsOK, GarbageNeedsFault
<1>2. QED
  BY <1>1, WorkersInit, WorkersStep, PTL DEF Spec

(* All workers asleep takes a pool without a connection to spare.          *)
THEOREM WorkersNeverStuck == Spec => []DeadlockNeedsShortage
BY WorkersKeepPool, NoDeadlockWithSpare, PTL
=============================================================================
