--------------------------- MODULE RuleEngineProofs ---------------------------
(***************************************************************************)
(* Proofs about RuleEngine for any rules, rows, threads and pool size.     *)
(* What has been done for a row is spread over three places: the mark in   *)
(* the database, the alerts in the database and the loop variables of its  *)
(* thread, of which a crash takes the last only.  IInv says how they hang  *)
(* together between any two steps.                                         *)
(***************************************************************************)
EXTENDS RuleEngine, TLAPS

(* A thread has a row in hand while it runs the rules, one of its own that *)
(* is not marked.                                                          *)
HandOK ==
  \A w \in Threads :
    /\ pc[w] = "rules" => /\ row[w] \in Rows \ processed
                          /\ WorkerOf[row[w]] = w /\ row[w] \notin batch[w]
    /\ pc[w] # "rules" => row[w] = 0

(* A select result never goes stale: nobody else marks its rows.           *)
BatchOK == \A w \in Threads : \A r \in batch[w] : r \notin processed /\ WorkerOf[r] = w

(* The rules that were run already and match have left an alert.           *)
ProgressOK ==
  \A w \in Threads : pc[w] = "rules" =>
    \A k \in MatchesOf(row[w]) : k < rule[w] => alerts[row[w]][k] > 0

(* Without an interruption every alert on a row comes from the one attempt *)
(* made so far, finished or under way.                                     *)
FreshOK ==
  \A r \in Rows : r \notin interrupted =>
    \A k \in Rules : /\ alerts[r][k] <= 1
                     /\ alerts[r][k] = 1 =>
                          r \in processed \/ \E w \in Threads : row[w] = r /\ k < rule[w]

(* Without a database error the insert statements that are left on the     *)
(* connections are those of the threads that met rows they cannot write.   *)
LeftByDump == {InsertStatement(WorkerOf[x]) : x \in {y \in interrupted : Unprintable(y)}}

(* Some thread that ends the process over it can meet one of them.         *)
Clash == \E s \in LeftByDump, w \in Threads \ Tolerant : Conflicts(InsertStatement(w), {s})

CleanOK ==
  faults = 0 => /\ "conflict" \in stops => Clash
                /\ \A c \in 1..PoolSize : leftover[c] \subseteq LeftByDump

IInv ==
  /\ TypeOK /\ HandOK /\ BatchOK /\ ProgressOK /\ FreshOK /\ CleanOK
  /\ ProcessedFullyAlerted

ctl == <<pc, batch, row, rule>>

-----------------------------------------------------------------------------
LEMMA NumRulesNat == NumRules \in Nat /\ Rules = 1..NumRules /\ 0 \notin Rows /\ Rows \subseteq Nat
BY RuleEngineAssumption DEF Rules

LEMMA InitInv == Init => IInv
<1> SUFFICES ASSUME Init PROVE IInv
  OBVIOUS
<1>1. PICK o \in MinOpened..PoolSize : free = 1..o
  BY DEF Init, LeaseInit
<1>2. free \subseteq 1..PoolSize
  BY <1>1, RuleEngineAssumption
<1>3. TypeOK
  BY <1>2, NumRulesNat, RuleEngineAssumption DEF Init, LeaseInit, TypeOK, Rules
<1>4. HandOK /\ BatchOK /\ ProgressOK /\ FreshOK /\ CleanOK /\ ProcessedFullyAlerted
  BY DEF Init, HandOK, BatchOK, ProgressOK, FreshOK, CleanOK, ProcessedFullyAlerted
<1>5. QED
  BY <1>3, <1>4 DEF IInv

(* A restart forgets the loop variables and keeps the database; the rows   *)
(* it takes out of the threads' hands become interrupted.                  *)
LEMMA RestartInv ==
  ASSUME IInv, NEW why \in {"throw", "conflict", "killed"}, Restart(why),
         faults' \in 0..MaxFaults, faults <= faults',
         why = "conflict" => faults' # 0 \/ Clash
  PROVE  IInv'
<1> USE DEF IInv
<1>1. PICK o \in MinOpened..PoolSize : free' = 1..o
  BY DEF Restart, LeaseRestart
<1>2. free' \subseteq 1..PoolSize
  BY <1>1, RuleEngineAssumption
<1>3. lent' = [t \in Threads |-> {}]
  BY DEF Restart, LeaseRestart
<1>4. TypeOK'
  <2>1. /\ leftover' \in [1..PoolSize -> SUBSET Statements]
        /\ pc' \in [Threads -> {"top", "select", "next", "rules"}]
        /\ batch' \in [Threads -> SUBSET Rows]
        /\ row' \in [Threads -> Rows \cup {0}]
        /\ rule' \in [Threads -> 1..(NumRules + 1)]
    BY NumRulesNat DEF Restart
  <2>2. interrupted' \subseteq Rows /\ stops' \subseteq {"throw", "conflict", "killed"}
    BY DEF Restart, TypeOK, InHand
  <2>3. QED
    BY <1>2, <1>3, <2>1, <2>2 DEF Restart, TypeOK, dbVars
<1>5. HandOK' /\ BatchOK' /\ ProgressOK'
  BY DEF Restart, HandOK, BatchOK, ProgressOK
<1>6. FreshOK'
  <2> SUFFICES ASSUME NEW r \in Rows, r \notin interrupted', NEW k \in Rules
               PROVE  alerts[r][k] <= 1 /\ (alerts[r][k] = 1 => r \in processed)
    BY DEF FreshOK, Restart, dbVars
  <2>1. r \notin interrupted /\ \A w \in Threads : row[w] # r
    BY DEF Restart, InHand
  <2>2. QED
    BY <2>1 DEF FreshOK
<1>7. CleanOK'
  <2>1. LeftByDump \subseteq LeftByDump'
    BY DEF Restart, LeftByDump
  <2>2. Clash => Clash'
    BY <2>1 DEF Clash
  <2>3. faults' = 0 => faults = 0
    BY RuleEngineAssumption DEF TypeOK
  <2>4. "conflict" \in stops' <=> "conflict" \in stops \/ why = "conflict"
    BY DEF Restart
  <2>5. \A c \in 1..PoolSize : leftover'[c] = {}
    BY DEF Restart
  <2>6. QED
    BY <2>2, <2>3, <2>4, <2>5 DEF CleanOK
<1>8. ProcessedFullyAlerted'
  BY DEF Restart, dbVars, ProcessedFullyAlerted
<1>9. QED
  BY <1>4, <1>5, <1>6, <1>7, <1>8

(* Going on with the next row after a caught exception.                    *)
LEMMA AbandonInv ==
  ASSUME IInv, NEW w \in Threads, pc[w] = "rules", Abandon(w),
         faults' \in 0..MaxFaults, faults <= faults',
         faults' = 0 => \A c \in 1..PoolSize : leftover'[c] \subseteq leftover[c] \cup LeftByDump',
         leftover' \in [1..PoolSize -> SUBSET Statements]
  PROVE  IInv'
<1> USE DEF IInv
<1>1. row[w] \in Rows
  BY DEF HandOK
<1>2. TypeOK'
  BY <1>1 DEF Abandon, TypeOK, leaseVars, dbVars
<1>3. HandOK'
  BY DEF Abandon, HandOK, TypeOK, dbVars
<1>4. BatchOK' /\ ProgressOK' /\ ProcessedFullyAlerted'
  BY DEF Abandon, BatchOK, ProgressOK, ProcessedFullyAlerted, TypeOK, dbVars
<1>5. FreshOK'
  <2> SUFFICES ASSUME NEW r \in Rows, r \notin interrupted', NEW k \in Rules
               PROVE  /\ alerts[r][k] <= 1
                      /\ alerts[r][k] = 1 =>
                           r \in processed \/ \E v \in Threads : row'[v] = r /\ k < rule[v]
    BY DEF FreshOK, Abandon, dbVars
  <2>1. r \notin interrupted /\ row[w] # r
    BY DEF Abandon
  <2>2. \A v \in Threads : row[v] = r => row'[v] = r
    BY <2>1 DEF Abandon, TypeOK
  <2>3. QED
    BY <2>1, <2>2 DEF FreshOK
<1>6. CleanOK'
  <2>1. LeftByDump \subseteq LeftByDump' /\ stops' = stops
    BY DEF Abandon, LeftByDump
  <2>2. Clash => Clash'
    BY <2>1 DEF Clash
  <2>3. faults' = 0 => faults = 0
    BY RuleEngineAssumption DEF TypeOK
  <2>4. QED
    BY <2>1, <2>2, <2>3 DEF CleanOK
<1>7. QED
  BY <1>2, <1>3, <1>4, <1>5, <1>6

(* A step that leaves no more behind and interrupts nothing.               *)
LEMMA StaysClean ==
  ASSUME CleanOK, UNCHANGED <<faults, interrupted, stops>>,
         \A c \in 1..PoolSize : leftover'[c] \subseteq leftover[c]
  PROVE  CleanOK'
<1>1. LeftByDump' = LeftByDump
  BY DEF LeftByDump
<1>2. Clash' <=> Clash
  BY <1>1 DEF Clash
<1>3. QED
  BY <1>1, <1>2 DEF CleanOK

LEMMA InsertStatementType ==
  ASSUME NEW w \in Threads
  PROVE  InsertStatement(w) \in Statements
BY RuleEngineAssumption DEF InsertStatement, Workers, Statements
-----------------------------------------------------------------------------
(* The steps of a thread that end nothing.                                 *)
LEMMA TakeGiveType ==
  ASSUME TypeOK, NEW w \in Threads, NEW c \in 1..PoolSize, Take(w, c) \/ Give(w, c)
  PROVE  free' \subseteq 1..PoolSize /\ lent' \in [Threads -> SUBSET (1..PoolSize)]
<1>1. lent[w] \cup {c} \in SUBSET (1..PoolSize) /\ lent[w] \ {c} \in SUBSET (1..PoolSize)
  BY DEF TypeOK
<1>2. CASE Take(w, c)
  <2>1. free' = free \ {c} /\ lent' = [lent EXCEPT ![w] = lent[w] \cup {c}]
    BY <1>2 DEF Take
  <2>2. QED
    BY <1>1, <2>1 DEF TypeOK
<1>3. CASE Give(w, c)
  <2>1. free' = free \cup {c} /\ lent' = [lent EXCEPT ![w] = lent[w] \ {c}]
    BY <1>3 DEF Give
  <2>2. QED
    BY <1>1, <2>1 DEF TypeOK
<1>4. QED
  BY <1>2, <1>3

LEMMA ArriveInv == ASSUME IInv, NEW r \in Rows, Arrive(r) PROVE IInv'
<1> USE DEF IInv
<1>1. TypeOK'
  BY DEF Arrive, leaseVars, TypeOK
<1>2. HandOK' /\ BatchOK' /\ ProgressOK'
  BY DEF Arrive, HandOK, BatchOK, ProgressOK
<1>3. FreshOK' /\ CleanOK' /\ ProcessedFullyAlerted'
  BY StaysClean DEF Arrive, FreshOK, ProcessedFullyAlerted
<1>4. QED
  BY <1>1, <1>2, <1>3

LEMMA GetConnectionInv == ASSUME IInv, NEW w \in Threads, GetConnection(w) PROVE IInv'
<1> USE DEF IInv
<1>1. PICK c \in 1..PoolSize : Take(w, c)
  BY DEF GetConnection
<1>2. TypeOK'
  BY <1>1, TakeGiveType DEF GetConnection, TypeOK, dbVars
<1>3. HandOK' /\ BatchOK' /\ ProgressOK' /\ FreshOK' /\ CleanOK' /\ ProcessedFullyAlerted'
  BY StaysClean DEF GetConnection, TypeOK, HandOK, BatchOK, ProgressOK, FreshOK,
                    ProcessedFullyAlerted, dbVars
<1>4. QED
  BY <1>2, <1>3

LEMMA ReturnConnectionInv == ASSUME IInv, NEW w \in Threads, ReturnConnection(w) PROVE IInv'
<1> USE DEF IInv
<1>1. PICK c \in 1..PoolSize : Give(w, c)
  BY DEF ReturnConnection
<1>2. TypeOK'
  BY <1>1, TakeGiveType DEF ReturnConnection, TypeOK, dbVars
<1>3. HandOK' /\ BatchOK' /\ ProgressOK' /\ FreshOK' /\ CleanOK' /\ ProcessedFullyAlerted'
  BY StaysClean DEF ReturnConnection, TypeOK, HandOK, BatchOK, ProgressOK, FreshOK,
                    ProcessedFullyAlerted, dbVars
<1>4. QED
  BY <1>2, <1>3

LEMMA SelectBatchInv == ASSUME IInv, NEW w \in Threads, SelectBatch(w) PROVE IInv'
<1> USE DEF IInv
<1>1. PICK rows \in SUBSET Pending(w) : batch' = [batch EXCEPT ![w] = rows]
  BY DEF SelectBatch
<1>2. \A r \in rows : r \in Rows \ processed /\ WorkerOf[r] = w
  BY <1>1 DEF Pending, TypeOK
<1>3. TypeOK'
  BY <1>1, <1>2 DEF SelectBatch, TypeOK, leaseVars, dbVars
<1>4. HandOK' /\ BatchOK'
  BY <1>1, <1>2 DEF SelectBatch, TypeOK, HandOK, BatchOK, dbVars
<1>5. ProgressOK' /\ FreshOK' /\ CleanOK' /\ ProcessedFullyAlerted'
  BY StaysClean DEF SelectBatch, TypeOK, ProgressOK, FreshOK, ProcessedFullyAlerted, dbVars
<1>6. QED
  BY <1>3, <1>4, <1>5

LEMMA NextRowInv == ASSUME IInv, NEW w \in Threads, NextRow(w) PROVE IInv'
<1> USE DEF IInv
<1>1. PICK r \in batch[w] : /\ row' = [row EXCEPT ![w] = r]
                            /\ batch' = [batch EXCEPT ![w] = @ \ {r}]
  BY DEF NextRow
<1>2. r \in Rows \ processed /\ WorkerOf[r] = w
  BY <1>1 DEF BatchOK, TypeOK
<1>3. TypeOK'
  BY <1>1, <1>2, NumRulesNat DEF NextRow, TypeOK, leaseVars, dbVars
<1>4. HandOK' /\ BatchOK'
  BY <1>1, <1>2 DEF NextRow, TypeOK, HandOK, BatchOK, dbVars
<1>5. ProgressOK'
  BY <1>1, <1>2, NumRulesNat DEF NextRow, TypeOK, ProgressOK, MatchesOf, dbVars
<1>6. FreshOK'
  <2> SUFFICES ASSUME NEW s \in Rows, s \notin interrupted, NEW k \in Rules
               PROVE  /\ alerts[s][k] <= 1
                      /\ alerts[s][k] = 1 =>
                           s \in processed \/ \E v \in Threads : row'[v] = s /\ k < rule'[v]
    BY DEF FreshOK, NextRow, dbVars
  <2>1. row[w] = 0 /\ 0 # s
    BY NumRulesNat DEF NextRow, HandOK
  <2>2. \A v \in Threads : row[v] = s => row'[v] = s /\ rule'[v] = rule[v]
    BY <1>1, <2>1 DEF NextRow, TypeOK
  <2>3. QED
    BY <2>2 DEF FreshOK
<1>7. CleanOK' /\ ProcessedFullyAlerted'
  BY StaysClean DEF NextRow, ProcessedFullyAlerted, dbVars
<1>8. QED
  BY <1>3, <1>4, <1>5, <1>6, <1>7

LEMMA MissInv == ASSUME IInv, NEW w \in Threads, Miss(w) PROVE IInv'
<1> USE DEF IInv
<1>1. /\ pc[w] = "rules" /\ rule[w] \in Rules /\ Verdict[row[w]][rule[w]] = "miss"
      /\ rule' = [rule EXCEPT ![w] = @ + 1]
  BY DEF Miss, Meets
<1>2. TypeOK'
  BY <1>1, NumRulesNat DEF Miss, TypeOK, leaseVars, dbVars
<1>3. HandOK' /\ BatchOK' /\ CleanOK' /\ ProcessedFullyAlerted'
  BY StaysClean DEF Miss, HandOK, BatchOK, ProcessedFullyAlerted, dbVars
<1>4. ProgressOK'
  <2> SUFFICES ASSUME NEW v \in Threads, pc[v] = "rules", NEW k \in MatchesOf(row[v]),
                      k < rule'[v]
               PROVE  alerts[row[v]][k] > 0
    BY DEF ProgressOK, Miss, dbVars
  <2>1. k \in Rules /\ Verdict[row[v]][k] # "miss"
    BY DEF MatchesOf
  <2>2. k < rule[v]
    BY <1>1, <2>1, NumRulesNat DEF TypeOK
  <2>3. QED
    BY <2>2 DEF ProgressOK
<1>5. FreshOK'
  <2>1. \A v \in Threads, k \in Rules : k < rule[v] => k < rule'[v]
    BY <1>1, NumRulesNat DEF TypeOK
  <2>2. QED
    BY <2>1 DEF FreshOK, Miss, dbVars
<1>6. QED
  BY <1>2, <1>3, <1>4, <1>5
(* Two threads never have the same row in hand.                            *)
LEMMA OwnRow ==
  ASSUME IInv, NEW v \in Threads, NEW w \in Threads, pc[w] = "rules", row[v] = row[w]
  PROVE  v = w
<1>1. row[w] \in Rows /\ WorkerOf[row[w]] = w
  BY DEF IInv, HandOK
<1>2. row[v] # 0
  BY <1>1, NumRulesNat
<1>3. pc[v] = "rules" /\ WorkerOf[row[v]] = v
  BY <1>2 DEF IInv, HandOK
<1>4. QED
  BY <1>1, <1>3

(* A rule that has not run yet in the only attempt made has left no alert. *)
LEMMA NotYetAlerted ==
  ASSUME IInv, NEW w \in Threads, pc[w] = "rules", row[w] \notin interrupted,
         rule[w] \in Rules
  PROVE  alerts[row[w]][rule[w]] = 0
<1>1. row[w] \in Rows \ processed
  BY DEF IInv, HandOK
<1>2. ~ \E v \in Threads : row[v] = row[w] /\ rule[w] < rule[v]
  <2>1. rule[w] \in Nat /\ ~ (rule[w] < rule[w])
    BY NumRulesNat
  <2>2. QED
    BY <2>1, OwnRow
<1>3. alerts[row[w]][rule[w]] \in 0..2
  BY <1>1 DEF IInv, TypeOK
<1>4. /\ alerts[row[w]][rule[w]] <= 1
      /\ alerts[row[w]][rule[w]] # 1
  BY <1>1, <1>2 DEF IInv, FreshOK
<1>5. QED
  BY <1>3, <1>4

LEMMA AlertInv == ASSUME IInv, NEW w \in Threads, Alert(w) PROVE IInv'
<1> USE DEF IInv
<1> DEFINE r == row[w]
           n == rule[w]
<1>1. /\ pc[w] = "rules" /\ n \in Rules /\ r \in Rows \ processed
      /\ rule' = [rule EXCEPT ![w] = @ + 1]
      /\ alerts' = [alerts EXCEPT ![r][n] = More(@)]
  BY DEF Alert, Meets, HandOK
<1>2. /\ alerts \in [Rows -> [Rules -> 0..2]] /\ alerts[r][n] \in 0..2
      /\ alerts' \in [Rows -> [Rules -> 0..2]]
      /\ alerts'[r][n] > 0 /\ (alerts[r][n] = 0 => alerts'[r][n] = 1)
      /\ \A s \in Rows, k \in Rules : s # r \/ k # n => alerts'[s][k] = alerts[s][k]
  BY <1>1 DEF TypeOK, More
<1>3. PICK c \in lent[w] : leftover' = [leftover EXCEPT ![c] = @ \ {InsertStatement(w)}]
  BY DEF Alert
<1>4. leftover' \in [1..PoolSize -> SUBSET Statements]
  BY <1>3 DEF TypeOK
<1>5. rule' \in [Threads -> 1..(NumRules + 1)]
  BY <1>1, NumRulesNat DEF TypeOK
<1>6. TypeOK'
  BY <1>2, <1>4, <1>5 DEF Alert, TypeOK, leaseVars
<1>7. HandOK' /\ BatchOK'
  BY DEF Alert, HandOK, BatchOK
<1>8. CleanOK'
  <2>1. \A d \in 1..PoolSize : leftover'[d] \subseteq leftover[d]
    BY <1>3 DEF TypeOK
  <2>2. QED
    BY <2>1, StaysClean DEF Alert
<1>9. ProcessedFullyAlerted'
  <2> SUFFICES ASSUME NEW s \in processed, NEW k \in MatchesOf(s) PROVE alerts'[s][k] > 0
    BY DEF Alert, ProcessedFullyAlerted
  <2>1. s \in Rows /\ s # r /\ k \in Rules
    BY <1>1 DEF TypeOK, MatchesOf
  <2>2. QED
    BY <1>2, <2>1 DEF ProcessedFullyAlerted
<1>10. ProgressOK'
  <2> SUFFICES ASSUME NEW v \in Threads, pc[v] = "rules", NEW k \in MatchesOf(row[v]),
                      k < rule'[v]
               PROVE  alerts'[row[v]][k] > 0
    BY DEF ProgressOK, Alert
  <2>1. k \in Rules /\ row[v] \in Rows
    BY DEF MatchesOf, HandOK
  <2>2. CASE v = w /\ k = n
    BY <1>2, <2>2
  <2>3. CASE ~ (v = w /\ k = n)
    <3>1. k < rule[v]
      BY <1>1, <2>1, <2>3, NumRulesNat DEF TypeOK
    <3>2. row[v] # r \/ k # n
      BY <1>1, <2>3, OwnRow
    <3>3. QED
      BY <1>2, <2>1, <3>1, <3>2 DEF ProgressOK
  <2>4. QED
    BY <2>2, <2>3
<1>11. FreshOK'
  <2> SUFFICES ASSUME NEW s \in Rows, s \notin interrupted, NEW k \in Rules
               PROVE  /\ alerts'[s][k] <= 1
                      /\ alerts'[s][k] = 1 =>
                           s \in processed \/ \E v \in Threads : row[v] = s /\ k < rule'[v]
    BY DEF FreshOK, Alert
  <2>1. CASE s = r /\ k = n
    <3>1. alerts'[s][k] = 1
      BY <1>1, <1>2, <2>1, NotYetAlerted
    <3>2. row[w] = s /\ k < rule'[w]
      BY <1>1, <2>1, NumRulesNat DEF TypeOK
    <3>3. QED
      BY <3>1, <3>2
  <2>2. CASE ~ (s = r /\ k = n)
    <3>1. \A v \in Threads : k < rule[v] => k < rule'[v]
      BY <1>1, NumRulesNat DEF TypeOK
    <3>2. QED
      BY <1>2, <2>2, <3>1 DEF FreshOK
  <2>3. QED
    BY <2>1, <2>2
<1>12. QED
  BY <1>6, <1>7, <1>8, <1>9, <1>10, <1>11

(* When the loop over the rules is done, every rule that matches has run.  *)
LEMMA AllRulesRan ==
  ASSUME IInv, NEW w \in Threads, RulesDone(w), NEW k \in MatchesOf(row[w])
  PROVE  alerts[row[w]][k] > 0
<1>1. k \in Rules /\ pc[w] = "rules" /\ rule[w] \in 1..(NumRules + 1) /\ rule[w] \notin Rules
  BY DEF MatchesOf, RulesDone, IInv, TypeOK
<1>2. k < rule[w]
  BY <1>1, NumRulesNat
<1>3. QED
  BY <1>1, <1>2 DEF IInv, ProgressOK

LEMMA SetProcessedInv == ASSUME IInv, NEW w \in Threads, SetProcessed(w) PROVE IInv'
<1> USE DEF IInv
<1>1. /\ RulesDone(w) /\ pc[w] = "rules"
      /\ row[w] \in Rows /\ WorkerOf[row[w]] = w /\ row[w] \notin batch[w]
  BY DEF SetProcessed, RulesDone, HandOK
<1>2. TypeOK'
  BY <1>1 DEF SetProcessed, TypeOK, leaseVars
<1>3. HandOK'
  <2> SUFFICES ASSUME NEW v \in Threads, v # w, pc[v] = "rules" PROVE row[v] # row[w]
    BY <1>1 DEF SetProcessed, HandOK, TypeOK
  <2>1. QED
    BY <1>1, OwnRow
<1>4. BatchOK'
  BY <1>1 DEF SetProcessed, BatchOK, TypeOK
<1>5. ProgressOK' /\ CleanOK'
  BY StaysClean DEF SetProcessed, ProgressOK, TypeOK
<1>6. ProcessedFullyAlerted'
  BY <1>1, AllRulesRan DEF SetProcessed, ProcessedFullyAlerted
<1>7. FreshOK'
  <2> SUFFICES ASSUME NEW s \in Rows, s \notin interrupted, NEW k \in Rules
               PROVE  /\ alerts[s][k] <= 1
                      /\ alerts[s][k] = 1 =>
                           s \in processed' \/ \E v \in Threads : row'[v] = s /\ k < rule[v]
    BY DEF FreshOK, SetProcessed
  <2>1. \A v \in Threads : row[v] = s => s \in processed' \/ row'[v] = s
    BY DEF SetProcessed, TypeOK
  <2>2. QED
    BY <2>1 DEF FreshOK, SetProcessed
<1>8. QED
  BY <1>2, <1>3, <1>4, <1>5, <1>6, <1>7

-----------------------------------------------------------------------------
(* The steps that cut the handling of a row short.                         *)
LEMMA ConflictHasCause ==
  ASSUME IInv, NEW w \in Threads \ Tolerant, NEW c \in lent[w],
         Conflicts(InsertStatement(w), leftover[c])
  PROVE  faults # 0 \/ Clash
<1> SUFFICES ASSUME faults = 0 PROVE Clash
  OBVIOUS
<1>1. c \in 1..PoolSize
  BY DEF IInv, TypeOK
<1>2. leftover[c] \subseteq LeftByDump
  BY <1>1 DEF IInv, CleanOK
<1>3. PICK s \in leftover[c] : s[1] = InsertStatement(w)[1] /\ s[2] # InsertStatement(w)[2]
  BY DEF Conflicts
<1>4. s \in LeftByDump /\ Conflicts(InsertStatement(w), {s})
  BY <1>2, <1>3 DEF Conflicts
<1>5. QED
  BY <1>4 DEF Clash

(* The insert statement of a row that cannot be written is left behind.    *)
LEMMA DumpInv == ASSUME IInv, NEW w \in Threads, DumpFails(w) PROVE IInv'
<1> DEFINE r == row[w]
<1>1. /\ pc[w] = "rules" /\ rule[w] \in Rules /\ Verdict[r][rule[w]] = "dump"
      /\ Abandon(w) /\ faults' = faults
  BY DEF DumpFails, Meets
<1>2. /\ faults \in 0..MaxFaults /\ MaxFaults \in Nat /\ r \in Rows /\ WorkerOf[r] = w
      /\ leftover \in [1..PoolSize -> SUBSET Statements]
  BY <1>1, RuleEngineAssumption DEF IInv, TypeOK, HandOK
<1>3. PICK c \in lent[w] : leftover' = [leftover EXCEPT ![c] = @ \cup {InsertStatement(w)}]
  BY DEF DumpFails
<1>4. leftover' \in [1..PoolSize -> SUBSET Statements]
  BY <1>2, <1>3, InsertStatementType
<1>5. InsertStatement(w) \in LeftByDump'
  <2>1. r \in interrupted' /\ Unprintable(r)
    BY <1>1 DEF Abandon, Unprintable
  <2>2. QED
    BY <1>2, <2>1 DEF LeftByDump
<1>6. \A d \in 1..PoolSize : leftover'[d] \subseteq leftover[d] \cup LeftByDump'
  BY <1>2, <1>3, <1>5
<1>7. QED
  BY <1>1, <1>2, <1>4, <1>6, AbandonInv

LEMMA ExceptionInv ==
  ASSUME IInv, NEW w \in Threads,
         BadJson(w) \/ OtherException(w) \/ InsertConflict(w) \/ InsertFails(w)
           \/ SetProcessedFails(w)
  PROVE  IInv'
<1>1. /\ pc[w] = "rules" /\ faults \in 0..MaxFaults /\ MaxFaults \in Nat
      /\ leftover \in [1..PoolSize -> SUBSET Statements] /\ lent[w] \subseteq 1..PoolSize
  BY RuleEngineAssumption
     DEF IInv, TypeOK, BadJson, OtherException, InsertConflict, InsertFails,
         SetProcessedFails, Meets, RulesDone
<1>2. CASE BadJson(w)
  BY <1>1, <1>2, AbandonInv DEF BadJson
<1>3. CASE OtherException(w)
  <2>1. CASE w \in Tolerant
    BY <1>1, <1>3, <2>1, AbandonInv DEF OtherException
  <2>2. CASE w \notin Tolerant
    <3>1. Restart("throw") /\ faults' = faults
      BY <1>3, <2>2 DEF OtherException
    <3>2. QED
      BY <1>1, <3>1, RestartInv
  <2>3. QED
    BY <2>1, <2>2
<1>4. CASE InsertConflict(w)
  <2>1. CASE w \in Tolerant
    BY <1>1, <1>4, <2>1, AbandonInv DEF InsertConflict
  <2>2. CASE w \notin Tolerant
    <3>1. faults # 0 \/ Clash
      BY <1>4, <2>2, ConflictHasCause DEF InsertConflict
    <3>2. QED
      BY <1>1, <1>4, <2>2, <3>1, RestartInv DEF InsertConflict
  <2>3. QED
    BY <2>1, <2>2
<1>5. CASE InsertFails(w)
  <2>1. faults' \in 0..MaxFaults /\ faults' # 0 /\ faults <= faults'
    BY <1>1, <1>5 DEF InsertFails
  <2>2. PICK c \in lent[w] : leftover' = [leftover EXCEPT ![c] = @ \cup {InsertStatement(w)}]
    BY <1>5 DEF InsertFails
  <2>3. leftover' \in [1..PoolSize -> SUBSET Statements]
    BY <1>1, <2>2, InsertStatementType
  <2>4. QED
    BY <1>1, <1>5, <2>1, <2>3, AbandonInv DEF InsertFails
<1>6. CASE SetProcessedFails(w)
  <2>1. faults' \in 0..MaxFaults /\ faults <= faults'
    BY <1>1, <1>6 DEF SetProcessedFails
  <2>2. QED
    BY <1>1, <1>6, <2>1, AbandonInv DEF SetProcessedFails
<1>7. QED
  BY <1>2, <1>3, <1>4, <1>5, <1>6

LEMMA KilledInv == ASSUME IInv, Killed PROVE IInv'
<1>1. faults' \in 0..MaxFaults /\ faults <= faults' /\ faults' # 0
  BY RuleEngineAssumption DEF Killed, IInv, TypeOK
<1>2. QED
  BY <1>1, RestartInv DEF Killed

LEMMA NextInv == IInv /\ [Next]_vars => IInv'
<1> SUFFICES ASSUME IInv, [Next]_vars PROVE IInv'
  OBVIOUS
<1>1. ASSUME NEW r \in Rows, Arrive(r) PROVE IInv'
  BY <1>1, ArriveInv
<1>2. ASSUME NEW w \in Threads, Step(w) PROVE IInv'
  BY <1>2, GetConnectionInv, SelectBatchInv, NextRowInv, MissInv, AlertInv, DumpInv,
     ExceptionInv, SetProcessedInv, ReturnConnectionInv DEF Step
<1>3. ASSUME NEW w \in Threads, InsertFails(w) \/ SetProcessedFails(w) PROVE IInv'
  BY <1>3, ExceptionInv
<1>4. CASE Killed
  BY <1>4, KilledInv
<1>5. CASE UNCHANGED vars
  BY <1>5, StaysClean DEF vars, leaseVars, IInv, TypeOK, HandOK, BatchOK, ProgressOK, FreshOK,
                          ProcessedFullyAlerted
<1>6. QED
  BY <1>1, <1>2, <1>3, <1>4, <1>5 DEF Next

-----------------------------------------------------------------------------
(* The states of the rule engine are well-formed.                          *)
THEOREM RuleEngineTypeCorrect == Spec => []TypeOK
<1>1. IInv => TypeOK
  BY DEF IInv
<1>2. QED
  BY InitInv, NextInv, <1>1, PTL DEF Spec

(* No detection is lost: whatever exceptions, conflicts and restarts come  *)
(* in between, a row that is marked has its alerts.                        *)
THEOREM NoDetectionLost == Spec => []ProcessedFullyAlerted
<1>1. IInv => ProcessedFullyAlerted
  BY DEF IInv
<1>2. QED
  BY InitInv, NextInv, <1>1, PTL DEF Spec

(* An alert is raised twice only for a row that was interrupted.           *)
THEOREM DuplicatesExplained == Spec => []DuplicateNeedsInterruption
<1>1. IInv => DuplicateNeedsInterruption
  <2> SUFFICES ASSUME IInv, NEW r \in Rows, NEW k \in Rules, r \notin interrupted
               PROVE  ~ (alerts[r][k] > 1)
    BY DEF DuplicateNeedsInterruption
  <2>1. alerts[r][k] \in 0..2 /\ alerts[r][k] <= 1
    BY DEF IInv, TypeOK, FreshOK
  <2>2. QED
    BY <2>1
<1>2. QED
  BY InitInv, NextInv, <1>1, PTL DEF Spec

(* The process ends on a statement name only after a database error, or    *)
(* after a row that a thread with another text for it could not write.     *)
THEOREM ConflictsExplained == Spec => []ConflictNeedsCause
<1>1. IInv => ConflictNeedsCause
  <2> SUFFICES ASSUME IInv, "conflict" \in stops, ~ (faults > 0)
               PROVE  \E x \in interrupted, w \in Threads \ Tolerant :
                        /\ Unprintable(x)
                        /\ Conflicts(InsertStatement(w), {InsertStatement(WorkerOf[x])})
    BY DEF ConflictNeedsCause
  <2>1. faults = 0
    BY RuleEngineAssumption DEF IInv, TypeOK
  <2>2. Clash
    BY <2>1 DEF IInv, CleanOK
  <2>3. QED
    BY <2>2 DEF Clash, LeftByDump
<1>2. QED
  BY InitInv, NextInv, <1>1, PTL DEF Spec
-----------------------------------------------------------------------------
(* The engine, seen through Detection.                                     *)
Raised == [r \in Rows |-> {k \in Rules : alerts[r][k] > 0}]

LEMMA InitKeepsPromise == Init => Promise!Init
BY DEF Init, Promise!Init

LEMMA AlertRaises == ASSUME IInv, NEW w \in Threads, Alert(w)
                     PROVE  Promise!Raise(row[w], rule[w]) /\ row[w] \in Rows /\ rule[w] \in Rules
<1> DEFINE r == row[w]
           n == rule[w]
<1>1. /\ n \in Rules /\ r \in Rows \ processed /\ Verdict[r][n] = "match"
      /\ alerts' = [alerts EXCEPT ![r][n] = More(@)] /\ processed' = processed
  BY DEF Alert, Meets, HandOK, IInv
<1>2. n \in MatchesOf(r)
  BY <1>1 DEF MatchesOf
<1>3. alerts \in [Rows -> [Rules -> 0..2]]
  BY DEF IInv, TypeOK
<1>4. /\ \A s \in Rows, k \in Rules : s # r \/ k # n => alerts'[s][k] = alerts[s][k]
      /\ alerts'[r][n] > 0
  BY <1>1, <1>3 DEF More
<1>5. Raised' = [Raised EXCEPT ![r] = @ \cup {n}]
  <2>1. \A s \in Rows : {k \in Rules : alerts'[s][k] > 0} =
                         IF s = r THEN {k \in Rules : alerts[s][k] > 0} \cup {n}
                                  ELSE {k \in Rules : alerts[s][k] > 0}
    BY <1>1, <1>4
  <2>2. QED
    BY <1>1, <2>1 DEF Raised
<1>6. QED
  BY <1>1, <1>2, <1>5 DEF Promise!Raise, Raised

LEMMA SetProcessedDeclares == ASSUME IInv, NEW w \in Threads, SetProcessed(w)
                              PROVE  Promise!Declare(row[w]) /\ row[w] \in Rows
<1>1. RulesDone(w) /\ row[w] \in Rows
  BY DEF SetProcessed, RulesDone, IInv, HandOK
<1>2. MatchesOf(row[w]) \subseteq {k \in Rules : alerts[row[w]][k] > 0}
  BY <1>1, AllRulesRan DEF MatchesOf
<1>3. processed' = processed \cup {row[w]} /\ alerts' = alerts
  BY DEF SetProcessed
<1>4. QED
  BY <1>1, <1>2, <1>3 DEF Promise!Declare

LEMMA StepKeepsPromise ==
  IInv /\ [Next]_vars => [Promise!Next]_<<Raised, processed>>
<1> SUFFICES ASSUME IInv, [Next]_vars, ~ UNCHANGED <<alerts, processed>> PROVE Promise!Next
  BY DEF Raised
<1>1. ASSUME NEW w \in Threads, Step(w) PROVE Alert(w) \/ SetProcessed(w)
  <2>1. ASSUME NEW why, Restart(why) PROVE FALSE
    BY <2>1 DEF Restart, dbVars
  <2>2. ~ Abandon(w)
    BY DEF Abandon, dbVars
  <2>3. ~ (OtherException(w) \/ InsertConflict(w) \/ BadJson(w) \/ DumpFails(w))
    BY <2>1, <2>2 DEF OtherException, InsertConflict, BadJson, DumpFails
  <2>4. ~ (GetConnection(w) \/ SelectBatch(w) \/ NextRow(w) \/ Miss(w) \/ ReturnConnection(w))
    BY DEF GetConnection, SelectBatch, NextRow, Miss, ReturnConnection, dbVars
  <2>5. QED
    BY <1>1, <2>3, <2>4 DEF Step
<1>2. ASSUME NEW w \in Threads PROVE ~ (InsertFails(w) \/ SetProcessedFails(w))
  BY DEF InsertFails, SetProcessedFails, Abandon, dbVars
<1>3. ~ (Killed \/ UNCHANGED vars)
  BY DEF Killed, Restart, vars, dbVars
<1>4. ASSUME NEW r \in Rows PROVE ~ Arrive(r)
  BY DEF Arrive
<1>5. \E w \in Threads : Alert(w) \/ SetProcessed(w)
  BY <1>1, <1>2, <1>3, <1>4 DEF Next
<1>6. PICK w \in Threads : Alert(w) \/ SetProcessed(w)
  BY <1>5
<1>7. CASE Alert(w)
  BY <1>7, AlertRaises DEF Promise!Next, Promise!Raise
<1>8. CASE SetProcessed(w)
  BY <1>8, SetProcessedDeclares DEF Promise!Next, Promise!Declare
<1>9. QED
  BY <1>6, <1>7, <1>8

(* The loops of RuleEngine.cpp keep the promise of Detection: first every  *)
(* alert, then the mark, and no alert after the mark.                      *)
THEOREM RuleEngineImplementsDetection == Spec => PromiseKept
<1>1. IInv /\ [Next]_vars => [Promise!Next]_<<[r \in Rows |-> {k \in Rules : alerts[r][k] > 0}],
                                            processed>>
  BY StepKeepsPromise DEF Raised
<1>2. QED
  BY InitInv, NextInv, InitKeepsPromise, <1>1, PTL DEF Spec, PromiseKept, Promise!Spec
=============================================================================
