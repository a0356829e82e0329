----------------------------- MODULE RuleEngine -----------------------------
(***************************************************************************)
(* The rule engine (src/vajra/rule_engine/RuleEngine.cpp): one thread per  *)
(* event table runs the detection rules of the plugins over the rows that  *)
(* are not processed yet, inserts an alert for each match and then marks   *)
(* the row.  Every insert and update takes effect when it is executed: the *)
(* transaction they run in was committed after the select.                 *)
(*                                                                         *)
(* bpf_process_events has two threads, each with a flag of its own, so a   *)
(* row of that table stands for two elements of Rows.  A row "arrives"     *)
(* when the select of its thread can see it: when the fleet server stores  *)
(* it or, for bpf_process_tree, when the event processor stored its tree.  *)
(***************************************************************************)
EXTENDS ConnectionLease, FiniteSets

CONSTANTS
  Rows,         (* the events, numbered by record id                       *)
  WorkerOf,     (* WorkerOf[r]: the thread that handles row r              *)
  NumRules,     (* the rules of all plugins, in the order they were loaded *)
  Verdict,      (* Verdict[r][k]: what happens when rule k meets row r     *)
  BatchLimit,   (* the "limit 100" of the select statements                *)
  MaxFaults     (* database errors and kills of the process (bound)        *)

(* The threads RuleEngine::run starts, by the name of their function.      *)
Workers == {"bpf", "bpf_file", "bpf_socket", "win", "win_socket", "win_file",
            "chrome_ext", "processes", "bpf_process_tree", "audit", "audit_socket"}

Rules == 1..NumRules

(* "dump" is a match whose alert cannot be written as JSON: some text in   *)
(* the row is not UTF-8.  "json" is an error of the JSON library before    *)
(* that: the stored tree cannot be parsed, a rule throws one.  "throw" is  *)
(* any other exception that is not an SQL error: a column that cannot be   *)
(* converted (then it is the verdict of rule 1, since no rule gets to run) *)
(* or a rule that throws.                                                  *)
Verdicts == {"miss", "match", "dump", "json", "throw"}

ASSUME RuleEngineAssumption ==
  /\ Threads \subseteq Workers
  /\ PoolSize \in Nat /\ MinOpened \in 0..PoolSize
  /\ Rows \subseteq Nat \ {0} /\ IsFiniteSet(Rows)
  /\ WorkerOf \in [Rows -> Threads]
  /\ NumRules \in Nat
  /\ Verdict \in [Rows -> [Rules -> Verdicts]]
  /\ BatchLimit \in Nat \ {0}
  /\ MaxFaults \in Nat

VARIABLES
  arrived,      (* rows the selects can see                                *)
  processed,    (* rows whose is_processed is true                         *)
  alerts,       (* alerts[r][k]: alerts of rule k on row r, 2 for many     *)
  leftover,     (* leftover[c]: <<name, text>> of an insert statement that *)
                (* is still prepared on connection c                       *)
  pc,           (* pc[w]: where thread w stands in its endless loop        *)
  batch,        (* batch[w]: rows of the select result not handled yet     *)
  row,          (* row[w]: the row in hand, 0 for none                     *)
  rule,         (* rule[w]: the next rule to run on it                     *)
  faults,       (* database errors and kills so far                        *)
  interrupted,  (* rows whose handling has been cut short at least once    *)
  stops         (* why the process was started again, so far               *)

vars == <<leaseVars, arrived, processed, alerts, leftover, pc, batch, row, rule,
          faults, interrupted, stops>>

dbVars == <<arrived, processed, alerts>>

-----------------------------------------------------------------------------
(* What distinguishes the loops.                                           *)

(* The ones with catch (...); the others catch JSON and SQL errors only.   *)
Tolerant == {"audit", "audit_socket", "bpf_file", "bpf_socket"}

(* The statement that inserts an alert.  Where two of the texts differ in  *)
(* a blank only they are two texts all the same.                           *)
InsertStatement(w) ==
  CASE w = "audit" -> <<"insert_alert", "audit">>
    [] w \in {"win", "bpf_process_tree"} -> <<"insert_alerts", "win">>
    [] w \in {"chrome_ext", "processes"} -> <<"insert_alerts", "other">>
    [] OTHER -> <<"insert_alerts", w>>

(* Preparing statement s throws: the name is taken by another text.        *)
Conflicts(s, known) == \E k \in known : k[1] = s[1] /\ k[2] # s[2]

(* "is_processed is not true order by id asc limit 100".                   *)
Pending(w) == {r \in arrived \ processed : WorkerOf[r] = w}

Selects(w, rows) ==
  /\ rows \subseteq Pending(w)
  /\ rows = Pending(w) \/ Cardinality(rows) = BatchLimit
  /\ Cardinality(rows) <= BatchLimit
  /\ \A x \in rows, y \in Pending(w) \ rows : x < y

-----------------------------------------------------------------------------
Init ==
  /\ LeaseInit
  /\ arrived = {}
  /\ processed = {}
  /\ alerts = [r \in Rows |-> [k \in Rules |-> 0]]
  /\ leftover = [c \in 1..PoolSize |-> {}]
  /\ pc = [w \in Threads |-> "top"]
  /\ batch = [w \in Threads |-> {}]
  /\ row = [w \in Threads |-> 0]
  /\ rule = [w \in Threads |-> 1]
  /\ faults = 0
  /\ interrupted = {}
  /\ stops = {}

Arrive(r) ==
  /\ r \notin arrived
  /\ arrived' = arrived \cup {r}
  /\ UNCHANGED <<leaseVars, processed, alerts, leftover, pc, batch, row, rule,
                 faults, interrupted, stops>>

InHand == {row[w] : w \in Threads} \cap Rows

(* The process ends, by an exception no loop catches or from outside, and  *)
(* is started again: what is in the database stays.                        *)
Restart(why) ==
  /\ LeaseRestart
  /\ leftover' = [c \in 1..PoolSize |-> {}]
  /\ pc' = [w \in Threads |-> "top"]
  /\ batch' = [w \in Threads |-> {}]
  /\ row' = [w \in Threads |-> 0]
  /\ rule' = [w \in Threads |-> 1]
  /\ interrupted' = interrupted \cup InHand
  /\ stops' = stops \cup {why}
  /\ UNCHANGED dbVars

GetConnection(w) ==
  /\ pc[w] = "top"
  /\ \E c \in 1..PoolSize : Take(w, c)
  /\ pc' = [pc EXCEPT ![w] = "select"]
  /\ UNCHANGED <<dbVars, leftover, batch, row, rule, faults, interrupted, stops>>

SelectBatch(w) ==
  /\ pc[w] = "select"
  /\ \E rows \in SUBSET Pending(w) :
       Selects(w, rows) /\ batch' = [batch EXCEPT ![w] = rows]
  /\ pc' = [pc EXCEPT ![w] = "next"]
  /\ UNCHANGED <<leaseVars, dbVars, leftover, row, rule, faults, interrupted, stops>>

(* Mutant of NextRow: the index of the rules starts one too low.           *)
NextRowRuleZero(w) ==
  /\ pc[w] = "next"
  /\ \E r \in batch[w] :
       /\ \A s \in batch[w] : r <= s
       /\ row' = [row EXCEPT ![w] = r]
       /\ batch' = [batch EXCEPT ![w] = @ \ {r}]
  /\ rule' = [rule EXCEPT ![w] = 0]
  /\ pc' = [pc EXCEPT ![w] = "rules"]
  /\ UNCHANGED <<leaseVars, dbVars, leftover, faults, interrupted, stops>>

NextRow(w) ==
  /\ pc[w] = "next"
  /\ \E r \in batch[w] :
       /\ \A s \in batch[w] : r <= s
       /\ row' = [row EXCEPT ![w] = r]
       /\ batch' = [batch EXCEPT ![w] = @ \ {r}]
  /\ rule' = [rule EXCEPT ![w] = 1]
  /\ pc' = [pc EXCEPT ![w] = "rules"]
  /\ UNCHANGED <<leaseVars, dbVars, leftover, faults, interrupted, stops>>

(* Thread w is about to run a rule on its row, and the outcome will be v.  *)
Meets(w, v) ==
  /\ pc[w] = "rules"
  /\ rule[w] \in Rules
  /\ Verdict[row[w]][rule[w]] = v

Miss(w) ==
  /\ Meets(w, "miss")
  /\ rule' = [rule EXCEPT ![w] = @ + 1]
  /\ UNCHANGED <<leaseVars, dbVars, leftover, pc, batch, row, faults, interrupted, stops>>

More(n) == IF n = 0 THEN 1 ELSE 2

(* Mutant of Alert: the insert statement is not unprepared.                *)
AlertPrepared(w) ==
  /\ Meets(w, "match")
  /\ \E c \in lent[w] :
       /\ ~ Conflicts(InsertStatement(w), leftover[c])
       /\ leftover' = [leftover EXCEPT ![c] = @ \cup {InsertStatement(w)}]
  /\ alerts' = [alerts EXCEPT ![row[w]][rule[w]] = More(@)]
  /\ rule' = [rule EXCEPT ![w] = @ + 1]
  /\ UNCHANGED <<leaseVars, arrived, processed, pc, batch, row, faults, interrupted, stops>>

(* prepare, insert, unprepare.                                             *)
Alert(w) ==
  /\ Meets(w, "match")
  /\ \E c \in lent[w] :
       /\ ~ Conflicts(InsertStatement(w), leftover[c])
       /\ leftover' = [leftover EXCEPT ![c] = @ \ {InsertStatement(w)}]
  /\ alerts' = [alerts EXCEPT ![row[w]][rule[w]] = More(@)]
  /\ rule' = [rule EXCEPT ![w] = @ + 1]
  /\ UNCHANGED <<leaseVars, arrived, processed, pc, batch, row, faults, interrupted, stops>>

(* Mutants of Abandon: the catch block falls through to set_processed, and *)
(* the loop tries the same row again.                                      *)
AbandonProcessed(w) ==
  /\ pc' = [pc EXCEPT ![w] = "next"]
  /\ row' = [row EXCEPT ![w] = 0]
  /\ processed' = processed \cup {row[w]}
  /\ interrupted' = interrupted \cup {row[w]}
  /\ UNCHANGED <<leaseVars, arrived, alerts, batch, rule, stops>>

AbandonRetries(w) ==
  /\ rule' = [rule EXCEPT ![w] = 1]
  /\ interrupted' = interrupted \cup {row[w]}
  /\ UNCHANGED <<leaseVars, dbVars, pc, batch, row, stops>>

(* An exception is caught, and the loop goes on with the next row.         *)
Abandon(w) ==
  /\ pc' = [pc EXCEPT ![w] = "next"]
  /\ row' = [row EXCEPT ![w] = 0]
  /\ interrupted' = interrupted \cup {row[w]}
  /\ UNCHANGED <<leaseVars, dbVars, batch, rule, stops>>

(* Before the insert statement is prepared ...                             *)
BadJson(w) == Meets(w, "json") /\ Abandon(w) /\ UNCHANGED <<leftover, faults>>

(* ... and between prepare and insert: dump() throws while the arguments   *)
(* are put together, and unprepare is not reached.                         *)
DumpFails(w) ==
  /\ Meets(w, "dump")
  /\ \E c \in lent[w] :
       /\ ~ Conflicts(InsertStatement(w), leftover[c])
       /\ leftover' = [leftover EXCEPT ![c] = @ \cup {InsertStatement(w)}]
  /\ Abandon(w)
  /\ UNCHANGED faults

OtherException(w) ==
  /\ Meets(w, "throw")
  /\ IF w \in Tolerant THEN Abandon(w) /\ UNCHANGED leftover ELSE Restart("throw")
  /\ UNCHANGED faults

(* prepare throws an argument_error, which is not an SQL error.            *)
InsertConflict(w) ==
  /\ Meets(w, "match") \/ Meets(w, "dump")
  /\ \E c \in lent[w] : Conflicts(InsertStatement(w), leftover[c])
  /\ IF w \in Tolerant THEN Abandon(w) /\ UNCHANGED leftover ELSE Restart("conflict")
  /\ UNCHANGED faults

(* The insert fails: an SQL error, caught by all, unprepare not reached.   *)
InsertFails(w) ==
  /\ Meets(w, "match")
  /\ faults < MaxFaults
  /\ \E c \in lent[w] :
       /\ ~ Conflicts(InsertStatement(w), leftover[c])
       /\ leftover' = [leftover EXCEPT ![c] = @ \cup {InsertStatement(w)}]
  /\ faults' = faults + 1
  /\ Abandon(w)

(* Mutant of RulesDone: the last rule is left out.                         *)
RulesDoneOneShort(w) == pc[w] = "rules" /\ rule[w] >= NumRules

RulesDone(w) == pc[w] = "rules" /\ rule[w] \notin Rules

(* Mutant of SetProcessed: the update names another table.                 *)
SetProcessedElsewhere(w) ==
  /\ RulesDone(w)
  /\ row' = [row EXCEPT ![w] = 0]
  /\ pc' = [pc EXCEPT ![w] = "next"]
  /\ UNCHANGED <<leaseVars, dbVars, leftover, batch, rule, faults, interrupted, stops>>

SetProcessed(w) ==
  /\ RulesDone(w)
  /\ processed' = processed \cup {row[w]}
  /\ row' = [row EXCEPT ![w] = 0]
  /\ pc' = [pc EXCEPT ![w] = "next"]
  /\ UNCHANGED <<leaseVars, arrived, alerts, leftover, batch, rule, faults,
                 interrupted, stops>>

SetProcessedFails(w) ==
  /\ RulesDone(w)
  /\ faults < MaxFaults
  /\ faults' = faults + 1
  /\ Abandon(w)
  /\ UNCHANGED leftover

ReturnConnection(w) ==
  /\ pc[w] = "next"
  /\ batch[w] = {}
  /\ \E c \in 1..PoolSize : Give(w, c)
  /\ pc' = [pc EXCEPT ![w] = "top"]
  /\ UNCHANGED <<dbVars, leftover, batch, row, rule, faults, interrupted, stops>>

(* An SQL error in the select, which is outside of the try block, or a     *)
(* kill: at any time.                                                      *)
Killed ==
  /\ faults < MaxFaults
  /\ faults' = faults + 1
  /\ Restart("killed")

Step(w) ==
  \/ GetConnection(w) \/ SelectBatch(w) \/ NextRow(w) \/ Miss(w) \/ Alert(w)
  \/ BadJson(w) \/ DumpFails(w) \/ OtherException(w) \/ InsertConflict(w)
  \/ SetProcessed(w) \/ ReturnConnection(w)

Next ==
  \/ \E r \in Rows : Arrive(r)
  \/ \E w \in Threads : Step(w) \/ InsertFails(w) \/ SetProcessedFails(w)
  \/ Killed

Spec == Init /\ [][Next]_vars

(* The scheduler runs every thread that can run.                           *)
FairSpec == Spec /\ \A w \in Threads : WF_vars(Step(w))

-----------------------------------------------------------------------------
Statements == {"insert_alert", "insert_alerts"} \X (Workers \cup {"other"})

TypeOK ==
  /\ free \subseteq 1..PoolSize
  /\ lent \in [Threads -> SUBSET (1..PoolSize)]
  /\ arrived \subseteq Rows
  /\ processed \subseteq Rows
  /\ alerts \in [Rows -> [Rules -> 0..2]]
  /\ leftover \in [1..PoolSize -> SUBSET Statements]
  /\ pc \in [Threads -> {"top", "select", "next", "rules"}]
  /\ batch \in [Threads -> SUBSET Rows]
  /\ row \in [Threads -> Rows \cup {0}]
  /\ rule \in [Threads -> 1..(NumRules + 1)]
  /\ faults \in 0..MaxFaults
  /\ interrupted \subseteq Rows
  /\ stops \subseteq {"throw", "conflict", "killed"}

MatchesOf(r) == {k \in Rules : Verdict[r][k] \in {"match", "dump"}}

(* At least once: a row marked as processed, by whichever attempt, has an  *)
(* alert of every rule that matches it.                                    *)
ProcessedFullyAlerted ==
  \A r \in processed : \A k \in MatchesOf(r) : alerts[r][k] > 0

(* At most once, except after trouble: a second alert of the same rule on  *)
(* the same row needs an earlier attempt that was cut short.               *)
DuplicateNeedsInterruption ==
  \A r \in Rows : \A k \in Rules : alerts[r][k] > 1 => r \in interrupted

Unprintable(r) == \E k \in Rules : Verdict[r][k] = "dump"

(* A thread ends the process over a statement name only if an insert of an *)
(* alert failed before, or a row whose alert cannot be written was handled *)
(* by a thread that uses the name with another text: no other exception,   *)
(* and no restart in between, leaves a statement that is in the way.       *)
ConflictNeedsCause ==
  "conflict" \in stops =>
    \/ faults > 0
    \/ \E x \in interrupted, w \in Threads \ Tolerant :
         /\ Unprintable(x)
         /\ Conflicts(InsertStatement(w), {InsertStatement(WorkerOf[x])})

(* A row that meets no exception is processed in the end, although rows    *)
(* of its table that throw come before it in every batch - unless a row or *)
(* a statement name ends the process, which it may then do each time it    *)
(* starts; a database error, or a row that cannot be written, leaves an    *)
(* insert statement behind that its own alerts conflict with; or there are *)
(* fewer connections than threads: then a thread may find none, time and   *)
(* again.                                                                  *)
Sound(r) == \A k \in Rules : Verdict[r][k] \in {"miss", "match"}

Obstructed(r) ==
  MatchesOf(r) # {} /\ \E x \in arrived :
    Unprintable(x) /\ Conflicts(InsertStatement(WorkerOf[r]), {InsertStatement(WorkerOf[x])})

Short == Cardinality(free \cup UNION {lent[w] : w \in Threads}) < Cardinality(Threads)

EverySoundRowProcessed ==
  \A r \in {x \in Rows : Sound(x)} :
    r \in arrived ~> \/ r \in processed
                     \/ stops \cap {"throw", "conflict"} # {} \/ faults > 0 \/ Short
                     \/ Obstructed(r)

(* No thread keeps a connection from the others: however the rules and     *)
(* the inserts of its batch end, it gives it back.                         *)
EveryConnectionReturned == \A w \in Threads : lent[w] # {} ~> lent[w] = {}

(* The engine implements Detection: duplicates are stuttering steps there. *)
Promise == INSTANCE Detection WITH
  Matches <- [r \in Rows |-> MatchesOf(r)],
  raised <- [r \in Rows |-> {k \in Rules : alerts[r][k] > 0}],
  done <- processed

PromiseKept == Promise!Spec
=============================================================================
