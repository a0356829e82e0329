# Vajra: a TLA+ model of the event pipeline and the fleet server

This directory models the server side of Vajra (`src/vajra`), an endpoint
detection system: osquery agents on many hosts send events to a fleet server,
which stores them in PostgreSQL; two further programs enrich the events and run
detection rules over them; an API server serves a user interface and queues
queries for the agents. The programs share nothing but the database.

TLC checks the modules on small instances, TLAPS proves the theorems listed
below for every value of the constants. `PROJECT.json` has the list of runs,
mutants, theorems, hazards and the source lines of every definition.

## 1. The system

| part | source | state | operations |
|---|---|---|---|
| connection pool | `common/ConnectionPool.cpp` | mutex, condition variable, FIFO queue of connections | open at start, `GetConnection`, `ReturnConnection` |
| event processor | `event_processor/EventProcessor.cpp` | nine threads; the column `process_tree` of nine event tables; statements left prepared on connections | select a batch of rows without a tree, build the tree, update the row |
| process tree builders | `event_processor/main.cpp` | none of their own; read the process tables query by query | find the process row of an event, walk up its ancestors, reuse a stored tree |
| rule engine | `rule_engine/RuleEngine.cpp` | eleven threads; `is_processed` of the event tables, `alerts` | select a batch, run every rule on a row, insert alerts, mark the row |
| fleet server | `server/request_handler.cpp`, `fleet_main.cpp`, `WebServer.cpp` | `nodes` (host and node key), `query_queue`, `query_result`, the event tables; the sequence of `rand()` | `enroll`, `config`, `logger`, `distributed_read`, `distributed_write`, one thread per TLS session |
| API server | `server/api_server.cpp`, `RequestRouter.cpp`, `server/api/*` | the router's map of paths; statements left prepared on pooled connections; single rows of the same tables | look a request up, check its token, run one of its handlers |
| agents | osquery (external) | node key, a buffer of log entries, queries to run and to report on | enroll, log, send, ask, report, give up, start again with a new key |
| docker | `docker-compose.yml` | - | starts a program that has ended again; does not wait for the database |

How they interact. The fleet server inserts event rows; a process tree is
null until the event processor stores one, and the `bpf_process_tree` thread of
the rule engine selects rows that have one. Threads of one program share its
pool of `max_connections` (10) connections. An event processor worker holds its
connection while it takes a second one for the builder. Prepared statements
belong to the connection, so a statement that is left behind is met by another
thread; in the API server by another request. `enroll` and the other endpoints
meet in the table `nodes`, the API server and `distributed_read` in
`query_queue`. The order in which `logger` inserts rows is the order the tree
builders see.

What is hard about it:

* the notification after the unlock in the pool, its nested use, and a pool
  that starts with fewer connections than configured (or none) and stays so;
* statement names that several threads use with different texts, and error
  paths that leave them prepared;
* batches that are selected once and worked on for a long time;
* rows that arrive in any order, pids that repeat on other hosts, after a
  reboot and after a wrap-around;
* exceptions that no loop catches, and with them restarts at any step; none of
  the steps of a loop share a transaction;
* overlapping requests of one agent, answers that are lost, keys that become
  invalid, and a random sequence that starts again with the process;
* a log request that is stored entry by entry, and answered as usual when it
  was cut short;
* a router that inserts into its map while other sessions read it, walks from pid
  to pid without an end, and helpers that run off theirs without a return value.

What makes each part correct:

* pool: no connection lost or in two hands, no lost wake-up, no deadlock while
  a spare connection exists;
* event processor: nobody works on a row that is taken care of, every row gets
  a tree, programs end for known reasons only;
* builders: a tree belongs to one host and one boot, goes strictly upwards, is
  complete when rows arrive in order and a host's rows are orderly, and the walk comes back to a row only
  after a pid wrapped around;
* rule engine: at-least-once alerts, duplicates only after an interruption, a
  failing row does not block the table;
* fleet server: data and queries stay with their host, a query is delivered
  unless its answer is lost, once unless there is trouble, a report is stored;
* log ingestion: an event is stored under its sender, in the order of the log,
  at least once, and once, up to the troubles the code is exposed to; whatever
  is logged leaves the agent;
* API server: requests do not get in each other's way through what they leave
  on a connection, or only those of known handlers; registered paths keep their
  handlers; every request is answered, unless its walk or the walks that hold the
  pool go round in circles.

## 2. Modules

| module | models | built on |
|---|---|---|
| `ConnectionLease` | what a client relies on: a connection is free or lent | - |
| `ConnectionPool` | the monitor, step by step | implements `ConnectionLease` |
| `EventProcessor` | the nine loops | extends `ConnectionPool` |
| `ProcessTree` | the walk of the builders over a growing table | - |
| `Detection` | what the rule engine promises | - |
| `RuleEngine` | the eleven loops | extends `ConnectionLease`, implements `Detection` |
| `FleetServer` | enrollment and distributed queries with agents, API and restarts | - |
| `LogIngest` | `logger`, the agents' buffers, stale keys and restarts | - |
| `ApiHandlers` | what every API handler does to the statements of its connection | - |
| `ApiServer` | sessions, router, authenticator and handlers | extends `ConnectionLease`, `ApiHandlers` |
| `*Proofs` | theorems; `LogOrderProofs` extends `LogIngestProofs` | the module they are named for |
| `MC*` | instances for TLC | the module they are named for |

`RuleEngine` and `ApiServer` use the abstract pool because their threads take
one connection at a time; that this is sound is what `PoolImplementsLease`
proves. `EventProcessor` uses the real one because it nests, and
`WorkersKeepPool` proves that the nine loops keep to the monitor's rules, so
that every theorem of `ConnectionPoolProofs` holds of them.

Definitions named `...NoPop`, `...Nobody`, `...AnyHost` and so on, introduced by
"Mutant of", are wrong versions of the definition that follows them. They are
used by no specification; each shows that a property would notice such a bug.

### From code to model

*ConnectionPool.* `pool`, `held[t]` and `mode[t]` are the queue, the connections
a thread has taken, and its place in the monitor. A critical section is one
step. `NotifyOne` is a step of its own because the code notifies after the
unlock. Spurious wake-ups are allowed. `Open` lets the constructor fail for
some of the connections. `PoolRestart` is a new process.

*EventProcessor.* `pc[w]` names the calls of a loop that other threads can see
between: `top` (first `GetConnection`), `prepare` (prepare and select), `next`
(row of the batch, second `GetConnection`), `build`, `return`, `update`.
`prepared[c]` has the statements whose names are used with several texts; a
statement name with one text can never conflict. `tree[r]` is `absent` (not
inserted yet), `none`, or a result. A builder's catch block reaches the end of
a function that must return a value; that is undefined, and modelled as either
a garbage result or the end of the process (`UndefinedResult`). `Restart`
records why.

*ProcessTree.* `log` is a process table in the order of ids, `tree` its column
`process_tree`. A builder is a record in `walk[w]` and reads one query per
step (`QueryExecve`, `QueryFork`), while rows arrive and trees are stored.
Rows are `[pid, ppid, time, uptime, boot, host, path, exec]`; `boot` is ghost
data that the assumption ties to `time - uptime`. One worker for the process
table and one for an event table run at a time: the workers of the other
tables read the process table in the same way and write to tables of their own.

*RuleEngine.* `Verdict[r][k]` says what happens when rule k meets row r: no
match, match, a match whose alert cannot be written, an error of the JSON
library before that, or another exception. The loops put the alert together in
the arguments of `exec_prepared`, after `prepare`, and `dump()` throws when a text
is not UTF-8: `DumpFails` leaves the insert statement on the connection with no
error of the database. `json` is for the parse of a stored tree
(`run_bpf_process_tree`) and for a rule that throws, where nothing is prepared
yet. A thread's `rule[w]` is the index of its inner loop. `leftover[c]` has the
insert statements that are still prepared on connection c after an insert failed
or was not reached. `Tolerant` are the four loops with `catch (...)`.
`interrupted` is ghost data.

*FleetServer.* `session[s]` is a request and how far its handler has come; a
statement is a step. `nodes[h]` is the node key of host h (`node_key` is UNIQUE,
`host_identifier` the primary key, so the two error paths are exact). `drawn` is
the place in the sequence of `rand()`, which is not seeded: it goes back to 0
with `Restart`. Keys are the numbers drawn. `agentKey`, `asked`, `work` belong
to the agents. `got`, `dropped` and `sender` are ghost data.

*LogIngest.* `session[s]` is a log request and its handler: `lookup` is
`get_hostname`, whose `at(0)` throws for an unknown key before `node_invalid` is
set, so that the answer has no such member (`null`); `validate` is
`validate_node_key` with `update_last_seen`; `store` is the loop over the
entries, of which `Insert`, `Skip` and `Throw` are the three ways through its
body. `Entries[h]` is what host h will log, each entry being `sound`, `bad` (a
value does not convert, the loop ends and the answer is as usual) or `unknown`
(no table is for it). An agent sends from the head of its buffer, drops what
was sent when the answer says the key is good, and sends it again otherwise;
osquery may take an answer without `node_invalid` either way, so `Receive` is
nondeterministic there. `enroll` and `config` are one step each, as the other
threads of the agent use them. All event tables are one sequence `rows`.

*ApiHandlers* and *ApiServer.* libpqxx keeps prepared statements by name on the
connection, and the connection goes back to the pool with them. A handler is
its sequence of `prepare`, `exec_prepared` and `unprepare` on the names that are
used with more than one text in the program, with the places where it may leave
early; a name with one text cannot be refused and is left out. `Asked` stands for texts
that contain something of the request. The tree helpers of `events.cpp` catch
everything and then return nothing: `walk` and `cut`. Their loops go from pid to
pid without a list of what they have visited, so that a `Circle` may have no end:
the session stays in `round` and keeps its connection until the memory is used
up (`Collapse`). It may also break off at a column that does not convert; on
Windows the way down to the children always does at the first socket event, since
`win_socket_events` has no column `event_type`, and it leaves the statements of the
handler behind. A `Snapshot` is a walk in a stored list of processes: it takes
the last element of an empty vector when the parent is not in the list, and
a list that does not parse makes the helper return nothing. A session asks the
authenticator (which takes and returns a connection), looks its path up (`Look`,
`Looked`, and `Insert`, `Inserted` for an unknown one), and runs the handler on
a connection of its own. Three outcomes are undefined behaviour and modelled as
choices: a lookup in the `unordered_map` that overlaps an insertion may miss
what is there, the insertion may lose an entry, and the process may end
(`Collapse`); a call through a route that is being overwritten may end it; a
helper without a return value ends it or yields something the handler can go
on with. `causes` is ghost data: the races and walks that went wrong without a
database error.

### Assumptions about code that is not here

* libpqxx is the release 6 line: preparing a known name with the same text does
  nothing, with another text throws `argument_error` (which is not an
  `sql_error`); unprepare of an unknown name does nothing; `exec_prepared` does
  not begin a transaction. Therefore each statement of the program takes effect
  by itself, although the code reads `transaction.commit()`.
* An agent (osquery) sends one request at a time per thread, enrolls when it has
  no key, drops its key when told `node_invalid`, keeps what it has to report or
  to log until an answer says that it was taken, and reports everything in one
  request.
* docker starts a program that ends again (`restart: always`).

## 3. Runs

| run | instance and bounds | what it shows |
|---|---|---|
| `pool` | 3 threads, 0 to 4 connections | the monitor's invariants, that it implements the lease, restarts included |
| `event_processor_conflict` | 2 workers, 3 connections, 4 rows (2 with pid <= parent), batch 2, no database error (fair) | batches stay valid; the conflict a statement left behind leads to; every row settled |
| `event_processor_faults` | 3 workers, 4 connections, 3 rows, 1 database error | garbage trees need an error; the loops follow `PoolSpec` |
| `tree_reboot` | 4 rows (a fork among them) of 2 hosts and 2 boots, 1 socket event, any order of arrival (fair) | no mixed trees, strictly descending; everything gets a tree |
| `tree_order` | bpf tables, 8 rows in order: 7 of one host of which the last has a wrapped pid, 1 of another host with a wrapped pid from the start; a container, 1 event, walks of up to 7 | complete trees while a host is orderly; going round in circles needs a wrap |
| `tree_latest` | fork and exec in any order | **violated**: row chosen by id is not the latest |
| `rule_engine` | 2 threads (one of each kind), 1 or 2 connections, 4 rows of which the first of each table always fails, one of them while its alert is written, 2 rules, batch 2, 1 error or kill (fair) | at least once, at most once without interruption, what a conflict over a statement name needs, implements `Detection`, sound rows behind failing ones are processed, connections come back |
| `log_ingest` | 2 hosts, one with 4 entries (bad, sound, unknown, sound), batch 2, 2 sessions, two kinds of trouble per run (fair) | events under their sender, in order, lost or repeated only for the causes named; everything leaves the buffer |
| `fleet_overlap` | 2 hosts, 2 sessions, 2 queries, 1 error, 1 timeout, 1 deletion | nothing reaches the wrong host; delivered once |
| `fleet_live` | 1 host, 2 sessions, 1 of everything, a restart included (fair) | sent queries were in an answer; reports are stored; the query is sent |
| `fleet_reuse` | 2 hosts, 1 restart, 1 deletion | **violated**: results stored under the wrong host |
| `api_server` | 18 menus of handlers: each group that shares statement names with 1 session, 1 connection and 1 error, the liveliest with 2 sessions; process trees with 1 session and every helper, and with 2 sessions and helpers of up to 7 calls; known and unknown paths with 2 sessions and 2 connections (fair) | which handlers can be refused; what heals a connection; what undefined behaviour, broken and endless walks can do; every request answered but for those |

Why the bounds are enough. Two connections' worth of contention and one
spare, three threads (a notifier, a sleeper and one that comes between them)
show every case of the monitor; the theorems cover the rest. In
`EventProcessor` the interesting interaction is between two threads and one
connection they use in turn; batches of 2 with more rows than that reach the
limit. A walk needs three generations to reuse a stored tree (`tree_order` has
four), and two hosts and two boots to mix them up (`tree_reboot`). In
`FleetServer` and `LogIngest` two sessions suffice for a race,
since an agent waits for one answer at a time and any conflict is between two
statements. A second error or timeout adds nothing to the conditions the
properties state (they say "needs at least one"). `Troubles` of `log_ingest`
lists the combinations: an error with a timeout (an entry skipped by one
handler and stored by the other), an error with a restart, a timeout with a
deletion, and two restarts with two deletions - the least it takes for a key to
go to another host and come back while a request is under way, which is why
`RowsAreTheSenders` gives up the host name after the second restart. With four
entries and a batch of two, requests overlap in part. In `api_server` one
session stands for any number where names are concerned: a connection has one
user at a time, so that what matters is the sequence of handlers on it, which
one session produces in every order; sessions meet in the router and in the
pool, which the menus with two sessions are for. A walk in a circle keeps its
connection from the other session in the menu of process trees with two; there
`helper` bounds the calls of a helper so that the trees of process alerts are in,
and those of containers and of socket and file alerts, which use more names, are
not.

Deadlock is checked everywhere but in the `ProcessTree` runs and in
`log_ingest`, where the model ends when every row of the finite history has
arrived and has a tree, or every entry was taken.

`rule_engine` has one failing row per table and a batch of two. With as
many failing rows as the batch has places (100 in the code) the property does
not hold: they are selected first for ever.

`fleet_live` has one host because with a restart and a second one the property
fails for the reason `fleet_reuse` shows: the key an agent holds may be valid
again as the key of another host, so that the agent is never told to enroll.
`log_ingest` does not need that: the agent's entries leave its buffer either
way, be it that they are dropped.

### Fairness

Threads and agents are weakly fair: a thread that can go on does. This is what
the scheduler of the operating system gives. In `event_processor_conflict` there
is a spare connection, so that a waiting thread is woken in the end. In
`log_ingest` the handlers and each of the agent's threads (enroll, config, the
sender) go on; `config` is asked on a timer of its own, which is what makes a
stale key known, since `logger` does not tell. In `api_server` getting a
connection is strongly fair: the connection may be taken and returned by others
in between, and the queue of a condition variable wakes every waiter in the end;
for a monitor with waiters that may be overtaken for ever the property does not
hold. `RuleEngine` asks for less and gets less: with one connection for two
threads `EverySoundRowProcessed` excuses a thread that is overtaken (`Short`).
`EveryRequestAnswered` asks nothing of a walk in a circle, nor of a request that
finds all connections of the pool with such walks.
Database errors, arrivals, restarts, timeouts and operator commands are never
promised.

### Findings

1. `tree_latest`. The comment at `event_processor/main.cpp:372-376` says that
   ids cannot be relied upon and the time column must be used to get the latest
   row. The lookup of the process row of a socket, user or file event orders by
   id (lines 549, 628, 911, 990).
2. `fleet_reuse`. The comment at `server/request_handler.cpp:58-61` says that the
   node key is unique and identifies the node. Keys come from an unseeded
   `rand()` and are only compared with the present rows of `nodes`. After a
   restart a key of a deleted or re-enrolled node is given out again while its
   former owner may still use it.

Further observations that contradict no text of the repository and are stated as
conditions of properties:

* A stored tree can contain its own process once a pid has wrapped around.
  Gluing keeps the stored tree of an ancestor and drops what was collected on
  the way to it, the wrapped row included, so that the list looks regular.
  `RevisitNeedsWrap` therefore says of a list that is to be stored only that
  some reported row has wrapped, and of a walk in search that one is in its list.
* A program that a process starts by exec after it has forked is a row younger
  than the child's. A child whose tree is built after that finds this row first;
  it has no tree yet, so that it is collected and the walk goes on to the
  grandparent, whose stored tree replaces what was collected: the parent is
  missing. (Rows by time: pid 2; 3, child of 2; 4, child of 3; 3 again, the exec;
  then 4 is handled.) It came out of the attempt to prove `CompleteInOrder`, which
  therefore asks for more than unwrapped pids (`Orderly`): also one boot, and one
  parent for all rows of a pid.
* An entry that does not convert takes the entries behind it in the same request
  with it, and the answer is a success (`LostNeedsCause`).
* A process tree request for a row that is gone leaves statements on its
  connection that make later requests for other kinds of trees fail until one
  of the same kind happens to get that connection (`HealedBySameText`).
* On Windows the tree of a process with a child that opened a socket does the
  same: the way down reads `event_type` (`events.cpp:2323`), which
  `win_socket_events` (`create_tables.sql:548`) does not have. The next such
  request on that connection is refused inside the helper, which then returns no
  value: the process may end without any error of the database (`HarmNeedsCause`).
* A process whose recorded parent is itself, or a circle of pids after a wrap,
  makes the walk to the parents (`events.cpp:978-1065`) run for ever with its
  connection; as many as the pool has connections stop the server
  (`EveryRequestAnswered`).
* An event with a text that is not UTF-8 makes a rule engine thread leave its
  insert statement on the connection each time it tries the row. Threads whose
  insert has the same name and another text then skip their own matching rows, or
  end the process (`ConflictNeedsCause`, `EverySoundRowProcessed`).

## 4. Proofs

Every theorem holds for all values of the constants that satisfy the module's
`ASSUME`. Each safety theorem has the same form: an inductive invariant, its
`Init`, one lemma per group of actions, and the property as a consequence.

| module | theorem | property |
|---|---|---|
| `ConnectionPoolProofs` | `PoolTypeCorrect`, `ConnectionsConserved`, `WakeupsKept`, `NoDeadlockWithSpare`, `PoolImplementsLease` | `PoolTypeOK`, `Conservation`, `NoLostWakeup`, `DeadlockNeedsShortage`, `LeaseKept` |
| `EventProcessorProofs` | `WorkersKeepPool`, `BatchesNeverStale`, `ConflictsExplained`, `GarbageExplained`, `WorkersNeverStuck` | `PoolSpec`, `BatchStaysPending`, `ConflictNeedsSelfParent`, `GarbageNeedsFault`, `DeadlockNeedsShortage` |
| `ProcessTreeProofs` | `TreeTypeCorrect`, `TreesOfOneOrigin`, `TreesFall`, `LoopsNeedWrap`, `TreesComplete` | `TypeOK`, `OneHostOneBoot`, `TreesDescend`, `RevisitNeedsWrap`, `CompleteInOrder` |
| `RuleEngineProofs` | `RuleEngineTypeCorrect`, `NoDetectionLost`, `DuplicatesExplained`, `ConflictsExplained`, `RuleEngineImplementsDetection` | `TypeOK`, `ProcessedFullyAlerted`, `DuplicateNeedsInterruption`, `ConflictNeedsCause`, `PromiseKept` |
| `FleetServerProofs` | `FleetTypeCorrect`, `SentQueriesAnswered`, `RightHostUntilRestart`, `ReportsKeptUntilFault`, `OnceUntilTrouble` | `TypeOK`, `SentIsInAnAnswer`, `WrongHostNeedsRestart`, `LostResultNeedsFault`, `TwiceNeedsTrouble` |
| `LogIngestProofs` | `IngestTypeCorrect`, `SendersRight`, `StoredOnce`, `NothingLost` | `TypeOK`, `RowsAreTheSenders`, `TwiceNeedsLostAnswer`, `LostNeedsCause` |
| `LogOrderProofs` | `RowsInOrder` | `FirstRowsInOrder` |
| `ApiServerProofs` | `ServerTypes`, `OthersServed`, `HarmCaused`, `HealedByTextOnly` | `TypeOK`, `OthersNeverRefused`, `HarmNeedsCause`, `HealedBySameText` |

*ConnectionPoolProofs.* The inductive invariant joins `PoolTypeOK`,
`Conservation`, `NoLostWakeup` and `NestingBound` (a thread inside
`GetConnection` holds at most one connection). `NoLostWakeup` counts: while
somebody sleeps, `Len(pool)` is at most the number of threads in `woken` or
`notifying`; every step changes both sides by at most one, and the lemmas on
cardinalities say by how much. `NoDeadlockWithSpare` follows: when all sleep the
queue is empty, each connection is held by a thread, and each thread holds at
most one, which is an injection. `PoolImplementsLease` maps `Pooled` and `held`
to `free` and `lent`; waiting, waking and notifying are stuttering steps.

*EventProcessorProofs.* `WorkersIInv` adds to the pool's invariant what a
worker's two variables say about its connections (`HandsOK`: `held[w]` is
exactly what they point to, so that the loops never take a third connection or
return one they do not have), that rows in hand and in batches belong to the
worker and have no tree (`RowsOK`), and where statements with shared names can
be (`SharedNameOK`: with the worker that is using them, or left behind after a
row with pid <= parent, or after a database error).

*ProcessTreeProofs.* `TreeIInv` says of every list, collected or stored, that its
rows have arrived, agree with the row it is for in host and boot (`OneOrigin`),
and fall in pid as long as no wrapped pid is reported (`Falls`); and of a walk in
search that the next key is below all collected pids unless the list has a
wrapped row (`Searching`). Gluing needs all three: the stored tail is `Good` for
the ancestor, and the ancestor for the row. The attempt to prove
`RevisitNeedsWrap` in a stronger form, that the wrapped row is always in the list,
showed that it is false (see the observations).

`TreesComplete` needs the reference definition first: `Ancestry` is a recursive
function over generations, and that there is such a function is itself a theorem
(`AncestryDefined`). With it come two facts about it: a row has one parent, and
after as many generations as its pid there are no more ancestors, since pids
fall (`Whole` states the list for every larger number of generations, which makes
it independent of where the recursion starts). `CompleteIInv` adds to `TreeIInv`
that rows are reported once and in order (`Arrivals`), that the rows before the
one in hand have trees (`Turns`, from "order by id asc"), that settled rows of an
orderly host have whole trees (`WholeTrees`), and that the walk for such a row
ends at the first row it finds (`WholeWalk`): on an orderly host all rows of the
parent are older, so that they are settled and nothing is collected before a
stored tree is met. The hypothesis speaks of the rows that have arrived so far;
since it is false for ever once it is false, what was stored before can be used.

*RuleEngineProofs.* `ProcessedFullyAlerted` is not inductive: the invariant adds
what a thread has achieved for the row in hand (an alert of each matching rule
below `rule[w]`), that rows in hand and in batches belong to their thread and are
not processed, and, for duplicates, that a row with an alert beyond what its
present attempt has raised was interrupted. For `ConflictsExplained`,
without a database error only the insert statements of threads that met a row
they could not write are left on connections (`LeftByDump`), and a conflict is
one of these with a thread that does not catch everything; for the refinement, that the rows in hand are not
processed makes every alert a step of `Detection`.

*FleetServerProofs.* Type correctness, then `SentIsInAnAnswer`, which is
inductive with the types: the lemma `AnswersGrow` says that no step but the last
takes a query out of an answer, `GivenStays` that what an agent was given stays
given. Then three invariants over the shape of requests: until a
restart a key belongs to one host (over `nodes`, the agents' keys and those of
open sessions, all at most `drawn`); a report covers what its agent still has to
report; without trouble an agent has one session, which makes the gap between
choosing a query and marking it harmless.

*LogIngestProofs* and *LogOrderProofs.* `ShapeOK` ties an agent's request to the
head of its buffer and its loop counter to what the answer will say. On top of
it, for `SendersRight`: two hosts have to do with one key only after a restart,
and then the key was drawn again (`KeysOK`), so that a name found under a key
that is not the sender's excludes finding the sender under it before the next
restart (`NamesOK`). For `StoredOnce`: without lost answers every handler is
waited for, and no entry gets into a second request once a loop went over it
(`OnceOK`). For `NothingLost`: without deletions a key stays in its owner's row
(`KeptOK`), and everything a loop or an agent is through with is stored, not
convertible, or behind such an entry (`StoredOK`). For `RowsInOrder`: what an
agent has not dropped is stored without gaps (`BehindOK`, `LoopsOK`, both
unconditional), and a handler that comes late has to pass the same
unconvertible entry the earlier one stopped at, so that it does not fill a gap
from behind (`CalmSession`).

*ApiServerProofs.* The invariant must say what can be left on a connection, and
that is the outcome of whatever handlers ran there before. `Left` says
what is on a connection after so many calls; the first part of the module is the algebra
of it: one call, calls one after the other, scripts joined. `Tidy` names the
scripts that end with the statements they began with, whatever those are,
`CallsSafe` and `WalkSafe` what the invariant needs of a handler on any of its
ways out (only statements of the known troublemakers are left; only the handlers
in `Troubled` are refused; names of the tree helpers are left only by a tree
helper that is cut short or by a walk that broke off or has no end, which is a
cause). `HandlersGood` shows that for every script of every handler, each written
as the calls of the code. `IInv` then does not look into handlers any more: it
adds the pool (`Pool`: a connection of a session is lent to it and to nobody
else), the shape of sessions, the router's windows (`Routed`: until two of them
were in the map at once every registered path has its own handler) and that a
helper that is cut short has a cause. `HealedByTextOnly` is an action property:
`GoneIsFreed` says what calls must contain for a statement to be gone after them.

*Induction.* The provers cannot instantiate an induction theorem that takes an
operator, so two modules derive from the well-foundedness of `<` that every
nonempty set of numbers has a least one (`LeastNumber`) and, from that, induction
over a set of numbers (`SetInduction`); the statement to prove is put into a set
{n \in Nat : ...}. The recursive function `Ancestry` and the calls of one script
after another are reasoned about in this way.

Before each proof TLC checked the inductive invariant as an invariant of the
run, with quantifiers over numbers bounded.

Only model-checked: everything about liveness (`EveryRowSettled`,
`EverySoundRowProcessed`, `EveryConnectionReturned`, `EveryEntryTaken`,
`QueriesAreSent`, `EveryRequestAnswered`), since fairness is out of the prover's
reach, and of course the two violated properties. All other invariants and
action properties of the runs are theorems.

## 5. Not modelled

* Which schedule `config` answers with: three selects from configuration tables,
  and the time of the newest stored process, from which the agent is told to go on.
* The contents of the tables that API handlers read and write, and their JSON;
  deleting a node and scheduling a query are in `FleetServer` and `LogIngest`
  with their effect. That scheduling for several hosts may succeed for some of
  them only is visible there as a state, but not what the client believes.
* The walk of the Windows builders (process GUIDs) - only their use of
  connections and statements is.
* What a detection rule or a context query computes, the contents of events and
  alerts, HTTP, TLS, matching of query strings, configuration files and logging.
* The plugin loader: two shared objects with one plugin name make every rule of
  one of them raise its alerts twice; `RuleEngine` takes the list as given.
* The shared pool of the fleet server: its handlers take one connection and
  return it, which `ConnectionLease` covers; `FleetServer` and `LogIngest` do not
  bound the number of sessions by it.
* `correlation`, `remediation`, `python_RuleEngine` (not started by
  `docker-compose.yml`), the osquery extensions, the user interface, `old`.

Measured in lines, most of the repository is of these kinds: generated kernel
headers of the eBPF programs (`vmlinux.h` alone is two thirds), tables of
detection rules, the superseded copy under `old`, vendored libraries. The models
cover the programs under `src/vajra` that keep state or run concurrently.

## 6. Plan

Done, in this order: `ConnectionPool` and its proofs, `EventProcessor`,
`ProcessTree`, `RuleEngine` with `Detection` and proofs, `FleetServer`,
`LogIngest`, `ApiHandlers` and `ApiServer`, and proofs of all their safety
properties. What remains, should the code change or more be wanted:

1. That `RuleEngine` and `ApiServer` on the real pool implement themselves on the
   abstract one, as `WorkersKeepPool` says for the event processor.
2. The walk of the Windows builders, in the manner of `ProcessTree`.
3. The plugin loader, with `DuplicateNeedsInterruption` read per plugin.
