----------------------------- MODULE ProcessTree -----------------------------
(***************************************************************************)
(* How the event processor finds the ancestors of a process: the builders  *)
(* get_process_tree and get_bpf_process_tree, and print_socket_tree, which *)
(* stands for print_user_tree, get_bpf_socket_tree and get_bpf_file_tree   *)
(* too (src/vajra/event_processor/main.cpp).                               *)
(*                                                                         *)
(* The agents of all hosts report process events to one table.  Reports    *)
(* may be delayed, so rows get their record ids in any order.  A builder   *)
(* reads the table one query at a time, while rows keep arriving and, for  *)
(* a socket event, while the process table's own worker fills in trees.    *)
(***************************************************************************)
EXTENDS Integers, Sequences, FiniteSets

CONSTANTS
  History,    (* every process event that will ever be reported            *)
  Events,     (* every socket event that will ever be reported             *)
  Containers, (* docker start events: [pid, host, time]                    *)
  Bpf,        (* TRUE: the bpf tables, FALSE: the audit tables             *)
  InOrder,    (* TRUE: reports arrive in the order of their time           *)
  MaxWalk     (* entries a builder can hold before its memory runs out     *)

(* path is the program, exec is cmdline <> '', boot tells apart the        *)
(* sessions of a host: rows of one session agree on time - uptime up to    *)
(* the rounding the code allows for, rows of two sessions do not.          *)
Gap(x, y) == (x.time - x.uptime) - (y.time - y.uptime)

ASSUME HistoryAssumption ==
  /\ \A h \in History : /\ h.pid \in Nat /\ h.ppid \in Nat
                        /\ h.time \in Nat /\ h.uptime \in Nat
                        /\ h.exec \in BOOLEAN
  /\ \A g, h \in History : g.host = h.host =>
       (g.boot = h.boot <=> Gap(g, h) \in -3..3)
  /\ Bpf \in BOOLEAN /\ InOrder \in BOOLEAN
  /\ MaxWalk \in Nat

VARIABLES
  log,        (* the process table: log[i] is the row with record id i     *)
  tree,       (* tree[i]: its process_tree column: null, or a list of rows *)
  container,  (* the ids with is_container_process = '1'                   *)
  evtree,     (* evtree[e]: the same column of socket event e              *)
  start,      (* start[e]: the process row e's tree was built from, or 0   *)
  walk,       (* walk[w]: the builder worker w is in                       *)
  killed      (* the memory ran out and the process was started again      *)

vars == <<log, tree, container, evtree, start, walk, killed>>

(* A row or event that is not there, one whose process_tree is null, and   *)
(* one whose process_tree is the list l.                                   *)
Absent == [state |-> "absent", list |-> <<>>]
NoTree == [state |-> "null", list |-> <<>>]
Tree(l) == [state |-> "set", list |-> l]
Ids == DOMAIN log

(* "process": the process table's worker.  "event": the socket table's.    *)
Walkers == {"process", "event"}

(* key: the pid looked for next.  from: the row whose time and uptime the  *)
(* next row is compared with.  list: process_list, nearest ancestor first. *)
Idle == [pc |-> "idle"]

-----------------------------------------------------------------------------
Init ==
  /\ log = <<>>
  /\ tree = <<>>
  /\ container = {}
  /\ evtree = [e \in Events |-> Absent]
  /\ start = [e \in Events |-> 0]
  /\ walk = [w \in Walkers |-> Idle]
  /\ killed = FALSE

Arrived == {log[i] : i \in Ids}

(* The fleet server stores a reported row under the next record id.        *)
Report(h) ==
  /\ h \notin Arrived
  /\ InOrder => \A g \in History : g.time < h.time => g \in Arrived
  /\ log' = Append(log, h)
  /\ tree' = Append(tree, NoTree)
  /\ UNCHANGED <<container, evtree, start, walk, killed>>

ReportEvent(e) ==
  /\ evtree[e] = Absent
  /\ evtree' = [evtree EXCEPT ![e] = NoTree]
  /\ UNCHANGED <<log, tree, container, start, walk, killed>>

(* Mutant of Begin: the search starts at the row's own pid.                *)
BeginAtPid(w, i, id) ==
  walk' = [walk EXCEPT ![w] =
    [pc |-> "execve", id |-> id, key |-> log[i].pid, from |-> log[i], list |-> <<>>]]

(* What the builder does first with process row i, for target id.          *)
Begin(w, i, id) ==
  walk' = [walk EXCEPT ![w] =
    IF log[i].pid <= log[i].ppid
    THEN [pc |-> "store", id |-> id, list |-> <<>>]
    ELSE [pc |-> "execve", id |-> id, key |-> log[i].ppid, from |-> log[i],
          list |-> <<>>]]

(* A container started by docker within the hour is the parent.            *)
StartedByDocker(h) ==
  \E d \in Containers : /\ d.pid = h.ppid /\ d.host = h.host
                        /\ d.time - h.time \in -3600..3600

(* Mutant of MarkContainer: the update is keyed by the pid.                *)
MarkContainerByPid(i) ==
  container' = IF Bpf /\ log[i].pid > log[i].ppid /\ StartedByDocker(log[i])
               THEN container \cup {log[i].pid} ELSE container

MarkContainer(i) ==
  container' = IF Bpf /\ log[i].pid > log[i].ppid /\ StartedByDocker(log[i])
               THEN container \cup {i} ELSE container

(* Mutant of StartRow: a select without "order by id asc".                 *)
StartRowUnordered ==
  /\ walk["process"] = Idle
  /\ \E i \in Ids : tree[i] = NoTree /\ Begin("process", i, i) /\ MarkContainer(i)
  /\ UNCHANGED <<log, tree, evtree, start, killed>>

(* The process worker turns to a row without a tree: the first by id in    *)
(* the bpf table, any in the audit table, whose select has no order.       *)
StartRow ==
  /\ walk["process"] = Idle
  /\ \E i \in Ids :
       /\ tree[i] = NoTree
       /\ Bpf => \A j \in 1..(i - 1) : tree[j] # NoTree
       /\ Begin("process", i, i)
       /\ MarkContainer(i)
  /\ UNCHANGED <<log, tree, evtree, start, killed>>

(* The rows a socket event may belong to; "order by id desc limit 1" takes *)
(* the one that arrived last.                                              *)
RowsOf(e) ==
  {i \in Ids : /\ log[i].pid = e.pid /\ log[i].host = e.host
               /\ log[i].path = e.path /\ log[i].time <= e.time}

StartEvent(e) ==
  /\ walk["event"] = Idle
  /\ evtree[e] = NoTree
  /\ \/ /\ RowsOf(e) = {}
        /\ walk' = [walk EXCEPT !["event"] = [pc |-> "store", id |-> e, list |-> <<>>]]
        /\ UNCHANGED <<start, container>>
     \/ \E i \in RowsOf(e) :
          /\ \A j \in RowsOf(e) : j <= i
          /\ start' = [start EXCEPT ![e] = i]
          /\ Begin("event", i, e)
          /\ MarkContainer(i)
  /\ UNCHANGED <<log, tree, evtree, killed>>

(* Mutant of Latest: the host is left out of the condition.                *)
LatestAnyHost(k, host, exec) ==
  LET rows == {i \in Ids : log[i].pid = k /\ log[i].exec = exec}
  IN {i \in rows : \A j \in rows : log[j].time <= log[i].time}

(* "pid = $1 and host_identifier = $2 order by time desc limit 1".         *)
Latest(k, host, exec) ==
  LET rows == {i \in Ids : log[i].pid = k /\ log[i].host = host /\ log[i].exec = exec}
  IN {i \in rows : \A j \in rows : log[j].time <= log[i].time}

(* Mutant of Visit: ppid = tmp_ppid is missing.                            *)
VisitKeepsKey(w, i) ==
  LET s == walk[w]
  IN walk' = [walk EXCEPT ![w] =
       IF Gap(s.from, log[i]) \notin -3..3
       THEN [pc |-> "store", id |-> s.id, list |-> s.list]
       ELSE [pc |-> "execve", id |-> s.id, key |-> s.key, from |-> log[i],
             list |-> Append(s.list, log[i])]]

(* A row of another session ends the walk and is discarded.  A row that    *)
(* has a tree ends it too: the list becomes that row followed by its tree, *)
(* and what was collected before is dropped with process_list.             *)
Visit(w, i) ==
  LET s == walk[w]
      h == log[i]
  IN walk' = [walk EXCEPT ![w] =
       IF Gap(s.from, h) \notin -3..3
       THEN [pc |-> "store", id |-> s.id, list |-> s.list]
       ELSE IF tree[i] # NoTree
       THEN [pc |-> "store", id |-> s.id, list |-> <<h>> \o tree[i].list]
       ELSE [pc |-> "execve", id |-> s.id, key |-> h.ppid, from |-> h,
             list |-> Append(s.list, h)]]

(* The first query of a turn: rows with a command line are preferred.      *)
QueryExecve(w) ==
  /\ walk[w].pc = "execve"
  /\ Len(walk[w].list) < MaxWalk
  /\ LET found == Latest(walk[w].key, walk[w].from.host, TRUE) IN
     \/ \E i \in found : Visit(w, i)
     \/ found = {} /\ walk' = [walk EXCEPT ![w].pc = "fork"]
  /\ UNCHANGED <<log, tree, container, evtree, start, killed>>

(* Mutant of QueryFork: loop = false is missing.                           *)
QueryForkLoops(w) ==
  /\ walk[w].pc = "fork"
  /\ LET found == Latest(walk[w].key, walk[w].from.host, FALSE) IN
     \/ \E i \in found : Visit(w, i)
     \/ found = {} /\ walk' = [walk EXCEPT ![w].pc = "execve"]
  /\ UNCHANGED <<log, tree, container, evtree, start, killed>>

(* The second query, when the first one came back empty.                   *)
QueryFork(w) ==
  /\ walk[w].pc = "fork"
  /\ LET found == Latest(walk[w].key, walk[w].from.host, FALSE) IN
     \/ \E i \in found : Visit(w, i)
     \/ /\ found = {}
        /\ walk' = [walk EXCEPT ![w] =
             [pc |-> "store", id |-> walk[w].id, list |-> walk[w].list]]
  /\ UNCHANGED <<log, tree, container, evtree, start, killed>>

(* The worker stores what the builder returned.                            *)
Store(w) ==
  /\ walk[w].pc = "store"
  /\ IF w = "process"
     THEN tree' = [tree EXCEPT ![walk[w].id] = Tree(walk[w].list)] /\ UNCHANGED evtree
     ELSE evtree' = [evtree EXCEPT ![walk[w].id] = Tree(walk[w].list)] /\ UNCHANGED tree
  /\ walk' = [walk EXCEPT ![w] = Idle]
  /\ UNCHANGED <<log, container, start, killed>>

(* A walk that finds no end collects rows until the kernel ends the        *)
(* process; docker starts it again and the work begins anew.               *)
OutOfMemory(w) ==
  /\ walk[w].pc = "execve"
  /\ Len(walk[w].list) = MaxWalk
  /\ walk' = [v \in Walkers |-> Idle]
  /\ killed' = TRUE
  /\ UNCHANGED <<log, tree, container, evtree, start>>

Turn(w) == QueryExecve(w) \/ QueryFork(w) \/ Store(w) \/ OutOfMemory(w)

Next ==
  \/ \E h \in History : Report(h)
  \/ \E e \in Events : ReportEvent(e) \/ StartEvent(e)
  \/ StartRow
  \/ \E w \in Walkers : Turn(w)

Spec == Init /\ [][Next]_vars

(* Both workers keep running; nobody promises that a report arrives.       *)
Fairness ==
  /\ WF_vars(StartRow \/ Turn("process"))
  /\ WF_vars((\E e \in Events : StartEvent(e)) \/ Turn("event"))

FairSpec == Spec /\ Fairness

-----------------------------------------------------------------------------
Pcs == {"idle", "execve", "fork", "store"}

Settled(i) == tree[i].state = "set"

TypeOK ==
  /\ log \in Seq(History) /\ Len(tree) = Len(log)
  /\ \A i \in Ids : tree[i] = NoTree \/ (Settled(i) /\ tree[i].list \in Seq(History))
  /\ container \subseteq Ids
  /\ \A e \in Events : evtree[e] \in {Absent, NoTree} \/ evtree[e].list \in Seq(History)
  /\ \A e \in Events : start[e] \in Ids \cup {0}
  /\ \A w \in Walkers : /\ walk[w].pc \in Pcs
                        /\ walk[w] # Idle => walk[w].list \in Seq(History)
  /\ killed \in BOOLEAN

OneOrigin(h, s) == \A k \in DOMAIN s : s[k].host = h.host /\ s[k].boot = h.boot

(* A tree never mixes machines or boots: pids repeat on every host and     *)
(* after every reboot, and the rows of all of them are in one table.       *)
OneHostOneBoot ==
  /\ \A i \in Ids : Settled(i) => OneOrigin(log[i], tree[i].list)
  /\ \A e \in Events : (start[e] # 0 /\ evtree[e].state = "set")
                          => OneOrigin(log[start[e]], evtree[e].list)

Descending(top, s) ==
  /\ \A k \in DOMAIN s : s[k].pid < top
  /\ \A j, k \in DOMAIN s : j < k => s[k].pid < s[j].pid

(* No row has been reported whose pid is not above its parent's: none has  *)
(* wrapped around.                                                         *)
NoWrap == \A i \in Ids : log[i].pid > log[i].ppid

(* Until a wrapped pid is reported, pids fall from the process to its      *)
(* oldest ancestor: no entry twice, nobody an ancestor of itself.          *)
TreesDescend ==
  NoWrap => \A i \in Ids : Settled(i) => Descending(log[i].pid, tree[i].list)

(* A walk in search comes back to a row only through a row whose pid is    *)
(* not above its parent's and that still waits for its empty tree.  A list *)
(* that ends in a stored tree may hold a row twice without the wrapped row *)
(* that brought it there, for gluing drops what was collected before; but  *)
(* a wrapped row has been reported.                                        *)
RevisitNeedsWrap ==
  \A w \in Walkers : walk[w] # Idle =>
    LET list == walk[w].list IN
    \A j, k \in DOMAIN list : (j # k /\ list[j] = list[k]) =>
      /\ ~ NoWrap
      /\ walk[w].pc # "store" => \E n \in DOMAIN list : list[n].pid <= list[n].ppid

(* The rows the parent of h can have had when h started.                   *)
Parents(h) ==
  {g \in History : /\ g.pid = h.ppid /\ g.host = h.host /\ g.boot = h.boot
                   /\ g.time < h.time}

Parent(h) == CHOOSE g \in Parents(h) : \A x \in Parents(h) : x.time <= g.time

NoAncestry == [h \in History |-> <<>>]

OneMore(ancestry) ==
  [h \in History |-> IF Parents(h) = {} THEN <<>>
                     ELSE <<Parent(h).pid>> \o ancestry[Parent(h)]]

(* The pids of the ancestors of a row through n generations: what an       *)
(* investigator expects to read.                                           *)
Ancestry[n \in Nat] == IF n = 0 THEN NoAncestry ELSE OneMore(Ancestry[n - 1])

PidsOf(s) == [k \in DOMAIN s |-> s[k].pid]

(* What has been reported of a host so far is of one boot, no pid of it    *)
(* wrapped around, the rows of a process agree on its parent, and none is  *)
(* younger than a row of a child: nobody executes another program after    *)
(* forking, which would be found in the child's walk without a tree.       *)
Orderly(host) ==
  \A g, h \in {x \in Arrived : x.host = host} :
    /\ h.pid > h.ppid
    /\ g.boot = h.boot
    /\ g.pid = h.pid => g.ppid = h.ppid
    /\ g.pid = h.ppid => g.time < h.time

(* If reports arrive in order and rows are taken in order, the tree of a   *)
(* row is its full ancestry, although it is glued together from the trees  *)
(* stored for its ancestors - as long as its host is orderly.              *)
CompleteInOrder ==
  Bpf /\ InOrder =>
    \A i \in Ids : Settled(i) /\ Orderly(log[i].host) =>
      PidsOf(tree[i].list) = Ancestry[log[i].pid][log[i]]

(* Every reported process gets a tree while no pid wraps around, and so    *)
(* does every socket event, whether its process was reported or not.       *)
EveryRowSettled ==
  /\ \A i \in 1..Cardinality(History) :
       (i \in Ids /\ tree[i] = NoTree) ~> (i \in Ids /\ Settled(i))
  /\ \A e \in Events : evtree[e] = NoTree ~> evtree[e].state = "set"

(* main.cpp:373-374: "we cannot rely upon record ID in database. If we     *)
(* want to get latest record of event, we should order by time column      *)
(* instead": the row a socket event is traced from is the latest one.      *)
EventUsesLatestRow ==
  [][\A e \in Events : start'[e] # start[e] =>
       \A j \in RowsOf(e) : log[j].time <= log[start'[e]].time]_vars
=============================================================================
