-------------------------- MODULE ProcessTreeProofs --------------------------
(***************************************************************************)
(* Proofs about ProcessTree for every history of hosts, boots and wrapped  *)
(* pids, and every order of its reports.  A builder collects rows that     *)
(* agree with the row it started from (SameSession); their pids fall as    *)
(* long as it collects no row whose pid is not above its parent's          *)
(* (Searching).  The first carries over to the trees it stores and glues,  *)
(* the second only while no such row has been reported (Falls).            *)
(***************************************************************************)
EXTENDS ProcessTree, SequenceTheorems, WellFoundedInduction, TLAPS

Known(s) == s \in Seq(History) /\ \A k \in DOMAIN s : s[k] \in Arrived

Wrapped(s) == \E k \in DOMAIN s : s[k].pid <= s[k].ppid

Falls(top, s) == NoWrap => Descending(top.pid, s)

(* A list a builder may hold or store for the process row top.             *)
Good(top, s) == Known(s) /\ OneOrigin(top, s) /\ Falls(top, s)

(* The process row the builder of w started from, 0 if none was found.     *)
Root(w) == IF w = "process" THEN walk[w].id ELSE start[walk[w].id]

Targets(w) == IF w = "process" THEN Ids ELSE Events

(* The row looked for next has a smaller pid than all that came before,    *)
(* and must be of the session of the row the builder started from.         *)
Searching(s, top) ==
  /\ s.from.host = top.host /\ s.from.boot = top.boot
  /\ ~ Wrapped(s.list) =>
       /\ Descending(top.pid, s.list)
       /\ s.key < top.pid
       /\ \A k \in DOMAIN s.list : s.key < s.list[k].pid

WalkOK(w) ==
  /\ \/ walk[w] \in [pc : {"store"}, id : Targets(w), list : Seq(History)]
     \/ walk[w] \in [pc : {"execve", "fork"}, id : Targets(w), key : Nat, from : History,
                     list : Seq(History)]
  /\ \/ Root(w) = 0 /\ walk[w].pc = "store" /\ walk[w].list = <<>>
     \/ /\ Root(w) \in Ids
        /\ Good(log[Root(w)], walk[w].list)
        /\ walk[w].pc # "store" => Searching(walk[w], log[Root(w)])

LogOK ==
  /\ log \in Seq(History) /\ tree \in Seq([state : {"null", "set"}, list : Seq(History)])
  /\ Len(tree) = Len(log)
  /\ container \subseteq Ids
  /\ killed \in BOOLEAN

TreesOK == \A i \in Ids : tree[i] = NoTree \/ (Settled(i) /\ Good(log[i], tree[i].list))

EventsOK ==
  /\ DOMAIN start = Events /\ DOMAIN evtree = Events
  /\ \A e \in Events :
       /\ start[e] \in Ids \cup {0}
       /\ \/ evtree[e] \in {Absent, NoTree}
          \/ /\ evtree[e].state = "set" /\ evtree[e].list \in Seq(History)
             /\ start[e] # 0 => OneOrigin(log[start[e]], evtree[e].list)

WalksOK ==
  /\ DOMAIN walk = Walkers
  /\ \A w \in Walkers : walk[w] = Idle \/ WalkOK(w)

TreeIInv == LogOK /\ TreesOK /\ EventsOK /\ WalksOK

-----------------------------------------------------------------------------
LEMMA IdsNat ==
  ASSUME LogOK
  PROVE  /\ Ids = 1..Len(log) /\ Ids = DOMAIN tree /\ Len(log) \in Nat
         /\ 0 \notin Ids
         /\ \A i \in Ids : /\ log[i] \in History /\ log[i] \in Arrived
                           /\ tree[i].list \in Seq(History)
         /\ Arrived \subseteq History
<1>1. log \in Seq(History) /\ Len(log) \in Nat /\ Ids = 1..Len(log)
  BY DEF LogOK, Ids
<1>2. DOMAIN tree = Ids
  BY <1>1 DEF LogOK
<1>3. ASSUME NEW i \in Ids PROVE log[i] \in History /\ tree[i].list \in Seq(History)
  <2>1. log[i] \in History
    BY <1>1, <1>3
  <2>2. tree[i] \in [state : {"null", "set"}, list : Seq(History)]
    <3>1. i \in 1..Len(tree)
      BY <1>1, <1>3 DEF LogOK
    <3>2. QED
      BY <3>1, ElementOfSeq DEF LogOK
  <2>3. QED
    BY <2>1, <2>2
<1>4. QED
  BY <1>1, <1>2, <1>3 DEF Arrived

(* Rows of a host that agree on time - uptime are of one boot.             *)
LEMMA SameSession ==
  ASSUME NEW g \in History, NEW h \in History, g.host = h.host, Gap(g, h) \in -3..3
  PROVE  g.boot = h.boot
BY HistoryAssumption

LEMMA EmptyGood ==
  ASSUME NEW top
  PROVE  Good(top, <<>>)
BY DEF Good, Known, OneOrigin, Falls, Descending

(* A known list holds nothing wrapped while nothing wrapped is reported.   *)
LEMMA KnownUnwrapped ==
  ASSUME LogOK, NEW s, Known(s), NoWrap
  PROVE  ~ Wrapped(s)
<1>1. \A k \in DOMAIN s : \E i \in Ids : s[k] = log[i]
  BY DEF Known, Arrived
<1>2. \A i \in Ids : log[i].pid > log[i].ppid /\ log[i].pid \in Nat /\ log[i].ppid \in Nat
  BY IdsNat, HistoryAssumption DEF NoWrap
<1>3. QED
  BY <1>1, <1>2 DEF Wrapped

(* Appending the row found next: process_list.push_back.                   *)
LEMMA AppendGood ==
  ASSUME LogOK, NEW top, NEW s, Good(top, s), NEW h \in Arrived, h \in History,
         h.host = top.host, h.boot = top.boot,
         top.pid \in Int,
         ~ Wrapped(s) => /\ Descending(top.pid, s) /\ h.pid < top.pid
                         /\ \A k \in DOMAIN s : h.pid < s[k].pid
  PROVE  /\ Good(top, Append(s, h)) /\ Append(s, h) \in Seq(History)
         /\ ~ Wrapped(Append(s, h)) =>
              /\ Descending(top.pid, Append(s, h))
              /\ h.ppid < top.pid
              /\ \A k \in DOMAIN Append(s, h) : h.ppid < Append(s, h)[k].pid
<1> DEFINE a == Append(s, h)
<1>1. s \in Seq(History) /\ Len(s) \in Nat /\ DOMAIN s = 1..Len(s)
  BY DEF Good, Known
<1>2. /\ a \in Seq(History) /\ DOMAIN a = 1..(Len(s) + 1)
      /\ \A i \in 1..Len(s) : a[i] = s[i]
      /\ a[Len(s) + 1] = h
  BY <1>1, AppendProperties
<1>3. \A i \in DOMAIN a : i \in DOMAIN s \/ i = Len(s) + 1
  BY <1>1, <1>2
<1> HIDE DEF a
<1>4. Known(a)
  BY <1>1, <1>2, <1>3 DEF Good, Known
<1>5. OneOrigin(top, a)
  BY <1>1, <1>2, <1>3 DEF Good, OneOrigin
<1>6. ASSUME ~ Wrapped(a) PROVE ~ Wrapped(s) /\ h.ppid < h.pid
  <2>1. \A k \in DOMAIN a : ~ (a[k].pid <= a[k].ppid)
    BY <1>6 DEF Wrapped
  <2>2. ~ Wrapped(s)
    BY <1>1, <1>2, <2>1 DEF Wrapped
  <2>3. ~ (h.pid <= h.ppid)
    BY <1>1, <1>2, <2>1
  <2>4. QED
    BY <2>2, <2>3, HistoryAssumption
<1>7. ASSUME ~ Wrapped(a) PROVE Descending(top.pid, a)
  BY <1>1, <1>2, <1>3, <1>6, <1>7 DEF Descending
<1>8. ASSUME ~ Wrapped(a) PROVE h.ppid < top.pid /\ \A k \in DOMAIN a : h.ppid < a[k].pid
  <2>1. h.ppid < h.pid /\ h.pid < top.pid /\ h.pid \in Int /\ h.ppid \in Int
    BY <1>6, <1>8, HistoryAssumption
  <2>2. ASSUME NEW k \in DOMAIN a PROVE h.ppid < a[k].pid
    <3>1. CASE k \in DOMAIN s
      <4>1. s[k] \in History
        BY <1>1, <3>1
      <4>2. s[k].pid \in Int /\ h.pid < s[k].pid
        BY <1>6, <1>8, <3>1, <4>1, HistoryAssumption
      <4>3. QED
        BY <1>1, <1>2, <2>1, <3>1, <4>2
    <3>2. CASE k = Len(s) + 1
      BY <1>2, <2>1, <3>2
    <3>3. QED
      BY <1>3, <2>2, <3>1, <3>2
  <2>3. QED
    BY <2>1, <2>2
<1>9. NoWrap => Descending(top.pid, a)
  BY <1>4, <1>7, KnownUnwrapped
<1>10. QED
  BY <1>2, <1>4, <1>5, <1>7, <1>8, <1>9 DEF Good, Falls, a

(* Gluing the tree of the row found next: the list is that row, followed   *)
(* by the tree stored for it.                                              *)
LEMMA GlueGood ==
  ASSUME NEW top, NEW h \in Arrived, h \in History, NEW t, Good(h, t),
         h.host = top.host, h.boot = top.boot, top.pid \in Int,
         NoWrap => h.pid < top.pid
  PROVE  Good(top, <<h>> \o t) /\ <<h>> \o t \in Seq(History)
<1> DEFINE a == <<h>> \o t
<1>1. t \in Seq(History) /\ Len(t) \in Nat /\ DOMAIN t = 1..Len(t)
  BY DEF Good, Known
<1>2. /\ a \in Seq(History) /\ DOMAIN a = 1..(Len(t) + 1)
      /\ a[1] = h
      /\ \A i \in 2..(Len(t) + 1) : a[i] = t[i - 1]
  <2>1. <<h>> \in Seq(History) /\ Len(<<h>>) = 1 /\ <<h>>[1] = h
    OBVIOUS
  <2>2. /\ a \in Seq(History) /\ Len(a) = 1 + Len(t)
        /\ \A i \in 1..Len(a) : a[i] = IF i <= 1 THEN <<h>>[i] ELSE t[i - 1]
    BY <1>1, <2>1, ConcatProperties
  <2>3. QED
    BY <1>1, <2>1, <2>2
<1>3. \A i \in DOMAIN a : i = 1 \/ (i \in 2..(Len(t) + 1) /\ i - 1 \in DOMAIN t)
  BY <1>1, <1>2
<1> HIDE DEF a
<1>4. Known(a)
  BY <1>1, <1>2, <1>3 DEF Good, Known
<1>5. OneOrigin(top, a)
  BY <1>1, <1>2, <1>3 DEF Good, OneOrigin
<1>6. ASSUME NoWrap PROVE Descending(top.pid, a)
  <2>1. Descending(h.pid, t) /\ h.pid < top.pid
    BY <1>6 DEF Good, Falls
  <2>2. \A k \in DOMAIN t : t[k].pid \in Int /\ t[k].pid < h.pid
    BY <1>1, <2>1, HistoryAssumption DEF Descending
  <2>3. h.pid \in Int
    BY HistoryAssumption
  <2>4. ASSUME NEW k \in DOMAIN a PROVE a[k].pid < top.pid
    BY <1>2, <1>3, <2>1, <2>2, <2>3, <2>4
  <2>5. ASSUME NEW j \in DOMAIN a, NEW k \in DOMAIN a, j < k PROVE a[k].pid < a[j].pid
    <3>1. k \in 2..(Len(t) + 1) /\ k - 1 \in DOMAIN t
      BY <1>1, <1>2, <1>3, <2>5
    <3>2. CASE j = 1
      BY <1>2, <2>2, <3>1, <3>2
    <3>3. CASE j \in 2..(Len(t) + 1) /\ j - 1 \in DOMAIN t
      <4>1. j - 1 < k - 1
        BY <1>1, <3>1, <3>3, <2>5
      <4>2. t[k - 1].pid < t[j - 1].pid
        BY <2>1, <3>1, <3>3, <4>1 DEF Descending
      <4>3. QED
        BY <1>2, <3>1, <3>3, <4>2
    <3>4. QED
      BY <1>3, <2>5, <3>2, <3>3
  <2>6. QED
    BY <2>4, <2>5 DEF Descending
<1>7. QED
  BY <1>2, <1>4, <1>5, <1>6 DEF Good, Falls, a

-----------------------------------------------------------------------------
LEMMA TreeInit == Init => TreeIInv
<1> SUFFICES ASSUME Init PROVE TreeIInv
  OBVIOUS
<1>1. LogOK
  <2>1. <<>> \in Seq([state : {"null", "set"}, list : Seq(History)]) /\ <<>> \in Seq(History)
    BY EmptySeq
  <2>2. QED
    BY <2>1 DEF Init, LogOK
<1>2. Ids = {}
  BY DEF Init, Ids
<1>3. TreesOK /\ EventsOK
  BY <1>2 DEF Init, TreesOK, EventsOK
<1>4. WalksOK
  BY DEF Init, WalksOK
<1>5. QED
  BY <1>1, <1>3, <1>4 DEF TreeIInv

(* A walk in progress stays sound when rows are added after those there.   *)
LEMMA ReportInv ==
  ASSUME TreeIInv, NEW h \in History, Report(h)
  PROVE  TreeIInv'
<1> DEFINE n == Len(log) + 1
<1>1. /\ Ids = 1..Len(log) /\ Ids = DOMAIN tree /\ Len(log) \in Nat /\ 0 \notin Ids
      /\ log \in Seq(History) /\ tree \in Seq([state : {"null", "set"}, list : Seq(History)])
  BY IdsNat DEF TreeIInv, LogOK
<1>2. /\ log' = Append(log, h) /\ tree' = Append(tree, NoTree)
      /\ UNCHANGED <<container, evtree, start, walk, killed>>
  BY DEF Report
<1>3. NoTree \in [state : {"null", "set"}, list : Seq(History)]
  BY DEF NoTree
<1>4. /\ log' \in Seq(History) /\ Len(log') = n /\ Ids' = 1..n
      /\ \A i \in Ids : log'[i] = log[i]
      /\ log'[n] = h
  BY <1>1, <1>2, AppendProperties DEF Ids
<1>5. /\ tree' \in Seq([state : {"null", "set"}, list : Seq(History)])
      /\ Len(tree') = n /\ \A i \in Ids : tree'[i] = tree[i]
      /\ tree'[n] = NoTree
  <2>1. Len(tree) = Len(log)
    BY DEF TreeIInv, LogOK
  <2>2. QED
    BY <1>1, <1>2, <1>3, <2>1, AppendProperties
<1>6. Ids' = Ids \cup {n} /\ n \notin Ids /\ 0 \notin Ids'
  BY <1>1, <1>4
<1> HIDE DEF n
<1>7. Arrived \subseteq Arrived'
  BY <1>4, <1>6 DEF Arrived
<1>8. NoWrap' => NoWrap
  BY <1>4, <1>6 DEF NoWrap
<1>9. ASSUME NEW top, NEW s, Good(top, s) PROVE Good(top, s)'
  BY <1>7, <1>9, <1>8 DEF Good, Known, OneOrigin, Falls, Wrapped, Descending
<1>10. LogOK'
  BY <1>2, <1>4, <1>5, <1>6 DEF TreeIInv, LogOK
<1>11. TreesOK'
  <2> SUFFICES ASSUME NEW i \in Ids', i \in Ids
               PROVE  tree'[i] = NoTree \/ (Settled(i)' /\ Good(log[i], tree[i].list)')
    BY <1>5, <1>6 DEF TreesOK
  <2>1. tree'[i] = tree[i] /\ log'[i] = log[i]
    BY <1>4, <1>5
  <2>2. tree[i] = NoTree \/ (Settled(i) /\ Good(log[i], tree[i].list))
    BY DEF TreeIInv, TreesOK
  <2>3. QED
    BY <1>7, <1>8, <2>1, <2>2 DEF Settled, Good, Known, OneOrigin, Falls, Wrapped, Descending
<1>12. EventsOK'
  BY <1>1, <1>2, <1>4, <1>6 DEF TreeIInv, EventsOK, OneOrigin
<1>13. WalksOK'
  <2> SUFFICES ASSUME NEW w \in Walkers, WalkOK(w) PROVE WalkOK(w)'
    BY <1>2 DEF TreeIInv, WalksOK
  <2>1. Root(w)' = Root(w) /\ walk'[w] = walk[w] /\ Targets(w) \subseteq Targets(w)'
    BY <1>2, <1>6 DEF Root, Targets
  <2>2. ASSUME Root(w) \in Ids, Good(log[Root(w)], walk[w].list)
        PROVE  Good(log[Root(w)], walk[w].list)' /\ log'[Root(w)] = log[Root(w)]
    BY <1>4, <1>7, <1>8, <2>1, <2>2
       DEF Good, Known, OneOrigin, Falls, Wrapped, Descending
  <2>3. QED
    BY <1>6, <2>1, <2>2 DEF WalkOK, Searching, Wrapped
<1>14. QED
  BY <1>10, <1>11, <1>12, <1>13 DEF TreeIInv

LEMMA ReportEventInv ==
  ASSUME TreeIInv, NEW e \in Events, ReportEvent(e)
  PROVE  TreeIInv'
<1>1. /\ evtree' = [evtree EXCEPT ![e] = NoTree]
      /\ UNCHANGED <<log, tree, container, start, walk, killed>>
  BY DEF ReportEvent
<1>2. LogOK' /\ TreesOK' /\ WalksOK'
  <2>1. Ids' = Ids /\ Arrived' = Arrived /\ NoWrap' = NoWrap
    BY <1>1 DEF Ids, Arrived, NoWrap
  <2>2. \A h, t : Good(h, t)' = Good(h, t)
    BY <2>1 DEF Good, Known, OneOrigin, Falls
  <2>3. LogOK' /\ TreesOK'
    BY <1>1, <2>1, <2>2 DEF TreeIInv, LogOK, TreesOK, Settled
  <2>4. \A w \in Walkers : Root(w)' = Root(w) /\ Targets(w)' = Targets(w)
    BY <1>1, <2>1 DEF Root, Targets
  <2>5. \A s, h : Searching(s, h)' = Searching(s, h)
    BY DEF Searching
  <2>6. WalksOK'
    BY <1>1, <2>1, <2>2, <2>4, <2>5 DEF TreeIInv, WalksOK, WalkOK
  <2>7. QED
    BY <2>3, <2>6
<1>3. EventsOK'
  BY <1>1 DEF TreeIInv, EventsOK, Ids, OneOrigin
<1>4. QED
  BY <1>2, <1>3 DEF TreeIInv

-----------------------------------------------------------------------------
(* A walk the step is not about goes on as before.                         *)
LEMMA OtherWalk ==
  ASSUME NEW v \in Walkers, walk[v] = Idle \/ WalkOK(v), walk'[v] = walk[v], log' = log,
         v = "event" => start' = start
  PROVE  (walk[v] = Idle \/ WalkOK(v))'
<1>1. CASE walk[v] = Idle
  BY <1>1 DEF Idle
<1>2. CASE WalkOK(v)
  <2>1. Root(v)' = Root(v) /\ Targets(v)' = Targets(v) /\ Ids' = Ids /\ Arrived' = Arrived
    BY DEF Root, Targets, Ids, Arrived, Walkers
  <2>2. QED
    BY <1>2, <2>1 DEF WalkOK, Searching, Good, Known, OneOrigin, Falls, NoWrap
<1>3. QED
  BY <1>1, <1>2

(* The builder begins at row i.                                            *)
LEMMA BeginWalk ==
  ASSUME LogOK, DOMAIN walk = Walkers, NEW w \in Walkers, NEW i \in Ids,
         NEW id \in Targets(w), Begin(w, i, id), log' = log,
         w = "process" => id = i, w = "event" => start'[id] = i
  PROVE  DOMAIN walk' = Walkers /\ WalkOK(w)' /\ \A v \in Walkers \ {w} : walk'[v] = walk[v]
<1>1. /\ log[i] \in History /\ Ids' = Ids /\ Targets(w)' = Targets(w)
      /\ log[i].pid \in Nat /\ log[i].ppid \in Nat /\ <<>> \in Seq(History)
  BY IdsNat, HistoryAssumption, EmptySeq DEF Ids, Targets
<1>2. Good(log[i], <<>>)'
  BY EmptyGood DEF Good, Known, OneOrigin, Falls, Descending
<1>3. CASE log[i].pid <= log[i].ppid
  <2>1. walk' = [walk EXCEPT ![w] = [pc |-> "store", id |-> id, list |-> <<>>]]
    BY <1>3 DEF Begin
  <2>2. /\ walk'[w] = [pc |-> "store", id |-> id, list |-> <<>>]
        /\ DOMAIN walk' = Walkers /\ \A v \in Walkers \ {w} : walk'[v] = walk[v]
    BY <2>1
  <2>3. Root(w)' = i
    BY <2>2 DEF Root, Walkers
  <2>4. QED
    BY <1>1, <1>2, <2>2, <2>3 DEF WalkOK
<1>4. CASE ~ (log[i].pid <= log[i].ppid)
  <2> DEFINE s == [pc |-> "execve", id |-> id, key |-> log[i].ppid, from |-> log[i],
                   list |-> <<>>]
  <2>1. walk' = [walk EXCEPT ![w] = s]
    BY <1>4 DEF Begin
  <2>2. walk'[w] = s /\ DOMAIN walk' = Walkers /\ \A v \in Walkers \ {w} : walk'[v] = walk[v]
    BY <2>1
  <2>3. Root(w)' = i
    BY <2>2 DEF Root, Walkers
  <2>4. Searching(s, log[i])
    BY <1>1, <1>4 DEF Searching, Descending
  <2>5. s \in [pc : {"execve", "fork"}, id : Targets(w), key : Nat, from : History,
               list : Seq(History)]
    BY <1>1
  <2>6. s.list = <<>>
    OBVIOUS
  <2> HIDE DEF s
  <2>7. QED
    BY <1>1, <1>2, <2>2, <2>3, <2>4, <2>5, <2>6 DEF WalkOK, Searching, Wrapped
<1>5. QED
  BY <1>3, <1>4

LEMMA MarkOK ==
  ASSUME LogOK, NEW i \in Ids, MarkContainer(i)
  PROVE  container' \subseteq Ids
BY DEF LogOK, MarkContainer

LEMMA StartRowInv ==
  ASSUME TreeIInv, StartRow
  PROVE  TreeIInv'
<1> USE DEF TreeIInv
<1>1. PICK i \in Ids : Begin("process", i, i) /\ MarkContainer(i)
  BY DEF StartRow
<1>2. UNCHANGED <<log, tree, evtree, start, killed>> /\ Ids' = Ids
  BY DEF StartRow, Ids
<1>3. LogOK'
  BY <1>1, <1>2, MarkOK DEF LogOK
<1>4. TreesOK' /\ EventsOK'
  BY <1>2 DEF TreesOK, EventsOK, Settled, Good, Known, Arrived, OneOrigin, Falls, NoWrap, Ids
<1>5. WalksOK'
  <2>1. /\ DOMAIN walk' = Walkers /\ WalkOK("process")'
        /\ \A v \in Walkers \ {"process"} : walk'[v] = walk[v]
    BY <1>1, <1>2, BeginWalk DEF WalksOK, Targets, Walkers
  <2>2. walk'["event"] = Idle \/ WalkOK("event")'
    BY <1>2, <2>1, OtherWalk DEF WalksOK, Walkers
  <2>3. QED
    BY <2>1, <2>2 DEF WalksOK, Walkers
<1>6. QED
  BY <1>3, <1>4, <1>5

LEMMA StartEventInv ==
  ASSUME TreeIInv, NEW e \in Events, StartEvent(e)
  PROVE  TreeIInv'
<1> USE DEF TreeIInv
<1>1. UNCHANGED <<log, tree, evtree, killed>> /\ Ids' = Ids /\ evtree[e] = NoTree
  BY DEF StartEvent, Ids
<1>2. TreesOK'
  BY <1>1 DEF TreesOK, Settled, Good, Known, Arrived, OneOrigin, Falls, NoWrap, Ids
<1>3. (walk["process"] = Idle \/ WalkOK("process"))' \/ walk'["process"] # walk["process"]
  BY <1>1, OtherWalk DEF WalksOK, Walkers
<1>4. CASE /\ RowsOf(e) = {}
           /\ walk' = [walk EXCEPT !["event"] = [pc |-> "store", id |-> e, list |-> <<>>]]
           /\ UNCHANGED <<start, container>>
  <2>1. LogOK' /\ EventsOK'
    BY <1>1, <1>4 DEF LogOK, EventsOK, OneOrigin
  <2>2. /\ DOMAIN walk' = Walkers /\ walk'["process"] = walk["process"]
        /\ walk'["event"] = [pc |-> "store", id |-> e, list |-> <<>>]
    BY <1>4 DEF WalksOK, Walkers
  <2>3. Root("event")' = start[e] /\ Targets("event")' = Events
    BY <1>4, <2>2 DEF Root, Targets
  <2>4. start[e] \in Ids \cup {0} /\ <<>> \in Seq(History)
    BY EmptySeq DEF EventsOK
  <2>5. Good(log[start[e]], <<>>)'
    BY EmptyGood DEF Good, Known, OneOrigin, Falls, Descending
  <2>6. WalkOK("event")'
    <3>1. walk'["event"] \in [pc : {"store"}, id : Targets("event")', list : Seq(History)]
      BY <2>2, <2>3, <2>4
    <3>2. walk'["event"].pc = "store" /\ walk'["event"].list = <<>>
      BY <2>2
    <3>3. Root("event")' = 0 \/ (Root("event")' \in Ids' /\ Good(log[Root("event")], <<>>)')
      BY <1>1, <1>4, <2>3, <2>4, <2>5
    <3>4. QED
      BY <3>1, <3>2, <3>3 DEF WalkOK
  <2>7. QED
    BY <1>2, <1>3, <2>1, <2>2, <2>6 DEF WalksOK, Walkers
<1>5. CASE \E i \in RowsOf(e) :
             start' = [start EXCEPT ![e] = i] /\ Begin("event", i, e) /\ MarkContainer(i)
  <2>1. PICK i \in Ids :
          start' = [start EXCEPT ![e] = i] /\ Begin("event", i, e) /\ MarkContainer(i)
    BY <1>5 DEF RowsOf
  <2>2. LogOK'
    BY <1>1, <2>1, MarkOK DEF LogOK
  <2>3. EventsOK'
    BY <1>1, <2>1 DEF EventsOK, OneOrigin, NoTree
  <2>4. start'[e] = i
    BY <2>1 DEF EventsOK
  <2>5. /\ DOMAIN walk' = Walkers /\ WalkOK("event")'
        /\ \A v \in Walkers \ {"event"} : walk'[v] = walk[v]
    BY <1>1, <2>1, <2>4, BeginWalk DEF WalksOK, Targets, Walkers
  <2>6. QED
    BY <1>2, <1>3, <2>2, <2>3, <2>5 DEF WalksOK, Walkers
<1>6. QED
  BY <1>4, <1>5 DEF StartEvent

-----------------------------------------------------------------------------
(* What a walk holds once it is replaced by st, for the same target.       *)
LEMMA NewWalk ==
  ASSUME NEW w \in Walkers, DOMAIN walk = Walkers, NEW st,
         walk' = [walk EXCEPT ![w] = st], log' = log, start' = start,
         st.id = walk[w].id,
         \/ st \in [pc : {"store"}, id : Targets(w), list : Seq(History)]
         \/ st \in [pc : {"execve", "fork"}, id : Targets(w), key : Nat, from : History,
                    list : Seq(History)],
         \/ Root(w) = 0 /\ st.pc = "store" /\ st.list = <<>>
         \/ /\ Root(w) \in Ids /\ Good(log[Root(w)], st.list)
            /\ st.pc # "store" => Searching(st, log[Root(w)])
  PROVE  WalkOK(w)'
<1>1. walk'[w] = st
  OBVIOUS
<1>2. /\ Root(w)' = Root(w) /\ Targets(w)' = Targets(w) /\ Ids' = Ids
      /\ Arrived' = Arrived
  BY <1>1 DEF Root, Targets, Ids, Arrived
<1>3. Good(log[Root(w)], st.list) => Good(log[Root(w)], walk[w].list)'
  BY <1>1, <1>2 DEF Good, Known, OneOrigin, Falls, NoWrap
<1>4. Searching(st, log[Root(w)]) => Searching(walk[w], log[Root(w)])'
  BY <1>1, <1>2 DEF Searching
<1>5. QED
  BY <1>1, <1>2, <1>3, <1>4 DEF WalkOK

(* A searching builder has a root and compares with a row of its session.  *)
LEMMA SearchFacts ==
  ASSUME TreeIInv, NEW w \in Walkers, walk[w].pc \in {"execve", "fork"}
  PROVE  /\ walk[w] \in [pc : {"execve", "fork"}, id : Targets(w), key : Nat, from : History,
                         list : Seq(History)]
         /\ Root(w) \in Ids /\ log[Root(w)] \in History
         /\ Good(log[Root(w)], walk[w].list) /\ Searching(walk[w], log[Root(w)])
<1>1. WalkOK(w)
  BY DEF TreeIInv, WalksOK, Idle
<1>2. walk[w].pc # "store"
  OBVIOUS
<1>3. QED
  BY <1>1, <1>2, IdsNat DEF WalkOK, TreeIInv

(* The row found next is of the session, and has the pid looked for.       *)
LEMMA VisitWalk ==
  ASSUME TreeIInv, NEW w \in Walkers, walk[w].pc \in {"execve", "fork"},
         NEW i \in Ids, log[i].pid = walk[w].key, log[i].host = walk[w].from.host,
         Visit(w, i), log' = log, start' = start
  PROVE  WalkOK(w)' /\ DOMAIN walk' = Walkers /\ \A v \in Walkers \ {w} : walk'[v] = walk[v]
<1> DEFINE s == walk[w]
           h == log[i]
           top == log[Root(w)]
<1>1. /\ s \in [pc : {"execve", "fork"}, id : Targets(w), key : Nat, from : History,
                list : Seq(History)]
      /\ Root(w) \in Ids /\ top \in History
      /\ Good(top, s.list) /\ Searching(s, top)
  BY SearchFacts
<1>2. h \in History /\ h \in Arrived /\ h.pid \in Nat /\ h.ppid \in Nat /\ top.pid \in Nat
  BY <1>1, IdsNat, HistoryAssumption DEF TreeIInv
<1>3. DOMAIN walk = Walkers
  BY DEF TreeIInv, WalksOK
<1>4. ASSUME NEW st, walk' = [walk EXCEPT ![w] = st]
      PROVE  DOMAIN walk' = Walkers /\ \A v \in Walkers \ {w} : walk'[v] = walk[v]
  BY <1>3, <1>4
<1>5. CASE Gap(s.from, h) \notin -3..3
  <2> DEFINE st == [pc |-> "store", id |-> s.id, list |-> s.list]
  <2>1. walk' = [walk EXCEPT ![w] = st]
    BY <1>5 DEF Visit
  <2>2. /\ st.id = s.id /\ st.pc = "store" /\ st.list = s.list
        /\ st \in [pc : {"store"}, id : Targets(w), list : Seq(History)]
    BY <1>1
  <2> HIDE DEF st
  <2>3. WalkOK(w)'
    BY <1>1, <1>3, <2>1, <2>2, NewWalk
  <2>4. QED
    BY <1>4, <2>1, <2>3
<1>6. CASE Gap(s.from, h) \in -3..3 /\ tree[i] # NoTree
  <2> DEFINE st == [pc |-> "store", id |-> s.id, list |-> <<h>> \o tree[i].list]
  <2>1. walk' = [walk EXCEPT ![w] = st]
    BY <1>6 DEF Visit
  <2>2. h.host = top.host /\ h.boot = top.boot
    BY <1>1, <1>2, <1>6, SameSession DEF Searching
  <2>3. Good(h, tree[i].list)
    BY <1>6 DEF TreeIInv, TreesOK
  <2>4. NoWrap => h.pid < top.pid
    <3>1. NoWrap => ~ Wrapped(s.list)
      BY <1>1, KnownUnwrapped DEF TreeIInv, Good
    <3>2. QED
      BY <1>1, <3>1 DEF Searching
  <2>5. Good(top, <<h>> \o tree[i].list) /\ <<h>> \o tree[i].list \in Seq(History)
    BY <1>2, <2>2, <2>3, <2>4, GlueGood
  <2>6. /\ st.id = s.id /\ st.pc = "store" /\ st.list = <<h>> \o tree[i].list
        /\ st \in [pc : {"store"}, id : Targets(w), list : Seq(History)]
    BY <1>1, <2>5
  <2> HIDE DEF st
  <2>7. WalkOK(w)'
    BY <1>1, <1>3, <2>1, <2>5, <2>6, NewWalk
  <2>8. QED
    BY <1>4, <2>1, <2>7
<1>7. CASE Gap(s.from, h) \in -3..3 /\ tree[i] = NoTree
  <2> DEFINE st == [pc |-> "execve", id |-> s.id, key |-> h.ppid, from |-> h,
                    list |-> Append(s.list, h)]
  <2>1. walk' = [walk EXCEPT ![w] = st]
    BY <1>7 DEF Visit
  <2>2. h.host = top.host /\ h.boot = top.boot
    BY <1>1, <1>2, <1>7, SameSession DEF Searching
  <2>3. ~ Wrapped(s.list) => /\ Descending(top.pid, s.list) /\ h.pid < top.pid
                             /\ \A k \in DOMAIN s.list : h.pid < s.list[k].pid
    BY <1>1 DEF Searching
  <2>4. /\ Good(top, Append(s.list, h)) /\ Append(s.list, h) \in Seq(History)
        /\ ~ Wrapped(Append(s.list, h)) =>
             /\ Descending(top.pid, Append(s.list, h))
             /\ h.ppid < top.pid
             /\ \A k \in DOMAIN Append(s.list, h) : h.ppid < Append(s.list, h)[k].pid
    <3>1. LogOK /\ top.pid \in Int
      BY <1>2 DEF TreeIInv
    <3> HIDE DEF s, h, top
    <3>2. QED
      BY <1>1, <1>2, <2>2, <2>3, <3>1, AppendGood
  <2>5. /\ st.id = s.id /\ st.pc = "execve" /\ st.list = Append(s.list, h)
        /\ st.key = h.ppid /\ st.from = h
        /\ st \in [pc : {"execve", "fork"}, id : Targets(w), key : Nat, from : History,
                   list : Seq(History)]
    BY <1>1, <1>2, <2>4
  <2> HIDE DEF st
  <2>6. Searching(st, top)
    BY <2>2, <2>4, <2>5 DEF Searching
  <2>7. WalkOK(w)'
    BY <1>1, <1>3, <2>1, <2>4, <2>5, <2>6, NewWalk
  <2>8. QED
    BY <1>4, <2>1, <2>7
<1>8. QED
  BY <1>5, <1>6, <1>7

(* A step that replaces the walk of w only, and by a sound one.            *)
LEMMA WalkStepInv ==
  ASSUME TreeIInv, NEW w \in Walkers, WalkOK(w)', DOMAIN walk' = Walkers,
         \A v \in Walkers \ {w} : walk'[v] = walk[v],
         UNCHANGED <<log, tree, container, evtree, start, killed>>
  PROVE  TreeIInv'
<1> USE DEF TreeIInv
<1>1. LogOK' /\ TreesOK' /\ EventsOK'
  BY DEF LogOK, TreesOK, EventsOK, Ids, Settled, Good, Known, OneOrigin, Falls, Arrived, NoWrap
<1>2. ASSUME NEW v \in Walkers \ {w} PROVE (walk[v] = Idle \/ WalkOK(v))'
  BY <1>2, OtherWalk DEF WalksOK
<1>3. WalksOK'
  BY <1>2 DEF WalksOK
<1>4. QED
  BY <1>1, <1>3

LEMMA QueryExecveInv ==
  ASSUME TreeIInv, NEW w \in Walkers, QueryExecve(w)
  PROVE  TreeIInv'
<1> DEFINE found == Latest(walk[w].key, walk[w].from.host, TRUE)
<1>1. walk[w].pc = "execve" /\ UNCHANGED <<log, tree, container, evtree, start, killed>>
  BY DEF QueryExecve
<1>2. ASSUME NEW i \in found, Visit(w, i) PROVE TreeIInv'
  <2>1. i \in Ids /\ log[i].pid = walk[w].key /\ log[i].host = walk[w].from.host
    BY <1>2 DEF Latest
  <2>2. WalkOK(w)' /\ DOMAIN walk' = Walkers /\ \A v \in Walkers \ {w} : walk'[v] = walk[v]
    BY <1>1, <1>2, <2>1, VisitWalk
  <2>3. QED
    BY <1>1, <2>2, WalkStepInv
<1>3. ASSUME walk' = [walk EXCEPT ![w].pc = "fork"] PROVE TreeIInv'
  <2> DEFINE st == [walk[w] EXCEPT !.pc = "fork"]
  <2>1. /\ walk[w] \in [pc : {"execve", "fork"}, id : Targets(w), key : Nat, from : History,
                        list : Seq(History)]
        /\ Root(w) \in Ids
        /\ Good(log[Root(w)], walk[w].list) /\ Searching(walk[w], log[Root(w)])
    BY <1>1, SearchFacts
  <2>2. /\ st \in [pc : {"execve", "fork"}, id : Targets(w), key : Nat, from : History,
                   list : Seq(History)]
        /\ st.id = walk[w].id /\ st.key = walk[w].key /\ st.from = walk[w].from
        /\ st.list = walk[w].list
    BY <2>1
  <2>3. walk' = [walk EXCEPT ![w] = st] /\ DOMAIN walk = Walkers
    BY <1>3 DEF TreeIInv, WalksOK
  <2> HIDE DEF st
  <2>4. Searching(st, log[Root(w)])
    BY <2>1, <2>2 DEF Searching
  <2>5. WalkOK(w)'
    BY <1>1, <2>1, <2>2, <2>3, <2>4, NewWalk
  <2>6. QED
    BY <1>1, <2>3, <2>5, WalkStepInv
<1>4. QED
  BY <1>2, <1>3 DEF QueryExecve

LEMMA QueryForkInv ==
  ASSUME TreeIInv, NEW w \in Walkers, QueryFork(w)
  PROVE  TreeIInv'
<1> DEFINE found == Latest(walk[w].key, walk[w].from.host, FALSE)
<1>1. walk[w].pc = "fork" /\ UNCHANGED <<log, tree, container, evtree, start, killed>>
  BY DEF QueryFork
<1>2. ASSUME NEW i \in found, Visit(w, i) PROVE TreeIInv'
  <2>1. i \in Ids /\ log[i].pid = walk[w].key /\ log[i].host = walk[w].from.host
    BY <1>2 DEF Latest
  <2>2. WalkOK(w)' /\ DOMAIN walk' = Walkers /\ \A v \in Walkers \ {w} : walk'[v] = walk[v]
    BY <1>1, <1>2, <2>1, VisitWalk
  <2>3. QED
    BY <1>1, <2>2, WalkStepInv
<1>3. ASSUME walk' = [walk EXCEPT ![w] =
                        [pc |-> "store", id |-> walk[w].id, list |-> walk[w].list]]
      PROVE  TreeIInv'
  <2> DEFINE st == [pc |-> "store", id |-> walk[w].id, list |-> walk[w].list]
  <2>1. /\ walk[w] \in [pc : {"execve", "fork"}, id : Targets(w), key : Nat, from : History,
                        list : Seq(History)]
        /\ Root(w) \in Ids /\ Good(log[Root(w)], walk[w].list)
    BY <1>1, SearchFacts
  <2>2. /\ st \in [pc : {"store"}, id : Targets(w), list : Seq(History)]
        /\ st.id = walk[w].id /\ st.pc = "store" /\ st.list = walk[w].list
    BY <2>1
  <2>3. walk' = [walk EXCEPT ![w] = st] /\ DOMAIN walk = Walkers
    BY <1>3 DEF TreeIInv, WalksOK
  <2> HIDE DEF st
  <2>4. WalkOK(w)'
    BY <1>1, <2>1, <2>2, <2>3, NewWalk
  <2>5. QED
    BY <1>1, <2>3, <2>4, WalkStepInv
<1>4. QED
  BY <1>2, <1>3 DEF QueryFork

(* What is stored is what the builder held for that row or event.          *)
LEMMA StoreInv ==
  ASSUME TreeIInv, NEW w \in Walkers, Store(w)
  PROVE  TreeIInv'
<1> USE DEF TreeIInv
<1> DEFINE id == walk[w].id
           list == walk[w].list
<1>1. /\ walk[w].pc = "store" /\ walk' = [walk EXCEPT ![w] = Idle]
      /\ UNCHANGED <<log, container, start, killed>>
      /\ Ids' = Ids /\ Arrived' = Arrived
  BY DEF Store, Ids, Arrived
<1>2. /\ WalkOK(w) /\ id \in Targets(w) /\ list \in Seq(History)
      /\ Root(w) \in Ids => Good(log[Root(w)], list)
      /\ Root(w) \in Ids \cup {0}
  BY <1>1, IdsNat DEF WalksOK, WalkOK, Idle
<1>3. WalksOK'
  <2>1. ASSUME NEW v \in Walkers \ {w} PROVE (walk[v] = Idle \/ WalkOK(v))'
    BY <1>1, <2>1, OtherWalk DEF WalksOK
  <2>2. walk'[w] = Idle /\ DOMAIN walk' = Walkers
    BY <1>1 DEF WalksOK
  <2>3. QED
    BY <2>1, <2>2 DEF WalksOK, Idle
<1>4. CASE w = "process"
  <2>1. id \in Ids /\ Good(log[id], list)
    BY <1>2, <1>4, IdsNat DEF Root, Targets
  <2>2. tree' = [tree EXCEPT ![id] = Tree(list)] /\ evtree' = evtree
    BY <1>4 DEF Store
  <2>3. Tree(list) \in [state : {"null", "set"}, list : Seq(History)]
    BY <1>2 DEF Tree
  <2>4. LogOK'
    <3>1. tree' \in Seq([state : {"null", "set"}, list : Seq(History)]) /\ Len(tree') = Len(tree)
      BY <2>1, <2>2, <2>3, IdsNat, ExceptSeq DEF LogOK
    <3>2. QED
      BY <1>1, <3>1 DEF LogOK
  <2>5. TreesOK'
    <3>1. \A i \in Ids : tree'[i] = IF i = id THEN Tree(list) ELSE tree[i]
      BY <2>1, <2>2, IdsNat
    <3>2. ASSUME NEW top, NEW t, Good(top, t) PROVE Good(top, t)'
      BY <1>1, <3>2 DEF Good, Known, OneOrigin, Falls, NoWrap
    <3>3. ASSUME NEW i \in Ids
          PROVE  tree'[i] = NoTree \/ (Settled(i)' /\ Good(log[i], tree[i].list)')
      <4>1. CASE i = id
        <5>1. tree'[i].state = "set" /\ tree'[i].list = list /\ log' = log
          BY <1>1, <3>1, <4>1 DEF Tree
        <5>2. QED
          BY <1>1, <2>1, <4>1, <5>1 DEF Settled, Good, Known, OneOrigin, Falls, NoWrap
      <4>2. CASE i # id
        <5>1. tree'[i] = tree[i] /\ log' = log
          BY <1>1, <3>1, <4>2
        <5>2. QED
          BY <1>1, <5>1 DEF TreesOK, Settled, Good, Known, OneOrigin, Falls, NoWrap
      <4>3. QED
        BY <4>1, <4>2
    <3>4. QED
      BY <1>1, <3>3 DEF TreesOK
  <2>6. EventsOK'
    BY <1>1, <2>2 DEF EventsOK, OneOrigin
  <2>7. QED
    BY <1>3, <2>4, <2>5, <2>6
<1>5. CASE w = "event"
  <2>1. id \in Events /\ start[id] = Root(w)
    BY <1>2, <1>5 DEF Root, Targets
  <2>2. evtree' = [evtree EXCEPT ![id] = Tree(list)] /\ tree' = tree
    BY <1>5 DEF Store
  <2>3. LogOK' /\ TreesOK'
    BY <1>1, <2>2 DEF LogOK, TreesOK, Settled, Good, Known, OneOrigin, Falls, NoWrap
  <2>4. start[id] # 0 => OneOrigin(log[start[id]], list)
    BY <1>2, <2>1 DEF Good
  <2>5. EventsOK'
    BY <1>1, <1>2, <2>1, <2>2, <2>4 DEF EventsOK, OneOrigin, Tree
  <2>6. QED
    BY <1>3, <2>3, <2>5
<1>6. QED
  BY <1>4, <1>5 DEF Walkers

LEMMA OutOfMemoryInv ==
  ASSUME TreeIInv, NEW w \in Walkers, OutOfMemory(w)
  PROVE  TreeIInv'
<1> USE DEF TreeIInv, OutOfMemory
<1>1. LogOK' /\ TreesOK' /\ EventsOK'
  BY DEF LogOK, TreesOK, EventsOK, Ids, Settled, Good, Known, OneOrigin, Falls, Arrived, NoWrap
<1>2. WalksOK'
  BY DEF WalksOK, Idle
<1>3. QED
  BY <1>1, <1>2

LEMMA TreeStep == TreeIInv /\ [Next]_vars => TreeIInv'
<1> SUFFICES ASSUME TreeIInv, [Next]_vars PROVE TreeIInv'
  OBVIOUS
<1>1. ASSUME NEW h \in History, Report(h) PROVE TreeIInv'
  BY <1>1, ReportInv
<1>2. ASSUME NEW e \in Events, ReportEvent(e) PROVE TreeIInv'
  BY <1>2, ReportEventInv
<1>3. ASSUME NEW e \in Events, StartEvent(e) PROVE TreeIInv'
  BY <1>3, StartEventInv
<1>4. CASE StartRow
  BY <1>4, StartRowInv
<1>5. ASSUME NEW w \in Walkers, QueryExecve(w) PROVE TreeIInv'
  BY <1>5, QueryExecveInv
<1>6. ASSUME NEW w \in Walkers, QueryFork(w) PROVE TreeIInv'
  BY <1>6, QueryForkInv
<1>7. ASSUME NEW w \in Walkers, Store(w) PROVE TreeIInv'
  BY <1>7, StoreInv
<1>8. ASSUME NEW w \in Walkers, OutOfMemory(w) PROVE TreeIInv'
  BY <1>8, OutOfMemoryInv
<1>9. CASE UNCHANGED vars
  <2>1. ASSUME NEW w \in Walkers PROVE (walk[w] = Idle \/ WalkOK(w))'
    BY <1>9, <2>1, OtherWalk DEF TreeIInv, WalksOK, vars
  <2>2. WalksOK'
    BY <1>9, <2>1 DEF TreeIInv, WalksOK, vars
  <2>3. LogOK' /\ TreesOK' /\ EventsOK'
    BY <1>9 DEF TreeIInv, vars, LogOK, TreesOK, EventsOK, Ids, Settled, Good, Known,
                OneOrigin, Falls, Arrived, NoWrap
  <2>4. QED
    BY <2>2, <2>3 DEF TreeIInv
<1>10. QED
  BY <1>1, <1>2, <1>3, <1>4, <1>5, <1>6, <1>7, <1>8, <1>9 DEF Next, Turn

-----------------------------------------------------------------------------
(* The table, the stored trees and the builders are well formed.           *)
THEOREM TreeTypeCorrect == Spec => []TypeOK
<1>1. TreeIInv => TypeOK
  <2> SUFFICES ASSUME TreeIInv PROVE TypeOK
    OBVIOUS
  <2>1. /\ log \in Seq(History) /\ Len(tree) = Len(log) /\ container \subseteq Ids
        /\ killed \in BOOLEAN
    BY DEF TreeIInv, LogOK
  <2>2. \A i \in Ids : tree[i] = NoTree \/ (Settled(i) /\ tree[i].list \in Seq(History))
    BY DEF TreeIInv, TreesOK, Good, Known
  <2>3. /\ \A e \in Events : evtree[e] \in {Absent, NoTree} \/ evtree[e].list \in Seq(History)
        /\ \A e \in Events : start[e] \in Ids \cup {0}
    BY DEF TreeIInv, EventsOK
  <2>4. ASSUME NEW w \in Walkers
        PROVE  walk[w].pc \in Pcs /\ (walk[w] # Idle => walk[w].list \in Seq(History))
    <3>1. CASE walk[w] = Idle
      BY <3>1 DEF Idle, Pcs
    <3>2. CASE WalkOK(w)
      BY <3>2 DEF WalkOK, Pcs
    <3>3. QED
      BY <2>4, <3>1, <3>2 DEF TreeIInv, WalksOK
  <2>5. QED
    BY <2>1, <2>2, <2>3, <2>4 DEF TypeOK
<1>2. QED
  BY <1>1, TreeInit, TreeStep, PTL DEF Spec

(* No tree mixes machines or boots, whatever pids they repeat and however  *)
(* late their rows arrive (get_process_tree, print_socket_tree).           *)
THEOREM TreesOfOneOrigin == Spec => []OneHostOneBoot
<1>1. TreeIInv => OneHostOneBoot
  <2> SUFFICES ASSUME TreeIInv PROVE OneHostOneBoot
    OBVIOUS
  <2>1. \A i \in Ids : Settled(i) => OneOrigin(log[i], tree[i].list)
    BY DEF TreeIInv, TreesOK, Good, Settled, NoTree
  <2>2. \A e \in Events : (start[e] # 0 /\ evtree[e].state = "set")
                             => OneOrigin(log[start[e]], evtree[e].list)
    BY DEF TreeIInv, EventsOK, Absent, NoTree
  <2>3. QED
    BY <2>1, <2>2 DEF OneHostOneBoot
<1>2. QED
  BY <1>1, TreeInit, TreeStep, PTL DEF Spec

(* Until a wrapped pid is reported, pids fall along every stored tree.     *)
THEOREM TreesFall == Spec => []TreesDescend
<1>1. TreeIInv => TreesDescend
  BY DEF TreeIInv, TreesOK, Good, Falls, TreesDescend, Settled, NoTree
<1>2. QED
  BY <1>1, TreeInit, TreeStep, PTL DEF Spec

(* A builder that meets a row again has met a wrapped pid before, so that  *)
(* no other history makes it collect rows until its memory is full.        *)
THEOREM LoopsNeedWrap == Spec => []RevisitNeedsWrap
<1>1. ASSUME NEW top, NEW s, s \in Seq(History), Descending(top, s),
             NEW j \in DOMAIN s, NEW k \in DOMAIN s, j # k
      PROVE  s[j] # s[k]
  <2>1. s[j].pid \in Nat /\ s[k].pid \in Nat /\ j \in Nat /\ k \in Nat
    BY <1>1, HistoryAssumption
  <2>2. CASE j < k
    BY <1>1, <2>1, <2>2 DEF Descending
  <2>3. CASE k < j
    BY <1>1, <2>1, <2>3 DEF Descending
  <2>4. QED
    BY <1>1, <2>1, <2>2, <2>3
<1>2. TreeIInv => RevisitNeedsWrap
  <2> SUFFICES ASSUME TreeIInv, NEW w \in Walkers, walk[w] # Idle,
                      NEW j \in DOMAIN walk[w].list, NEW k \in DOMAIN walk[w].list,
                      j # k, walk[w].list[j] = walk[w].list[k]
               PROVE  ~ NoWrap /\ (walk[w].pc # "store" => Wrapped(walk[w].list))
    BY DEF RevisitNeedsWrap, Wrapped
  <2>1. WalkOK(w) /\ walk[w].list \in Seq(History)
    BY DEF TreeIInv, WalksOK, WalkOK
  <2>2. Root(w) \in Ids /\ Good(log[Root(w)], walk[w].list)
    BY <2>1 DEF WalkOK
  <2>3. ~ NoWrap
    BY <1>1, <2>1, <2>2 DEF Good, Falls
  <2>4. ASSUME walk[w].pc # "store" PROVE Wrapped(walk[w].list)
    BY <1>1, <2>1, <2>2, <2>4 DEF WalkOK, Searching
  <2>5. QED
    BY <2>3, <2>4
<1>3. QED
  BY <1>2, TreeInit, TreeStep, PTL DEF Spec

-----------------------------------------------------------------------------
(* Complete trees.  First, that the recursive function Ancestry is what    *)
(* its definition says, which takes induction over the natural numbers.    *)
LEMMA LeastNumber ==
  ASSUME NEW T \in SUBSET Nat, T # {}
  PROVE  \E n \in T : \A m \in T : n <= m
<1> DEFINE Below == {s \in Nat \X Nat : s[1] < s[2]}
<1>1. Below = OpToRel(<, Nat)
  BY Zenon DEF OpToRel
<1>2. IsWellFoundedOn(Below, Nat)
  BY <1>1, NatLessThanWellFounded
<1> HIDE DEF Below
<1>3. PICK x \in T : \A y \in T : ~ (<<y, x>> \in Below)
  BY <1>2, WFMin
<1>4. ASSUME NEW y \in T PROVE x <= y
  <2>1. x \in Nat /\ y \in Nat /\ <<y, x>> \in Nat \X Nat
    OBVIOUS
  <2>2. <<y, x>>[1] = y /\ <<y, x>>[2] = x
    OBVIOUS
  <2>3. y < x => <<y, x>> \in Below
    BY <2>1, <2>2 DEF Below
  <2>4. QED
    BY <1>3, <2>1, <2>3
<1>5. QED
  BY <1>4

LEMMA SetInduction ==
  ASSUME NEW S, 0 \in S, \A n \in Nat : n \in S => n + 1 \in S
  PROVE  Nat \subseteq S
<1> DEFINE T == {n \in Nat : n \notin S}
<1> SUFFICES ASSUME T # {} PROVE FALSE
  OBVIOUS
<1>1. T \in SUBSET Nat
  OBVIOUS
<1> HIDE DEF T
<1>2. PICK n \in T : \A m \in T : n <= m
  BY <1>1, LeastNumber
<1>3. n \in Nat /\ n \notin S /\ n # 0
  BY DEF T
<1>4. n - 1 \in Nat /\ n = (n - 1) + 1 /\ ~ (n <= n - 1)
  BY <1>3
<1>5. n - 1 \in S
  BY <1>2, <1>4 DEF T
<1>6. QED
  BY <1>3, <1>4, <1>5

(* The first n generations of Ancestry.                                    *)
UpTo(s, n) == s = [i \in 0..n |-> IF i = 0 THEN NoAncestry ELSE OneMore(s[i - 1])]

LEMMA UpToExists ==
  ASSUME NEW n \in Nat
  PROVE  \E s : UpTo(s, n)
<1> DEFINE S == {m \in Nat : \E s : UpTo(s, m)}
<1>1. 0 \in S
  <2> DEFINE s == [i \in 0..0 |-> NoAncestry]
  <2>1. s = [i \in 0..0 |-> IF i = 0 THEN NoAncestry ELSE OneMore(s[i - 1])]
    OBVIOUS
  <2>2. QED
    BY <2>1 DEF UpTo
<1>2. ASSUME NEW m \in Nat, m \in S PROVE m + 1 \in S
  <2>1. PICK s : UpTo(s, m)
    BY <1>2
  <2> DEFINE r == [i \in 0..(m + 1) |-> IF i = m + 1 THEN OneMore(s[m]) ELSE s[i]]
             q == [i \in 0..(m + 1) |-> IF i = 0 THEN NoAncestry ELSE OneMore(r[i - 1])]
  <2>2. \A i \in 0..m : s[i] = IF i = 0 THEN NoAncestry ELSE OneMore(s[i - 1])
    BY <2>1 DEF UpTo
  <2>3. ASSUME NEW i \in 0..(m + 1) PROVE r[i] = q[i]
    <3>1. CASE i = 0
      <4>1. i # m + 1 /\ i \in 0..m
        BY <3>1
      <4>2. QED
        BY <2>2, <3>1, <4>1
    <3>2. CASE i # 0
      <4>1. i - 1 \in 0..m /\ i - 1 \in 0..(m + 1) /\ i - 1 # m + 1
        BY <3>2
      <4>2. r[i - 1] = s[i - 1]
        BY <4>1
      <4>3. CASE i = m + 1
        <5>1. i - 1 = m
          BY <4>3
        <5>2. QED
          BY <3>2, <4>2, <4>3, <5>1
      <4>4. CASE i # m + 1
        <5>1. i \in 0..m
          BY <4>4
        <5>2. QED
          BY <2>2, <3>2, <4>2, <4>4, <5>1
      <4>5. QED
        BY <4>3, <4>4
    <3>3. QED
      BY <3>1, <3>2
  <2>4. r = q
    BY <2>3
  <2>5. UpTo(r, m + 1)
    BY <2>4 DEF UpTo
  <2>6. QED
    BY <2>5
<1> HIDE DEF S
<1>3. Nat \subseteq S
  BY <1>1, <1>2, SetInduction
<1>4. QED
  BY <1>3 DEF S

LEMMA UpToAgrees ==
  ASSUME NEW m \in Nat, NEW s, NEW r, UpTo(s, m), UpTo(r, m + 1)
  PROVE  \A i \in 0..m : s[i] = r[i]
<1> DEFINE S == {i \in Nat : i \in 0..m => s[i] = r[i]}
<1>1. /\ \A i \in 0..m : s[i] = IF i = 0 THEN NoAncestry ELSE OneMore(s[i - 1])
      /\ \A i \in 0..(m + 1) : r[i] = IF i = 0 THEN NoAncestry ELSE OneMore(r[i - 1])
  BY DEF UpTo
<1>2. 0 \in S
  <2>1. 0 \in 0..m /\ 0 \in 0..(m + 1)
    OBVIOUS
  <2>2. QED
    BY <1>1, <2>1
<1>3. ASSUME NEW i \in Nat, i \in S PROVE i + 1 \in S
  <2> SUFFICES ASSUME i + 1 \in 0..m PROVE s[i + 1] = r[i + 1]
    OBVIOUS
  <2>1. i \in 0..m /\ i + 1 \in 0..(m + 1) /\ i + 1 # 0 /\ (i + 1) - 1 = i
    OBVIOUS
  <2>2. s[i] = r[i]
    BY <1>3, <2>1
  <2>3. QED
    BY <1>1, <2>1, <2>2
<1> HIDE DEF S
<1>4. Nat \subseteq S
  BY <1>2, <1>3, SetInduction
<1>5. QED
  BY <1>4 DEF S

LEMMA AncestryDefined ==
  Ancestry = [n \in Nat |-> IF n = 0 THEN NoAncestry ELSE OneMore(Ancestry[n - 1])]
<1> DEFINE s(n) == CHOOSE x : UpTo(x, n)
           f == [n \in Nat |-> s(n)[n]]
           g == [n \in Nat |-> IF n = 0 THEN NoAncestry ELSE OneMore(f[n - 1])]
<1>1. \A n \in Nat : UpTo(s(n), n)
  BY UpToExists
<1> HIDE DEF s
<1>2. ASSUME NEW n \in Nat PROVE f[n] = g[n]
  <2>1. \A i \in 0..n : s(n)[i] = IF i = 0 THEN NoAncestry ELSE OneMore(s(n)[i - 1])
    BY <1>1 DEF UpTo
  <2>2. CASE n = 0
    BY <2>1, <2>2
  <2>3. CASE n # 0
    <3>1. n - 1 \in Nat /\ (n - 1) + 1 = n /\ n - 1 \in 0..(n - 1) /\ n \in 0..n
      BY <2>3
    <3>2. UpTo(s(n - 1), n - 1) /\ UpTo(s(n), (n - 1) + 1)
      BY <1>1, <3>1
    <3>3. s(n - 1)[n - 1] = s(n)[n - 1]
      BY <3>1, <3>2, UpToAgrees
    <3>4. QED
      BY <2>1, <2>3, <3>1, <3>3
  <2>4. QED
    BY <2>2, <2>3
<1>3. f = g
  BY <1>2
<1> HIDE DEF f
<1>4. \E x : x = [n \in Nat |-> IF n = 0 THEN NoAncestry ELSE OneMore(x[n - 1])]
  BY <1>3
<1>5. QED
  BY <1>4 DEF Ancestry

LEMMA AncestryNext ==
  ASSUME NEW n \in Nat, n # 0, NEW h \in History
  PROVE  Ancestry[n][h] = IF Parents(h) = {} THEN <<>>
                          ELSE <<Parent(h).pid>> \o Ancestry[n - 1][Parent(h)]
<1>1. Ancestry[n] = OneMore(Ancestry[n - 1])
  BY AncestryDefined
<1>2. QED
  BY <1>1 DEF OneMore

LEMMA AncestryNone ==
  ASSUME NEW n \in Nat, NEW h \in History, n = 0 \/ Parents(h) = {}
  PROVE  Ancestry[n][h] = <<>>
BY AncestryDefined DEF OneMore, NoAncestry

LEMMA ParentIsThere ==
  ASSUME NEW h \in History, Parents(h) # {}
  PROVE  Parent(h) \in Parents(h)
<1> DEFINE T == {h.time - g.time : g \in Parents(h)}
<1>1. \A g \in Parents(h) : g.time \in Nat /\ h.time \in Nat /\ g.time < h.time
  BY HistoryAssumption DEF Parents
<1>2. T \in SUBSET Nat /\ T # {}
  BY <1>1
<1>3. PICK n \in T : \A m \in T : n <= m
  <2> HIDE DEF T
  <2>1. QED
    BY <1>2, LeastNumber
<1>4. PICK g \in Parents(h) : n = h.time - g.time
  OBVIOUS
<1>5. ASSUME NEW x \in Parents(h) PROVE x.time <= g.time
  <2>1. h.time - x.time \in T
    OBVIOUS
  <2>2. n <= h.time - x.time
    BY <1>3, <2>1
  <2>3. QED
    BY <1>1, <1>4, <2>2
<1>6. QED
  BY <1>4, <1>5 DEF Parent

(* The tree of a row is its ancestry through all generations.              *)
Whole(h, s) == \A n \in Nat : n >= h.pid => PidsOf(s) = Ancestry[n][h]

(* Every row is reported once, and in order those before it are there.     *)
Arrivals ==
  /\ \A j, k \in Ids : log[j] = log[k] => j = k
  /\ InOrder => \A k \in Ids : \A g \in History :
                  g.time < log[k].time => \E j \in 1..(k - 1) : log[j] = g

(* The rows before the one that is worked on have their trees.             *)
Turns ==
  Bpf /\ walk["process"] # Idle =>
    \A j \in 1..(walk["process"].id - 1) : tree[j] # NoTree

WholeTrees ==
  Bpf /\ InOrder =>
    \A i \in Ids : Settled(i) /\ Orderly(log[i].host) => Whole(log[i], tree[i].list)

(* The builder is done with the first row it finds.                        *)
Climbing(s, h) ==
  /\ s.pc = "store" => Whole(h, s.list)
  /\ s.pc # "store" => s.list = <<>> /\ s.from = h /\ s.key = h.ppid
  /\ s.pc = "fork" => \A g \in Arrived : ~ (g.pid = h.ppid /\ g.host = h.host /\ g.exec)

WholeWalk ==
  Bpf /\ InOrder /\ walk["process"] # Idle /\ Orderly(log[walk["process"].id].host) =>
    Climbing(walk["process"], log[walk["process"].id])

CompleteIInv == TreeIInv /\ Arrivals /\ Turns /\ WholeTrees /\ WholeWalk

-----------------------------------------------------------------------------
(* On an orderly host all rows of the parent's pid are the parent's, and   *)
(* were there before.                                                      *)
LEMMA ParentsThere ==
  ASSUME LogOK, Arrivals, InOrder, NEW i \in Ids, Orderly(log[i].host)
  PROVE  /\ \A g : g \in Parents(log[i]) <=>
                     g \in Arrived /\ g.pid = log[i].ppid /\ g.host = log[i].host
         /\ \A j \in Ids : log[j].pid = log[i].ppid /\ log[j].host = log[i].host =>
                             /\ j \in 1..(i - 1) /\ log[j].boot = log[i].boot
                             /\ log[j].time < log[i].time
<1>1. /\ log[i] \in History /\ log[i] \in Arrived /\ Arrived \subseteq History
      /\ Ids = 1..Len(log) /\ Len(log) \in Nat
  BY IdsNat
<1>2. \A g \in Arrived : g.pid = log[i].ppid /\ g.host = log[i].host =>
        g.boot = log[i].boot /\ g.time < log[i].time
  BY <1>1 DEF Orderly
<1>3. \A g \in History : g.time < log[i].time => \E j \in 1..(i - 1) : log[j] = g
  BY DEF Arrivals
<1>4. \A j \in 1..(i - 1) : j \in Ids
  BY <1>1
<1>5. \A g \in History : g.time < log[i].time => g \in Arrived
  BY <1>3, <1>4 DEF Arrived
<1>6. ASSUME NEW g
      PROVE  g \in Parents(log[i]) <=>
               g \in Arrived /\ g.pid = log[i].ppid /\ g.host = log[i].host
  BY <1>1, <1>2, <1>5 DEF Parents
<1>7. ASSUME NEW j \in Ids, log[j].pid = log[i].ppid, log[j].host = log[i].host
      PROVE  /\ j \in 1..(i - 1) /\ log[j].boot = log[i].boot
             /\ log[j].time < log[i].time
  <2>1. log[j] \in Arrived
    BY DEF Arrived
  <2>2. log[j].boot = log[i].boot /\ log[j].time < log[i].time
    BY <1>2, <1>7, <2>1
  <2>3. PICK k \in 1..(i - 1) : log[k] = log[j]
    BY <1>1, <1>3, <2>1, <2>2
  <2>4. k = j
    BY <1>4, <2>3 DEF Arrivals
  <2>5. QED
    BY <2>2, <2>3, <2>4
<1>8. QED
  BY <1>6, <1>7

(* Two rows of one process have the same ancestry.                         *)
LEMMA OneAncestry ==
  ASSUME LogOK, Arrivals, InOrder, NEW i \in Ids, NEW j \in Ids, Orderly(log[i].host),
         log[i].host = log[j].host, log[i].pid = log[j].pid, NEW n \in Nat
  PROVE  Ancestry[n][log[i]] = Ancestry[n][log[j]]
<1>1. log[i] \in History /\ log[j] \in History /\ log[i] \in Arrived /\ log[j] \in Arrived
  BY IdsNat
<1>2. log[i].ppid = log[j].ppid
  BY <1>1 DEF Orderly
<1>3. \A g : g \in Parents(log[i]) <=> g \in Parents(log[j])
  <2>1. \A g : g \in Parents(log[i]) <=>
                 g \in Arrived /\ g.pid = log[i].ppid /\ g.host = log[i].host
    BY ParentsThere
  <2>2. Orderly(log[j].host)
    OBVIOUS
  <2>3. \A g : g \in Parents(log[j]) <=>
                 g \in Arrived /\ g.pid = log[j].ppid /\ g.host = log[j].host
    BY <2>2, ParentsThere
  <2>4. QED
    BY <1>2, <2>1, <2>3
<1>4. Parents(log[i]) = Parents(log[j])
  BY <1>3
<1>5. Parent(log[i]) = Parent(log[j])
  BY <1>4 DEF Parent
<1>6. CASE n = 0 \/ Parents(log[i]) = {}
  BY <1>1, <1>4, <1>6, AncestryNone
<1>7. CASE n # 0 /\ Parents(log[i]) # {}
  <2>1. Ancestry[n][log[i]] = <<Parent(log[i]).pid>> \o Ancestry[n - 1][Parent(log[i])]
    BY <1>1, <1>7, AncestryNext
  <2>2. Ancestry[n][log[j]] = <<Parent(log[j]).pid>> \o Ancestry[n - 1][Parent(log[j])]
    BY <1>1, <1>4, <1>7, AncestryNext
  <2>3. QED
    BY <1>5, <2>1, <2>2
<1>8. QED
  BY <1>6, <1>7

LEMMA PidsOfGlued ==
  ASSUME NEW g \in History, NEW s \in Seq(History)
  PROVE  PidsOf(<<g>> \o s) = <<g.pid>> \o PidsOf(s)
<1> DEFINE a == <<g>> \o s
           b == PidsOf(s)
           c == <<g.pid>> \o b
<1>1. /\ a \in Seq(History) /\ Len(a) = 1 + Len(s) /\ a[1] = g /\ Len(s) \in Nat
      /\ \A k \in 1..Len(s) : a[1 + k] = s[k]
  OBVIOUS
<1>2. /\ b \in Seq(Nat) /\ Len(b) = Len(s) /\ \A k \in 1..Len(s) : b[k] = s[k].pid
  <2>1. \A k \in 1..Len(s) : s[k].pid \in Nat
    BY HistoryAssumption
  <2>2. DOMAIN s = 1..Len(s)
    OBVIOUS
  <2>3. b = [k \in 1..Len(s) |-> s[k].pid]
    BY <2>2 DEF PidsOf
  <2>4. QED
    BY <1>1, <2>1, <2>3
<1> HIDE DEF b
<1>3. /\ c \in Seq(Nat) /\ Len(c) = 1 + Len(s) /\ c[1] = g.pid
      /\ \A k \in 1..Len(s) : c[1 + k] = s[k].pid
  <2>1. g.pid \in Nat
    BY HistoryAssumption
  <2>2. /\ c \in Seq(Nat) /\ Len(c) = 1 + Len(b) /\ c[1] = g.pid
        /\ \A k \in 1..Len(b) : c[1 + k] = b[k]
    BY <1>2, <2>1
  <2>3. QED
    BY <1>2, <2>2
<1> HIDE DEF a, c
<1>4. c = [k \in 1..(1 + Len(s)) |-> c[k]]
  BY <1>1, <1>3
<1>5. \A k \in 1..(1 + Len(s)) : a[k].pid = c[k]
  <2> SUFFICES ASSUME NEW k \in 1..(1 + Len(s)) PROVE a[k].pid = c[k]
    OBVIOUS
  <2>1. CASE k = 1
    BY <1>1, <1>3, <2>1
  <2>2. CASE k # 1
    <3>1. k - 1 \in 1..Len(s) /\ k = 1 + (k - 1)
      BY <1>1, <2>2
    <3>2. a[k] = s[k - 1] /\ c[k] = s[k - 1].pid
      BY <1>1, <1>3, <3>1
    <3>3. QED
      BY <3>2
  <2>3. QED
    BY <2>1, <2>2
<1>6. DOMAIN a = 1..(1 + Len(s))
  BY <1>1
<1>7. PidsOf(a) = c
  BY <1>4, <1>5, <1>6 DEF PidsOf
<1>8. QED
  BY <1>7 DEF a, c, b

(* process_list = parent followed by the parent's tree.                    *)
LEMMA GlueWhole ==
  ASSUME LogOK, Arrivals, InOrder, NEW i \in Ids, NEW j \in Ids, Orderly(log[i].host),
         log[j].pid = log[i].ppid, log[j].host = log[i].host,
         NEW s \in Seq(History), Whole(log[j], s)
  PROVE  Whole(log[i], <<log[j]>> \o s)
<1> DEFINE h == log[i]
           g == log[j]
           p == Parent(h)
<1>1. h \in History /\ g \in History /\ h \in Arrived /\ g \in Arrived
  BY IdsNat
<1>2. h.pid \in Nat /\ h.ppid \in Nat /\ h.pid > h.ppid
  BY <1>1, HistoryAssumption DEF Orderly
<1>3. g \in Parents(h)
  BY <1>1, ParentsThere
<1>4. p \in Parents(h)
  BY <1>1, <1>3, ParentIsThere
<1>5. p \in Arrived /\ p.pid = h.ppid /\ p.host = h.host
  BY <1>4, ParentsThere
<1>6. PICK k \in Ids : p = log[k]
  BY <1>5 DEF Arrived
<1> HIDE DEF h, g, p
<1>7. ASSUME NEW n \in Nat, n >= h.pid
      PROVE  PidsOf(<<g>> \o s) = Ancestry[n][h]
  <2>1. n # 0 /\ n - 1 \in Nat /\ n - 1 >= h.ppid
    BY <1>2, <1>7
  <2>2. Ancestry[n][h] = <<p.pid>> \o Ancestry[n - 1][p]
    BY <1>1, <1>3, <2>1, AncestryNext DEF p
  <2>3. Ancestry[n - 1][p] = Ancestry[n - 1][g]
    BY <1>5, <1>6, <2>1, OneAncestry DEF g, h
  <2>4. Ancestry[n - 1][g] = PidsOf(s)
    BY <2>1 DEF Whole, g, h
  <2>5. p.pid = g.pid
    BY <1>5 DEF g, h
  <2>6. QED
    BY <1>1, <2>2, <2>3, <2>4, <2>5, PidsOfGlued
<1>8. QED
  BY <1>7 DEF Whole, g, h

LEMMA NothingWhole ==
  ASSUME LogOK, Arrivals, InOrder, NEW i \in Ids, Orderly(log[i].host),
         \A g \in Arrived : ~ (g.pid = log[i].ppid /\ g.host = log[i].host)
  PROVE  Whole(log[i], <<>>)
<1>1. Parents(log[i]) = {}
  BY ParentsThere
<1>2. log[i] \in History
  BY IdsNat
<1>3. PidsOf(<<>>) = <<>>
  BY DEF PidsOf
<1>4. QED
  BY <1>1, <1>2, <1>3, AncestryNone DEF Whole

-----------------------------------------------------------------------------
LEMMA CompleteInit == Init => Arrivals /\ Turns /\ WholeTrees /\ WholeWalk
<1>1. Init => Ids = {} /\ walk["process"] = Idle
  BY DEF Init, Ids, Walkers
<1>2. QED
  BY <1>1 DEF Arrivals, Turns, WholeTrees, WholeWalk

(* What the builder of the process table works on.                         *)
LEMMA AtWork ==
  ASSUME TreeIInv, walk["process"] # Idle
  PROVE  /\ walk["process"].id \in Ids /\ walk["process"].pc \in {"execve", "fork", "store"}
         /\ walk["process"].list \in Seq(History)
<1>1. WalkOK("process")
  BY DEF TreeIInv, WalksOK, Walkers
<1>2. QED
  BY <1>1 DEF WalkOK, Targets

LEMMA UntouchedStep ==
  ASSUME CompleteIInv, UNCHANGED <<log, tree>>, walk'["process"] = walk["process"]
  PROVE  (Arrivals /\ Turns /\ WholeTrees /\ WholeWalk)'
<1>1. Ids' = Ids /\ Arrived' = Arrived
  BY DEF Ids, Arrived
<1>2. Arrivals' /\ Turns' /\ WholeTrees'
  BY <1>1 DEF CompleteIInv, Arrivals, Turns, WholeTrees, Settled, Orderly
<1>3. WholeWalk'
  BY <1>1 DEF CompleteIInv, WholeWalk, Climbing, Orderly
<1>4. QED
  BY <1>2, <1>3

(* A report that comes in order brings no parent that was missing.         *)
LEMMA ReportComplete ==
  ASSUME CompleteIInv, NEW h \in History, Report(h)
  PROVE  (Arrivals /\ Turns /\ WholeTrees /\ WholeWalk)'
<1> DEFINE n == Len(log) + 1
<1>1. /\ Ids = 1..Len(log) /\ Ids = DOMAIN tree /\ Len(log) \in Nat
      /\ log \in Seq(History) /\ tree \in Seq([state : {"null", "set"}, list : Seq(History)])
      /\ Len(tree) = Len(log)
  BY IdsNat DEF CompleteIInv, TreeIInv, LogOK
<1>2. /\ log' = Append(log, h) /\ tree' = Append(tree, NoTree) /\ walk' = walk
      /\ h \notin Arrived
      /\ InOrder => \A g \in History : g.time < h.time => g \in Arrived
  BY DEF Report
<1>3. /\ Ids' = 1..n /\ \A i \in Ids : log'[i] = log[i]
      /\ log'[n] = h
  BY <1>1, <1>2, AppendProperties DEF Ids
<1>4. (\A i \in Ids : tree'[i] = tree[i]) /\ tree'[n] = NoTree
  <2>1. NoTree \in [state : {"null", "set"}, list : Seq(History)]
    BY DEF NoTree
  <2>2. QED
    BY <1>1, <1>2, <2>1, AppendProperties
<1>5. Ids' = Ids \cup {n} /\ n \notin Ids /\ n - 1 = Len(log) /\ n \in Nat
  BY <1>1, <1>3
<1> HIDE DEF n
<1>6. Arrived' = Arrived \cup {h}
  BY <1>3, <1>5 DEF Arrived
<1>7. Arrivals'
  <2>1. ASSUME NEW j \in Ids', NEW k \in Ids', log'[j] = log'[k] PROVE j = k
    <3>1. \A i \in Ids : log'[i] # h
      BY <1>2, <1>3 DEF Arrived
    <3>2. QED
      BY <1>3, <1>5, <2>1, <3>1 DEF CompleteIInv, Arrivals
  <2>2. ASSUME InOrder, NEW k \in Ids', NEW g \in History, g.time < log'[k].time
        PROVE  \E j \in 1..(k - 1) : log'[j] = g
    <3>1. CASE k \in Ids
      <4>1. PICK j \in 1..(k - 1) : log[j] = g
        BY <1>3, <2>2, <3>1 DEF CompleteIInv, Arrivals
      <4>2. j \in Ids
        BY <1>1, <3>1
      <4>3. QED
        BY <1>3, <4>1, <4>2
    <3>2. CASE k = n
      <4>1. g \in Arrived
        BY <1>2, <1>3, <2>2, <3>2
      <4>2. PICK j \in Ids : log[j] = g
        BY <4>1 DEF Arrived
      <4>3. j \in 1..(k - 1)
        BY <1>1, <1>5, <3>2, <4>2
      <4>4. QED
        BY <1>3, <4>2, <4>3
    <3>3. QED
      BY <1>5, <3>1, <3>2
  <2>3. QED
    BY <2>1, <2>2 DEF Arrivals
<1>8. Turns'
  <2> SUFFICES ASSUME Bpf, walk["process"] # Idle, NEW j \in 1..(walk["process"].id - 1)
               PROVE  tree'[j] # NoTree
    BY <1>2 DEF Turns
  <2>1. j \in Ids
    BY <1>1, AtWork DEF CompleteIInv
  <2>2. QED
    BY <1>4, <2>1 DEF CompleteIInv, Turns
<1>9. WholeTrees'
  <2> SUFFICES ASSUME Bpf, InOrder, NEW i \in Ids', Settled(i)', Orderly(log[i].host)'
               PROVE  Whole(log[i], tree[i].list)'
    BY DEF WholeTrees
  <2>1. i \in Ids
    BY <1>4, <1>5 DEF Settled, NoTree
  <2>2. log'[i] = log[i] /\ tree'[i] = tree[i]
    BY <1>3, <1>4, <2>1
  <2>3. Settled(i) /\ Orderly(log[i].host)
    BY <1>6, <2>2 DEF Settled, Orderly
  <2>4. QED
    BY <2>1, <2>2, <2>3 DEF CompleteIInv, WholeTrees, Whole
<1>10. WholeWalk'
  <2> SUFFICES ASSUME Bpf, InOrder, walk["process"] # Idle
               PROVE  (Orderly(log[walk["process"].id].host) =>
                         Climbing(walk["process"], log[walk["process"].id]))'
    BY <1>2 DEF WholeWalk
  <2>1. PICK id \in Ids : walk["process"].id = id
    BY AtWork DEF CompleteIInv
  <2> SUFFICES ASSUME Orderly(log[id].host)'
               PROVE  Climbing(walk["process"], log[id])'
    BY <1>2, <2>1
  <2>2. log'[id] = log[id] /\ log[id] \in Arrived'
    BY <1>3, <1>6, <2>1 DEF Arrived
  <2>3. Orderly(log[id].host)
    BY <1>6, <2>2 DEF Orderly
  <2>4. Climbing(walk["process"], log[id])
    BY <2>1, <2>3 DEF CompleteIInv, WholeWalk
  <2>5. ~ (h.pid = log[id].ppid /\ h.host = log[id].host)
    <3> SUFFICES ASSUME h.pid = log[id].ppid, h.host = log[id].host PROVE FALSE
      OBVIOUS
    <3>1. h.time < log[id].time
      BY <1>6, <2>2 DEF Orderly
    <3>2. PICK j \in 1..(id - 1) : log[j] = h
      BY <2>1, <3>1 DEF CompleteIInv, Arrivals
    <3>3. j \in Ids
      BY <1>1, <2>1
    <3>4. QED
      BY <1>2, <3>2, <3>3 DEF Arrived
  <2>6. QED
    BY <1>2, <1>6, <2>2, <2>4, <2>5 DEF Climbing, Whole
<1>11. QED
  BY <1>7, <1>8, <1>9, <1>10

(* The process table's worker turns to a row.                              *)
LEMMA StartRowComplete ==
  ASSUME CompleteIInv, StartRow
  PROVE  (Arrivals /\ Turns /\ WholeTrees /\ WholeWalk)'
<1>1. PICK i \in Ids :
        /\ Bpf => \A j \in 1..(i - 1) : tree[j] # NoTree
        /\ Begin("process", i, i)
  BY DEF StartRow
<1>2. UNCHANGED <<log, tree>> /\ Ids' = Ids /\ Arrived' = Arrived
  BY DEF StartRow, Ids, Arrived
<1>3. walk'["process"] =
        IF log[i].pid <= log[i].ppid
        THEN [pc |-> "store", id |-> i, list |-> <<>>]
        ELSE [pc |-> "execve", id |-> i, key |-> log[i].ppid, from |-> log[i], list |-> <<>>]
  BY <1>1 DEF Begin, CompleteIInv, TreeIInv, WalksOK, Walkers
<1>4. walk'["process"].id = i
  BY <1>3
<1>5. Arrivals' /\ Turns' /\ WholeTrees'
  BY <1>1, <1>2, <1>4 DEF CompleteIInv, Arrivals, Turns, WholeTrees, Settled, Orderly
<1>6. ASSUME Orderly(log[i].host) PROVE Climbing(walk'["process"], log[i])
  <2>1. log[i] \in Arrived /\ log[i].pid \in Nat /\ log[i].ppid \in Nat
    BY IdsNat, HistoryAssumption DEF CompleteIInv, TreeIInv
  <2>2. ~ (log[i].pid <= log[i].ppid)
    BY <1>6, <2>1 DEF Orderly
  <2>3. QED
    BY <1>3, <2>2 DEF Climbing
<1>7. WholeWalk'
  BY <1>2, <1>4, <1>6 DEF WholeWalk, Climbing, Orderly
<1>8. QED
  BY <1>5, <1>7

(* ... and goes on with it.                                                *)
LEMMA WalkOnComplete ==
  ASSUME CompleteIInv, UNCHANGED <<log, tree>>, NEW i \in Ids, walk["process"] # Idle,
         walk["process"].id = i, walk'["process"].id = i,
         Bpf /\ InOrder /\ Orderly(log[i].host) => Climbing(walk'["process"], log[i])
  PROVE  (Arrivals /\ Turns /\ WholeTrees /\ WholeWalk)'
<1>1. Ids' = Ids /\ Arrived' = Arrived
  BY DEF Ids, Arrived
<1>2. Arrivals' /\ Turns' /\ WholeTrees'
  BY <1>1 DEF CompleteIInv, Arrivals, Turns, WholeTrees, Settled, Orderly
<1>3. WholeWalk'
  BY <1>1 DEF WholeWalk, Climbing, Orderly
<1>4. QED
  BY <1>2, <1>3

(* "order by time desc limit 1" returns a row when there is one.           *)
LEMMA LatestFinds ==
  ASSUME LogOK, Arrivals, InOrder, NEW i \in Ids, Orderly(log[i].host), NEW exec \in BOOLEAN,
         Latest(log[i].ppid, log[i].host, exec) = {}, NEW g \in Arrived,
         g.pid = log[i].ppid, g.host = log[i].host
  PROVE  g.exec # exec
<1> DEFINE rows == {j \in Ids : /\ log[j].pid = log[i].ppid /\ log[j].host = log[i].host
                                /\ log[j].exec = exec}
           T == {log[i].time - log[j].time : j \in rows}
<1> SUFFICES ASSUME g.exec = exec PROVE FALSE
  OBVIOUS
<1>1. rows # {}
  BY DEF Arrived
<1>2. \A j \in rows : /\ log[j].time \in Nat /\ log[i].time \in Nat
                      /\ log[j].time < log[i].time
  BY ParentsThere, IdsNat, HistoryAssumption
<1>3. T \in SUBSET Nat /\ T # {}
  BY <1>1, <1>2
<1>4. PICK n \in T : \A m \in T : n <= m
  <2> HIDE DEF T
  <2>1. QED
    BY <1>3, LeastNumber
<1>5. PICK j \in rows : n = log[i].time - log[j].time
  OBVIOUS
<1>6. ASSUME NEW k \in rows PROVE log[k].time <= log[j].time
  <2>1. log[i].time - log[k].time \in T
    OBVIOUS
  <2>2. n <= log[i].time - log[k].time
    BY <1>4, <2>1
  <2>3. QED
    BY <1>2, <1>5, <2>2
<1>7. j \in Latest(log[i].ppid, log[i].host, exec)
  BY <1>5, <1>6 DEF Latest
<1>8. QED
  BY <1>7

(* The first row found has its tree, and is the parent: gluing them is all *)
(* there is to do.                                                         *)
LEMMA FirstVisit ==
  ASSUME CompleteIInv, Bpf, InOrder, walk["process"].pc \in {"execve", "fork"},
         NEW i \in Ids, walk["process"].id = i, Orderly(log[i].host),
         NEW j \in Ids, log[j].pid = walk["process"].key,
         log[j].host = walk["process"].from.host, Visit("process", j)
  PROVE  Climbing(walk'["process"], log[i])
<1> DEFINE s == walk["process"]
<1>1. s # Idle /\ LogOK /\ Arrivals
  BY DEF Idle, CompleteIInv, TreeIInv
<1>2. Climbing(s, log[i])
  BY <1>1 DEF CompleteIInv, WholeWalk
<1>3. s.from = log[i] /\ s.key = log[i].ppid
  BY <1>2 DEF Climbing
<1>4. /\ j \in 1..(i - 1) /\ log[j].boot = log[i].boot /\ log[j].host = log[i].host
      /\ log[j].pid = log[i].ppid
  BY <1>1, <1>3, ParentsThere
<1>5. Gap(log[i], log[j]) \in -3..3
  BY <1>1, <1>4, IdsNat, HistoryAssumption
<1>6. tree[j] # NoTree
  BY <1>1, <1>4 DEF CompleteIInv, Turns
<1>7. Settled(j) /\ tree[j].list \in Seq(History)
  BY <1>6, IdsNat DEF CompleteIInv, TreeIInv, TreesOK
<1>8. Orderly(log[j].host)
  BY <1>4
<1>9. Whole(log[j], tree[j].list)
  BY <1>7, <1>8 DEF CompleteIInv, WholeTrees
<1>10. Whole(log[i], <<log[j]>> \o tree[j].list)
  BY <1>1, <1>4, <1>7, <1>9, GlueWhole
<1>11. walk'["process"] = [pc |-> "store", id |-> s.id, list |-> <<log[j]>> \o tree[j].list]
  BY <1>3, <1>5, <1>6 DEF Visit, CompleteIInv, TreeIInv, WalksOK, Walkers
<1>12. QED
  BY <1>10, <1>11 DEF Climbing

LEMMA QueryComplete ==
  ASSUME CompleteIInv, QueryExecve("process") \/ QueryFork("process")
  PROVE  (Arrivals /\ Turns /\ WholeTrees /\ WholeWalk)'
<1> DEFINE s == walk["process"]
<1>1. UNCHANGED <<log, tree>> /\ s.pc \in {"execve", "fork"}
  BY DEF QueryExecve, QueryFork
<1>2. s # Idle /\ LogOK /\ Arrivals /\ TreeIInv
  BY <1>1 DEF Idle, CompleteIInv, TreeIInv
<1>3. PICK i \in Ids : s.id = i
  BY <1>2, AtWork
<1>4. DOMAIN walk = Walkers /\ "process" \in Walkers
  BY <1>2 DEF TreeIInv, WalksOK, Walkers
<1>5. ASSUME NEW j \in Ids, log[j].pid = s.key, log[j].host = s.from.host,
             Visit("process", j)
      PROVE  (Arrivals /\ Turns /\ WholeTrees /\ WholeWalk)'
  <2>1. walk'["process"].id = i
    BY <1>3, <1>4, <1>5 DEF Visit
  <2>2. Bpf /\ InOrder /\ Orderly(log[i].host) => Climbing(walk'["process"], log[i])
    BY <1>1, <1>3, <1>5, FirstVisit
  <2>3. QED
    BY <1>1, <1>2, <1>3, <2>1, <2>2, WalkOnComplete
<1>6. ASSUME Bpf, InOrder, Orderly(log[i].host)
      PROVE  Climbing(s, log[i]) /\ s.list = <<>> /\ s.from = log[i] /\ s.key = log[i].ppid
  <2>1. Climbing(s, log[i])
    BY <1>2, <1>3, <1>6 DEF CompleteIInv, WholeWalk
  <2>2. QED
    BY <1>1, <2>1 DEF Climbing
<1>7. CASE QueryExecve("process")
  <2>1. \/ \E j \in Latest(s.key, s.from.host, TRUE) : Visit("process", j)
        \/ /\ Latest(s.key, s.from.host, TRUE) = {}
           /\ walk' = [walk EXCEPT !["process"].pc = "fork"]
    BY <1>7 DEF QueryExecve
  <2>2. CASE \E j \in Latest(s.key, s.from.host, TRUE) : Visit("process", j)
    BY <1>5, <2>2 DEF Latest
  <2>3. ASSUME Latest(s.key, s.from.host, TRUE) = {},
               walk' = [walk EXCEPT !["process"].pc = "fork"]
        PROVE  (Arrivals /\ Turns /\ WholeTrees /\ WholeWalk)'
    <3>1. walk'["process"] = [s EXCEPT !.pc = "fork"]
      BY <1>4, <2>3
    <3>2. s \in [pc : {"execve", "fork"}, id : Targets("process"), key : Nat, from : History,
                 list : Seq(History)]
      BY <1>1, <1>2, <1>4, SearchFacts
    <3>3. /\ walk'["process"].id = i /\ walk'["process"].pc = "fork"
          /\ walk'["process"].list = s.list /\ walk'["process"].from = s.from
          /\ walk'["process"].key = s.key
      BY <1>3, <3>1, <3>2
    <3>4. ASSUME Bpf, InOrder, Orderly(log[i].host)
          PROVE  Climbing(walk'["process"], log[i])
      <4>1. ASSUME NEW g \in Arrived, g.pid = log[i].ppid, g.host = log[i].host
            PROVE  g.exec # TRUE
        BY <1>2, <1>6, <2>3, <3>4, <4>1, LatestFinds
      <4>2. QED
        BY <1>6, <3>3, <3>4, <4>1 DEF Climbing
    <3>5. QED
      BY <1>1, <1>2, <1>3, <3>3, <3>4, WalkOnComplete
  <2>4. QED
    BY <2>1, <2>2, <2>3
<1>8. CASE QueryFork("process")
  <2>1. \/ \E j \in Latest(s.key, s.from.host, FALSE) : Visit("process", j)
        \/ /\ Latest(s.key, s.from.host, FALSE) = {}
           /\ walk' = [walk EXCEPT !["process"] =
                         [pc |-> "store", id |-> s.id, list |-> s.list]]
    BY <1>8 DEF QueryFork
  <2>2. CASE \E j \in Latest(s.key, s.from.host, FALSE) : Visit("process", j)
    BY <1>5, <2>2 DEF Latest
  <2>3. ASSUME Latest(s.key, s.from.host, FALSE) = {},
               walk' = [walk EXCEPT !["process"] =
                          [pc |-> "store", id |-> s.id, list |-> s.list]]
        PROVE  (Arrivals /\ Turns /\ WholeTrees /\ WholeWalk)'
    <3>1. walk'["process"] = [pc |-> "store", id |-> i, list |-> s.list]
      BY <1>3, <1>4, <2>3
    <3>2. s.pc = "fork"
      BY <1>8 DEF QueryFork
    <3>3. ASSUME Bpf, InOrder, Orderly(log[i].host)
          PROVE  Climbing(walk'["process"], log[i])
      <4>1. ASSUME NEW g \in Arrived, g.pid = log[i].ppid, g.host = log[i].host
            PROVE  FALSE
        <5>1. g.exec # FALSE
          BY <1>2, <1>6, <2>3, <3>3, <4>1, LatestFinds
        <5>2. ~ g.exec
          BY <1>6, <3>2, <3>3, <4>1 DEF Climbing
        <5>3. g.exec \in BOOLEAN
          BY <1>2, IdsNat, HistoryAssumption
        <5>4. QED
          BY <5>1, <5>2, <5>3
      <4>2. Whole(log[i], <<>>)
        BY <1>2, <3>3, <4>1, NothingWhole
      <4>3. QED
        BY <1>6, <3>1, <3>3, <4>2 DEF Climbing
    <3>4. QED
      BY <1>1, <1>2, <1>3, <3>1, <3>3, WalkOnComplete
  <2>4. QED
    BY <2>1, <2>2, <2>3
<1>9. QED
  BY <1>7, <1>8

LEMMA StoreComplete ==
  ASSUME CompleteIInv, Store("process")
  PROVE  (Arrivals /\ Turns /\ WholeTrees /\ WholeWalk)'
<1> DEFINE s == walk["process"]
<1>1. /\ s.pc = "store" /\ tree' = [tree EXCEPT ![s.id] = Tree(s.list)]
      /\ walk' = [walk EXCEPT !["process"] = Idle] /\ log' = log
  BY DEF Store
<1>2. s # Idle /\ LogOK /\ DOMAIN walk = Walkers /\ "process" \in Walkers
  BY <1>1 DEF Idle, CompleteIInv, TreeIInv, WalksOK, Walkers
<1>3. PICK i \in Ids : s.id = i
  BY <1>2, AtWork DEF CompleteIInv
<1>4. Ids' = Ids /\ Arrived' = Arrived /\ walk'["process"] = Idle /\ DOMAIN tree = Ids
  BY <1>1, <1>2, IdsNat DEF Ids, Arrived
<1>5. Arrivals' /\ Turns' /\ WholeWalk'
  BY <1>1, <1>4 DEF CompleteIInv, Arrivals, Turns, WholeWalk
<1>6. WholeTrees'
  <2> SUFFICES ASSUME Bpf, InOrder, NEW j \in Ids, Settled(j)', Orderly(log[j].host)
               PROVE  Whole(log[j], tree'[j].list)
    BY <1>1, <1>4 DEF WholeTrees, Orderly, Whole
  <2>1. CASE j = i
    <3>1. tree'[j].list = s.list
      BY <1>1, <1>3, <1>4, <2>1 DEF Tree
    <3>2. Climbing(s, log[i])
      BY <1>2, <1>3, <2>1 DEF CompleteIInv, WholeWalk
    <3>3. QED
      BY <1>1, <2>1, <3>1, <3>2 DEF Climbing
  <2>2. CASE j # i
    <3>1. tree'[j] = tree[j]
      BY <1>1, <1>3, <1>4, <2>2
    <3>2. Settled(j)
      BY <3>1 DEF Settled
    <3>3. QED
      BY <3>1, <3>2 DEF CompleteIInv, WholeTrees
  <2>3. QED
    BY <2>1, <2>2
<1>7. QED
  BY <1>5, <1>6

LEMMA OutOfMemoryComplete ==
  ASSUME CompleteIInv, NEW w \in Walkers, OutOfMemory(w)
  PROVE  (Arrivals /\ Turns /\ WholeTrees /\ WholeWalk)'
<1>1. UNCHANGED <<log, tree>> /\ walk'["process"] = Idle
  BY DEF OutOfMemory, Walkers
<1>2. Ids' = Ids /\ Arrived' = Arrived
  BY <1>1 DEF Ids, Arrived
<1>3. QED
  BY <1>1, <1>2 DEF CompleteIInv, Arrivals, Turns, WholeTrees, WholeWalk, Settled, Orderly

LEMMA CompleteStep == CompleteIInv /\ [Next]_vars => CompleteIInv'
<1> SUFFICES ASSUME CompleteIInv, [Next]_vars
             PROVE  (Arrivals /\ Turns /\ WholeTrees /\ WholeWalk)'
  BY TreeStep DEF CompleteIInv
<1>1. ASSUME UNCHANGED <<log, tree>>, walk'["process"] = walk["process"]
      PROVE  (Arrivals /\ Turns /\ WholeTrees /\ WholeWalk)'
  BY <1>1, UntouchedStep
<1>2. DOMAIN walk = Walkers
  BY DEF CompleteIInv, TreeIInv, WalksOK
<1>3. ASSUME NEW h \in History, Report(h)
      PROVE  (Arrivals /\ Turns /\ WholeTrees /\ WholeWalk)'
  BY <1>3, ReportComplete
<1>4. ASSUME NEW e \in Events, ReportEvent(e) \/ StartEvent(e)
      PROVE  (Arrivals /\ Turns /\ WholeTrees /\ WholeWalk)'
  <2>1. UNCHANGED <<log, tree>>
    BY <1>4 DEF ReportEvent, StartEvent
  <2>2. walk'["process"] = walk["process"]
    BY <1>2, <1>4 DEF ReportEvent, StartEvent, Begin, Walkers
  <2>3. QED
    BY <1>1, <2>1, <2>2
<1>5. CASE StartRow
  BY <1>5, StartRowComplete
<1>6. ASSUME NEW w \in Walkers, Turn(w)
      PROVE  (Arrivals /\ Turns /\ WholeTrees /\ WholeWalk)'
  <2>1. CASE w = "process" /\ ~ OutOfMemory(w)
    BY <1>6, <2>1, QueryComplete, StoreComplete DEF Turn
  <2>2. CASE OutOfMemory(w)
    BY <2>2, OutOfMemoryComplete
  <2>3. CASE w = "event" /\ ~ OutOfMemory(w)
    <3>1. UNCHANGED <<log, tree>>
      BY <1>6, <2>3 DEF Turn, QueryExecve, QueryFork, Store
    <3>2. walk'["process"] = walk["process"]
      BY <1>2, <1>6, <2>3 DEF Turn, QueryExecve, QueryFork, Store, Visit, Walkers
    <3>3. QED
      BY <1>1, <3>1, <3>2
  <2>4. QED
    BY <2>1, <2>2, <2>3 DEF Walkers
<1>7. CASE UNCHANGED vars
  BY <1>1, <1>7 DEF vars
<1>8. QED
  BY <1>3, <1>4, <1>5, <1>6, <1>7 DEF Next

(* With reports in order and rows taken in order, the stored tree of a row *)
(* is its full ancestry, although the builder looks one generation up only *)
(* and glues (get_bpf_process_tree), on every host that is orderly.        *)
THEOREM TreesComplete == Spec => []CompleteInOrder
<1>1. Init => CompleteIInv
  BY TreeInit, CompleteInit DEF CompleteIInv
<1>2. CompleteIInv => CompleteInOrder
  <2> SUFFICES ASSUME CompleteIInv, Bpf, InOrder, NEW i \in Ids, Settled(i),
                      Orderly(log[i].host)
               PROVE  PidsOf(tree[i].list) = Ancestry[log[i].pid][log[i]]
    BY DEF CompleteInOrder
  <2>1. log[i].pid \in Nat
    BY IdsNat, HistoryAssumption DEF CompleteIInv, TreeIInv
  <2>2. Whole(log[i], tree[i].list)
    BY DEF CompleteIInv, WholeTrees
  <2>3. QED
    BY <2>1, <2>2 DEF Whole
<1>3. QED
  BY <1>1, <1>2, CompleteStep, PTL DEF Spec
=============================================================================
