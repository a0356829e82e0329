---------------------------- MODULE ApiHandlers ----------------------------
(***************************************************************************)
(* What the handlers of the API server (src/vajra/server/api) do to the    *)
(* prepared statements of the connection they are given.  libpqxx keeps    *)
(* the statements by name, per connection, across requests: preparing a    *)
(* name again is harmless with the same text and throws with another, so   *)
(* the names that more than one text is prepared under are the ones that   *)
(* requests can get in each other's way with.  Only these are in the       *)
(* scripts below.  A script is the sequence of libpqxx calls of one way    *)
(* through the handler; the texts are told apart and never spelled out.    *)
(***************************************************************************)
EXTENDS Naturals, Sequences

(* connection->prepare, transaction.exec_prepared, connection->unprepare,  *)
(* and a place where the handler may leave early because of what it read.  *)
Prepare(n, x) == [op |-> "prepare", name |-> n, text |-> x]
Exec(n)       == [op |-> "exec", name |-> n, text |-> "none"]
Unprepare(n)  == [op |-> "unprepare", name |-> n, text |-> "none"]
Leave         == [op |-> "leave", name |-> "none", text |-> "none"]

(* A walk over the records of processes, from pid to pid with no memory of *)
(* where it has been: it breaks off at a column that does not convert, or  *)
(* that is not there, and has no end where the pids form a circle.         *)
Circle == [op |-> "circle", name |-> "none", text |-> "none"]

(* The same in a snapshot, which is not looked for pids that are missing:  *)
(* such a process, and a snapshot that does not parse, are undefined       *)
(* behaviour (an element of an empty vector, a helper without a value).    *)
Snapshot == [op |-> "snapshot", name |-> "none", text |-> "none"]

Use(n, x) == <<Prepare(n, x), Exec(n), Unprepare(n)>>

(* "walk" is what runs off its end without returning a value when it is    *)
(* cut short: the helper the handler calls first, if any, which catches    *)
(* every exception and has no return statement after that.                 *)
Plain(calls)        == [walk |-> <<>>, calls |-> calls]
After(walk, calls)  == [walk |-> walk, calls |-> calls]
Uses(n, texts)      == {Plain(Use(n, x)) : x \in texts}

(* Texts some part of which comes from the request: two requests may ask   *)
(* for the same one or for different ones.                                 *)
Asked == {"this", "that"}

PerHost == {"all", "host"}

-----------------------------------------------------------------------------
ConfigList == Uses("get_config_list", {"all", "id"})
TableList  == Uses("get_table_list", {"names"})
TablesList == Uses("get_table_list", {"columns"})

(* The handlers of the python rules and of the rule builder share names.   *)
(* Mutant of RuleList: unprepared only when rules were found.              *)
RuleListKeeps(table) ==
  {Plain(<<Prepare("get_rule_list", <<table, f>>), Exec("get_rule_list"), Leave,
           Unprepare("get_rule_list")>>) : f \in {"all", "os", "id"}}

RuleList(table)   == Uses("get_rule_list", {table} \X {"all", "os", "id"})
RuleAdd(table)    == Uses("add_rule", {table})
RuleDelete(table) == Uses("delete_rule", {table})

EventUpdate == Uses("update_event_open", {"action", "open"})

EventFilters == SUBSET {"open", "from", "to"}

EventList ==
  LET Lists(x) == Plain(Use("get_events_list_count", x) \o Use("get_events_list", x))
  IN {Lists(<<f, "any">>) : f \in EventFilters} \cup
     {Lists(<<f, x>>) : f \in EventFilters, x \in Asked}

EventsCount ==
  {Plain(Use("get_events_count", x) \o Use("get_open_events_count", x)
         \o Use("get_close_events_count", x)) : x \in PerHost}

WeeklyAlertsCount == Uses("get_weekly_alerts_count", PerHost)
SeverityCount     == Uses("get_severity_count", PerHost)
AlertCount        == Uses("get_alert_count", PerHost)
MitreAnalysis     == Uses("get_mitre_analysis", PerHost)
HighRiskCount     == Uses("high_risk_count", Asked)

(* One text per severity or table, of which the first and the last stand   *)
(* for the loop.                                                           *)
EachInTurn(n, x) == Plain(Use(n, <<"first", x>>) \o Use(n, <<"last", x>>))

MaxSeverityNodeCount == {EachInTurn("max_severity_node_count", x) : x \in Asked}

(* Without a number of days the handler runs off its end like the helpers. *)
ManualPurge ==
  {EachInTurn("manual_purge_x_days", x) : x \in Asked} \cup {After(<<Leave>>, <<>>)}

NodeFilters == SUBSET {"from", "to"}

(* With a host name and an end time, and no start time, prepare is called  *)
(* without a text: that defines the nameless statement, and the named one  *)
(* is executed although nobody prepared it.                                *)
NodesList ==
  LET Lists(x) == Plain(Use("get_nodes_list_count", x) \o Use("get_nodes_list", x))
      Unprepared(x) == Plain(<<Exec("get_nodes_list_count")>>)
  IN {Lists(<<f, "any">>) : f \in NodeFilters} \cup
     {Lists(<<f, x>>) : f \in NodeFilters \ {{"to"}}, x \in Asked} \cup
     {Unprepared(x) : x \in Asked}

(* Leaves early when the host is not in the table of the nodes.            *)
NodesQuery ==
  {Plain(<<Prepare("get_nodes_query", f), Exec("get_nodes_query"),
           Prepare("nodes_active_count", "severity"), Exec("nodes_active_count"), Leave,
           Unprepare("nodes_active_count"), Unprepare("get_nodes_query")>>) :
     f \in NodeFilters} \cup {Plain(<<>>)}

StatNodesCount == Uses("nodes_active_count", {"nodes"})

(* Once for each host that has events; a host more changes nothing.        *)
NodeRuleCount ==
  Uses("nodes_active_count", {"severity"}) \cup
  {Plain(<<Unprepare("nodes_active_count")>>)}

(* Leaves early when there are more than 30000 rows.                       *)
HistoricalData ==
  {Plain(<<Prepare("historical_data_query", x), Exec("historical_data_query"), Leave,
           Unprepare("historical_data_query")>>) : x \in Asked}

NodeLogList == Uses("get_log_list", {"Linux", "Windows"} \X {"process", "socket", "file"})

-----------------------------------------------------------------------------
(* event_process_tree and its helpers, which exist once for Linux and once *)
(* for Windows.  A "Leave" inside a helper is result.at(0) of a result     *)
(* that is empty: the row behind the alert is gone, or never was.  When a  *)
(* helper inside of another is cut short, the outer one is taken to be.    *)

Execve(os) == IF os = "bpf" THEN "get_bpf_process_data_execve"
                            ELSE "get_win_process_data_execve"

(* get_..._process_data_non_execve goes with get_..._process_data_execve   *)
(* everywhere.  The statements for the snapshots have one text for both    *)
(* systems.                                                                *)
Backtrack(os) ==
  LET up == Execve(os)
      ucp == "update_container_process"
      Body(container) == <<Prepare(up, "parents"), Exec(up), Leave>> \o container
                         \o <<Exec(up), Circle, Snapshot, Unprepare(up)>>
  IN {Body(<<>>), Body(Use(ucp, os))}

(* The process behind a socket or file event: its own record, or else the  *)
(* snapshot.                                                               *)
FromEvent(os, n, text) ==
  {<<Prepare(n, text), Prepare("get_process_data", os), Exec(n), Leave,
     Exec("get_process_data")>> \o up
   \o <<Unprepare(n), Unprepare("get_process_data")>> :
     up \in Backtrack(os) \cup {<<Snapshot>>}}

SocketTree(os) == FromEvent(os, "get_socket_data_from_id", os)
FileTree(os)   == FromEvent(os, "get_file_data_from_id", os)

(* Mutant of Descend: the statements stay for the next request.            *)
DescendKeeps(os) ==
  {<<Leave>>, <<Leave, Prepare(Execve(os), "children"), Exec(Execve(os))>>}

(* The children and theirs, when the process has a record for the host     *)
(* that is asked about.  On Windows the way down breaks off at the first   *)
(* child with a socket event, for want of a column "event_type".           *)
Descend(os) ==
  LET down == Execve(os)
  IN {<<Leave, Unprepare(down)>>,
      <<Leave, Prepare(down, "children"), Exec(down), Circle, Unprepare(down)>>}

EventProcessTree ==
  UNION {{After(up, down) : up \in Backtrack(os) \cup SocketTree(os) \cup FileTree(os),
                            down \in Descend(os)} : os \in {"bpf", "win"}}

(* The handlers whose statements all have names with one text: what they   *)
(* leave behind, and some do, is in nobody's way.                          *)
OwnNamesOnly == {Plain(<<>>)}

Handlers ==
  [config_list |-> ConfigList, table_list |-> TableList, tables_list |-> TablesList,
   rule_list |-> RuleList("python"), rule_builder_rule_list |-> RuleList("builder"),
   rule_add |-> RuleAdd("python"), rule_builder_rule_add |-> RuleAdd("builder"),
   rule_delete |-> RuleDelete("python"),
   rule_builder_rule_delete |-> RuleDelete("builder"),
   event_update |-> EventUpdate, event_list |-> EventList,
   events_count |-> EventsCount, weekly_alerts_count |-> WeeklyAlertsCount,
   severity_count |-> SeverityCount, alert_count |-> AlertCount,
   mitre_analysis |-> MitreAnalysis, high_risk_count |-> HighRiskCount,
   max_severity_node_count |-> MaxSeverityNodeCount, manual_purge |-> ManualPurge,
   nodes_list |-> NodesList, nodes_query |-> NodesQuery,
   stat_nodes_count |-> StatNodesCount, node_rule_count |-> NodeRuleCount,
   historical_data |-> HistoricalData, node_log_list |-> NodeLogList,
   event_process_tree |-> EventProcessTree, nodes_delete |-> OwnNamesOnly]

-----------------------------------------------------------------------------
(* What the calls do to the set of statements a connection has, as pairs   *)
(* of a name and a text.                                                   *)

Touches(call, n) == call.op \in {"prepare", "unprepare"} /\ call.name = n

(* The statements after the first k calls.                                 *)
Left(stmts, calls, k) ==
  {s \in stmts : \A i \in 1..k : ~ Touches(calls[i], s[1])} \cup
  {<<calls[i].name, calls[i].text>> :
     i \in {j \in 1..k : /\ calls[j].op = "prepare"
                         /\ \A l \in (j + 1)..k : ~ Touches(calls[l], calls[j].name)}}

(* Mutant of Refused: a name is simply given its new text.                 *)
RefusedNever(stmts, call) == call.op = "exec" /\ \A s \in stmts : s[1] # call.name

(* The call throws, and not because of the database: a name that is taken  *)
(* by another text, or that nobody prepared.                               *)
Refused(stmts, call) ==
  \/ call.op = "prepare" /\ \E s \in stmts : s[1] = call.name /\ s[2] # call.text
  \/ call.op = "exec" /\ \A s \in stmts : s[1] # call.name

(* How a run of the calls may end after the first k of them.               *)
Ends(stmts, calls, k) ==
  IF k = Len(calls)
  THEN {"done"} \cup {"stray" : i \in {j \in 1..k : calls[j] = Snapshot}}
  ELSE LET call == calls[k + 1]
       IN IF Refused(Left(stmts, calls, k), call) THEN {"refused"}
          ELSE {how \in {"left", "endless", "failed"} :
                  \/ how = "left" /\ call.op \in {"leave", "circle"}
                  \/ how = "endless" /\ call.op \in {"circle", "snapshot"}
                  \/ how = "failed" /\ call.op \in {"exec", "unprepare"}}

(* ... and whether it gets there.                                          *)
Reaches(stmts, calls, k) ==
  \A i \in 0..(k - 1) : ~ Refused(Left(stmts, calls, i), calls[i + 1])
=============================================================================
