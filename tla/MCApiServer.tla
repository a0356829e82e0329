----------------------------- MODULE MCApiServer -----------------------------
(* Instances of ApiServer for TLC.                                           *)
EXTENDS ApiServer

MCThreads == {"s1", "s2"}

Menu(paths, pool, sessions, errors, helper) ==
  [paths |-> paths, pool |-> pool, sessions |-> sessions, errors |-> errors,
   helper |-> helper]

(* The handlers that share statement names, group by group, for one session  *)
(* on one connection; the liveliest group for two sessions on one, and the   *)
(* trees of process alerts, whose helpers make seven calls at the most; and  *)
(* known and unknown paths for two sessions on two.                          *)
MCMenus ==
  {Menu(g, 1, {"s1"}, 1, 0) : g \in
     {{"config_list", "event_update"}, {"table_list", "tables_list"},
      {"rule_list", "rule_builder_rule_list"}, {"rule_add", "rule_builder_rule_add"},
      {"rule_delete", "rule_builder_rule_delete"}, {"event_list"}, {"events_count"},
      {"weekly_alerts_count", "severity_count"}, {"alert_count", "mitre_analysis"},
      {"high_risk_count", "max_severity_node_count"}, {"nodes_list"},
      {"historical_data"}, {"node_log_list"}}}
  \cup {Menu({"manual_purge"}, 1, {"s1"}, 1, 1),
        Menu({"event_process_tree"}, 1, {"s1"}, 0, 17),
        Menu({"event_process_tree"}, 1, MCThreads, 0, 7),
        Menu({"nodes_query", "stat_nodes_count", "node_rule_count"}, 1, MCThreads, 0, 0),
        Menu({"table_list", "nodes_delete", "/nowhere"}, 2, MCThreads, 0, 0)}
=============================================================================
