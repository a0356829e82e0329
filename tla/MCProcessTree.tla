---------------------------- MODULE MCProcessTree ----------------------------
(* Histories for ProcessTree.  Times are in seconds; the second boot of host *)
(* "h" starts at 100, so its rows have uptimes that disagree with the first. *)
EXTENDS ProcessTree

Row(p, pp, t, b, x) ==
  [pid |-> p, ppid |-> pp, time |-> t, uptime |-> t - b, boot |-> b,
   host |-> "h", path |-> "a", exec |-> x]

OnHost(host, r) == [r EXCEPT !.host = host]

(* 3 starts 4; a reboot gives pid 3 a second life, and the only row of pid 2 *)
(* is that of another host.                                                  *)
Rebooted ==
  {Row(3, 2, 21, 0, FALSE), Row(4, 3, 30, 0, TRUE), Row(3, 2, 110, 100, TRUE),
   OnHost("g", Row(2, 1, 15, 0, TRUE))}

(* One boot, several rows per process, for the order of arrival; in the end  *)
(* pid 5, a descendant of pid 3, forks after a wrap a new pid 3.  On another *)
(* host it is the first process whose pid wrapped.                           *)
Lineage ==
  {Row(2, 1, 10, 0, TRUE), Row(3, 2, 20, 0, FALSE), Row(3, 2, 21, 0, TRUE),
   Row(4, 3, 30, 0, TRUE), Row(5, 4, 40, 0, FALSE), Row(5, 4, 41, 0, TRUE),
   Row(3, 5, 50, 0, TRUE), OnHost("g", Row(2, 3, 25, 0, TRUE))}

(* A fork and its exec may arrive in either order.                           *)
ForkAndExec == {Row(2, 1, 10, 0, TRUE), Row(3, 2, 20, 0, FALSE), Row(3, 2, 21, 0, TRUE)}

SocketEvents == {[pid |-> 4, host |-> "h", path |-> "a", time |-> 35]}
LateEvents == {[pid |-> 3, host |-> "h", path |-> "a", time |-> 35]}
Docker == {[pid |-> 2, host |-> "h", time |-> 12]}
NoDocker == {}
==============================================================================
