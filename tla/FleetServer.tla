----------------------------- MODULE FleetServer -----------------------------
(***************************************************************************)
(* The fleet server (src/vajra/server/request_handler.cpp): the handlers   *)
(* enroll, distributed_read and distributed_write, each run by the thread  *)
(* of the TLS session its request came in, the two tables they share,      *)
(* nodes and query_queue, the API server that fills query_queue and        *)
(* deletes nodes, and the agents (osquery), which are external: an agent   *)
(* sends one request at a time, gives up on it or gets its answer.         *)
(*                                                                         *)
(* Every statement takes effect on its own: it is executed by a            *)
(* transaction that was committed before, or never begun.                  *)
(***************************************************************************)
EXTENDS Naturals, FiniteSets

CONSTANTS
  Hosts,        (* host identifiers; one agent runs on each host           *)
  Queries,      (* the rows query_queue will ever have                     *)
  HostOf,       (* HostOf[q]: the host that query q was scheduled for      *)
  Slots,        (* sessions that can be open at once (bound)               *)
  MaxFaults,    (* database errors (bound)                                 *)
  MaxTimeouts,  (* requests an agent gives up on (bound)                   *)
  MaxRestarts,  (* restarts of the server process (bound)                  *)
  MaxDeletes    (* nodes deleted through the API (bound)                   *)

ASSUME FleetAssumption ==
  /\ HostOf \in [Queries -> Hosts]
  /\ "none" \notin Slots
  /\ MaxFaults \in Nat /\ MaxTimeouts \in Nat
  /\ MaxRestarts \in Nat /\ MaxDeletes \in Nat

VARIABLES
  nodes,        (* nodes[h]: node_key of the row of host h, 0 for no row   *)
  queue,        (* queue[q]: "absent", "queued" (sent = false) or "sent"   *)
  results,      (* rows of query_result: [query, host, sender]             *)
  drawn,        (* keys random_string has made since the process started   *)
  session,      (* session[s]: the request that session s is handling      *)
  agentKey,     (* agentKey[h]: the node key the agent of host h has, or 0 *)
  asked,        (* asked[h]: the session it waits for, "none" if it does   *)
                (* not wait                                                *)
  work,         (* work[h]: queries it was given and has not reported on   *)
  got,          (* got[h][q]: times it was given query q, 2 for many       *)
  dropped,      (* queries in answers that did not reach an agent          *)
  faults, timeouts, restarts, deletes

tables == <<nodes, queue, results>>
agents == <<agentKey, asked, work, got, dropped>>
counts == <<faults, timeouts, restarts, deletes>>
vars == <<tables, drawn, session, agents, counts>>

(* kind: the endpoint.  from: whose agent sent it.  key: the node key in   *)
(* it or, for enroll, the one about to be given out.  host: the row the    *)
(* key was found in.  rows: queries the handler still has to go through.   *)
(* out: queries in the answer.  status: "invalid" is node_invalid = true,  *)
(* "null" an answer without any field.                                     *)
Free == [pc |-> "free"]

Waiting(h) == asked[h] # "none"

(* Session s goes on with request r.                                       *)
Becomes(s, r) == session' = [session EXCEPT ![s] = r]

Answer(s, status) == Becomes(s, [session[s] EXCEPT !.pc = "reply", !.status = status])

InUse(k) == \E h \in Hosts : nodes[h] = k

-----------------------------------------------------------------------------
Init ==
  /\ nodes = [h \in Hosts |-> 0]
  /\ queue = [q \in Queries |-> "absent"]
  /\ results = {}
  /\ drawn = 0
  /\ session = [s \in Slots |-> Free]
  /\ agentKey = [h \in Hosts |-> 0]
  /\ asked = [h \in Hosts |-> "none"]
  /\ work = [h \in Hosts |-> {}]
  /\ got = [h \in Hosts |-> [q \in Queries |-> 0]]
  /\ dropped = {}
  /\ faults = 0 /\ timeouts = 0 /\ restarts = 0 /\ deletes = 0

(* The API server: schedule_query_send, and the deletion of a node.        *)
Schedule(q) ==
  /\ queue[q] = "absent"
  /\ queue' = [queue EXCEPT ![q] = "queued"]
  /\ UNCHANGED <<nodes, results, drawn, session, agents, counts>>

DeleteNode(h) ==
  /\ nodes[h] # 0
  /\ deletes < MaxDeletes
  /\ nodes' = [nodes EXCEPT ![h] = 0]
  /\ deletes' = deletes + 1
  /\ UNCHANGED <<queue, results, drawn, session, agents, faults, timeouts, restarts>>

-----------------------------------------------------------------------------
(* The agent.  Without a key it enrolls, otherwise it asks for queries or  *)
(* reports what it found.                                                  *)
Kinds(h) == IF agentKey[h] = 0 THEN {"enroll"}
            ELSE {"read"} \cup {k \in {"write"} : work[h] # {}}

Ask(h, s) ==
  /\ ~ Waiting(h)
  /\ session[s] = Free
  /\ \E k \in Kinds(h) :
       Becomes(s,
         [pc |-> "start", kind |-> k, from |-> h, key |-> agentKey[h], host |-> h,
          rows |-> IF k = "write" THEN work[h] ELSE {}, out |-> {}, status |-> "null"])
  /\ asked' = [asked EXCEPT ![h] = s]
  /\ UNCHANGED <<tables, drawn, agentKey, work, got, dropped, counts>>

(* The agent stops waiting; the handler does not notice.                   *)
GiveUp(h) ==
  /\ Waiting(h)
  /\ timeouts < MaxTimeouts
  /\ asked' = [asked EXCEPT ![h] = "none"]
  /\ timeouts' = timeouts + 1
  /\ UNCHANGED <<tables, drawn, session, agentKey, work, got, dropped, faults,
                 restarts, deletes>>

-----------------------------------------------------------------------------
(* enroll.  random_string takes its characters from rand(), which nothing  *)
(* seeds: every process draws the same keys in the same order.  A host     *)
(* that has a row goes through the first loop, if the operator has left    *)
(* its reenroll_allowed on; a host without it is enrolled all the same.    *)
Draw(s) ==
  /\ session[s].pc = "start" /\ session[s].kind = "enroll"
  /\ drawn' = drawn + 1
  /\ \E loop \in {"check"} \cup {l \in {"recheck"} : nodes[session[s].from] # 0} :
       Becomes(s, [session[s] EXCEPT !.key = drawn + 1, !.pc = loop])
  /\ UNCHANGED <<tables, agents, counts>>

(* Either loop: another key while the one at hand is in a row of nodes.    *)
CheckKey(s) ==
  /\ session[s].pc \in {"recheck", "check"}
  /\ IF InUse(session[s].key)
     THEN /\ drawn' = drawn + 1
          /\ Becomes(s, [session[s] EXCEPT !.key = drawn + 1])
     ELSE /\ Becomes(s, [session[s] EXCEPT
               !.pc = IF @ = "recheck" THEN "check" ELSE "register"])
          /\ UNCHANGED drawn
  /\ UNCHANGED <<tables, agents, counts>>

(* The second select decides between update and insert.                    *)
Register(s) ==
  /\ session[s].pc = "register"
  /\ Becomes(s, [session[s] EXCEPT
       !.pc = IF nodes[session[s].from] # 0 THEN "update" ELSE "insert"])
  /\ UNCHANGED <<tables, drawn, agents, counts>>

(* node_key is UNIQUE and host_identifier the primary key: a statement     *)
(* that would break either is an error.  An update of no row is not.       *)
UpdateKey(s) ==
  LET h == session[s].from
      clash == nodes[h] # 0 /\ \E g \in Hosts \ {h} : nodes[g] = session[s].key
  IN
  /\ session[s].pc = "update"
  /\ nodes' = IF clash \/ nodes[h] = 0 THEN nodes ELSE [nodes EXCEPT ![h] = session[s].key]
  /\ Answer(s, IF clash THEN "error" ELSE "ok")
  /\ UNCHANGED <<queue, results, drawn, agents, counts>>

InsertNode(s) ==
  LET h == session[s].from
      clash == InUse(session[s].key) \/ nodes[h] # 0
  IN
  /\ session[s].pc = "insert"
  /\ nodes' = IF clash THEN nodes ELSE [nodes EXCEPT ![h] = session[s].key]
  /\ Answer(s, IF clash THEN "error" ELSE "ok")
  /\ UNCHANGED <<queue, results, drawn, agents, counts>>

-----------------------------------------------------------------------------
(* validate_node_key found the row of host h.                             *)
Found(s, h) ==
  Becomes(s, [session[s] EXCEPT !.host = h, !.status = "ok",
    !.pc = IF session[s].kind = "read" THEN "select" ELSE "store"])

(* Mutants of Validate: an unknown key is not reported as such, it gets    *)
(* the answer of a known one, and result.size() is not looked at.          *)
ValidateSilent(s) ==
  /\ session[s].pc = "start" /\ session[s].kind \in {"read", "write"}
  /\ \/ \E h \in Hosts : nodes[h] = session[s].key /\ Found(s, h)
     \/ ~ InUse(session[s].key) /\ Answer(s, "null")
  /\ UNCHANGED <<tables, drawn, agents, counts>>

ValidateAccepts(s) ==
  /\ session[s].pc = "start" /\ session[s].kind \in {"read", "write"}
  /\ \/ \E h \in Hosts : nodes[h] = session[s].key /\ Found(s, h)
     \/ ~ InUse(session[s].key) /\ Answer(s, "ok")
  /\ UNCHANGED <<tables, drawn, agents, counts>>

ValidateUnchecked(s) ==
  /\ session[s].pc = "start" /\ session[s].kind \in {"read", "write"}
  /\ \/ \E h \in Hosts : nodes[h] = session[s].key /\ Found(s, h)
     \/ ~ InUse(session[s].key) /\ Found(s, "none")
  /\ UNCHANGED <<tables, drawn, agents, counts>>

(* distributed_read and distributed_write: validate_node_key.              *)
Validate(s) ==
  /\ session[s].pc = "start" /\ session[s].kind \in {"read", "write"}
  /\ \/ \E h \in Hosts : nodes[h] = session[s].key /\ Found(s, h)
     \/ ~ InUse(session[s].key) /\ Answer(s, "invalid")
  /\ UNCHANGED <<tables, drawn, agents, counts>>

Unsent(h) == {q \in Queries : HostOf[q] = h /\ queue[q] = "queued"}

(* Mutants of Select: the condition on the host is missing, and the rows   *)
(* are marked in one go ahead of the loop.                                 *)
SelectAllHosts(s) ==
  /\ session[s].pc = "select"
  /\ Becomes(s, [session[s] EXCEPT !.pc = "mark",
                                   !.rows = {q \in Queries : queue[q] = "queued"}])
  /\ UNCHANGED <<tables, drawn, agents, counts>>

SelectMarks(s) ==
  /\ session[s].pc = "select"
  /\ Becomes(s, [session[s] EXCEPT !.pc = "mark", !.rows = Unsent(session[s].host)])
  /\ queue' = [q \in Queries |-> IF q \in Unsent(session[s].host) THEN "sent" ELSE queue[q]]
  /\ UNCHANGED <<nodes, results, drawn, agents, counts>>

Select(s) ==
  /\ session[s].pc = "select"
  /\ Becomes(s, [session[s] EXCEPT !.pc = "mark", !.rows = Unsent(session[s].host)])
  /\ UNCHANGED <<tables, drawn, agents, counts>>

(* Mutant of Mark: stop_scheduled_query is not executed.                   *)
MarkNothing(s) ==
  /\ session[s].pc = "mark"
  /\ \E q \in session[s].rows :
       Becomes(s, [session[s] EXCEPT !.rows = @ \ {q}, !.out = @ \cup {q}])
  /\ UNCHANGED <<tables, drawn, agents, counts>>

(* One turn of the loop: into the answer, then stop_scheduled_query.       *)
Mark(s) ==
  /\ session[s].pc = "mark"
  /\ \E q \in session[s].rows :
       /\ Becomes(s, [session[s] EXCEPT !.rows = @ \ {q}, !.out = @ \cup {q}])
       /\ queue' = [queue EXCEPT ![q] = "sent"]
  /\ UNCHANGED <<nodes, results, drawn, agents, counts>>

(* The update fails: the query is in the answer, and not marked.           *)
MarkFails(s) ==
  /\ session[s].pc = "mark"
  /\ faults < MaxFaults
  /\ \E q \in session[s].rows :
       Becomes(s, [session[s] EXCEPT !.rows = {}, !.out = @ \cup {q}])
  /\ faults' = faults + 1
  /\ UNCHANGED <<tables, drawn, agents, timeouts, restarts, deletes>>

(* One turn of distributed_write's loop.                                   *)
Store(s) ==
  /\ session[s].pc = "store"
  /\ \E q \in session[s].rows :
       /\ results' = results \cup
            {[query |-> q, host |-> session[s].host, sender |-> session[s].from]}
       /\ Becomes(s, [session[s] EXCEPT !.rows = @ \ {q}])
  /\ UNCHANGED <<nodes, queue, drawn, agents, counts>>

(* A database error elsewhere.  What distributed_write has not stored yet  *)
(* is skipped, and the answer is the same as without the error.            *)
Fail(s) ==
  /\ session[s].pc \notin {"free", "mark", "reply"}
  /\ faults < MaxFaults
  /\ Becomes(s, [session[s] EXCEPT !.pc = "reply", !.rows = {},
                   !.status = IF session[s].kind = "enroll" THEN "error" ELSE @])
  /\ faults' = faults + 1
  /\ UNCHANGED <<tables, drawn, agents, timeouts, restarts, deletes>>

-----------------------------------------------------------------------------
Complete(s) ==
  \/ session[s].pc = "reply"
  \/ session[s].pc \in {"mark", "store"} /\ session[s].rows = {}

More(n) == IF n = 0 THEN 1 ELSE 2

(* What agent h makes of the answer of session s.                          *)
Receive(h, s) ==
  /\ asked' = [asked EXCEPT ![h] = "none"]
  /\ agentKey' = [agentKey EXCEPT ![h] =
       IF session[s].status = "invalid" THEN 0
       ELSE IF session[s].kind = "enroll" /\ session[s].status = "ok"
       THEN session[s].key ELSE @]
  /\ work' = [work EXCEPT ![h] =
       IF session[s].status # "ok" THEN @
       ELSE IF session[s].kind = "write" THEN {} ELSE @ \cup session[s].out]
  /\ got' = [got EXCEPT ![h] =
       [q \in Queries |-> IF q \in session[s].out THEN More(@[q]) ELSE @[q]]]
  /\ UNCHANGED dropped

(* The session answers and ends.                                           *)
Reply(s) ==
  /\ Complete(s)
  /\ \/ asked[session[s].from] = s /\ Receive(session[s].from, s)
     \/ /\ asked[session[s].from] # s
        /\ dropped' = dropped \cup session[s].out
        /\ UNCHANGED <<agentKey, asked, work, got>>
  /\ Becomes(s, Free)
  /\ UNCHANGED <<tables, drawn, counts>>

OutOf(s) == IF session[s] = Free THEN {} ELSE session[s].out

(* The process ends and is started again: every session is cut.            *)
Restart ==
  /\ restarts < MaxRestarts
  /\ restarts' = restarts + 1
  /\ session' = [s \in Slots |-> Free]
  /\ asked' = [h \in Hosts |-> "none"]
  /\ dropped' = dropped \cup UNION {OutOf(s) : s \in Slots}
  /\ drawn' = 0
  /\ UNCHANGED <<tables, agentKey, work, got, faults, timeouts, deletes>>

Serve(s) ==
  \/ Draw(s) \/ CheckKey(s) \/ Register(s) \/ UpdateKey(s) \/ InsertNode(s)
  \/ Validate(s) \/ Select(s) \/ Mark(s) \/ Store(s) \/ Reply(s)

Next ==
  \/ \E q \in Queries : Schedule(q)
  \/ \E h \in Hosts : DeleteNode(h) \/ GiveUp(h) \/ \E s \in Slots : Ask(h, s)
  \/ \E s \in Slots : Serve(s) \/ MarkFails(s) \/ Fail(s)
  \/ Restart

Spec == Init /\ [][Next]_vars

(* Threads and agents keep going; errors, timeouts, restarts and commands  *)
(* of the operator are promised to nobody.                                 *)
FairSpec ==
  /\ Spec
  /\ \A s \in Slots : WF_vars(Serve(s))
  /\ \A h \in Hosts : WF_vars(\E s \in Slots : Ask(h, s))
-----------------------------------------------------------------------------
Requests ==
  [pc : {"start", "recheck", "check", "register", "update", "insert", "select", "mark",
         "store", "reply"},
   kind : {"enroll", "read", "write"}, from : Hosts, key : Nat, host : Hosts,
   rows : SUBSET Queries, out : SUBSET Queries, status : {"null", "invalid", "error", "ok"}]

TypeOK ==
  /\ nodes \in [Hosts -> Nat]
  /\ queue \in [Queries -> {"absent", "queued", "sent"}]
  /\ results \subseteq [query : Queries, host : Hosts, sender : Hosts]
  /\ drawn \in Nat
  /\ session \in [Slots -> Requests \cup {Free}]
  /\ agentKey \in [Hosts -> Nat]
  /\ asked \in [Hosts -> Slots \cup {"none"}]
  /\ work \in [Hosts -> SUBSET Queries]
  /\ got \in [Hosts -> [Queries -> 0..2]]
  /\ dropped \subseteq Queries
  /\ faults \in 0..MaxFaults /\ timeouts \in 0..MaxTimeouts
  /\ restarts \in 0..MaxRestarts /\ deletes \in 0..MaxDeletes

(* request_handler.cpp:58-61: "we will generate a unique node key [...].   *)
(* The node key will be used as key to identify which node the data is     *)
(* coming from": query results are stored under the host they come from.   *)
DataFromItsNode == \A r \in results : r.host = r.sender

(* Neither is a query given to another host than the one it is meant for,  *)
(* nor a result stored under another host than its sender, however         *)
(* enrollments, timeouts and deletions of nodes interleave - as long as    *)
(* the process has not started to draw its keys from the beginning again.  *)
WrongHostNeedsRestart ==
  restarts = 0 =>
    /\ DataFromItsNode
    /\ \A h \in Hosts, q \in Queries : got[h][q] > 0 => HostOf[q] = h

Given(q) == \E h \in Hosts : got[h][q] > 0

(* A query marked as sent is with an agent, or in an answer on its way, or *)
(* was in an answer that got lost: a database error alone loses none.      *)
SentIsInAnAnswer ==
  \A q \in Queries : queue[q] = "sent" =>
     Given(q) \/ q \in dropped \/ \E s \in Slots : q \in OutOf(s)

(* An agent is given the same query again only if the update that marks it *)
(* failed, or if two handlers of requests with the same node key overlap,  *)
(* which takes a request that was given up on or keys drawn again.         *)
TwiceNeedsTrouble ==
  (\E h \in Hosts, q \in Queries : got[h][q] > 1) =>
     faults > 0 \/ timeouts > 0 \/ restarts > 0

(* A result that an agent is through with is in query_result, whatever key *)
(* it was sent with - except after a database error, which makes           *)
(* distributed_write skip results and answer as if it had not.             *)
LostResultNeedsFault ==
  \A h \in Hosts, q \in Queries : (got[h][q] > 0 /\ q \notin work[h]) =>
     faults > 0 \/ \E r \in results : r.query = q /\ r.sender = h

(* Whatever invalidates keys in between, each scheduled query is sent in   *)
(* the end: an agent with a stale key is told so and enrolls again.        *)
QueriesAreSent ==
  \A q \in Queries : queue[q] = "queued" ~> queue[q] = "sent"
=============================================================================
