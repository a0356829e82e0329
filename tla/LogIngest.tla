------------------------------ MODULE LogIngest ------------------------------
(***************************************************************************)
(* The endpoint the events come in through (logger in request_handler.cpp) *)
(* and the agents' side of it, which is external: an agent keeps what it   *)
(* logs in a buffer, sends the head of it, and drops what it sent once the *)
(* server has taken it.  config is here as the endpoint that tells an      *)
(* agent that its key is stale, enroll as the one that gives it another;   *)
(* they run in threads of the agent of their own.  FleetServer has enroll  *)
(* statement by statement; of config only that node_invalid counts here.   *)
(*                                                                         *)
(* The tables of events are one sequence here: what is said about the      *)
(* order of rows, or about rows that are missing, holds across tables.     *)
(***************************************************************************)
EXTENDS Naturals, Sequences, FiniteSets

CONSTANTS
  Hosts,        (* host identifiers; one agent runs on each host           *)
  Slots,        (* sessions that can be open at once (bound)               *)
  Entries,      (* Entries[h]: the kinds of what host h will ever log:     *)
                (* "sound", "bad" (a column of the wrong type) or          *)
                (* "unknown" (a query that no table is for)                *)
  MaxBatch,     (* entries an agent puts into one request                  *)
  Troubles      (* what may go wrong in one run (bound): each member says  *)
                (* how often which kind of trouble may occur               *)

ASSUME IngestAssumption ==
  /\ Entries \in [Hosts -> Seq({"sound", "bad", "unknown"})]
  /\ "none" \notin Slots /\ "nobody" \notin Hosts
  /\ MaxBatch \in Nat \ {0}
  /\ Troubles \subseteq
       [faults : Nat, timeouts : Nat, restarts : Nat, deletes : Nat]

VARIABLES
  nodes,      (* nodes[h]: node_key of the row of host h, 0 for no row     *)
  rows,       (* the rows stored, in the order of their insertion          *)
  drawn,      (* keys made since the process started                       *)
  session,    (* session[s]: the logger request that session s handles     *)
  agentKey,   (* agentKey[h]: the node key the agent of host h has, or 0   *)
  asked,      (* asked[h]: the session its logger waits for, or "none"     *)
  made,       (* made[h]: entries host h has logged                        *)
  sent,       (* sent[h]: entries it has dropped as taken by the server    *)
  trouble     (* database errors, requests given up on, restarts of the    *)
              (* process, nodes deleted: how many of each there were       *)

agents == <<agentKey, asked, made, sent>>
vars == <<nodes, rows, drawn, session, agents, trouble>>

(* from: whose agent sent it.  key: the node key in it.  name: the host    *)
(* whose hostname get_hostname found.  host: the one validate_node_key     *)
(* found.  next, last: the entries the loop still has to go through.       *)
(* status: what node_invalid is in the answer, "null" if it is not there.  *)
Free == [pc |-> "free"]

Becomes(s, r) == session' = [session EXCEPT ![s] = r]

Answer(s, status) == Becomes(s, [session[s] EXCEPT !.pc = "reply", !.status = status])

Waiting(h) == asked[h] # "none"

Owner(k) == {h \in Hosts : nodes[h] = k}

KindOf(h, i) == Entries[h][i]

(* One more trouble of kind t.                                             *)
Meet(t) ==
  /\ trouble' = [trouble EXCEPT ![t] = @ + 1]
  /\ \E most \in Troubles : \A u \in DOMAIN trouble : trouble'[u] <= most[u]
-----------------------------------------------------------------------------
Init ==
  /\ nodes = [h \in Hosts |-> 0]
  /\ rows = <<>>
  /\ drawn = 0
  /\ session = [s \in Slots |-> Free]
  /\ agentKey = [h \in Hosts |-> 0]
  /\ asked = [h \in Hosts |-> "none"]
  /\ made = [h \in Hosts |-> 0]
  /\ sent = [h \in Hosts |-> 0]
  /\ trouble = [faults |-> 0, timeouts |-> 0, restarts |-> 0, deletes |-> 0]

(* enroll, for an agent without a key: the first key random_string draws   *)
(* that no row has.  The draws start over with the process.                *)
Enroll(h) ==
  /\ agentKey[h] = 0
  /\ \E k \in drawn + 1 .. drawn + 1 + Cardinality(Hosts) :
       /\ Owner(k) = {}
       /\ \A j \in drawn + 1 .. k - 1 : Owner(j) # {}
       /\ drawn' = k
       /\ nodes' = [nodes EXCEPT ![h] = k]
       /\ agentKey' = [agentKey EXCEPT ![h] = k]
  /\ UNCHANGED <<rows, session, asked, made, sent, trouble>>

(* Mutant of Config: node_invalid is never true.                           *)
ConfigSilent(h) == FALSE /\ UNCHANGED vars

(* config tells an agent that no row has its key; it forgets the key.      *)
Config(h) ==
  /\ agentKey[h] # 0
  /\ Owner(agentKey[h]) = {}
  /\ agentKey' = [agentKey EXCEPT ![h] = 0]
  /\ UNCHANGED <<nodes, rows, drawn, session, asked, made, sent, trouble>>

(* The API server deletes a node; the agent on it goes on.                 *)
DeleteNode(h) ==
  /\ nodes[h] # 0
  /\ nodes' = [nodes EXCEPT ![h] = 0]
  /\ Meet("deletes")
  /\ UNCHANGED <<rows, drawn, session, agents>>
-----------------------------------------------------------------------------
(* The agent.  It sends from the head of its buffer, what it sent before   *)
(* and got no answer for included.                                         *)
Log(h) ==
  /\ made[h] < Len(Entries[h])
  /\ made' = [made EXCEPT ![h] = @ + 1]
  /\ UNCHANGED <<nodes, rows, drawn, session, agentKey, asked, sent, trouble>>

Send(h, s) ==
  /\ agentKey[h] # 0
  /\ ~ Waiting(h)
  /\ session[s] = Free
  /\ sent[h] < made[h]
  /\ Becomes(s, [pc |-> "lookup", from |-> h, key |-> agentKey[h], name |-> "nobody",
                 host |-> "nobody", next |-> sent[h] + 1, status |-> "null",
                 last |-> IF made[h] < sent[h] + MaxBatch THEN made[h]
                          ELSE sent[h] + MaxBatch])
  /\ asked' = [asked EXCEPT ![h] = s]
  /\ UNCHANGED <<nodes, rows, drawn, agentKey, made, sent, trouble>>

(* The agent stops waiting; the handler does not notice.                   *)
GiveUp(h) ==
  /\ Waiting(h)
  /\ asked' = [asked EXCEPT ![h] = "none"]
  /\ Meet("timeouts")
  /\ UNCHANGED <<nodes, rows, drawn, session, agentKey, made, sent>>
-----------------------------------------------------------------------------
(* Mutant of Lookup: no row, no hostname, but the handler goes on.         *)
LookupUnchecked(s) ==
  /\ session[s].pc = "lookup"
  /\ \/ \E h \in Owner(session[s].key) :
          Becomes(s, [session[s] EXCEPT !.pc = "validate", !.name = h])
     \/ Owner(session[s].key) = {} /\ Becomes(s, [session[s] EXCEPT !.pc = "validate"])
  /\ UNCHANGED <<nodes, rows, drawn, agents, trouble>>

(* get_hostname.  For a key in no row, host.at(0) throws past the code     *)
(* that would set node_invalid.                                            *)
Lookup(s) ==
  /\ session[s].pc = "lookup"
  /\ \/ \E h \in Owner(session[s].key) :
          Becomes(s, [session[s] EXCEPT !.pc = "validate", !.name = h])
     \/ Owner(session[s].key) = {} /\ Answer(s, "null")
  /\ UNCHANGED <<nodes, rows, drawn, agents, trouble>>

(* validate_node_key, and update_last_seen.                                *)
Validate(s) ==
  /\ session[s].pc = "validate"
  /\ \/ \E h \in Owner(session[s].key) :
          Becomes(s, [session[s] EXCEPT !.pc = "store", !.host = h, !.status = "valid"])
     \/ Owner(session[s].key) = {} /\ Answer(s, "invalid")
  /\ UNCHANGED <<nodes, rows, drawn, agents, trouble>>

(* The row for the entry that the loop is at.                              *)
Row(s) == [from |-> session[s].from, entry |-> session[s].next,
           host |-> session[s].host, name |-> session[s].name]

Turn(s) == session[s].pc = "store" /\ session[s].next <= session[s].last

Kind(s) == KindOf(session[s].from, session[s].next)

Advance(s) == Becomes(s, [session[s] EXCEPT !.next = @ + 1])

(* The entry's hostIdentifier is compared with the host of the key.        *)
Own(s) == session[s].host = session[s].from

(* Mutants of Insert: the comparison is missing ...                        *)
InsertAny(s) ==
  /\ Turn(s) /\ Kind(s) = "sound"
  /\ rows' = Append(rows, Row(s))
  /\ Advance(s)
  /\ UNCHANGED <<nodes, drawn, agents, trouble>>

(* ... and the loop goes through the entries from their end.               *)
InsertLast(s) ==
  /\ Turn(s) /\ Own(s) /\ Kind(s) = "sound"
  /\ rows' = Append(rows, [Row(s) EXCEPT
       !.entry = sent[session[s].from] + 1 + session[s].last - session[s].next])
  /\ Advance(s)
  /\ UNCHANGED <<nodes, drawn, agents, trouble>>

Insert(s) ==
  /\ Turn(s) /\ Own(s) /\ Kind(s) = "sound"
  /\ rows' = Append(rows, Row(s))
  /\ Advance(s)
  /\ UNCHANGED <<nodes, drawn, agents, trouble>>

(* Mutant of Skip: an unknown name ends the loop.                          *)
SkipRest(s) ==
  /\ Turn(s)
  /\ ~ Own(s) \/ Kind(s) = "unknown"
  /\ Answer(s, "valid")
  /\ UNCHANGED <<nodes, rows, drawn, agents, trouble>>

Skip(s) ==
  /\ Turn(s)
  /\ ~ Own(s) \/ Kind(s) = "unknown"
  /\ Advance(s)
  /\ UNCHANGED <<nodes, rows, drawn, agents, trouble>>

(* A conversion throws: the entries after it are not looked at, and the    *)
(* answer is that of a request without errors.                             *)
Throw(s) ==
  /\ Turn(s) /\ Own(s) /\ Kind(s) = "bad"
  /\ Answer(s, "valid")
  /\ UNCHANGED <<nodes, rows, drawn, agents, trouble>>

(* Mutant of Fail: the agent is made to send the whole request again.      *)
FailAgain(s) ==
  /\ session[s].pc \in {"lookup", "validate"} \/ Turn(s)
  /\ Answer(s, "invalid")
  /\ Meet("faults")
  /\ UNCHANGED <<nodes, rows, drawn, agents>>

(* A database error: in update_last_seen and in an insert it comes after   *)
(* node_invalid was set to false.                                          *)
Fail(s) ==
  /\ \/ session[s].pc \in {"lookup", "validate"} /\ Answer(s, "null")
     \/ session[s].pc = "validate" /\ Owner(session[s].key) # {} /\ Answer(s, "valid")
     \/ Turn(s) /\ Own(s) /\ Kind(s) = "sound" /\ Answer(s, "valid")
  /\ Meet("faults")
  /\ UNCHANGED <<nodes, rows, drawn, agents>>
-----------------------------------------------------------------------------
Complete(s) == session[s].pc = "reply" \/ (session[s].pc = "store" /\ ~ Turn(s))

(* What the agent's logger makes of an answer: a document without          *)
(* node_invalid may be an answer to it or an error.                        *)
Receive(h, s) ==
  /\ asked' = [asked EXCEPT ![h] = "none"]
  /\ \/ /\ session[s].status \in {"valid", "null"}
        /\ sent' = [sent EXCEPT ![h] = session[s].last]
        /\ UNCHANGED agentKey
     \/ session[s].status = "null" /\ UNCHANGED <<agentKey, sent>>
     \/ /\ session[s].status = "invalid"
        /\ agentKey' = [agentKey EXCEPT ![h] = 0]
        /\ UNCHANGED sent

(* The session answers, if somebody waits, and ends.                       *)
Reply(s) ==
  /\ Complete(s)
  /\ \/ asked[session[s].from] = s /\ Receive(session[s].from, s)
     \/ asked[session[s].from] # s /\ UNCHANGED <<agentKey, asked, sent>>
  /\ Becomes(s, Free)
  /\ UNCHANGED <<nodes, rows, drawn, made, trouble>>

(* The process ends and is started again: every session is cut.            *)
Restart ==
  /\ Meet("restarts")
  /\ session' = [s \in Slots |-> Free]
  /\ asked' = [h \in Hosts |-> "none"]
  /\ drawn' = 0
  /\ UNCHANGED <<nodes, rows, agentKey, made, sent>>

Serve(s) ==
  Lookup(s) \/ Validate(s) \/ Insert(s) \/ Skip(s) \/ Throw(s) \/ Reply(s)

Next ==
  \/ \E h \in Hosts :
       \/ Enroll(h) \/ Config(h) \/ DeleteNode(h) \/ Log(h) \/ GiveUp(h)
       \/ \E s \in Slots : Send(h, s)
  \/ \E s \in Slots : Serve(s) \/ Fail(s)
  \/ Restart

Spec == Init /\ [][Next]_vars

(* Threads and agents keep going; errors, timeouts, restarts and commands  *)
(* of the operator are promised to nobody.                                 *)
FairSpec ==
  /\ Spec
  /\ \A s \in Slots : WF_vars(Serve(s))
  /\ \A h \in Hosts :
       WF_vars(Enroll(h)) /\ WF_vars(Config(h)) /\ WF_vars(\E s \in Slots : Send(h, s))
-----------------------------------------------------------------------------
Requests ==
  [pc : {"lookup", "validate", "store", "reply"}, from : Hosts, key : Nat,
   name : Hosts \cup {"nobody"}, host : Hosts \cup {"nobody"}, next : Nat, last : Nat,
   status : {"null", "valid", "invalid"}]

TypeOK ==
  /\ nodes \in [Hosts -> Nat]
  /\ rows \in Seq([from : Hosts, entry : Nat, host : Hosts, name : Hosts])
  /\ drawn \in Nat
  /\ session \in [Slots -> Requests \cup {Free}]
  /\ agentKey \in [Hosts -> Nat]
  /\ asked \in [Hosts -> Slots \cup {"none"}]
  /\ made \in [Hosts -> Nat] /\ sent \in [Hosts -> Nat]
  /\ \A h \in Hosts : sent[h] <= made[h] /\ made[h] <= Len(Entries[h])
  /\ trouble \in [faults : Nat, timeouts : Nat, restarts : Nat, deletes : Nat]

(* An event is stored under the host it comes from, with that host's name, *)
(* although name and host are looked up by two statements, and although a  *)
(* key may have gone over to another host: not before the process has      *)
(* started over twice can the two statements find different hosts and the  *)
(* second one the right one.                                               *)
RowsAreTheSenders ==
  \A n \in DOMAIN rows :
    /\ rows[n].host = rows[n].from
    /\ trouble.restarts < 2 => rows[n].name = rows[n].from

Stored(h, i) == \E n \in DOMAIN rows : rows[n].from = h /\ rows[n].entry = i

(* What an agent has dropped as taken is stored - or the server had a      *)
(* database error, or its node was deleted (logger answers an unknown key  *)
(* without saying so), or another entry of the same request could not be   *)
(* converted: logger stops at it and answers as usual.                     *)
LostNeedsCause ==
  \A h \in Hosts : \A i \in 1..sent[h] :
    KindOf(h, i) = "sound" =>
      \/ Stored(h, i)
      \/ trouble.faults > 0 \/ trouble.deletes > 0
      \/ \E j \in 1..i - 1 : KindOf(h, j) = "bad" /\ i - j < MaxBatch

(* An event is stored twice only if an agent did not get the answer to a   *)
(* request that was served: an error alone makes no agent send again.      *)
TwiceNeedsLostAnswer ==
  (\E m, n \in DOMAIN rows : m < n /\ rows[m] = rows[n]) => trouble.timeouts > 0 \/ trouble.restarts > 0

(* The rows of a host are inserted in the order of its log, which the tree *)
(* builders rely on (InOrder of ProcessTree): a row is behind one of every *)
(* earlier event that is ever stored.  An event is stored behind a later   *)
(* one only if two handlers serve one agent, and the later of the two lost *)
(* what the other one still had to store.                                  *)
FirstRowsInOrder ==
  trouble.timeouts = 0 \/ (trouble.faults = 0 /\ trouble.deletes = 0) =>
    \A n \in DOMAIN rows : \A i \in 1..rows[n].entry - 1 :
      Stored(rows[n].from, i) =>
        \E m \in 1..n - 1 : rows[m].from = rows[n].from /\ rows[m].entry = i

(* Whatever an agent logs leaves its buffer: logger does not tell an agent *)
(* that its key is stale, but config does.                                 *)
EveryEntryTaken ==
  \A h \in Hosts : sent[h] < made[h] ~> sent[h] = made[h]
=============================================================================
