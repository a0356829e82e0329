--------------------------- MODULE LogIngestProofs ---------------------------
(***************************************************************************)
(* Proofs about LogIngest for any number of hosts and sessions, any logs,  *)
(* and any amount of trouble: what an agent has dropped is stored, stored  *)
(* once and under the right name, up to the troubles that are named.       *)
(***************************************************************************)
EXTENDS LogIngest, SequenceTheorems, TLAPS

Busy(s) == session[s] # Free

SessionOK(s) ==
  /\ session[s].key # 0
  /\ session[s].next \in 1..session[s].last + 1
  /\ session[s].last <= made[session[s].from]
  /\ session[s].pc \in {"validate", "store"} => session[s].name \in Hosts
  /\ session[s].pc = "store" => session[s].host \in Hosts /\ session[s].status = "valid"
  /\ session[s].pc \in {"lookup", "validate"} => session[s].status = "null"

(* The request an agent waits for is about the head of its buffer; its     *)
(* loop has not moved if the answer will not say that the key is good.     *)
AskedOK(h) ==
  /\ Busy(asked[h]) /\ session[asked[h]].from = h
  /\ session[asked[h]].next > sent[h]
  /\ session[asked[h]].last >= sent[h]
  /\ session[asked[h]].last <= sent[h] + MaxBatch
  /\ session[asked[h]].status # "valid" => session[asked[h]].next = sent[h] + 1

ShapeOK ==
  /\ TypeOK
  /\ \A s \in Slots : Busy(s) => SessionOK(s)
  /\ \A h \in Hosts : Waiting(h) => AskedOK(h)

-----------------------------------------------------------------------------
LEMMA BusyTyped ==
  ASSUME TypeOK, NEW s \in Slots,
         session[s].pc \in {"lookup", "validate", "store", "reply"}
  PROVE  session[s] \in Requests /\ Busy(s)
BY DEF TypeOK, Free, Busy

LEMMA BusyPc ==
  ASSUME TypeOK, NEW s \in Slots, Busy(s)
  PROVE  session[s] \in Requests
BY DEF TypeOK, Busy

LEMMA FreeIsNoRequest == Free \notin Requests /\ Free.pc = "free"
BY DEF Free, Requests

LEMMA TroubleCounts ==
  ASSUME TypeOK, NEW t \in {"faults", "timeouts", "restarts", "deletes"}, Meet(t)
  PROVE  /\ trouble' \in [faults : Nat, timeouts : Nat, restarts : Nat, deletes : Nat]
         /\ trouble'[t] = trouble[t] + 1
         /\ \A u \in {"faults", "timeouts", "restarts", "deletes"} : u # t => trouble'[u] = trouble[u]
BY DEF TypeOK, Meet

LEMMA ShapeInit == Init => ShapeOK
<1> SUFFICES ASSUME Init PROVE ShapeOK
  OBVIOUS
<1>1. <<>> \in Seq([from : Hosts, entry : Nat, host : Hosts, name : Hosts])
  BY EmptySeq
<1>2. \A h \in Hosts : Len(Entries[h]) \in Nat
  BY IngestAssumption
<1>3. TypeOK
  BY <1>1, <1>2 DEF Init, TypeOK
<1>4. QED
  BY <1>3 DEF Init, ShapeOK, Busy, Waiting

(* A step that touches no session and no agent that waits.                 *)
LEMMA ShapeFrame ==
  ASSUME ShapeOK, TypeOK', UNCHANGED <<session, asked, sent>>,
         \A h \in Hosts : made'[h] >= made[h]
  PROVE  ShapeOK'
<1>1. \A s \in Slots : Busy(s)' => SessionOK(s)'
  <2> SUFFICES ASSUME NEW s \in Slots, Busy(s)' PROVE SessionOK(s)'
    OBVIOUS
  <2>1. Busy(s) /\ SessionOK(s) /\ session[s] \in Requests /\ session' = session
    BY BusyPc DEF ShapeOK, Busy
  <2>2. /\ made'[session[s].from] >= made[session[s].from]
        /\ made'[session[s].from] \in Nat /\ made[session[s].from] \in Nat
        /\ session[s].last \in Nat
    BY <2>1 DEF Requests, TypeOK, ShapeOK
  <2>3. QED
    BY <2>1, <2>2 DEF SessionOK
<1>2. \A h \in Hosts : Waiting(h)' => AskedOK(h)'
  BY DEF ShapeOK, Waiting, AskedOK, Busy
<1>3. QED
  BY <1>1, <1>2 DEF ShapeOK

(* A handler's own step: its session moves on, and is still about the same *)
(* entries of the same agent.                                              *)
LEMMA ShapeServe ==
  ASSUME ShapeOK, NEW s \in Slots, Busy(s), NEW r \in Requests, Becomes(s, r),
         UNCHANGED <<agents, trouble>> \/ (UNCHANGED agents /\ Meet("faults")),
         UNCHANGED <<nodes, drawn>>,
         rows' \in Seq([from : Hosts, entry : Nat, host : Hosts, name : Hosts]),
         r.key = session[s].key, r.from = session[s].from, r.last = session[s].last,
         r.next \in session[s].next..r.last + 1,
         r.pc \in {"validate", "store"} => r.name \in Hosts,
         r.pc = "store" => r.host \in Hosts /\ r.status = "valid",
         r.pc \in {"lookup", "validate"} => r.status = "null",
         r.status # "valid" => session[s].status # "valid" /\ r.next = session[s].next
  PROVE  ShapeOK'
<1>1. /\ session' = [session EXCEPT ![s] = r] /\ session'[s] = r
      /\ \A q \in Slots : q # s => session'[q] = session[q]
      /\ UNCHANGED <<agentKey, asked, made, sent>>
  BY DEF Becomes, agents, ShapeOK, TypeOK
<1>2. trouble' \in [faults : Nat, timeouts : Nat, restarts : Nat, deletes : Nat]
  BY TroubleCounts DEF ShapeOK, TypeOK
<1>3. TypeOK'
  BY <1>1, <1>2 DEF ShapeOK, TypeOK
<1>4. session[s] \in Requests /\ SessionOK(s)
  BY BusyPc DEF ShapeOK
<1>5. r # Free
  BY FreeIsNoRequest
<1>6. \A q \in Slots : Busy(q)' => SessionOK(q)'
  <2>1. SessionOK(s)'
    BY <1>1, <1>4 DEF SessionOK, Requests
  <2>2. ASSUME NEW q \in Slots, q # s, Busy(q)' PROVE SessionOK(q)'
    BY <1>1, <2>2 DEF ShapeOK, Busy, SessionOK
  <2>3. QED
    BY <2>1, <2>2
<1>7. \A h \in Hosts : Waiting(h)' => AskedOK(h)'
  <2> SUFFICES ASSUME NEW h \in Hosts, Waiting(h) PROVE AskedOK(h)'
    BY <1>1 DEF Waiting
  <2>1. AskedOK(h) /\ asked[h] \in Slots /\ sent[h] \in Nat
    BY DEF ShapeOK, TypeOK, Waiting
  <2>2. CASE asked[h] # s
    BY <1>1, <2>1, <2>2 DEF AskedOK, Busy
  <2>3. CASE asked[h] = s
    BY <1>1, <1>4, <1>5, <2>1, <2>3 DEF AskedOK, Busy, Requests
  <2>4. QED
    BY <2>2, <2>3
<1>8. QED
  BY <1>3, <1>6, <1>7 DEF ShapeOK

LEMMA ServeShape ==
  ASSUME ShapeOK, NEW s \in Slots,
         Lookup(s) \/ Validate(s) \/ Insert(s) \/ Skip(s) \/ Throw(s) \/ Fail(s)
  PROVE  ShapeOK'
<1> DEFINE rec == session[s]
<1>1. session[s] \in Requests /\ Busy(s) /\ SessionOK(s)
  <2>1. session[s].pc \in {"lookup", "validate", "store"}
    BY DEF Lookup, Validate, Insert, Skip, Throw, Fail, Turn
  <2>2. QED
    BY <2>1, BusyTyped DEF ShapeOK
<1>2. /\ rows \in Seq([from : Hosts, entry : Nat, host : Hosts, name : Hosts])
      /\ rec.next \in Nat /\ rec.last \in Nat /\ rec.next \in rec.next..rec.last + 1
  BY <1>1 DEF ShapeOK, TypeOK, Requests, SessionOK
<1>3. CASE Lookup(s)
  <2>1. ASSUME NEW h \in Owner(rec.key),
               Becomes(s, [rec EXCEPT !.pc = "validate", !.name = h])
        PROVE  ShapeOK'
    <3> DEFINE r == [rec EXCEPT !.pc = "validate", !.name = h]
    <3>1. h \in Hosts
      BY DEF Owner
    <3>2. /\ r \in Requests /\ r.key = rec.key /\ r.from = rec.from /\ r.last = rec.last
          /\ r.next = rec.next /\ r.pc = "validate" /\ r.name = h /\ r.status = "null"
          /\ rec.status = "null"
      BY <1>1, <1>3, <3>1 DEF Requests, SessionOK, Lookup
    <3> HIDE DEF r
    <3>3. Becomes(s, r) /\ UNCHANGED <<nodes, rows, drawn, agents, trouble>>
      BY <1>3, <2>1 DEF Lookup, r
    <3>4. QED
      BY <1>1, <1>2, <3>1, <3>2, <3>3, ShapeServe
  <2>2. ASSUME Answer(s, "null") PROVE ShapeOK'
    <3> DEFINE r == [rec EXCEPT !.pc = "reply", !.status = "null"]
    <3>1. /\ r \in Requests /\ r.key = rec.key /\ r.from = rec.from /\ r.last = rec.last
          /\ r.next = rec.next /\ r.pc = "reply" /\ r.status = "null" /\ rec.status = "null"
      BY <1>1, <1>3 DEF Requests, SessionOK, Lookup
    <3> HIDE DEF r
    <3>2. Becomes(s, r) /\ UNCHANGED <<nodes, rows, drawn, agents, trouble>>
      BY <1>3, <2>2 DEF Lookup, Answer, r
    <3>3. QED
      BY <1>1, <1>2, <3>1, <3>2, ShapeServe
  <2>3. QED
    BY <1>3, <2>1, <2>2 DEF Lookup
<1>4. CASE Validate(s)
  <2>1. ASSUME NEW h \in Owner(rec.key),
               Becomes(s, [rec EXCEPT !.pc = "store", !.host = h, !.status = "valid"])
        PROVE  ShapeOK'
    <3> DEFINE r == [rec EXCEPT !.pc = "store", !.host = h, !.status = "valid"]
    <3>1. h \in Hosts
      BY DEF Owner
    <3>2. /\ r \in Requests /\ r.key = rec.key /\ r.from = rec.from /\ r.last = rec.last
          /\ r.next = rec.next /\ r.pc = "store" /\ r.name = rec.name /\ r.name \in Hosts
          /\ r.host = h /\ r.status = "valid"
      BY <1>1, <1>4, <3>1 DEF Requests, SessionOK, Validate
    <3> HIDE DEF r
    <3>3. Becomes(s, r) /\ UNCHANGED <<nodes, rows, drawn, agents, trouble>>
      BY <1>4, <2>1 DEF Validate, r
    <3>4. QED
      BY <1>1, <1>2, <3>1, <3>2, <3>3, ShapeServe
  <2>2. ASSUME Answer(s, "invalid") PROVE ShapeOK'
    <3> DEFINE r == [rec EXCEPT !.pc = "reply", !.status = "invalid"]
    <3>1. /\ r \in Requests /\ r.key = rec.key /\ r.from = rec.from /\ r.last = rec.last
          /\ r.next = rec.next /\ r.pc = "reply" /\ r.status = "invalid"
          /\ rec.status = "null"
      BY <1>1, <1>4 DEF Requests, SessionOK, Validate
    <3> HIDE DEF r
    <3>2. Becomes(s, r) /\ UNCHANGED <<nodes, rows, drawn, agents, trouble>>
      BY <1>4, <2>2 DEF Validate, Answer, r
    <3>3. QED
      BY <1>1, <1>2, <3>1, <3>2, ShapeServe
  <2>3. QED
    BY <1>4, <2>1, <2>2 DEF Validate
<1>5. CASE Insert(s) \/ Skip(s)
  <2> DEFINE r == [rec EXCEPT !.next = @ + 1]
  <2>1. rec.pc = "store" /\ rec.next <= rec.last /\ Becomes(s, r)
        /\ UNCHANGED <<nodes, drawn, agents, trouble>>
    BY <1>5 DEF Insert, Skip, Turn, Advance
  <2>6. rec.name \in Hosts /\ rec.host \in Hosts /\ rec.status = "valid"
    BY <1>1, <2>1 DEF SessionOK
  <2>7. rec.next + 1 \in Nat
    BY <1>2
  <2>8. r \in Requests /\ r.next = rec.next + 1
    BY <1>1, <2>7 DEF Requests
  <2>2. /\ r.key = rec.key /\ r.from = rec.from /\ r.last = rec.last
        /\ r.pc = "store" /\ r.name = rec.name /\ r.name \in Hosts
        /\ r.host = rec.host /\ r.host \in Hosts /\ r.status = "valid"
    BY <1>1, <2>1, <2>6 DEF Requests
  <2>3. rows' \in Seq([from : Hosts, entry : Nat, host : Hosts, name : Hosts])
    <3>1. CASE Skip(s)
      BY <1>2, <3>1 DEF Skip
    <3>2. CASE Insert(s)
      <4>1. Row(s) \in [from : Hosts, entry : Nat, host : Hosts, name : Hosts]
        BY <1>1, <2>1 DEF Row, Requests, SessionOK
      <4>2. QED
        BY <1>2, <3>2, <4>1, AppendProperties DEF Insert
    <3>3. QED
      BY <1>5, <3>1, <3>2
  <2> HIDE DEF r
  <2>4. r.next \in rec.next..r.last + 1
    BY <1>2, <2>1, <2>2, <2>8
  <2>5. QED
    BY <1>1, <2>1, <2>2, <2>3, <2>4, <2>8, ShapeServe
<1>6. CASE Throw(s)
  <2> DEFINE r == [rec EXCEPT !.pc = "reply", !.status = "valid"]
  <2>1. Becomes(s, r) /\ UNCHANGED <<nodes, rows, drawn, agents, trouble>>
    BY <1>6 DEF Throw, Answer
  <2>2. /\ r \in Requests /\ r.key = rec.key /\ r.from = rec.from /\ r.last = rec.last
        /\ r.next = rec.next /\ r.pc = "reply" /\ r.status = "valid"
    BY <1>1 DEF Requests
  <2> HIDE DEF r
  <2>3. QED
    BY <1>1, <1>2, <2>1, <2>2, ShapeServe
<1>7. CASE Fail(s)
  <2>1. PICK st \in {"null", "valid"} :
          Answer(s, st) /\ (st = "null" => rec.status = "null")
    BY <1>1, <1>7 DEF Fail, SessionOK
  <2> DEFINE r == [rec EXCEPT !.pc = "reply", !.status = st]
  <2>2. Becomes(s, r) /\ UNCHANGED <<nodes, rows, drawn, agents>> /\ Meet("faults")
    BY <1>7, <2>1 DEF Fail, Answer
  <2>3. /\ r \in Requests /\ r.key = rec.key /\ r.from = rec.from /\ r.last = rec.last
        /\ r.next = rec.next /\ r.pc = "reply" /\ r.status = st
    BY <1>1 DEF Requests
  <2> HIDE DEF r
  <2>4. QED
    BY <1>1, <1>2, <2>1, <2>2, <2>3, ShapeServe
<1>8. QED
  BY <1>3, <1>4, <1>5, <1>6, <1>7

LEMMA SendShape ==
  ASSUME ShapeOK, NEW h \in Hosts, NEW s \in Slots, Send(h, s)
  PROVE  ShapeOK'
<1>1. PICK m \in Nat :
        /\ m <= made[h] /\ m <= sent[h] + MaxBatch /\ m > sent[h]
        /\ Becomes(s, [pc |-> "lookup", from |-> h, key |-> agentKey[h], name |-> "nobody",
                       host |-> "nobody", next |-> sent[h] + 1, status |-> "null",
                       last |-> m])
  <2>1. made[h] \in Nat /\ sent[h] \in Nat /\ MaxBatch \in Nat \ {0} /\ sent[h] < made[h]
    BY IngestAssumption DEF ShapeOK, TypeOK, Send
  <2> DEFINE m == IF made[h] < sent[h] + MaxBatch THEN made[h] ELSE sent[h] + MaxBatch
  <2>2. m \in Nat /\ m <= made[h] /\ m <= sent[h] + MaxBatch /\ m > sent[h]
    BY <2>1
  <2>3. QED
    BY <2>2 DEF Send
<1> DEFINE r == [pc |-> "lookup", from |-> h, key |-> agentKey[h], name |-> "nobody",
                 host |-> "nobody", next |-> sent[h] + 1, status |-> "null", last |-> m]
<1>2. /\ r \in Requests /\ r.pc = "lookup" /\ r.from = h /\ r.key = agentKey[h]
      /\ r.next = sent[h] + 1 /\ r.last = m /\ r.status = "null" /\ r.key # 0
      /\ sent[h] \in Nat /\ made[h] \in Nat
  BY <1>1 DEF Requests, ShapeOK, TypeOK, Send
<1>3. Becomes(s, r)
  BY <1>1
<1> HIDE DEF r
<1>4. /\ session'[s] = r /\ \A q \in Slots : q # s => session'[q] = session[q]
      /\ session' \in [Slots -> Requests \cup {Free}]
      /\ asked' = [asked EXCEPT ![h] = s]
      /\ session[s] = Free
      /\ UNCHANGED <<nodes, rows, drawn, agentKey, made, sent, trouble>>
  BY <1>2, <1>3 DEF Becomes, ShapeOK, TypeOK, Send
<1>5. TypeOK'
  BY <1>4 DEF ShapeOK, TypeOK
<1>6. \A q \in Slots : Busy(q)' => SessionOK(q)'
  <2>1. SessionOK(s)'
    BY <1>1, <1>2, <1>4 DEF SessionOK
  <2>2. ASSUME NEW q \in Slots, q # s, Busy(q)' PROVE SessionOK(q)'
    BY <1>4, <2>2 DEF ShapeOK, Busy, SessionOK
  <2>3. QED
    BY <2>1, <2>2
<1>7. \A g \in Hosts : Waiting(g)' => AskedOK(g)'
  <2>1. AskedOK(h)'
    BY <1>1, <1>2, <1>4, FreeIsNoRequest DEF AskedOK, Busy, ShapeOK, TypeOK
  <2>2. ASSUME NEW g \in Hosts, g # h, Waiting(g)' PROVE AskedOK(g)'
    <3>1. asked'[g] = asked[g] /\ AskedOK(g) /\ asked[g] \in Slots /\ asked[g] # s
      BY <1>4, <2>2 DEF ShapeOK, TypeOK, Waiting, AskedOK, Busy
    <3>2. QED
      BY <1>4, <3>1 DEF AskedOK, Busy
  <2>3. QED
    BY <2>1, <2>2
<1>8. QED
  BY <1>5, <1>6, <1>7 DEF ShapeOK

LEMMA AgentShape ==
  ASSUME ShapeOK, NEW h \in Hosts, Enroll(h) \/ Config(h) \/ DeleteNode(h) \/ Log(h)
  PROVE  ShapeOK'
<1>1. Len(Entries[h]) \in Nat
  BY IngestAssumption
<1>7. made' = made => \A g \in Hosts : made'[g] >= made[g]
  BY DEF ShapeOK, TypeOK
<1>2. CASE Enroll(h)
  <2>1. PICK k \in drawn + 1 .. drawn + 1 + Cardinality(Hosts) :
          /\ drawn' = k /\ nodes' = [nodes EXCEPT ![h] = k]
          /\ agentKey' = [agentKey EXCEPT ![h] = k]
    BY <1>2 DEF Enroll
  <2>2. k \in Nat
    BY <2>1 DEF ShapeOK, TypeOK
  <2>3. UNCHANGED <<rows, session, asked, made, sent, trouble>>
    BY <1>2 DEF Enroll
  <2>4. TypeOK'
    BY <2>1, <2>2, <2>3 DEF ShapeOK, TypeOK
  <2>5. QED
    BY <1>7, <2>3, <2>4, ShapeFrame
<1>3. CASE Config(h)
  <2>1. TypeOK' /\ UNCHANGED <<session, asked, made, sent>>
    BY <1>3 DEF Config, ShapeOK, TypeOK
  <2>2. QED
    BY <1>7, <2>1, ShapeFrame
<1>4. CASE DeleteNode(h)
  <2>1. trouble' \in [faults : Nat, timeouts : Nat, restarts : Nat, deletes : Nat]
    BY <1>4, TroubleCounts DEF DeleteNode, ShapeOK
  <2>2. TypeOK' /\ UNCHANGED <<session, asked, made, sent>>
    BY <1>4, <2>1 DEF DeleteNode, ShapeOK, TypeOK, agents
  <2>3. QED
    BY <1>7, <2>2, ShapeFrame
<1>5. CASE Log(h)
  <2>1. /\ made[h] < Len(Entries[h]) /\ made' = [made EXCEPT ![h] = @ + 1]
        /\ UNCHANGED <<nodes, rows, drawn, session, agentKey, asked, sent, trouble>>
    BY <1>5 DEF Log
  <2>2. made \in [Hosts -> Nat] /\ sent \in [Hosts -> Nat] /\ TypeOK
    BY DEF ShapeOK, TypeOK
  <2>3. \A g \in Hosts : made'[g] = IF g = h THEN made[h] + 1 ELSE made[g]
    BY <2>1, <2>2
  <2>4. \A g \in Hosts : sent'[g] <= made'[g] /\ made'[g] <= Len(Entries[g])
    <3> SUFFICES ASSUME NEW g \in Hosts PROVE sent[g] <= made'[g] /\ made'[g] <= Len(Entries[g])
      BY <2>1
    <3>1. /\ sent[g] \in Nat /\ made[g] \in Nat
          /\ sent[g] <= made[g] /\ made[g] <= Len(Entries[g])
      <4>1. sent[g] <= made[g] /\ made[g] <= Len(Entries[g])
        BY <2>2 DEF TypeOK
      <4>2. QED
        BY <2>2, <4>1
    <3>2. made'[g] = made[g] \/ (g = h /\ made'[g] = made[g] + 1 /\ made[g] < Len(Entries[g]))
      BY <2>1, <2>3
    <3>3. QED
      BY <1>1, <3>1, <3>2
  <2>8. made' \in [Hosts -> Nat]
    BY <2>1, <2>2
  <2>5. TypeOK'
    <3>1. UNCHANGED <<nodes, rows, drawn, session, agentKey, asked, sent, trouble>>
      BY <2>1
    <3>2. QED
      BY <2>2, <2>4, <2>8, <3>1 DEF TypeOK
  <2>6. \A g \in Hosts : made'[g] >= made[g]
    BY <2>2, <2>3
  <2>7. QED
    BY <2>1, <2>5, <2>6, ShapeFrame
<1>6. QED
  BY <1>2, <1>3, <1>4, <1>5

LEMMA GiveUpShape ==
  ASSUME ShapeOK, NEW h \in Hosts, GiveUp(h)
  PROVE  ShapeOK'
<1>1. /\ asked' = [asked EXCEPT ![h] = "none"]
      /\ UNCHANGED <<nodes, rows, drawn, session, agentKey, made, sent>>
      /\ trouble' \in [faults : Nat, timeouts : Nat, restarts : Nat, deletes : Nat]
  BY TroubleCounts DEF GiveUp, ShapeOK
<1>2. TypeOK'
  BY <1>1 DEF ShapeOK, TypeOK
<1>3. \A s \in Slots : Busy(s)' => SessionOK(s)'
  BY <1>1 DEF ShapeOK, Busy, SessionOK
<1>4. \A g \in Hosts : Waiting(g)' => AskedOK(g)'
  BY <1>1 DEF ShapeOK, TypeOK, Waiting, AskedOK, Busy
<1>5. QED
  BY <1>2, <1>3, <1>4 DEF ShapeOK

LEMMA ReplyShape ==
  ASSUME ShapeOK, NEW s \in Slots, Reply(s)
  PROVE  ShapeOK'
<1> DEFINE h == session[s].from
<1>1. session[s] \in Requests /\ Busy(s) /\ SessionOK(s) /\ h \in Hosts
  BY BusyTyped DEF Reply, Complete, ShapeOK, Requests
<1>2. /\ session' = [session EXCEPT ![s] = Free]
      /\ UNCHANGED <<nodes, rows, drawn, made, trouble>>
  BY DEF Reply, Becomes
<1>3. /\ \A g \in Hosts : g # h => /\ asked'[g] = asked[g] /\ sent'[g] = sent[g]
                                   /\ agentKey'[g] = agentKey[g]
      /\ asked' \in [Hosts -> Slots \cup {"none"}] /\ agentKey' \in [Hosts -> Nat]
      /\ sent' \in [Hosts -> Nat]
      /\ \A g \in Hosts : sent'[g] <= made[g]
      /\ asked'[h] # s
  <2>1. CASE asked[h] = s /\ Receive(h, s)
    <3>1. asked' = [asked EXCEPT ![h] = "none"] /\ s # "none"
      BY <2>1, IngestAssumption DEF Receive
    <3>2. \/ sent' = [sent EXCEPT ![h] = session[s].last] /\ agentKey' = agentKey
          \/ sent' = sent /\ agentKey' = agentKey
          \/ sent' = sent /\ agentKey' = [agentKey EXCEPT ![h] = 0]
      BY <2>1 DEF Receive
    <3>3. session[s].last \in Nat /\ session[s].last <= made[h]
      BY <1>1 DEF Requests, SessionOK
    <3>4. /\ asked \in [Hosts -> Slots \cup {"none"}] /\ agentKey \in [Hosts -> Nat]
          /\ sent \in [Hosts -> Nat] /\ \A g \in Hosts : sent[g] <= made[g]
      BY DEF ShapeOK, TypeOK
    <3> DEFINE last == session[s].last
    <3> HIDE DEF h, last
    <3>5. /\ \A g \in Hosts : g # h => asked'[g] = asked[g]
          /\ asked' \in [Hosts -> Slots \cup {"none"}] /\ asked'[h] # s
      BY <1>1, <3>1, <3>4
    <3>6. /\ \A g \in Hosts : g # h => agentKey'[g] = agentKey[g]
          /\ agentKey' \in [Hosts -> Nat]
      BY <1>1, <3>2, <3>4
    <3>7. last \in Nat /\ last <= made[h] /\ (sent' = [sent EXCEPT ![h] = last] \/ sent' = sent)
      BY <3>2, <3>3 DEF last
    <3>8. /\ \A g \in Hosts : g # h => sent'[g] = sent[g]
          /\ sent' \in [Hosts -> Nat] /\ \A g \in Hosts : sent'[g] <= made[g]
      BY <1>1, <3>4, <3>7
    <3>9. QED
      BY <3>5, <3>6, <3>8
  <2>2. CASE asked[h] # s /\ UNCHANGED <<agentKey, asked, sent>>
    BY <2>2 DEF ShapeOK, TypeOK
  <2>3. QED
    BY <2>1, <2>2 DEF Reply
<1>4. TypeOK'
  BY <1>2, <1>3 DEF ShapeOK, TypeOK
<1>5. \A q \in Slots : Busy(q)' => q # s /\ session'[q] = session[q]
  BY <1>2 DEF Busy, ShapeOK, TypeOK
<1>6. \A q \in Slots : Busy(q)' => SessionOK(q)'
  BY <1>2, <1>5 DEF ShapeOK, Busy, SessionOK
<1>7. \A g \in Hosts : Waiting(g)' => AskedOK(g)'
  <2> SUFFICES ASSUME NEW g \in Hosts, Waiting(g)' PROVE AskedOK(g)'
    OBVIOUS
  <2>1. asked'[g] = asked[g] /\ sent'[g] = sent[g] /\ Waiting(g)
    <3>1. CASE g = h /\ asked[h] = s
      BY <3>1 DEF Reply, Receive, Waiting, ShapeOK, TypeOK
    <3>2. CASE g = h /\ asked[h] # s
      BY <3>2 DEF Reply, Waiting
    <3>3. CASE g # h
      BY <1>3, <3>3 DEF Waiting
    <3>4. QED
      BY <3>1, <3>2, <3>3
  <2>2. AskedOK(g) /\ asked[g] \in Slots
    BY <2>1 DEF ShapeOK, TypeOK, Waiting
  <2>3. asked[g] # s
    BY <1>3, <2>1, <2>2 DEF AskedOK
  <2>4. session'[asked[g]] = session[asked[g]]
    BY <1>2, <2>2, <2>3 DEF ShapeOK, TypeOK
  <2>5. QED
    BY <2>1, <2>2, <2>4 DEF AskedOK, Busy
<1>8. QED
  BY <1>4, <1>6, <1>7 DEF ShapeOK

LEMMA RestartShape ==
  ASSUME ShapeOK, Restart
  PROVE  ShapeOK'
<1>1. trouble' \in [faults : Nat, timeouts : Nat, restarts : Nat, deletes : Nat]
  BY TroubleCounts DEF Restart, ShapeOK
<1>2. TypeOK'
  BY <1>1 DEF ShapeOK, TypeOK, Restart
<1>3. QED
  BY <1>2 DEF ShapeOK, Restart, Busy, Waiting

LEMMA ShapeStep == ShapeOK /\ [Next]_vars => ShapeOK'
<1> SUFFICES ASSUME ShapeOK, [Next]_vars PROVE ShapeOK'
  OBVIOUS
<1>1. ASSUME NEW h \in Hosts, Enroll(h) \/ Config(h) \/ DeleteNode(h) \/ Log(h) PROVE ShapeOK'
  BY <1>1, AgentShape
<1>2. ASSUME NEW h \in Hosts, GiveUp(h) PROVE ShapeOK'
  BY <1>2, GiveUpShape
<1>3. ASSUME NEW h \in Hosts, NEW s \in Slots, Send(h, s) PROVE ShapeOK'
  BY <1>3, SendShape
<1>4. ASSUME NEW s \in Slots,
             Lookup(s) \/ Validate(s) \/ Insert(s) \/ Skip(s) \/ Throw(s) \/ Fail(s)
      PROVE  ShapeOK'
  BY <1>4, ServeShape
<1>5. ASSUME NEW s \in Slots, Reply(s) PROVE ShapeOK'
  BY <1>5, ReplyShape
<1>6. CASE Restart
  BY <1>6, RestartShape
<1>7. CASE UNCHANGED vars
  BY <1>7 DEF vars, agents, ShapeOK, TypeOK, Busy, Waiting, SessionOK, AskedOK
<1>8. QED
  BY <1>1, <1>2, <1>3, <1>4, <1>5, <1>6, <1>7 DEF Next, Serve

(* Requests, tables and agents are well formed for any hosts and logs.     *)
THEOREM IngestTypeCorrect == Spec => []TypeOK
<1>1. ShapeOK => TypeOK
  BY DEF ShapeOK
<1>2. QED
  BY <1>1, ShapeInit, ShapeStep, PTL DEF Spec

-----------------------------------------------------------------------------
(* Who has to do with key k: it is in the row of host h, the agent of h    *)
(* sends it, or sent it in a request that is not answered yet.             *)
Holds(h, k) ==
  /\ k # 0
  /\ \/ nodes[h] = k \/ agentKey[h] = k
     \/ \E s \in Slots : Busy(s) /\ session[s].from = h /\ session[s].key = k

(* Two hosts have to do with one key only after the process was restarted, *)
(* and then it has been drawn again since.                                 *)
KeysOK ==
  /\ \A h, n \in Hosts : nodes[h] # 0 /\ nodes[h] = nodes[n] => h = n
  /\ trouble.restarts = 0 => \A h \in Hosts, k \in Nat : Holds(h, k) => k <= drawn
  /\ trouble.restarts < 2 =>
       \A h, n \in Hosts, k \in Nat :
         h # n /\ Holds(h, k) /\ Holds(n, k) => trouble.restarts = 1 /\ k <= drawn

(* A name that is not the sender's was found under a key that will not be  *)
(* drawn for the sender before the next restart.                           *)
NamesOK ==
  trouble.restarts < 2 =>
    \A s \in Slots :
      /\ session[s].pc \in {"validate", "store"} =>
           \/ session[s].name = session[s].from
           \/ /\ trouble.restarts = 1 /\ session[s].key <= drawn
              /\ nodes[session[s].from] # session[s].key
      /\ session[s].pc = "store" /\ session[s].host = session[s].from =>
           session[s].name = session[s].from

SendersIInv == ShapeOK /\ KeysOK /\ NamesOK /\ RowsAreTheSenders

LEMMA SendersInit == Init => SendersIInv
<1> SUFFICES ASSUME Init PROVE SendersIInv
  OBVIOUS
<1>1. ShapeOK
  BY ShapeInit
<1>2. KeysOK
  BY DEF Init, KeysOK, Holds, Busy
<1>3. NamesOK /\ RowsAreTheSenders
  BY DEF Init, NamesOK, RowsAreTheSenders, Free
<1>4. QED
  BY <1>1, <1>2, <1>3 DEF SendersIInv

(* No step but enroll gives anybody a key, and the draws go back with the  *)
(* process only.                                                           *)
LEMMA KeysFrame ==
  ASSUME KeysOK, UNCHANGED <<drawn, trouble>> \/ (drawn' = drawn /\ trouble'.restarts = trouble.restarts),
         \A h \in Hosts : nodes'[h] = nodes[h] \/ nodes'[h] = 0,
         \A h \in Hosts, k \in Nat : Holds(h, k)' => Holds(h, k)
  PROVE  KeysOK'
BY DEF KeysOK

(* The sessions stay as they are.                                          *)
LEMMA HoldsLess ==
  ASSUME NEW h \in Hosts, NEW k \in Nat, session' = session, Holds(h, k)',
         nodes'[h] \in {nodes[h], 0}, agentKey'[h] \in {agentKey[h], 0}
  PROVE  Holds(h, k)
BY DEF Holds, Busy

LEMMA CalmStep ==
  ASSUME ShapeOK, NEW h \in Hosts, Config(h) \/ DeleteNode(h) \/ Log(h) \/ GiveUp(h)
  PROVE  /\ UNCHANGED <<session, drawn, rows>> /\ trouble'.restarts = trouble.restarts
         /\ \A g \in Hosts : nodes'[g] \in {nodes[g], 0} /\ agentKey'[g] \in {agentKey[g], 0}
<1>1. ASSUME NEW t \in {"timeouts", "deletes"}, Meet(t)
      PROVE  trouble'.restarts = trouble.restarts
  BY <1>1, TroubleCounts DEF ShapeOK
<1>2. nodes \in [Hosts -> Nat] /\ agentKey \in [Hosts -> Nat]
  BY DEF ShapeOK, TypeOK
<1>3. CASE Config(h)
  BY <1>2, <1>3 DEF Config
<1>4. CASE DeleteNode(h)
  BY <1>1, <1>2, <1>4 DEF DeleteNode, agents
<1>5. CASE Log(h)
  BY <1>2, <1>5 DEF Log
<1>6. CASE GiveUp(h)
  BY <1>1, <1>2, <1>6 DEF GiveUp
<1>7. QED
  BY <1>3, <1>4, <1>5, <1>6

LEMMA CalmSenders ==
  ASSUME SendersIInv, ShapeOK', NEW h \in Hosts,
         Config(h) \/ DeleteNode(h) \/ Log(h) \/ GiveUp(h)
  PROVE  SendersIInv'
<1>1. /\ UNCHANGED <<session, drawn, rows>> /\ trouble'.restarts = trouble.restarts
      /\ \A g \in Hosts : nodes'[g] \in {nodes[g], 0} /\ agentKey'[g] \in {agentKey[g], 0}
  BY CalmStep DEF SendersIInv
<1>2. KeysOK'
  BY <1>1, KeysFrame, HoldsLess DEF SendersIInv
<1>3. NamesOK'
  <2>1. \A s \in Slots : session[s].pc \in {"validate", "store"} =>
                           session[s].from \in Hosts /\ session[s].key # 0
    BY BusyTyped DEF SendersIInv, ShapeOK, SessionOK, Requests
  <2>2. QED
    BY <1>1, <2>1 DEF SendersIInv, NamesOK
<1>4. RowsAreTheSenders'
  BY <1>1 DEF SendersIInv, RowsAreTheSenders
<1>5. QED
  BY <1>2, <1>3, <1>4 DEF SendersIInv

LEMMA EnrollSenders ==
  ASSUME SendersIInv, ShapeOK', NEW h \in Hosts, Enroll(h)
  PROVE  SendersIInv'
<1>1. PICK k \in drawn + 1 .. drawn + 1 + Cardinality(Hosts) :
        /\ Owner(k) = {} /\ drawn' = k
        /\ nodes' = [nodes EXCEPT ![h] = k]
        /\ agentKey' = [agentKey EXCEPT ![h] = k]
  BY DEF Enroll
<1>2. /\ drawn \in Nat /\ k \in Nat /\ k > drawn
      /\ nodes \in [Hosts -> Nat] /\ agentKey \in [Hosts -> Nat]
  <2>1. drawn \in Nat /\ nodes \in [Hosts -> Nat] /\ agentKey \in [Hosts -> Nat]
    BY DEF SendersIInv, ShapeOK, TypeOK
  <2>2. k \in Int /\ k >= drawn + 1
    BY <2>1
  <2>3. QED
    BY <2>1, <2>2
<1>3. UNCHANGED <<rows, session, trouble>>
  BY DEF Enroll
<1>4. ASSUME NEW g \in Hosts, NEW j \in Nat, Holds(g, j)'
      PROVE  Holds(g, j) \/ (g = h /\ j = k)
  BY <1>1, <1>2, <1>3, <1>4 DEF Holds, Busy
<1>5. \A g, n \in Hosts : nodes'[g] # 0 /\ nodes'[g] = nodes'[n] => g = n
  BY <1>1, <1>2 DEF SendersIInv, KeysOK, Owner
<1>6. trouble.restarts = 0 => \A g \in Hosts, j \in Nat : Holds(g, j)' => j <= drawn'
  BY <1>1, <1>2, <1>4 DEF SendersIInv, KeysOK
<1>7. trouble.restarts < 2 =>
        \A g, n \in Hosts, j \in Nat :
          g # n /\ Holds(g, j)' /\ Holds(n, j)' => trouble.restarts = 1 /\ j <= drawn'
  <2> SUFFICES ASSUME trouble.restarts < 2, NEW g \in Hosts, NEW n \in Hosts, NEW j \in Nat,
                      g # n, Holds(g, j)', Holds(n, j)'
               PROVE  trouble.restarts = 1 /\ j <= drawn'
    OBVIOUS
  <2>1. trouble.restarts \in Nat
    BY DEF SendersIInv, ShapeOK, TypeOK
  <2>2. CASE Holds(g, j) /\ Holds(n, j)
    BY <1>1, <1>2, <2>2 DEF SendersIInv, KeysOK
  <2>3. CASE j = k /\ (Holds(g, j) \/ Holds(n, j))
    BY <1>1, <1>2, <2>1, <2>3 DEF SendersIInv, KeysOK
  <2>4. QED
    BY <1>4, <2>2, <2>3
<1>8. KeysOK'
  BY <1>3, <1>5, <1>6, <1>7 DEF KeysOK
<1>9. NamesOK'
  <2>1. \A s \in Slots : session[s].pc \in {"validate", "store"} =>
                           session[s].from \in Hosts /\ session[s].key \in Nat
    BY BusyTyped DEF SendersIInv, ShapeOK, Requests
  <2>2. ASSUME NEW s \in Slots, session[s].pc \in {"validate", "store"},
               session[s].key <= drawn, nodes[session[s].from] # session[s].key
        PROVE  session[s].key <= drawn' /\ nodes'[session[s].from] # session[s].key
    BY <1>1, <1>2, <2>1, <2>2
  <2>3. QED
    BY <1>3, <2>2 DEF SendersIInv, NamesOK
<1>10. RowsAreTheSenders'
  BY <1>3 DEF SendersIInv, RowsAreTheSenders
<1>11. QED
  BY <1>8, <1>9, <1>10 DEF SendersIInv

LEMMA SendSenders ==
  ASSUME SendersIInv, ShapeOK', NEW h \in Hosts, NEW s \in Slots, Send(h, s)
  PROVE  SendersIInv'
<1>1. PICK r : /\ Becomes(s, r) /\ r.pc = "lookup" /\ r.from = h /\ r.key = agentKey[h]
  BY DEF Send
<1>2. /\ session'[s] = r /\ \A q \in Slots : q # s => session'[q] = session[q]
      /\ UNCHANGED <<nodes, rows, drawn, agentKey, trouble>>
  BY <1>1 DEF Becomes, Send, SendersIInv, ShapeOK, TypeOK
<1>3. ASSUME NEW g \in Hosts, NEW k \in Nat, Holds(g, k)' PROVE Holds(g, k)
  BY <1>1, <1>2, <1>3 DEF Holds, Busy
<1>4. KeysOK'
  BY <1>2, <1>3, KeysFrame DEF SendersIInv
<1>5. NamesOK'
  BY <1>1, <1>2 DEF SendersIInv, NamesOK
<1>6. RowsAreTheSenders'
  BY <1>2 DEF SendersIInv, RowsAreTheSenders
<1>7. QED
  BY <1>4, <1>5, <1>6 DEF SendersIInv

(* A handler's step changes neither what its session is about nor a row of *)
(* nodes.                                                                  *)
LEMMA MoveSenders ==
  ASSUME SendersIInv, ShapeOK', NEW s \in Slots, Busy(s), NEW r \in Requests, Becomes(s, r),
         r.from = session[s].from, r.key = session[s].key,
         UNCHANGED <<nodes, drawn, agents>>, trouble'.restarts = trouble.restarts,
         RowsAreTheSenders',
         trouble.restarts < 2 =>
           /\ r.pc \in {"validate", "store"} =>
                \/ r.name = r.from
                \/ /\ trouble.restarts = 1 /\ r.key <= drawn
                   /\ nodes[r.from] # r.key
           /\ r.pc = "store" /\ r.host = r.from => r.name = r.from
  PROVE  SendersIInv'
<1>1. /\ session'[s] = r /\ \A q \in Slots : q # s => session'[q] = session[q]
      /\ UNCHANGED <<nodes, drawn, agentKey>>
  BY DEF Becomes, agents, SendersIInv, ShapeOK, TypeOK
<1>2. ASSUME NEW g \in Hosts, NEW k \in Nat, Holds(g, k)' PROVE Holds(g, k)
  <2>1. CASE nodes'[g] = k \/ agentKey'[g] = k
    BY <1>1, <1>2, <2>1 DEF Holds
  <2>2. CASE \E q \in Slots : Busy(q)' /\ session'[q].from = g /\ session'[q].key = k
    <3>1. PICK q \in Slots : Busy(q)' /\ session'[q].from = g /\ session'[q].key = k
      BY <2>2
    <3>2. Busy(q) /\ session[q].from = g /\ session[q].key = k
      BY <1>1, <3>1 DEF Busy
    <3>3. QED
      BY <1>2, <3>2 DEF Holds
  <2>3. QED
    BY <1>2, <2>1, <2>2 DEF Holds
<1>3. KeysOK'
  BY <1>1, <1>2, KeysFrame DEF SendersIInv
<1>4. NamesOK'
  <2> SUFFICES ASSUME trouble.restarts < 2, NEW q \in Slots
               PROVE  /\ session'[q].pc \in {"validate", "store"} =>
                           \/ session'[q].name = session'[q].from
                           \/ /\ trouble.restarts = 1 /\ session'[q].key <= drawn
                              /\ nodes[session'[q].from] # session'[q].key
                      /\ session'[q].pc = "store" /\ session'[q].host = session'[q].from =>
                           session'[q].name = session'[q].from
    BY <1>1 DEF NamesOK
  <2>1. CASE q = s
    BY <1>1, <2>1
  <2>2. CASE q # s
    BY <1>1, <2>2 DEF SendersIInv, NamesOK
  <2>3. QED
    BY <2>1, <2>2
<1>5. QED
  BY <1>3, <1>4 DEF SendersIInv

LEMMA LookupSenders ==
  ASSUME SendersIInv, ShapeOK', NEW s \in Slots, Lookup(s) \/ Validate(s)
  PROVE  SendersIInv'
<1> DEFINE rec == session[s]
<1>1. /\ rec \in Requests /\ Busy(s) /\ SessionOK(s) /\ rec.from \in Hosts
      /\ rec.key \in Nat /\ rec.key # 0
  <2>1. rec.pc \in {"lookup", "validate"}
    BY DEF Lookup, Validate
  <2>2. QED
    BY <2>1, BusyTyped DEF SendersIInv, ShapeOK, SessionOK, Requests
<1>2. /\ UNCHANGED <<nodes, rows, drawn, agents>> /\ trouble'.restarts = trouble.restarts
      /\ trouble.restarts \in Nat
  BY DEF Lookup, Validate, SendersIInv, ShapeOK, TypeOK
<1>3. RowsAreTheSenders'
  BY <1>2 DEF SendersIInv, RowsAreTheSenders
<1>4. ASSUME NEW r, r \in Requests, Becomes(s, r), r.from = rec.from, r.key = rec.key,
             r.pc = "reply"
      PROVE  SendersIInv'
  BY <1>1, <1>2, <1>3, <1>4, MoveSenders
<1>5. ASSUME NEW st \in {"null", "invalid"}, Answer(s, st) PROVE SendersIInv'
  <2> DEFINE r == [rec EXCEPT !.pc = "reply", !.status = st]
  <2>1. r \in Requests /\ r.from = rec.from /\ r.key = rec.key /\ r.pc = "reply"
    BY <1>1 DEF Requests
  <2>2. Becomes(s, r)
    BY <1>5 DEF Answer
  <2> HIDE DEF r
  <2>3. QED
    BY <1>4, <2>1, <2>2
<1>6. CASE Lookup(s)
  <2>1. ASSUME NEW h \in Owner(rec.key),
               Becomes(s, [rec EXCEPT !.pc = "validate", !.name = h])
        PROVE  SendersIInv'
    <3> DEFINE r == [rec EXCEPT !.pc = "validate", !.name = h]
    <3>1. h \in Hosts /\ nodes[h] = rec.key
      BY DEF Owner
    <3>2. /\ r \in Requests /\ r.from = rec.from /\ r.key = rec.key /\ r.pc = "validate"
          /\ r.name = h /\ Becomes(s, r)
      BY <1>1, <2>1, <3>1 DEF Requests
    <3> HIDE DEF r
    <3>3. ASSUME trouble.restarts < 2, h # rec.from
          PROVE  /\ trouble.restarts = 1 /\ rec.key <= drawn
                 /\ nodes[rec.from] # rec.key
      <4>1. Holds(h, rec.key) /\ Holds(rec.from, rec.key)
        BY <1>1, <3>1 DEF Holds
      <4>2. QED
        BY <1>1, <3>1, <3>3, <4>1 DEF SendersIInv, KeysOK
    <3>4. QED
      BY <1>1, <1>2, <1>3, <3>2, <3>3, MoveSenders
  <2>2. QED
    BY <1>5, <1>6, <2>1 DEF Lookup
<1>7. CASE Validate(s)
  <2>1. ASSUME NEW h \in Owner(rec.key),
               Becomes(s, [rec EXCEPT !.pc = "store", !.host = h, !.status = "valid"])
        PROVE  SendersIInv'
    <3> DEFINE r == [rec EXCEPT !.pc = "store", !.host = h, !.status = "valid"]
    <3>1. h \in Hosts /\ nodes[h] = rec.key
      BY DEF Owner
    <3>2. /\ r \in Requests /\ r.from = rec.from /\ r.key = rec.key /\ r.pc = "store"
          /\ r.name = rec.name /\ r.host = h /\ Becomes(s, r)
      BY <1>1, <2>1, <3>1 DEF Requests
    <3> HIDE DEF r
    <3>3. rec.pc = "validate"
      BY <1>7 DEF Validate
    <3>4. trouble.restarts < 2 =>
            \/ rec.name = rec.from
            \/ /\ trouble.restarts = 1 /\ rec.key <= drawn /\ nodes[rec.from] # rec.key
      BY <3>3 DEF SendersIInv, NamesOK
    <3>5. trouble.restarts < 2 /\ r.host = r.from => r.name = r.from
      BY <3>1, <3>2, <3>4
    <3>6. QED
      BY <1>1, <1>2, <1>3, <3>2, <3>4, <3>5, MoveSenders
  <2>2. QED
    BY <1>5, <1>7, <2>1 DEF Validate
<1>8. QED
  BY <1>6, <1>7

LEMMA StoreSenders ==
  ASSUME SendersIInv, ShapeOK', NEW s \in Slots, Insert(s) \/ Skip(s) \/ Throw(s) \/ Fail(s)
  PROVE  SendersIInv'
<1> DEFINE rec == session[s]
<1>1. /\ rec \in Requests /\ Busy(s) /\ SessionOK(s) /\ rec.next + 1 \in Nat
      /\ rec.pc = "store" \/ Fail(s)
  <2>1. rec.pc \in {"lookup", "validate", "store"} /\ (rec.pc = "store" \/ Fail(s))
    BY DEF Insert, Skip, Throw, Fail, Turn
  <2>2. rec \in Requests /\ Busy(s)
    BY <2>1, BusyTyped DEF SendersIInv, ShapeOK
  <2>3. QED
    BY <2>1, <2>2 DEF SendersIInv, ShapeOK, Requests
<1>2. UNCHANGED <<nodes, drawn, agents>> /\ trouble'.restarts = trouble.restarts
  <2>1. CASE Fail(s)
    BY <2>1, TroubleCounts DEF Fail, SendersIInv, ShapeOK
  <2>2. CASE ~ Fail(s)
    BY <2>2 DEF Insert, Skip, Throw
  <2>3. QED
    BY <2>1, <2>2
<1>3. CASE Insert(s) \/ Skip(s)
  <2> DEFINE r == [rec EXCEPT !.next = @ + 1]
  <2>1. Becomes(s, r) /\ rec.pc = "store"
    BY <1>3 DEF Insert, Skip, Turn, Advance
  <2>2. /\ r \in Requests /\ r.from = rec.from /\ r.key = rec.key /\ r.pc = rec.pc
        /\ r.name = rec.name /\ r.host = rec.host
    BY <1>1 DEF Requests
  <2> HIDE DEF r
  <2>3. RowsAreTheSenders'
    <3>1. CASE Skip(s)
      BY <1>2, <3>1 DEF Skip, SendersIInv, RowsAreTheSenders
    <3>2. CASE Insert(s)
      <4>1. /\ rows \in Seq([from : Hosts, entry : Nat, host : Hosts, name : Hosts])
            /\ Row(s) \in [from : Hosts, entry : Nat, host : Hosts, name : Hosts]
            /\ rows' = Append(rows, Row(s))
        BY <1>1, <2>1, <3>2 DEF Row, Requests, SessionOK, Insert, SendersIInv, ShapeOK, TypeOK
      <4>2. \A n \in DOMAIN rows' : \/ n \in DOMAIN rows /\ rows'[n] = rows[n]
                                    \/ rows'[n] = Row(s)
        BY <4>1
      <4>3. /\ Row(s).host = Row(s).from
            /\ trouble.restarts < 2 => Row(s).name = Row(s).from
        BY <2>1, <3>2 DEF Row, Insert, Own, SendersIInv, NamesOK
      <4> HIDE DEF rec
      <4>4. QED
        BY <1>2, <4>2, <4>3 DEF SendersIInv, RowsAreTheSenders
    <3>3. QED
      BY <1>3, <3>1, <3>2
  <2>4. QED
    BY <1>1, <1>2, <2>1, <2>2, <2>3, MoveSenders DEF SendersIInv, NamesOK
<1>4. CASE Throw(s) \/ Fail(s)
  <2>1. PICK st \in {"null", "valid"} : Answer(s, st)
    BY <1>4 DEF Throw, Fail
  <2> DEFINE r == [rec EXCEPT !.pc = "reply", !.status = st]
  <2>2. Becomes(s, r)
    BY <2>1 DEF Answer
  <2>3. r \in Requests /\ r.from = rec.from /\ r.key = rec.key /\ r.pc = "reply"
    BY <1>1 DEF Requests
  <2> HIDE DEF r
  <2>4. RowsAreTheSenders'
    BY <1>2, <1>4 DEF Throw, Fail, SendersIInv, RowsAreTheSenders
  <2>5. QED
    BY <1>1, <1>2, <2>2, <2>3, <2>4, MoveSenders
<1>5. QED
  BY <1>3, <1>4

LEMMA ReplySenders ==
  ASSUME SendersIInv, ShapeOK', NEW s \in Slots, Reply(s)
  PROVE  SendersIInv'
<1>1. /\ session' = [session EXCEPT ![s] = Free]
      /\ UNCHANGED <<nodes, rows, drawn, made, trouble>>
  BY DEF Reply, Becomes
<1>2. \A g \in Hosts : agentKey'[g] \in {agentKey[g], 0}
  BY DEF Reply, Receive, SendersIInv, ShapeOK, TypeOK
<1>3. \A q \in Slots : session'[q] = session[q] \/ session'[q] = Free
  BY <1>1 DEF SendersIInv, ShapeOK, TypeOK
<1>4. ASSUME NEW g \in Hosts, NEW k \in Nat, Holds(g, k)' PROVE Holds(g, k)
  BY <1>1, <1>2, <1>3, <1>4 DEF Holds, Busy
<1>5. KeysOK'
  BY <1>1, <1>4, KeysFrame DEF SendersIInv
<1>6. NamesOK'
  BY <1>1, <1>3, FreeIsNoRequest DEF SendersIInv, NamesOK
<1>7. RowsAreTheSenders'
  BY <1>1 DEF SendersIInv, RowsAreTheSenders
<1>8. QED
  BY <1>5, <1>6, <1>7 DEF SendersIInv

(* After the first restart no key is shared; after the second the names    *)
(* are given up.                                                           *)
LEMMA RestartSenders ==
  ASSUME SendersIInv, ShapeOK', Restart
  PROVE  SendersIInv'
<1>1. /\ UNCHANGED <<nodes, rows, agentKey>> /\ \A q \in Slots : session'[q] = Free
      /\ trouble.restarts \in Nat /\ trouble'.restarts = trouble.restarts + 1
  BY TroubleCounts DEF Restart, SendersIInv, ShapeOK, TypeOK
<1>2. ASSUME NEW g \in Hosts, NEW k \in Nat, Holds(g, k)' PROVE Holds(g, k)
  BY <1>1, <1>2 DEF Holds, Busy
<1>3. KeysOK'
  <2>1. \A h, n \in Hosts : nodes'[h] # 0 /\ nodes'[h] = nodes'[n] => h = n
    BY <1>1 DEF SendersIInv, KeysOK
  <2>2. trouble'.restarts # 0 /\ (trouble'.restarts < 2 => trouble.restarts = 0)
    BY <1>1
  <2>3. ASSUME trouble.restarts = 0, NEW h \in Hosts, NEW n \in Hosts, NEW k \in Nat,
               h # n, Holds(h, k)', Holds(n, k)'
        PROVE  FALSE
    BY <1>2, <2>3 DEF SendersIInv, KeysOK
  <2>4. QED
    BY <2>1, <2>2, <2>3 DEF KeysOK
<1>4. NamesOK'
  BY <1>1, FreeIsNoRequest DEF NamesOK
<1>5. RowsAreTheSenders'
  BY <1>1 DEF SendersIInv, RowsAreTheSenders
<1>6. QED
  BY <1>3, <1>4, <1>5 DEF SendersIInv

LEMMA SendersStep == SendersIInv /\ [Next]_vars => SendersIInv'
<1> SUFFICES ASSUME SendersIInv, [Next]_vars PROVE SendersIInv'
  OBVIOUS
<1>0. ShapeOK'
  BY ShapeStep DEF SendersIInv
<1>1. ASSUME NEW h \in Hosts, Config(h) \/ DeleteNode(h) \/ Log(h) \/ GiveUp(h)
      PROVE  SendersIInv'
  BY <1>0, <1>1, CalmSenders
<1>2. ASSUME NEW h \in Hosts, Enroll(h) PROVE SendersIInv'
  BY <1>0, <1>2, EnrollSenders
<1>3. ASSUME NEW h \in Hosts, NEW s \in Slots, Send(h, s) PROVE SendersIInv'
  BY <1>0, <1>3, SendSenders
<1>4. ASSUME NEW s \in Slots, Lookup(s) \/ Validate(s) PROVE SendersIInv'
  BY <1>0, <1>4, LookupSenders
<1>5. ASSUME NEW s \in Slots, Insert(s) \/ Skip(s) \/ Throw(s) \/ Fail(s) PROVE SendersIInv'
  BY <1>0, <1>5, StoreSenders
<1>6. ASSUME NEW s \in Slots, Reply(s) PROVE SendersIInv'
  BY <1>0, <1>6, ReplySenders
<1>7. CASE Restart
  BY <1>0, <1>7, RestartSenders
<1>8. CASE UNCHANGED vars
  BY <1>0, <1>8 DEF vars, agents, SendersIInv, KeysOK, NamesOK, RowsAreTheSenders, Holds, Busy
<1>9. QED
  BY <1>1, <1>2, <1>3, <1>4, <1>5, <1>6, <1>7, <1>8 DEF Next, Serve

(* logger stores an event under the host it comes from, and under that     *)
(* host's name while the process started over at most once, whatever keys  *)
(* went to other hosts, for any number of hosts and handlers.              *)
THEOREM SendersRight == Spec => []RowsAreTheSenders
<1>1. SendersIInv => RowsAreTheSenders
  BY DEF SendersIInv
<1>2. QED
  BY <1>1, SendersInit, SendersStep, PTL DEF Spec

-----------------------------------------------------------------------------

(* Entry e of host h has been through the loop of a request that its agent *)
(* has, or still may have, an answer to.                                   *)
Served(h, e) == e <= sent[h] \/ (Waiting(h) /\ e < session[asked[h]].next)

(* While no answer is lost every handler is one that its agent waits for,  *)
(* so no entry gets into a second request once the loop went over it.      *)
OnceOK ==
  trouble.timeouts = 0 /\ trouble.restarts = 0 =>
    /\ \A s \in Slots : Busy(s) => asked[session[s].from] = s
    /\ \A n \in DOMAIN rows : Served(rows[n].from, rows[n].entry)
    /\ \A m, n \in DOMAIN rows :
         rows[m].from = rows[n].from /\ rows[m].entry = rows[n].entry => m = n

OnceIInv == ShapeOK /\ OnceOK

LEMMA OnceInit == Init => OnceIInv
<1> SUFFICES ASSUME Init PROVE OnceIInv
  OBVIOUS
<1>1. OnceOK
  BY DEF Init, OnceOK, Busy
<1>2. QED
  BY <1>1, ShapeInit DEF OnceIInv

LEMMA RowsTyped ==
  ASSUME TypeOK, NEW n \in DOMAIN rows
  PROVE  rows[n].from \in Hosts /\ rows[n].entry \in Nat
<1>1. rows \in Seq([from : Hosts, entry : Nat, host : Hosts, name : Hosts])
  BY DEF TypeOK
<1>2. rows[n] \in [from : Hosts, entry : Nat, host : Hosts, name : Hosts]
  BY <1>1, ElementOfSeq, LenProperties
<1>3. QED
  BY <1>2

(* A step of the handler s that stores nothing.                            *)
LEMMA OnceMove ==
  ASSUME OnceIInv, ShapeOK', NEW s \in Slots, Busy(s), NEW r \in Requests, Becomes(s, r),
         r.from = session[s].from, r.next \in {session[s].next, session[s].next + 1},
         UNCHANGED agents,
         trouble'.timeouts = trouble.timeouts /\ trouble'.restarts = trouble.restarts
  PROVE  /\ rows' = rows => OnceOK'
         /\ trouble.timeouts = 0 /\ trouble.restarts = 0 =>
              /\ \A q \in Slots : Busy(q)' => asked'[session'[q].from] = q
              /\ \A h \in Hosts, e \in Nat : Served(h, e) => Served(h, e)'
<1>1. /\ session'[s] = r /\ \A q \in Slots : q # s => session'[q] = session[q]
      /\ UNCHANGED <<agentKey, asked, made, sent>>
  BY DEF Becomes, agents, OnceIInv, ShapeOK, TypeOK
<1>2. ASSUME trouble.timeouts = 0, trouble.restarts = 0
      PROVE  \A q \in Slots : Busy(q)' => asked'[session'[q].from] = q
  <2> SUFFICES ASSUME NEW q \in Slots, Busy(q)' PROVE asked[session'[q].from] = q
    BY <1>1
  <2>1. Busy(q) /\ session'[q].from = session[q].from
    BY <1>1 DEF Busy
  <2>2. QED
    BY <1>2, <2>1 DEF OnceIInv, OnceOK
<1>3. \A h \in Hosts, e \in Nat : Served(h, e) => Served(h, e)'
  <2> SUFFICES ASSUME NEW h \in Hosts, NEW e \in Nat, Waiting(h), e < session[asked[h]].next
               PROVE  e < session'[asked[h]].next
    BY <1>1 DEF Served, Waiting
  <2>1. asked[h] \in Slots /\ session[asked[h]] \in Requests
    <3>1. TypeOK /\ AskedOK(h)
      BY DEF OnceIInv, ShapeOK
    <3>2. asked[h] \in Slots
      BY <3>1 DEF TypeOK, Waiting
    <3>3. Busy(asked[h])
      BY <3>1 DEF AskedOK
    <3>4. QED
      BY <3>1, <3>2, <3>3, BusyPc
  <2>2. session[asked[h]].next \in Nat
    BY <2>1 DEF Requests
  <2>3. CASE asked[h] = s
    BY <1>1, <2>2, <2>3
  <2>4. CASE asked[h] # s
    BY <1>1, <2>1, <2>4
  <2>5. QED
    BY <2>3, <2>4
<1>4. ASSUME rows' = rows, trouble.timeouts = 0, trouble.restarts = 0
      PROVE  \A n \in DOMAIN rows : Served(rows[n].from, rows[n].entry)'
  <2> SUFFICES ASSUME NEW n \in DOMAIN rows PROVE Served(rows[n].from, rows[n].entry)'
    OBVIOUS
  <2>1. rows[n].from \in Hosts /\ rows[n].entry \in Nat
    BY RowsTyped DEF OnceIInv, ShapeOK
  <2>2. Served(rows[n].from, rows[n].entry)
    BY <1>4 DEF OnceIInv, OnceOK
  <2>3. QED
    BY <1>3, <1>4, <2>1, <2>2 DEF Served, Waiting
<1>5. QED
  BY <1>2, <1>3, <1>4 DEF OnceIInv, OnceOK

LEMMA OnceAnswer ==
  ASSUME OnceIInv, ShapeOK', NEW s \in Slots,
         Lookup(s) \/ Validate(s) \/ Skip(s) \/ Throw(s) \/ Fail(s)
  PROVE  OnceIInv'
<1> DEFINE rec == session[s]
<1>1. rec \in Requests /\ Busy(s) /\ rec.next + 1 \in Nat
  <2>1. rec.pc \in {"lookup", "validate", "store"}
    BY DEF Lookup, Validate, Skip, Throw, Fail, Turn
  <2>2. QED
    BY <2>1, BusyTyped DEF OnceIInv, ShapeOK, Requests
<1>2. /\ UNCHANGED <<rows, agents>>
      /\ trouble'.timeouts = trouble.timeouts /\ trouble'.restarts = trouble.restarts
  <2>1. CASE Fail(s)
    BY <2>1, TroubleCounts DEF Fail, OnceIInv, ShapeOK
  <2>2. CASE ~ Fail(s)
    BY <2>2 DEF Lookup, Validate, Skip, Throw
  <2>3. QED
    BY <2>1, <2>2
<1>3. PICK r \in Requests : /\ Becomes(s, r) /\ r.from = rec.from
                            /\ r.next \in {rec.next, rec.next + 1}
  <2>1. ASSUME NEW st \in {"null", "valid", "invalid"}, Answer(s, st)
        PROVE  \E r \in Requests : /\ Becomes(s, r) /\ r.from = rec.from
                                   /\ r.next \in {rec.next, rec.next + 1}
    <3> DEFINE r == [rec EXCEPT !.pc = "reply", !.status = st]
    <3>1. r \in Requests /\ r.from = rec.from /\ r.next = rec.next
      BY <1>1 DEF Requests
    <3>2. Becomes(s, r)
      BY <2>1 DEF Answer
    <3> HIDE DEF r
    <3>3. QED
      BY <3>1, <3>2
  <2>2. ASSUME NEW h \in Hosts, Becomes(s, [rec EXCEPT !.pc = "validate", !.name = h])
        PROVE  \E r \in Requests : /\ Becomes(s, r) /\ r.from = rec.from
                                   /\ r.next \in {rec.next, rec.next + 1}
    <3> DEFINE r == [rec EXCEPT !.pc = "validate", !.name = h]
    <3>1. r \in Requests /\ r.from = rec.from /\ r.next = rec.next /\ Becomes(s, r)
      BY <1>1, <2>2 DEF Requests
    <3> HIDE DEF r
    <3>2. QED
      BY <3>1
  <2>3. ASSUME NEW h \in Hosts,
               Becomes(s, [rec EXCEPT !.pc = "store", !.host = h, !.status = "valid"])
        PROVE  \E r \in Requests : /\ Becomes(s, r) /\ r.from = rec.from
                                   /\ r.next \in {rec.next, rec.next + 1}
    <3> DEFINE r == [rec EXCEPT !.pc = "store", !.host = h, !.status = "valid"]
    <3>1. r \in Requests /\ r.from = rec.from /\ r.next = rec.next /\ Becomes(s, r)
      BY <1>1, <2>3 DEF Requests
    <3> HIDE DEF r
    <3>2. QED
      BY <3>1
  <2>4. ASSUME Advance(s)
        PROVE  \E r \in Requests : /\ Becomes(s, r) /\ r.from = rec.from
                                   /\ r.next \in {rec.next, rec.next + 1}
    <3> DEFINE r == [rec EXCEPT !.next = @ + 1]
    <3>1. r \in Requests /\ r.from = rec.from /\ r.next = rec.next + 1
      BY <1>1 DEF Requests
    <3>2. Becomes(s, r)
      BY <2>4 DEF Advance
    <3> HIDE DEF r
    <3>3. QED
      BY <3>1, <3>2
  <2>5. CASE Lookup(s)
    BY <2>1, <2>2, <2>5 DEF Lookup, Owner
  <2>6. CASE Validate(s)
    BY <2>1, <2>3, <2>6 DEF Validate, Owner
  <2>7. CASE Skip(s)
    BY <2>4, <2>7 DEF Skip
  <2>8. CASE Throw(s) \/ Fail(s)
    BY <2>1, <2>8 DEF Throw, Fail
  <2>9. QED
    BY <2>5, <2>6, <2>7, <2>8
<1>4. QED
  BY <1>1, <1>2, <1>3, OnceMove DEF OnceIInv

LEMMA OnceInsert ==
  ASSUME OnceIInv, ShapeOK', NEW s \in Slots, Insert(s)
  PROVE  OnceIInv'
<1> DEFINE rec == session[s]  r == [rec EXCEPT !.next = @ + 1]  h == rec.from
<1>1. /\ rec \in Requests /\ Busy(s) /\ SessionOK(s) /\ rec.next \in Nat /\ h \in Hosts
      /\ rec.pc = "store"
  BY BusyTyped DEF Insert, Turn, OnceIInv, ShapeOK, Requests
<1>2. /\ r \in Requests /\ r.from = h /\ r.next = rec.next + 1
  BY <1>1 DEF Requests
<1>3. Becomes(s, r) /\ UNCHANGED <<agents, trouble>> /\ rows' = Append(rows, Row(s))
  BY DEF Insert, Advance
<1>4. /\ Row(s) \in [from : Hosts, entry : Nat, host : Hosts, name : Hosts]
      /\ rows \in Seq([from : Hosts, entry : Nat, host : Hosts, name : Hosts])
      /\ Row(s).from = h /\ Row(s).entry = rec.next
  BY <1>1 DEF Row, Requests, SessionOK, OnceIInv, ShapeOK, TypeOK
<1>5. /\ DOMAIN rows' = 1..Len(rows) + 1 /\ Len(rows) \in Nat /\ DOMAIN rows = 1..Len(rows)
      /\ rows'[Len(rows) + 1] = Row(s)
      /\ \A n \in DOMAIN rows : rows'[n] = rows[n]
  BY <1>3, <1>4
<1>6. session'[s] = r /\ UNCHANGED <<asked, sent>>
  BY <1>3 DEF Becomes, agents, OnceIInv, ShapeOK, TypeOK
<1> HIDE DEF r, rec, h
<1>7. SUFFICES ASSUME trouble.timeouts = 0, trouble.restarts = 0 PROVE OnceOK'
  BY <1>3 DEF OnceIInv, OnceOK
<1>8. /\ \A q \in Slots : Busy(q)' => asked'[session'[q].from] = q
      /\ \A g \in Hosts, e \in Nat : Served(g, e) => Served(g, e)'
  BY <1>1, <1>2, <1>3, <1>7, OnceMove DEF rec, h
<1>9. asked[h] = s /\ s # "none" /\ sent[h] \in Nat /\ Waiting(h) /\ rec.next > sent[h]
  <2>1. asked[h] = s /\ s # "none" /\ sent[h] \in Nat /\ Waiting(h)
    <3>1. asked[session[s].from] = s
      BY <1>1, <1>7 DEF OnceIInv, OnceOK
    <3>2. sent[h] \in Nat
      BY <1>1 DEF OnceIInv, ShapeOK, TypeOK
    <3>3. QED
      BY <3>1, <3>2, IngestAssumption DEF rec, h, Waiting
  <2>2. AskedOK(h)
    BY <1>1, <2>1 DEF OnceIInv, ShapeOK
  <2>3. QED
    BY <2>1, <2>2 DEF AskedOK, rec
<1>10. \A n \in DOMAIN rows : /\ rows[n].from \in Hosts /\ rows[n].entry \in Nat
                              /\ Served(rows[n].from, rows[n].entry)
  BY <1>7, RowsTyped DEF OnceIInv, OnceOK, ShapeOK
<1>11. ASSUME NEW n \in DOMAIN rows', NEW g \in Hosts, NEW e \in Nat,
              rows'[n].from = g, rows'[n].entry = e
       PROVE  Served(g, e)'
  <2>1. CASE n \in DOMAIN rows
    BY <1>5, <1>8, <1>10, <1>11, <2>1
  <2>2. CASE n = Len(rows) + 1
    <3>1. g = h /\ e = rec.next /\ e < session'[asked'[h]].next /\ asked'[h] # "none"
      BY <1>1, <1>2, <1>4, <1>5, <1>6, <1>9, <1>11, <2>2
    <3>2. QED
      BY <3>1 DEF Served, Waiting
  <2>3. QED
    BY <1>5, <2>1, <2>2
<1>12. \A n \in DOMAIN rows : ~ (rows[n].from = h /\ rows[n].entry = rec.next)
  BY <1>1, <1>9, <1>10 DEF Served, rec
<1>13. \A m, n \in DOMAIN rows' :
         rows'[m].from = rows'[n].from /\ rows'[m].entry = rows'[n].entry => m = n
  BY <1>4, <1>5, <1>7, <1>12 DEF OnceIInv, OnceOK
<1>14. \A n \in DOMAIN rows' : rows'[n].from \in Hosts /\ rows'[n].entry \in Nat
  BY <1>1, <1>4, <1>5, <1>10
<1>15. QED
  BY <1>8, <1>11, <1>13, <1>14 DEF OnceOK, Served, Waiting

LEMMA OnceReply ==
  ASSUME OnceIInv, ShapeOK', NEW s \in Slots, Reply(s)
  PROVE  OnceIInv'
<1> DEFINE rec == session[s]  h == rec.from
<1>1. /\ rec \in Requests /\ Busy(s) /\ SessionOK(s) /\ h \in Hosts
      /\ rec.next \in Nat /\ rec.last \in Nat
  BY BusyTyped DEF Reply, Complete, OnceIInv, ShapeOK, Requests
<1>2. SUFFICES ASSUME trouble.timeouts = 0, trouble.restarts = 0 PROVE OnceOK'
  BY DEF Reply, OnceIInv, OnceOK
<1>3. asked[h] = s /\ Receive(h, s) /\ session' = [session EXCEPT ![s] = Free]
      /\ UNCHANGED rows
  BY <1>1, <1>2 DEF Reply, OnceIInv, OnceOK, Becomes
<1> HIDE DEF rec, h
<1>4. /\ sent \in [Hosts -> Nat] /\ asked \in [Hosts -> Slots \cup {"none"}]
      /\ session \in [Slots -> Requests \cup {Free}]
  BY DEF OnceIInv, ShapeOK, TypeOK
<1>5. Waiting(h) /\ AskedOK(h)
  BY <1>1, <1>3, IngestAssumption DEF Waiting, OnceIInv, ShapeOK
<1>6. /\ asked' = [asked EXCEPT ![h] = "none"]
      /\ \/ sent' = [sent EXCEPT ![h] = rec.last]
         \/ sent' = sent /\ rec.status # "valid"
  BY <1>3 DEF Receive, rec
<1>7. \A q \in Slots : Busy(q)' => asked'[session'[q].from] = q
  <2> SUFFICES ASSUME NEW q \in Slots, Busy(q)' PROVE asked'[session'[q].from] = q
    OBVIOUS
  <2>1. q # s /\ session'[q] = session[q] /\ Busy(q)
    BY <1>3, <1>4 DEF Busy
  <2>2. asked[session[q].from] = q /\ session[q].from \in Hosts
    BY <1>2, <2>1, BusyPc DEF OnceIInv, OnceOK, ShapeOK, Requests
  <2>3. session[q].from # h
    BY <1>3, <2>1, <2>2
  <2>4. QED
    BY <1>4, <1>6, <2>1, <2>2, <2>3
<1>8. ASSUME NEW g \in Hosts, NEW e \in Nat, Served(g, e) PROVE Served(g, e)'
  <2>1. CASE g # h
    <3>1. sent'[g] = sent[g] /\ asked'[g] = asked[g]
      BY <1>1, <1>4, <1>6, <2>1
    <3>2. Waiting(g) => asked[g] \in Slots /\ asked[g] # s
      BY <1>4, <2>1 DEF Waiting, AskedOK, OnceIInv, ShapeOK, h, rec
    <3>3. Waiting(g) => session'[asked[g]] = session[asked[g]]
      BY <1>3, <1>4, <3>2
    <3>4. QED
      BY <1>8, <3>1, <3>3 DEF Served, Waiting
  <2>2. CASE g = h
    <3>1. sent[h] \in Nat /\ (e <= sent[h] \/ e < rec.next)
      BY <1>1, <1>3, <1>4, <1>8, <2>2 DEF Served, rec
    <3>2. /\ rec.last >= sent[h] /\ rec.next <= rec.last + 1
          /\ rec.status # "valid" => rec.next = sent[h] + 1
      BY <1>1, <1>3, <1>5 DEF AskedOK, SessionOK, rec
    <3>3. e <= sent'[h]
      <4>1. CASE sent' = [sent EXCEPT ![h] = rec.last]
        BY <1>1, <1>4, <3>1, <3>2, <4>1
      <4>2. CASE sent' = sent /\ rec.status # "valid"
        BY <1>1, <3>1, <3>2, <4>2
      <4>3. QED
        BY <1>6, <4>1, <4>2
    <3>4. QED
      BY <2>2, <3>3 DEF Served
  <2>3. QED
    BY <2>1, <2>2
<1>9. \A n \in DOMAIN rows : /\ rows[n].from \in Hosts /\ rows[n].entry \in Nat
                             /\ Served(rows[n].from, rows[n].entry)
  BY <1>2, RowsTyped DEF OnceIInv, OnceOK, ShapeOK
<1>10. \A m, n \in DOMAIN rows :
         rows[m].from = rows[n].from /\ rows[m].entry = rows[n].entry => m = n
  BY <1>2 DEF OnceIInv, OnceOK
<1>11. QED
  BY <1>3, <1>7, <1>8, <1>9, <1>10 DEF OnceOK, Served, Waiting

LEMMA OnceSend ==
  ASSUME OnceIInv, ShapeOK', NEW h \in Hosts, NEW s \in Slots, Send(h, s)
  PROVE  OnceIInv'
<1>1. PICK r : /\ Becomes(s, r) /\ r.pc = "lookup" /\ r.from = h /\ r.next = sent[h] + 1
  BY DEF Send
<1>2. /\ session'[s] = r /\ \A q \in Slots : q # s => session'[q] = session[q]
      /\ session[s] = Free /\ ~ Waiting(h)
      /\ asked'[h] = s /\ \A g \in Hosts : g # h => asked'[g] = asked[g]
      /\ UNCHANGED <<rows, sent, trouble>>
  BY <1>1 DEF Becomes, Send, OnceIInv, ShapeOK, TypeOK
<1>3. SUFFICES ASSUME trouble.timeouts = 0, trouble.restarts = 0 PROVE OnceOK'
  BY <1>2 DEF OnceIInv, OnceOK
<1>4. \A q \in Slots : Busy(q)' => asked'[session'[q].from] = q
  <2> SUFFICES ASSUME NEW q \in Slots, Busy(q)', q # s PROVE asked'[session'[q].from] = q
    BY <1>1, <1>2
  <2>1. session'[q] = session[q] /\ Busy(q)
    BY <1>2 DEF Busy
  <2>2. asked[session[q].from] = q /\ session[q].from \in Hosts
    BY <1>3, <2>1, BusyPc DEF OnceIInv, OnceOK, ShapeOK, Requests
  <2>3. session[q].from # h
    BY <1>2, <2>2, IngestAssumption DEF Waiting
  <2>4. QED
    BY <1>2, <2>1, <2>2, <2>3
<1>5. ASSUME NEW g \in Hosts, NEW e \in Nat, Served(g, e) PROVE Served(g, e)'
  <2>1. e <= sent[g] \/ g # h
    BY <1>2, <1>5 DEF Served
  <2>2. Waiting(g) => asked[g] \in Slots /\ asked[g] # s
    BY <1>2 DEF Waiting, AskedOK, Busy, OnceIInv, ShapeOK, TypeOK
  <2>3. QED
    BY <1>2, <1>5, <2>1, <2>2 DEF Served, Waiting
<1>6. \A n \in DOMAIN rows : /\ rows[n].from \in Hosts /\ rows[n].entry \in Nat
                             /\ Served(rows[n].from, rows[n].entry)
  BY <1>3, RowsTyped DEF OnceIInv, OnceOK, ShapeOK
<1>7. \A m, n \in DOMAIN rows :
         rows[m].from = rows[n].from /\ rows[m].entry = rows[n].entry => m = n
  BY <1>3 DEF OnceIInv, OnceOK
<1>8. QED
  BY <1>2, <1>4, <1>5, <1>6, <1>7 DEF OnceOK, Served, Waiting

LEMMA OnceStep == OnceIInv /\ [Next]_vars => OnceIInv'
<1> SUFFICES ASSUME OnceIInv, [Next]_vars PROVE OnceIInv'
  OBVIOUS
<1>0. ShapeOK'
  BY ShapeStep DEF OnceIInv
<1>1. ASSUME UNCHANGED <<rows, session, asked, sent>>,
             trouble'.timeouts = trouble.timeouts, trouble'.restarts = trouble.restarts
      PROVE  OnceIInv'
  BY <1>0, <1>1 DEF OnceIInv, OnceOK, Busy, Served, Waiting
<1>2. ASSUME NEW h \in Hosts, Enroll(h) \/ Config(h) \/ DeleteNode(h) \/ Log(h)
      PROVE  OnceIInv'
  <2>1. CASE DeleteNode(h)
    BY <1>1, <2>1, TroubleCounts DEF DeleteNode, agents, OnceIInv, ShapeOK
  <2>2. CASE Enroll(h) \/ Config(h) \/ Log(h)
    BY <1>1, <2>2 DEF Enroll, Config, Log
  <2>3. QED
    BY <1>2, <2>1, <2>2
<1>3. ASSUME NEW h \in Hosts, GiveUp(h) PROVE OnceIInv'
  <2>1. trouble'.timeouts = trouble.timeouts + 1 /\ trouble.timeouts \in Nat
    BY <1>3, TroubleCounts DEF GiveUp, OnceIInv, ShapeOK, TypeOK
  <2>2. QED
    BY <1>0, <2>1 DEF OnceIInv, OnceOK
<1>4. CASE Restart
  <2>1. trouble'.restarts = trouble.restarts + 1 /\ trouble.restarts \in Nat
    BY <1>4, TroubleCounts DEF Restart, OnceIInv, ShapeOK, TypeOK
  <2>2. QED
    BY <1>0, <2>1 DEF OnceIInv, OnceOK
<1>5. ASSUME NEW h \in Hosts, NEW s \in Slots, Send(h, s) PROVE OnceIInv'
  BY <1>0, <1>5, OnceSend
<1>6. ASSUME NEW s \in Slots, Lookup(s) \/ Validate(s) \/ Skip(s) \/ Throw(s) \/ Fail(s)
      PROVE  OnceIInv'
  BY <1>0, <1>6, OnceAnswer
<1>7. ASSUME NEW s \in Slots, Insert(s) PROVE OnceIInv'
  BY <1>0, <1>7, OnceInsert
<1>8. ASSUME NEW s \in Slots, Reply(s) PROVE OnceIInv'
  BY <1>0, <1>8, OnceReply
<1>9. CASE UNCHANGED vars
  BY <1>1, <1>9 DEF vars, agents
<1>10. QED
  BY <1>2, <1>3, <1>4, <1>5, <1>6, <1>7, <1>8, <1>9 DEF Next, Serve

(* logger stores an event twice only after a timeout or a restart, however *)
(* many agents, requests and errors there are.                             *)
THEOREM StoredOnce == Spec => []TwiceNeedsLostAnswer
<1>1. OnceIInv => TwiceNeedsLostAnswer
  <2> SUFFICES ASSUME OnceIInv, NEW m \in DOMAIN rows, NEW n \in DOMAIN rows,
                      m < n, rows[m] = rows[n]
               PROVE  trouble.timeouts > 0 \/ trouble.restarts > 0
    BY DEF TwiceNeedsLostAnswer
  <2>1. trouble.timeouts \in Nat /\ trouble.restarts \in Nat
    BY DEF OnceIInv, ShapeOK, TypeOK
  <2>2. m # n
    BY DEF OnceIInv, ShapeOK, TypeOK
  <2>3. QED
    BY <2>1, <2>2 DEF OnceIInv, OnceOK
<1>2. QED
  BY <1>1, OnceInit, OnceStep, PTL DEF Spec

-----------------------------------------------------------------------------

(* What becomes of entry i of host h without an error or a delete.         *)
Fine(h, i) ==
  KindOf(h, i) = "sound" =>
    \/ Stored(h, i)
    \/ \E j \in 1..i - 1 : KindOf(h, j) = "bad" /\ i - j < MaxBatch

(* The last entry that is settled, for a request at r.                     *)
Reached(r) == IF r.pc = "reply" THEN r.last ELSE r.next - 1

(* While no node is deleted an agent's key, and that in its requests, is   *)
(* the one in its own row.                                                 *)
KeptOK ==
  trouble.deletes = 0 =>
    /\ \A h \in Hosts : agentKey[h] # 0 => nodes[h] = agentKey[h]
    /\ \A h, n \in Hosts : nodes[h] # 0 /\ nodes[h] = nodes[n] => h = n
    /\ \A s \in Slots : Busy(s) =>
         /\ session[s].key = agentKey[session[s].from]
         /\ session[s].status # "invalid"
         /\ session[s].pc = "store" => session[s].host = session[s].from

StoredOK ==
  trouble.faults = 0 /\ trouble.deletes = 0 =>
    /\ \A s \in Slots : Busy(s) /\ session[s].pc = "reply" => session[s].status = "valid"
    /\ \A h \in Hosts : \A i \in 1..sent[h] : Fine(h, i)
    /\ \A h \in Hosts : Waiting(h) =>
         \A i \in 1..Reached(session[asked[h]]) : Fine(h, i)

LostIInv == ShapeOK /\ KeptOK /\ StoredOK

LEMMA LostInit == Init => LostIInv
<1> SUFFICES ASSUME Init PROVE LostIInv
  OBVIOUS
<1>1. KeptOK
  BY DEF Init, KeptOK, Busy
<1>2. StoredOK
  BY DEF Init, StoredOK, Busy, Waiting
<1>3. QED
  BY <1>1, <1>2, ShapeInit DEF LostIInv

LEMMA FineStays ==
  ASSUME TypeOK, NEW x \in [from : Hosts, entry : Nat, host : Hosts, name : Hosts],
         rows' = rows \/ rows' = Append(rows, x),
         NEW h \in Hosts, NEW i \in Nat, Fine(h, i)
  PROVE  Fine(h, i)'
<1> DEFINE Rows == [from : Hosts, entry : Nat, host : Hosts, name : Hosts]
<1>1. rows \in Seq(Rows) /\ x \in Rows
  BY DEF TypeOK
<1> HIDE DEF Rows
<1>2. \A n \in DOMAIN rows : n \in DOMAIN rows' /\ rows'[n] = rows[n]
  <2>1. CASE rows' = Append(rows, x)
    <3>1. /\ Len(rows) \in Nat /\ DOMAIN rows = 1..Len(rows)
          /\ DOMAIN Append(rows, x) = 1..Len(rows) + 1
          /\ \A n \in 1..Len(rows) : Append(rows, x)[n] = rows[n]
      BY <1>1
    <3>2. QED
      BY <2>1, <3>1
  <2>2. QED
    BY <2>1
<1>3. Stored(h, i) => Stored(h, i)'
  BY <1>2 DEF Stored
<1>4. QED
  BY <1>3 DEF Fine, KindOf

(* A handler's step, for whatever the handler has become.                  *)
LEMMA LostMove ==
  ASSUME LostIInv, ShapeOK', NEW s \in Slots, Busy(s), NEW r \in Requests, Becomes(s, r),
         r.from = session[s].from, r.key = session[s].key,
         UNCHANGED <<nodes, agents>>,
         NEW x \in [from : Hosts, entry : Nat, host : Hosts, name : Hosts],
         rows' = rows \/ rows' = Append(rows, x),
         trouble'.deletes = trouble.deletes,
         trouble'.faults = 0 => trouble.faults = 0,
         trouble.deletes = 0 =>
           r.status # "invalid" /\ (r.pc = "store" => r.host = r.from),
         trouble'.faults = 0 /\ trouble.deletes = 0 =>
           /\ r.pc = "reply" => r.status = "valid"
           /\ asked[r.from] = s => \A i \in 1..Reached(r) : Fine(r.from, i)'
  PROVE  LostIInv'
<1>1. /\ session'[s] = r /\ \A q \in Slots : q # s => session'[q] = session[q]
      /\ UNCHANGED <<nodes, agentKey, asked, made, sent>>
      /\ session[s] \in Requests
  BY BusyPc DEF Becomes, agents, LostIInv, ShapeOK, TypeOK
<1>2. KeptOK'
  <2> SUFFICES ASSUME trouble.deletes = 0, NEW q \in Slots, Busy(q)'
               PROVE  /\ session'[q].key = agentKey[session'[q].from]
                      /\ session'[q].status # "invalid"
                      /\ session'[q].pc = "store" => session'[q].host = session'[q].from
    BY <1>1 DEF LostIInv, KeptOK
  <2>1. CASE q = s
    BY <1>1, <2>1 DEF LostIInv, KeptOK
  <2>2. CASE q # s
    BY <1>1, <2>2 DEF LostIInv, KeptOK, Busy
  <2>3. QED
    BY <2>1, <2>2
<1>3. ASSUME trouble'.faults = 0, trouble.deletes = 0, NEW h \in Hosts,
             NEW i \in Nat, Fine(h, i)
      PROVE  Fine(h, i)'
  BY <1>3, FineStays DEF LostIInv, ShapeOK
<1>4. StoredOK'
  <2> SUFFICES ASSUME trouble'.faults = 0, trouble.deletes = 0 PROVE StoredOK'
    BY DEF StoredOK
  <2>1. \A q \in Slots : Busy(q)' /\ session'[q].pc = "reply" => session'[q].status = "valid"
    BY <1>1 DEF LostIInv, StoredOK, Busy
  <2>2. ASSUME NEW h \in Hosts, NEW i \in 1..sent[h] PROVE Fine(h, i)'
    <3>1. sent[h] \in Nat /\ i \in Nat /\ Fine(h, i)
      BY <2>2 DEF LostIInv, StoredOK, ShapeOK, TypeOK
    <3>2. QED
      BY <1>3, <3>1
  <2>3. ASSUME NEW h \in Hosts, Waiting(h), NEW i \in 1..Reached(session'[asked[h]])
        PROVE  Fine(h, i)'
    <3>1. AskedOK(h) /\ asked[h] \in Slots
      BY <2>3 DEF LostIInv, ShapeOK, TypeOK, Waiting
    <3>2. CASE asked[h] = s
      BY <1>1, <2>3, <3>1, <3>2 DEF AskedOK
    <3>3. CASE asked[h] # s
      <4>1. session[asked[h]] \in Requests /\ session'[asked[h]] = session[asked[h]]
        BY <1>1, <3>1, <3>3, BusyPc DEF AskedOK, LostIInv, ShapeOK
      <4>2. i \in Nat
        BY <4>1 DEF Reached, Requests
      <4>3. Fine(h, i)
        BY <2>3, <4>1 DEF LostIInv, StoredOK
      <4>4. QED
        BY <1>3, <4>2, <4>3
    <3>4. QED
      BY <3>2, <3>3
  <2>4. \A h \in Hosts : Waiting(h)' <=> Waiting(h)
    BY <1>1 DEF Waiting
  <2>5. \A h \in Hosts : \A i \in 1..sent'[h] : Fine(h, i)'
    BY <1>1, <2>2
  <2>6. \A h \in Hosts : Waiting(h)' =>
          \A i \in 1..Reached(session'[asked'[h]]) : Fine(h, i)'
    BY <1>1, <2>3, <2>4
  <2>7. QED
    BY <2>1, <2>5, <2>6 DEF StoredOK, Busy, Reached
<1>5. QED
  BY <1>2, <1>4 DEF LostIInv

LEMMA LookupLost ==
  ASSUME LostIInv, ShapeOK', NEW s \in Slots, Lookup(s) \/ Validate(s)
  PROVE  LostIInv'
<1> DEFINE rec == session[s]
<1>1. /\ rec \in Requests /\ Busy(s) /\ SessionOK(s) /\ rec.from \in Hosts
      /\ rec.key \in Nat /\ rec.key # 0 /\ rec.next \in Nat /\ rec.pc # "reply"
  <2>1. rec.pc \in {"lookup", "validate"}
    BY DEF Lookup, Validate
  <2>2. QED
    BY <2>1, BusyTyped DEF LostIInv, ShapeOK, SessionOK, Requests
<1>2. UNCHANGED <<nodes, rows, agents, trouble>>
  BY DEF Lookup, Validate
<1>3. PICK x : x \in [from : Hosts, entry : Nat, host : Hosts, name : Hosts]
  <2>1. [from |-> rec.from, entry |-> 0, host |-> rec.from, name |-> rec.from]
          \in [from : Hosts, entry : Nat, host : Hosts, name : Hosts]
    BY <1>1
  <2>2. QED
    BY <2>1
<1>4. trouble.deletes = 0 => Owner(rec.key) = {rec.from}
  BY <1>1 DEF LostIInv, KeptOK, Owner
<1>5. trouble.faults = 0 /\ trouble.deletes = 0 /\ asked[rec.from] = s =>
        \A i \in 1..rec.next - 1 : Fine(rec.from, i)
  <2> SUFFICES ASSUME trouble.faults = 0, trouble.deletes = 0, asked[rec.from] = s
               PROVE  \A i \in 1..rec.next - 1 : Fine(rec.from, i)
    OBVIOUS
  <2>1. Waiting(rec.from)
    BY IngestAssumption DEF Waiting
  <2>2. QED
    BY <1>1, <2>1 DEF LostIInv, StoredOK, Reached
<1>6. ASSUME NEW r \in Requests, Becomes(s, r), r.from = rec.from, r.key = rec.key,
             r.next = rec.next,
             trouble.deletes = 0 =>
               /\ r.pc # "reply" /\ r.status # "invalid"
               /\ r.pc = "store" => r.host = r.from
      PROVE  LostIInv'
  <2>1. trouble.faults = 0 /\ trouble.deletes = 0 /\ asked[r.from] = s =>
          \A i \in 1..Reached(r) : Fine(r.from, i)'
    BY <1>2, <1>5, <1>6 DEF Reached, Fine, Stored, KindOf
  <2>2. QED
    BY <1>1, <1>2, <1>3, <1>6, <2>1, LostMove
<1>7. ASSUME NEW st \in {"null", "invalid"}, Answer(s, st), Owner(rec.key) = {}
      PROVE  LostIInv'
  <2> DEFINE r == [rec EXCEPT !.pc = "reply", !.status = st]
  <2>1. r \in Requests /\ r.from = rec.from /\ r.key = rec.key /\ r.next = rec.next
    BY <1>1 DEF Requests
  <2>2. Becomes(s, r) /\ trouble.deletes # 0
    BY <1>4, <1>7 DEF Answer
  <2> HIDE DEF r
  <2>3. QED
    BY <1>6, <2>1, <2>2
<1>8. CASE Lookup(s)
  <2>1. ASSUME NEW h \in Owner(rec.key),
               Becomes(s, [rec EXCEPT !.pc = "validate", !.name = h])
        PROVE  LostIInv'
    <3> DEFINE r == [rec EXCEPT !.pc = "validate", !.name = h]
    <3>1. h \in Hosts
      BY DEF Owner
    <3>2. /\ r \in Requests /\ r.from = rec.from /\ r.key = rec.key /\ r.next = rec.next
          /\ r.pc = "validate" /\ r.status = rec.status /\ Becomes(s, r)
      BY <1>1, <2>1, <3>1 DEF Requests
    <3>3. rec.status = "null"
      BY <1>1, <1>8 DEF Lookup, SessionOK
    <3> HIDE DEF r
    <3>4. QED
      BY <1>6, <3>2, <3>3
  <2>2. QED
    BY <1>7, <1>8, <2>1 DEF Lookup
<1>9. CASE Validate(s)
  <2>1. ASSUME NEW h \in Owner(rec.key),
               Becomes(s, [rec EXCEPT !.pc = "store", !.host = h, !.status = "valid"])
        PROVE  LostIInv'
    <3> DEFINE r == [rec EXCEPT !.pc = "store", !.host = h, !.status = "valid"]
    <3>1. h \in Hosts /\ (trouble.deletes = 0 => h = rec.from)
      BY <1>4, <2>1 DEF Owner
    <3>2. /\ r \in Requests /\ r.from = rec.from /\ r.key = rec.key /\ r.next = rec.next
          /\ r.pc = "store" /\ r.status = "valid" /\ r.host = h /\ Becomes(s, r)
      BY <1>1, <2>1, <3>1 DEF Requests
    <3> HIDE DEF r
    <3>3. QED
      BY <1>6, <3>1, <3>2
  <2>2. QED
    BY <1>7, <1>9, <2>1 DEF Validate
<1>10. QED
  BY <1>8, <1>9

LEMMA StoreLost ==
  ASSUME LostIInv, ShapeOK', NEW s \in Slots, Insert(s) \/ Skip(s) \/ Throw(s) \/ Fail(s)
  PROVE  LostIInv'
<1> DEFINE rec == session[s]
<1>1. /\ rec \in Requests /\ Busy(s) /\ SessionOK(s) /\ rec.from \in Hosts
      /\ rec.next \in Nat /\ rec.last \in Nat /\ rec.pc # "reply"
      /\ Fail(s) \/ (rec.pc = "store" /\ rec.next <= rec.last)
  <2>1. /\ rec.pc \in {"lookup", "validate", "store"}
        /\ Fail(s) \/ (rec.pc = "store" /\ rec.next <= rec.last)
    BY DEF Insert, Skip, Throw, Fail, Turn
  <2>2. rec \in Requests /\ Busy(s)
    BY <2>1, BusyTyped DEF LostIInv, ShapeOK
  <2>3. QED
    BY <2>1, <2>2 DEF LostIInv, ShapeOK, Requests
<1>2. UNCHANGED <<nodes, agents>>
  BY DEF Insert, Skip, Throw, Fail
<1>3. PICK x \in [from : Hosts, entry : Nat, host : Hosts, name : Hosts] :
        rows' = rows \/ (rows' = Append(rows, x) /\ Insert(s))
  <2>1. ASSUME rec.pc = "store", Insert(s)
        PROVE  Row(s) \in [from : Hosts, entry : Nat, host : Hosts, name : Hosts]
    BY <1>1, <2>1 DEF Row, Requests, SessionOK
  <2>2. [from |-> rec.from, entry |-> 0, host |-> rec.from, name |-> rec.from]
          \in [from : Hosts, entry : Nat, host : Hosts, name : Hosts]
    BY <1>1
  <2>3. CASE Insert(s)
    BY <2>1, <2>3 DEF Insert, Turn
  <2>4. CASE ~ Insert(s)
    BY <2>2, <2>4 DEF Skip, Throw, Fail
  <2>5. QED
    BY <2>3, <2>4
<1>4. trouble.deletes = 0 /\ rec.pc = "store" => Own(s)
  BY <1>1 DEF LostIInv, KeptOK, Own
<1> PICK h \in Hosts, m \in Nat : h = rec.from /\ m = rec.next
  BY <1>1
<1>5. ASSUME trouble.faults = 0, trouble.deletes = 0, asked[h] = s
      PROVE  \A i \in 1..m - 1 : Fine(h, i)'
  <2>1. Waiting(h)
    BY <1>5, IngestAssumption DEF Waiting
  <2>2. \A i \in 1..m - 1 : Fine(h, i)
    BY <1>1, <1>5, <2>1 DEF LostIInv, StoredOK, Reached
  <2>3. \A i \in Nat : Fine(h, i) => Fine(h, i)'
    BY <1>1, <1>3, FineStays DEF LostIInv, ShapeOK
  <2>4. QED
    BY <1>1, <2>2, <2>3
<1>6. CASE Insert(s) \/ Skip(s)
  <2>0. PICK r \in Requests : r = [rec EXCEPT !.next = @ + 1]
    <3>1. [rec EXCEPT !.next = m + 1] \in Requests
      BY <1>1 DEF Requests
    <3>2. QED
      BY <3>1
  <2>1. /\ Becomes(s, r) /\ rec.pc = "store" /\ rec.status = "valid"
        /\ UNCHANGED trouble
    BY <1>1, <1>6, <2>0 DEF Insert, Skip, Turn, Advance, SessionOK
  <2>2. /\ r.from = h /\ r.key = rec.key /\ r.pc = rec.pc
        /\ r.host = rec.host /\ r.status = rec.status /\ r.next = m + 1
    BY <1>1, <2>0 DEF Requests
  <2>3. ASSUME trouble.deletes = 0 PROVE Fine(h, m)'
    <3>1. CASE Skip(s)
      BY <1>4, <2>1, <2>3, <3>1 DEF Skip, Kind, Fine, KindOf
    <3>2. CASE Insert(s)
      <4>1. /\ rows \in Seq([from : Hosts, entry : Nat, host : Hosts, name : Hosts])
            /\ rows' = Append(rows, Row(s))
            /\ Row(s).from = h /\ Row(s).entry = m
        BY <3>2 DEF Insert, Row, LostIInv, ShapeOK, TypeOK
      <4>2. Len(rows) + 1 \in DOMAIN rows' /\ rows'[Len(rows) + 1] = Row(s)
        BY <4>1
      <4>3. QED
        BY <4>1, <4>2 DEF Fine, Stored
    <3>3. QED
      BY <1>6, <3>1, <3>2
  <2>4. trouble.faults = 0 /\ trouble.deletes = 0 =>
          (asked[r.from] = s => \A i \in 1..Reached(r) : Fine(r.from, i)')
    <3> SUFFICES ASSUME trouble.faults = 0, trouble.deletes = 0, asked[r.from] = s,
                        NEW i \in 1..Reached(r)
                 PROVE  Fine(h, i)'
      BY <2>2
    <3>1. i \in 1..m - 1 \/ i = m
      BY <1>1, <2>1, <2>2 DEF Reached
    <3>2. QED
      BY <1>5, <2>2, <2>3, <3>1
  <2>5. QED
    BY <1>1, <1>2, <1>3, <1>4, <2>1, <2>2, <2>4, LostMove DEF Own
<1>7. CASE Throw(s)
  <2>0. PICK r \in Requests : r = [rec EXCEPT !.pc = "reply", !.status = "valid"]
    BY <1>1 DEF Requests
  <2>1. Becomes(s, r) /\ UNCHANGED trouble /\ KindOf(h, m) = "bad" /\ m <= rec.last
    BY <1>7, <2>0 DEF Throw, Answer, Kind, Turn
  <2>2. /\ r.from = h /\ r.key = rec.key /\ r.pc = "reply"
        /\ r.status = "valid" /\ r.last = rec.last
    BY <1>1, <2>0 DEF Requests
  <2>3. trouble.faults = 0 /\ trouble.deletes = 0 =>
          (asked[r.from] = s => \A i \in 1..Reached(r) : Fine(r.from, i)')
    <3> SUFFICES ASSUME trouble.faults = 0, trouble.deletes = 0, asked[h] = s,
                        NEW i \in 1..rec.last
                 PROVE  Fine(h, i)'
      BY <2>2 DEF Reached
    <3>1. CASE i \in 1..m - 1
      BY <1>5, <3>1
    <3>2. CASE i = m
      BY <2>1, <3>2 DEF Fine, KindOf
    <3>3. CASE i > m
      <4>1. AskedOK(h) /\ asked[h] = s
        BY <1>1, IngestAssumption DEF LostIInv, ShapeOK, Waiting
      <4>2. /\ m > sent[h] /\ rec.last <= sent[h] + MaxBatch
            /\ sent[h] \in Nat /\ MaxBatch \in Nat
        BY <1>1, <4>1, IngestAssumption DEF AskedOK, LostIInv, ShapeOK, TypeOK
      <4> HIDE DEF rec
      <4>3. m \in 1..i - 1 /\ i - m < MaxBatch
        BY <1>1, <3>3, <4>2
      <4>4. QED
        BY <2>1, <4>3 DEF Fine, KindOf
    <3>4. QED
      BY <1>1, <3>1, <3>2, <3>3
  <2>4. QED
    BY <1>1, <1>2, <1>3, <2>1, <2>2, <2>3, LostMove
<1>8. CASE Fail(s)
  <2>1. PICK st \in {"null", "valid"} : Answer(s, st)
    BY <1>8 DEF Fail
  <2>0. PICK r \in Requests : r = [rec EXCEPT !.pc = "reply", !.status = st]
    BY <1>1 DEF Requests
  <2>2. /\ Becomes(s, r) /\ trouble'.deletes = trouble.deletes
        /\ trouble'.faults = trouble.faults + 1 /\ trouble.faults \in Nat
    BY <1>8, <2>0, <2>1, TroubleCounts DEF Answer, Fail, LostIInv, ShapeOK, TypeOK
  <2>3. /\ r.from = rec.from /\ r.key = rec.key /\ r.pc = "reply" /\ r.status = st
    BY <1>1, <2>0 DEF Requests
  <2>4. trouble'.faults # 0
    BY <2>2
  <2>5. QED
    BY <1>1, <1>2, <1>3, <2>2, <2>3, <2>4, LostMove
<1>9. QED
  BY <1>6, <1>7, <1>8

LEMMA ReplyLost ==
  ASSUME LostIInv, ShapeOK', NEW s \in Slots, Reply(s)
  PROVE  LostIInv'
<1> DEFINE rec == session[s]  h == rec.from
<1>1. /\ rec \in Requests /\ Busy(s) /\ SessionOK(s) /\ h \in Hosts
      /\ rec.next \in Nat /\ rec.last \in Nat
  BY BusyTyped DEF Reply, Complete, LostIInv, ShapeOK, Requests
<1>2. /\ session' = [session EXCEPT ![s] = Free] /\ UNCHANGED <<nodes, rows, trouble>>
      /\ \/ asked[h] = s /\ Receive(h, s)
         \/ asked[h] # s /\ UNCHANGED <<agentKey, asked, sent>>
  BY DEF Reply, Becomes
<1> HIDE DEF rec, h
<1>3. /\ sent \in [Hosts -> Nat] /\ asked \in [Hosts -> Slots \cup {"none"}]
      /\ session \in [Slots -> Requests \cup {Free}]
  BY DEF LostIInv, ShapeOK, TypeOK
<1>4. \A q \in Slots : Busy(q)' => q # s /\ session'[q] = session[q] /\ Busy(q)
  BY <1>2, <1>3 DEF Busy
<1>5. KeptOK'
  <2>1. trouble.deletes = 0 => agentKey' = agentKey
    BY <1>1, <1>2 DEF Receive, LostIInv, KeptOK, rec
  <2>2. QED
    BY <1>2, <1>4, <2>1 DEF LostIInv, KeptOK
<1>6. SUFFICES ASSUME trouble.faults = 0, trouble.deletes = 0 PROVE StoredOK'
  BY <1>2, <1>5 DEF LostIInv, StoredOK
<1>7. \A g \in Hosts, i \in Nat : Fine(g, i) => Fine(g, i)'
  BY <1>2 DEF Fine, Stored, KindOf
<1>8. \A q \in Slots : Busy(q)' /\ session'[q].pc = "reply" => session'[q].status = "valid"
  BY <1>4, <1>6 DEF LostIInv, StoredOK
<1>9. ASSUME asked[h] = s, Receive(h, s) PROVE \A i \in 1..rec.last : Fine(h, i)
  <2>1. Waiting(h)
    BY <1>9, IngestAssumption DEF Waiting
  <2>2. Reached(rec) = rec.last
    BY <1>1 DEF Reply, Complete, Turn, Reached, SessionOK, rec
  <2>3. QED
    BY <1>1, <1>6, <1>9, <2>1, <2>2 DEF LostIInv, StoredOK, rec
<1>10. ASSUME NEW g \in Hosts, NEW i \in 1..sent'[g] PROVE Fine(g, i)'
  <2>1. sent'[g] = sent[g] \/ (g = h /\ sent'[h] = rec.last /\ asked[h] = s /\ Receive(h, s))
    BY <1>1, <1>2, <1>3 DEF Receive, rec
  <2>2. i \in Nat
    BY <1>1, <1>3, <2>1
  <2>3. Fine(g, i)
    BY <1>6, <1>9, <2>1 DEF LostIInv, StoredOK
  <2>4. QED
    BY <1>7, <2>2, <2>3
<1>11. ASSUME NEW g \in Hosts, asked'[g] # "none",
              NEW i \in 1..Reached(session'[asked'[g]])
       PROVE  Fine(g, i)'
  <2>1. asked'[g] = asked[g] /\ Waiting(g)
    BY <1>1, <1>2, <1>3, <1>11 DEF Receive, Waiting
  <2>2. AskedOK(g) /\ asked[g] \in Slots
    BY <1>3, <2>1 DEF LostIInv, ShapeOK, Waiting
  <2>3. asked[g] # s
    <3>1. CASE g = h
      BY <1>1, <1>2, <1>3, <1>11, <2>1, <3>1, IngestAssumption DEF Receive
    <3>2. CASE g # h
      BY <2>2, <3>2 DEF AskedOK, h, rec
    <3>3. QED
      BY <3>1, <3>2
  <2>4. session'[asked[g]] = session[asked[g]] /\ session[asked[g]] \in Requests
    BY <1>2, <1>3, <2>2, <2>3 DEF AskedOK, Busy
  <2>5. i \in Nat
    BY <1>11, <2>1, <2>4 DEF Reached, Requests
  <2>6. Fine(g, i)
    BY <1>6, <1>11, <2>1, <2>4 DEF LostIInv, StoredOK
  <2>7. QED
    BY <1>7, <2>5, <2>6
<1>12. QED
  BY <1>8, <1>10, <1>11 DEF StoredOK, Busy, Waiting, Reached

LEMMA EnrollLost ==
  ASSUME LostIInv, ShapeOK', NEW h \in Hosts, Enroll(h)
  PROVE  LostIInv'
<1>1. PICK k \in drawn + 1 .. drawn + 1 + Cardinality(Hosts) :
        /\ Owner(k) = {}
        /\ nodes' = [nodes EXCEPT ![h] = k]
        /\ agentKey' = [agentKey EXCEPT ![h] = k]
  BY DEF Enroll
<1>2. /\ nodes \in [Hosts -> Nat] /\ agentKey \in [Hosts -> Nat] /\ agentKey[h] = 0
      /\ UNCHANGED <<rows, session, asked, sent, trouble>>
  BY DEF Enroll, LostIInv, ShapeOK, TypeOK
<1>3. StoredOK'
  BY <1>2 DEF LostIInv, StoredOK, Busy, Waiting, Reached, Fine, Stored, KindOf
<1>4. SUFFICES ASSUME trouble.deletes = 0 PROVE KeptOK'
  BY <1>2, <1>3 DEF LostIInv, KeptOK
<1>5. \A g \in Hosts : agentKey'[g] # 0 => nodes'[g] = agentKey'[g]
  BY <1>1, <1>2, <1>4 DEF LostIInv, KeptOK
<1>6. \A g, n \in Hosts : nodes'[g] # 0 /\ nodes'[g] = nodes'[n] => g = n
  BY <1>1, <1>2, <1>4 DEF LostIInv, KeptOK, Owner
<1>7. ASSUME NEW s \in Slots, Busy(s) PROVE agentKey'[session[s].from] = session[s].key
  <2>1. /\ session[s].key = agentKey[session[s].from] /\ session[s].key # 0
        /\ session[s].from \in Hosts
    BY <1>4, <1>7, BusyPc DEF LostIInv, KeptOK, ShapeOK, SessionOK, Requests
  <2>2. QED
    BY <1>1, <1>2, <2>1
<1>8. QED
  BY <1>2, <1>4, <1>5, <1>6, <1>7 DEF LostIInv, KeptOK, Busy

LEMMA SendLost ==
  ASSUME LostIInv, ShapeOK', NEW h \in Hosts, NEW s \in Slots, Send(h, s)
  PROVE  LostIInv'
<1>1. PICK r : /\ Becomes(s, r) /\ r.pc = "lookup" /\ r.from = h /\ r.next = sent[h] + 1
               /\ r.key = agentKey[h] /\ r.status = "null"
  BY DEF Send
<1>2. /\ session'[s] = r /\ \A q \in Slots : q # s => session'[q] = session[q]
      /\ session[s] = Free /\ sent[h] \in Nat
      /\ asked'[h] = s /\ \A g \in Hosts : g # h => asked'[g] = asked[g]
      /\ UNCHANGED <<nodes, rows, agentKey, sent, trouble>>
  BY <1>1 DEF Becomes, Send, LostIInv, ShapeOK, TypeOK
<1>3. KeptOK'
  <2> SUFFICES ASSUME trouble.deletes = 0, NEW q \in Slots, Busy(q)'
               PROVE  /\ session'[q].key = agentKey[session'[q].from]
                      /\ session'[q].status # "invalid"
                      /\ session'[q].pc = "store" => session'[q].host = session'[q].from
    BY <1>2 DEF LostIInv, KeptOK
  <2>1. CASE q = s
    BY <1>1, <1>2, <2>1
  <2>2. CASE q # s
    BY <1>2, <2>2 DEF LostIInv, KeptOK, Busy
  <2>3. QED
    BY <2>1, <2>2
<1>4. SUFFICES ASSUME trouble.faults = 0, trouble.deletes = 0 PROVE StoredOK'
  BY <1>2, <1>3 DEF LostIInv, StoredOK
<1>5. \A q \in Slots : Busy(q)' /\ session'[q].pc = "reply" => session'[q].status = "valid"
  BY <1>1, <1>2, <1>4 DEF LostIInv, StoredOK, Busy
<1>6. ASSUME NEW g \in Hosts, NEW i, Fine(g, i) PROVE Fine(g, i)'
  BY <1>2, <1>6 DEF Fine, Stored, KindOf
<1>7. ASSUME NEW g \in Hosts, asked'[g] # "none", NEW i \in 1..Reached(session'[asked'[g]])
      PROVE  Fine(g, i)'
  <2>1. CASE g = h
    <3>1. Reached(session'[asked'[g]]) = sent[g]
      BY <1>1, <1>2, <2>1 DEF Reached
    <3>2. Fine(g, i)
      BY <1>4, <1>7, <3>1 DEF LostIInv, StoredOK
    <3>3. QED
      BY <1>6, <3>2
  <2>2. CASE g # h
    <3>1. asked'[g] = asked[g] /\ Waiting(g)
      BY <1>2, <1>7, <2>2 DEF Waiting
    <3>2. asked[g] \in Slots /\ asked[g] # s
      BY <1>2, <3>1 DEF LostIInv, ShapeOK, TypeOK, Waiting, AskedOK, Busy
    <3>3. Fine(g, i)
      BY <1>2, <1>4, <1>7, <3>1, <3>2 DEF LostIInv, StoredOK
    <3>4. QED
      BY <1>6, <3>3
  <2>3. QED
    BY <2>1, <2>2
<1>8. \A g \in Hosts : \A i \in 1..sent[g] : Fine(g, i)'
  BY <1>4, <1>6 DEF LostIInv, StoredOK
<1>9. QED
  BY <1>2, <1>5, <1>7, <1>8 DEF StoredOK, Busy, Waiting, Reached

LEMMA LostStep == LostIInv /\ [Next]_vars => LostIInv'
<1> SUFFICES ASSUME LostIInv, [Next]_vars PROVE LostIInv'
  OBVIOUS
<1>0. ShapeOK'
  BY ShapeStep DEF LostIInv
<1>1. ASSUME UNCHANGED <<nodes, rows, session, agentKey, sent>>,
             \A g \in Hosts : asked'[g] \in {asked[g], "none"},
             trouble'.faults = trouble.faults, trouble'.deletes = trouble.deletes
      PROVE  LostIInv'
  <2>1. KeptOK'
    BY <1>1 DEF LostIInv, KeptOK, Busy
  <2>2. \A g \in Hosts : \A i : Fine(g, i) => Fine(g, i)'
    BY <1>1 DEF Fine, Stored, KindOf
  <2>3. StoredOK'
    BY <1>1, <2>2 DEF LostIInv, StoredOK, Busy, Waiting, Reached
  <2>4. QED
    BY <1>0, <2>1, <2>3 DEF LostIInv
<1>2. ASSUME NEW h \in Hosts, Enroll(h) PROVE LostIInv'
  BY <1>0, <1>2, EnrollLost
<1>3. ASSUME NEW h \in Hosts, Config(h) PROVE LostIInv'
  <2>1. trouble.deletes # 0
    BY <1>3 DEF Config, Owner, LostIInv, KeptOK
  <2>2. QED
    BY <1>0, <1>3, <2>1 DEF Config, LostIInv, KeptOK, StoredOK
<1>4. ASSUME NEW h \in Hosts, DeleteNode(h) PROVE LostIInv'
  <2>1. trouble'.deletes = trouble.deletes + 1 /\ trouble.deletes \in Nat
    BY <1>4, TroubleCounts DEF DeleteNode, LostIInv, ShapeOK, TypeOK
  <2>2. QED
    BY <1>0, <2>1 DEF LostIInv, KeptOK, StoredOK
<1>5. ASSUME NEW h \in Hosts, Log(h) \/ GiveUp(h) PROVE LostIInv'
  <2>1. asked \in [Hosts -> Slots \cup {"none"}]
    BY DEF LostIInv, ShapeOK, TypeOK
  <2>2. CASE Log(h)
    BY <1>1, <2>1, <2>2 DEF Log
  <2>3. CASE GiveUp(h)
    BY <1>1, <2>1, <2>3, TroubleCounts DEF GiveUp, LostIInv, ShapeOK
  <2>4. QED
    BY <1>5, <2>2, <2>3
<1>6. ASSUME NEW h \in Hosts, NEW s \in Slots, Send(h, s) PROVE LostIInv'
  BY <1>0, <1>6, SendLost
<1>7. ASSUME NEW s \in Slots, Lookup(s) \/ Validate(s) PROVE LostIInv'
  BY <1>0, <1>7, LookupLost
<1>8. ASSUME NEW s \in Slots, Insert(s) \/ Skip(s) \/ Throw(s) \/ Fail(s) PROVE LostIInv'
  BY <1>0, <1>8, StoreLost
<1>9. ASSUME NEW s \in Slots, Reply(s) PROVE LostIInv'
  BY <1>0, <1>9, ReplyLost
<1>10. CASE Restart
  <2>1. /\ UNCHANGED <<nodes, rows, agentKey, sent>> /\ \A q \in Slots : session'[q] = Free
        /\ \A g \in Hosts : asked'[g] = "none"
        /\ trouble'.faults = trouble.faults /\ trouble'.deletes = trouble.deletes
    BY <1>10, TroubleCounts DEF Restart, LostIInv, ShapeOK, TypeOK
  <2>2. KeptOK'
    BY <2>1 DEF LostIInv, KeptOK, Busy
  <2>3. \A g \in Hosts : \A i : Fine(g, i) => Fine(g, i)'
    BY <2>1 DEF Fine, Stored, KindOf
  <2>4. StoredOK'
    BY <2>1, <2>3 DEF LostIInv, StoredOK, Busy, Waiting
  <2>5. QED
    BY <1>0, <2>2, <2>4 DEF LostIInv
<1>11. CASE UNCHANGED vars
  BY <1>1, <1>11 DEF vars, agents
<1>12. QED
  BY <1>2, <1>3, <1>4, <1>5, <1>6, <1>7, <1>8, <1>9, <1>10, <1>11 DEF Next, Serve

(* Without a database error and without a node that is deleted, an event   *)
(* an agent has dropped is missing only behind one of the same request     *)
(* that could not be converted - timeouts and restarts lose none.          *)
THEOREM NothingLost == Spec => []LostNeedsCause
<1>1. LostIInv => LostNeedsCause
  <2> SUFFICES ASSUME LostIInv, NEW h \in Hosts, NEW i \in 1..sent[h],
                      KindOf(h, i) = "sound",
                      trouble.faults = 0, trouble.deletes = 0
               PROVE  Stored(h, i) \/ \E j \in 1..i - 1 :
                                        KindOf(h, j) = "bad" /\ i - j < MaxBatch
    <3>1. LostIInv => trouble.faults \in Nat /\ trouble.deletes \in Nat
      BY DEF LostIInv, ShapeOK, TypeOK
    <3>2. QED
      BY <3>1 DEF LostNeedsCause
  <2>1. Fine(h, i)
    BY DEF LostIInv, StoredOK
  <2>2. QED
    BY <2>1 DEF Fine
<1>2. QED
  BY <1>1, LostInit, LostStep, PTL DEF Spec

=============================================================================
