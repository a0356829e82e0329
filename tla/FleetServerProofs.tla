-------------------------- MODULE FleetServerProofs --------------------------
(***************************************************************************)
(* Proofs about FleetServer, for any number of hosts, queries and          *)
(* sessions and any bounds: first what always holds, then what it promises *)
(* as long as there is no trouble of a certain kind.                       *)
(***************************************************************************)
EXTENDS FleetServer, TLAPS

-----------------------------------------------------------------------------
(* Types.                                                                  *)
LEMMA BusyType == ASSUME TypeOK, NEW s \in Slots, session[s].pc # "free"
                  PROVE  session[s] \in Requests
BY DEF TypeOK, Free, Requests

Pcs == {"start", "recheck", "check", "register", "update", "insert", "select", "mark",
        "store", "reply"}

LEMMA RequestUpdates ==
  ASSUME NEW r \in Requests
  PROVE  /\ \A k \in Nat : [r EXCEPT !.key = k] \in Requests
         /\ \A p \in Pcs : [r EXCEPT !.pc = p] \in Requests
         /\ \A k \in Nat, p \in Pcs : [r EXCEPT !.key = k, !.pc = p] \in Requests
         /\ \A t \in {"null", "invalid", "error", "ok"} :
              /\ [r EXCEPT !.pc = "reply", !.status = t] \in Requests
              /\ [r EXCEPT !.pc = "reply", !.rows = {}, !.status = t] \in Requests
         /\ \A h \in Hosts, p \in Pcs : [r EXCEPT !.host = h, !.status = "ok", !.pc = p] \in Requests
         /\ \A R \in SUBSET Queries :
              /\ [r EXCEPT !.rows = R] \in Requests
              /\ [r EXCEPT !.pc = "mark", !.rows = R] \in Requests
              /\ \A O \in SUBSET Queries : [r EXCEPT !.rows = R, !.out = O] \in Requests
<1>1. /\ \A k \in Nat : [r EXCEPT !.key = k] \in Requests
      /\ \A p \in Pcs : [r EXCEPT !.pc = p] \in Requests
  BY DEF Requests, Pcs
<1>2. \A k \in Nat, p \in Pcs : [r EXCEPT !.key = k, !.pc = p] \in Requests
  BY DEF Requests, Pcs
<1>3. \A t \in {"null", "invalid", "error", "ok"} :
        /\ [r EXCEPT !.pc = "reply", !.status = t] \in Requests
        /\ [r EXCEPT !.pc = "reply", !.rows = {}, !.status = t] \in Requests
  BY DEF Requests
<1>4. \A h \in Hosts, p \in Pcs : [r EXCEPT !.host = h, !.status = "ok", !.pc = p] \in Requests
  BY DEF Requests, Pcs
<1>5. \A R \in SUBSET Queries :
        /\ [r EXCEPT !.rows = R] \in Requests
        /\ [r EXCEPT !.pc = "mark", !.rows = R] \in Requests
  BY DEF Requests
<1>6. \A R, O \in SUBSET Queries : [r EXCEPT !.rows = R, !.out = O] \in Requests
  BY DEF Requests
<1>7. QED
  BY <1>1, <1>2, <1>3, <1>4, <1>5, <1>6

LEMMA SessionStep ==
  ASSUME TypeOK, NEW s \in Slots, session[s] \in Requests, Serve(s) \/ MarkFails(s) \/ Fail(s)
  PROVE  (\E x \in Requests : Becomes(s, x)) \/ (Reply(s) /\ Becomes(s, Free))
<1> DEFINE r == session[s]
<1>0. /\ r.rows \in SUBSET Queries /\ r.out \in SUBSET Queries
      /\ r.status \in {"null", "invalid", "error", "ok"} /\ r.kind \in {"enroll", "read", "write"}
      /\ drawn + 1 \in Nat /\ Unsent(r.host) \in SUBSET Queries
  BY DEF TypeOK, Requests, Unsent
<1> USE RequestUpdates
<1> USE DEF Pcs
<1>1. CASE Draw(s)
  BY <1>0, <1>1 DEF Draw
<1>2. CASE CheckKey(s)
  BY <1>0, <1>2 DEF CheckKey
<1>3. CASE Register(s)
  BY <1>3 DEF Register
<1>4. CASE UpdateKey(s) \/ InsertNode(s)
  BY <1>4 DEF UpdateKey, InsertNode, Answer
<1>5. CASE Validate(s)
  BY <1>5 DEF Validate, Found, Answer
<1>6. CASE Select(s)
  BY <1>0, <1>6 DEF Select
<1>7. CASE Mark(s) \/ MarkFails(s)
  <2>1. PICK q \in r.rows : \/ Becomes(s, [r EXCEPT !.rows = @ \ {q}, !.out = @ \cup {q}])
                            \/ Becomes(s, [r EXCEPT !.rows = {}, !.out = @ \cup {q}])
    BY <1>7 DEF Mark, MarkFails
  <2>2. r.rows \ {q} \in SUBSET Queries /\ {} \in SUBSET Queries /\ r.out \cup {q} \in SUBSET Queries
    BY <1>0
  <2>3. QED
    BY <2>1, <2>2
<1>8. CASE Store(s)
  <2>1. \A q \in r.rows : r.rows \ {q} \in SUBSET Queries
    BY <1>0
  <2>2. QED
    BY <1>8, <2>1 DEF Store
<1>9. CASE Fail(s)
  BY <1>0, <1>9 DEF Fail
<1>10. CASE Reply(s)
  BY <1>10 DEF Reply
<1>11. QED
  BY <1>1, <1>2, <1>3, <1>4, <1>5, <1>6, <1>7, <1>8, <1>9, <1>10 DEF Serve

(* Which steps of a session change what.                                   *)
LEMMA Frame ==
  ASSUME NEW s \in Slots, Serve(s) \/ MarkFails(s) \/ Fail(s)
  PROVE  /\ UNCHANGED nodes \/ UpdateKey(s) \/ InsertNode(s)
         /\ UNCHANGED queue \/ Mark(s)
         /\ UNCHANGED results \/ Store(s)
         /\ UNCHANGED drawn \/ Draw(s) \/ CheckKey(s)
         /\ UNCHANGED agents \/ Reply(s)
         /\ UNCHANGED faults \/ MarkFails(s) \/ Fail(s)
         /\ UNCHANGED <<timeouts, restarts, deletes>>
<1> USE DEF tables, agents, counts
<1>1. CASE Draw(s) \/ CheckKey(s) \/ Register(s)
  BY <1>1 DEF Draw, CheckKey, Register
<1>2. CASE UpdateKey(s) \/ InsertNode(s)
  BY <1>2 DEF UpdateKey, InsertNode
<1>3. CASE Validate(s) \/ Select(s)
  BY <1>3 DEF Validate, Select
<1>4. CASE Mark(s) \/ Store(s)
  BY <1>4 DEF Mark, Store
<1>5. CASE Reply(s)
  BY <1>5 DEF Reply
<1>6. CASE MarkFails(s) \/ Fail(s)
  BY <1>6 DEF MarkFails, Fail
<1>7. QED
  BY <1>1, <1>2, <1>3, <1>4, <1>5, <1>6 DEF Serve

LEMMA TypeStep == TypeOK /\ [Next]_vars => TypeOK'
<1> SUFFICES ASSUME TypeOK, [Next]_vars PROVE TypeOK'
  OBVIOUS
<1> USE FleetAssumption DEF TypeOK
<1> USE DEF tables, agents, counts
<1>1. CASE \E q \in Queries : Schedule(q)
  BY <1>1 DEF Schedule
<1>2. CASE \E h \in Hosts : DeleteNode(h)
  BY <1>2 DEF DeleteNode
<1>3. CASE \E h \in Hosts, s \in Slots : Ask(h, s)
  <2>1. PICK h \in Hosts, s \in Slots : Ask(h, s)
    BY <1>3
  <2>2. session' \in [Slots -> Requests \cup {Free}]
    BY <2>1 DEF Ask, Kinds, Requests, Becomes
  <2>3. QED
    BY <2>1, <2>2 DEF Ask
<1>4. CASE \E h \in Hosts : GiveUp(h)
  BY <1>4 DEF GiveUp
<1>5. ASSUME NEW s \in Slots, Serve(s) \/ MarkFails(s) \/ Fail(s) PROVE TypeOK'
  <2> DEFINE r == session[s]
  <2>1. r \in Requests
    BY <1>5, BusyType DEF Serve, MarkFails, Fail, Draw, CheckKey, Register, UpdateKey, InsertNode,
                          Validate, Select, Mark, Store, Reply, Complete, Free
  <2>2. \E x \in Requests \cup {Free} : Becomes(s, x)
    BY <1>5, <2>1, SessionStep
  <2>3. session' \in [Slots -> Requests \cup {Free}]
    BY <2>2 DEF Becomes
  <2>4. /\ r.from \in Hosts /\ r.key \in Nat /\ r.host \in Hosts
        /\ r.rows \subseteq Queries /\ r.out \subseteq Queries
    BY <2>1 DEF Requests
  <2>5. nodes' \in [Hosts -> Nat]
    BY <1>5, <2>4, Frame DEF UpdateKey, InsertNode
  <2>6. queue' \in [Queries -> {"absent", "queued", "sent"}]
    BY <1>5, <2>4, Frame DEF Mark
  <2>7. results' \subseteq [query : Queries, host : Hosts, sender : Hosts]
    <3>1. CASE Store(s)
      <4>1. PICK q \in r.rows :
              results' = results \cup {[query |-> q, host |-> r.host, sender |-> r.from]}
        BY <3>1 DEF Store
      <4>2. QED
        BY <2>4, <4>1
    <3>2. QED
      BY <1>5, <3>1, Frame
  <2>8. drawn' \in Nat
    <3>1. CASE Draw(s) \/ CheckKey(s)
      <4>1. drawn' = drawn + 1 \/ drawn' = drawn
        BY <3>1 DEF Draw, CheckKey
      <4>2. QED
        BY <4>1
    <3>2. QED
      BY <1>5, <3>1, Frame
  <2>9. /\ agentKey' \in [Hosts -> Nat] /\ asked' \in [Hosts -> Slots \cup {"none"}]
        /\ work' \in [Hosts -> SUBSET Queries] /\ dropped' \subseteq Queries
        /\ got' \in [Hosts -> [Queries -> 0..2]]
    <3>1. CASE Receive(r.from, s)
      <4>1. agentKey' \in [Hosts -> Nat] /\ asked' \in [Hosts -> Slots \cup {"none"}]
        BY <2>4, <3>1 DEF Receive
      <4>2. work' \in [Hosts -> SUBSET Queries]
        BY <2>4, <3>1 DEF Receive
      <4>3. [q \in Queries |-> IF q \in r.out THEN More(got[r.from][q]) ELSE got[r.from][q]]
              \in [Queries -> 0..2]
        BY <2>4 DEF More
      <4>4. got' \in [Hosts -> [Queries -> 0..2]]
        BY <3>1, <4>3 DEF Receive
      <4>5. QED
        BY <3>1, <4>1, <4>2, <4>4 DEF Receive
    <3>2. CASE Reply(s) /\ ~ Receive(r.from, s)
      BY <2>4, <3>2 DEF Reply
    <3>3. QED
      BY <1>5, <3>1, <3>2, Frame
  <2>10. faults' \in 0..MaxFaults /\ UNCHANGED <<timeouts, restarts, deletes>>
    <3>1. CASE MarkFails(s) \/ Fail(s)
      <4>1. faults < MaxFaults /\ faults' = faults + 1
        BY <3>1 DEF MarkFails, Fail
      <4>2. QED
        BY <1>5, <4>1, Frame
    <3>2. QED
      BY <1>5, <3>1, Frame
  <2>11. QED
    BY <2>3, <2>5, <2>6, <2>7, <2>8, <2>9, <2>10
<1>6. CASE Restart
  <2>1. \A s \in Slots : OutOf(s) \subseteq Queries
    BY DEF OutOf, Requests
  <2>2. QED
    BY <1>6, <2>1 DEF Restart
<1>7. CASE UNCHANGED vars
  BY <1>7 DEF vars
<1>8. QED
  BY <1>1, <1>2, <1>3, <1>4, <1>5, <1>6, <1>7 DEF Next

(* Every request and every answer has the right form, every key is a       *)
(* number, every count stays within its bound (all of FleetServer).        *)
THEOREM FleetTypeCorrect == Spec => []TypeOK
<1>1. Init => TypeOK
  BY FleetAssumption DEF Init, TypeOK
<1>2. QED
  BY <1>1, TypeStep, PTL DEF Spec

-----------------------------------------------------------------------------
(* Queries that are marked as sent.                                        *)

(* No step but the last takes a query out of an answer.                    *)
LEMMA AnswersGrow ==
  ASSUME TypeOK, NEW s \in Slots, Serve(s) \/ MarkFails(s) \/ Fail(s), ~ Reply(s)
  PROVE  \A t \in Slots : OutOf(t) \subseteq OutOf(t)'
<1> DEFINE r == session[s]
<1>1. r \in Requests
  BY BusyType DEF Serve, MarkFails, Fail, Draw, CheckKey, Register, UpdateKey, InsertNode,
                  Validate, Select, Mark, Store, Reply, Complete, Free
<1>2. r # Free
  BY <1>1 DEF Requests, Free
<1>3. \A x \in Requests : x # Free
  BY DEF Requests, Free
<1>4. SUFFICES ASSUME NEW x \in Requests, Becomes(s, x), r.out \subseteq x.out
               PROVE  \A t \in Slots : OutOf(t) \subseteq OutOf(t)'
  <2>1. \E x \in Requests : Becomes(s, x)
    BY <1>1, SessionStep
  <2>2. \E x \in Requests : Becomes(s, x) /\ r.out \subseteq x.out
    <3> DEFINE n == session'[s]
    <3>1. \A x : Becomes(s, x) => n = x
      BY DEF Becomes, TypeOK
    <3>2. n.out = r.out \/ \E q \in r.rows : n.out = r.out \cup {q}
      <4>1. CASE Draw(s) \/ CheckKey(s) \/ Register(s)
        BY <1>1, <3>1, <4>1 DEF Draw, CheckKey, Register, Requests
      <4>2. CASE UpdateKey(s) \/ InsertNode(s)
        BY <1>1, <3>1, <4>2 DEF UpdateKey, InsertNode, Answer, Requests
      <4>3. CASE Validate(s)
        BY <1>1, <3>1, <4>3 DEF Validate, Found, Answer, Requests
      <4>4. CASE Select(s)
        BY <1>1, <3>1, <4>4 DEF Select, Requests
      <4>5. CASE Mark(s) \/ MarkFails(s)
        BY <1>1, <3>1, <4>5 DEF Mark, MarkFails, Requests
      <4>6. CASE Store(s)
        BY <1>1, <3>1, <4>6 DEF Store, Requests
      <4>7. CASE Fail(s)
        BY <1>1, <3>1, <4>7 DEF Fail, Requests
      <4>8. QED
        BY <4>1, <4>2, <4>3, <4>4, <4>5, <4>6, <4>7 DEF Serve
    <3>3. n \in Requests
      BY <1>1, <2>1, <3>1
    <3>4. QED
      BY <2>1, <3>1, <3>2, <3>3
  <2>3. QED
    BY <2>2
<1>5. session'[s] = x /\ \A t \in Slots \ {s} : session'[t] = session[t]
  BY <1>4 DEF Becomes, TypeOK
<1>6. QED
  BY <1>2, <1>3, <1>4, <1>5 DEF OutOf

(* What an agent was given stays given.                                    *)
LEMMA GivenStays ==
  ASSUME TypeOK, NEW s \in Slots, NEW h \in Hosts, Receive(h, s)
  PROVE  \A q \in Queries : (Given(q) => Given(q)') /\ (q \in session[s].out => Given(q)')
<1>1. /\ \A g \in Hosts \ {h} : got'[g] = got[g]
      /\ \A q \in Queries :
           got'[h][q] = IF q \in session[s].out THEN More(got[h][q]) ELSE got[h][q]
  BY DEF Receive, TypeOK
<1>2. \A n : More(n) > 0
  BY DEF More
<1>3. QED
  BY <1>1, <1>2 DEF Given

LEMMA SentStep == TypeOK /\ SentIsInAnAnswer /\ [Next]_vars => SentIsInAnAnswer'
<1> SUFFICES ASSUME TypeOK, SentIsInAnAnswer, [Next]_vars,
                    NEW q \in Queries, queue'[q] = "sent"
             PROVE  \/ Given(q)' \/ q \in dropped' \/ \E s \in Slots : q \in OutOf(s)'
  BY DEF SentIsInAnAnswer
<1> DEFINE Safe == Given(q) \/ q \in dropped \/ \E s \in Slots : q \in OutOf(s)
<1>0. queue[q] = "sent" => Safe
  BY DEF SentIsInAnAnswer
<1> USE DEF tables, agents, counts
<1>1. CASE \/ \E p \in Queries : Schedule(p)
           \/ \E h \in Hosts : DeleteNode(h) \/ GiveUp(h)
           \/ UNCHANGED vars
  <2>1. UNCHANGED <<session, got, dropped>> /\ queue[q] = "sent"
    BY <1>1 DEF Schedule, DeleteNode, GiveUp, vars, TypeOK
  <2>2. QED
    BY <1>0, <2>1 DEF Given, OutOf
<1>2. ASSUME NEW h \in Hosts, NEW s \in Slots, Ask(h, s) PROVE Safe'
  <2>1. UNCHANGED <<queue, got, dropped>> /\ session[s] = Free
    BY <1>2 DEF Ask
  <2>2. \A t \in Slots \ {s} : session'[t] = session[t]
    BY <1>2 DEF Ask, Becomes, TypeOK
  <2>3. QED
    BY <1>0, <2>1, <2>2 DEF Given, OutOf
<1>3. ASSUME NEW s \in Slots, Serve(s) \/ MarkFails(s) \/ Fail(s), ~ Reply(s) PROVE Safe'
  <2>1. UNCHANGED <<got, dropped>>
    BY <1>3, Frame
  <2>2. \A t \in Slots : OutOf(t) \subseteq OutOf(t)'
    BY <1>3, AnswersGrow
  <2>3. CASE queue[q] = "sent"
    BY <1>0, <2>1, <2>2, <2>3 DEF Given
  <2>4. CASE queue[q] # "sent"
    <3>1. Mark(s)
      BY <1>3, <2>4, Frame
    <3>2. PICK p \in session[s].rows :
            /\ Becomes(s, [session[s] EXCEPT !.rows = @ \ {p}, !.out = @ \cup {p}])
            /\ queue' = [queue EXCEPT ![p] = "sent"]
      BY <3>1 DEF Mark
    <3>3. p = q
      BY <2>4, <3>2 DEF TypeOK
    <3>4. session[s] \in Requests /\ [session[s] EXCEPT !.rows = @ \ {p}, !.out = @ \cup {p}] # Free
      BY <3>1, BusyType DEF Mark, Requests, Free
    <3>5. session'[s] = [session[s] EXCEPT !.rows = @ \ {p}, !.out = @ \cup {p}]
      BY <3>2 DEF Becomes, TypeOK
    <3>6. q \in OutOf(s)'
      BY <3>3, <3>4, <3>5 DEF OutOf, Requests
    <3>7. QED
      BY <3>6
  <2>5. QED
    BY <2>3, <2>4
<1>4. ASSUME NEW s \in Slots, Reply(s) PROVE Safe'
  <2>1. session[s] \in Requests
    BY <1>4, BusyType DEF Reply, Complete
  <2>2. session[s] # Free /\ session[s].from \in Hosts
    BY <2>1 DEF Requests, Free
  <2>3. queue[q] = "sent" /\ \A t \in Slots \ {s} : session'[t] = session[t]
    BY <1>4 DEF Reply, Becomes, TypeOK
  <2>4. CASE Receive(session[s].from, s)
    <3>1. UNCHANGED dropped
      BY <2>4 DEF Receive
    <3>2. QED
      BY <1>0, <2>2, <2>3, <2>4, <3>1, GivenStays DEF OutOf
  <2>5. CASE dropped' = dropped \cup session[s].out /\ UNCHANGED got
    BY <1>0, <2>2, <2>3, <2>5 DEF Given, OutOf
  <2>6. QED
    BY <1>4, <2>4, <2>5 DEF Reply
<1>5. CASE Restart
  BY <1>0, <1>5 DEF Restart, Given
<1>6. QED
  BY <1>1, <1>2, <1>3, <1>4, <1>5 DEF Next

(* Whatever fails, is given up on, restarts or is deleted: a query that is *)
(* marked as sent was put into an answer first, and that answer is on its  *)
(* way, has reached an agent or was lost on the way (the loop of           *)
(* distributed_read adds a query to the answer before it marks it).        *)
THEOREM SentQueriesAnswered == Spec => []SentIsInAnAnswer
<1>1. Init => SentIsInAnAnswer
  BY DEF Init, SentIsInAnAnswer
<1>2. QED
  BY <1>1, SentStep, FleetTypeCorrect, PTL DEF Spec

-----------------------------------------------------------------------------
(* From here on: as long as there is no trouble of a certain kind.         *)

Busy(s) == session[s] # Free

-----------------------------------------------------------------------------
(* What a step does to the request of its session, and to no other.        *)
LEMMA ServedIsBusy ==
  ASSUME TypeOK, NEW s \in Slots, Serve(s) \/ MarkFails(s) \/ Fail(s)
  PROVE  session[s] \in Requests /\ Busy(s)
<1>1. session[s].pc # "free"
  BY DEF Serve, MarkFails, Fail, Draw, CheckKey, Register, UpdateKey, InsertNode,
         Validate, Select, Mark, Store, Reply, Complete
<1>2. session[s] # Free
  BY <1>1 DEF Free
<1>3. QED
  BY <1>2 DEF TypeOK, Busy

LEMMA OthersStay ==
  ASSUME TypeOK, NEW s \in Slots, Serve(s) \/ MarkFails(s) \/ Fail(s)
  PROVE  /\ \A t \in Slots \ {s} : session'[t] = session[t]
         /\ Reply(s) => session'[s] = Free
         /\ ~ Reply(s) => session'[s] \in Requests
<1>1. session[s] \in Requests
  BY ServedIsBusy
<1>2. \A x : Becomes(s, x) => session'[s] = x /\ \A t \in Slots \ {s} : session'[t] = session[t]
  BY DEF Becomes, TypeOK
<1>3. (\E x \in Requests : Becomes(s, x)) \/ (Reply(s) /\ Becomes(s, Free))
  BY <1>1, SessionStep
<1>4. Reply(s) => Becomes(s, Free)
  BY DEF Reply
<1>5. QED
  BY <1>2, <1>3, <1>4

LEMMA SenderStays ==
  ASSUME TypeOK, NEW s \in Slots, Serve(s) \/ MarkFails(s) \/ Fail(s), ~ Reply(s)
  PROVE  session'[s].from = session[s].from /\ session'[s].kind = session[s].kind
<1>1. session[s] \in Requests
  BY ServedIsBusy
<1>2. \A x : Becomes(s, x) => session'[s] = x
  BY DEF Becomes, TypeOK
<1>3. CASE Draw(s) \/ CheckKey(s) \/ Register(s)
  BY <1>1, <1>2, <1>3 DEF Draw, CheckKey, Register, Requests
<1>4. CASE UpdateKey(s) \/ InsertNode(s)
  BY <1>1, <1>2, <1>4 DEF UpdateKey, InsertNode, Answer, Requests
<1>5. CASE Validate(s)
  BY <1>1, <1>2, <1>5 DEF Validate, Found, Answer, Requests
<1>6. CASE Select(s) \/ Store(s) \/ Fail(s)
  BY <1>1, <1>2, <1>6 DEF Select, Store, Fail, Requests
<1>7. CASE Mark(s) \/ MarkFails(s)
  BY <1>1, <1>2, <1>7 DEF Mark, MarkFails, Requests
<1>8. QED
  BY <1>3, <1>4, <1>5, <1>6, <1>7 DEF Serve

LEMMA Enrolling ==
  ASSUME TypeOK, NEW s \in Slots, Draw(s) \/ CheckKey(s) \/ Register(s)
  PROVE  /\ session'[s].host = session[s].host /\ session'[s].out = session[s].out
         /\ session'[s].rows = session[s].rows /\ session'[s].status = session[s].status
         /\ session'[s].pc \in {"recheck", "check", "register", "update", "insert"}
<1>1. session[s] \in Requests
  BY ServedIsBusy DEF Serve
<1>2. \A x : Becomes(s, x) => session'[s] = x
  BY DEF Becomes, TypeOK
<1>3. CASE Draw(s)
  BY <1>1, <1>2, <1>3 DEF Draw, Requests
<1>4. CASE CheckKey(s)
  BY <1>1, <1>2, <1>4 DEF CheckKey, Requests
<1>5. CASE Register(s)
  BY <1>1, <1>2, <1>5 DEF Register, Requests
<1>6. QED
  BY <1>3, <1>4, <1>5

LEMMA KeyStep ==
  ASSUME TypeOK, NEW s \in Slots, Serve(s) \/ MarkFails(s) \/ Fail(s), ~ Reply(s)
  PROVE  \/ session'[s].key = session[s].key /\ drawn' = drawn
         \/ session'[s].key = drawn + 1 /\ drawn' = drawn + 1
<1>1. session[s] \in Requests
  BY ServedIsBusy
<1>2. \A x : Becomes(s, x) => session'[s] = x
  BY DEF Becomes, TypeOK
<1>3. CASE Draw(s) \/ CheckKey(s) \/ Register(s)
  BY <1>1, <1>2, <1>3 DEF Draw, CheckKey, Register, Requests
<1>4. CASE UpdateKey(s) \/ InsertNode(s)
  BY <1>1, <1>2, <1>4 DEF UpdateKey, InsertNode, Answer, Requests
<1>5. CASE Validate(s)
  BY <1>1, <1>2, <1>5 DEF Validate, Found, Answer, Requests
<1>6. CASE Select(s) \/ Store(s) \/ Fail(s)
  BY <1>1, <1>2, <1>6 DEF Select, Store, Fail, Requests
<1>7. CASE Mark(s) \/ MarkFails(s)
  BY <1>1, <1>2, <1>7 DEF Mark, MarkFails, Requests
<1>8. QED
  BY <1>3, <1>4, <1>5, <1>6, <1>7 DEF Serve

LEMMA Enrolled ==
  ASSUME TypeOK, NEW s \in Slots, UpdateKey(s) \/ InsertNode(s)
  PROVE  /\ session'[s].host = session[s].host /\ session'[s].out = session[s].out
         /\ session'[s].rows = session[s].rows /\ session'[s].pc = "reply"
<1>1. session[s] \in Requests
  BY ServedIsBusy DEF Serve
<1>2. \A x : Becomes(s, x) => session'[s] = x
  BY DEF Becomes, TypeOK
<1>3. QED
  BY <1>1, <1>2 DEF UpdateKey, InsertNode, Answer, Requests

LEMMA Validated ==
  ASSUME TypeOK, NEW s \in Slots, Validate(s)
  PROVE  /\ session'[s].out = session[s].out /\ session'[s].rows = session[s].rows
         /\ \/ /\ session'[s].pc = "reply" /\ session'[s].status = "invalid"
               /\ session'[s].host = session[s].host
            \/ /\ session'[s].pc = IF session[s].kind = "read" THEN "select" ELSE "store"
               /\ session'[s].status = "ok"
               /\ session'[s].host \in Hosts
               /\ nodes[session'[s].host] = session[s].key
<1>1. session[s] \in Requests
  BY ServedIsBusy DEF Serve
<1>2. \A x : Becomes(s, x) => session'[s] = x
  BY DEF Becomes, TypeOK
<1>3. CASE Answer(s, "invalid")
  BY <1>1, <1>2, <1>3 DEF Answer, Requests
<1>4. ASSUME NEW h \in Hosts, nodes[h] = session[s].key, Found(s, h)
      PROVE  /\ session'[s].out = session[s].out /\ session'[s].rows = session[s].rows
             /\ session'[s].pc = IF session[s].kind = "read" THEN "select" ELSE "store"
             /\ session'[s].status = "ok" /\ session'[s].host = h
  <2>1. session'[s] = [session[s] EXCEPT !.host = h, !.status = "ok",
                         !.pc = IF session[s].kind = "read" THEN "select" ELSE "store"]
    BY <1>2, <1>4 DEF Found
  <2>2. QED
    BY <1>1, <2>1 DEF Requests
<1>5. QED
  BY <1>3, <1>4 DEF Validate

LEMMA Selected ==
  ASSUME TypeOK, NEW s \in Slots, Select(s)
  PROVE  /\ session'[s].host = session[s].host /\ session'[s].out = session[s].out
         /\ session'[s].rows = Unsent(session[s].host)
         /\ session'[s].status = session[s].status /\ session'[s].pc = "mark"
<1>1. session[s] \in Requests
  BY ServedIsBusy DEF Serve
<1>2. \A x : Becomes(s, x) => session'[s] = x
  BY DEF Becomes, TypeOK
<1>3. QED
  BY <1>1, <1>2 DEF Select, Requests

LEMMA Marked ==
  ASSUME TypeOK, NEW s \in Slots, Mark(s) \/ MarkFails(s)
  PROVE  /\ session'[s].host = session[s].host /\ session'[s].pc = "mark"
         /\ session'[s].status = session[s].status
         /\ \E q \in session[s].rows :
              /\ session'[s].out = session[s].out \cup {q}
              /\ Mark(s) => /\ session'[s].rows = session[s].rows \ {q}
                            /\ queue' = [queue EXCEPT ![q] = "sent"]
              /\ ~ Mark(s) => session'[s].rows = {}
<1>1. session[s] \in Requests
  BY ServedIsBusy DEF Serve
<1>2. \A x : Becomes(s, x) => session'[s] = x
  BY DEF Becomes, TypeOK
<1>3. CASE Mark(s)
  BY <1>1, <1>2, <1>3 DEF Mark, Requests
<1>4. CASE MarkFails(s) /\ ~ Mark(s)
  BY <1>1, <1>2, <1>4 DEF MarkFails, Requests
<1>5. QED
  BY <1>3, <1>4

LEMMA StoredOne ==
  ASSUME TypeOK, NEW s \in Slots, Store(s)
  PROVE  /\ session'[s].host = session[s].host /\ session'[s].out = session[s].out
         /\ session'[s].status = session[s].status /\ session'[s].pc = "store"
         /\ \E q \in session[s].rows :
              /\ session'[s].rows = session[s].rows \ {q}
              /\ results' = results \cup
                   {[query |-> q, host |-> session[s].host, sender |-> session[s].from]}
<1>1. session[s] \in Requests
  BY ServedIsBusy DEF Serve
<1>2. \A x : Becomes(s, x) => session'[s] = x
  BY DEF Becomes, TypeOK
<1>3. QED
  BY <1>1, <1>2 DEF Store, Requests

LEMMA Failed ==
  ASSUME TypeOK, NEW s \in Slots, Fail(s)
  PROVE  /\ session'[s].host = session[s].host /\ session'[s].out = session[s].out
         /\ session'[s].rows = {} /\ session'[s].pc = "reply"
         /\ session[s].kind # "enroll" => session'[s].status = session[s].status
<1>1. session[s] \in Requests
  BY ServedIsBusy DEF Serve
<1>2. \A x : Becomes(s, x) => session'[s] = x
  BY DEF Becomes, TypeOK
<1>3. PICK t : /\ session'[s] = [session[s] EXCEPT !.pc = "reply", !.rows = {}, !.status = t]
               /\ session[s].kind # "enroll" => t = session[s].status
  BY <1>2 DEF Fail
<1>4. QED
  BY <1>1, <1>3 DEF Requests

LEMMA Asked ==
  ASSUME TypeOK, NEW h \in Hosts, NEW s \in Slots, Ask(h, s)
  PROVE  /\ \A t \in Slots \ {s} : session'[t] = session[t]
         /\ session'[s] \in Requests
         /\ LET n == session'[s]
            IN /\ n.pc = "start" /\ n.from = h /\ n.host = h /\ n.key = agentKey[h]
               /\ n.out = {} /\ n.kind \in Kinds(h)
               /\ n.kind = "write" => n.rows = work[h]
               /\ n.kind # "write" => n.rows = {}
<1>1. \A x : Becomes(s, x) => session'[s] = x /\ \A t \in Slots \ {s} : session'[t] = session[t]
  BY DEF Becomes, TypeOK
<1>2. PICK k \in Kinds(h) :
        session'[s] = [pc |-> "start", kind |-> k, from |-> h, key |-> agentKey[h], host |-> h,
                       rows |-> IF k = "write" THEN work[h] ELSE {}, out |-> {},
                       status |-> "null"]
  BY <1>1 DEF Ask
<1>3. \A t \in Slots \ {s} : session'[t] = session[t]
  BY <1>1 DEF Ask
<1>4. k \in {"enroll", "read", "write"} /\ agentKey[h] \in Nat /\ work[h] \in SUBSET Queries
  BY DEF Kinds, TypeOK
<1>5. session'[s] \in Requests
  BY <1>2, <1>4 DEF Requests
<1>6. QED
  BY <1>2, <1>3, <1>5

-----------------------------------------------------------------------------
(* What requests look like, by their kind and how far they have come.      *)
Shape(r) ==
  /\ r.pc \in {"recheck", "check", "register", "update", "insert"} => r.kind = "enroll"
  /\ r.pc \in {"select", "mark"} => r.kind = "read" /\ r.status = "ok"
  /\ r.pc = "store" => r.kind = "write"
  /\ r.pc = "start" => r.out = {}
  /\ r.kind # "read" => r.out = {}
  /\ r.out # {} => r.status = "ok"

WaitedFor == \A h \in Hosts : Waiting(h) => Busy(asked[h]) /\ session[asked[h]].from = h

ShapeOK ==
  /\ \A s \in Slots : Busy(s) => Shape(session[s])
  /\ WaitedFor

LEMMA ServedShape ==
  ASSUME TypeOK, NEW s \in Slots, Shape(session[s]),
         Serve(s) \/ MarkFails(s) \/ Fail(s), ~ Reply(s)
  PROVE  Shape(session'[s])
<1> DEFINE r == session[s]
<1>1. r \in Requests /\ session'[s].kind = r.kind
  BY ServedIsBusy, SenderStays
<1>2. CASE Draw(s) \/ CheckKey(s) \/ Register(s)
  <2>1. r.kind = "enroll"
    BY <1>2 DEF Draw, CheckKey, Register, Shape
  <2>2. QED
    BY <1>1, <1>2, <2>1, Enrolling DEF Shape
<1>3. CASE UpdateKey(s) \/ InsertNode(s)
  <2>1. r.kind = "enroll"
    BY <1>3 DEF UpdateKey, InsertNode, Shape
  <2>2. QED
    BY <1>1, <1>3, <2>1, Enrolled DEF Shape
<1>4. CASE Validate(s)
  <2>1. r.kind \in {"read", "write"} /\ r.out = {}
    BY <1>4 DEF Validate, Shape
  <2>2. QED
    BY <1>1, <1>4, <2>1, Validated DEF Shape
<1>5. CASE Select(s)
  <2>1. r.kind = "read" /\ r.status = "ok"
    BY <1>5 DEF Select, Shape
  <2>2. QED
    BY <1>1, <1>5, <2>1, Selected DEF Shape
<1>6. CASE Mark(s) \/ MarkFails(s)
  <2>1. r.kind = "read" /\ r.status = "ok"
    BY <1>6 DEF Mark, MarkFails, Shape
  <2>2. QED
    BY <1>1, <1>6, <2>1, Marked DEF Shape
<1>7. CASE Store(s)
  <2>1. r.kind = "write"
    BY <1>7 DEF Store, Shape
  <2>2. QED
    BY <1>1, <1>7, <2>1, StoredOne DEF Shape
<1>8. CASE Fail(s)
  BY <1>1, <1>8, Failed DEF Shape
<1>9. QED
  BY <1>2, <1>3, <1>4, <1>5, <1>6, <1>7, <1>8 DEF Serve

(* A step of a session that leaves its agent waiting, or not.              *)
LEMMA AgentsStay ==
  ASSUME TypeOK, NEW s \in Slots, Serve(s) \/ MarkFails(s) \/ Fail(s), ~ Reply(s)
  PROVE  UNCHANGED <<agentKey, asked, work, got, dropped>>
BY Frame DEF agents

LEMMA ReplyStep ==
  ASSUME TypeOK, NEW s \in Slots, Reply(s)
  PROVE  /\ UNCHANGED <<nodes, queue, results, drawn, faults, timeouts, restarts>>
         /\ session'[s] = Free /\ \A t \in Slots \ {s} : session'[t] = session[t]
         /\ LET h == session[s].from
            IN \/ asked[h] = s /\ Receive(h, s)
               \/ asked[h] # s /\ UNCHANGED <<agentKey, asked, work, got>>
<1>1. session'[s] = Free /\ \A t \in Slots \ {s} : session'[t] = session[t]
  BY OthersStay DEF Serve
<1>2. UNCHANGED <<nodes, queue, results, drawn, faults, timeouts, restarts>>
  BY DEF Reply, tables, counts
<1>3. QED
  BY <1>1, <1>2 DEF Reply

LEMMA ShapeStep == TypeOK /\ ShapeOK /\ [Next]_vars => ShapeOK'
<1> SUFFICES ASSUME TypeOK, ShapeOK, [Next]_vars PROVE ShapeOK'
  OBVIOUS
<1> USE FleetAssumption
<1>1. CASE \/ \E q \in Queries : Schedule(q)
           \/ \E h \in Hosts : DeleteNode(h)
           \/ UNCHANGED vars
  <2>1. UNCHANGED <<session, asked>>
    BY <1>1 DEF Schedule, DeleteNode, vars, agents
  <2>2. QED
    BY <2>1 DEF ShapeOK, WaitedFor, Waiting, Busy
<1>2. ASSUME NEW h \in Hosts, GiveUp(h) PROVE ShapeOK'
  <2>1. session' = session /\ asked' = [asked EXCEPT ![h] = "none"]
    BY <1>2 DEF GiveUp
  <2>2. QED
    BY <2>1 DEF ShapeOK, WaitedFor, Waiting, Busy, TypeOK
<1>3. ASSUME NEW h \in Hosts, NEW s \in Slots, Ask(h, s) PROVE ShapeOK'
  <2>1. asked' = [asked EXCEPT ![h] = s] /\ session[s] = Free
    BY <1>3 DEF Ask
  <2>2. Shape(session'[s]) /\ session'[s] # Free /\ session'[s].from = h
    BY <1>3, Asked DEF Shape, Free, Requests
  <2>3. \A t \in Slots \ {s} : session'[t] = session[t]
    BY <1>3, Asked
  <2>4. WaitedFor'
    <3>1. asked'[h] = s /\ \A g \in Hosts \ {h} : asked'[g] = asked[g]
      BY <2>1 DEF TypeOK
    <3>2. \A g \in Hosts : Waiting(g) => /\ asked[g] \in Slots \ {s}
                                         /\ session[asked[g]] # Free
                                         /\ session[asked[g]].from = g
      BY <2>1 DEF ShapeOK, WaitedFor, Waiting, Busy, TypeOK
    <3>3. QED
      BY <2>2, <2>3, <3>1, <3>2 DEF WaitedFor, Waiting, Busy
  <2>5. QED
    BY <2>2, <2>3, <2>4 DEF ShapeOK, Busy
<1>4. ASSUME NEW s \in Slots, Serve(s) \/ MarkFails(s) \/ Fail(s), ~ Reply(s) PROVE ShapeOK'
  <2>1. Shape(session'[s])
    BY <1>4, ServedIsBusy, ServedShape DEF ShapeOK
  <2>2. /\ \A t \in Slots \ {s} : session'[t] = session[t]
        /\ session'[s] # Free /\ session'[s].from = session[s].from
    BY <1>4, OthersStay, SenderStays DEF Requests, Free
  <2>3. asked' = asked
    BY <1>4, AgentsStay
  <2>4. WaitedFor'
    BY <2>2, <2>3 DEF ShapeOK, WaitedFor, Waiting, Busy, TypeOK
  <2>5. QED
    BY <2>1, <2>2, <2>4 DEF ShapeOK, Busy
<1>5. ASSUME NEW s \in Slots, Reply(s) PROVE ShapeOK'
  <2>1. /\ session'[s] = Free /\ \A t \in Slots \ {s} : session'[t] = session[t]
        /\ \/ asked[session[s].from] = s /\ asked' = [asked EXCEPT ![session[s].from] = "none"]
           \/ asked[session[s].from] # s /\ asked' = asked
    BY <1>5, ReplyStep DEF Receive
  <2>2. session[s].from \in Hosts
    BY <1>5, ServedIsBusy DEF Serve, Requests
  <2>3. WaitedFor'
    BY <2>1, <2>2 DEF ShapeOK, WaitedFor, Waiting, Busy, TypeOK
  <2>4. QED
    BY <2>1, <2>3 DEF ShapeOK, Busy
<1>6. CASE Restart
  BY <1>6 DEF Restart, ShapeOK, WaitedFor, Waiting, Busy
<1>7. QED
  BY <1>1, <1>2, <1>3, <1>4, <1>5, <1>6 DEF Next

-----------------------------------------------------------------------------
(* Before the first restart: keys are never drawn twice, and so a key      *)
(* leads to the host it was made for.                                      *)

(* Host h has, or may yet get, node key k.                                 *)
Holder(h, k) ==
  \/ nodes[h] = k
  \/ agentKey[h] = k
  \/ \E s \in Slots : Busy(s) /\ session[s].from = h /\ session[s].key = k

KeysFresh ==
  \A k \in Nat \ {0}, h \in Hosts : Holder(h, k) =>
    /\ k <= drawn
    /\ \A g \in Hosts : Holder(g, k) => g = h

(* A request is handled for the host it comes from, and about queries that *)
(* are for that host.                                                      *)
OwnHost(r) ==
  /\ r.host = r.from
  /\ r.kind # "enroll" => r.key > 0
  /\ \A q \in r.out : HostOf[q] = r.from
  /\ r.pc = "mark" => \A q \in r.rows : HostOf[q] = r.from

HostInv ==
  restarts = 0 =>
    /\ KeysFresh
    /\ \A s \in Slots : Busy(s) => OwnHost(session[s])
    /\ DataFromItsNode
    /\ \A h \in Hosts, q \in Queries : got[h][q] > 0 => HostOf[q] = h

LEMMA NoNewHolder ==
  ASSUME TypeOK, KeysFresh, drawn' = drawn,
         \A k \in Nat \ {0}, h \in Hosts : Holder(h, k)' => Holder(h, k)
  PROVE  KeysFresh'
BY DEF KeysFresh

LEMMA NewHolder ==
  ASSUME TypeOK, KeysFresh, drawn' = drawn + 1, NEW g \in Hosts,
         \A k \in Nat \ {0}, h \in Hosts :
           Holder(h, k)' => Holder(h, k) \/ (h = g /\ k = drawn + 1)
  PROVE  KeysFresh'
<1> SUFFICES ASSUME NEW k \in Nat \ {0}, NEW h \in Hosts, Holder(h, k)'
             PROVE  k <= drawn' /\ \A f \in Hosts : Holder(f, k)' => f = h
  BY DEF KeysFresh
<1>1. drawn \in Nat
  BY DEF TypeOK
<1>2. CASE k = drawn + 1
  <2>1. \A f \in Hosts : ~ Holder(f, k)
    BY <1>1, <1>2 DEF KeysFresh
  <2>2. QED
    BY <1>1, <1>2, <2>1
<1>3. CASE k # drawn + 1
  <2>1. \A f \in Hosts : Holder(f, k)' => Holder(f, k)
    BY <1>3
  <2>2. QED
    BY <1>1, <2>1 DEF KeysFresh
<1>4. QED
  BY <1>2, <1>3

LEMMA KeysStep ==
  ASSUME TypeOK, KeysFresh, NEW s \in Slots, Serve(s) \/ MarkFails(s) \/ Fail(s)
  PROVE  KeysFresh'
<1> DEFINE r == session[s]
<1>1. r \in Requests /\ Busy(s) /\ r.from \in Hosts /\ r.key \in Nat
  BY ServedIsBusy DEF Requests
<1>2. \A t \in Slots \ {s} : session'[t] = session[t]
  BY OthersStay
<1>3. CASE Reply(s)
  <2>1. UNCHANGED <<nodes, drawn>> /\ session'[s] = Free
    BY <1>3, ReplyStep
  <2>2. \A h \in Hosts : agentKey'[h] \in {agentKey[h], 0} \/ (h = r.from /\ agentKey'[h] = r.key)
    <3>1. \/ agentKey' = [agentKey EXCEPT ![r.from] = 0]
          \/ agentKey' = [agentKey EXCEPT ![r.from] = r.key]
          \/ agentKey' = [agentKey EXCEPT ![r.from] = @]
          \/ agentKey' = agentKey
      BY <1>3, ReplyStep DEF Receive
    <3>2. QED
      BY <1>1, <3>1 DEF TypeOK
  <2>3. \A k \in Nat \ {0}, h \in Hosts : Holder(h, k)' => Holder(h, k)
    BY <1>1, <1>2, <2>1, <2>2 DEF Holder, Busy
  <2>4. QED
    BY <2>1, <2>3, NoNewHolder
<1>4. CASE ~ Reply(s)
  <2>1. agentKey' = agentKey /\ session'[s].from = r.from
    BY <1>4, AgentsStay, SenderStays
  <2>2. \A h \in Hosts : nodes'[h] = nodes[h] \/ (h = r.from /\ nodes'[h] = r.key)
    <3>1. CASE UpdateKey(s)
      BY <1>1, <3>1 DEF UpdateKey, TypeOK
    <3>2. CASE InsertNode(s)
      BY <1>1, <3>2 DEF InsertNode, TypeOK
    <3>3. QED
      BY <3>1, <3>2, Frame
  <2>3. CASE session'[s].key = r.key /\ drawn' = drawn
    <3>1. \A k \in Nat \ {0}, h \in Hosts : Holder(h, k)' => Holder(h, k)
      BY <1>1, <1>2, <2>1, <2>2, <2>3 DEF Holder, Busy
    <3>2. QED
      BY <2>3, <3>1, NoNewHolder
  <2>4. CASE session'[s].key = drawn + 1 /\ drawn' = drawn + 1
    <3>1. \A k \in Nat \ {0}, h \in Hosts :
            Holder(h, k)' => Holder(h, k) \/ (h = r.from /\ k = drawn + 1)
      BY <1>1, <1>2, <2>1, <2>2, <2>4 DEF Holder, Busy
    <3>2. QED
      BY <1>1, <2>4, <3>1, NewHolder
  <2>5. QED
    BY <1>4, <2>3, <2>4, KeyStep
<1>5. QED
  BY <1>3, <1>4

(* The key of a request is its sender's, so the row with that key is too.  *)
LEMMA ServedOwnHost ==
  ASSUME TypeOK, ShapeOK, KeysFresh, NEW s \in Slots, OwnHost(session[s]),
         Serve(s) \/ MarkFails(s) \/ Fail(s), ~ Reply(s)
  PROVE  OwnHost(session'[s])
<1> DEFINE r == session[s]
           n == session'[s]
<1>1. r \in Requests /\ Busy(s) /\ Shape(r)
  BY ServedIsBusy DEF ShapeOK
<1>2. n.from = r.from /\ n.kind = r.kind
  BY SenderStays
<1>3. n.key = r.key \/ n.key = drawn + 1
  BY KeyStep
<1>4. n.kind # "enroll" => n.key > 0
  BY <1>1, <1>2, <1>3 DEF OwnHost, TypeOK, Requests
<1>5. CASE Draw(s) \/ CheckKey(s) \/ Register(s)
  BY <1>1, <1>2, <1>4, <1>5, Enrolling DEF OwnHost
<1>6. CASE UpdateKey(s) \/ InsertNode(s)
  BY <1>1, <1>2, <1>4, <1>6, Enrolled DEF OwnHost
<1>7. CASE Validate(s)
  <2>1. r.kind \in {"read", "write"}
    BY <1>7 DEF Validate
  <2>2. r.from \in Hosts /\ r.key \in Nat \ {0}
    BY <1>1, <2>1 DEF OwnHost, Requests
  <2>3. Holder(r.from, r.key)
    BY <1>1 DEF Holder
  <2>4. \A h \in Hosts : nodes[h] = r.key => h = r.from
    BY <2>2, <2>3 DEF KeysFresh, Holder
  <2>5. n.host = r.from
    BY <1>7, <2>4, Validated DEF OwnHost
  <2>6. QED
    BY <1>2, <1>4, <1>7, <2>5, Validated DEF OwnHost
<1>8. CASE Select(s)
  <2>1. \A q \in n.rows : HostOf[q] = r.from
    BY <1>8, Selected DEF OwnHost, Unsent
  <2>2. QED
    BY <1>2, <1>4, <1>8, <2>1, Selected DEF OwnHost
<1>9. CASE Mark(s) \/ MarkFails(s)
  <2>1. r.pc = "mark"
    BY <1>9 DEF Mark, MarkFails
  <2>2. QED
    BY <1>2, <1>4, <1>9, <2>1, Marked DEF OwnHost
<1>10. CASE Store(s)
  BY <1>2, <1>4, <1>10, StoredOne DEF OwnHost
<1>11. CASE Fail(s)
  BY <1>2, <1>4, <1>11, Failed DEF OwnHost
<1>12. QED
  BY <1>5, <1>6, <1>7, <1>8, <1>9, <1>10, <1>11 DEF Serve

LEMMA HostStep == TypeOK /\ ShapeOK /\ HostInv /\ [Next]_vars => HostInv'
<1> SUFFICES ASSUME TypeOK, ShapeOK, HostInv, [Next]_vars, restarts' = 0 PROVE HostInv'
  BY DEF HostInv
<1> USE FleetAssumption
<1> DEFINE Given1 == \A h \in Hosts, q \in Queries : got[h][q] > 0 => HostOf[q] = h
<1>1. CASE Restart
  BY <1>1 DEF Restart, TypeOK
<1>2. SUFFICES ASSUME ~ Restart, KeysFresh, DataFromItsNode, Given1,
                      \A s \in Slots : Busy(s) => OwnHost(session[s])
               PROVE  /\ KeysFresh' /\ DataFromItsNode' /\ Given1'
                      /\ \A s \in Slots : Busy(s)' => OwnHost(session'[s])
  <2>1. UNCHANGED restarts \/ Restart
    <3>1. CASE \E s \in Slots : Serve(s) \/ MarkFails(s) \/ Fail(s)
      BY <3>1, Frame
    <3>2. QED
      BY <3>1 DEF Next, Schedule, DeleteNode, GiveUp, Ask, counts, vars
  <2>2. ~ Restart => restarts = 0
    BY <2>1
  <2>3. QED
    BY <1>1, <2>2 DEF HostInv, Busy
<1>3. CASE \/ \E q \in Queries : Schedule(q)
           \/ \E h \in Hosts : GiveUp(h)
           \/ UNCHANGED vars
  <2>1. UNCHANGED <<nodes, agentKey, session, drawn, results, got>>
    BY <1>3 DEF Schedule, GiveUp, tables, agents, vars
  <2>2. \A k \in Nat \ {0}, h \in Hosts : Holder(h, k)' => Holder(h, k)
    BY <2>1 DEF Holder, Busy
  <2>3. QED
    BY <1>2, <2>1, <2>2, NoNewHolder DEF DataFromItsNode, Busy
<1>4. ASSUME NEW h \in Hosts, DeleteNode(h)
      PROVE  /\ KeysFresh' /\ DataFromItsNode' /\ Given1'
             /\ \A s \in Slots : Busy(s)' => OwnHost(session'[s])
  <2>1. UNCHANGED <<agentKey, session, drawn, results, got>> /\ nodes' = [nodes EXCEPT ![h] = 0]
    BY <1>4 DEF DeleteNode, agents
  <2>2. \A k \in Nat \ {0}, g \in Hosts : Holder(g, k)' => Holder(g, k)
    BY <2>1 DEF Holder, Busy, TypeOK
  <2>3. QED
    BY <1>2, <2>1, <2>2, NoNewHolder DEF DataFromItsNode, Busy
<1>5. ASSUME NEW h \in Hosts, NEW s \in Slots, Ask(h, s)
      PROVE  /\ KeysFresh' /\ DataFromItsNode' /\ Given1'
             /\ \A t \in Slots : Busy(t)' => OwnHost(session'[t])
  <2>1. UNCHANGED <<nodes, agentKey, drawn, results, got>>
    BY <1>5 DEF Ask, tables
  <2>2. /\ \A t \in Slots \ {s} : session'[t] = session[t]
        /\ session'[s].from = h /\ session'[s].key = agentKey[h]
        /\ session'[s].host = h /\ session'[s].out = {} /\ session'[s].pc = "start"
        /\ session'[s].kind \in Kinds(h)
    BY <1>5, Asked
  <2>3. \A k \in Nat \ {0}, g \in Hosts : Holder(g, k)' => Holder(g, k)
    BY <2>1, <2>2 DEF Holder, Busy
  <2>4. OwnHost(session'[s])
    BY <2>2 DEF OwnHost, Kinds, TypeOK
  <2>5. KeysFresh'
    BY <1>2, <2>1, <2>3, NoNewHolder
  <2>6. QED
    BY <1>2, <2>1, <2>2, <2>4, <2>5 DEF DataFromItsNode, Busy
<1>6. ASSUME NEW s \in Slots, Serve(s) \/ MarkFails(s) \/ Fail(s)
      PROVE  /\ KeysFresh' /\ DataFromItsNode' /\ Given1'
             /\ \A t \in Slots : Busy(t)' => OwnHost(session'[t])
  <2>1. Busy(s) /\ session[s] \in Requests /\ OwnHost(session[s])
    BY <1>2, <1>6, ServedIsBusy
  <2>2. KeysFresh'
    BY <1>2, <1>6, KeysStep
  <2>3. \A t \in Slots : Busy(t)' => OwnHost(session'[t])
    <3>1. CASE Reply(s)
      BY <1>2, <3>1, ReplyStep DEF Busy
    <3>2. CASE ~ Reply(s)
      <4>1. OwnHost(session'[s]) /\ \A t \in Slots \ {s} : session'[t] = session[t]
        BY <1>2, <1>6, <2>1, <3>2, ServedOwnHost, OthersStay
      <4>2. QED
        BY <1>2, <4>1 DEF Busy
    <3>3. QED
      BY <3>1, <3>2
  <2>4. DataFromItsNode'
    <3>1. CASE Store(s)
      <4>1. PICK q \in session[s].rows :
              results' = results \cup
                {[query |-> q, host |-> session[s].host, sender |-> session[s].from]}
        BY <3>1, StoredOne
      <4>2. QED
        BY <1>2, <2>1, <4>1 DEF DataFromItsNode, OwnHost
    <3>2. QED
      BY <1>2, <1>6, <3>1, Frame DEF DataFromItsNode
  <2>5. Given1'
    <3>1. CASE Receive(session[s].from, s)
      <4>1. got' = [got EXCEPT ![session[s].from] =
              [q \in Queries |-> IF q \in session[s].out THEN More(@[q]) ELSE @[q]]]
        BY <3>1 DEF Receive
      <4>2. session[s].from \in Hosts
        BY <2>1 DEF Requests
      <4>3. QED
        BY <1>2, <2>1, <4>1, <4>2 DEF OwnHost, TypeOK
    <3>2. CASE ~ Receive(session[s].from, s)
      <4>1. got' = got
        BY <1>6, <3>2, AgentsStay, ReplyStep
      <4>2. QED
        BY <1>2, <4>1
    <3>3. QED
      BY <3>1, <3>2
  <2>6. QED
    BY <2>2, <2>3, <2>4, <2>5
<1>7. QED
  BY <1>2, <1>3, <1>4, <1>5, <1>6 DEF Next

LEMMA TroubleInit == Init => ShapeOK /\ HostInv
<1> SUFFICES ASSUME Init PROVE ShapeOK /\ HostInv
  OBVIOUS
<1>1. \A s \in Slots : ~ Busy(s)
  BY DEF Init, Busy
<1>2. ShapeOK
  BY <1>1 DEF Init, ShapeOK, WaitedFor, Waiting
<1>3. KeysFresh
  BY <1>1 DEF Init, KeysFresh, Holder
<1>4. QED
  BY <1>1, <1>2, <1>3 DEF Init, HostInv, DataFromItsNode

(* Up to the first restart every query reaches the host it is meant for    *)
(* and every result is stored under its sender: keys are drawn without     *)
(* repetition, and a key leads to one host only (enroll, validate_node_key *)
(* and the loops of distributed_read and distributed_write).               *)
THEOREM RightHostUntilRestart == Spec => []WrongHostNeedsRestart
<1>1. TypeOK /\ ShapeOK /\ HostInv /\ [Next]_vars => (ShapeOK /\ HostInv)'
  BY ShapeStep, HostStep
<1>2. HostInv => WrongHostNeedsRestart
  BY DEF HostInv, WrongHostNeedsRestart
<1>3. QED
  BY <1>1, <1>2, TroubleInit, FleetTypeCorrect, PTL DEF Spec

-----------------------------------------------------------------------------
(* Before the first database error: a report covers all its agent still    *)
(* has to report.                                                          *)

HasResult(h, q) == \E r \in results : r.query = q /\ r.sender = h

(* What request r of host h reports, or has already stored.                *)
Covers(h, r) ==
  r.kind = "write" =>
    IF r.pc = "reply" THEN r.status # "ok"
    ELSE \A q \in work[h] : q \in r.rows \/ HasResult(h, q)

ReportInv ==
  faults = 0 =>
    /\ \A h \in Hosts : Waiting(h) => Covers(h, session[asked[h]])
    /\ \A h \in Hosts, q \in Queries : (got[h][q] > 0 /\ q \notin work[h]) => HasResult(h, q)

LEMMA ServedCovers ==
  ASSUME TypeOK, ShapeOK, NEW s \in Slots, Serve(s), ~ Reply(s),
         NEW h \in Hosts, session[s].from = h, Covers(h, session[s])
  PROVE  Covers(h, session[s])'
<1> DEFINE r == session[s]
           n == session'[s]
<1>1. r \in Requests /\ Shape(r)
  BY ServedIsBusy DEF ShapeOK
<1>2. n.from = h /\ n.kind = r.kind /\ work' = work
  BY SenderStays, AgentsStay
<1>3. r.kind = "write" => Validate(s) \/ Store(s)
  BY <1>1 DEF Shape, Serve, Draw, CheckKey, Register, UpdateKey, InsertNode, Select, Mark
<1>4. CASE Validate(s)
  <2>1. r.pc = "start" /\ results' = results
    BY <1>4 DEF Validate, tables
  <2>2. QED
    BY <1>2, <1>4, <2>1, Validated DEF Covers, HasResult
<1>5. CASE Store(s)
  <2>1. PICK q \in r.rows :
          /\ n.rows = r.rows \ {q}
          /\ results' = results \cup {[query |-> q, host |-> r.host, sender |-> h]}
    BY <1>5, StoredOne
  <2>2. r.pc = "store" /\ n.pc = "store"
    BY <1>5, StoredOne DEF Store
  <2>3. \A p \in Queries : HasResult(h, p) => HasResult(h, p)'
    BY <2>1 DEF HasResult
  <2>4. HasResult(h, q)'
    <3>1. [query |-> q, host |-> r.host, sender |-> h] \in results'
      BY <2>1
    <3>2. QED
      BY <3>1 DEF HasResult
  <2>5. work[h] \subseteq Queries
    BY DEF TypeOK
  <2>6. QED
    BY <1>2, <2>1, <2>2, <2>3, <2>4, <2>5 DEF Covers
<1>6. QED
  BY <1>2, <1>3, <1>4, <1>5 DEF Covers

LEMMA ResultsStay ==
  ASSUME TypeOK, [Next]_vars
  PROVE  \A h \in Hosts, q \in Queries : HasResult(h, q) => HasResult(h, q)'
<1>1. results \subseteq results'
  <2>1. CASE \E s \in Slots : Serve(s) \/ MarkFails(s) \/ Fail(s)
    BY <2>1, Frame, StoredOne
  <2>2. QED
    BY <2>1 DEF Next, Schedule, DeleteNode, GiveUp, Ask, Restart, tables, vars
<1>2. QED
  BY <1>1 DEF HasResult

LEMMA ReportStep == TypeOK /\ ShapeOK /\ ReportInv /\ [Next]_vars => ReportInv'
<1> SUFFICES ASSUME TypeOK, ShapeOK, ReportInv, [Next]_vars, faults' = 0 PROVE ReportInv'
  BY DEF ReportInv
<1> USE FleetAssumption
<1> DEFINE Reported ==
      \A h \in Hosts, q \in Queries : (got[h][q] > 0 /\ q \notin work[h]) => HasResult(h, q)
<1>1. faults = 0 /\ ~ \E s \in Slots : MarkFails(s) \/ Fail(s)
  <2>1. ASSUME NEW s \in Slots, MarkFails(s) \/ Fail(s) PROVE FALSE
    <3>1. faults' = faults + 1
      BY <2>1 DEF MarkFails, Fail
    <3>2. faults \in Nat
      BY DEF TypeOK
    <3>3. QED
      BY <3>1, <3>2
  <2>2. CASE \E s \in Slots : Serve(s)
    BY <2>1, <2>2, Frame
  <2>3. QED
    BY <2>1, <2>2 DEF Next, Schedule, DeleteNode, GiveUp, Ask, Restart, counts, vars
<1>2. Reported /\ \A h \in Hosts : Waiting(h) => Covers(h, session[asked[h]])
  BY <1>1 DEF ReportInv
<1>3. CASE \/ \E q \in Queries : Schedule(q)
           \/ \E h \in Hosts : DeleteNode(h)
           \/ UNCHANGED vars
  <2>1. UNCHANGED <<session, asked, work, got, results>>
    BY <1>3 DEF Schedule, DeleteNode, agents, tables, vars
  <2>2. QED
    BY <1>2, <2>1 DEF ReportInv, Waiting, Covers, HasResult
<1>4. ASSUME NEW h \in Hosts, GiveUp(h) PROVE ReportInv'
  <2>1. UNCHANGED <<session, work, got, results>> /\ asked' = [asked EXCEPT ![h] = "none"]
    BY <1>4 DEF GiveUp, tables
  <2>2. QED
    BY <1>2, <2>1 DEF ReportInv, Waiting, Covers, HasResult, TypeOK
<1>5. ASSUME NEW h \in Hosts, NEW s \in Slots, Ask(h, s) PROVE ReportInv'
  <2>1. UNCHANGED <<work, got, results>> /\ asked' = [asked EXCEPT ![h] = s] /\ session[s] = Free
    BY <1>5 DEF Ask, tables
  <2>2. \A t \in Slots \ {s} : session'[t] = session[t]
    BY <1>5, Asked
  <2>3. session'[s].pc = "start" /\ (session'[s].kind = "write" => session'[s].rows = work[h])
    BY <1>5, Asked
  <2>4. Covers(h, session[s])'
    BY <2>1, <2>3 DEF Covers
  <2>5. \A g \in Hosts \ {h} : Waiting(g) => asked[g] \in Slots \ {s}
    BY <2>1 DEF ShapeOK, WaitedFor, Waiting, Busy, TypeOK
  <2>6. \A g \in Hosts \ {h} : asked'[g] = asked[g]
    BY <2>1 DEF TypeOK
  <2>7. \A g \in Hosts : Waiting(g)' => Covers(g, session[asked[g]])'
    BY <1>2, <2>1, <2>2, <2>4, <2>5, <2>6 DEF Waiting, Covers, HasResult, TypeOK
  <2>8. QED
    BY <1>2, <2>1, <2>7 DEF ReportInv, HasResult
<1>6. ASSUME NEW s \in Slots, Serve(s), ~ Reply(s) PROVE ReportInv'
  <2>1. UNCHANGED <<work, got, asked>> /\ \A t \in Slots \ {s} : session'[t] = session[t]
    BY <1>6, AgentsStay, OthersStay
  <2>2. \A g \in Hosts, q \in Queries : HasResult(g, q) => HasResult(g, q)'
    BY ResultsStay
  <2>3. \A g \in Hosts : work[g] \subseteq Queries
    BY DEF TypeOK
  <2>4. ASSUME NEW g \in Hosts, Waiting(g)' PROVE Covers(g, session[asked[g]])'
    <3>1. Waiting(g) /\ asked[g] \in Slots /\ session[asked[g]].from = g
      BY <2>1, <2>4 DEF Waiting, ShapeOK, WaitedFor, TypeOK
    <3>2. CASE asked[g] = s
      BY <1>2, <1>6, <2>1, <3>1, <3>2, ServedCovers DEF Covers, HasResult
    <3>3. CASE asked[g] # s
      BY <1>2, <2>1, <2>2, <2>3, <3>1, <3>3 DEF Covers
    <3>4. QED
      BY <3>2, <3>3
  <2>5. QED
    BY <1>2, <2>1, <2>2, <2>4 DEF ReportInv
<1>7. ASSUME NEW s \in Slots, Reply(s) PROVE ReportInv'
  <2> DEFINE h == session[s].from
             r == session[s]
  <2>1. r \in Requests /\ Busy(s) /\ h \in Hosts /\ Shape(r)
    BY <1>7, ServedIsBusy DEF Serve, Requests, ShapeOK
  <2>2. results' = results /\ \A t \in Slots \ {s} : session'[t] = session[t]
    BY <1>7, ReplyStep
  <2>3. \A g \in Hosts \ {h} : Waiting(g) => asked[g] \in Slots \ {s}
    BY DEF ShapeOK, WaitedFor, Waiting, TypeOK
  <2>4. CASE asked[h] = s /\ Receive(h, s)
    <3>1. /\ asked' = [asked EXCEPT ![h] = "none"]
          /\ \A g \in Hosts \ {h} : work'[g] = work[g] /\ got'[g] = got[g]
      BY <2>1, <2>4 DEF Receive, TypeOK
    <3>2. \A g \in Hosts : Waiting(g)' => Covers(g, session[asked[g]])'
      BY <1>2, <2>1, <2>2, <2>3, <3>1 DEF Waiting, Covers, HasResult, TypeOK
    <3>3. ASSUME NEW q \in Queries, got'[h][q] > 0, q \notin work'[h] PROVE HasResult(h, q)
      <4>1. got[h][q] > 0 \/ q \in r.out
        BY <2>1, <2>4, <3>3 DEF Receive, TypeOK
      <4>2. work'[h] = IF r.status # "ok" THEN work[h]
                       ELSE IF r.kind = "write" THEN {} ELSE work[h] \cup r.out
        BY <2>1, <2>4 DEF Receive, TypeOK
      <4>3. CASE r.kind = "write"
        <5>1. r.out = {} /\ got[h][q] > 0
          BY <2>1, <4>1, <4>3 DEF Shape
        <5>2. Waiting(h) /\ Covers(h, r)
          BY <1>2, <2>1, <2>4 DEF Waiting
        <5>3. CASE r.pc = "reply"
          BY <1>2, <2>1, <3>3, <4>2, <4>3, <5>1, <5>2, <5>3 DEF Covers
        <5>4. CASE r.pc # "reply"
          <6>1. r.rows = {}
            BY <1>7, <5>4 DEF Reply, Complete
          <6>2. q \in work[h] => HasResult(h, q)
            BY <4>3, <5>2, <5>4, <6>1 DEF Covers
          <6>3. QED
            BY <1>2, <2>1, <5>1, <6>2
        <5>5. QED
          BY <5>3, <5>4
      <4>4. CASE r.kind # "write"
        <5>1. q \notin r.out /\ q \notin work[h]
          BY <2>1, <3>3, <4>2, <4>4 DEF Shape
        <5>2. QED
          BY <1>2, <2>1, <4>1, <5>1
      <4>5. QED
        BY <4>3, <4>4
    <3>4. QED
      BY <1>2, <2>1, <2>2, <3>1, <3>2, <3>3 DEF ReportInv, HasResult
  <2>5. CASE asked[h] # s /\ UNCHANGED <<asked, work, got>>
    <3>1. \A g \in Hosts : Waiting(g) => asked[g] \in Slots \ {s}
      BY <2>3, <2>5 DEF Waiting, TypeOK
    <3>2. \A g \in Hosts : Waiting(g)' => Covers(g, session[asked[g]])'
      BY <1>2, <2>2, <2>5, <3>1 DEF Waiting, Covers, HasResult
    <3>3. QED
      BY <1>2, <2>2, <2>5, <3>2 DEF ReportInv, HasResult
  <2>6. QED
    BY <1>7, <2>4, <2>5, ReplyStep
<1>8. CASE Restart
  <2>1. UNCHANGED <<work, got, results>> /\ asked' = [h \in Hosts |-> "none"]
    BY <1>8 DEF Restart, tables
  <2>2. QED
    BY <1>2, <2>1 DEF ReportInv, Waiting, HasResult
<1>9. QED
  BY <1>1, <1>3, <1>4, <1>5, <1>6, <1>7, <1>8 DEF Next

(* Nothing an agent has reported on gets lost, whatever else is restarted, *)
(* deleted or given up on, unless the database fails (distributed_write    *)
(* skips the rest of a report after an error and answers as if it had not).*)
THEOREM ReportsKeptUntilFault == Spec => []LostResultNeedsFault
<1>1. Init => ReportInv
  BY DEF Init, ReportInv, Waiting
<1>2. TypeOK => (ReportInv => LostResultNeedsFault)
  BY DEF TypeOK, ReportInv, LostResultNeedsFault, HasResult
<1>3. Init => ShapeOK
  BY TroubleInit
<1>4. TypeOK /\ ShapeOK /\ ReportInv /\ [Next]_vars => (ShapeOK /\ ReportInv)'
  BY ShapeStep, ReportStep
<1>5. QED
  BY <1>1, <1>2, <1>3, <1>4, FleetTypeCorrect, PTL DEF Spec

-----------------------------------------------------------------------------
(* Without any trouble an agent has one session at most, and a query is in *)
(* one of these places: still to be marked, in an answer, with the agent.  *)

OneSession == \A s \in Slots : Busy(s) => asked[session[s].from] = s

OnePlace(r) ==
  /\ r.pc = "mark" => \A q \in r.rows : queue[q] = "queued"
  /\ \A q \in r.out : queue[q] = "sent" /\ \A h \in Hosts : got[h][q] = 0

GotOnce == \A h \in Hosts, q \in Queries : got[h][q] > 0 => queue[q] = "sent" /\ got[h][q] = 1

OnceInv ==
  faults = 0 /\ timeouts = 0 /\ restarts = 0 =>
    /\ OneSession
    /\ \A s \in Slots : Busy(s) => OnePlace(session[s])
    /\ GotOnce

LEMMA MarkOnce ==
  ASSUME TypeOK, ShapeOK, OneSession, GotOnce, NEW s \in Slots, Mark(s),
         \A t \in Slots : Busy(t) => OnePlace(session[t]) /\ OwnHost(session[t])
  PROVE  GotOnce' /\ \A t \in Slots : Busy(t)' => OnePlace(session[t])'
<1> DEFINE r == session[s]
           n == session'[s]
<1>1. r \in Requests /\ Busy(s) /\ r.pc = "mark"
  BY ServedIsBusy DEF Serve, Mark
<1>2. PICK q \in r.rows : /\ n.out = r.out \cup {q} /\ n.rows = r.rows \ {q}
                          /\ queue' = [queue EXCEPT ![q] = "sent"]
  BY Marked
<1>3. n.pc = "mark" /\ got' = got /\ \A t \in Slots \ {s} : session'[t] = session[t]
  BY Marked, OthersStay, AgentsStay DEF Serve, Mark, agents
<1>4. q \in Queries /\ queue[q] = "queued" /\ HostOf[q] = r.from
  BY <1>1, <1>2 DEF Requests, OnePlace, OwnHost
<1>5. queue'[q] = "sent" /\ \A p \in Queries \ {q} : queue'[p] = queue[p]
  BY <1>2, <1>4 DEF TypeOK
<1>6. \A h \in Hosts : got[h][q] = 0
  BY <1>4 DEF GotOnce, TypeOK
<1>7. GotOnce'
  BY <1>3, <1>5, <1>6 DEF GotOnce
<1>8. r.rows \subseteq Queries /\ r.out \subseteq Queries
  BY <1>1 DEF Requests
<1>9. OnePlace(session[s])'
  <2>1. OnePlace(r)
    BY <1>1
  <2>2. q \notin r.out
    BY <1>4, <2>1 DEF OnePlace
  <2>3. \A p \in n.rows : queue'[p] = "queued"
    BY <1>1, <1>2, <1>5, <1>8, <2>1 DEF OnePlace
  <2>4. \A p \in n.out : queue'[p] = "sent" /\ \A h \in Hosts : got'[h][p] = 0
    BY <1>2, <1>3, <1>5, <1>6, <1>8, <2>1, <2>2 DEF OnePlace
  <2>5. QED
    BY <1>3, <2>3, <2>4 DEF OnePlace
<1>10. ASSUME NEW t \in Slots \ {s}, Busy(t) PROVE OnePlace(session[t])'
  <2> DEFINE u == session[t]
  <2>1. OnePlace(u) /\ OwnHost(u) /\ u.from # r.from
    BY <1>1, <1>10 DEF OneSession
  <2>2. u \in Requests /\ session'[t] = u
    BY <1>3, <1>10 DEF Busy, TypeOK
  <2>3. u.rows \subseteq Queries /\ u.out \subseteq Queries
    BY <2>2 DEF Requests
  <2>4. (u.pc = "mark" => q \notin u.rows) /\ q \notin u.out
    BY <1>4, <2>1 DEF OwnHost
  <2>5. u.pc = "mark" => \A p \in u.rows : queue'[p] = "queued"
    BY <1>5, <2>1, <2>3, <2>4 DEF OnePlace
  <2>6. \A p \in u.out : queue'[p] = "sent" /\ \A h \in Hosts : got'[h][p] = 0
    BY <1>3, <1>5, <2>1, <2>3, <2>4 DEF OnePlace
  <2>7. QED
    BY <2>2, <2>5, <2>6 DEF OnePlace
<1>11. QED
  BY <1>3, <1>7, <1>9, <1>10 DEF Busy

LEMMA ReplyOnce ==
  ASSUME TypeOK, ShapeOK, OneSession, GotOnce, NEW s \in Slots, Reply(s),
         \A t \in Slots : Busy(t) => OnePlace(session[t]) /\ OwnHost(session[t])
  PROVE  (OneSession /\ GotOnce)' /\ \A t \in Slots : Busy(t)' => OnePlace(session[t])'
<1> DEFINE r == session[s]
<1>1. r \in Requests /\ Busy(s) /\ r.from \in Hosts /\ r.out \subseteq Queries
  BY ServedIsBusy DEF Serve, Requests
<1>2. queue' = queue /\ session'[s] = Free /\ \A t \in Slots \ {s} : session'[t] = session[t]
  BY ReplyStep
<1>3. asked[r.from] = s
  BY <1>1 DEF OneSession
<1>4. Receive(r.from, s)
  BY <1>3, ReplyStep
<1>5. PICK h \in Hosts : h = r.from
  BY <1>1
<1>6. /\ asked' = [asked EXCEPT ![h] = "none"]
      /\ \A g \in Hosts \ {h} : got'[g] = got[g]
      /\ \A q \in Queries : got'[h][q] = IF q \in r.out THEN More(got[h][q]) ELSE got[h][q]
  BY <1>4, <1>5 DEF Receive, TypeOK
<1>7. OnePlace(r) /\ OwnHost(r)
  BY <1>1
<1>8. GotOnce'
  BY <1>2, <1>6, <1>7 DEF GotOnce, OnePlace, More
<1>9. ASSUME NEW t \in Slots \ {s}, Busy(t)
      PROVE  OnePlace(session[t])' /\ asked'[session'[t].from] = t
  <2> DEFINE u == session[t]
  <2>1. OnePlace(u) /\ OwnHost(u) /\ u.from # h /\ asked[u.from] = t
    BY <1>1, <1>5, <1>9 DEF OneSession
  <2>2. u \in Requests /\ session'[t] = u
    BY <1>2, <1>9 DEF Busy, TypeOK
  <2>3. u.from \in Hosts /\ u.out \subseteq Queries
    BY <2>2 DEF Requests
  <2>4. \A q \in u.out : q \notin r.out
    BY <1>5, <1>7, <2>1 DEF OwnHost
  <2>5. \A q \in u.out : \A g \in Hosts : got'[g][q] = 0
    BY <1>6, <2>1, <2>3, <2>4 DEF OnePlace
  <2>6. asked'[u.from] = t
    BY <1>6, <2>1, <2>3 DEF TypeOK
  <2>7. QED
    BY <1>2, <2>1, <2>2, <2>5, <2>6 DEF OnePlace
<1>10. QED
  BY <1>2, <1>8, <1>9 DEF OneSession, Busy

(* A step of a session that is neither of these two.                       *)
LEMMA ServeOnce ==
  ASSUME TypeOK, ShapeOK, OneSession, GotOnce, NEW s \in Slots, Serve(s),
         ~ Reply(s), ~ Mark(s), \A t \in Slots : Busy(t) => OnePlace(session[t])
  PROVE  (OneSession /\ GotOnce)' /\ \A t \in Slots : Busy(t)' => OnePlace(session[t])'
<1> DEFINE r == session[s]
           n == session'[s]
<1>1. r \in Requests /\ Busy(s) /\ OnePlace(r)
  BY ServedIsBusy
<1>2. /\ UNCHANGED <<queue, asked, got>> /\ n.from = r.from
      /\ \A t \in Slots \ {s} : session'[t] = session[t]
  BY Frame, AgentsStay, SenderStays, OthersStay
<1>3. n.out = r.out /\ (n.pc = "mark" => \A q \in n.rows : queue[q] = "queued")
  <2>1. CASE Select(s)
    BY <2>1, Selected DEF Unsent
  <2>2. CASE ~ Select(s)
    BY <2>2, Enrolling, Enrolled, Validated, StoredOne DEF Serve
  <2>3. QED
    BY <2>1, <2>2
<1>4. OnePlace(session[s])'
  BY <1>1, <1>2, <1>3 DEF OnePlace
<1>5. \A t \in Slots : Busy(t)' => OnePlace(session[t])'
  BY <1>2, <1>4 DEF OnePlace, Busy
<1>6. (OneSession /\ GotOnce)'
  BY <1>1, <1>2 DEF OneSession, GotOnce, Busy
<1>7. QED
  BY <1>5, <1>6

LEMMA OnceStep == TypeOK /\ ShapeOK /\ HostInv /\ OnceInv /\ [Next]_vars => OnceInv'
<1> SUFFICES ASSUME TypeOK, ShapeOK, HostInv, OnceInv, [Next]_vars,
                    faults' = 0, timeouts' = 0, restarts' = 0
             PROVE  (OneSession /\ GotOnce)' /\ \A s \in Slots : Busy(s)' => OnePlace(session[s])'
  BY DEF OnceInv
<1> USE FleetAssumption
<1>1. faults \in Nat /\ timeouts \in Nat /\ restarts \in Nat
  BY DEF TypeOK
<1>2. /\ faults = 0 /\ timeouts = 0 /\ restarts = 0
      /\ ~ Restart /\ ~ (\E h \in Hosts : GiveUp(h))
      /\ ~ (\E s \in Slots : MarkFails(s) \/ Fail(s))
  <2>1. ~ Restart
    BY <1>1 DEF Restart
  <2>2. ~ (\E h \in Hosts : GiveUp(h))
    BY <1>1 DEF GiveUp
  <2>3. ~ (\E s \in Slots : MarkFails(s) \/ Fail(s))
    <3>1. \A s \in Slots : MarkFails(s) \/ Fail(s) => faults' = faults + 1
      BY DEF MarkFails, Fail
    <3>2. QED
      BY <1>1, <3>1
  <2>4. CASE \E s \in Slots : Serve(s)
    BY <2>1, <2>2, <2>3, <2>4, Frame
  <2>5. CASE ~ \E s \in Slots : Serve(s)
    BY <2>1, <2>2, <2>3, <2>5 DEF Next, Schedule, DeleteNode, Ask, counts, vars
  <2>6. QED
    BY <2>1, <2>2, <2>3, <2>4, <2>5
<1>3. /\ OneSession /\ GotOnce
      /\ \A s \in Slots : Busy(s) => OnePlace(session[s]) /\ OwnHost(session[s])
  BY <1>2 DEF OnceInv, HostInv
<1>4. CASE \/ \E h \in Hosts : DeleteNode(h)
           \/ UNCHANGED vars
  <2>1. UNCHANGED <<queue, session, asked, got>>
    BY <1>4 DEF DeleteNode, agents, tables, vars
  <2>2. QED
    BY <1>3, <2>1 DEF OneSession, GotOnce, OnePlace, Busy
<1>5. ASSUME NEW q \in Queries, Schedule(q)
      PROVE  (OneSession /\ GotOnce)' /\ \A s \in Slots : Busy(s)' => OnePlace(session[s])'
  <2>1. UNCHANGED <<session, asked, got>>
    BY <1>5 DEF Schedule, agents
  <2>2. \A p \in Queries : queue'[p] = queue[p] \/ (queue[p] = "absent" /\ queue'[p] = "queued")
    BY <1>5 DEF Schedule, TypeOK
  <2>3. \A s \in Slots : Busy(s) => session[s].rows \subseteq Queries /\ session[s].out \subseteq Queries
    BY DEF TypeOK, Requests, Busy
  <2>4. \A s \in Slots : Busy(s)' => OnePlace(session[s])'
    BY <1>3, <2>1, <2>2, <2>3 DEF OnePlace, Busy
  <2>5. (OneSession /\ GotOnce)'
    BY <1>3, <2>1, <2>2 DEF OneSession, GotOnce, Busy
  <2>6. QED
    BY <2>4, <2>5
<1>6. ASSUME NEW h \in Hosts, NEW s \in Slots, Ask(h, s)
      PROVE  (OneSession /\ GotOnce)' /\ \A t \in Slots : Busy(t)' => OnePlace(session[t])'
  <2>1. UNCHANGED <<queue, got>> /\ asked' = [asked EXCEPT ![h] = s] /\ ~ Waiting(h)
    BY <1>6 DEF Ask, tables
  <2>2. /\ \A t \in Slots \ {s} : session'[t] = session[t]
        /\ session'[s].from = h /\ session'[s].out = {} /\ session'[s].pc = "start"
    BY <1>6, Asked
  <2>3. \A t \in Slots : Busy(t) => session[t].from \in Hosts \ {h}
    BY <1>3, <2>1 DEF OneSession, Waiting, TypeOK, Requests, Busy
  <2>4. OneSession'
    BY <1>3, <2>1, <2>2, <2>3 DEF OneSession, Busy, TypeOK
  <2>5. \A t \in Slots : Busy(t)' => OnePlace(session[t])'
    BY <1>3, <2>1, <2>2 DEF OnePlace, Busy
  <2>6. QED
    BY <1>3, <2>1, <2>4, <2>5 DEF GotOnce
<1>7. ASSUME NEW s \in Slots, Serve(s)
      PROVE  (OneSession /\ GotOnce)' /\ \A t \in Slots : Busy(t)' => OnePlace(session[t])'
  <2>1. CASE Mark(s)
    <3>1. Busy(s) /\ session'[s].from = session[s].from /\ asked' = asked
          /\ \A t \in Slots \ {s} : session'[t] = session[t]
      BY <1>7, <2>1, ServedIsBusy, SenderStays, OthersStay, Marked, Frame DEF Mark, agents, Reply, Complete
    <3>2. OneSession'
      BY <1>3, <3>1 DEF OneSession, Busy
    <3>3. QED
      BY <1>3, <2>1, <3>2, MarkOnce
  <2>2. CASE Reply(s)
    BY <1>3, <2>2, ReplyOnce
  <2>3. CASE ~ Mark(s) /\ ~ Reply(s)
    BY <1>3, <1>7, <2>3, ServeOnce
  <2>4. QED
    BY <2>1, <2>2, <2>3
<1>8. QED
  BY <1>2, <1>4, <1>5, <1>6, <1>7 DEF Next

(* While nothing is restarted, given up on or broken, no agent is given    *)
(* the same query twice, although the update that marks a query follows    *)
(* its selection at a distance (distributed_read).                         *)
THEOREM OnceUntilTrouble == Spec => []TwiceNeedsTrouble
<1>1. Init => OnceInv
  BY DEF Init, OnceInv, OneSession, GotOnce, Busy
<1>2. TypeOK => (OnceInv => TwiceNeedsTrouble)
  <2> SUFFICES ASSUME TypeOK, OnceInv, NEW h \in Hosts, NEW q \in Queries, got[h][q] > 1,
                      faults = 0, timeouts = 0, restarts = 0
               PROVE  FALSE
    BY FleetAssumption DEF TypeOK, TwiceNeedsTrouble
  <2>1. got[h][q] \in 0..2
    BY DEF TypeOK
  <2>2. got[h][q] > 0 => got[h][q] = 1
    BY DEF OnceInv, GotOnce
  <2>3. QED
    BY <2>1, <2>2
<1>3. TypeOK /\ ShapeOK /\ HostInv /\ OnceInv /\ [Next]_vars => (ShapeOK /\ HostInv /\ OnceInv)'
  BY ShapeStep, HostStep, OnceStep
<1>4. QED
  BY <1>1, <1>2, <1>3, TroubleInit, FleetTypeCorrect, PTL DEF Spec
=============================================================================
