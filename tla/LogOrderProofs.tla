---------------------------- MODULE LogOrderProofs ----------------------------
(***************************************************************************)
(* That the rows of a host are in the order of its log, for any number of  *)
(* hosts and handlers: FirstRowsInOrder of LogIngest.                      *)
(***************************************************************************)
EXTENDS LogIngestProofs

(* An event that should have a row and has none.                           *)
Gap(h, i) == KindOf(h, i) = "sound" /\ ~ Stored(h, i)

(* Of what an agent has not dropped yet, nothing is stored without what    *)
(* was logged before it.                                                   *)
BehindOK ==
  \A n \in DOMAIN rows :
    \A i \in sent[rows[n].from] + 1 .. rows[n].entry - 1 : ~ Gap(rows[n].from, i)

(* The loop of handler s has left nothing out that its agent still has.    *)
Passed(s) ==
  \A i \in sent[session[s].from] + 1 .. session[s].next - 1 : ~ Gap(session[s].from, i)

LoopsOK ==
  \A s \in Slots : Busy(s) =>
    /\ session[s].pc \in {"lookup", "validate"} =>
         session[s].next <= sent[session[s].from] + 1
    /\ session[s].pc = "store" /\ Own(s) => Passed(s)

(* Without a timeout an agent has no handler but the one it waits for.     *)
AloneOK ==
  trouble.timeouts = 0 =>
    \A s \in Slots : Busy(s) => asked[session[s].from] = s

(* Without an error or a delete, a handler that ended early stands at the  *)
(* entry that did not convert; and one that comes late, when the agent has *)
(* dropped an event that was never stored, will end before that event: it  *)
(* has to pass the entry that was in the way of the handler before it.     *)
CalmSession(s) ==
  /\ Passed(s)
  /\ session[s].pc = "reply" =>
       /\ KindOf(session[s].from, session[s].next) = "bad"
       /\ session[s].next <= session[s].last
  /\ session[s].pc # "reply" =>
       /\ \A i \in sent[session[s].from] + 1 .. session[s].next - 1 :
            KindOf(session[s].from, i) # "bad"
       /\ \A i \in session[s].next .. session[s].last :
            i <= sent[session[s].from] /\ Gap(session[s].from, i) =>
              \E b \in session[s].next .. i - 1 : KindOf(session[s].from, b) = "bad"

CalmOK ==
  trouble.faults = 0 /\ trouble.deletes = 0 =>
    \A s \in Slots : Busy(s) => CalmSession(s)

OrderIInv == LostIInv /\ BehindOK /\ LoopsOK /\ AloneOK /\ CalmOK /\ FirstRowsInOrder

LEMMA OrderInit == Init => OrderIInv
<1> SUFFICES ASSUME Init PROVE OrderIInv
  OBVIOUS
<1>1. LostIInv
  BY LostInit
<1>2. BehindOK /\ FirstRowsInOrder
  BY DEF Init, BehindOK, FirstRowsInOrder
<1>3. LoopsOK /\ AloneOK /\ CalmOK
  BY DEF Init, LoopsOK, AloneOK, CalmOK, Busy
<1>4. QED
  BY <1>1, <1>2, <1>3 DEF OrderIInv

LEMMA GapsClose ==
  ASSUME TypeOK, NEW x \in [from : Hosts, entry : Nat, host : Hosts, name : Hosts],
         rows' = rows \/ rows' = Append(rows, x),
         NEW h \in Hosts, NEW i, Gap(h, i)'
  PROVE  Gap(h, i)
<1>1. rows \in Seq([from : Hosts, entry : Nat, host : Hosts, name : Hosts])
  BY DEF TypeOK
<1>2. \A n \in DOMAIN rows : n \in DOMAIN rows' /\ rows'[n] = rows[n]
  BY <1>1
<1>3. Stored(h, i) => Stored(h, i)'
  BY <1>2 DEF Stored
<1>4. QED
  BY <1>3 DEF Gap, KindOf

(* Steps that no handler has a part in.                                    *)
LEMMA OrderFrame ==
  ASSUME OrderIInv, LostIInv', UNCHANGED <<rows, session, sent>>,
         trouble'.timeouts = 0 => trouble.timeouts = 0 /\ asked' = asked,
         trouble'.faults = 0 => trouble.faults = 0,
         trouble'.deletes = 0 => trouble.deletes = 0
  PROVE  OrderIInv'
<1>1. \A h, i : Gap(h, i)' <=> Gap(h, i)
  BY DEF Gap, Stored, KindOf
<1>2. BehindOK' /\ FirstRowsInOrder'
  BY <1>1 DEF OrderIInv, BehindOK, FirstRowsInOrder, Stored
<1>3. LoopsOK'
  BY <1>1 DEF OrderIInv, LoopsOK, Passed, Own, Busy
<1>4. AloneOK'
  BY DEF OrderIInv, AloneOK, Busy
<1>5. CalmOK'
  BY <1>1 DEF OrderIInv, CalmOK, CalmSession, Passed, Busy, KindOf
<1>6. QED
  BY <1>2, <1>3, <1>4, <1>5 DEF OrderIInv

(* A handler's step, for what the handler has become.                      *)
LEMMA OrderMove ==
  ASSUME OrderIInv, LostIInv', NEW s \in Slots, Busy(s), NEW r \in Requests, Becomes(s, r),
         NEW h \in Hosts, session[s].from = h, r.from = h,
         UNCHANGED agents,
         NEW x \in [from : Hosts, entry : Nat, host : Hosts, name : Hosts],
         rows' = rows \/ rows' = Append(rows, x),
         trouble'.timeouts = trouble.timeouts,
         trouble'.faults = 0 => trouble.faults = 0,
         trouble'.deletes = trouble.deletes,
         r.pc \in {"lookup", "validate"} => r.next <= sent[h] + 1,
         r.pc = "store" /\ r.host = h => \A i \in sent[h] + 1 .. r.next - 1 : ~ Gap(h, i)',
         trouble'.faults = 0 /\ trouble.deletes = 0 =>
           /\ \A i \in sent[h] + 1 .. r.next - 1 : ~ Gap(h, i)'
           /\ r.pc = "reply" => KindOf(h, r.next) = "bad" /\ r.next <= r.last
           /\ r.pc # "reply" =>
                /\ \A i \in sent[h] + 1 .. r.next - 1 : KindOf(h, i) # "bad"
                /\ \A i \in r.next .. r.last : i <= sent[h] /\ Gap(h, i)' =>
                     \E b \in r.next .. i - 1 : KindOf(h, b) = "bad",
         BehindOK', FirstRowsInOrder'
  PROVE  OrderIInv'
<1>1. /\ session'[s] = r /\ \A q \in Slots : q # s => session'[q] = session[q]
      /\ UNCHANGED <<asked, sent>>
  BY DEF Becomes, agents, OrderIInv, LostIInv, ShapeOK, TypeOK
<1>2. \A g \in Hosts : \A i : Gap(g, i)' => Gap(g, i)
  BY GapsClose DEF OrderIInv, LostIInv, ShapeOK
<1>3. \A q \in Slots : Busy(q) => session[q].from \in Hosts
  BY BusyPc DEF OrderIInv, LostIInv, ShapeOK, Requests
<1>4. ASSUME NEW q \in Slots, q # s, Busy(q)'
      PROVE  Busy(q) /\ session'[q] = session[q] /\ session[q].from \in Hosts
  BY <1>1, <1>3, <1>4 DEF Busy
<1>5. LoopsOK'
  <2> SUFFICES ASSUME NEW q \in Slots, Busy(q)'
               PROVE  /\ session'[q].pc \in {"lookup", "validate"} =>
                           session'[q].next <= sent'[session'[q].from] + 1
                      /\ session'[q].pc = "store" /\ Own(q)' => Passed(q)'
    BY DEF LoopsOK
  <2>1. CASE q = s
    BY <1>1, <2>1 DEF Own, Passed
  <2>2. CASE q # s
    <3>1. Busy(q) /\ session'[q] = session[q] /\ session[q].from \in Hosts
      BY <1>4, <2>2
    <3>2. Passed(q) => Passed(q)'
      BY <1>1, <1>2, <3>1 DEF Passed
    <3>3. QED
      BY <1>1, <3>1, <3>2 DEF OrderIInv, LoopsOK, Own
  <2>3. QED
    BY <2>1, <2>2
<1>6. AloneOK'
  BY <1>1, <1>4 DEF OrderIInv, AloneOK
<1>7. CalmOK'
  <2> SUFFICES ASSUME trouble'.faults = 0, trouble.deletes = 0, NEW q \in Slots, Busy(q)'
               PROVE  CalmSession(q)'
    BY DEF CalmOK
  <2>1. CASE q = s
    BY <1>1, <2>1 DEF CalmSession, Passed, KindOf
  <2>2. CASE q # s
    <3>1. Busy(q) /\ session'[q] = session[q] /\ session[q].from \in Hosts
      BY <1>4, <2>2
    <3>2. CalmSession(q)
      BY <3>1 DEF OrderIInv, CalmOK
    <3>3. QED
      BY <1>1, <1>2, <3>1, <3>2 DEF CalmSession, Passed, KindOf
  <2>3. QED
    BY <2>1, <2>2
<1>8. QED
  BY <1>5, <1>6, <1>7 DEF OrderIInv

(* ... where it stores nothing.                                            *)
LEMMA OrderKept ==
  ASSUME OrderIInv, UNCHANGED <<rows, sent>>,
         trouble'.timeouts = trouble.timeouts,
         trouble'.faults = 0 => trouble.faults = 0,
         trouble'.deletes = trouble.deletes
  PROVE  /\ BehindOK' /\ FirstRowsInOrder'
         /\ \A h, i : Gap(h, i)' <=> Gap(h, i)
<1>1. \A h, i : Gap(h, i)' <=> Gap(h, i)
  BY DEF Gap, Stored, KindOf
<1>2. QED
  BY <1>1 DEF OrderIInv, BehindOK, FirstRowsInOrder, Stored

LEMMA LookupOrder ==
  ASSUME OrderIInv, LostIInv', NEW s \in Slots, Lookup(s) \/ Validate(s)
  PROVE  OrderIInv'
<1> DEFINE rec == session[s]
<1>1. rec \in Requests /\ Busy(s) /\ SessionOK(s) /\ rec.pc \in {"lookup", "validate"}
  <2>1. rec.pc \in {"lookup", "validate"}
    BY DEF Lookup, Validate
  <2>2. QED
    BY <2>1, BusyTyped DEF OrderIInv, LostIInv, ShapeOK
<1>2. UNCHANGED <<nodes, rows, agents, trouble>> /\ UNCHANGED sent
  BY DEF Lookup, Validate, agents
<1>3. PICK h \in Hosts, m \in Nat, l \in Nat : h = rec.from /\ m = rec.next /\ l = rec.last
  BY <1>1 DEF Requests
<1>4. PICK x : x \in [from : Hosts, entry : Nat, host : Hosts, name : Hosts]
  <2>1. [from |-> h, entry |-> 0, host |-> h, name |-> h]
          \in [from : Hosts, entry : Nat, host : Hosts, name : Hosts]
    OBVIOUS
  <2>2. QED
    BY <2>1
<1>5. trouble.deletes = 0 => Owner(rec.key) # {}
  BY <1>1, <1>3 DEF OrderIInv, LostIInv, KeptOK, Owner, SessionOK, Requests
<1>6. m <= sent[h] + 1 /\ sent[h] \in Nat
  BY <1>1, <1>3 DEF OrderIInv, LoopsOK, LostIInv, ShapeOK, TypeOK
<1>7. /\ BehindOK' /\ FirstRowsInOrder' /\ \A g, i : Gap(g, i)' <=> Gap(g, i)
  BY <1>2, OrderKept
<1>8. trouble.faults = 0 /\ trouble.deletes = 0 =>
        \A i \in m .. l : i <= sent[h] /\ Gap(h, i) =>
          \E b \in m .. i - 1 : KindOf(h, b) = "bad"
  BY <1>1, <1>3 DEF OrderIInv, CalmOK, CalmSession
<1>9. ASSUME NEW r \in Requests, Becomes(s, r), r.from = h, r.next = m, r.last = l,
             trouble.deletes = 0 => r.pc # "reply"
      PROVE  OrderIInv'
  <2>1. \A i \in sent[h] + 1 .. m - 1 : FALSE
    BY <1>6
  <2>2. trouble.faults = 0 /\ trouble.deletes = 0 =>
          \A i \in r.next .. r.last : i <= sent[h] /\ Gap(h, i)' =>
            \E b \in r.next .. i - 1 : KindOf(h, b) = "bad"
    BY <1>7, <1>8, <1>9
  <2>3. QED
    BY <1>1, <1>2, <1>3, <1>4, <1>6, <1>7, <1>9, <2>1, <2>2, OrderMove
<1>10. ASSUME NEW st \in {"null", "invalid"}, Answer(s, st), Owner(rec.key) = {}
       PROVE  OrderIInv'
  <2>0. PICK r \in Requests : r = [rec EXCEPT !.pc = "reply", !.status = st]
    BY <1>1 DEF Requests
  <2>1. Becomes(s, r) /\ r.from = h /\ r.next = m /\ r.last = l
    BY <1>1, <1>3, <1>10, <2>0 DEF Answer, Requests
  <2>2. QED
    BY <1>5, <1>9, <1>10, <2>1
<1>11. CASE Lookup(s)
  <2>1. ASSUME NEW g \in Owner(rec.key),
               Becomes(s, [rec EXCEPT !.pc = "validate", !.name = g])
        PROVE  OrderIInv'
    <3>0. PICK r \in Requests : r = [rec EXCEPT !.pc = "validate", !.name = g]
      BY <1>1 DEF Requests, Owner
    <3>1. Becomes(s, r) /\ r.from = h /\ r.next = m /\ r.last = l /\ r.pc = "validate"
      BY <1>1, <1>3, <2>1, <3>0 DEF Requests
    <3>2. QED
      BY <1>9, <3>1
  <2>2. QED
    BY <1>10, <1>11, <2>1 DEF Lookup
<1>12. CASE Validate(s)
  <2>1. ASSUME NEW g \in Owner(rec.key),
               Becomes(s, [rec EXCEPT !.pc = "store", !.host = g, !.status = "valid"])
        PROVE  OrderIInv'
    <3>0. PICK r \in Requests : r = [rec EXCEPT !.pc = "store", !.host = g, !.status = "valid"]
      BY <1>1 DEF Requests, Owner
    <3>1. Becomes(s, r) /\ r.from = h /\ r.next = m /\ r.last = l /\ r.pc = "store"
      BY <1>1, <1>3, <2>1, <3>0 DEF Requests
    <3>2. QED
      BY <1>9, <3>1
  <2>2. QED
    BY <1>10, <1>12, <2>1 DEF Validate
<1>13. QED
  BY <1>11, <1>12

LEMMA SkipOrder ==
  ASSUME OrderIInv, LostIInv', NEW s \in Slots, Skip(s) \/ Throw(s) \/ Fail(s)
  PROVE  OrderIInv'
<1> DEFINE rec == session[s]
<1>1. rec \in Requests /\ Busy(s) /\ SessionOK(s) /\ rec.pc # "reply"
  <2>1. rec.pc \in {"lookup", "validate", "store"}
    BY DEF Skip, Throw, Fail, Turn
  <2>2. QED
    BY <2>1, BusyTyped DEF OrderIInv, LostIInv, ShapeOK
<1>2. /\ UNCHANGED <<nodes, rows, agents>> /\ UNCHANGED sent
      /\ trouble'.timeouts = trouble.timeouts /\ trouble'.deletes = trouble.deletes
      /\ trouble'.faults = 0 => trouble.faults = 0 /\ ~ Fail(s)
  <2>1. CASE Fail(s)
    <3>1. trouble.faults \in Nat
      BY DEF OrderIInv, LostIInv, ShapeOK, TypeOK
    <3>2. QED
      BY <2>1, <3>1, TroubleCounts DEF Fail, agents, OrderIInv, LostIInv, ShapeOK
  <2>2. CASE ~ Fail(s)
    BY <2>2 DEF Skip, Throw, agents
  <2>3. QED
    BY <2>1, <2>2
<1>3. PICK h \in Hosts, m \in Nat, l \in Nat : h = rec.from /\ m = rec.next /\ l = rec.last
  BY <1>1 DEF Requests
<1>4. PICK x : x \in [from : Hosts, entry : Nat, host : Hosts, name : Hosts]
  <2>1. [from |-> h, entry |-> 0, host |-> h, name |-> h]
          \in [from : Hosts, entry : Nat, host : Hosts, name : Hosts]
    OBVIOUS
  <2>2. QED
    BY <2>1
<1>5. /\ BehindOK' /\ FirstRowsInOrder' /\ \A g, i : Gap(g, i)' <=> Gap(g, i)
  BY <1>2, OrderKept
<1>6. sent[h] \in Nat
  BY <1>3 DEF OrderIInv, LostIInv, ShapeOK, TypeOK
<1>7. trouble.faults = 0 /\ trouble.deletes = 0 => CalmSession(s)
  BY <1>1 DEF OrderIInv, CalmOK
<1>8. CASE Skip(s)
  <2>0. PICK r \in Requests : r = [rec EXCEPT !.next = m + 1]
    <3>1. [rec EXCEPT !.next = m + 1] \in Requests
      BY <1>1 DEF Requests
    <3>2. QED
      BY <3>1
  <2>1. /\ Becomes(s, r) /\ rec.pc = "store" /\ (~ Own(s) \/ KindOf(h, m) = "unknown")
        /\ UNCHANGED trouble
    BY <1>3, <1>8, <2>0 DEF Skip, Advance, Turn, Kind
  <2>2. /\ r.from = h /\ r.next = m + 1 /\ r.last = l /\ r.pc = "store" /\ r.host = rec.host
    BY <1>1, <1>3, <2>0, <2>1 DEF Requests
  <2>3. r.host = h => Own(s)
    BY <1>3, <2>2 DEF Own
  <2>4. ASSUME Own(s) PROVE \A i \in sent[h] + 1 .. m : ~ Gap(h, i)
    <3>1. \A i \in sent[h] + 1 .. m - 1 : ~ Gap(h, i)
      BY <1>1, <1>3, <2>1, <2>4 DEF OrderIInv, LoopsOK, Passed
    <3>2. ~ Gap(h, m)
      BY <2>1, <2>4 DEF Gap
    <3>3. QED
      BY <1>3, <1>6, <3>1, <3>2
  <2>5. trouble.deletes = 0 => Own(s)
    BY <1>1, <2>1 DEF OrderIInv, LostIInv, KeptOK, Own
  <2>6. ASSUME trouble.faults = 0, trouble.deletes = 0
        PROVE  /\ \A i \in sent[h] + 1 .. m : KindOf(h, i) # "bad"
               /\ \A i \in m + 1 .. l : i <= sent[h] /\ Gap(h, i) =>
                    \E b \in m + 1 .. i - 1 : KindOf(h, b) = "bad"
    <3>1. KindOf(h, m) = "unknown"
      BY <2>1, <2>5, <2>6
    <3>2. /\ \A i \in sent[h] + 1 .. m - 1 : KindOf(h, i) # "bad"
          /\ \A i \in m .. l : i <= sent[h] /\ Gap(h, i) =>
               \E b \in m .. i - 1 : KindOf(h, b) = "bad"
      BY <1>1, <1>3, <1>7, <2>6 DEF CalmSession
    <3>3. \A i \in sent[h] + 1 .. m : KindOf(h, i) # "bad"
      BY <1>3, <1>6, <3>1, <3>2
    <3>4. ASSUME NEW i \in m + 1 .. l, i <= sent[h], Gap(h, i)
          PROVE  \E b \in m + 1 .. i - 1 : KindOf(h, b) = "bad"
      <4>1. PICK b \in m .. i - 1 : KindOf(h, b) = "bad"
        BY <1>3, <3>2, <3>4
      <4>2. b # m
        BY <3>1, <4>1
      <4>3. b \in m + 1 .. i - 1
        BY <1>3, <3>4, <4>1, <4>2
      <4>4. QED
        BY <4>1, <4>3
    <3>5. QED
      BY <3>3, <3>4
  <2>7. (m + 1) - 1 = m
    BY <1>3
  <2>8. r.pc = "store" /\ r.host = h => \A i \in sent[h] + 1 .. r.next - 1 : ~ Gap(h, i)'
    BY <1>5, <2>2, <2>3, <2>4, <2>7
  <2>9. trouble'.faults = 0 /\ trouble.deletes = 0 =>
           /\ \A i \in sent[h] + 1 .. r.next - 1 : ~ Gap(h, i)'
           /\ \A i \in sent[h] + 1 .. r.next - 1 : KindOf(h, i) # "bad"
           /\ \A i \in r.next .. r.last : i <= sent[h] /\ Gap(h, i)' =>
                     \E b \in r.next .. i - 1 : KindOf(h, b) = "bad"
    BY <1>5, <2>1, <2>2, <2>4, <2>5, <2>6, <2>7
  <2>10. QED
    BY <1>1, <1>2, <1>3, <1>4, <1>5, <2>1, <2>2, <2>8, <2>9, OrderMove
<1>9. CASE Throw(s) \/ Fail(s)
  <2>1. PICK st \in {"null", "valid"} : Answer(s, st)
    BY <1>9 DEF Throw, Fail
  <2>2. PICK r \in Requests : r = [rec EXCEPT !.pc = "reply", !.status = st]
    BY <1>1 DEF Requests
  <2>3. Becomes(s, r) /\ r.from = h /\ r.next = m /\ r.last = l /\ r.pc = "reply"
    BY <1>1, <1>3, <2>1, <2>2 DEF Answer, Requests
  <2>4. ~ Fail(s) => KindOf(h, m) = "bad" /\ m <= l
    BY <1>3, <1>9 DEF Throw, Turn, Kind
  <2>5. trouble'.faults = 0 /\ trouble.deletes = 0 =>
          /\ \A i \in sent[h] + 1 .. r.next - 1 : ~ Gap(h, i)'
          /\ KindOf(h, r.next) = "bad" /\ r.next <= r.last
    BY <1>2, <1>3, <1>5, <1>7, <2>3, <2>4 DEF CalmSession, Passed
  <2>6. QED
    BY <1>1, <1>2, <1>3, <1>4, <1>5, <2>3, <2>5, OrderMove
<1>10. QED
  BY <1>8, <1>9

(* The one step that may leave something out for good.                     *)
LEMMA InsertOrder ==
  ASSUME OrderIInv, LostIInv', NEW s \in Slots, Insert(s)
  PROVE  OrderIInv'
<1> DEFINE rec == session[s]
<1>1. rec \in Requests /\ Busy(s) /\ SessionOK(s) /\ rec.pc = "store" /\ Own(s)
  BY BusyTyped DEF Insert, Turn, OrderIInv, LostIInv, ShapeOK
<1>2. UNCHANGED <<nodes, agents, trouble>> /\ UNCHANGED <<sent, asked>>
  BY DEF Insert, agents
<1>3. PICK h \in Hosts, m \in Nat, l \in Nat, x \in {Row(s)} :
        h = rec.from /\ m = rec.next /\ l = rec.last /\ x = Row(s)
  BY <1>1 DEF Requests
<1>4. /\ x \in [from : Hosts, entry : Nat, host : Hosts, name : Hosts]
      /\ x.from = h /\ x.entry = m
      /\ rows \in Seq([from : Hosts, entry : Nat, host : Hosts, name : Hosts])
      /\ rows' = Append(rows, x) /\ KindOf(h, m) = "sound" /\ m <= l
      /\ sent[h] \in Nat
  BY <1>1, <1>3
     DEF Row, Requests, SessionOK, Insert, Kind, Turn, OrderIInv, LostIInv, ShapeOK, TypeOK
<1>5. /\ DOMAIN rows' = 1..Len(rows) + 1 /\ Len(rows) \in Nat /\ DOMAIN rows = 1..Len(rows)
      /\ rows'[Len(rows) + 1] = x
      /\ \A n \in DOMAIN rows : /\ rows'[n] = rows[n]
                                /\ rows[n].from \in Hosts /\ rows[n].entry \in Nat
  BY <1>4, RowsTyped DEF OrderIInv, LostIInv, ShapeOK
<1>6. \A g \in Hosts : \A i : Gap(g, i)' => Gap(g, i)
  BY <1>4, GapsClose DEF OrderIInv, LostIInv, ShapeOK
<1>7. Stored(h, m)' /\ ~ Gap(h, m)'
  <2>1. Len(rows) + 1 \in DOMAIN rows'
    BY <1>5
  <2>2. Stored(h, m)'
    BY <1>4, <1>5, <2>1 DEF Stored
  <2>3. QED
    BY <2>2 DEF Gap
<1>8. \A g \in Hosts : \A i : Stored(g, i)' => Stored(g, i) \/ (g = h /\ i = m)
  BY <1>4, <1>5 DEF Stored
<1>9. \A i \in sent[h] + 1 .. m - 1 : ~ Gap(h, i)
  BY <1>1, <1>3 DEF OrderIInv, LoopsOK, Passed
<1>10. \A i \in sent[h] + 1 .. m : ~ Gap(h, i)'
  BY <1>3, <1>4, <1>6, <1>7, <1>9
<1>11. BehindOK'
  <2> SUFFICES ASSUME NEW n \in DOMAIN rows', NEW i \in sent[rows'[n].from] + 1 .. rows'[n].entry - 1,
                      NEW g, g = rows'[n].from, Gap(g, i)'
               PROVE  FALSE
    BY <1>2 DEF BehindOK
  <2>1. CASE n \in DOMAIN rows
    <3>1. Gap(rows[n].from, i) /\ i \in sent[rows[n].from] + 1 .. rows[n].entry - 1
      BY <1>5, <1>6, <2>1
    <3>2. QED
      BY <2>1, <3>1 DEF OrderIInv, BehindOK
  <2>2. CASE n = Len(rows) + 1
    BY <1>4, <1>5, <1>6, <1>9, <2>2
  <2>3. QED
    BY <1>5, <2>1, <2>2
<1>12. FirstRowsInOrder'
  <2> SUFFICES ASSUME trouble.timeouts = 0 \/ (trouble.faults = 0 /\ trouble.deletes = 0),
                      NEW n \in DOMAIN rows', NEW i \in 1..rows'[n].entry - 1,
                      NEW g, g = rows'[n].from, Stored(g, i)'
               PROVE  \E k \in 1..n - 1 : rows'[k].from = g /\ rows'[k].entry = i
    BY <1>2 DEF FirstRowsInOrder
  <2>1. g \in Hosts /\ rows'[n].entry \in Nat /\ n \in Nat
    BY <1>4, <1>5
  <2>2. CASE n \in DOMAIN rows /\ Stored(g, i)
    <3>1. PICK k \in 1..n - 1 : rows[k].from = g /\ rows[k].entry = i
      BY <1>5, <2>2 DEF OrderIInv, FirstRowsInOrder
    <3>2. k \in DOMAIN rows
      BY <1>5, <2>2, <3>1
    <3>3. QED
      BY <1>5, <3>1, <3>2
  <2>3. CASE n \in DOMAIN rows /\ ~ Stored(g, i)
    <3>1. g = h /\ i = m /\ Gap(h, m) /\ rows[n].from = h /\ m \in 1..rows[n].entry - 1
      BY <1>4, <1>5, <1>8, <2>1, <2>3 DEF Gap
    <3>2. m <= sent[h]
      <4>1. \A j \in sent[h] + 1 .. rows[n].entry - 1 : ~ Gap(h, j)
        BY <2>3, <3>1 DEF OrderIInv, BehindOK
      <4>2. sent[h] \in Nat /\ rows[n].entry \in Nat /\ m \in Nat
        BY <1>4, <1>5, <2>3
      <4>3. QED
        BY <3>1, <4>1, <4>2
    <3>3. CASE trouble.timeouts = 0
      <4>1. asked[h] = s /\ AskedOK(h)
        BY <1>1, <1>3, <3>3, IngestAssumption
           DEF OrderIInv, AloneOK, LostIInv, ShapeOK, Waiting
      <4>2. QED
        BY <1>3, <1>4, <3>2, <4>1 DEF AskedOK
    <3>4. CASE trouble.faults = 0 /\ trouble.deletes = 0
      <4>1. \A j \in m .. l : j <= sent[h] /\ Gap(h, j) =>
              \E b \in m .. j - 1 : KindOf(h, b) = "bad"
        BY <1>1, <1>3, <3>4 DEF OrderIInv, CalmOK, CalmSession
      <4>2. m \in m .. l /\ m .. m - 1 = {}
        BY <1>3, <1>4
      <4>3. QED
        BY <3>1, <3>2, <4>1, <4>2
    <3>5. QED
      BY <3>3, <3>4
  <2>4. CASE n = Len(rows) + 1
    <3>1. g = h /\ i # m
      BY <1>3, <1>4, <1>5, <2>4
    <3>2. PICK k \in DOMAIN rows : rows[k].from = g /\ rows[k].entry = i
      BY <1>8, <2>1, <3>1 DEF Stored
    <3>3. QED
      BY <1>5, <2>4, <3>2
  <2>5. QED
    BY <1>5, <2>2, <2>3, <2>4
<1>13. PICK r \in Requests : r = [rec EXCEPT !.next = m + 1]
  <2>1. [rec EXCEPT !.next = m + 1] \in Requests
    BY <1>1 DEF Requests
  <2>2. QED
    BY <2>1
<1>14. Becomes(s, r)
  BY <1>3, <1>13 DEF Insert, Advance
<1>15. r.from = h /\ r.next = m + 1 /\ r.last = l /\ r.pc = "store" /\ r.next - 1 = m
  BY <1>1, <1>3, <1>13 DEF Requests
<1>16. ASSUME trouble.faults = 0, trouble.deletes = 0
       PROVE  /\ \A i \in sent[h] + 1 .. m : KindOf(h, i) # "bad"
              /\ \A i \in m + 1 .. l : i <= sent[h] /\ Gap(h, i)' =>
                   \E b \in m + 1 .. i - 1 : KindOf(h, b) = "bad"
  <2>1. /\ \A i \in sent[h] + 1 .. m - 1 : KindOf(h, i) # "bad"
        /\ \A i \in m .. l : i <= sent[h] /\ Gap(h, i) =>
             \E b \in m .. i - 1 : KindOf(h, b) = "bad"
    BY <1>1, <1>3, <1>16 DEF OrderIInv, CalmOK, CalmSession
  <2>2. \A i \in sent[h] + 1 .. m : KindOf(h, i) # "bad"
    BY <1>3, <1>4, <2>1
  <2>3. ASSUME NEW i \in m + 1 .. l, i <= sent[h], Gap(h, i)'
        PROVE  \E b \in m + 1 .. i - 1 : KindOf(h, b) = "bad"
    <3>1. PICK b \in m .. i - 1 : KindOf(h, b) = "bad"
      BY <1>3, <1>6, <2>1, <2>3
    <3>2. b # m
      BY <1>4, <3>1
    <3>3. b \in m + 1 .. i - 1
      BY <1>3, <2>3, <3>1, <3>2
    <3>4. QED
      BY <3>1, <3>3
  <2>4. QED
    BY <2>2, <2>3
<1>17. \A i \in sent[h] + 1 .. r.next - 1 : ~ Gap(h, i)'
  BY <1>10, <1>15
<1>18. trouble.faults = 0 /\ trouble.deletes = 0 =>
         /\ \A i \in sent[h] + 1 .. r.next - 1 : KindOf(h, i) # "bad"
         /\ \A i \in r.next .. r.last : i <= sent[h] /\ Gap(h, i)' =>
              \E b \in r.next .. i - 1 : KindOf(h, b) = "bad"
  BY <1>15, <1>16
<1>19. rec.from = h
  BY <1>3
<1> HIDE DEF rec
<1>20. QED
  BY <1>1, <1>2, <1>4, <1>11, <1>12, <1>14, <1>15, <1>17, <1>18, <1>19, OrderMove DEF rec

LEMMA SendOrder ==
  ASSUME OrderIInv, LostIInv', NEW h \in Hosts, NEW s \in Slots, Send(h, s)
  PROVE  OrderIInv'
<1>1. PICK r : /\ Becomes(s, r) /\ r.pc = "lookup" /\ r.from = h /\ r.next = sent[h] + 1
  BY DEF Send
<1>2. /\ session'[s] = r /\ \A q \in Slots : q # s => session'[q] = session[q]
      /\ session[s] = Free /\ ~ Waiting(h) /\ sent[h] \in Nat
      /\ asked'[h] = s /\ \A g \in Hosts : g # h => asked'[g] = asked[g]
      /\ UNCHANGED <<rows, sent, trouble>>
  BY <1>1 DEF Becomes, Send, OrderIInv, LostIInv, ShapeOK, TypeOK
<1>3. /\ BehindOK' /\ FirstRowsInOrder' /\ \A g, i : Gap(g, i)' <=> Gap(g, i)
  BY <1>2, OrderKept
<1>4. ASSUME NEW q \in Slots, q # s, Busy(q)'
      PROVE  Busy(q) /\ session'[q] = session[q] /\ session[q].from \in Hosts
  <2>1. Busy(q) /\ session'[q] = session[q]
    BY <1>2, <1>4 DEF Busy
  <2>2. QED
    BY <2>1, BusyPc DEF OrderIInv, LostIInv, ShapeOK, Requests
<1>5. LoopsOK'
  <2> SUFFICES ASSUME NEW q \in Slots, Busy(q)'
               PROVE  /\ session'[q].pc \in {"lookup", "validate"} =>
                           session'[q].next <= sent'[session'[q].from] + 1
                      /\ session'[q].pc = "store" /\ Own(q)' => Passed(q)'
    BY DEF LoopsOK
  <2>1. CASE q = s
    BY <1>1, <1>2, <2>1
  <2>2. CASE q # s
    BY <1>2, <1>3, <1>4, <2>2 DEF OrderIInv, LoopsOK, Passed, Own
  <2>3. QED
    BY <2>1, <2>2
<1>6. AloneOK'
  <2> SUFFICES ASSUME trouble.timeouts = 0, NEW q \in Slots, Busy(q)'
               PROVE  asked'[session'[q].from] = q
    BY <1>2 DEF AloneOK
  <2>1. CASE q = s
    BY <1>1, <1>2, <2>1
  <2>2. CASE q # s
    <3>1. asked[session[q].from] = q /\ session[q].from # h
      BY <1>2, <1>4, <2>2, IngestAssumption DEF OrderIInv, AloneOK, Waiting
    <3>2. QED
      BY <1>2, <1>4, <2>2, <3>1
  <2>3. QED
    BY <2>1, <2>2
<1>7. CalmOK'
  <2> SUFFICES ASSUME trouble.faults = 0, trouble.deletes = 0, NEW q \in Slots, Busy(q)'
               PROVE  CalmSession(q)'
    BY <1>2 DEF CalmOK
  <2>1. CASE q = s
    <3>1. /\ \A i \in sent[h] + 1 .. r.next - 1 : FALSE
          /\ \A i \in r.next .. r.last : ~ (i <= sent[h])
      BY <1>1, <1>2
    <3>2. QED
      BY <1>1, <1>2, <2>1, <3>1 DEF CalmSession, Passed
  <2>2. CASE q # s
    <3>1. CalmSession(q)
      BY <1>4, <2>2 DEF OrderIInv, CalmOK
    <3>2. QED
      BY <1>2, <1>3, <1>4, <2>2, <3>1 DEF CalmSession, Passed, KindOf
  <2>3. QED
    BY <2>1, <2>2
<1>8. QED
  BY <1>3, <1>5, <1>6, <1>7 DEF OrderIInv

(* What an agent drops unstored, the handlers that come late will not      *)
(* store.                                                                  *)
LEMMA ReplyOrder ==
  ASSUME OrderIInv, LostIInv', NEW s \in Slots, Reply(s)
  PROVE  OrderIInv'
<1>1. session[s] \in Requests /\ Busy(s) /\ SessionOK(s)
  BY BusyTyped DEF Reply, Complete, OrderIInv, LostIInv, ShapeOK
<1>2. PICK h \in Hosts, b \in Nat, l \in Nat :
        h = session[s].from /\ b = session[s].next /\ l = session[s].last
  BY <1>1 DEF Requests
<1>3. /\ session' = [session EXCEPT ![s] = Free]
      /\ UNCHANGED <<nodes, rows, drawn, made, trouble>>
      /\ \/ asked[h] = s /\ Receive(h, s)
         \/ asked[h] # s /\ UNCHANGED <<agentKey, asked, sent>>
  BY <1>2 DEF Reply, Becomes
<1>4. /\ sent \in [Hosts -> Nat] /\ asked \in [Hosts -> Slots \cup {"none"}]
      /\ session \in [Slots -> Requests \cup {Free}]
  BY DEF OrderIInv, LostIInv, ShapeOK, TypeOK
<1>5. asked[h] = s => sent[h] < b /\ sent[h] <= l
  BY <1>1, <1>2, <1>4, IngestAssumption DEF OrderIInv, LostIInv, ShapeOK, Waiting, AskedOK
<1>6. /\ \A g \in Hosts : g # h => sent'[g] = sent[g] /\ asked'[g] = asked[g]
      /\ sent'[h] = sent[h] \/ (sent'[h] = l /\ asked[h] = s)
  BY <1>2, <1>3, <1>4 DEF Receive
<1>7. \A g \in Hosts : sent[g] \in Nat /\ sent'[g] \in Nat /\ sent[g] <= sent'[g]
  BY <1>2, <1>4, <1>5, <1>6
<1>8. \A g, i : Gap(g, i)' <=> Gap(g, i)
  BY <1>3 DEF Gap, Stored, KindOf
<1>9. ASSUME NEW q \in Slots, Busy(q)'
      PROVE  q # s /\ Busy(q) /\ session'[q] = session[q] /\ session[q] \in Requests
  <2>1. q # s /\ session'[q] = session[q] /\ Busy(q)
    BY <1>3, <1>4, <1>9 DEF Busy
  <2>2. QED
    BY <2>1, BusyPc DEF OrderIInv, LostIInv, ShapeOK
<1>10. BehindOK'
  <2> SUFFICES ASSUME NEW n \in DOMAIN rows,
                      NEW i \in sent'[rows[n].from] + 1 .. rows[n].entry - 1
               PROVE  ~ Gap(rows[n].from, i)
    BY <1>3, <1>8 DEF BehindOK
  <2>1. rows[n].from \in Hosts /\ rows[n].entry \in Nat
    BY RowsTyped DEF OrderIInv, LostIInv, ShapeOK
  <2>2. i \in sent[rows[n].from] + 1 .. rows[n].entry - 1
    BY <1>7, <2>1
  <2>3. QED
    BY <2>2 DEF OrderIInv, BehindOK
<1>11. FirstRowsInOrder'
  BY <1>3 DEF OrderIInv, FirstRowsInOrder, Stored
<1>12. ASSUME NEW q \in Slots, Busy(q)', Passed(q) PROVE Passed(q)'
  <2> SUFFICES ASSUME NEW i \in sent'[session[q].from] + 1 .. session[q].next - 1
               PROVE  ~ Gap(session[q].from, i)
    BY <1>8, <1>9, <1>12 DEF Passed
  <2>1. session[q].from \in Hosts /\ session[q].next \in Nat
    BY <1>9, <1>12 DEF Requests
  <2>2. i \in sent[session[q].from] + 1 .. session[q].next - 1
    BY <1>7, <2>1
  <2>3. QED
    BY <1>12, <2>2 DEF Passed
<1>13. LoopsOK'
  <2> SUFFICES ASSUME NEW q \in Slots, Busy(q)'
               PROVE  /\ session'[q].pc \in {"lookup", "validate"} =>
                           session'[q].next <= sent'[session'[q].from] + 1
                      /\ session'[q].pc = "store" /\ Own(q)' => Passed(q)'
    BY DEF LoopsOK
  <2>1. session[q].from \in Hosts /\ session[q].next \in Nat
    BY <1>9 DEF Requests
  <2>2. session[q].pc \in {"lookup", "validate"} => session[q].next <= sent[session[q].from] + 1
    BY <1>9 DEF OrderIInv, LoopsOK
  <2>3. session[q].pc = "store" /\ Own(q) => Passed(q)'
    BY <1>9, <1>12 DEF OrderIInv, LoopsOK
  <2>4. QED
    BY <1>7, <1>9, <2>1, <2>2, <2>3 DEF Own
<1>14. AloneOK'
  <2> SUFFICES ASSUME trouble.timeouts = 0, NEW q \in Slots, Busy(q)'
               PROVE  asked'[session'[q].from] = q
    BY <1>3 DEF AloneOK
  <2>1. asked[session[q].from] = q /\ session[q].from \in Hosts
    BY <1>9 DEF OrderIInv, AloneOK, Requests
  <2>2. asked[h] = s
    BY <1>1, <1>2 DEF OrderIInv, AloneOK
  <2>3. session[q].from # h
    BY <1>9, <2>1, <2>2
  <2>4. QED
    BY <1>6, <1>9, <2>1, <2>3
<1>15. CalmOK'
  <2> SUFFICES ASSUME trouble.faults = 0, trouble.deletes = 0, NEW q \in Slots, Busy(q)'
               PROVE  CalmSession(q)'
    BY <1>3 DEF CalmOK
  <2>1. PICK g \in Hosts, m \in Nat, k \in Nat :
          g = session[q].from /\ m = session[q].next /\ k = session[q].last
    BY <1>9 DEF Requests
  <2>2. CalmSession(q) /\ CalmSession(s)
    BY <1>1, <1>9 DEF OrderIInv, CalmOK
  <2>3. Passed(q)'
    BY <1>12, <2>2 DEF CalmSession
  <2>4. session[q].pc = "reply" => KindOf(g, m) = "bad" /\ m <= k
    BY <2>1, <2>2 DEF CalmSession
  <2>5. ASSUME session[q].pc # "reply"
        PROVE  \A i \in sent'[g] + 1 .. m - 1 : KindOf(g, i) # "bad"
    <3>1. \A i \in sent[g] + 1 .. m - 1 : KindOf(g, i) # "bad"
      BY <2>1, <2>2, <2>5 DEF CalmSession
    <3>2. QED
      BY <1>7, <3>1
  <2>6. ASSUME session[q].pc # "reply", NEW i \in m .. k, i <= sent'[g], Gap(g, i)
        PROVE  \E c \in m .. i - 1 : KindOf(g, c) = "bad"
    <3>1. CASE i <= sent[g]
      BY <2>1, <2>2, <2>6, <3>1 DEF CalmSession
    <3>2. CASE i > sent[g]
      <4>1. g = h /\ sent'[h] = l /\ asked[h] = s /\ i \in Nat
        BY <1>6, <1>7, <2>1, <2>6, <3>2
      <4>2. \A j \in sent[h] + 1 .. b - 1 : ~ Gap(h, j)
        BY <1>2, <2>2 DEF CalmSession, Passed
      <4>3. i >= b
        BY <1>2, <1>7, <2>6, <3>2, <4>1, <4>2
      <4>4. KindOf(h, b) = "bad"
        <5>1. CASE session[s].pc = "reply"
          BY <1>2, <2>2, <5>1 DEF CalmSession
        <5>2. CASE session[s].pc = "store" /\ ~ Turn(s)
          <6>1. b > l
            BY <1>2, <5>2 DEF Turn
          <6>2. QED
            BY <1>2, <2>6, <4>1, <4>3, <6>1
        <5>3. QED
          BY <5>1, <5>2 DEF Reply, Complete
      <4>5. i # b
        BY <2>6, <4>1, <4>4 DEF Gap
      <4>6. m <= b
        <5>1. \A j \in sent[g] + 1 .. m - 1 : KindOf(g, j) # "bad"
          BY <2>1, <2>2, <2>6 DEF CalmSession
        <5>2. sent[h] < b
          BY <1>5, <4>1
        <5>3. b \notin sent[h] + 1 .. m - 1
          BY <4>1, <4>4, <5>1
        <5>4. QED
          BY <1>2, <1>7, <2>1, <5>2, <5>3
      <4>7. b \in m .. i - 1
        BY <1>2, <2>1, <4>1, <4>3, <4>5, <4>6
      <4>8. QED
        BY <4>1, <4>4, <4>7
    <3>3. QED
      BY <1>7, <2>1, <2>6, <3>1, <3>2
  <2>7. QED
    BY <1>8, <1>9, <2>1, <2>3, <2>4, <2>5, <2>6 DEF CalmSession, KindOf
<1>16. QED
  BY <1>10, <1>11, <1>13, <1>14, <1>15 DEF OrderIInv

LEMMA OrderStep == OrderIInv /\ [Next]_vars => OrderIInv'
<1> SUFFICES ASSUME OrderIInv, [Next]_vars PROVE OrderIInv'
  OBVIOUS
<1>0. LostIInv' /\ TypeOK
  BY LostStep DEF OrderIInv, LostIInv, ShapeOK
<1>1. ASSUME NEW h \in Hosts, Enroll(h) \/ Config(h) \/ Log(h) PROVE OrderIInv'
  BY <1>0, <1>1, OrderFrame DEF Enroll, Config, Log
<1>2. ASSUME NEW h \in Hosts, DeleteNode(h) PROVE OrderIInv'
  <2>1. /\ trouble'.deletes = trouble.deletes + 1 /\ trouble.deletes \in Nat
        /\ trouble'.timeouts = trouble.timeouts /\ trouble'.faults = trouble.faults
    BY <1>0, <1>2, TroubleCounts DEF DeleteNode, TypeOK
  <2>2. UNCHANGED <<rows, session, sent>> /\ asked' = asked /\ trouble'.deletes # 0
    BY <1>2, <2>1 DEF DeleteNode, agents
  <2>3. QED
    BY <1>0, <2>1, <2>2, OrderFrame
<1>3. ASSUME NEW h \in Hosts, GiveUp(h) PROVE OrderIInv'
  <2>1. /\ trouble'.timeouts = trouble.timeouts + 1 /\ trouble.timeouts \in Nat
        /\ trouble'.deletes = trouble.deletes /\ trouble'.faults = trouble.faults
    BY <1>0, <1>3, TroubleCounts DEF GiveUp, TypeOK
  <2>2. UNCHANGED <<rows, session, sent>> /\ trouble'.timeouts # 0
    BY <1>3, <2>1 DEF GiveUp
  <2>3. QED
    BY <1>0, <2>1, <2>2, OrderFrame
<1>4. ASSUME NEW h \in Hosts, NEW s \in Slots, Send(h, s) PROVE OrderIInv'
  BY <1>0, <1>4, SendOrder
<1>5. ASSUME NEW s \in Slots, Lookup(s) \/ Validate(s) PROVE OrderIInv'
  BY <1>0, <1>5, LookupOrder
<1>6. ASSUME NEW s \in Slots, Skip(s) \/ Throw(s) \/ Fail(s) PROVE OrderIInv'
  BY <1>0, <1>6, SkipOrder
<1>7. ASSUME NEW s \in Slots, Insert(s) PROVE OrderIInv'
  BY <1>0, <1>7, InsertOrder
<1>8. ASSUME NEW s \in Slots, Reply(s) PROVE OrderIInv'
  BY <1>0, <1>8, ReplyOrder
<1>9. CASE Restart
  <2>1. /\ UNCHANGED <<rows, sent>> /\ \A q \in Slots : session'[q] = Free
        /\ trouble'.timeouts = trouble.timeouts /\ trouble'.deletes = trouble.deletes
        /\ trouble'.faults = trouble.faults
    BY <1>0, <1>9, TroubleCounts DEF Restart
  <2>2. BehindOK' /\ FirstRowsInOrder'
    BY <2>1, OrderKept
  <2>3. LoopsOK' /\ AloneOK' /\ CalmOK'
    BY <2>1 DEF LoopsOK, AloneOK, CalmOK, Busy
  <2>4. QED
    BY <1>0, <2>2, <2>3 DEF OrderIInv
<1>10. CASE UNCHANGED vars
  BY <1>0, <1>10, OrderFrame DEF vars, agents
<1>11. QED
  BY <1>1, <1>2, <1>3, <1>4, <1>5, <1>6, <1>7, <1>8, <1>9, <1>10 DEF Next, Serve

(* Without a timeout, or with neither a database error nor a delete, the   *)
(* rows logger inserts for a host are in the order of that host's log, for *)
(* any number of handlers, requests that overlap and restarts.             *)
THEOREM RowsInOrder == Spec => []FirstRowsInOrder
<1>1. OrderIInv => FirstRowsInOrder
  BY DEF OrderIInv
<1>2. QED
  BY <1>1, OrderInit, OrderStep, PTL DEF Spec
===============================================================================
