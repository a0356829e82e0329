------------------------ MODULE ConnectionPoolProofs ------------------------
(***************************************************************************)
(* Proofs about ConnectionPool for any set of threads and any pool size.   *)
(* PoolIInv, the conjunction of what the runs check one by one, is         *)
(* inductive; the absence of deadlock follows from it by counting.         *)
(***************************************************************************)
EXTENDS ConnectionPool, FiniteSetTheorems, SequenceTheorems, TLAPS

RangeOf(s) == {s[i] : i \in DOMAIN s}

Distinct(s) == \A i, j \in DOMAIN s : s[i] = s[j] => i = j

PoolIInv == PoolTypeOK /\ Conservation /\ NestingBound /\ NoLostWakeup

-----------------------------------------------------------------------------
(* Popping the front of a queue without duplicates removes one element     *)
(* from its range: what pool.pop() does.                                   *)
LEMMA TailRange ==
  ASSUME NEW S, NEW s \in Seq(S), s # <<>>, Distinct(s)
  PROVE  /\ Head(s) \in RangeOf(s)
         /\ RangeOf(Tail(s)) = RangeOf(s) \ {Head(s)}
         /\ Distinct(Tail(s))
<1>1. /\ DOMAIN s = 1..Len(s) /\ Len(s) \in Nat \ {0}
      /\ DOMAIN Tail(s) = 1..(Len(s) - 1)
      /\ Head(s) = s[1]
      /\ \A i \in 1..(Len(s) - 1) : Tail(s)[i] = s[i + 1]
  BY HeadTailProperties
<1>2. ASSUME NEW x \in RangeOf(s) \ {Head(s)} PROVE x \in RangeOf(Tail(s))
  <2>1. PICK i \in 1..Len(s) : x = s[i]
    BY <1>1 DEF RangeOf
  <2>2. i - 1 \in 1..(Len(s) - 1) /\ Tail(s)[i - 1] = s[i]
    BY <1>1, <2>1, <1>2
  <2>3. QED
    BY <1>1, <2>1, <2>2 DEF RangeOf
<1>3. ASSUME NEW x \in RangeOf(Tail(s)) PROVE x \in RangeOf(s) \ {Head(s)}
  <2>1. PICK i \in 1..(Len(s) - 1) : x = Tail(s)[i]
    BY <1>1 DEF RangeOf
  <2>2. i + 1 \in 1..Len(s) /\ i + 1 # 1 /\ x = s[i + 1] /\ 1 \in 1..Len(s)
    BY <1>1, <2>1
  <2>3. x # s[1]
    BY <1>1, <2>2 DEF Distinct
  <2>4. QED
    BY <1>1, <2>2, <2>3 DEF RangeOf
<1>4. Distinct(Tail(s))
  BY <1>1 DEF Distinct
<1>5. Head(s) \in RangeOf(s)
  BY <1>1 DEF RangeOf
<1>6. RangeOf(Tail(s)) = RangeOf(s) \ {Head(s)}
  BY <1>2, <1>3
<1>7. QED
  BY <1>4, <1>5, <1>6

(* Pushing a new element adds it to the range and keeps the queue free of  *)
(* duplicates: what pool.push() does.                                      *)
LEMMA AppendRange ==
  ASSUME NEW S, NEW s \in Seq(S), NEW c \in S, Distinct(s), c \notin RangeOf(s)
  PROVE  /\ RangeOf(Append(s, c)) = RangeOf(s) \cup {c}
         /\ Distinct(Append(s, c))
<1>1. /\ DOMAIN s = 1..Len(s) /\ Len(s) \in Nat
      /\ DOMAIN Append(s, c) = 1..(Len(s) + 1)
      /\ \A i \in 1..Len(s) : Append(s, c)[i] = s[i]
      /\ Append(s, c)[Len(s) + 1] = c
  BY AppendProperties
<1>2. \A i \in 1..(Len(s) + 1) : i \in 1..Len(s) \/ i = Len(s) + 1
  BY <1>1
<1>3. RangeOf(Append(s, c)) = RangeOf(s) \cup {c}
  BY <1>1, <1>2 DEF RangeOf
<1>4. Distinct(Append(s, c))
  BY <1>1, <1>2 DEF Distinct, RangeOf
<1>5. QED
  BY <1>3, <1>4

(* The queue a constructor leaves behind: the connections it opened, once. *)
LEMMA OpenedPool ==
  ASSUME NEW o, NEW p, Open(o, p)
  PROVE  /\ o \in MinOpened..PoolSize /\ p \in Seq(Conns)
         /\ Len(p) = o
         /\ RangeOf(p) = 1..o /\ Distinct(p)
<1>1. o \in Nat /\ 1..o \subseteq Conns /\ p = [i \in 1..o |-> i]
  BY PoolAssumption DEF Open, Conns
<1>2. p \in Seq(Conns) /\ Len(p) = o /\ DOMAIN p = 1..o
  BY <1>1
<1>3. QED
  BY <1>1, <1>2 DEF Open, RangeOf, Distinct

LEMMA ActiveFinite ==
  /\ IsFiniteSet(Active) /\ Cardinality(Active) \in Nat
  /\ IsFiniteSet(Active') /\ Cardinality(Active') \in Nat
<1>1. Active \in SUBSET Threads /\ Active' \in SUBSET Threads
  BY DEF Active
<1>2. QED
  BY <1>1, FS_Subset, FS_CardinalityType, PoolAssumption

-----------------------------------------------------------------------------
(* The constructor establishes the invariant, at the first start and again *)
(* at every restart.                                                       *)
LEMMA PoolInitInv == PoolInit => PoolIInv
<1> SUFFICES ASSUME PoolInit PROVE PoolIInv
  OBVIOUS
<1>1. PICK o \in MinOpened..PoolSize : Open(o, pool) /\ opened = o
  BY DEF PoolInit
<1>2. /\ opened = o /\ pool \in Seq(Conns) /\ Pooled = 1..o /\ Distinct(pool)
  BY <1>1, OpenedPool DEF Pooled, RangeOf
<1>3. PoolTypeOK
  BY <1>1, <1>2 DEF PoolInit, PoolTypeOK, Modes
<1>4. Conservation
  BY <1>2, PoolAssumption DEF PoolInit, Conservation, Distinct, Conns
<1>5. NestingBound /\ NoLostWakeup
  BY DEF PoolInit, NestingBound, NoLostWakeup
<1>6. QED
  BY <1>3, <1>4, <1>5 DEF PoolIInv

LEMMA PoolRestartInv == PoolRestart => PoolIInv'
<1> SUFFICES ASSUME PoolRestart PROVE PoolIInv'
  OBVIOUS
<1>1. PICK o \in MinOpened..PoolSize : Open(o, pool') /\ opened' = o
  BY DEF PoolRestart
<1>2. /\ opened' = o /\ pool' \in Seq(Conns) /\ Pooled' = 1..o /\ Distinct(pool')
  BY <1>1, OpenedPool DEF Pooled, RangeOf
<1>3. PoolTypeOK'
  BY <1>1, <1>2 DEF PoolRestart, PoolTypeOK, Modes
<1>4. Conservation'
  BY <1>2, PoolAssumption DEF PoolRestart, Conservation, Distinct, Conns
<1>5. NestingBound' /\ NoLostWakeup'
  BY DEF PoolRestart, NestingBound, NoLostWakeup
<1>6. QED
  BY <1>3, <1>4, <1>5 DEF PoolIInv

(* A thread leaving or joining the active ones changes their number by at  *)
(* most one.                                                               *)
LEMMA ActiveChange ==
  ASSUME PoolTypeOK, NEW t \in Threads, NEW m \in Modes,
         mode' = [mode EXCEPT ![t] = m]
  PROVE  /\ m \in {"woken", "notifying"} => Active' = Active \cup {t}
         /\ m \notin {"woken", "notifying"} => Active' = Active \ {t}
BY DEF Active, PoolTypeOK

LEMMA GetConnectionInv ==
  ASSUME PoolIInv, NEW t \in Threads, GetConnection(t)
  PROVE  PoolIInv'
<1> USE DEF PoolIInv
<1>1. /\ Head(pool) \in Pooled /\ Pooled' = Pooled \ {Head(pool)}
      /\ Distinct(pool) /\ Distinct(pool')
      /\ pool' \in Seq(Conns) /\ Len(pool') = Len(pool) - 1 /\ Len(pool) \in Nat
      /\ Head(pool) \in Conns
  <2>1. pool \in Seq(Conns) /\ pool # <<>> /\ pool' = Tail(pool) /\ Distinct(pool)
    BY DEF GetConnection, PoolTypeOK, Conservation, Distinct
  <2>2. /\ Head(pool) \in RangeOf(pool) /\ RangeOf(Tail(pool)) = RangeOf(pool) \ {Head(pool)}
        /\ Distinct(Tail(pool))
    BY <2>1, TailRange
  <2>3. Pooled = RangeOf(pool) /\ Pooled' = RangeOf(pool')
    BY DEF Pooled, RangeOf
  <2>4. QED
    BY <2>1, <2>2, <2>3, HeadTailProperties
<1>2. PoolTypeOK'
  BY <1>1 DEF GetConnection, PoolTypeOK, Modes
<1>3. Conservation'
  <2>1. held' = [held EXCEPT ![t] = @ \cup {Head(pool)}] /\ opened' = opened
    BY DEF GetConnection
  <2>2. \A c \in Conns :
          c <= opened' <=> (c \in Pooled' \/ \E u \in Threads : c \in held'[u])
    <3>1. \A c \in Conns : (\E u \in Threads : c \in held'[u])
                             <=> (c = Head(pool) \/ \E u \in Threads : c \in held[u])
      BY <2>1 DEF PoolTypeOK
    <3>2. QED
      BY <1>1, <2>1, <3>1 DEF Conservation
  <2>3. \A u \in Threads : held'[u] \cap Pooled' = {}
    BY <1>1, <2>1 DEF Conservation, PoolTypeOK
  <2>4. \A u, v \in Threads : u # v => held'[u] \cap held'[v] = {}
    BY <1>1, <2>1 DEF Conservation, PoolTypeOK
  <2>5. QED
    BY <1>1, <2>1, <2>2, <2>3, <2>4 DEF Conservation, Distinct
<1>4. NestingBound'
  BY DEF GetConnection, NestingBound, PoolTypeOK
<1>5. NoLostWakeup'
  <2> SUFFICES ASSUME NEW u \in Threads, mode'[u] = "waiting"
               PROVE  Len(pool') <= Cardinality(Active')
    BY DEF NoLostWakeup
  <2>1. mode[u] = "waiting"
    BY DEF GetConnection, PoolTypeOK
  <2>2. Len(pool) <= Cardinality(Active)
    BY <2>1 DEF NoLostWakeup
  <2>3. Active' = Active \ {t}
    BY ActiveChange DEF GetConnection, Modes
  <2>4. Cardinality(Active') >= Cardinality(Active) - 1
    BY <2>3, FS_RemoveElement, ActiveFinite
  <2>5. QED
    BY <1>1, <2>2, <2>4, ActiveFinite
<1>6. QED
  BY <1>2, <1>3, <1>4, <1>5

LEMMA WaitInv ==
  ASSUME PoolIInv, NEW t \in Threads, AtMostOne(held[t]), Wait(t)
  PROVE  PoolIInv'
<1> USE DEF PoolIInv
<1>1. PoolTypeOK' /\ UNCHANGED <<opened, pool, held, Pooled>>
  BY DEF Wait, PoolTypeOK, Modes, Pooled
<1>2. Conservation'
  BY <1>1 DEF Conservation
<1>3. NestingBound'
  BY DEF Wait, NestingBound, PoolTypeOK
<1>4. NoLostWakeup'
  BY ActiveFinite DEF Wait, NoLostWakeup
<1>5. QED
  BY <1>1, <1>2, <1>3, <1>4

LEMMA ReturnConnectionInv ==
  ASSUME PoolIInv, NEW t \in Threads, NEW c \in Conns, ReturnConnection(t, c)
  PROVE  PoolIInv'
<1> USE DEF PoolIInv
<1>1. /\ pool' = Append(pool, c) /\ pool \in Seq(Conns) /\ Len(pool) \in Nat
      /\ Pooled' = Pooled \cup {c} /\ Distinct(pool')
      /\ pool' \in Seq(Conns) /\ Len(pool') = Len(pool) + 1
  <2>1. /\ pool \in Seq(Conns) /\ pool' = Append(pool, c)
        /\ Distinct(pool) /\ c \notin RangeOf(pool)
    BY DEF ReturnConnection, PoolTypeOK, Conservation, Distinct, RangeOf, Pooled
  <2>2. RangeOf(Append(pool, c)) = RangeOf(pool) \cup {c} /\ Distinct(Append(pool, c))
    BY <2>1, AppendRange
  <2>3. Pooled = RangeOf(pool) /\ Pooled' = RangeOf(pool')
    BY DEF Pooled, RangeOf
  <2>4. QED
    BY <2>1, <2>2, <2>3, AppendProperties
<1>2. PoolTypeOK'
  BY <1>1 DEF ReturnConnection, PoolTypeOK, Modes
<1>3. Conservation'
  <2>1. held' = [held EXCEPT ![t] = @ \ {c}] /\ opened' = opened /\ c \in held[t]
    BY DEF ReturnConnection
  <2>2. \A d \in Conns :
          d <= opened' <=> (d \in Pooled' \/ \E u \in Threads : d \in held'[u])
    BY <1>1, <2>1 DEF Conservation, PoolTypeOK
  <2>3. \A u \in Threads : held'[u] \cap Pooled' = {}
    BY <1>1, <2>1 DEF Conservation, PoolTypeOK
  <2>4. \A u, v \in Threads : u # v => held'[u] \cap held'[v] = {}
    BY <2>1 DEF Conservation, PoolTypeOK
  <2>5. QED
    BY <1>1, <2>2, <2>3, <2>4 DEF Conservation, Distinct
<1>4. NestingBound'
  BY DEF ReturnConnection, NestingBound, PoolTypeOK, AtMostOne
<1>5. NoLostWakeup'
  <2> SUFFICES ASSUME NEW u \in Threads, mode'[u] = "waiting"
               PROVE  Len(pool') <= Cardinality(Active')
    BY DEF NoLostWakeup
  <2>1. mode[u] = "waiting"
    BY DEF ReturnConnection, PoolTypeOK
  <2>2. Len(pool) <= Cardinality(Active)
    BY <2>1 DEF NoLostWakeup
  <2>3. Active' = Active \cup {t} /\ t \notin Active
    BY ActiveChange DEF ReturnConnection, Modes, Active
  <2>4. Cardinality(Active') = Cardinality(Active) + 1
    BY <2>3, FS_AddElement, ActiveFinite
  <2>5. QED
    BY <1>1, <2>2, <2>4, ActiveFinite
<1>6. QED
  BY <1>2, <1>3, <1>4, <1>5

(* notify_one trades the notifier for the thread it wakes, so the number   *)
(* of active threads drops only when nobody sleeps.                        *)
LEMMA NotifyOneInv ==
  ASSUME PoolIInv, NEW t \in Threads, NotifyOne(t)
  PROVE  PoolIInv'
<1> USE DEF PoolIInv
<1>1. PoolTypeOK' /\ UNCHANGED <<opened, pool, held, Pooled>>
  BY DEF NotifyOne, PoolTypeOK, Modes, Pooled
<1>2. Conservation'
  BY <1>1 DEF Conservation
<1>3. NestingBound'
  BY <1>1 DEF NotifyOne, NestingBound, PoolTypeOK
<1>4. NoLostWakeup'
  <2> SUFFICES ASSUME NEW s \in Threads, mode'[s] = "waiting"
               PROVE  Len(pool') <= Cardinality(Active')
    BY DEF NoLostWakeup
  <2>1. mode[s] = "waiting"
    BY DEF NotifyOne, PoolTypeOK
  <2>2. PICK u \in Threads :
          mode[u] = "waiting" /\ mode' = [mode EXCEPT ![t] = "out", ![u] = "woken"]
    BY <2>1 DEF NotifyOne
  <2>3. /\ t \in Active /\ u \notin Active \ {t}
        /\ Active' = (Active \ {t}) \cup {u}
    BY <2>2 DEF NotifyOne, Active, PoolTypeOK
  <2>4. IsFiniteSet(Active \ {t}) /\ Cardinality(Active \ {t}) = Cardinality(Active) - 1
    BY <2>3, FS_RemoveElement, ActiveFinite
  <2>5. Cardinality(Active') = Cardinality(Active \ {t}) + 1
    BY <2>3, <2>4, FS_AddElement
  <2>6. QED
    BY <1>1, <2>1, <2>4, <2>5, ActiveFinite DEF NoLostWakeup
<1>5. QED
  BY <1>1, <1>2, <1>3, <1>4

LEMMA SpuriousWakeupInv ==
  ASSUME PoolIInv, NEW t \in Threads, SpuriousWakeup(t)
  PROVE  PoolIInv'
<1> USE DEF PoolIInv
<1>1. PoolTypeOK' /\ UNCHANGED <<opened, pool, held, Pooled>>
  BY DEF SpuriousWakeup, PoolTypeOK, Modes, Pooled
<1>2. Conservation'
  BY <1>1 DEF Conservation
<1>3. NestingBound'
  BY <1>1 DEF SpuriousWakeup, NestingBound, PoolTypeOK
<1>4. NoLostWakeup'
  <2>1. Active' = Active \cup {t} /\ t \notin Active /\ Len(pool) \in Nat
    BY ActiveChange DEF SpuriousWakeup, Modes, Active, PoolTypeOK
  <2>2. Cardinality(Active') = Cardinality(Active) + 1
    BY <2>1, FS_AddElement, ActiveFinite
  <2>3. Len(pool) <= Cardinality(Active)
    BY DEF SpuriousWakeup, NoLostWakeup
  <2>4. QED
    BY <1>1, <2>1, <2>2, <2>3, ActiveFinite DEF NoLostWakeup
<1>5. QED
  BY <1>1, <1>2, <1>3, <1>4

LEMMA PoolStep == PoolIInv /\ [PoolNext]_poolVars => PoolIInv'
<1> SUFFICES ASSUME PoolIInv, [PoolNext]_poolVars PROVE PoolIInv'
  OBVIOUS
<1>1. ASSUME NEW t \in Threads, GetConnection(t) PROVE PoolIInv'
  BY <1>1, GetConnectionInv
<1>2. ASSUME NEW t \in Threads, AtMostOne(held[t]), Wait(t) PROVE PoolIInv'
  BY <1>2, WaitInv
<1>3. ASSUME NEW t \in Threads, NEW c \in Conns, ReturnConnection(t, c) PROVE PoolIInv'
  BY <1>3, ReturnConnectionInv
<1>4. ASSUME NEW t \in Threads, NotifyOne(t) PROVE PoolIInv'
  BY <1>4, NotifyOneInv
<1>5. ASSUME NEW t \in Threads, SpuriousWakeup(t) PROVE PoolIInv'
  BY <1>5, SpuriousWakeupInv
<1>6. CASE PoolRestart
  BY <1>6, PoolRestartInv
<1>7. CASE UNCHANGED poolVars
  <2>1. UNCHANGED <<opened, pool, held, mode, Pooled, Active>>
    BY <1>7 DEF poolVars, Pooled, Active
  <2>2. QED
    BY <2>1 DEF PoolIInv, PoolTypeOK, Conservation, NestingBound, NoLostWakeup
<1>8. QED
  BY <1>1, <1>2, <1>3, <1>4, <1>5, <1>6, <1>7 DEF PoolNext

-----------------------------------------------------------------------------
(* The states of the pool are well-formed, for every pool size.            *)
THEOREM PoolTypeCorrect == PoolSpec => []PoolTypeOK
<1>1. PoolIInv => PoolTypeOK
  BY DEF PoolIInv
<1>2. QED
  BY PoolInitInv, PoolStep, <1>1, PTL DEF PoolSpec

(* No interleaving of takers, returners and restarts loses, duplicates or  *)
(* shares a connection.                                                    *)
THEOREM ConnectionsConserved == PoolSpec => []Conservation
<1>1. PoolIInv => Conservation
  BY DEF PoolIInv
<1>2. QED
  BY PoolInitInv, PoolStep, <1>1, PTL DEF PoolSpec

(* notify_one after the unlock loses no wake-up.                           *)
THEOREM WakeupsKept == PoolSpec => []NoLostWakeup
<1>1. PoolIInv => NoLostWakeup
  BY DEF PoolIInv
<1>2. QED
  BY PoolInitInv, PoolStep, <1>1, PTL DEF PoolSpec

(* All threads asleep: the queue is empty by the wake-up count, everybody  *)
(* holds at most one connection, so there are no more of them than threads.*)
LEMMA AllWaitingCount == PoolIInv => DeadlockNeedsShortage
<1> SUFFICES ASSUME PoolIInv, AllWaiting PROVE opened <= Cardinality(Threads)
  BY DEF DeadlockNeedsShortage
<1> USE DEF PoolIInv
<1> DEFINE f == [t \in Threads |-> CHOOSE c : c \in held[t]]
           Hands == {f[t] : t \in Threads}
<1>1. Pooled = {}
  <2>1. Active = {} /\ \E t \in Threads : mode[t] = "waiting"
    BY DEF AllWaiting, Active
  <2>2. Len(pool) <= 0 /\ Len(pool) \in Nat /\ DOMAIN pool = 1..Len(pool)
    BY <2>1, FS_EmptySet DEF NoLostWakeup, PoolTypeOK
  <2>3. QED
    BY <2>2 DEF Pooled
<1>2. \A t \in Threads, c \in Conns : c \in held[t] => c = f[t]
  BY DEF AllWaiting, NestingBound, AtMostOne
<1>3. opened \in Nat /\ 1..opened \in SUBSET Conns
  BY PoolAssumption DEF PoolTypeOK, Conns
<1>4. 1..opened \in SUBSET Hands
  <2> SUFFICES ASSUME NEW c \in 1..opened PROVE c \in Hands
    OBVIOUS
  <2>1. PICK t \in Threads : c \in held[t]
    BY <1>1, <1>3 DEF Conservation
  <2>2. QED
    BY <1>2, <1>3, <2>1
<1>5. f \in Surjection(Threads, Hands)
  BY DEF Surjection
<1>6. IsFiniteSet(Hands) /\ Cardinality(Hands) <= Cardinality(Threads)
  BY <1>5, FS_Surjection, PoolAssumption
<1> HIDE DEF f, Hands
<1>7. Cardinality(1..opened) <= Cardinality(Hands) /\ Cardinality(1..opened) = opened
  <2>1. Cardinality(1..opened) <= Cardinality(Hands)
    BY <1>4, <1>6, FS_Subset
  <2>2. Cardinality(1..opened) = opened
    BY <1>3, FS_Interval
  <2>3. QED
    BY <2>1, <2>2
<1>8. Cardinality(Hands) \in Nat /\ Cardinality(Threads) \in Nat
  BY <1>6, FS_CardinalityType, PoolAssumption
<1>9. QED
  BY <1>3, <1>6, <1>7, <1>8

(* Nested acquisition deadlocks only when the pool has no more connections *)
(* than there are threads.                                                 *)
THEOREM NoDeadlockWithSpare == PoolSpec => []DeadlockNeedsShortage
BY PoolInitInv, PoolStep, AllWaitingCount, PTL DEF PoolSpec

-----------------------------------------------------------------------------
(* The steps of the monitor, seen through Lease.                           *)
LEMMA LeaseInitKept == PoolInit => Lease!LeaseInit
<1> SUFFICES ASSUME PoolInit PROVE Lease!LeaseInit
  OBVIOUS
<1>1. PICK o \in MinOpened..PoolSize : Open(o, pool)
  BY DEF PoolInit
<1>2. Pooled = 1..o
  BY <1>1, OpenedPool DEF Pooled, RangeOf
<1>3. QED
  BY <1>2 DEF PoolInit, Lease!LeaseInit

LEMMA LeaseStepKept == PoolIInv /\ [PoolNext]_poolVars => [Lease!LeaseNext]_(Lease!leaseVars)
<1> SUFFICES ASSUME PoolIInv, [PoolNext]_poolVars
             PROVE  Lease!LeaseNext \/ UNCHANGED <<Pooled, held>>
  BY DEF Lease!leaseVars
<1> USE DEF PoolIInv
<1>1. ASSUME NEW t \in Threads, GetConnection(t) PROVE Lease!LeaseNext
  <2>1. pool \in Seq(Conns) /\ pool # <<>> /\ pool' = Tail(pool) /\ Distinct(pool)
    BY <1>1 DEF GetConnection, PoolTypeOK, Conservation, Distinct
  <2>2. /\ Head(pool) \in RangeOf(pool) /\ RangeOf(Tail(pool)) = RangeOf(pool) \ {Head(pool)}
        /\ Head(pool) \in Conns
    BY <2>1, TailRange, HeadTailProperties
  <2>3. Pooled = RangeOf(pool) /\ Pooled' = RangeOf(pool')
    BY DEF Pooled, RangeOf
  <2>4. Lease!Take(t, Head(pool))
    BY <1>1, <2>1, <2>2, <2>3 DEF GetConnection, Lease!Take
  <2>5. QED
    BY <2>2, <2>4 DEF Lease!LeaseNext, Conns
<1>2. ASSUME NEW t \in Threads, NEW c \in Conns, ReturnConnection(t, c) PROVE Lease!LeaseNext
  <2>1. /\ pool \in Seq(Conns) /\ pool' = Append(pool, c)
        /\ Distinct(pool) /\ c \notin RangeOf(pool)
    BY <1>2 DEF ReturnConnection, PoolTypeOK, Conservation, Distinct, RangeOf, Pooled
  <2>2. RangeOf(Append(pool, c)) = RangeOf(pool) \cup {c}
    BY <2>1, AppendRange
  <2>3. Pooled = RangeOf(pool) /\ Pooled' = RangeOf(pool')
    BY DEF Pooled, RangeOf
  <2>4. Lease!Give(t, c)
    BY <1>2, <2>1, <2>2, <2>3 DEF ReturnConnection, Lease!Give
  <2>5. QED
    BY <2>4 DEF Lease!LeaseNext, Conns
<1>3. CASE PoolRestart
  <2>1. PICK o \in MinOpened..PoolSize : Open(o, pool')
    BY <1>3 DEF PoolRestart
  <2>2. Pooled' = 1..o
    BY <2>1, OpenedPool DEF Pooled, RangeOf
  <2>3. Lease!LeaseRestart
    BY <1>3, <2>2 DEF PoolRestart, Lease!LeaseRestart
  <2>4. QED
    BY <2>3 DEF Lease!LeaseNext
<1>4. ASSUME NEW t \in Threads, Wait(t) \/ NotifyOne(t) \/ SpuriousWakeup(t)
      PROVE  UNCHANGED <<Pooled, held>>
  BY <1>4 DEF Wait, NotifyOne, SpuriousWakeup, Pooled
<1>5. CASE UNCHANGED poolVars
  BY <1>5 DEF poolVars, Pooled
<1>6. QED
  BY <1>1, <1>2, <1>3, <1>4, <1>5 DEF PoolNext

(* The mutex, the queue and the wake-ups of ConnectionPool.cpp amount to   *)
(* an exclusive lease of connections, which is all its clients assume.     *)
THEOREM PoolImplementsLease == PoolSpec => LeaseKept
BY PoolInitInv, PoolStep, LeaseInitKept, LeaseStepKept, PTL
   DEF PoolSpec, LeaseKept, Lease!LeaseSpec
=============================================================================
