--------------------------- MODULE ConnectionPool ---------------------------
(***************************************************************************)
(* The database connection pool every vajra process shares between its     *)
(* threads (src/vajra/common/ConnectionPool.cpp): a monitor made of a      *)
(* mutex, a condition variable and a FIFO queue of connections.            *)
(*                                                                         *)
(* GetConnection and ReturnConnection each hold the mutex from their first *)
(* line to lock.unlock(), so each is one step up to that point.  The       *)
(* notify_one() that ends ReturnConnection runs after the unlock, and so   *)
(* is a step of its own: any thread may come between the two and take the  *)
(* connection that the notified thread is going to look for.               *)
(***************************************************************************)
EXTENDS Naturals, Sequences, FiniteSets

CONSTANTS
  Threads,    (* the threads of the process that owns the pool             *)
  PoolSize,   (* db_pool_configuration.max_connections                     *)
  MinOpened   (* connections the database grants at the least              *)

ASSUME PoolAssumption ==
  /\ IsFiniteSet(Threads)
  /\ PoolSize \in Nat
  /\ MinOpened \in 0..PoolSize

(* A connection is known by its place among those the constructor opened.  *)
Conns == 1..PoolSize

VARIABLES
  opened,     (* connections the constructor managed to open               *)
  pool,       (* ConnectionPool::pool, oldest first                        *)
  held,       (* held[t]: connections thread t took and has not returned   *)
  mode        (* mode[t]: where thread t stands in the monitor             *)

poolVars == <<opened, pool, held, mode>>

(* "out": outside the monitor.  "waiting": asleep in _condition.wait.      *)
(* "woken": awake again, about to re-evaluate while (pool.empty()).        *)
(* "notifying": has pushed and unlocked, has not called notify_one yet.    *)
Modes == {"out", "waiting", "woken", "notifying"}

Pooled == {pool[i] : i \in DOMAIN pool}

AtMostOne(S) == \A x, y \in S : x = y

-----------------------------------------------------------------------------
(* Mutant of Open: a loop that runs to i <= pool_size.                     *)
OpenOneMore(o, p) ==
  /\ o \in MinOpened..PoolSize
  /\ p = [i \in 1..(o + 1) |-> i]

(* The constructor: an exception while connection i is opened is printed   *)
(* and swallowed, so the pool comes out with anything from no connection   *)
(* to pool_size of them, and nothing ever opens the missing ones.          *)
Open(o, p) ==
  /\ o \in MinOpened..PoolSize
  /\ p = [i \in 1..o |-> i]

PoolInit ==
  /\ \E o \in MinOpened..PoolSize : Open(o, pool) /\ opened = o
  /\ held = [t \in Threads |-> {}]
  /\ mode = [t \in Threads |-> "out"]

(* Mutant of GetConnection: front() without pop().                         *)
GetConnectionNoPop(t) ==
  /\ mode[t] \in {"out", "woken"}
  /\ pool # <<>>
  /\ held' = [held EXCEPT ![t] = @ \cup {Head(pool)}]
  /\ mode' = [mode EXCEPT ![t] = "out"]
  /\ UNCHANGED <<opened, pool>>

(* GetConnection by a thread that finds a connection: first try or retry.  *)
GetConnection(t) ==
  /\ mode[t] \in {"out", "woken"}
  /\ pool # <<>>
  /\ held' = [held EXCEPT ![t] = @ \cup {Head(pool)}]
  /\ pool' = Tail(pool)
  /\ mode' = [mode EXCEPT ![t] = "out"]
  /\ UNCHANGED opened

(* GetConnection by a thread that finds the queue empty.                   *)
Wait(t) ==
  /\ mode[t] \in {"out", "woken"}
  /\ pool = <<>>
  /\ mode' = [mode EXCEPT ![t] = "waiting"]
  /\ UNCHANGED <<opened, pool, held>>

(* Mutant of ReturnConnection: the push is forgotten.                      *)
ReturnConnectionLeaks(t, c) ==
  /\ mode[t] = "out"
  /\ c \in held[t]
  /\ held' = [held EXCEPT ![t] = @ \ {c}]
  /\ mode' = [mode EXCEPT ![t] = "notifying"]
  /\ UNCHANGED <<opened, pool>>

(* ReturnConnection up to lock.unlock().                                   *)
ReturnConnection(t, c) ==
  /\ mode[t] = "out"
  /\ c \in held[t]
  /\ held' = [held EXCEPT ![t] = @ \ {c}]
  /\ pool' = Append(pool, c)
  /\ mode' = [mode EXCEPT ![t] = "notifying"]
  /\ UNCHANGED opened

(* Mutant of NotifyOne: no notification at all.                            *)
NotifyNobody(t) ==
  /\ mode[t] = "notifying"
  /\ mode' = [mode EXCEPT ![t] = "out"]
  /\ UNCHANGED <<opened, pool, held>>

(* _condition.notify_one(): wakes one sleeper, or nobody.                  *)
NotifyOne(t) ==
  /\ mode[t] = "notifying"
  /\ \/ \E u \in Threads :
          /\ mode[u] = "waiting"
          /\ mode' = [mode EXCEPT ![t] = "out", ![u] = "woken"]
     \/ /\ \A u \in Threads : mode[u] # "waiting"
        /\ mode' = [mode EXCEPT ![t] = "out"]
  /\ UNCHANGED <<opened, pool, held>>

(* wait() may return without a notification; hence the code's while loop.  *)
SpuriousWakeup(t) ==
  /\ mode[t] = "waiting"
  /\ mode' = [mode EXCEPT ![t] = "woken"]
  /\ UNCHANGED <<opened, pool, held>>

(* The process terminates (an exception leaves a thread) and the container *)
(* is started again: a new pool, all threads at their beginning.           *)
PoolRestart ==
  /\ \E o \in MinOpened..PoolSize : Open(o, pool') /\ opened' = o
  /\ held' = [t \in Threads |-> {}]
  /\ mode' = [t \in Threads |-> "out"]

(* No caller takes a third connection: workers of the event processor take *)
(* a second one while they hold their first, everybody else takes one.     *)
PoolNext ==
  \/ \E t \in Threads :
       \/ AtMostOne(held[t]) /\ GetConnection(t)
       \/ AtMostOne(held[t]) /\ Wait(t)
       \/ \E c \in Conns : ReturnConnection(t, c)
       \/ NotifyOne(t)
       \/ SpuriousWakeup(t)
  \/ PoolRestart

PoolSpec == PoolInit /\ [][PoolNext]_poolVars

-----------------------------------------------------------------------------
PoolTypeOK ==
  /\ opened \in MinOpened..PoolSize
  /\ pool \in Seq(Conns)
  /\ held \in [Threads -> SUBSET Conns]
  /\ mode \in [Threads -> Modes]

(* No connection is lost, duplicated or in two hands: each one opened is   *)
(* in the queue exactly once or with exactly one thread.                   *)
Conservation ==
  /\ \A c \in Conns : c <= opened <=> (c \in Pooled \/ \E t \in Threads : c \in held[t])
  /\ \A i, j \in DOMAIN pool : pool[i] = pool[j] => i = j
  /\ \A t \in Threads : held[t] \cap Pooled = {}
  /\ \A t, u \in Threads : t # u => held[t] \cap held[u] = {}

(* The threads that are going to look at the queue, or make another look.  *)
Active == {t \in Threads : mode[t] \in {"woken", "notifying"}}

(* No wake-up is lost although notify_one comes after the unlock: while a  *)
(* thread sleeps, every connection in the queue has a thread on its way    *)
(* to it, either woken already or about to be woken by a notifier.         *)
NoLostWakeup ==
  (\E t \in Threads : mode[t] = "waiting") => Len(pool) <= Cardinality(Active)

(* A thread inside GetConnection holds at most one connection already.     *)
NestingBound ==
  \A t \in Threads : mode[t] \in {"waiting", "woken"} => AtMostOne(held[t])

(* Everybody asleep, and nobody left to wake anybody.                      *)
AllWaiting == Threads # {} /\ \A t \in Threads : mode[t] = "waiting"

(* The nested use of the pool cannot deadlock once it has more connections *)
(* than threads: the shipped 10 are just enough for the nine workers of    *)
(* the event processor, unless the database refused one of them.           *)
DeadlockNeedsShortage ==
  AllWaiting => opened <= Cardinality(Threads)

(* A client sees none of this: to it a connection is free or lent out.     *)
Lease == INSTANCE ConnectionLease WITH free <- Pooled, lent <- held

LeaseKept == Lease!LeaseSpec
=============================================================================
