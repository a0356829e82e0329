--------------------------- MODULE ConnectionLease ---------------------------
(***************************************************************************)
(* What a client of the connection pool relies on: a connection is free or *)
(* with one thread.  No mutex, no queue, no wake-ups; a thread that finds  *)
(* none free simply cannot take one.  ConnectionPool implements this       *)
(* (ConnectionPoolProofs!PoolImplementsLease), RuleEngine is built on it.  *)
(***************************************************************************)
EXTENDS Naturals

CONSTANTS
  Threads,    (* the threads of the process that owns the pool             *)
  PoolSize,   (* db_pool_configuration.max_connections                     *)
  MinOpened   (* connections the database grants at the least              *)

VARIABLES
  free,       (* connections in the pool                                   *)
  lent        (* lent[t]: connections thread t took and has not returned   *)

leaseVars == <<free, lent>>

LeaseInit ==
  /\ \E o \in MinOpened..PoolSize : free = 1..o
  /\ lent = [t \in Threads |-> {}]

Take(t, c) ==
  /\ c \in free
  /\ free' = free \ {c}
  /\ lent' = [lent EXCEPT ![t] = @ \cup {c}]

Give(t, c) ==
  /\ c \in lent[t]
  /\ free' = free \cup {c}
  /\ lent' = [lent EXCEPT ![t] = @ \ {c}]

LeaseRestart ==
  /\ \E o \in MinOpened..PoolSize : free' = 1..o
  /\ lent' = [t \in Threads |-> {}]

LeaseNext ==
  \/ \E t \in Threads, c \in 1..PoolSize : Take(t, c) \/ Give(t, c)
  \/ LeaseRestart

LeaseSpec == LeaseInit /\ [][LeaseNext]_leaseVars

(* A connection has at most one holder, and is not free while it has one.  *)
Exclusive ==
  /\ \A t \in Threads : lent[t] \cap free = {}
  /\ \A t, u \in Threads : t # u => lent[t] \cap lent[u] = {}
=============================================================================
