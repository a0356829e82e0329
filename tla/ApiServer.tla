----------------------------- MODULE ApiServer -----------------------------
(***************************************************************************)
(* The API server (src/vajra/server/api_server.cpp, RequestRouter.cpp,     *)
(* WebServer.cpp): a detached thread per client, which looks every request *)
(* up in one router without a lock, and takes a connection out of the pool *)
(* twice, for the authenticator and for the handler.  The handlers are the *)
(* scripts of ApiHandlers; what they read and write in the database only   *)
(* shows as the way through its script that a handler takes.               *)
(*                                                                         *)
(* Some things in it are undefined behaviour, and a choice here between    *)
(* the outcomes: a lookup that overlaps an insertion into the router's     *)
(* unordered_map, a call through a route that is overwritten meanwhile,    *)
(* a walk through a snapshot without the process, and a function that ends *)
(* without returning its value.                                            *)
(***************************************************************************)
EXTENDS ConnectionLease, ApiHandlers, FiniteSets

CONSTANT
  Menus       (* [paths, pool, sessions, errors, helper]: the requests     *)
              (* clients make, the connections the database grants, the    *)
              (* sessions that serve, database errors at the most, and the *)
              (* calls of the longest helper (bounds)                      *)

(* A path the server has a handler for is named after it; others are not.  *)
Known == DOMAIN Handlers

ASSUME ApiServerAssumption ==
  /\ PoolSize \in Nat \ {0} /\ MinOpened \in 1..PoolSize
  /\ \A m \in Menus : /\ m.pool \in MinOpened..PoolSize
                       /\ m.sessions \subseteq Threads
                       /\ m.errors \in Nat

VARIABLES
  menu,       (* the menu of this behaviour, which does not change         *)
  routes,     (* routes[p]: "own" handler, "default" handler or "none"     *)
  pc,         (* pc[t]: where session t stands                             *)
  path,       (* path[t]: what its request is for                          *)
  script,     (* script[t]: the way through the handler it is on           *)
  disturbed,  (* sessions whose use of the router another one overlapped   *)
  leftover,   (* leftover[c]: statements prepared on connection c          *)
  refused,    (* paths that were refused before any database error         *)
  causes,     (* what went wrong so far without a database error: "race"   *)
              (* in the router; "walk", broken off or endless              *)
  faults,     (* database errors so far                                    *)
  ended       (* the process has ended, and was started again              *)

vars == <<leaseVars, menu, routes, pc, path, script, disturbed, leftover, refused,
          causes, faults, ended>>

history == <<refused, causes, faults, ended>>

FirstRoutes == [p \in menu.paths |-> IF p \in Known THEN "own" ELSE "none"]

Init ==
  /\ LeaseInit
  /\ menu \in Menus
  /\ free = 1..menu.pool
  /\ routes = FirstRoutes
  /\ pc = [t \in Threads |-> "idle"]
  /\ path = [t \in Threads |-> "none"]
  /\ script = [t \in Threads |-> Plain(<<>>)]
  /\ disturbed = {}
  /\ leftover = [c \in 1..PoolSize |-> {}]
  /\ refused = {}
  /\ causes = {}
  /\ faults = 0
  /\ ended = FALSE

Goto(t, l) == pc' = [pc EXCEPT ![t] = l]

-----------------------------------------------------------------------------
(* A session.                                                              *)

Request(t) ==
  /\ pc[t] = "idle"
  /\ t \in menu.sessions
  /\ \E p \in menu.paths : path' = [path EXCEPT ![t] = p]
  /\ Goto(t, "check")
  /\ UNCHANGED <<leaseVars, menu, routes, script, disturbed, leftover, history>>

GetForCheck(t) ==
  /\ pc[t] = "check"
  /\ \E c \in 1..PoolSize : Take(t, c)
  /\ Goto(t, "checking")
  /\ UNCHANGED <<menu, routes, path, script, disturbed, leftover, history>>

(* Mutant of Authenticate: the early return skips ReturnConnection.        *)
AuthenticateLeaks(t) ==
  /\ pc[t] = "checking"
  /\ \/ Goto(t, "look") /\ \E c \in 1..PoolSize : Give(t, c)
     \/ Goto(t, "answer") /\ UNCHANGED leaseVars
  /\ UNCHANGED <<menu, routes, path, script, disturbed, leftover, history>>

(* The authenticator catches everything; an OPTIONS request passes it, one *)
(* without a good token is answered "unauthorized".                        *)
Authenticate(t) ==
  /\ pc[t] = "checking"
  /\ \E c \in 1..PoolSize : Give(t, c)
  /\ \E l \in {"look", "answer"} : Goto(t, l)
  /\ UNCHANGED <<menu, routes, path, script, disturbed, leftover, history>>

Others(t, places) == {u \in Threads \ {t} : pc[u] \in places}

Disturb(who) ==
  /\ disturbed' = disturbed \cup who
  /\ causes' = IF who = {} THEN causes ELSE causes \cup {"race"}

(* RequestRouter::operator[], the find: a reader disturbs nobody.          *)
Look(t) ==
  /\ pc[t] = "look"
  /\ Disturb(IF Others(t, {"inserting"}) = {} THEN {} ELSE {t})
  /\ Goto(t, "looking")
  /\ UNCHANGED <<leaseVars, menu, routes, path, script, leftover, refused, faults, ended>>

(* Where the way through the router leads for these routes: a path with a  *)
(* handler is answered at once when the method is one it has none for.     *)
Leads(r) ==
  CASE r = "own" -> {"begin", "answer"} [] r = "default" -> {"call"} [] OTHER -> {"insert"}

(* While the map is rehashed even a route that is there can be missed.     *)
Looked(t) ==
  /\ pc[t] = "looking"
  /\ \E r \in {routes[path[t]]} \cup (IF t \in disturbed THEN {"none"} ELSE {}) :
       \E l \in Leads(r) : Goto(t, l)
  /\ disturbed' = disturbed \ {t}
  /\ UNCHANGED <<leaseVars, menu, routes, path, script, leftover, history>>

(* The sessions that are inside of a handler, called through the router.   *)
Called == {"call", "begin", "walk", "cut", "calls", "round", "give"}

(* ... and the insertion, which disturbs who reads or writes the map, and  *)
(* who was called through the route that is overwritten.                   *)
Insert(t) ==
  /\ pc[t] = "insert"
  /\ LET inMap == Others(t, {"looking", "inserting"})
         inCall == {u \in Others(t, Called) : path[u] = path[t]}
     IN Disturb(inMap \cup inCall \cup (IF inMap = {} THEN {} ELSE {t}))
  /\ Goto(t, "inserting")
  /\ UNCHANGED <<leaseVars, menu, routes, path, script, leftover, refused, faults, ended>>

(* Mutant of Inserted: operator[] calls itself after the insertion, which  *)
(* was made in a copy of the map.                                          *)
InsertedNowhere(t) ==
  /\ pc[t] = "inserting"
  /\ disturbed' = disturbed \ {t}
  /\ Goto(t, "look")
  /\ UNCHANGED <<leaseVars, menu, routes, path, script, leftover, history>>

(* Two insertions at once can lose an entry of the map.                    *)
Inserted(t) ==
  /\ pc[t] = "inserting"
  /\ \E lost \in SUBSET (IF t \in disturbed THEN menu.paths \ {path[t]} ELSE {}) :
       /\ Cardinality(lost) <= 1
       /\ routes' = [p \in menu.paths |-> IF p = path[t] THEN "default"
                                          ELSE IF p \in lost THEN "none" ELSE routes[p]]
  /\ disturbed' = disturbed \ {t}
  /\ Goto(t, "call")
  /\ UNCHANGED <<leaseVars, menu, path, script, leftover, history>>

(* default_req_handler: "does not exist".                                  *)
Default(t) ==
  /\ pc[t] = "call"
  /\ disturbed' = disturbed \ {t}
  /\ Goto(t, "answer")
  /\ UNCHANGED <<leaseVars, menu, routes, path, script, leftover, history>>

GetForHandler(t) ==
  /\ pc[t] = "begin"
  /\ \E c \in 1..PoolSize : Take(t, c)
  /\ \E s \in Handlers[path[t]] :
       /\ Len(s.walk) <= menu.helper
       /\ script' = [script EXCEPT ![t] = s]
       /\ Goto(t, IF s.walk = <<>> THEN "calls" ELSE "walk")
  /\ UNCHANGED <<menu, routes, path, disturbed, leftover, history>>

(* Session t makes the first k of these calls on its connection, and ends  *)
(* the run in one of these ways.                                           *)
Run(t, calls, k) ==
  leftover' = [c \in 1..PoolSize |-> IF c \in lent[t] THEN Left(leftover[c], calls, k)
                                                      ELSE leftover[c]]

Hows(t, calls, k) ==
  UNION {IF Reaches(leftover[c], calls, k) THEN Ends(leftover[c], calls, k) ELSE {} :
           c \in lent[t]}

CountFault(how) ==
  /\ how = "failed" => faults < menu.errors
  /\ faults' = IF how = "failed" THEN faults + 1 ELSE faults

(* The helper of the handler: its catch blocks do not return a value.  One *)
(* that walks in a circle keeps the session, and its connection.           *)
Walk(t) ==
  /\ pc[t] = "walk"
  /\ \E k \in 0..Len(script[t].walk) : \E how \in Hows(t, script[t].walk, k) :
       /\ Run(t, script[t].walk, k)
       /\ CountFault(how)
       /\ Goto(t, CASE how = "done" -> "calls" [] how = "endless" -> "round"
                    [] OTHER -> "cut")
       /\ script' = IF how = "endless" THEN [script EXCEPT ![t] = Plain(<<>>)] ELSE script
       /\ causes' = IF how \in {"left", "stray", "endless"} THEN causes \cup {"walk"}
                                                            ELSE causes
  /\ UNCHANGED <<leaseVars, menu, routes, path, disturbed, refused, ended>>

(* What the handler found in place of the value was good enough.           *)
Survive(t) ==
  /\ pc[t] = "cut"
  /\ Goto(t, "calls")
  /\ UNCHANGED <<leaseVars, menu, routes, path, script, disturbed, leftover, history>>

(* The run ended in the middle of a walk of the handler itself.            *)
BrokeOff(calls, k, how) == how = "endless" \/ (how = "left" /\ calls[k + 1] = Circle)

(* The handler itself, whose catch blocks answer "bad request" or          *)
(* "internal server error", also when a walk of its own breaks off.        *)
Calls(t) ==
  /\ pc[t] = "calls"
  /\ \E k \in 0..Len(script[t].calls) : \E how \in Hows(t, script[t].calls, k) :
       /\ Run(t, script[t].calls, k)
       /\ CountFault(how)
       /\ refused' = IF how = "refused" /\ faults = 0 THEN refused \cup {path[t]} ELSE refused
       /\ Goto(t, IF how = "endless" THEN "round" ELSE "give")
       /\ causes' = IF BrokeOff(script[t].calls, k, how) THEN causes \cup {"walk"} ELSE causes
  /\ script' = [script EXCEPT ![t] = Plain(<<>>)]
  /\ UNCHANGED <<leaseVars, menu, routes, path, disturbed, ended>>

GiveBack(t) ==
  /\ pc[t] = "give"
  /\ \E c \in 1..PoolSize : Give(t, c)
  /\ disturbed' = disturbed \ {t}
  /\ Goto(t, "answer")
  /\ UNCHANGED <<menu, routes, path, script, leftover, history>>

Answer(t) ==
  /\ pc[t] = "answer"
  /\ path' = [path EXCEPT ![t] = "none"]
  /\ Goto(t, "idle")
  /\ UNCHANGED <<leaseVars, menu, routes, script, disturbed, leftover, history>>

(* Undefined behaviour ends the process, and so does the list of a walk in *)
(* a circle when the memory runs out; it is started again.                 *)
Collapse ==
  /\ disturbed # {} \/ \E t \in Threads : pc[t] \in {"cut", "round"}
  /\ LeaseRestart
  /\ free' = 1..menu.pool
  /\ routes' = FirstRoutes
  /\ pc' = [t \in Threads |-> "idle"]
  /\ path' = [t \in Threads |-> "none"]
  /\ script' = [t \in Threads |-> Plain(<<>>)]
  /\ disturbed' = {}
  /\ leftover' = [c \in 1..PoolSize |-> {}]
  /\ ended' = TRUE
  /\ UNCHANGED <<menu, refused, causes, faults>>

Proceed(t) ==
  \/ GetForCheck(t) \/ Authenticate(t) \/ Look(t) \/ Looked(t) \/ Insert(t) \/ Inserted(t)
  \/ Default(t) \/ GetForHandler(t) \/ Walk(t) \/ Survive(t) \/ Calls(t) \/ GiveBack(t)
  \/ Answer(t)

Next == Collapse \/ \E t \in Threads : Request(t) \/ Proceed(t)

Spec == Init /\ [][Next]_vars

(* The scheduler runs every session, and the pool, which wakes one waiting *)
(* thread per returned connection, does not pass one over for ever.        *)
FairSpec ==
  Spec /\ \A t \in Threads : /\ WF_vars(Proceed(t))
                             /\ SF_vars(GetForCheck(t) \/ GetForHandler(t))

-----------------------------------------------------------------------------
Places == {"idle", "check", "checking", "look", "looking", "insert", "inserting",
           "answer"} \cup Called

Holding == {"checking", "walk", "cut", "calls", "round", "give"}

TypeOK ==
  /\ free \subseteq 1..PoolSize
  /\ lent \in [Threads -> SUBSET (1..PoolSize)]
  /\ \A t \in Threads : Cardinality(lent[t]) = IF pc[t] \in Holding THEN 1 ELSE 0
  /\ menu \in Menus
  /\ routes \in [menu.paths -> {"own", "default", "none"}]
  /\ pc \in [Threads -> Places]
  /\ path \in [Threads -> menu.paths \cup {"none"}]
  /\ \A t \in Threads :
       IF pc[t] \in {"walk", "cut", "calls"} THEN script[t] \in Handlers[path[t]]
                                             ELSE script[t] = Plain(<<>>)
  /\ disturbed \subseteq Threads
  /\ DOMAIN leftover = 1..PoolSize
  /\ refused \subseteq menu.paths
  /\ causes \subseteq {"race", "walk"}
  /\ faults \in 0..menu.errors
  /\ ended \in BOOLEAN

(* As long as the database makes no error, the statements that earlier     *)
(* requests left on a connection are in the way of these requests only: of *)
(* nodes_query and of the count that shares a name with it, of historical  *)
(* queries, and of process trees; and nodes_list is refused on account of  *)
(* its own mistake.                                                        *)
OthersNeverRefused ==
  refused \subseteq {"nodes_query", "stat_nodes_count", "historical_data",
                     "event_process_tree", "nodes_list"}

(* These calls end by giving statement s up without meeting its name under *)
(* another text first.                                                     *)
Frees(calls, s) ==
  \E i \in 1..Len(calls) :
    /\ calls[i] = Unprepare(s[1])
    /\ \A j \in 1..(i - 1) :
         calls[j].op = "prepare" /\ calls[j].name = s[1] => calls[j].text = s[2]

(* What is left on a connection goes away only when a handler that can do  *)
(* with the same text, or with none, runs on that connection, or with the  *)
(* process: not with time, and not with the requests it makes fail.        *)
HealedBySameText ==
  [][\A c \in 1..PoolSize : \A s \in leftover[c] \ leftover'[c] :
       \/ \E t \in Threads : /\ c \in lent[t]
                            /\ \/ pc[t] = "walk" /\ Frees(script[t].walk, s)
                               \/ pc[t] = "calls" /\ Frees(script[t].calls, s)
       \/ Collapse]_vars

(* A registered path keeps its handler unless a path that is not           *)
(* registered was looked up at the same time as another one.  Of the       *)
(* statements that requests leave, only those of a walk to the children    *)
(* that broke off can end the process, in the next walk to the parents;    *)
(* apart from these that takes two sessions in the router, a process tree  *)
(* of a row or a parent that is gone or of pids in a circle, a purge       *)
(* without a number of days, or a database error before.                   *)
HarmNeedsCause ==
  /\ "race" \in causes \/ \A p \in menu.paths \cap Known : routes[p] = "own"
  /\ ended => causes # {} \/ faults > 0

(* Every request is answered, or dies with the process, but for two: the   *)
(* one that walks in a circle itself, and any that wait for a connection   *)
(* when such walks hold every one.  The connection of the authenticator is *)
(* back in the pool before the handler needs one.                          *)
EveryRequestAnswered ==
  \A t \in Threads :
    pc[t] # "idle" ~> \/ pc[t] \in {"idle", "round"}
                      \/ Cardinality({u \in Threads : pc[u] = "round"}) = menu.pool
=============================================================================
