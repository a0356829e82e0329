--------------------------- MODULE ApiServerProofs ---------------------------
(***************************************************************************)
(* Proofs about the API server: what its handlers can do to one another    *)
(* through the statements they leave prepared on the connections.  First   *)
(* the algebra of scripts: one call, calls one after the other, scripts    *)
(* joined.  Then every script of every handler is classified: what it may  *)
(* leave behind, and what can be in its way (HandlersGood).  The invariant *)
(* of the server takes nothing else from the handlers.                     *)
(***************************************************************************)
EXTENDS ApiServer, FiniteSetTheorems, WellFoundedInduction, TLAPS

-----------------------------------------------------------------------------
(* Induction over the natural numbers, in the form of a set.               *)
LEMMA LeastNumber ==
  ASSUME NEW T \in SUBSET Nat, T # {}
  PROVE  \E n \in T : \A m \in T : n <= m
<1> DEFINE Below == {s \in Nat \X Nat : s[1] < s[2]}
<1>1. Below = OpToRel(<, Nat)
  BY Zenon DEF OpToRel
<1>2. IsWellFoundedOn(Below, Nat)
  BY <1>1, NatLessThanWellFounded
<1> HIDE DEF Below
<1>3. PICK x \in T : \A y \in T : ~ (<<y, x>> \in Below)
  BY <1>2, WFMin
<1>4. ASSUME NEW y \in T PROVE x <= y
  <2>1. x \in Nat /\ y \in Nat /\ <<y, x>> \in Nat \X Nat
    OBVIOUS
  <2>2. <<y, x>>[1] = y /\ <<y, x>>[2] = x
    OBVIOUS
  <2>3. y < x => <<y, x>> \in Below
    BY <2>1, <2>2 DEF Below
  <2>4. QED
    BY <1>3, <2>1, <2>3
<1>5. QED
  BY <1>4

LEMMA SetInduction ==
  ASSUME NEW S, 0 \in S, \A n \in Nat : n \in S => n + 1 \in S
  PROVE  Nat \subseteq S
<1> DEFINE T == {n \in Nat : n \notin S}
<1> SUFFICES ASSUME T # {} PROVE FALSE
  OBVIOUS
<1>1. T \in SUBSET Nat
  OBVIOUS
<1> HIDE DEF T
<1>2. PICK n \in T : \A m \in T : n <= m
  BY <1>1, LeastNumber
<1>3. n \in Nat /\ n \notin S /\ n # 0
  BY DEF T
<1>4. n - 1 \in Nat /\ n = (n - 1) + 1 /\ ~ (n <= n - 1)
  BY <1>3
<1>5. n - 1 \in S
  BY <1>2, <1>4 DEF T
<1>6. QED
  BY <1>3, <1>4, <1>5

-----------------------------------------------------------------------------
(* The calls of the scripts, and the statements they prepare.              *)
Script(calls) ==
  /\ \E S : calls \in Seq(S)
  /\ \A i \in 1..Len(calls) : calls[i].op = "unprepare" => calls[i] = Unprepare(calls[i].name)

(* What one call does to the statements of a connection.                   *)
Does(stmts, call) ==
  {s \in stmts : ~ Touches(call, s[1])} \cup
  (IF call.op = "prepare" THEN {<<call.name, call.text>>} ELSE {})

LEMMA LeftNone ==
  ASSUME NEW stmts, NEW calls
  PROVE  Left(stmts, calls, 0) = stmts
BY DEF Left

LEMMA LeftNext ==
  ASSUME NEW stmts, NEW calls, NEW k \in Nat
  PROVE  Left(stmts, calls, k + 1) = Does(Left(stmts, calls, k), calls[k + 1])
<1> DEFINE Last(j, n) == calls[j].op = "prepare" /\ \A l \in (j + 1)..n :
                            ~ Touches(calls[l], calls[j].name)
           Pair(j) == <<calls[j].name, calls[j].text>>
<1>1. \A n, s : s \in Left(stmts, calls, n) <=>
        \/ s \in stmts /\ \A i \in 1..n : ~ Touches(calls[i], s[1])
        \/ \E j \in 1..n : Last(j, n) /\ s = Pair(j)
  BY DEF Left
<1>2. \A i : i \in 1..(k + 1) <=> i \in 1..k \/ i = k + 1
  OBVIOUS
<1>3. \A j \in 1..k : \A i : i \in (j + 1)..(k + 1) <=> i \in (j + 1)..k \/ i = k + 1
  OBVIOUS
<1>4. \A j \in 1..k : Last(j, k + 1) <=> Last(j, k) /\ ~ Touches(calls[k + 1], Pair(j)[1])
  BY <1>3
<1>5. Last(k + 1, k + 1) <=> calls[k + 1].op = "prepare"
  OBVIOUS
<1> HIDE DEF Last
<1>6. ASSUME NEW s
      PROVE  s \in Left(stmts, calls, k + 1) <=> s \in Does(Left(stmts, calls, k), calls[k + 1])
  <2>1. s \in Left(stmts, calls, k + 1) <=>
          \/ /\ s \in stmts /\ \A i \in 1..k : ~ Touches(calls[i], s[1])
             /\ ~ Touches(calls[k + 1], s[1])
          \/ \E j \in 1..k : Last(j, k + 1) /\ s = Pair(j)
          \/ Last(k + 1, k + 1) /\ s = Pair(k + 1)
    BY <1>1, <1>2
  <2>2. (\E j \in 1..k : Last(j, k + 1) /\ s = Pair(j)) <=>
          (\E j \in 1..k : Last(j, k) /\ s = Pair(j)) /\ ~ Touches(calls[k + 1], s[1])
    BY <1>4
  <2>3. s \in Does(Left(stmts, calls, k), calls[k + 1]) <=>
          \/ s \in Left(stmts, calls, k) /\ ~ Touches(calls[k + 1], s[1])
          \/ calls[k + 1].op = "prepare" /\ s = Pair(k + 1)
    BY DEF Does
  <2>4. QED
    BY <1>1, <1>5, <2>1, <2>2, <2>3
<1>7. QED
  BY <1>6

(* ... one after the other.                                                *)
LEMMA LeftSteps ==
  ASSUME NEW stmts, NEW calls
  PROVE  /\ Left(stmts, calls, 0) = stmts
         /\ Left(stmts, calls, 1) = Does(stmts, calls[1])
         /\ Left(stmts, calls, 2) = Does(Left(stmts, calls, 1), calls[2])
         /\ Left(stmts, calls, 3) = Does(Left(stmts, calls, 2), calls[3])
         /\ Left(stmts, calls, 4) = Does(Left(stmts, calls, 3), calls[4])
         /\ Left(stmts, calls, 5) = Does(Left(stmts, calls, 4), calls[5])
<1>1. /\ 0 + 1 = 1 /\ 1 + 1 = 2 /\ 2 + 1 = 3 /\ 3 + 1 = 4 /\ 4 + 1 = 5
      /\ 0 \in Nat /\ 1 \in Nat /\ 2 \in Nat /\ 3 \in Nat /\ 4 \in Nat
  OBVIOUS
<1>2. Left(stmts, calls, 0) = stmts
  BY LeftNone
<1>3. /\ Left(stmts, calls, 0 + 1) = Does(Left(stmts, calls, 0), calls[0 + 1])
      /\ Left(stmts, calls, 1 + 1) = Does(Left(stmts, calls, 1), calls[1 + 1])
      /\ Left(stmts, calls, 2 + 1) = Does(Left(stmts, calls, 2), calls[2 + 1])
      /\ Left(stmts, calls, 3 + 1) = Does(Left(stmts, calls, 3), calls[3 + 1])
      /\ Left(stmts, calls, 4 + 1) = Does(Left(stmts, calls, 4), calls[4 + 1])
  BY <1>1, LeftNext, Zenon
<1>4. QED
  BY <1>1, <1>2, <1>3

(* Nothing is left but what was there and what was prepared.               *)
LEMMA LeftWithin ==
  ASSUME NEW stmts, NEW calls, NEW k, NEW s \in Left(stmts, calls, k)
  PROVE  \/ s \in stmts
         \/ \E i \in 1..k : calls[i].op = "prepare" /\ s = <<calls[i].name, calls[i].text>>
BY DEF Left

LEMMA LeftSame ==
  ASSUME NEW stmts, NEW a, NEW b, NEW k \in Nat, \A i \in 1..k : a[i] = b[i]
  PROVE  Left(stmts, a, k) = Left(stmts, b, k)
<1>1. \A j \in 1..k : \A l \in (j + 1)..k : l \in 1..k
  OBVIOUS
<1>2. QED
  BY <1>1 DEF Left

(* A script from one set of statements to another, none of its calls       *)
(* refused.                                                                *)
Goes(from, calls, to) ==
  /\ Reaches(from, calls, Len(calls))
  /\ Left(from, calls, Len(calls)) = to

LEMMA JoinShape ==
  ASSUME NEW a, NEW b, Script(a), Script(b)
  PROVE  /\ Script(a \o b) /\ Len(a \o b) = Len(a) + Len(b)
         /\ Len(a) \in Nat /\ Len(b) \in Nat
         /\ \A i \in 1..Len(a) : (a \o b)[i] = a[i]
         /\ \A i \in 1..Len(b) : (a \o b)[Len(a) + i] = b[i]
<1>1. PICK S : a \in Seq(S) /\ b \in Seq(S)
  <2>1. PICK A, B : a \in Seq(A) /\ b \in Seq(B)
    BY DEF Script
  <2>2. a \in Seq(A \cup B) /\ b \in Seq(A \cup B)
    BY <2>1
  <2>3. QED
    BY <2>2
<1>2. /\ a \o b \in Seq(S) /\ Len(a \o b) = Len(a) + Len(b)
      /\ Len(a) \in Nat /\ Len(b) \in Nat
      /\ \A i \in 1..Len(a) : (a \o b)[i] = a[i]
      /\ \A i \in 1..Len(b) : (a \o b)[Len(a) + i] = b[i]
  BY <1>1
<1>3. ASSUME NEW i \in 1..Len(a \o b)
      PROVE  i \in 1..Len(a) \/ \E j \in 1..Len(b) : i = Len(a) + j
  <2>1. i > Len(a) => i - Len(a) \in 1..Len(b) /\ i = Len(a) + (i - Len(a))
    BY <1>2
  <2>2. QED
    BY <1>2, <2>1
<1>4. Script(a \o b)
  BY <1>2, <1>3 DEF Script
<1>5. QED
  BY <1>2, <1>4

LEMMA GoesJoin ==
  ASSUME NEW a, NEW b, Script(a), Script(b), NEW x, NEW y, NEW z,
         Goes(x, a, y), Goes(y, b, z)
  PROVE  Script(a \o b) /\ Goes(x, a \o b, z)
<1> DEFINE c == a \o b
           S == {m \in Nat : m <= Len(b) => Left(x, c, Len(a) + m) = Left(y, b, m)}
<1>1. /\ Script(c) /\ Len(c) = Len(a) + Len(b) /\ Len(a) \in Nat /\ Len(b) \in Nat
      /\ \A i \in 1..Len(a) : c[i] = a[i]
      /\ \A i \in 1..Len(b) : c[Len(a) + i] = b[i]
  BY JoinShape
<1> HIDE DEF c
<1>2. \A k \in 0..Len(a) : Left(x, c, k) = Left(x, a, k)
  BY <1>1, LeftSame
<1>3. 0 \in S
  BY <1>1, <1>2, LeftNone DEF Goes
<1>4. ASSUME NEW m \in Nat, m \in S PROVE m + 1 \in S
  <2> SUFFICES ASSUME m + 1 <= Len(b) PROVE Left(x, c, Len(a) + (m + 1)) = Left(y, b, m + 1)
    OBVIOUS
  <2>1. Left(x, c, Len(a) + m) = Left(y, b, m)
    BY <1>1, <1>4
  <2>2. Len(a) + (m + 1) = (Len(a) + m) + 1 /\ Len(a) + m \in Nat /\ m + 1 \in 1..Len(b)
    BY <1>1
  <2>3. c[(Len(a) + m) + 1] = b[m + 1]
    BY <1>1, <2>2
  <2>4. QED
    BY <2>1, <2>2, <2>3, LeftNext
<1>5. \A m \in 0..Len(b) : Left(x, c, Len(a) + m) = Left(y, b, m)
  <2> HIDE DEF S
  <2>1. Nat \subseteq S
    BY <1>3, <1>4, SetInduction
  <2>2. QED
    BY <1>1, <2>1 DEF S
<1>6. ASSUME NEW i \in 0..(Len(c) - 1) PROVE ~ Refused(Left(x, c, i), c[i + 1])
  <2>1. CASE i < Len(a)
    <3>1. i \in 0..(Len(a) - 1) /\ i \in 0..Len(a) /\ i + 1 \in 1..Len(a)
      BY <1>1, <2>1
    <3>2. c[i + 1] = a[i + 1] /\ Left(x, c, i) = Left(x, a, i)
      BY <1>1, <1>2, <3>1
    <3>3. QED
      BY <3>1, <3>2 DEF Goes, Reaches
  <2>2. CASE i >= Len(a)
    <3>1. PICK m \in Nat : i = Len(a) + m
      <4>1. i - Len(a) \in Nat /\ i = Len(a) + (i - Len(a))
        BY <1>1, <2>2
      <4>2. QED
        BY <4>1
    <3>2. m \in 0..(Len(b) - 1) /\ m \in 0..Len(b) /\ m + 1 \in 1..Len(b)
          /\ i + 1 = Len(a) + (m + 1)
      BY <1>1, <3>1
    <3>3. c[i + 1] = b[m + 1] /\ Left(x, c, i) = Left(y, b, m)
      BY <1>1, <1>5, <3>1, <3>2
    <3>4. QED
      BY <3>2, <3>3 DEF Goes, Reaches
  <2>3. QED
    BY <1>1, <2>1, <2>2
<1>7. Left(x, c, Len(c)) = z
  BY <1>1, <1>5 DEF Goes
<1>8. QED
  BY <1>1, <1>6, <1>7 DEF Goes, Reaches, c

-----------------------------------------------------------------------------
(* Scripts that find their names free, and leave them free.                *)
Free(stmts, names) == \A s \in stmts : s[1] \notin names

Smooth(calls, names) == \A stmts : Free(stmts, names) => Goes(stmts, calls, stmts)

(* ... and that do not walk, nor leave early.                              *)
Stops == {"leave", "circle", "snapshot"}

Straight(calls) == \A i \in 1..Len(calls) : calls[i].op \notin Stops

Tidy(calls, names) == Script(calls) /\ Smooth(calls, names) /\ Straight(calls)

LEMMA EmptyTidy == Tidy(<<>>, {})
<1>1. Script(<<>>) /\ Len(<<>>) = 0
  BY DEF Script
<1>2. ASSUME NEW x PROVE Goes(x, <<>>, x)
  BY <1>1, LeftNone DEF Goes, Reaches
<1>3. QED
  BY <1>1, <1>2 DEF Tidy, Smooth, Straight

LEMMA TidyJoin ==
  ASSUME NEW a, NEW b, NEW M, NEW N, Tidy(a, M), Tidy(b, N)
  PROVE  Tidy(a \o b, M \cup N)
<1>1. Script(a) /\ Script(b)
  BY DEF Tidy
<1>2. ASSUME NEW x, Free(x, M \cup N) PROVE Goes(x, a, x) /\ Goes(x, b, x)
  BY <1>2 DEF Tidy, Smooth, Free
<1>3. ASSUME NEW x, Free(x, M \cup N) PROVE Goes(x, a \o b, x)
  BY <1>1, <1>2, <1>3, GoesJoin
<1>4. Script(a \o b) /\ Straight(a \o b)
  <2>1. ASSUME NEW i \in 1..Len(a \o b) PROVE (a \o b)[i].op \notin Stops
    <3>1. i > Len(a) => i - Len(a) \in 1..Len(b) /\ i = Len(a) + (i - Len(a))
      BY <1>1, JoinShape
    <3>2. QED
      BY <1>1, <3>1, JoinShape DEF Tidy, Straight
  <2>2. QED
    BY <1>1, <2>1, JoinShape DEF Straight
<1>5. QED
  BY <1>3, <1>4 DEF Tidy, Smooth

(* The names a script prepares.                                            *)
PreparesIn(calls, names) ==
  \A i \in 1..Len(calls) : calls[i].op = "prepare" => calls[i].name \in names

LEMMA PreparesJoin ==
  ASSUME NEW a, NEW b, Script(a), Script(b), NEW names,
         PreparesIn(a, names), PreparesIn(b, names)
  PROVE  PreparesIn(a \o b, names)
<1>1. ASSUME NEW i \in 1..Len(a \o b), (a \o b)[i].op = "prepare"
      PROVE  (a \o b)[i].name \in names
  <2>1. i > Len(a) => i - Len(a) \in 1..Len(b) /\ i = Len(a) + (i - Len(a))
    BY JoinShape
  <2>2. QED
    BY <1>1, <2>1, JoinShape DEF PreparesIn
<1>2. QED
  BY <1>1 DEF PreparesIn

(* What the calls do, and when they are refused.                           *)
Without(stmts, n) == {s \in stmts : s[1] # n}

With(stmts, n, x) == Without(stmts, n) \cup {<<n, x>>}

LEMMA DoesWhat ==
  ASSUME NEW n, NEW x, NEW stmts
  PROVE  /\ Does(stmts, Prepare(n, x)) = With(stmts, n, x)
         /\ Does(stmts, Exec(n)) = stmts
         /\ Does(stmts, Unprepare(n)) = Without(stmts, n)
         /\ Does(stmts, Leave) = stmts
         /\ Does(stmts, Circle) = stmts
         /\ Does(stmts, Snapshot) = stmts
BY DEF Prepare, Exec, Unprepare, Leave, Circle, Snapshot, Does, Touches, With, Without

LEMMA WithWhat ==
  ASSUME NEW stmts, NEW n, NEW x
  PROVE  /\ Without(With(stmts, n, x), n) = Without(stmts, n)
         /\ \E s \in With(stmts, n, x) : s[1] = n
         /\ \A s \in With(stmts, n, x) : s[1] = n => s[2] = x
         /\ \A s \in With(stmts, n, x) : s[1] # n => s \in stmts
         /\ \A s \in stmts : s[1] # n => s \in With(stmts, n, x)
         /\ Free(stmts, {n}) => Without(stmts, n) = stmts
<1>1. <<n, x>>[1] = n /\ <<n, x>>[2] = x
  OBVIOUS
<1>2. <<n, x>> \in With(stmts, n, x) /\ \A s \in With(stmts, n, x) : s[1] = n => s = <<n, x>>
  BY DEF With, Without
<1>3. Without(With(stmts, n, x), n) = Without(stmts, n)
  BY DEF With, Without
<1>4. QED
  BY <1>1, <1>2, <1>3 DEF With, Without, Free

LEMMA WithName ==
  ASSUME NEW stmts, NEW n, NEW x
  PROVE  \E s \in With(stmts, n, x) : s[1] = n
BY WithWhat

LEMMA RefusedWhat ==
  ASSUME NEW n, NEW x, NEW stmts
  PROVE  /\ Refused(stmts, Prepare(n, x)) <=> \E s \in stmts : s[1] = n /\ s[2] # x
         /\ Refused(stmts, Exec(n)) <=> \A s \in stmts : s[1] # n
         /\ ~ Refused(stmts, Unprepare(n))
         /\ ~ Refused(stmts, Leave)
         /\ ~ Refused(stmts, Circle)
         /\ ~ Refused(stmts, Snapshot)
BY DEF Prepare, Exec, Unprepare, Leave, Circle, Snapshot, Refused

LEMMA UseShape ==
  ASSUME NEW n, NEW x
  PROVE  /\ Script(Use(n, x)) /\ Len(Use(n, x)) = 3 /\ Straight(Use(n, x))
         /\ Use(n, x)[1] = Prepare(n, x) /\ Use(n, x)[2] = Exec(n)
         /\ Use(n, x)[3] = Unprepare(n)
         /\ PreparesIn(Use(n, x), {n})
<1>1. /\ Len(Use(n, x)) = 3
      /\ Use(n, x)[1] = Prepare(n, x) /\ Use(n, x)[2] = Exec(n)
      /\ Use(n, x)[3] = Unprepare(n)
  BY DEF Use
<1>2. Use(n, x) \in Seq({Prepare(n, x), Exec(n), Unprepare(n)})
  BY DEF Use
<1>3. \A i \in 1..3 : i = 1 \/ i = 2 \/ i = 3
  OBVIOUS
<1>4. Script(Use(n, x)) /\ Straight(Use(n, x)) /\ PreparesIn(Use(n, x), {n})
  BY <1>1, <1>2, <1>3 DEF Script, Straight, Stops, PreparesIn, Prepare, Exec, Unprepare
<1>5. QED
  BY <1>1, <1>4

(* When the name is free, or has the same text, nothing is refused.        *)
LEMMA UseGoes ==
  ASSUME NEW n, NEW x, NEW stmts, \A s \in stmts : s[1] = n => s[2] = x
  PROVE  Goes(stmts, Use(n, x), Without(stmts, n))
<1> DEFINE c == Use(n, x)
           one == With(stmts, n, x)
<1>1. /\ Script(c) /\ Len(c) = 3
      /\ c[1] = Prepare(n, x) /\ c[2] = Exec(n) /\ c[3] = Unprepare(n)
  BY UseShape
<1> HIDE DEF c
<1>2. /\ Does(stmts, c[1]) = one /\ Does(one, c[2]) = one
      /\ Does(one, c[3]) = Without(stmts, n)
  <2>1. Without(one, n) = Without(stmts, n)
    BY WithWhat
  <2> HIDE DEF one
  <2>2. Does(stmts, Prepare(n, x)) = With(stmts, n, x)
    BY DoesWhat
  <2>3. Does(one, Exec(n)) = one
    BY DoesWhat
  <2>4. Does(one, Unprepare(n)) = Without(one, n)
    BY DoesWhat
  <2>5. QED
    BY <1>1, <2>1, <2>2, <2>3, <2>4 DEF one
<1>3. ~ Refused(stmts, c[1]) /\ ~ Refused(one, c[2]) /\ ~ Refused(one, c[3])
  <2>1. \E s \in one : s[1] = n
    BY WithWhat
  <2> HIDE DEF one
  <2>2. ~ Refused(stmts, Prepare(n, x))
    BY DEF Refused, Prepare
  <2>3. ~ Refused(one, Exec(n)) /\ ~ Refused(one, Unprepare(n))
    BY <2>1 DEF Refused, Exec, Unprepare
  <2>4. QED
    BY <1>1, <2>2, <2>3
<1> HIDE DEF one
<1>4. /\ Left(stmts, c, 0) = stmts /\ Left(stmts, c, 1) = one /\ Left(stmts, c, 2) = one
      /\ Left(stmts, c, 3) = Without(stmts, n)
  BY <1>2, LeftSteps
<1>5. ASSUME NEW i \in 0..(Len(c) - 1) PROVE ~ Refused(Left(stmts, c, i), c[i + 1])
  <2>1. i = 0 \/ i = 1 \/ i = 2
    BY <1>1
  <2>2. QED
    BY <1>3, <1>4, <2>1
<1>6. QED
  BY <1>1, <1>4, <1>5 DEF Goes, Reaches, c

LEMMA UseTidy ==
  ASSUME NEW n, NEW x
  PROVE  Tidy(Use(n, x), {n})
<1>1. ASSUME NEW stmts, Free(stmts, {n}) PROVE Goes(stmts, Use(n, x), stmts)
  <2>1. Without(stmts, n) = stmts /\ \A s \in stmts : s[1] = n => s[2] = x
    BY <1>1 DEF Free, Without
  <2>2. QED
    BY <2>1, UseGoes
<1>2. QED
  BY <1>1, UseShape DEF Tidy, Smooth

-----------------------------------------------------------------------------
(* What a request may leave behind without a database error, and what the  *)
(* walks of event_process_tree need to be free of.                         *)
TreeNames ==
  {"get_bpf_process_data_execve", "get_win_process_data_execve", "get_process_data",
   "update_container_process", "get_socket_data_from_id", "get_file_data_from_id"}

LeftNames ==
  TreeNames \cup {"get_nodes_query", "nodes_active_count", "historical_data_query",
                  "get_nodes_list_count", "get_nodes_list"}

MayBeLeft(s) == s[1] \in LeftNames /\ (s[1] = "nodes_active_count" => s[2] = "severity")

OnlyKnown(stmts) == \A s \in stmts : MayBeLeft(s)

Troubled == {"nodes_query", "stat_nodes_count", "historical_data", "event_process_tree",
             "nodes_list"}

(* The calls of the handler of path p, when they end without an error: a   *)
(* walk of its own that breaks off is what can leave names of the trees.   *)
CallsSafe(p, calls) ==
  \A stmts : \A k \in 0..Len(calls) : \A how \in Ends(stmts, calls, k) :
    OnlyKnown(stmts) /\ Reaches(stmts, calls, k) /\ how # "failed" =>
      /\ OnlyKnown(Left(stmts, calls, k))
      /\ how = "refused" => p \in Troubled
      /\ Free(stmts, TreeNames) =>
           Free(Left(stmts, calls, k), TreeNames) \/ BrokeOff(calls, k, how)

(* ... and the helper it calls first.                                      *)
WalkSafe(walk) ==
  \A stmts : \A k \in 0..Len(walk) : \A how \in Ends(stmts, walk, k) :
    OnlyKnown(stmts) /\ Reaches(stmts, walk, k) /\ how # "failed" =>
      /\ OnlyKnown(Left(stmts, walk, k))
      /\ Free(stmts, TreeNames) =>
           how # "refused" /\ (how = "done" => Free(Left(stmts, walk, k), TreeNames))

LEMMA EndsHow ==
  ASSUME NEW stmts, NEW calls, Script(calls), NEW k \in 0..Len(calls),
         NEW how \in Ends(stmts, calls, k)
  PROVE  /\ how \in {"done", "stray", "left", "endless", "refused", "failed"}
         /\ how \in {"done", "stray"} => k = Len(calls)
         /\ how \notin {"done", "stray"} =>
              k + 1 \in 1..Len(calls) /\ k \in 0..(Len(calls) - 1)
         /\ how = "refused" => Refused(Left(stmts, calls, k), calls[k + 1])
         /\ how = "left" => calls[k + 1].op \in {"leave", "circle"}
         /\ how = "endless" => calls[k + 1].op \in {"circle", "snapshot"}
<1>1. Len(calls) \in Nat
  BY DEF Script
<1>2. CASE k = Len(calls)
  BY <1>1, <1>2 DEF Ends
<1>3. CASE k # Len(calls)
  BY <1>1, <1>3 DEF Ends
<1>4. QED
  BY <1>2, <1>3

(* After a script that goes somewhere, no end is a refusal.                *)
LEMMA GoesEnds ==
  ASSUME NEW x, NEW y, NEW calls, Script(calls), Goes(x, calls, y),
         NEW k \in 0..Len(calls), NEW how \in Ends(x, calls, k)
  PROVE  /\ how # "refused"
         /\ how \in {"done", "stray"} => Left(x, calls, k) = y
BY EndsHow DEF Goes, Reaches

LEMMA TidySafe ==
  ASSUME NEW p, NEW calls, NEW N, Tidy(calls, N), N \cap LeftNames = {}
  PROVE  Script(calls) /\ CallsSafe(p, calls)
<1>1. Script(calls) /\ Straight(calls)
  BY DEF Tidy
<1>2. ASSUME NEW stmts, NEW k \in 0..Len(calls), NEW how \in Ends(stmts, calls, k),
             OnlyKnown(stmts), how # "failed"
      PROVE  Left(stmts, calls, k) = stmts /\ how # "refused"
  <2>1. Free(stmts, N)
    BY <1>2 DEF OnlyKnown, MayBeLeft, Free
  <2>2. Goes(stmts, calls, stmts)
    BY <2>1 DEF Tidy, Smooth
  <2>3. how \notin {"left", "endless"}
    BY <1>1, EndsHow DEF Straight, Stops
  <2>4. how \in {"done", "stray"} /\ how # "refused"
    BY <1>1, <1>2, <2>2, <2>3, EndsHow, GoesEnds
  <2>5. QED
    BY <1>1, <2>2, <2>4, GoesEnds
<1>3. QED
  BY <1>1, <1>2 DEF CallsSafe

(* Scripts that are in nobody's way but their own.                         *)
LEMMA KnownSafe ==
  ASSUME NEW p \in Troubled, NEW calls, Script(calls),
         \A i \in 1..Len(calls) : calls[i].op = "prepare" =>
           /\ calls[i].name \in LeftNames \ TreeNames
           /\ calls[i].name = "nodes_active_count" => calls[i].text = "severity"
  PROVE  CallsSafe(p, calls)
<1>1. Len(calls) \in Nat
  BY DEF Script
<1>2. ASSUME NEW stmts, NEW k \in 0..Len(calls), NEW s \in Left(stmts, calls, k)
      PROVE  s \in stmts \/ (MayBeLeft(s) /\ s[1] \notin TreeNames)
  <2>1. \A i \in 1..k : i \in 1..Len(calls)
    BY <1>1
  <2>2. QED
    BY <2>1, LeftWithin DEF MayBeLeft
<1>3. QED
  BY <1>2 DEF CallsSafe, OnlyKnown, Free

(* Scripts of event_process_tree.                                          *)
TreeScript(calls) ==
  /\ Script(calls) /\ Smooth(calls, TreeNames)
  /\ PreparesIn(calls, TreeNames)

LEMMA TreeKnown ==
  ASSUME NEW calls, TreeScript(calls), NEW stmts, OnlyKnown(stmts), NEW k \in 0..Len(calls)
  PROVE  OnlyKnown(Left(stmts, calls, k))
<1>1. Len(calls) \in Nat
  BY DEF Script, TreeScript
<1>2. \A i \in 1..k : i \in 1..Len(calls)
  BY <1>1
<1>3. ASSUME NEW s \in Left(stmts, calls, k) PROVE MayBeLeft(s)
  BY <1>2, LeftWithin DEF MayBeLeft, OnlyKnown, TreeScript, PreparesIn, LeftNames, TreeNames
<1>4. QED
  BY <1>3 DEF OnlyKnown

LEMMA TreeWalkSafe ==
  ASSUME NEW walk, TreeScript(walk)
  PROVE  Script(walk) /\ WalkSafe(walk)
<1>1. Script(walk)
  BY DEF TreeScript
<1>2. ASSUME NEW stmts, NEW k \in 0..Len(walk), NEW how \in Ends(stmts, walk, k),
             Free(stmts, TreeNames)
      PROVE  how # "refused" /\ (how = "done" => Left(stmts, walk, k) = stmts)
  BY <1>1, <1>2, GoesEnds DEF TreeScript, Smooth
<1>3. QED
  BY <1>1, <1>2, TreeKnown DEF WalkSafe

LEMMA TreeCallsSafe ==
  ASSUME NEW calls, TreeScript(calls),
         \A i \in 1..Len(calls) :
           calls[i].op \in {"leave", "circle"} => i = 1 \/ calls[i] = Circle
  PROVE  Script(calls) /\ CallsSafe("event_process_tree", calls)
<1>1. Script(calls)
  BY DEF TreeScript
<1>2. ASSUME NEW stmts, NEW k \in 0..Len(calls), NEW how \in Ends(stmts, calls, k),
             Free(stmts, TreeNames), how # "failed"
      PROVE  Left(stmts, calls, k) = stmts \/ BrokeOff(calls, k, how)
  <2>1. how # "refused" /\ (how \in {"done", "stray"} => Left(stmts, calls, k) = stmts)
    BY <1>1, <1>2, GoesEnds DEF TreeScript, Smooth
  <2>2. ASSUME how = "left" PROVE k = 0 \/ BrokeOff(calls, k, how)
    <3>1. /\ k + 1 \in 1..Len(calls) /\ calls[k + 1].op \in {"leave", "circle"}
          /\ Len(calls) \in Nat
      BY <1>1, <2>2, EndsHow DEF Script
    <3>2. k + 1 = 1 \/ calls[k + 1] = Circle
      BY <3>1
    <3>3. QED
      BY <2>2, <3>1, <3>2 DEF BrokeOff
  <2>3. how = "endless" => BrokeOff(calls, k, how)
    BY DEF BrokeOff
  <2>4. how \in {"done", "stray", "left", "endless", "refused", "failed"}
    BY <1>1, EndsHow
  <2>5. QED
    BY <1>2, <2>1, <2>2, <2>3, <2>4, LeftNone
<1>3. QED
  BY <1>1, <1>2, TreeKnown DEF CallsSafe, Troubled

-----------------------------------------------------------------------------
(* The scripts of the handlers.                                            *)
GoodScript(p, s) ==
  /\ Script(s.walk) /\ WalkSafe(s.walk)
  /\ Script(s.calls) /\ CallsSafe(p, s.calls)

LEMMA EmptyWalkSafe == Script(<<>>) /\ WalkSafe(<<>>)
<1>1. TreeScript(<<>>)
  <2>1. Script(<<>>) /\ Smooth(<<>>, TreeNames) /\ Len(<<>>) = 0
    BY EmptyTidy DEF Tidy, Smooth, Free
  <2>2. QED
    BY <2>1 DEF TreeScript, PreparesIn
<1>2. QED
  BY <1>1, TreeWalkSafe

LEMMA PlainGood ==
  ASSUME NEW p, NEW calls, Script(calls), CallsSafe(p, calls)
  PROVE  GoodScript(p, Plain(calls))
<1>1. Plain(calls).walk = <<>> /\ Plain(calls).calls = calls
  BY DEF Plain
<1>2. QED
  BY <1>1, EmptyWalkSafe DEF GoodScript

LEMMA UsesGood ==
  ASSUME NEW p, NEW n, n \notin LeftNames, NEW texts, NEW s \in Uses(n, texts)
  PROVE  GoodScript(p, s)
<1>1. PICK x \in texts : s = Plain(Use(n, x))
  BY DEF Uses
<1>2. Tidy(Use(n, x), {n}) /\ {n} \cap LeftNames = {}
  BY UseTidy
<1>3. QED
  BY <1>1, <1>2, TidySafe, PlainGood

LEMMA TwoUsesGood ==
  ASSUME NEW p, NEW n, NEW m, n \notin LeftNames, m \notin LeftNames, NEW x, NEW y
  PROVE  GoodScript(p, Plain(Use(n, x) \o Use(m, y)))
<1>1. Tidy(Use(n, x) \o Use(m, y), {n} \cup {m}) /\ ({n} \cup {m}) \cap LeftNames = {}
  BY UseTidy, TidyJoin
<1>2. QED
  BY <1>1, TidySafe, PlainGood

LEMMA EventListGood ==
  ASSUME NEW p, NEW s \in EventList PROVE GoodScript(p, s)
<1> DEFINE Lists(x) == Plain(Use("get_events_list_count", x) \o Use("get_events_list", x))
<1>1. PICK x : s = Lists(x)
  <2>1. \/ \E f \in EventFilters : s = Lists(<<f, "any">>)
        \/ \E f \in EventFilters, y \in Asked : s = Lists(<<f, y>>)
    BY DEF EventList
  <2> HIDE DEF Lists
  <2>2. QED
    BY <2>1
<1>2. "get_events_list_count" \notin LeftNames /\ "get_events_list" \notin LeftNames
  BY DEF LeftNames, TreeNames
<1>3. QED
  BY <1>1, <1>2, TwoUsesGood

LEMMA EventsCountGood ==
  ASSUME NEW p, NEW s \in EventsCount PROVE GoodScript(p, s)
<1>1. PICK x : s = Plain(Use("get_events_count", x) \o Use("get_open_events_count", x)
                         \o Use("get_close_events_count", x))
  BY DEF EventsCount
<1> DEFINE N == {"get_events_count"} \cup {"get_open_events_count"}
                \cup {"get_close_events_count"}
<1>2. Tidy(Use("get_events_count", x) \o Use("get_open_events_count", x)
           \o Use("get_close_events_count", x), N)
  BY UseTidy, TidyJoin
<1>3. N \cap LeftNames = {}
  BY DEF LeftNames, TreeNames
<1>4. QED
  BY <1>1, <1>2, <1>3, TidySafe, PlainGood

LEMMA EachInTurnGood ==
  ASSUME NEW p, NEW n, n \notin LeftNames, NEW x
  PROVE  GoodScript(p, EachInTurn(n, x))
BY TwoUsesGood DEF EachInTurn

(* A walk of one stop: without a number of days, or in a snapshot only.    *)
LEMMA OneStop ==
  ASSUME NEW c \in {Leave, Circle, Snapshot}
  PROVE  TreeScript(<<c>>) /\ \A names : Smooth(<<c>>, names)
<1>1. Len(<<c>>) = 1 /\ <<c>>[1] = c /\ <<c>> \in Seq({c})
  OBVIOUS
<1>2. \A i \in 1..1 : i = 1
  OBVIOUS
<1>3. c.op \in Stops
  BY DEF Leave, Circle, Snapshot, Stops
<1>4. ASSUME NEW x PROVE Goes(x, <<c>>, x)
  <2>1. Does(x, c) = x /\ ~ Refused(x, c)
    BY DEF Does, Touches, Refused, Leave, Circle, Snapshot
  <2>2. Left(x, <<c>>, 0) = x /\ Left(x, <<c>>, 1) = x
    BY <1>1, <2>1, LeftSteps
  <2>3. \A i \in 0..(1 - 1) : i = 0
    OBVIOUS
  <2>4. 0 + 1 = 1
    OBVIOUS
  <2>5. QED
    BY <1>1, <2>1, <2>2, <2>3, <2>4 DEF Goes, Reaches
<1>5. QED
  BY <1>1, <1>2, <1>3, <1>4 DEF TreeScript, Script, Smooth, PreparesIn, Stops

LEMMA ManualPurgeGood ==
  ASSUME NEW p, NEW s \in ManualPurge PROVE GoodScript(p, s)
<1>1. CASE \E x \in Asked : s = EachInTurn("manual_purge_x_days", x)
  <2>1. "manual_purge_x_days" \notin LeftNames
    BY DEF LeftNames, TreeNames
  <2>2. QED
    BY <1>1, <2>1, EachInTurnGood
<1>2. CASE s = After(<<Leave>>, <<>>)
  <2>1. s.walk = <<Leave>> /\ s.calls = <<>>
    BY <1>2 DEF After
  <2>2. Script(<<>>) /\ CallsSafe(p, <<>>)
    BY EmptyTidy, TidySafe
  <2>3. Script(<<Leave>>) /\ WalkSafe(<<Leave>>)
    BY OneStop, TreeWalkSafe
  <2>4. QED
    BY <2>1, <2>2, <2>3 DEF GoodScript
<1>3. QED
  BY <1>1, <1>2 DEF ManualPurge

LEMMA NodesListGood ==
  ASSUME NEW s \in NodesList PROVE GoodScript("nodes_list", s)
<1> DEFINE n == "get_nodes_list_count"
           m == "get_nodes_list"
<1>1. /\ n \in LeftNames \ TreeNames /\ m \in LeftNames \ TreeNames
      /\ n # "nodes_active_count" /\ m # "nodes_active_count"
      /\ "nodes_list" \in Troubled
  BY DEF LeftNames, TreeNames, Troubled
<1>2. ASSUME NEW x PROVE GoodScript("nodes_list", Plain(Use(n, x) \o Use(m, x)))
  <2> DEFINE a == Use(n, x)
             b == Use(m, x)
  <2>1. Script(a) /\ Script(b) /\ PreparesIn(a, {n, m}) /\ PreparesIn(b, {n, m})
    BY UseShape DEF PreparesIn
  <2> HIDE DEF a, b
  <2>2. Script(a \o b) /\ PreparesIn(a \o b, {n, m})
    BY <2>1, JoinShape, PreparesJoin
  <2>3. CallsSafe("nodes_list", a \o b)
    BY <1>1, <2>2, KnownSafe DEF PreparesIn
  <2>4. QED
    BY <2>2, <2>3, PlainGood DEF a, b
<1>3. GoodScript("nodes_list", Plain(<<Exec(n)>>))
  <2> DEFINE c == <<Exec(n)>>
  <2>1. Len(c) = 1 /\ c[1] = Exec(n) /\ c \in Seq({Exec(n)})
    OBVIOUS
  <2>2. \A i \in 1..1 : i = 1
    OBVIOUS
  <2>3. Exec(n).op = "exec"
    BY DEF Exec
  <2> HIDE DEF c
  <2>4. Script(c) /\ \A i \in 1..Len(c) : c[i].op # "prepare"
    BY <2>1, <2>2, <2>3 DEF Script
  <2>5. CallsSafe("nodes_list", c)
    BY <1>1, <2>4, KnownSafe
  <2>6. QED
    BY <2>4, <2>5, PlainGood DEF c
<1>4. \/ \E x : s = Plain(Use(n, x) \o Use(m, x))
      \/ s = Plain(<<Exec(n)>>)
  <2> DEFINE Lists(x) == Plain(Use(n, x) \o Use(m, x))
             One(x) == Plain(<<Exec(n)>>)
  <2>1. NodesList = {Lists(<<f, "any">>) : f \in NodeFilters} \cup
                    {Lists(<<f, y>>) : f \in NodeFilters \ {{"to"}}, y \in Asked} \cup
                    {One(y) : y \in Asked}
    BY DEF NodesList
  <2> HIDE DEF Lists, One
  <2>2. CASE s \in {Lists(<<f, "any">>) : f \in NodeFilters}
    BY <2>2, Zenon DEF Lists
  <2>3. CASE s \in {Lists(<<f, y>>) : f \in NodeFilters \ {{"to"}}, y \in Asked}
    <3>1. PICK f \in NodeFilters \ {{"to"}}, y \in Asked : s = Lists(<<f, y>>)
      BY <2>3
    <3>2. QED
      BY <3>1, Zenon DEF Lists
  <2>4. CASE s \in {One(y) : y \in Asked}
    BY <2>4, Zenon DEF One
  <2>5. QED
    BY <2>1, <2>2, <2>3, <2>4
<1>5. QED
  BY <1>2, <1>3, <1>4

LEMMA NodesQueryGood ==
  ASSUME NEW s \in NodesQuery PROVE GoodScript("nodes_query", s)
<1> DEFINE n == "get_nodes_query"
           m == "nodes_active_count"
           c(f) == <<Prepare(n, f), Exec(n), Prepare(m, "severity"), Exec(m), Leave,
                     Unprepare(m), Unprepare(n)>>
<1>1. n \in LeftNames \ TreeNames /\ m \in LeftNames \ TreeNames /\ n # m
  BY DEF LeftNames, TreeNames
<1>2. "nodes_query" \in Troubled
  BY DEF Troubled
<1>3. ASSUME NEW f PROVE GoodScript("nodes_query", Plain(c(f)))
  <2>1. /\ Len(c(f)) = 7
        /\ c(f)[1] = Prepare(n, f) /\ c(f)[2] = Exec(n) /\ c(f)[3] = Prepare(m, "severity")
        /\ c(f)[4] = Exec(m) /\ c(f)[5] = Leave /\ c(f)[6] = Unprepare(m)
        /\ c(f)[7] = Unprepare(n)
    OBVIOUS
  <2>2. c(f) \in Seq({Prepare(n, f), Exec(n), Prepare(m, "severity"), Exec(m), Leave,
                      Unprepare(m), Unprepare(n)})
    OBVIOUS
  <2>3. \A i \in 1..7 : i = 1 \/ i = 2 \/ i = 3 \/ i = 4 \/ i = 5 \/ i = 6 \/ i = 7
    OBVIOUS
  <2> HIDE DEF c
  <2>4. ASSUME NEW i \in 1..Len(c(f))
        PROVE  /\ c(f)[i].op = "unprepare" => c(f)[i] = Unprepare(c(f)[i].name)
               /\ c(f)[i].op = "prepare" => \/ c(f)[i].name = n
                                            \/ c(f)[i].name = m /\ c(f)[i].text = "severity"
    BY <2>1, <2>3 DEF Prepare, Exec, Unprepare, Leave
  <2>5. Script(c(f))
    BY <2>2, <2>4 DEF Script
  <2>6. CallsSafe("nodes_query", c(f))
    BY <1>1, <1>2, <2>4, <2>5, KnownSafe
  <2>7. QED
    BY <2>5, <2>6, PlainGood
<1>4. GoodScript("nodes_query", Plain(<<>>))
  BY EmptyTidy, TidySafe, PlainGood
<1>5. (\E f \in NodeFilters : s = Plain(c(f))) \/ s = Plain(<<>>)
  BY DEF NodesQuery
<1>6. QED
  BY <1>3, <1>4, <1>5

LEMMA HistoricalDataGood ==
  ASSUME NEW s \in HistoricalData PROVE GoodScript("historical_data", s)
<1> DEFINE n == "historical_data_query"
           c(x) == <<Prepare(n, x), Exec(n), Leave, Unprepare(n)>>
<1>1. n \in LeftNames \ TreeNames /\ n # "nodes_active_count"
  BY DEF LeftNames, TreeNames
<1>2. "historical_data" \in Troubled
  BY DEF Troubled
<1>3. ASSUME NEW x PROVE GoodScript("historical_data", Plain(c(x)))
  <2>1. /\ Len(c(x)) = 4 /\ c(x)[1] = Prepare(n, x) /\ c(x)[2] = Exec(n)
        /\ c(x)[3] = Leave /\ c(x)[4] = Unprepare(n)
    OBVIOUS
  <2>2. c(x) \in Seq({Prepare(n, x), Exec(n), Leave, Unprepare(n)})
    OBVIOUS
  <2>3. \A i \in 1..4 : i = 1 \/ i = 2 \/ i = 3 \/ i = 4
    OBVIOUS
  <2> HIDE DEF c
  <2>4. ASSUME NEW i \in 1..Len(c(x))
        PROVE  /\ c(x)[i].op = "unprepare" => c(x)[i] = Unprepare(c(x)[i].name)
               /\ c(x)[i].op = "prepare" => c(x)[i].name = n
    BY <2>1, <2>3 DEF Prepare, Exec, Unprepare, Leave
  <2>5. Script(c(x))
    BY <2>2, <2>4 DEF Script
  <2>6. CallsSafe("historical_data", c(x))
    BY <1>1, <1>2, <2>4, <2>5, KnownSafe
  <2>7. QED
    BY <2>5, <2>6, PlainGood
<1>4. \E x \in Asked : s = Plain(c(x))
  BY DEF HistoricalData
<1>5. QED
  BY <1>3, <1>4

(* Where a statement with the other text is left, the use ends at once.    *)
LEMMA UseSafe ==
  ASSUME NEW p, NEW n, n \notin TreeNames, NEW x,
         p \in Troubled \/ \A s : MayBeLeft(s) /\ s[1] = n => s[2] = x
  PROVE  GoodScript(p, Plain(Use(n, x)))
<1> DEFINE c == Use(n, x)
<1>1. /\ Script(c) /\ Len(c) = 3 /\ Straight(c) /\ c[1] = Prepare(n, x)
  BY UseShape
<1> HIDE DEF c
<1>2. ASSUME NEW stmts, NEW k \in 0..Len(c), NEW how \in Ends(stmts, c, k),
             OnlyKnown(stmts), Reaches(stmts, c, k), how # "failed"
      PROVE  /\ \A s \in Left(stmts, c, k) : s \in stmts
             /\ how = "refused" => p \in Troubled
  <2>1. CASE \A s \in stmts : s[1] = n => s[2] = x
    <3>1. Goes(stmts, c, Without(stmts, n))
      BY <2>1, UseGoes DEF c
    <3>2. how \notin {"left", "endless"}
      <4>1. how \in {"left", "endless"} =>
              k + 1 \in 1..Len(c) /\ c[k + 1].op \in {"leave", "circle", "snapshot"}
        <5>1. how \in {"left", "endless"} => how \notin {"done", "stray"}
          OBVIOUS
        <5>2. /\ how \notin {"done", "stray"} => k + 1 \in 1..Len(c)
              /\ how = "left" => c[k + 1].op \in {"leave", "circle"}
              /\ how = "endless" => c[k + 1].op \in {"circle", "snapshot"}
          BY <1>1, EndsHow, Zenon
        <5>3. QED
          BY <5>1, <5>2
      <4>2. QED
        BY <1>1, <4>1 DEF Straight, Stops
    <3>3. how \in {"done", "stray"} /\ Left(stmts, c, k) = Without(stmts, n)
      <4>1. /\ how # "refused"
            /\ how \in {"done", "stray"} => Left(stmts, c, k) = Without(stmts, n)
        BY <1>1, <3>1, GoesEnds
      <4>2. how \in {"done", "stray", "left", "endless", "refused", "failed"}
        BY <1>1, EndsHow
      <4>3. QED
        BY <1>2, <3>2, <4>1, <4>2
    <3>4. QED
      BY <3>3 DEF Without
  <2>2. CASE ~ \A s \in stmts : s[1] = n => s[2] = x
    <3>1. Refused(stmts, Prepare(n, x))
      BY <2>2, RefusedWhat
    <3>2. k = 0
      <4>1. SUFFICES ASSUME k # 0 PROVE FALSE
        OBVIOUS
      <4>2. 0 \in 0..(k - 1) /\ 0 + 1 = 1
        BY <1>1, <4>1
      <4>3. ~ Refused(Left(stmts, c, 0), c[0 + 1])
        BY <1>2, <4>2 DEF Reaches
      <4>4. QED
        BY <1>1, <3>1, <4>2, <4>3, LeftNone
    <3>3. Left(stmts, c, k) = stmts
      BY <3>2, LeftNone
    <3>4. p \in Troubled
      BY <1>2, <2>2 DEF OnlyKnown
    <3>5. QED
      BY <3>3, <3>4
  <2>3. QED
    BY <2>1, <2>2
<1>3. CallsSafe(p, c)
  BY <1>2 DEF CallsSafe, OnlyKnown, Free
<1>4. QED
  BY <1>1, <1>3, PlainGood DEF c

LEMMA StatNodesCountGood ==
  ASSUME NEW s \in StatNodesCount PROVE GoodScript("stat_nodes_count", s)
<1>1. s = Plain(Use("nodes_active_count", "nodes"))
  BY DEF StatNodesCount, Uses
<1>2. "nodes_active_count" \notin TreeNames /\ "stat_nodes_count" \in Troubled
  BY DEF TreeNames, Troubled
<1>3. QED
  BY <1>1, <1>2, UseSafe

LEMMA NodeRuleCountGood ==
  ASSUME NEW p, NEW s \in NodeRuleCount PROVE GoodScript(p, s)
<1> DEFINE n == "nodes_active_count"
           c == <<Unprepare(n)>>
<1>1. n \notin TreeNames
  BY DEF TreeNames
<1>2. CASE s = Plain(Use(n, "severity"))
  <2>1. \A t : MayBeLeft(t) /\ t[1] = n => t[2] = "severity"
    BY DEF MayBeLeft
  <2>2. QED
    BY <1>1, <1>2, <2>1, UseSafe
<1>3. CASE s = Plain(c)
  <2>1. Len(c) = 1 /\ c[1] = Unprepare(n) /\ c \in Seq({Unprepare(n)})
    OBVIOUS
  <2>2. \A i \in 1..1 : i = 1
    OBVIOUS
  <2>3. Unprepare(n).op = "unprepare" /\ Unprepare(n).name = n
    BY DEF Unprepare
  <2> HIDE DEF c
  <2>4. Script(c) /\ \A i \in 1..Len(c) : c[i].op = "unprepare"
    BY <2>1, <2>2, <2>3 DEF Script
  <2>5. ASSUME NEW stmts, NEW k \in 0..Len(c), NEW how \in Ends(stmts, c, k)
        PROVE  /\ \A t \in Left(stmts, c, k) : t \in stmts
               /\ how # "refused"
    <3>1. \A i \in 1..k : i \in 1..Len(c)
      BY <2>1
    <3>2. \A t \in Left(stmts, c, k) : t \in stmts
      BY <2>4, <3>1, LeftWithin
    <3>3. ASSUME how = "refused" PROVE FALSE
      <4>1. k + 1 \in 1..Len(c) /\ Refused(Left(stmts, c, k), c[k + 1])
        BY <2>4, <3>3, EndsHow
      <4>2. c[k + 1] = Unprepare(n)
        BY <2>1, <2>2, <4>1
      <4>3. QED
        BY <4>1, <4>2 DEF Refused, Unprepare
    <3>4. QED
      BY <3>2, <3>3
  <2>6. CallsSafe(p, c)
    BY <2>5 DEF CallsSafe, OnlyKnown, Free
  <2>7. QED
    BY <1>3, <2>4, <2>6, PlainGood
<1>4. QED
  BY <1>2, <1>3 DEF NodeRuleCount, Uses

-----------------------------------------------------------------------------
(* event_process_tree.                                                     *)
(* The walk to the ancestors finds and leaves its own names free.          *)
LEMMA BacktrackSmooth ==
  ASSUME NEW os \in {"bpf", "win"}, NEW up \in Backtrack(os)
  PROVE  /\ Script(up) /\ Smooth(up, {Execve(os), "update_container_process"})
         /\ PreparesIn(up, TreeNames)
<1> DEFINE n == Execve(os)
           m == "update_container_process"
           head == <<Prepare(n, "parents"), Exec(n), Leave>>
           tail == <<Exec(n), Circle, Snapshot, Unprepare(n)>>
<1>1. n # m /\ n \in TreeNames /\ m \in TreeNames
  BY DEF Execve, TreeNames
<1>2. PICK mid : /\ up = head \o mid \o tail
                 /\ mid = <<>> \/ mid = Use(m, os)
  BY DEF Backtrack
<1> HIDE DEF n, m
<1>3. Script(mid) /\ Smooth(mid, {m}) /\ PreparesIn(mid, TreeNames)
  <2>1. CASE mid = <<>>
    <3>1. Len(<<>>) = 0
      OBVIOUS
    <3>2. QED
      BY <2>1, <3>1, EmptyTidy DEF Tidy, Smooth, Free, PreparesIn
  <2>2. CASE mid = Use(m, os)
    BY <1>1, <2>2, UseShape, UseTidy DEF Tidy, PreparesIn
  <2>3. QED
    BY <1>2, <2>1, <2>2
<1>4. /\ Len(head) = 3 /\ head[1] = Prepare(n, "parents") /\ head[2] = Exec(n)
      /\ head[3] = Leave
      /\ head \in Seq({Prepare(n, "parents"), Exec(n), Leave})
  OBVIOUS
<1>5. /\ Len(tail) = 4 /\ tail[1] = Exec(n) /\ tail[2] = Circle /\ tail[3] = Snapshot
      /\ tail[4] = Unprepare(n)
      /\ tail \in Seq({Exec(n), Circle, Snapshot, Unprepare(n)})
  OBVIOUS
<1> HIDE DEF head, tail
<1>6. ASSUME NEW i \in 1..Len(head)
      PROVE  /\ head[i].op = "unprepare" => head[i] = Unprepare(head[i].name)
             /\ head[i].op = "prepare" => head[i].name = n
  <2>1. i = 1 \/ i = 2 \/ i = 3
    BY <1>4
  <2>2. QED
    BY <1>4, <2>1 DEF Prepare, Exec, Unprepare, Leave
<1>7. ASSUME NEW i \in 1..Len(tail)
      PROVE  /\ tail[i].op = "unprepare" => tail[i] = Unprepare(tail[i].name)
             /\ tail[i].op # "prepare"
  <2>1. i = 1 \/ i = 2 \/ i = 3 \/ i = 4
    BY <1>5
  <2>2. QED
    BY <1>5, <2>1 DEF Exec, Circle, Snapshot, Unprepare
<1>8. /\ Script(head) /\ PreparesIn(head, TreeNames)
       /\ Script(tail) /\ PreparesIn(tail, TreeNames)
  BY <1>1, <1>4, <1>5, <1>6, <1>7 DEF Script, PreparesIn
<1>9. ASSUME NEW x, Free(x, {n, m}) PROVE Goes(x, up, x)
  <2> DEFINE y == With(x, n, "parents")
  <2>1. Free(x, {n}) /\ Free(x, {m})
    BY <1>9 DEF Free
  <2>2. /\ Does(x, head[1]) = y /\ Does(y, head[2]) = y /\ Does(y, head[3]) = y
        /\ Does(y, tail[1]) = y /\ Does(y, tail[2]) = y /\ Does(y, tail[3]) = y
        /\ Does(y, tail[4]) = x
    BY <1>4, <1>5, <2>1, DoesWhat, WithWhat
  <2>3. Free(y, {m})
    BY <1>1, <2>1, WithWhat DEF Free
  <2>4. ~ Refused(x, head[1]) /\ ~ Refused(y, head[2]) /\ ~ Refused(y, head[3])
        /\ ~ Refused(y, tail[1]) /\ ~ Refused(y, tail[2]) /\ ~ Refused(y, tail[3])
        /\ ~ Refused(y, tail[4])
    <3>1. ~ Refused(x, Prepare(n, "parents"))
      BY <2>1 DEF Refused, Free, Prepare
    <3>2. ~ Refused(y, Exec(n))
      <4>1. \E z \in y : z[1] = n
        BY WithName
      <4>2. QED
        BY <4>1 DEF Refused, Exec
    <3>3. /\ ~ Refused(y, Leave) /\ ~ Refused(y, Circle) /\ ~ Refused(y, Snapshot)
          /\ ~ Refused(y, Unprepare(n))
      BY DEF Refused, Leave, Circle, Snapshot, Unprepare
    <3>4. QED
      BY <1>4, <1>5, <3>1, <3>2, <3>3
  <2> HIDE DEF y
  <2>5. Goes(x, head, y)
    <3>1. /\ Left(x, head, 0) = x /\ Left(x, head, 1) = y /\ Left(x, head, 2) = y
          /\ Left(x, head, 3) = y
      BY <2>2, LeftSteps
    <3>2. /\ \A i \in 0..(3 - 1) : i = 0 \/ i = 1 \/ i = 2
          /\ 0 + 1 = 1 /\ 1 + 1 = 2 /\ 2 + 1 = 3
      OBVIOUS
    <3>3. QED
      BY <1>4, <2>4, <3>1, <3>2 DEF Goes, Reaches
  <2>6. Goes(y, mid, y)
    BY <1>3, <2>3 DEF Smooth
  <2>7. Goes(y, tail, x)
    <3>1. /\ Left(y, tail, 0) = y /\ Left(y, tail, 1) = y /\ Left(y, tail, 2) = y
          /\ Left(y, tail, 3) = y /\ Left(y, tail, 4) = x
      BY <2>2, <2>3, LeftSteps
    <3>2. /\ \A i \in 0..(4 - 1) : i = 0 \/ i = 1 \/ i = 2 \/ i = 3
          /\ 0 + 1 = 1 /\ 1 + 1 = 2 /\ 2 + 1 = 3 /\ 3 + 1 = 4
      OBVIOUS
    <3>3. QED
      BY <1>5, <2>4, <3>1, <3>2 DEF Goes, Reaches
  <2>8. Script(head \o mid) /\ Goes(x, head \o mid, y)
    BY <1>3, <1>8, <2>5, <2>6, GoesJoin
  <2>9. QED
    BY <1>2, <1>8, <2>7, <2>8, GoesJoin
<1>10. Script(head \o mid) /\ PreparesIn(head \o mid, TreeNames)
  BY <1>3, <1>8, JoinShape, PreparesJoin
<1>11. Script(up) /\ PreparesIn(up, TreeNames)
  BY <1>2, <1>8, <1>10, JoinShape, PreparesJoin
<1>12. QED
  BY <1>9, <1>11 DEF Smooth, n, m

(* ... and so does a walk that begins at a socket or file event.           *)
LEMMA FromEventSmooth ==
  ASSUME NEW os \in {"bpf", "win"}, NEW n, NEW text,
         n \in {"get_socket_data_from_id", "get_file_data_from_id"},
         NEW walk \in FromEvent(os, n, text)
  PROVE  TreeScript(walk)
<1> DEFINE m == "get_process_data"
           head == <<Prepare(n, text), Prepare(m, os), Exec(n), Leave, Exec(m)>>
           tail == <<Unprepare(n), Unprepare(m)>>
           names == {Execve(os), "update_container_process"}
<1>1. /\ n # m /\ n \in TreeNames /\ m \in TreeNames
      /\ n \notin names /\ m \notin names /\ names \subseteq TreeNames
  BY DEF Execve, TreeNames
<1>2. PICK up : walk = head \o up \o tail /\ (up = <<Snapshot>> \/ up \in Backtrack(os))
  BY DEF FromEvent
<1>3. Script(up) /\ Smooth(up, names) /\ PreparesIn(up, TreeNames)
  <2>1. CASE up = <<Snapshot>>
    BY <2>1, OneStop DEF TreeScript
  <2>2. QED
    BY <1>2, <2>1, BacktrackSmooth
<1> HIDE DEF m, names
<1>4. /\ Len(head) = 5 /\ head[1] = Prepare(n, text) /\ head[2] = Prepare(m, os)
      /\ head[3] = Exec(n) /\ head[4] = Leave /\ head[5] = Exec(m)
      /\ head \in Seq({Prepare(n, text), Prepare(m, os), Exec(n), Leave, Exec(m)})
  OBVIOUS
<1>5. /\ Len(tail) = 2 /\ tail[1] = Unprepare(n) /\ tail[2] = Unprepare(m)
      /\ tail \in Seq({Unprepare(n), Unprepare(m)})
  OBVIOUS
<1> HIDE DEF head, tail
<1>6. ASSUME NEW i \in 1..Len(head)
      PROVE  /\ head[i].op = "unprepare" => head[i] = Unprepare(head[i].name)
             /\ head[i].op = "prepare" => head[i].name \in {n, m}
  <2>1. i = 1 \/ i = 2 \/ i = 3 \/ i = 4 \/ i = 5
    BY <1>4
  <2>2. QED
    BY <1>4, <2>1 DEF Prepare, Exec, Unprepare, Leave
<1>7. ASSUME NEW i \in 1..Len(tail)
      PROVE  /\ tail[i].op = "unprepare" => tail[i] = Unprepare(tail[i].name)
             /\ tail[i].op # "prepare"
  <2>1. i = 1 \/ i = 2
    BY <1>5
  <2>2. QED
    BY <1>5, <2>1 DEF Unprepare
<1>8. /\ Script(head) /\ PreparesIn(head, TreeNames)
       /\ Script(tail) /\ PreparesIn(tail, TreeNames)
  BY <1>1, <1>4, <1>5, <1>6, <1>7 DEF Script, PreparesIn
<1>9. ASSUME NEW x, Free(x, TreeNames) PROVE Goes(x, walk, x)
  <2> DEFINE a == With(x, n, text)
             y == With(a, m, os)
             b == Without(y, n)
  <2>1. Free(x, {n}) /\ Free(x, {m})
    BY <1>1, <1>9 DEF Free
  <2>2. /\ Does(x, head[1]) = a /\ Does(a, head[2]) = y /\ Does(y, head[3]) = y
        /\ Does(y, head[4]) = y /\ Does(y, head[5]) = y
        /\ Does(y, tail[1]) = b /\ Does(b, tail[2]) = Without(b, m)
    <3>1. Does(x, Prepare(n, text)) = a /\ Does(a, Prepare(m, os)) = y
      BY DoesWhat
    <3>2. Does(y, Unprepare(n)) = b /\ Does(b, Unprepare(m)) = Without(b, m)
      BY DoesWhat
    <3> HIDE DEF a, y, b
    <3>3. Does(y, Exec(n)) = y /\ Does(y, Leave) = y /\ Does(y, Exec(m)) = y
      BY DoesWhat
    <3>4. QED
      BY <1>4, <1>5, <3>1, <3>2, <3>3
  <2>3. /\ \A s \in a : s[1] # m
        /\ \A s \in y : s \in x \/ s[1] = n \/ s[1] = m
        /\ \E s \in y : s[1] = n
        /\ \E s \in y : s[1] = m
    BY <1>1, <2>1, WithWhat DEF Free
  <2>4. Without(b, m) = x
    <3>1. \A s \in x : s[1] # n /\ s[1] # m
      BY <2>1 DEF Free
    <3>2. \A s : s \in Without(b, m) <=> s \in y /\ s[1] # n /\ s[1] # m
      BY DEF Without
    <3>3. \A s \in x : s \in y
      BY <3>1, WithWhat
    <3> HIDE DEF a, y, b
    <3>4. \A s : s \in Without(b, m) <=> s \in x
      BY <2>3, <3>1, <3>2, <3>3
    <3>5. QED
      BY <3>4
  <2> HIDE DEF a, y, b
  <2>5. ~ Refused(x, head[1]) /\ ~ Refused(a, head[2]) /\ ~ Refused(y, head[3])
         /\ ~ Refused(y, head[4]) /\ ~ Refused(y, head[5])
         /\ ~ Refused(y, tail[1]) /\ ~ Refused(b, tail[2])
    BY <1>4, <1>5, <2>1, <2>3 DEF Refused, Free, Prepare, Exec, Unprepare, Leave
  <2>6. Goes(x, head, y)
    <3>1. /\ Left(x, head, 0) = x /\ Left(x, head, 1) = a /\ Left(x, head, 2) = y
          /\ Left(x, head, 3) = y /\ Left(x, head, 4) = y /\ Left(x, head, 5) = y
      BY <2>2, LeftSteps
    <3>2. /\ \A i \in 0..(5 - 1) : i = 0 \/ i = 1 \/ i = 2 \/ i = 3 \/ i = 4
          /\ 0 + 1 = 1 /\ 1 + 1 = 2 /\ 2 + 1 = 3 /\ 3 + 1 = 4 /\ 4 + 1 = 5
      OBVIOUS
    <3>3. QED
      BY <1>4, <2>5, <3>1, <3>2 DEF Goes, Reaches
  <2>7. Goes(y, up, y)
    <3>1. Free(y, names)
      BY <1>1, <1>9, <2>3 DEF Free
    <3>2. QED
      BY <1>3, <3>1 DEF Smooth
  <2>8. Goes(y, tail, x)
    <3>1. Left(y, tail, 0) = y /\ Left(y, tail, 1) = b /\ Left(y, tail, 2) = x
      BY <2>2, <2>4, LeftSteps
    <3>2. /\ \A i \in 0..(2 - 1) : i = 0 \/ i = 1
          /\ 0 + 1 = 1 /\ 1 + 1 = 2
      OBVIOUS
    <3>3. QED
      BY <1>5, <2>5, <3>1, <3>2 DEF Goes, Reaches
  <2>9. Script(head \o up) /\ Goes(x, head \o up, y)
    BY <1>3, <1>8, <2>6, <2>7, GoesJoin
  <2>10. QED
    BY <1>2, <1>8, <2>8, <2>9, GoesJoin
<1>10. Script(head \o up) /\ PreparesIn(head \o up, TreeNames)
  BY <1>3, <1>8, JoinShape, PreparesJoin
<1>11. Script(walk) /\ PreparesIn(walk, TreeNames)
  BY <1>2, <1>8, <1>10, JoinShape, PreparesJoin
<1>12. QED
  BY <1>9, <1>11 DEF TreeScript, Smooth

(* The way down to the children.                                           *)
LEMMA DescendGood ==
  ASSUME NEW os \in {"bpf", "win"}, NEW down \in Descend(os)
  PROVE  /\ TreeScript(down)
         /\ \A i \in 1..Len(down) :
              down[i].op \in {"leave", "circle"} => i = 1 \/ down[i] = Circle
<1> DEFINE n == Execve(os)
           x == "children"
           b == <<Leave, Prepare(n, x), Exec(n), Circle, Unprepare(n)>>
           c == <<Leave, Unprepare(n)>>
<1>1. n \in TreeNames
  BY DEF Execve, TreeNames
<1> HIDE DEF n
<1>2. CASE down = b
  <2>1. /\ Len(b) = 5 /\ b[1] = Leave /\ b[2] = Prepare(n, x) /\ b[3] = Exec(n)
        /\ b[4] = Circle /\ b[5] = Unprepare(n)
        /\ b \in Seq({Leave, Prepare(n, x), Exec(n), Circle, Unprepare(n)})
    OBVIOUS
  <2> HIDE DEF b
  <2>2. ASSUME NEW i \in 1..Len(b)
        PROVE  /\ b[i].op = "unprepare" => b[i] = Unprepare(b[i].name)
               /\ b[i].op \in {"leave", "circle"} => i = 1 \/ b[i] = Circle
               /\ b[i].op = "prepare" => b[i].name = n
    <3>1. i = 1 \/ i = 2 \/ i = 3 \/ i = 4 \/ i = 5
      BY <2>1
    <3>2. QED
      BY <2>1, <3>1 DEF Leave, Prepare, Exec, Circle, Unprepare
  <2>3. Script(b) /\ PreparesIn(b, TreeNames)
    BY <1>1, <2>1, <2>2 DEF Script, PreparesIn
  <2>4. ASSUME NEW y, Free(y, TreeNames) PROVE Goes(y, b, y)
    <3> DEFINE z == With(y, n, x)
    <3>1. Free(y, {n})
      BY <1>1, <2>4 DEF Free
    <3>2. /\ Does(y, b[1]) = y /\ Does(y, b[2]) = z /\ Does(z, b[3]) = z
          /\ Does(z, b[4]) = z /\ Does(z, b[5]) = y
      <4>1. Does(y, Leave) = y /\ Does(y, Prepare(n, x)) = z
        BY DoesWhat
      <4>2. Does(z, Exec(n)) = z /\ Does(z, Circle) = z /\ Does(z, Unprepare(n)) = Without(z, n)
        <5> HIDE DEF z
        <5>1. QED
          BY DoesWhat
      <4>3. Without(z, n) = y
        BY <3>1, WithWhat
      <4>4. QED
        BY <2>1, <4>1, <4>2, <4>3
    <3>3. ~ Refused(y, b[2])
      BY <2>1, <3>1, RefusedWhat DEF Free
    <3>4. ~ Refused(z, b[3])
      <4>1. \E s \in z : s[1] = n
        BY WithName
      <4>2. QED
        BY <2>1, <4>1 DEF Refused, Exec
    <3> HIDE DEF z
    <3>5. ~ Refused(y, b[1]) /\ ~ Refused(z, b[4]) /\ ~ Refused(z, b[5])
      BY <2>1 DEF Refused, Leave, Circle, Unprepare
    <3>6. /\ Left(y, b, 0) = y /\ Left(y, b, 1) = y /\ Left(y, b, 2) = z
          /\ Left(y, b, 3) = z /\ Left(y, b, 4) = z /\ Left(y, b, 5) = y
      BY <3>2, LeftSteps
    <3>7. /\ \A i \in 0..(5 - 1) : i = 0 \/ i = 1 \/ i = 2 \/ i = 3 \/ i = 4
          /\ 0 + 1 = 1 /\ 1 + 1 = 2 /\ 2 + 1 = 3 /\ 3 + 1 = 4 /\ 4 + 1 = 5
      OBVIOUS
    <3>8. QED
      BY <2>1, <3>3, <3>4, <3>5, <3>6, <3>7 DEF Goes, Reaches
  <2>5. QED
    BY <1>2, <2>2, <2>3, <2>4 DEF TreeScript, Smooth
<1>3. CASE down = c
  <2>1. Len(c) = 2 /\ c[1] = Leave /\ c[2] = Unprepare(n) /\ c \in Seq({Leave, Unprepare(n)})
    OBVIOUS
  <2> HIDE DEF c
  <2>2. ASSUME NEW i \in 1..Len(c)
        PROVE  /\ c[i].op = "unprepare" => c[i] = Unprepare(c[i].name)
               /\ c[i].op \in {"leave", "circle"} => i = 1
               /\ c[i].op # "prepare"
    <3>1. i = 1 \/ i = 2
      BY <2>1
    <3>2. QED
      BY <2>1, <3>1 DEF Leave, Unprepare
  <2>3. Script(c) /\ PreparesIn(c, TreeNames)
    BY <2>1, <2>2 DEF Script, PreparesIn
  <2>4. ASSUME NEW y, Free(y, TreeNames) PROVE Goes(y, c, y)
    <3>1. Without(y, n) = y
      BY <1>1, <2>4 DEF Free, Without
    <3>2. Does(y, c[1]) = y /\ Does(y, c[2]) = y
      BY <2>1, <3>1, DoesWhat
    <3>3. ~ Refused(y, c[1]) /\ ~ Refused(y, c[2])
      BY <2>1 DEF Refused, Leave, Unprepare
    <3>4. Left(y, c, 0) = y /\ Left(y, c, 1) = y /\ Left(y, c, 2) = y
      BY <3>2, LeftSteps
    <3>5. (\A i \in 0..(2 - 1) : i = 0 \/ i = 1) /\ 0 + 1 = 1 /\ 1 + 1 = 2
      OBVIOUS
    <3>6. QED
      BY <2>1, <3>3, <3>4, <3>5 DEF Goes, Reaches
  <2>5. QED
    BY <1>3, <2>2, <2>3, <2>4 DEF TreeScript, Smooth
<1>4. QED
  BY <1>2, <1>3 DEF Descend, n

LEMMA EventProcessTreeGood ==
  ASSUME NEW s \in EventProcessTree PROVE GoodScript("event_process_tree", s)
<1>1. PICK os \in {"bpf", "win"} :
        \E up \in Backtrack(os) \cup SocketTree(os) \cup FileTree(os), down \in Descend(os) :
          s = After(up, down)
  BY DEF EventProcessTree
<1>2. PICK up \in Backtrack(os) \cup SocketTree(os) \cup FileTree(os), down \in Descend(os) :
        s = After(up, down)
  BY <1>1
<1>3. s.walk = up /\ s.calls = down
  BY <1>2 DEF After
<1>4. TreeScript(up)
  <2>1. CASE up \in Backtrack(os)
    <3>1. Execve(os) \in TreeNames /\ "update_container_process" \in TreeNames
      BY DEF Execve, TreeNames
    <3>2. QED
      BY <2>1, <3>1, BacktrackSmooth DEF TreeScript, Smooth, Free
  <2>2. CASE up \in SocketTree(os)
    BY <2>2, FromEventSmooth DEF SocketTree
  <2>3. CASE up \in FileTree(os)
    BY <2>3, FromEventSmooth DEF FileTree
  <2>4. QED
    BY <2>1, <2>2, <2>3
<1>5. Script(up) /\ WalkSafe(up)
  BY <1>4, TreeWalkSafe
<1>6. Script(down) /\ CallsSafe("event_process_tree", down)
  BY DescendGood, TreeCallsSafe
<1>7. QED
  BY <1>3, <1>5, <1>6 DEF GoodScript

LEMMA HandlersGood ==
  ASSUME NEW p \in Known, NEW s \in Handlers[p]
  PROVE  GoodScript(p, s)
<1>1. p \in {"config_list", "table_list", "tables_list", "rule_list",
             "rule_builder_rule_list", "rule_add", "rule_builder_rule_add", "rule_delete",
             "rule_builder_rule_delete", "event_update", "event_list", "events_count",
             "weekly_alerts_count", "severity_count", "alert_count", "mitre_analysis",
             "high_risk_count", "max_severity_node_count", "manual_purge", "nodes_list",
             "nodes_query", "stat_nodes_count", "node_rule_count", "historical_data",
             "node_log_list", "event_process_tree", "nodes_delete"}
  BY DEF Known, Handlers
<1>2. \A n \in {"get_config_list", "get_table_list", "get_rule_list", "add_rule",
                "delete_rule", "update_event_open", "get_weekly_alerts_count",
                "get_severity_count", "get_alert_count", "get_mitre_analysis",
                "high_risk_count", "get_log_list", "max_severity_node_count"} :
        n \notin LeftNames
  BY DEF LeftNames, TreeNames
<1>3. CASE p \in {"config_list", "table_list", "tables_list", "event_update"}
  <2>1. s \in ConfigList \/ s \in TableList \/ s \in TablesList \/ s \in EventUpdate
    BY <1>3 DEF Handlers
  <2>2. QED
    BY <1>2, <2>1, UsesGood DEF ConfigList, TableList, TablesList, EventUpdate
<1>4. CASE p \in {"rule_list", "rule_builder_rule_list", "rule_add", "rule_builder_rule_add",
                  "rule_delete", "rule_builder_rule_delete"}
  <2>1. \E table : s \in RuleList(table) \/ s \in RuleAdd(table) \/ s \in RuleDelete(table)
    BY <1>4 DEF Handlers
  <2>2. QED
    BY <1>2, <2>1, UsesGood DEF RuleList, RuleAdd, RuleDelete
<1>5. CASE p \in {"weekly_alerts_count", "severity_count", "alert_count", "mitre_analysis",
                  "high_risk_count", "node_log_list"}
  <2>1. \/ s \in WeeklyAlertsCount \/ s \in SeverityCount \/ s \in AlertCount
        \/ s \in MitreAnalysis \/ s \in HighRiskCount \/ s \in NodeLogList
    BY <1>5 DEF Handlers
  <2>2. QED
    BY <1>2, <2>1, UsesGood
       DEF WeeklyAlertsCount, SeverityCount, AlertCount, MitreAnalysis, HighRiskCount,
           NodeLogList
<1>6. CASE p \in {"event_list", "events_count", "manual_purge", "node_rule_count"}
  <2>1. \/ s \in EventList \/ s \in EventsCount \/ s \in ManualPurge \/ s \in NodeRuleCount
    BY <1>6 DEF Handlers
  <2>2. QED
    BY <2>1, EventListGood, EventsCountGood, ManualPurgeGood, NodeRuleCountGood
<1>7. CASE p = "max_severity_node_count"
  <2>1. \E x : s = EachInTurn("max_severity_node_count", x)
    BY <1>7 DEF Handlers, MaxSeverityNodeCount
  <2>2. QED
    BY <1>2, <2>1, EachInTurnGood
<1>8. CASE p = "nodes_list"
  BY <1>8, NodesListGood DEF Handlers
<1>9. CASE p = "nodes_query"
  BY <1>9, NodesQueryGood DEF Handlers
<1>10. CASE p = "stat_nodes_count"
  BY <1>10, StatNodesCountGood DEF Handlers
<1>11. CASE p = "historical_data"
  BY <1>11, HistoricalDataGood DEF Handlers
<1>12. CASE p = "event_process_tree"
  BY <1>12, EventProcessTreeGood DEF Handlers
<1>13. CASE p = "nodes_delete"
  <2>1. s = Plain(<<>>)
    BY <1>13 DEF Handlers, OwnNamesOnly
  <2>2. Script(<<>>) /\ CallsSafe(p, <<>>)
    BY EmptyTidy, TidySafe
  <2>3. QED
    BY <2>1, <2>2, PlainGood
<1>14. QED
  BY <1>1, <1>3, <1>4, <1>5, <1>6, <1>7, <1>8, <1>9, <1>10, <1>11, <1>12, <1>13

-----------------------------------------------------------------------------
(* The invariant.                                                          *)
Pool ==
  /\ free \subseteq 1..PoolSize
  /\ lent \in [Threads -> SUBSET (1..PoolSize)]
  /\ \A t \in Threads : IF pc[t] \in Holding THEN \E c \in 1..PoolSize : lent[t] = {c}
                                             ELSE lent[t] = {}

Sessions ==
  /\ pc \in [Threads -> Places]
  /\ path \in [Threads -> menu.paths \cup {"none"}]
  /\ \A t \in Threads :
       /\ pc[t] # "idle" => path[t] \in menu.paths
       /\ pc[t] \in {"begin", "walk", "cut", "calls"} => path[t] \in Known
       /\ IF pc[t] \in {"walk", "cut", "calls"} THEN script[t] \in Handlers[path[t]]
                                                ELSE script[t] = Plain(<<>>)
  /\ DOMAIN script = Threads

Router ==
  /\ menu \in Menus
  /\ routes \in [menu.paths -> {"own", "default", "none"}]
  /\ \A p \in menu.paths : routes[p] = "own" => p \in Known
  /\ disturbed \subseteq Threads
  /\ causes \subseteq {"race", "walk"}
  /\ ended \in BOOLEAN

Database ==
  /\ DOMAIN leftover = 1..PoolSize
  /\ \A c \in 1..PoolSize : \A s \in leftover[c] : s = <<s[1], s[2]>>
  /\ faults \in 0..menu.errors

(* Without a race a registered path keeps its handler, because nobody      *)
(* inserts it.                                                             *)
Routed ==
  /\ disturbed # {} => "race" \in causes
  /\ "race" \notin causes =>
       /\ \A p \in menu.paths \cap Known : routes[p] = "own"
       /\ \A t \in Threads : pc[t] \in {"insert", "inserting"} => path[t] \notin Known

(* A helper that is cut short, a walk without end, and the end of the      *)
(* process have a cause.                                                   *)
Caused ==
  ended \/ (\E t \in Threads : pc[t] \in {"cut", "round"}) => causes # {} \/ faults > 0

(* What can be left on the connections as long as nothing went wrong.      *)
Leftovers ==
  faults = 0 => \A c \in 1..PoolSize :
                  /\ OnlyKnown(leftover[c])
                  /\ causes = {} => Free(leftover[c], TreeNames)

IInv ==
  /\ Pool /\ Sessions /\ Router /\ Database
  /\ Routed /\ Caused /\ Leftovers
  /\ refused \subseteq menu.paths /\ refused \subseteq Troubled

LEMMA InitInvariant == Init => IInv
<1> SUFFICES ASSUME Init PROVE IInv
  OBVIOUS
<1>1. menu \in Menus /\ menu.pool \in MinOpened..PoolSize /\ menu.errors \in Nat
  BY ApiServerAssumption DEF Init
<1>2. Pool
  <2>1. 1..menu.pool \subseteq 1..PoolSize
    BY <1>1, ApiServerAssumption
  <2>2. QED
    BY <2>1 DEF Pool, Init, LeaseInit, Holding
<1>3. Sessions
  BY DEF Sessions, Init, Places
<1>4. Router
  BY <1>1 DEF Router, Init, FirstRoutes
<1>5. Database
  BY <1>1 DEF Database, Init
<1>6. Routed /\ Caused /\ refused \subseteq menu.paths /\ refused \subseteq Troubled
  BY DEF Routed, Caused, Init, FirstRoutes
<1>7. Leftovers
  BY DEF Leftovers, Init, OnlyKnown, Free
<1>8. QED
  BY <1>2, <1>3, <1>4, <1>5, <1>6, <1>7 DEF IInv

-----------------------------------------------------------------------------
(* What the steps of a session have in common.                             *)
LEMMA TakeOne ==
  ASSUME Pool, Sessions, NEW t \in Threads, NEW c \in 1..PoolSize, Take(t, c),
         pc[t] \notin Holding, NEW l \in Holding, Goto(t, l)
  PROVE  Pool'
<1>1. pc' = [pc EXCEPT ![t] = l] /\ pc \in [Threads -> Places]
  BY DEF Goto, Sessions
<1>2. lent[t] = {} /\ lent' = [lent EXCEPT ![t] = {c}]
  BY DEF Pool, Take
<1>3. QED
  BY <1>1, <1>2 DEF Pool, Take

LEMMA GiveOne ==
  ASSUME Pool, Sessions, NEW t \in Threads, NEW c \in 1..PoolSize, Give(t, c),
         pc[t] \in Holding, NEW l, l \notin Holding, Goto(t, l)
  PROVE  Pool'
<1>1. pc' = [pc EXCEPT ![t] = l] /\ pc \in [Threads -> Places]
  BY DEF Goto, Sessions
<1>2. lent[t] = {c} /\ lent' = [lent EXCEPT ![t] = {}]
  BY DEF Pool, Give
<1>3. QED
  BY <1>1, <1>2 DEF Pool, Give

LEMMA KeepLease ==
  ASSUME Pool, Sessions, NEW t \in Threads, UNCHANGED leaseVars,
         NEW l, Goto(t, l), pc[t] \in Holding <=> l \in Holding
  PROVE  Pool'
BY DEF Pool, Sessions, Goto, leaseVars

LEMMA MoveSession ==
  ASSUME Sessions, NEW t \in Threads, NEW l \in Places, Goto(t, l),
         UNCHANGED <<menu, path, script>>, pc[t] # "idle",
         l \in {"begin", "walk", "cut", "calls"} => path[t] \in Known,
         IF l \in {"walk", "cut", "calls"} THEN script[t] \in Handlers[path[t]]
                                           ELSE script[t] = Plain(<<>>)
  PROVE  Sessions'
<1>1. pc' = [pc EXCEPT ![t] = l]
  BY DEF Goto
<1>2. pc' \in [Threads -> Places]
  BY <1>1 DEF Sessions
<1>3. ASSUME NEW u \in Threads
      PROVE  /\ pc'[u] # "idle" => path[u] \in menu.paths
             /\ pc'[u] \in {"begin", "walk", "cut", "calls"} => path[u] \in Known
             /\ IF pc'[u] \in {"walk", "cut", "calls"} THEN script[u] \in Handlers[path[u]]
                                                       ELSE script[u] = Plain(<<>>)
  <2>1. CASE u = t
    BY <1>1, <2>1 DEF Sessions
  <2>2. CASE u # t
    BY <1>1, <2>2 DEF Sessions
  <2>3. QED
    BY <2>1, <2>2
<1>4. QED
  BY <1>2, <1>3 DEF Sessions

(* A step that neither uses the router nor the database.                   *)
LEMMA QuietStep ==
  ASSUME IInv, Pool', Sessions',
         UNCHANGED <<menu, routes, disturbed, leftover, history>>,
         NEW t \in Threads, NEW l, Goto(t, l), l \notin {"insert", "inserting", "cut", "round"},
         \A u \in Threads \ {t} : path'[u] = path[u]
  PROVE  IInv'
<1>1. Router' /\ Database' /\ refused' \subseteq menu'.paths /\ refused' \subseteq Troubled
  BY DEF IInv, Router, Database, history
<1>2. pc' = [pc EXCEPT ![t] = l] /\ DOMAIN pc = Threads
  BY DEF IInv, Sessions, Goto
<1>3. \A u \in Threads : pc'[u] \in {"insert", "inserting", "cut", "round"} => u # t /\ pc'[u] = pc[u]
  BY <1>2
<1>4. Routed'
  BY <1>3 DEF IInv, Routed, history
<1>5. Caused' /\ Leftovers'
  BY <1>3 DEF IInv, Caused, Leftovers, history
<1>6. QED
  BY <1>1, <1>4, <1>5 DEF IInv

LEMMA QuietSteps ==
  ASSUME IInv, NEW t \in Threads,
         \/ GetForCheck(t) \/ Authenticate(t) \/ Survive(t) \/ Request(t) \/ Answer(t)
         \/ GetForHandler(t)
  PROVE  IInv'
<1> USE DEF IInv
<1>1. CASE GetForCheck(t)
  <2>1. Pool'
    BY <1>1, TakeOne DEF GetForCheck, Holding
  <2>2. Sessions'
    BY <1>1, MoveSession DEF GetForCheck, Places, Sessions
  <2>3. QED
    BY <1>1, <2>1, <2>2, QuietStep DEF GetForCheck
<1>2. CASE Authenticate(t)
  <2>1. PICK c \in 1..PoolSize, l \in {"look", "answer"} : Give(t, c) /\ Goto(t, l)
    BY <1>2 DEF Authenticate
  <2>2. Pool'
    BY <1>2, <2>1, GiveOne DEF Authenticate, Holding
  <2>3. Sessions'
    BY <1>2, <2>1, MoveSession DEF Authenticate, Places, Sessions
  <2>4. QED
    BY <1>2, <2>1, <2>2, <2>3, QuietStep DEF Authenticate
<1>3. CASE Survive(t)
  <2>1. Pool'
    BY <1>3, KeepLease DEF Survive, Holding
  <2>2. Sessions'
    BY <1>3, MoveSession DEF Survive, Places, Called, Sessions
  <2>3. QED
    BY <1>3, <2>1, <2>2, QuietStep DEF Survive
<1>4. CASE Request(t)
  <2>1. PICK p \in menu.paths : path' = [path EXCEPT ![t] = p]
    BY <1>4 DEF Request
  <2>2. Pool'
    BY <1>4, KeepLease DEF Request, Holding
  <2>3. Sessions'
    BY <1>4, <2>1 DEF Request, Sessions, Goto, Places
  <2>4. QED
    BY <1>4, <2>1, <2>2, <2>3, QuietStep DEF Request, Sessions
<1>5. CASE Answer(t)
  <2>1. Pool'
    BY <1>5, KeepLease DEF Answer, Holding
  <2>2. Sessions'
    BY <1>5 DEF Answer, Sessions, Goto, Places
  <2>3. QED
    BY <1>5, <2>1, <2>2, QuietStep DEF Answer, Sessions
<1>6. CASE GetForHandler(t)
  <2>1. PICK c \in 1..PoolSize, s \in Handlers[path[t]] :
          /\ Take(t, c) /\ script' = [script EXCEPT ![t] = s]
          /\ Goto(t, IF s.walk = <<>> THEN "calls" ELSE "walk")
    BY <1>6 DEF GetForHandler
  <2>2. PICK l \in {"calls", "walk"} : Goto(t, l)
    BY <2>1
  <2>3. Pool'
    BY <1>6, <2>1, <2>2, TakeOne DEF GetForHandler, Holding
  <2>4. Sessions'
    <3>1. pc' = [pc EXCEPT ![t] = l] /\ UNCHANGED <<menu, path>> /\ pc[t] = "begin"
      BY <1>6, <2>2 DEF GetForHandler, Goto
    <3>2. QED
      BY <2>1, <3>1 DEF Sessions, Places, Called
  <2>5. QED
    BY <1>6, <2>2, <2>3, <2>4, QuietStep DEF GetForHandler
<1>7. QED
  BY <1>1, <1>2, <1>3, <1>4, <1>5, <1>6

(* A step in the router.                                                   *)
LEMMA RouterStep ==
  ASSUME IInv, Pool', Sessions', Router', Routed',
         UNCHANGED <<menu, leftover, refused, faults, ended>>, causes \subseteq causes',
         NEW t \in Threads, NEW l, Goto(t, l), l \notin {"cut", "round"}
  PROVE  IInv'
<1>1. pc' = [pc EXCEPT ![t] = l] /\ DOMAIN pc = Threads
  BY DEF IInv, Sessions, Goto
<1>2. \A u \in Threads : pc'[u] \in {"cut", "round"} => pc[u] = pc'[u]
  BY <1>1
<1>3. Caused'
  BY <1>2 DEF IInv, Caused
<1>4. Leftovers'
  BY DEF IInv, Leftovers
<1>5. Database' /\ refused' \subseteq menu'.paths /\ refused' \subseteq Troubled
  BY DEF IInv, Database
<1>6. QED
  BY <1>3, <1>4, <1>5 DEF IInv

(* Whoever is disturbed is so by a race.                                   *)
LEMMA DisturbedByRace ==
  ASSUME IInv, NEW who \in SUBSET Threads, Disturb(who)
  PROVE  /\ disturbed' \subseteq Threads /\ causes' \subseteq {"race", "walk"}
         /\ causes \subseteq causes'
         /\ disturbed' # {} => "race" \in causes'
BY DEF IInv, Router, Routed, Disturb

LEMMA RouterSteps ==
  ASSUME IInv, NEW t \in Threads,
         Look(t) \/ Looked(t) \/ Insert(t) \/ Inserted(t) \/ Default(t) \/ GiveBack(t)
  PROVE  IInv'
<1>1. Pool /\ Sessions /\ Router /\ Routed
  BY DEF IInv
<1>2. DOMAIN pc = Threads
  BY <1>1 DEF Sessions
<1>3. CASE Look(t)
  <2>1. PICK who \in SUBSET Threads : Disturb(who)
    BY <1>3 DEF Look
  <2>2. Pool'
    BY <1>1, <1>3, KeepLease DEF Look, Holding
  <2>3. Sessions'
    BY <1>1, <1>3, MoveSession DEF Look, Places, Sessions
  <2>4. Router'
    BY <1>1, <1>3, <2>1, DisturbedByRace DEF Look, Router
  <2>5. Routed'
    BY <1>1, <1>2, <1>3, <2>1, DisturbedByRace DEF Look, Routed, Goto
  <2>6. QED
    BY <1>3, <2>1, <2>2, <2>3, <2>4, <2>5, DisturbedByRace, RouterStep DEF Look
<1>4. CASE Looked(t)
  <2>1. PICK r \in {routes[path[t]]} \cup (IF t \in disturbed THEN {"none"} ELSE {}) :
          \E l \in Leads(r) : Goto(t, l)
    BY <1>4 DEF Looked
  <2>2. PICK l \in Leads(r) : Goto(t, l)
    BY <2>1
  <2>3. /\ pc[t] = "looking" /\ disturbed' = disturbed \ {t}
        /\ UNCHANGED <<leaseVars, menu, routes, path, script, leftover, history>>
    BY <1>4 DEF Looked
  <2>4. path[t] \in menu.paths /\ routes[path[t]] \in {"own", "default", "none"}
    BY <1>1, <2>3 DEF Sessions, Router
  <2>5. r \in {"own", "default", "none"}
    BY <2>4
  <2>6. /\ l \in {"begin", "answer", "call", "insert"}
        /\ l = "begin" => r = "own"
        /\ l = "insert" => r \notin {"own", "default"}
    BY <2>2, <2>5 DEF Leads
  <2>7. l = "begin" => path[t] \in Known
    BY <1>1, <2>2, <2>4, <2>6 DEF Router
  <2>8. "race" \notin causes /\ l = "insert" => path[t] \notin Known
    BY <1>1, <2>2, <2>4, <2>6 DEF Routed
  <2>9. Pool'
    BY <1>1, <2>2, <2>3, <2>6, KeepLease DEF Holding
  <2>10. Sessions'
    BY <1>1, <2>2, <2>3, <2>6, <2>7, MoveSession DEF Places, Called, Sessions
  <2>11. Router'
    BY <1>1, <2>3 DEF Router, history
  <2>12. Routed'
    <3>1. l # "inserting"
      BY <2>6
    <3>2. \A u \in Threads : pc'[u] = IF u = t THEN l ELSE pc[u]
      <4>1. pc' = [pc EXCEPT ![t] = l]
        BY <2>2 DEF Goto
      <4>2. QED
        BY <1>2, <4>1
    <3>3. "race" \notin causes =>
            \A u \in Threads : pc'[u] \in {"insert", "inserting"} => path[u] \notin Known
      BY <1>1, <2>8, <3>1, <3>2 DEF Routed
    <3>4. QED
      BY <1>1, <2>3, <3>3 DEF Routed, history
  <2>13. QED
    BY <2>2, <2>3, <2>6, <2>9, <2>10, <2>11, <2>12, RouterStep DEF history
<1>5. CASE Insert(t)
  <2>1. PICK who \in SUBSET Threads : Disturb(who)
    BY <1>5 DEF Insert, Others
  <2>2. Pool'
    BY <1>1, <1>5, KeepLease DEF Insert, Holding
  <2>3. Sessions'
    BY <1>1, <1>5, MoveSession DEF Insert, Places, Sessions
  <2>4. Router'
    BY <1>1, <1>5, <2>1, DisturbedByRace DEF Insert, Router
  <2>5. Routed'
    BY <1>1, <1>2, <1>5, <2>1, DisturbedByRace DEF Insert, Routed, Goto
  <2>6. QED
    BY <1>5, <2>1, <2>2, <2>3, <2>4, <2>5, DisturbedByRace, RouterStep DEF Insert
<1>6. CASE Inserted(t)
  <2>1. PICK lost \in SUBSET (IF t \in disturbed THEN menu.paths \ {path[t]} ELSE {}) :
          routes' = [p \in menu.paths |-> IF p = path[t] THEN "default"
                                          ELSE IF p \in lost THEN "none" ELSE routes[p]]
    BY <1>6 DEF Inserted
  <2>2. /\ pc[t] = "inserting" /\ disturbed' = disturbed \ {t} /\ Goto(t, "call")
        /\ UNCHANGED <<leaseVars, menu, path, script, leftover, history>>
    BY <1>6 DEF Inserted
  <2>3. Pool'
    BY <1>1, <2>2, KeepLease DEF Holding
  <2>4. Sessions'
    BY <1>1, <2>2, MoveSession DEF Places, Called, Sessions
  <2>5. Router'
    BY <1>1, <2>1, <2>2 DEF Router, history
  <2>6. Routed'
    <3>1. "race" \notin causes => lost = {} /\ path[t] \notin Known
      BY <1>1, <2>1, <2>2 DEF Routed
    <3>2. \A u \in Threads : pc'[u] \in {"insert", "inserting"} => pc'[u] = pc[u]
      BY <1>2, <2>2 DEF Goto
    <3>3. QED
      BY <1>1, <2>1, <2>2, <3>1, <3>2 DEF Routed, history
  <2>7. QED
    BY <2>2, <2>3, <2>4, <2>5, <2>6, RouterStep DEF history
<1>7. CASE Default(t)
  <2>1. Pool'
    BY <1>1, <1>7, KeepLease DEF Default, Holding
  <2>2. Sessions'
    BY <1>1, <1>7, MoveSession DEF Default, Places, Sessions
  <2>3. Router'
    BY <1>1, <1>7 DEF Default, Router, history
  <2>4. Routed'
    BY <1>1, <1>2, <1>7 DEF Default, Routed, Goto, history
  <2>5. QED
    BY <1>7, <2>1, <2>2, <2>3, <2>4, RouterStep DEF Default, history
<1>8. CASE GiveBack(t)
  <2>1. Pool'
    BY <1>1, <1>8, GiveOne DEF GiveBack, Holding
  <2>2. Sessions'
    BY <1>1, <1>8, MoveSession DEF GiveBack, Places, Sessions
  <2>3. Router'
    BY <1>1, <1>8 DEF GiveBack, Router, history
  <2>4. Routed'
    BY <1>1, <1>2, <1>8 DEF GiveBack, Routed, Goto, history
  <2>5. QED
    BY <1>8, <2>1, <2>2, <2>3, <2>4, RouterStep DEF GiveBack, history
<1>9. QED
  BY <1>3, <1>4, <1>5, <1>6, <1>7, <1>8

(* The process starts again.                                               *)
LEMMA CollapseStep ==
  ASSUME IInv, Collapse
  PROVE  IInv'
<1>1. causes # {} \/ faults > 0
  BY DEF IInv, Collapse, Caused, Routed
<1>2. menu \in Menus /\ menu.pool \in MinOpened..PoolSize
  BY ApiServerAssumption DEF IInv, Router
<1>3. Pool'
  <2>1. 1..menu.pool \subseteq 1..PoolSize
    BY <1>2, ApiServerAssumption
  <2>2. QED
    BY <2>1 DEF Pool, Collapse, LeaseRestart, Holding
<1>4. Sessions'
  BY DEF Sessions, Collapse, Places
<1>5. Router' /\ Routed'
  BY DEF IInv, Router, Routed, Collapse, FirstRoutes
<1>6. Caused'
  BY <1>1 DEF Caused, Collapse
<1>7. Database' /\ Leftovers'
  BY DEF IInv, Database, Leftovers, Collapse, OnlyKnown, Free
<1>8. QED
  BY <1>3, <1>4, <1>5, <1>6, <1>7 DEF IInv, Collapse

(* What runs is a script of a handler, and it runs on one connection.      *)
LEMMA RunOnOne ==
  ASSUME IInv, NEW t \in Threads, pc[t] \in {"walk", "calls"}, NEW calls,
         NEW k, NEW how \in Hows(t, calls, k), Run(t, calls, k)
  PROVE  \E c \in 1..PoolSize :
           /\ c \in lent[t]
           /\ Reaches(leftover[c], calls, k) /\ how \in Ends(leftover[c], calls, k)
           /\ leftover'[c] = Left(leftover[c], calls, k)
           /\ \A d \in 1..PoolSize : d # c => leftover'[d] = leftover[d]
           /\ DOMAIN leftover' = 1..PoolSize
<1>1. PICK c \in 1..PoolSize : lent[t] = {c}
  BY DEF IInv, Pool, Holding
<1>2. how \in IF Reaches(leftover[c], calls, k) THEN Ends(leftover[c], calls, k) ELSE {}
  BY <1>1 DEF Hows
<1>3. Reaches(leftover[c], calls, k) /\ how \in Ends(leftover[c], calls, k)
  BY <1>2
<1>4. /\ DOMAIN leftover' = 1..PoolSize
      /\ \A d \in 1..PoolSize : leftover'[d] = IF d \in lent[t] THEN Left(leftover[d], calls, k)
                                                               ELSE leftover[d]
  BY DEF Run
<1>5. QED
  BY <1>1, <1>3, <1>4

LEMMA LeftPairs ==
  ASSUME NEW stmts, NEW calls, NEW k, \A s \in stmts : s = <<s[1], s[2]>>,
         NEW s \in Left(stmts, calls, k)
  PROVE  s = <<s[1], s[2]>>
BY LeftWithin

LEMMA RunDatabase ==
  ASSUME IInv, NEW t \in Threads, pc[t] \in {"walk", "calls"}, NEW calls,
         NEW k, NEW how \in Hows(t, calls, k), Run(t, calls, k), CountFault(how),
         UNCHANGED menu
  PROVE  /\ Database' /\ faults \in Nat /\ faults' \in Nat
         /\ how # "failed" => faults' = faults
         /\ how = "failed" => faults' > 0
<1>1. PICK c \in 1..PoolSize :
        /\ leftover'[c] = Left(leftover[c], calls, k)
        /\ \A d \in 1..PoolSize : d # c => leftover'[d] = leftover[d]
        /\ DOMAIN leftover' = 1..PoolSize
  BY RunOnOne
<1>2. /\ \A d \in 1..PoolSize : \A s \in leftover[d] : s = <<s[1], s[2]>>
      /\ faults \in 0..menu.errors /\ menu.errors \in Nat
  BY ApiServerAssumption DEF IInv, Database, Router
<1>3. faults' \in 0..menu'.errors /\ faults \in Nat /\ faults' \in Nat
  BY <1>2 DEF CountFault
<1>4. \A s \in leftover'[c] : s = <<s[1], s[2]>>
  BY <1>1, <1>2, LeftPairs
<1>5. Database'
  BY <1>1, <1>2, <1>3, <1>4 DEF Database
<1>6. QED
  BY <1>2, <1>3, <1>5 DEF CountFault

LEMMA WalkStep ==
  ASSUME IInv, NEW t \in Threads, Walk(t)
  PROVE  IInv'
<1> DEFINE walk == script[t].walk
<1>1. /\ pc[t] = "walk"
      /\ UNCHANGED <<leaseVars, menu, routes, path, disturbed, refused, ended>>
  BY DEF Walk
<1>2. PICK k, how :
        /\ k \in 0..Len(walk) /\ how \in Hows(t, walk, k)
        /\ Run(t, walk, k) /\ CountFault(how)
        /\ Goto(t, CASE how = "done" -> "calls" [] how = "endless" -> "round"
                     [] OTHER -> "cut")
        /\ script' = IF how = "endless" THEN [script EXCEPT ![t] = Plain(<<>>)] ELSE script
        /\ causes' = IF how \in {"left", "stray", "endless"} THEN causes \cup {"walk"}
                                                             ELSE causes
  BY DEF Walk
<1>3. Pool /\ Sessions /\ Router /\ Routed /\ DOMAIN pc = Threads /\ DOMAIN script = Threads
  BY DEF IInv, Sessions
<1>4. path[t] \in Known /\ script[t] \in Handlers[path[t]]
  BY <1>1, <1>3 DEF Sessions
<1>5. Script(walk) /\ WalkSafe(walk)
  BY <1>4, HandlersGood DEF GoodScript
<1>6. PICK l \in {"calls", "cut", "round"} :
        /\ Goto(t, l)
        /\ l = "calls" <=> how = "done"
        /\ l = "round" <=> how = "endless"
  BY <1>2
<1>7. PICK c \in 1..PoolSize :
        /\ Reaches(leftover[c], walk, k) /\ how \in Ends(leftover[c], walk, k)
        /\ leftover'[c] = Left(leftover[c], walk, k)
        /\ \A d \in 1..PoolSize : d # c => leftover'[d] = leftover[d]
  BY <1>1, <1>2, RunOnOne
<1>8. /\ Database' /\ faults \in Nat /\ faults' \in Nat
      /\ how # "failed" => faults' = faults
      /\ how = "failed" => faults' > 0
  BY <1>1, <1>2, RunDatabase
<1> HIDE DEF walk
<1>9. ASSUME faults = 0, how # "failed"
      PROVE  /\ OnlyKnown(leftover'[c])
             /\ causes = {} => how # "refused"
             /\ causes = {} /\ how = "done" => Free(leftover'[c], TreeNames)
  <2>1. OnlyKnown(leftover[c]) /\ (causes = {} => Free(leftover[c], TreeNames))
    BY <1>9 DEF IInv, Leftovers
  <2>2. QED
    BY <1>2, <1>5, <1>7, <1>9, <2>1 DEF WalkSafe
<1>10. Pool'
  BY <1>1, <1>3, <1>6, KeepLease DEF Holding
<1>11. Router'
  BY <1>1, <1>2, <1>3 DEF Router
<1>12. \A u \in Threads : pc'[u] = IF u = t THEN l ELSE pc[u]
  <2>1. pc' = [pc EXCEPT ![t] = l]
    BY <1>6 DEF Goto
  <2>2. QED
    BY <1>3, <2>1
<1>13. Sessions'
  <2>1. /\ DOMAIN script' = Threads
        /\ \A u \in Threads : script'[u] = IF u = t /\ l = "round" THEN Plain(<<>>)
                                                                  ELSE script[u]
    BY <1>2, <1>3, <1>6
  <2>2. pc' \in [Threads -> Places]
    BY <1>3, <1>6 DEF Sessions, Goto, Places, Called
  <2>3. QED
    BY <1>1, <1>3, <1>4, <1>6, <1>12, <2>1, <2>2 DEF Sessions
<1>14. Routed'
  <2>1. "race" \in causes' <=> "race" \in causes
    BY <1>2
  <2>2. \A u \in Threads : pc'[u] \in {"insert", "inserting"} => pc[u] \in {"insert", "inserting"}
    BY <1>6, <1>12
  <2>3. QED
    BY <1>1, <1>3, <2>1, <2>2 DEF Routed
<1>15. causes = {} /\ faults = 0 => how = "done" \/ causes' # {} \/ faults' > 0
  <2>1. how \in {"done", "stray", "left", "endless", "refused", "failed"}
    BY <1>2, <1>5, <1>7, EndsHow
  <2>2. how \in {"left", "stray", "endless"} => causes' # {}
    BY <1>2
  <2>3. QED
    BY <1>8, <1>9, <2>1, <2>2
<1>16. Caused'
  <2>1. causes # {} => causes' # {}
    BY <1>2
  <2>2. faults > 0 => faults' > 0
    BY <1>8
  <2>3. causes # {} \/ faults > 0 \/ how = "done" \/ causes' # {} \/ faults' > 0
    BY <1>8, <1>15
  <2>4. QED
    BY <1>1, <1>6, <1>12, <2>1, <2>2, <2>3 DEF IInv, Caused
<1>17. Leftovers'
  <2>1. faults' = 0 => faults = 0 /\ how # "failed"
    BY <1>8
  <2>2. causes' = {} => causes = {}
    BY <1>2
  <2>3. faults' = 0 => OnlyKnown(leftover'[c]) /\ (causes' = {} => Free(leftover'[c], TreeNames))
    BY <1>8, <1>9, <1>15, <2>1, <2>2
  <2>4. faults = 0 => \A d \in 1..PoolSize :
          OnlyKnown(leftover[d]) /\ (causes = {} => Free(leftover[d], TreeNames))
    BY DEF IInv, Leftovers
  <2>5. QED
    BY <1>7, <2>1, <2>2, <2>3, <2>4 DEF Leftovers
<1>18. QED
  BY <1>1, <1>8, <1>10, <1>11, <1>13, <1>14, <1>16, <1>17 DEF IInv

LEMMA CallsStep ==
  ASSUME IInv, NEW t \in Threads, Calls(t)
  PROVE  IInv'
<1> DEFINE calls == script[t].calls
<1>1. /\ pc[t] = "calls" /\ script' = [script EXCEPT ![t] = Plain(<<>>)]
      /\ UNCHANGED <<leaseVars, menu, routes, path, disturbed, ended>>
  BY DEF Calls
<1>2. PICK k, how :
        /\ k \in 0..Len(calls) /\ how \in Hows(t, calls, k)
        /\ Run(t, calls, k) /\ CountFault(how)
        /\ refused' = IF how = "refused" /\ faults = 0 THEN refused \cup {path[t]} ELSE refused
        /\ Goto(t, IF how = "endless" THEN "round" ELSE "give")
        /\ causes' = IF BrokeOff(calls, k, how) THEN causes \cup {"walk"} ELSE causes
  BY DEF Calls
<1>3. Pool /\ Sessions /\ Router /\ Routed /\ DOMAIN pc = Threads /\ DOMAIN script = Threads
  BY DEF IInv, Sessions
<1>4. path[t] \in Known /\ path[t] \in menu.paths /\ script[t] \in Handlers[path[t]]
  BY <1>1, <1>3 DEF Sessions
<1>5. Script(calls) /\ CallsSafe(path[t], calls)
  BY <1>4, HandlersGood DEF GoodScript
<1>6. PICK c \in 1..PoolSize :
        /\ Reaches(leftover[c], calls, k) /\ how \in Ends(leftover[c], calls, k)
        /\ leftover'[c] = Left(leftover[c], calls, k)
        /\ \A d \in 1..PoolSize : d # c => leftover'[d] = leftover[d]
  BY <1>1, <1>2, RunOnOne
<1>7. /\ Database' /\ faults \in Nat /\ faults' \in Nat
      /\ how # "failed" => faults' = faults
      /\ how = "failed" => faults' > 0
  BY <1>1, <1>2, RunDatabase
<1> HIDE DEF calls
<1>8. ASSUME faults = 0, how # "failed"
      PROVE  /\ OnlyKnown(leftover'[c])
             /\ how = "refused" => path[t] \in Troubled
             /\ causes' = {} => Free(leftover'[c], TreeNames)
  <2>1. OnlyKnown(leftover[c]) /\ (causes = {} => Free(leftover[c], TreeNames))
    BY <1>8 DEF IInv, Leftovers
  <2>2. /\ OnlyKnown(leftover'[c])
        /\ how = "refused" => path[t] \in Troubled
        /\ Free(leftover[c], TreeNames) =>
             Free(leftover'[c], TreeNames) \/ BrokeOff(calls, k, how)
    BY <1>2, <1>5, <1>6, <1>8, <2>1 DEF CallsSafe
  <2>3. causes' = {} => causes = {} /\ ~ BrokeOff(calls, k, how)
    BY <1>2
  <2>4. QED
    BY <2>1, <2>2, <2>3
<1>9. PICK l \in {"give", "round"} : Goto(t, l) /\ (l = "round" <=> how = "endless")
  BY <1>2
<1>10. \A u \in Threads : /\ pc'[u] = IF u = t THEN l ELSE pc[u]
                         /\ script'[u] = IF u = t THEN Plain(<<>>) ELSE script[u]
  BY <1>1, <1>3, <1>9 DEF Goto
<1>11. Pool'
  BY <1>1, <1>3, <1>9, KeepLease DEF Holding
<1>12. Sessions'
  <2>1. pc' \in [Threads -> Places] /\ DOMAIN script' = Threads
    BY <1>1, <1>3, <1>9 DEF Sessions, Goto, Places, Called
  <2>2. QED
    BY <1>1, <1>3, <1>4, <1>10, <2>1 DEF Sessions
<1>13. Router' /\ Routed'
  <2>1. "race" \in causes' <=> "race" \in causes
    BY <1>2
  <2>2. Router'
    BY <1>1, <1>2, <1>3 DEF Router
  <2>3. QED
    BY <1>1, <1>3, <1>10, <2>1, <2>2 DEF Routed
<1>14. Caused'
  <2>1. (faults > 0 => faults' > 0) /\ (causes # {} => causes' # {})
    BY <1>2, <1>7
  <2>2. l = "round" => causes' # {}
    BY <1>2, <1>9 DEF BrokeOff
  <2>3. QED
    BY <1>1, <1>10, <2>1, <2>2 DEF IInv, Caused
<1>15. Leftovers'
  <2>1. faults' = 0 => faults = 0 /\ how # "failed"
    BY <1>7
  <2>2. faults' = 0 => OnlyKnown(leftover'[c]) /\ (causes' = {} => Free(leftover'[c], TreeNames))
    BY <1>8, <2>1
  <2>3. faults = 0 => \A d \in 1..PoolSize :
          OnlyKnown(leftover[d]) /\ (causes = {} => Free(leftover[d], TreeNames))
    BY DEF IInv, Leftovers
  <2>4. causes' = {} => causes = {}
    BY <1>2
  <2>5. QED
    BY <1>6, <2>1, <2>2, <2>3, <2>4 DEF Leftovers
<1>16. refused' \subseteq menu'.paths /\ refused' \subseteq Troubled
  BY <1>1, <1>2, <1>4, <1>8 DEF IInv
<1>17. QED
  BY <1>7, <1>11, <1>12, <1>13, <1>14, <1>15, <1>16 DEF IInv

LEMMA NextInvariant ==
  ASSUME IInv, [Next]_vars
  PROVE  IInv'
<1>1. CASE UNCHANGED vars
  <2>1. UNCHANGED <<free, lent, menu, routes, pc, path, script, disturbed, leftover,
                    refused, causes, faults, ended>>
    BY <1>1 DEF vars, leaseVars
  <2>2. Pool' /\ Sessions' /\ Router' /\ Database'
    BY <2>1 DEF IInv, Pool, Sessions, Router, Database
  <2>3. Routed' /\ Caused' /\ Leftovers'
    BY <2>1 DEF IInv, Routed, Caused, Leftovers
  <2>4. QED
    BY <2>1, <2>2, <2>3 DEF IInv
<1>2. CASE Collapse
  BY <1>2, CollapseStep
<1>3. ASSUME NEW t \in Threads, Request(t) \/ Proceed(t)
      PROVE  IInv'
  BY <1>3, QuietSteps, RouterSteps, WalkStep, CallsStep DEF Proceed
<1>4. QED
  BY <1>1, <1>2, <1>3 DEF Next

LEMMA Invariant == Spec => []IInv
BY InitInvariant, NextInvariant, PTL DEF Spec

(* A connection is held where the session's code holds it, and every       *)
(* other variable has its type: a handler runs the script of its path.     *)
THEOREM ServerTypes == Spec => []TypeOK
<1>1. IInv => TypeOK
  <2> SUFFICES ASSUME IInv PROVE TypeOK
    OBVIOUS
  <2>1. ASSUME NEW t \in Threads
        PROVE  Cardinality(lent[t]) = IF pc[t] \in Holding THEN 1 ELSE 0
    <3>1. CASE pc[t] \in Holding
      <4>1. PICK c \in 1..PoolSize : lent[t] = {c}
        BY <3>1 DEF IInv, Pool
      <4>2. QED
        BY <3>1, <4>1, FS_Singleton
    <3>2. CASE pc[t] \notin Holding
      <4>1. lent[t] = {}
        BY <3>2 DEF IInv, Pool
      <4>2. QED
        BY <3>2, <4>1, FS_EmptySet
    <3>3. QED
      BY <3>1, <3>2
  <2>2. QED
    BY <2>1 DEF TypeOK, IInv, Pool, Sessions, Router, Database
<1>2. QED
  BY <1>1, Invariant, PTL

(* Until the database makes an error, what earlier requests left behind    *)
(* has the five requests refused that a name is shared with, or that are   *)
(* wrong by themselves, and no other of the twenty-seven, whatever the     *)
(* requests, the sessions and the connections are.                         *)
THEOREM OthersServed == Spec => []OthersNeverRefused
<1>1. IInv => OthersNeverRefused
  BY DEF IInv, OthersNeverRefused, Troubled
<1>2. QED
  BY <1>1, Invariant, PTL

(* Registered paths are only lost to a race in the router, and the process *)
(* only ends after a race, a helper or a walk that broke off or had no     *)
(* end, or an error of the database.  Whatever else the requests leave     *)
(* prepared, a helper of a process tree never meets it.                    *)
THEOREM HarmCaused == Spec => []HarmNeedsCause
<1>1. IInv => HarmNeedsCause
  BY DEF IInv, HarmNeedsCause, Routed, Caused
<1>2. QED
  BY <1>1, Invariant, PTL

-----------------------------------------------------------------------------
(* A statement that goes away in a run of calls is given up by the run,    *)
(* which met no other text of its name before.                             *)
LEMMA GoneIsFreed ==
  ASSUME NEW stmts, NEW calls, Script(calls), NEW k \in 0..Len(calls),
         Reaches(stmts, calls, k), NEW s \in stmts, s = <<s[1], s[2]>>,
         s \notin Left(stmts, calls, k)
  PROVE  Frees(calls, s)
<1> DEFINE Gone == {j \in 0..k : s \notin Left(stmts, calls, j)}
<1>1. Len(calls) \in Nat /\ k \in Nat
  BY DEF Script
<1>2. Gone \in SUBSET Nat /\ k \in Gone
  BY <1>1
<1>3. PICK j \in Gone : \A m \in Gone : j <= m
  <2> HIDE DEF Gone
  <2>1. QED
    BY <1>2, LeastNumber
<1>4. j \in 0..k /\ j \in Nat /\ s \notin Left(stmts, calls, j)
  BY <1>1
<1>5. j # 0
  BY <1>4, LeftNone
<1>6. ASSUME NEW i \in 0..(j - 1) PROVE s \in Left(stmts, calls, i)
  <2>1. i \in 0..k /\ ~ (j <= i)
    BY <1>1, <1>4
  <2>2. QED
    BY <1>3, <2>1
<1> HIDE DEF Gone
<1>7. ASSUME NEW i \in 1..j, calls[i].op = "prepare", calls[i].name = s[1]
      PROVE  calls[i].text = s[2]
  <2>1. i - 1 \in 0..(j - 1) /\ i - 1 \in 0..(k - 1) /\ (i - 1) + 1 = i
    BY <1>1, <1>4
  <2>2. ~ Refused(Left(stmts, calls, i - 1), calls[i])
    BY <2>1 DEF Reaches
  <2>3. s \in Left(stmts, calls, i - 1)
    BY <1>6, <2>1
  <2>4. QED
    BY <1>7, <2>2, <2>3 DEF Refused
<1>8. s \in Left(stmts, calls, j - 1) /\ s \notin Does(Left(stmts, calls, j - 1), calls[j])
  <2>1. j - 1 \in Nat /\ j - 1 \in 0..(j - 1) /\ (j - 1) + 1 = j
    BY <1>4, <1>5
  <2>2. Left(stmts, calls, (j - 1) + 1) = Does(Left(stmts, calls, j - 1), calls[(j - 1) + 1])
    BY <2>1, LeftNext
  <2>3. QED
    BY <1>4, <1>6, <2>1, <2>2
<1>9. Touches(calls[j], s[1])
  BY <1>8 DEF Does
<1>10. j \in 1..j /\ j \in 1..Len(calls)
  BY <1>1, <1>4, <1>5
<1>11. calls[j].op # "prepare"
  <2>1. SUFFICES ASSUME calls[j].op = "prepare" PROVE FALSE
    OBVIOUS
  <2>2. calls[j].name = s[1] /\ calls[j].text = s[2]
    BY <1>7, <1>9, <1>10, <2>1 DEF Touches
  <2>3. QED
    BY <1>8, <2>1, <2>2 DEF Does
<1>12. calls[j] = Unprepare(s[1])
  BY <1>9, <1>10, <1>11 DEF Touches, Script
<1>13. \A i \in 1..(j - 1) : i \in 1..j
  BY <1>4
<1>14. QED
  BY <1>7, <1>10, <1>12, <1>13 DEF Frees

(* A statement that was left on a connection stays there until a handler   *)
(* that can do with the same text has run on that connection, or the       *)
(* process is started again.                                               *)
THEOREM HealedByTextOnly == Spec => HealedBySameText
<1> DEFINE Healing(c, s) ==
             \/ \E t \in Threads : /\ c \in lent[t]
                                  /\ \/ pc[t] = "walk" /\ Frees(script[t].walk, s)
                                     \/ pc[t] = "calls" /\ Frees(script[t].calls, s)
             \/ Collapse
           Step == \A c \in 1..PoolSize : \A s \in leftover[c] \ leftover'[c] : Healing(c, s)
<1>1. ASSUME IInv, NEW t \in Threads, pc[t] \in {"walk", "calls"}, NEW calls, Script(calls),
             pc[t] = "walk" => calls = script[t].walk,
             pc[t] = "calls" => calls = script[t].calls,
             NEW k \in 0..Len(calls), NEW how \in Hows(t, calls, k), Run(t, calls, k)
      PROVE  Step
  <2>1. PICK d \in 1..PoolSize :
          /\ d \in lent[t] /\ Reaches(leftover[d], calls, k)
          /\ leftover'[d] = Left(leftover[d], calls, k)
          /\ \A e \in 1..PoolSize : e # d => leftover'[e] = leftover[e]
    BY <1>1, RunOnOne
  <2>2. ASSUME NEW c \in 1..PoolSize, NEW s \in leftover[c] \ leftover'[c]
        PROVE  c = d /\ Frees(calls, s)
    <3>1. c = d /\ s \in leftover[d] /\ s \notin Left(leftover[d], calls, k)
      BY <2>1, <2>2
    <3>2. s = <<s[1], s[2]>>
      BY <1>1, <3>1 DEF IInv, Database
    <3>3. QED
      BY <1>1, <2>1, <3>1, <3>2, GoneIsFreed
  <2>3. QED
    BY <1>1, <2>1, <2>2
<1>2. ASSUME IInv, NEW t \in Threads, pc[t] \in {"walk", "calls"}
      PROVE  Script(script[t].walk) /\ Script(script[t].calls)
  BY <1>2, HandlersGood DEF IInv, Sessions, GoodScript
<1>3. ASSUME IInv, NEW t \in Threads, Walk(t) PROVE Step
  <2>1. PICK k \in 0..Len(script[t].walk) : \E how \in Hows(t, script[t].walk, k) :
          Run(t, script[t].walk, k) /\ pc[t] = "walk"
    BY <1>3 DEF Walk
  <2>2. QED
    BY <1>1, <1>2, <1>3, <2>1
<1>4. ASSUME IInv, NEW t \in Threads, Calls(t) PROVE Step
  <2>1. PICK k \in 0..Len(script[t].calls) : \E how \in Hows(t, script[t].calls, k) :
          Run(t, script[t].calls, k) /\ pc[t] = "calls"
    BY <1>4 DEF Calls
  <2>2. QED
    BY <1>1, <1>2, <1>4, <2>1
<1>5. ASSUME leftover' = leftover \/ Collapse PROVE Step
  BY <1>5
<1>6. ASSUME NEW t \in Threads, Request(t) \/ Proceed(t), ~ Walk(t), ~ Calls(t)
      PROVE  leftover' = leftover
  BY <1>6 DEF Request, Proceed, GetForCheck, Authenticate, Look, Looked, Insert, Inserted,
              Default, GetForHandler, Survive, GiveBack, Answer
<1>7. IInv /\ [Next]_vars => [Step]_vars
  <2> HIDE DEF Step
  <2>1. QED
    BY <1>3, <1>4, <1>5, <1>6 DEF Next
<1>8. QED
  BY <1>7, Invariant, PTL DEF Spec, HealedBySameText
=============================================================================
