----------------------- MODULE WorkflowDrive_proofs ------------------------
(***************************************************************************)
(* Theorems about a workflow run and its resumptions, for every script the *)
(* parameters allow, any number of calls, sessions and workers, and any    *)
(* ceiling: what the drive loop, the pool, the watchdog and the replay     *)
(* keep true of the journal, and that the journal never goes back on what  *)
(* it has told.                                                            *)
(*                                                                         *)
(* A journal whose batches do not overlap determines the engine after each *)
(* of them, in whatever order the outcomes came in; so a replay of it      *)
(* passes through the same engines (LockInv), and is not refused.          *)
(*                                                                         *)
(* The engine is a fold over the calls of the script.  Induction is by the *)
(* least element of a set of numbers (NatMin, Induct); it shows that a     *)
(* fold over positions is a function on the sets of positions (FoldExists) *)
(* and that an ordering of a finite set exists (OrderExists).              *)
(***************************************************************************)
EXTENDS WorkflowDrive, FiniteSetTheorems, WellFoundedInduction, TLAPS

-----------------------------------------------------------------------------
(* Numbers and orderings                                                   *)

\* A set of numbers that is not empty has a least one.
LEMMA NatMin ==
  ASSUME NEW T, T \subseteq Nat, T # {}
  PROVE  \E n \in T : \A m \in T : n <= m
<1> DEFINE R == OpToRel(<, Nat)
<1>1. PICK n \in T : \A m \in T : ~(<<m, n>> \in R)
  BY NatLessThanWellFounded, WFMin
<1>2. \A m \in Nat : m < n => <<m, n>> \in R
  BY DEF OpToRel
<1> HIDE DEF R
<1>3. n \in Nat /\ \A m \in T : m \in Nat /\ ~(m < n)
  BY <1>1, <1>2
<1>4. QED
  BY <1>3

\* Induction over a set of numbers.
LEMMA Induct ==
  ASSUME NEW T, 0 \in T, \A n \in Nat : n \in T => n + 1 \in T
  PROVE  Nat \subseteq T
<1> SUFFICES ASSUME Nat \ T # {} PROVE FALSE
  OBVIOUS
<1>1. PICK n \in Nat \ T : \A m \in Nat \ T : n <= m
  BY NatMin
<1>2. n # 0 /\ n - 1 \in Nat /\ n - 1 < n
  OBVIOUS
<1>3. n - 1 \in T
  BY <1>1, <1>2
<1>4. (n - 1) + 1 = n
  BY <1>2
<1>5. QED
  BY <1>2, <1>3, <1>4

\* A bounded set of numbers that is not empty has a greatest one.
LEMMA MaxOf ==
  ASSUME NEW b \in Nat, NEW T \in SUBSET (0..b), T # {}
  PROVE  Max(T) \in T /\ \A n \in T : n <= Max(T)
<1>1. PICK m \in {b - n : n \in T} : \A k \in {b - n : n \in T} : m <= k
  <2> DEFINE D == {b - n : n \in T}
  <2>1. PICK x \in T : TRUE
    OBVIOUS
  <2>2. D # {}
    BY <2>1
  <2>3. \A n \in T : b - n \in Nat
    OBVIOUS
  <2>4. D \subseteq Nat
    BY <2>3
  <2> HIDE DEF D
  <2>5. \E m \in D : \A k \in D : m <= k
    BY <2>2, <2>4, NatMin
  <2>6. QED
    BY <2>5 DEF D
<1>2. PICK x \in T : m = b - x
  BY <1>1
<1>3. \A n \in T : x >= n
  BY <1>1, <1>2
<1>4. Max(T) \in T /\ \A n \in T : Max(T) >= n
  BY <1>2, <1>3 DEF Max
<1>5. QED
  BY <1>4

\* The greatest of 1..n.
LEMMA MaxOfRange ==
  ASSUME NEW n \in Nat \ {0}
  PROVE  Max(1..n) = n
<1>1. Max(1..n) \in 1..n /\ \A m \in 1..n : m <= Max(1..n)
  <2>1. 1..n \in SUBSET (0..n) /\ 1..n # {}
    OBVIOUS
  <2>2. QED
    BY <2>1, MaxOf
<1>2. QED
  BY <1>1

-----------------------------------------------------------------------------
(* Sets in the order of their keys                                         *)

\* Finitely many things with different keys can be listed by key.
LEMMA OrderExists ==
  ASSUME NEW all, NEW key,
         \A x \in all : key[x] \in Nat,
         \A x, y \in all : key[x] = key[y] => x = y,
         NEW ids \in SUBSET all, IsFiniteSet(ids)
  PROVE  \E order \in [1..Cardinality(ids) -> ids] :
           \A i, j \in 1..Cardinality(ids) : i < j => key[order[i]] < key[order[j]]
<1> DEFINE Sorted(S, o, n) == \A i, j \in 1..n : i < j => key[o[i]] < key[o[j]]
           T == {n \in Nat : \A S \in SUBSET all : IsFiniteSet(S) /\ Cardinality(S) = n
                   => \E o \in [1..n -> S] : Sorted(S, o, n)}
<1>1. 0 \in T
  <2>1. ASSUME NEW S \in SUBSET all, IsFiniteSet(S), Cardinality(S) = 0
        PROVE  \E o \in [1..0 -> S] : Sorted(S, o, 0)
    <3>1. [i \in 1..0 |-> i] \in [1..0 -> S]
      OBVIOUS
    <3>2. Sorted(S, [i \in 1..0 |-> i], 0)
      OBVIOUS
    <3> HIDE DEF Sorted
    <3>3. QED
      BY <3>1, <3>2
  <2>2. QED
    BY <2>1
<1>2. ASSUME NEW n \in Nat, n \in T
      PROVE  n + 1 \in T
  <2>1. ASSUME NEW S \in SUBSET all, IsFiniteSet(S), Cardinality(S) = n + 1
        PROVE  \E o \in [1..(n + 1) -> S] : Sorted(S, o, n + 1)
    <3> DEFINE K == {key[x] : x \in S}
    <3>1. S # {}
      BY <2>1, FS_EmptySet
    <3>2. K \subseteq Nat /\ K # {}
      BY <3>1
    <3> HIDE DEF K
    <3>3. PICK k \in K : \A m \in K : k <= m
      BY <3>2, NatMin
    <3>4. PICK x \in S : key[x] = k
      BY <3>3 DEF K
    <3>5. \A y \in S : y # x => key[x] < key[y]
      BY <3>3, <3>4 DEF K
    <3>6. S \ {x} \in SUBSET all /\ IsFiniteSet(S \ {x}) /\ Cardinality(S \ {x}) = n
      <4>1. IsFiniteSet(S \ {x}) /\ Cardinality(S \ {x}) = Cardinality(S) - 1
        BY <2>1, <3>4, FS_RemoveElement
      <4>2. QED
        BY <2>1, <4>1
    <3>7. PICK o \in [1..n -> S \ {x}] : Sorted(S \ {x}, o, n)
      BY <1>2, <3>6
    <3> DEFINE q == [i \in 1..(n + 1) |-> IF i = 1 THEN x ELSE o[i - 1]]
    <3>8. \A i \in 1..(n + 1) : i # 1 => i - 1 \in 1..n /\ o[i - 1] \in S /\ o[i - 1] # x
      BY <3>7
    <3>9. q \in [1..(n + 1) -> S]
      BY <3>8
    <3>10. ASSUME NEW i \in 1..(n + 1), NEW j \in 1..(n + 1), i < j
           PROVE  key[q[i]] < key[q[j]]
      <4>1. j # 1 /\ q[j] = o[j - 1] /\ j - 1 \in 1..n /\ q[j] \in S /\ q[j] # x
        BY <3>8, <3>10
      <4>2. CASE i = 1
        BY <3>5, <4>1, <4>2
      <4>3. CASE i # 1
        BY <3>7, <3>10, <4>1, <4>3
      <4>4. QED
        BY <4>2, <4>3
    <3>11. QED
      BY <3>9, <3>10
  <2>2. QED
    BY <2>1
<1> HIDE DEF T
<1>3. Nat \subseteq T
  BY <1>1, <1>2, Induct
<1>4. Cardinality(ids) \in T
  BY <1>3, FS_CardinalityType
<1>5. QED
  BY <1>4 DEF T

\* InOrder lists every member of a set once.
Lists(order, n, ids) ==
    /\ n \in Nat /\ order \in [1..n -> ids] /\ Len(order) = n
    /\ \A i, j \in 1..n : order[i] = order[j] => i = j
    /\ \A x \in ids : \E i \in 1..n : order[i] = x

\* InOrder lists what it is given, each once.
LEMMA InOrderLists ==
  ASSUME NEW ids, IsFiniteSet(ids), NEW key,
         \A x \in ids : key[x] \in Nat,
         \A x, y \in ids : key[x] = key[y] => x = y
  PROVE  Lists(InOrder(ids, key), Cardinality(ids), ids)
<1> DEFINE n == Cardinality(ids)
           o == InOrder(ids, key)
<1>1. n \in Nat
  BY FS_CardinalityType
<1>2. \E order \in [1..n -> ids] : \A i, j \in 1..n : i < j => key[order[i]] < key[order[j]]
  BY OrderExists
<1>3. o \in [1..n -> ids] /\ \A i, j \in 1..n : i < j => key[o[i]] < key[o[j]]
  BY <1>2 DEF InOrder
<1> HIDE DEF n, o
<1>4. ASSUME NEW i \in 1..n, NEW j \in 1..n, o[i] = o[j]
      PROVE  i = j
  <2>1. ~(i < j) /\ ~(j < i)
    BY <1>3, <1>4
  <2>2. QED
    BY <1>1, <2>1
<1>5. ASSUME NEW x \in ids, \A i \in 1..n : o[i] # x
      PROVE  FALSE
  <2>1. o \in [1..n -> ids \ {x}]
    BY <1>3, <1>5
  <2>2. IsFiniteSet(ids \ {x}) /\ Cardinality(ids \ {x}) = n - 1
    BY FS_RemoveElement DEF n
  <2>3. IsFiniteSet(1..n) /\ Cardinality(1..n) = n
    BY <1>1, FS_Interval
  <2>4. n - 1 < n
    BY <1>1
  <2>5. Cardinality(ids \ {x}) < Cardinality(1..n)
    BY <2>2, <2>3, <2>4
  <2> DEFINE D == ids \ {x}
             N == 1..n
  <2>6. \E i, j \in N : i # j /\ o[i] = o[j]
    <3>1. IsFiniteSet(D) /\ IsFiniteSet(N) /\ Cardinality(D) < Cardinality(N) /\ o \in [N -> D]
      BY <2>1, <2>2, <2>3, <2>5
    <3> HIDE DEF D, N
    <3>2. QED
      BY <3>1, FS_PigeonHole
  <2>7. QED
    BY <1>4, <2>6
<1>6. o \in Seq(ids) /\ Len(o) = n
  BY <1>1, <1>3
<1>7. QED
  BY <1>1, <1>3, <1>4, <1>5, <1>6 DEF Lists, n, o

-----------------------------------------------------------------------------
(* Folds                                                                   *)

\* What a fold computes exists as a function on the sets of positions.
Iterates(g, n, base, h) ==
    \A s \in SUBSET (1..n) : g[s] = IF s = {} THEN base ELSE h[Max(s)][g[s \ {Max(s)}]]

\* A fold over positions computes a value for every set of them.
LEMMA FoldExists ==
  ASSUME NEW V, NEW base \in V, NEW n \in Nat, NEW h \in [1..n -> [V -> V]]
  PROVE  \E g \in [SUBSET (1..n) -> V] : Iterates(g, n, base, h)
<1> DEFINE Fits(g, m) == \A s \in SUBSET (1..m) :
                           g[s] = IF s = {} THEN base ELSE h[Max(s)][g[s \ {Max(s)}]]
           Ok(m) == \E g \in [SUBSET (1..m) -> V] : Fits(g, m)
           T == {m \in Nat : m <= n => Ok(m)}
<1>1. 0 \in T
  <2> DEFINE g == [s \in SUBSET (1..0) |-> base]
  <2>1. g \in [SUBSET (1..0) -> V]
    OBVIOUS
  <2>2. Fits(g, 0)
    OBVIOUS
  <2> HIDE DEF Fits, g
  <2>3. QED
    BY <2>1, <2>2
<1>2. ASSUME NEW m \in Nat, m \in T
      PROVE  m + 1 \in T
  <2> HIDE DEF Ok
  <2> SUFFICES ASSUME m + 1 <= n
               PROVE  Ok(m + 1)
    OBVIOUS
  <2>0. Ok(m)
    BY <1>2
  <2>1. PICK g \in [SUBSET (1..m) -> V] : Fits(g, m)
    BY <2>0 DEF Ok
  <2> DEFINE q == [s \in SUBSET (1..(m + 1)) |->
                     IF m + 1 \in s THEN h[m + 1][g[s \ {m + 1}]] ELSE g[s]]
  <2>2. ASSUME NEW s \in SUBSET (1..(m + 1))
        PROVE  /\ m + 1 \in s => Max(s) = m + 1 /\ s \ {m + 1} \in SUBSET (1..m)
               /\ m + 1 \notin s => s \in SUBSET (1..m)
               /\ m + 1 \notin s /\ s # {} => Max(s) \in s /\ s \ {Max(s)} \in SUBSET (1..m)
    <3>1. s # {} => Max(s) \in s /\ \A i \in s : i <= Max(s)
      <4>1. s \in SUBSET (0..(m + 1)) /\ m + 1 \in Nat
        OBVIOUS
      <4>2. QED
        BY <4>1, MaxOf
    <3>2. \A i \in s : i # m + 1 => i \in 1..m
      OBVIOUS
    <3>3. m + 1 \in s => Max(s) = m + 1
      <4>1. \A i \in s : i \in Nat /\ i <= m + 1
        OBVIOUS
      <4>2. ASSUME m + 1 \in s
            PROVE  Max(s) = m + 1
        <5>1. Max(s) \in Nat /\ Max(s) <= m + 1 /\ m + 1 <= Max(s)
          BY <3>1, <4>1, <4>2
        <5>2. QED
          BY <5>1
      <4>3. QED
        BY <4>2
    <3>4. QED
      BY <3>1, <3>2, <3>3
  <2>3. q \in [SUBSET (1..(m + 1)) -> V]
    <3>1. ASSUME NEW s \in SUBSET (1..(m + 1))
          PROVE  q[s] \in V
      <4>1. CASE m + 1 \in s
        <5>1. g[s \ {m + 1}] \in V /\ m + 1 \in 1..n
          BY <2>1, <2>2, <4>1
        <5>2. QED
          BY <4>1, <5>1
      <4>2. CASE m + 1 \notin s
        BY <2>1, <2>2, <4>2
      <4>3. QED
        BY <4>1, <4>2
    <3>2. QED
      BY <3>1
  <2>4. ASSUME NEW s \in SUBSET (1..(m + 1))
        PROVE  q[s] = IF s = {} THEN base ELSE h[Max(s)][q[s \ {Max(s)}]]
    <3>1. CASE m + 1 \in s
      <4>1. s \ {m + 1} \in SUBSET (1..(m + 1)) /\ q[s \ {m + 1}] = g[s \ {m + 1}]
        OBVIOUS
      <4>2. QED
        BY <2>2, <3>1, <4>1
    <3>2. CASE m + 1 \notin s
      <4>1. q[s] = g[s] /\ s \in SUBSET (1..m)
        BY <2>2, <3>2
      <4>2. s # {} => q[s \ {Max(s)}] = g[s \ {Max(s)}]
        BY <2>2, <3>2
      <4>3. QED
        BY <2>1, <4>1, <4>2
    <3>3. QED
      BY <3>1, <3>2
  <2> HIDE DEF q
  <2>5. Fits(q, m + 1)
    BY <2>4
  <2> HIDE DEF Fits
  <2>6. QED
    BY <2>3, <2>5 DEF Ok
<1> HIDE DEF T
<1>3. n \in T
  BY <1>1, <1>2, Induct
<1> HIDE DEF Ok
<1>4. Ok(n)
  BY <1>3 DEF T
<1>5. QED
  BY <1>4 DEF Ok, Iterates

\* The sets of positions a fold goes through.
LEMMA Prefix ==
  ASSUME NEW n \in Nat, NEW k \in 1..n
  PROVE  1..k # {} /\ 1..k \in SUBSET (1..n) /\ Max(1..k) = k /\ (1..k) \ {k} = 1..(k - 1)
<1>1. k \in Nat \ {0}
  OBVIOUS
<1>2. Max(1..k) = k
  BY <1>1, MaxOfRange
<1>3. (1..k) \ {k} = 1..(k - 1)
  OBVIOUS
<1>4. 1 \in 1..k
  OBVIOUS
<1>5. \A i \in 1..k : i \in 1..n
  OBVIOUS
<1>6. QED
  BY <1>2, <1>3, <1>4, <1>5

-----------------------------------------------------------------------------
(* The engine                                                              *)

\* A call of agent leaves the engine well typed.
LEMMA AgentType ==
  ASSUME NEW s \in Script, NEW e \in Engine, NEW c \in Calls
  PROVE  Agent(s, e, c) \in Engine
<1>1. CASE ~Reached(s, e, c)
  BY <1>1 DEF Agent
<1>2. CASE Reached(s, e, c) /\ c \in s.undeclared
  BY <1>2 DEF Agent, Engine
<1>3. CASE Reached(s, e, c) /\ c \notin s.undeclared /\ Len(e.issued) >= Ceiling
  BY <1>3 DEF Agent, Engine
<1>4. CASE Reached(s, e, c) /\ c \notin s.undeclared /\ ~(Len(e.issued) >= Ceiling)
  <2>1. Append(e.issued, c) \in Seq(Calls)
    BY DEF Engine
  <2>2. Agent(s, e, c) = [e EXCEPT !.status[c] = "awaited", !.issued = Append(e.issued, c)]
    BY <1>4 DEF Agent
  <2> DEFINE q == Append(e.issued, c)
  <2> HIDE DEF q
  <2>3. q \in Seq(Calls) /\ Agent(s, e, c) = [e EXCEPT !.status[c] = "awaited", !.issued = q]
    BY <2>1, <2>2 DEF q
  <2>4. /\ [e EXCEPT !.status[c] = "awaited", !.issued = q].issued = q
        /\ [e EXCEPT !.status[c] = "awaited", !.issued = q].status = [e.status EXCEPT ![c] = "awaited"]
        /\ [e EXCEPT !.status[c] = "awaited", !.issued = q].seen = e.seen
        /\ [e EXCEPT !.status[c] = "awaited", !.issued = q].undeclared = e.undeclared
    BY DEF Engine
  <2>5. QED
    BY <2>3, <2>4 DEF Engine
<1>5. QED
  BY <1>1, <1>2, <1>3, <1>4

JobsFold(s, e, g) ==
    [S \in SUBSET (DOMAIN s.calls) |->
       IF S = {} THEN e ELSE Agent(s, g[S \ {Max(S)}], s.calls[Max(S)])]

\* The fold RunJobs stands for has a value.
LEMMA JobsFoldExists ==
  ASSUME NEW s \in Script, NEW e \in Engine
  PROVE  \E g : g = JobsFold(s, e, g)
<1> DEFINE n == Len(s.calls)
           h == [k \in 1..n |-> [f \in Engine |-> Agent(s, f, s.calls[k])]]
<1>1. n \in Nat /\ DOMAIN s.calls = 1..n /\ \A k \in 1..n : s.calls[k] \in Calls
  BY DEF Script
<1>2. h \in [1..n -> [Engine -> Engine]]
  BY <1>1, AgentType
<1>3. \A k \in 1..n : \A f \in Engine : h[k][f] = Agent(s, f, s.calls[k])
  OBVIOUS
<1> HIDE DEF n, h
<1>4. PICK g \in [SUBSET (1..n) -> Engine] :
        \A S \in SUBSET (1..n) : g[S] = IF S = {} THEN e ELSE h[Max(S)][g[S \ {Max(S)}]]
  <2> DEFINE V == Engine
  <2>1. e \in V /\ n \in Nat /\ h \in [1..n -> [V -> V]]
    BY <1>1, <1>2
  <2> HIDE DEF V
  <2>2. \E g \in [SUBSET (1..n) -> V] : Iterates(g, n, e, h)
    BY <2>1, FoldExists
  <2>3. QED
    BY <2>2 DEF V, Iterates
<1>5. ASSUME NEW S \in SUBSET (1..n)
      PROVE  g[S] = IF S = {} THEN e ELSE Agent(s, g[S \ {Max(S)}], s.calls[Max(S)])
  <2>1. CASE S # {}
    <3>1. S \in SUBSET (0..n)
      OBVIOUS
    <3>2. Max(S) \in S
      BY <1>1, <2>1, <3>1, MaxOf
    <3>3. Max(S) \in 1..n /\ g[S \ {Max(S)}] \in Engine
      BY <1>4, <3>2
    <3>4. QED
      BY <1>3, <1>4, <2>1, <3>3
  <2>2. QED
    BY <1>4, <2>1
<1>6. g = JobsFold(s, e, g)
  BY <1>1, <1>5 DEF JobsFold
<1>7. QED
  BY <1>6

\* RunJobs offers the script's calls to Agent, one after another.
LEMMA JobsChain ==
  ASSUME NEW s \in Script, NEW e \in Engine
  PROVE  \E G : /\ G[0] = e
                /\ \A k \in 1..Len(s.calls) : G[k] = Agent(s, G[k - 1], s.calls[k])
                /\ RunJobs(s, e) = G[Len(s.calls)]
<1> DEFINE n == Len(s.calls)
           it == CHOOSE g : g = JobsFold(s, e, g)
           G == [k \in 0..n |-> it[1..k]]
<1>1. it = JobsFold(s, e, it)
  BY JobsFoldExists
<1>2. RunJobs(s, e) = it[DOMAIN s.calls]
  BY Zenon DEF RunJobs, FoldLeft, MapThenFoldSet, JobsFold
<1>3. n \in Nat /\ DOMAIN s.calls = 1..n
  BY DEF Script
<1> HIDE DEF n, it
<1>4. \A S \in SUBSET (1..n) : it[S] = IF S = {} THEN e ELSE Agent(s, it[S \ {Max(S)}], s.calls[Max(S)])
  BY <1>1, <1>3 DEF JobsFold
<1>5. G[0] = e
  <2>1. 1..0 = {} /\ {} \in SUBSET (1..n) /\ G[0] = it[1..0]
    BY <1>3
  <2>2. QED
    BY <1>4, <2>1
<1>6. ASSUME NEW k \in 1..n
      PROVE  G[k] = Agent(s, G[k - 1], s.calls[k])
  <2>1. it[1..k] = Agent(s, it[1..(k - 1)], s.calls[k])
    <3>1. /\ 1..k # {} /\ 1..k \in SUBSET (1..n)
          /\ Max(1..k) = k /\ (1..k) \ {k} = 1..(k - 1)
      BY <1>3, Prefix
    <3> DEFINE K == 1..k
    <3> HIDE DEF K
    <3>2. QED
      BY <1>4, <3>1
  <2>2. G[k] = it[1..k] /\ G[k - 1] = it[1..(k - 1)]
    BY <1>3
  <2>3. QED
    BY <2>1, <2>2
<1>7. RunJobs(s, e) = G[n]
  BY <1>2, <1>3
<1>8. QED
  BY <1>5, <1>6, <1>7 DEF n

\* The engine's state as its calls leave it: what was granted is awaited or
\* settled, each call once, and what a granted call waited for is over.
Sane(s, e) ==
    /\ Len(e.issued) <= Ceiling
    /\ \A i, j \in 1..Len(e.issued) : e.issued[i] = e.issued[j] => i = j
    /\ \A c \in Calls : e.status[c] \in {"awaited", "settled"}
         => \E id \in 1..Len(e.issued) : e.issued[id] = c
    /\ \A id \in 1..Len(e.issued) :
         /\ e.status[e.issued[id]] \in {"awaited", "settled"}
         /\ \A d \in s.after[e.issued[id]] : e.status[d] \in {"settled", "refused"}

\* f is what e became while the script ran: open calls were granted or refused.
Ran(e, f) ==
    /\ f.seen = e.seen
    /\ \A c \in Calls : /\ e.status[c] # "open" => f.status[c] = e.status[c]
                        /\ f.status[c] = "settled" => e.status[c] = "settled"
    /\ Len(e.issued) <= Len(f.issued)
    /\ \A id \in 1..Len(e.issued) : f.issued[id] = e.issued[id]
    /\ \A id \in (Len(e.issued) + 1)..Len(f.issued) :
         e.status[f.issued[id]] = "open" /\ f.status[f.issued[id]] = "awaited"

\* A call of agent keeps the engine sane and only runs it on.
LEMMA AgentRuns ==
  ASSUME NEW s \in Script, NEW e \in Engine, Sane(s, e), NEW c \in Calls
  PROVE  Sane(s, Agent(s, e, c)) /\ Ran(e, Agent(s, e, c))
<1> DEFINE f == Agent(s, e, c)
<1>0. /\ e.issued \in Seq(Calls) /\ Len(e.issued) \in Nat
      /\ e.status \in [Calls -> {"open", "awaited", "settled", "refused"}]
      /\ Ceiling \in Nat
      /\ \A id \in 1..Len(e.issued) : e.issued[id] \in Calls
      /\ s.after \in [Calls -> SUBSET Calls]
  BY EngineAssumption DEF Engine, Script
<1>1. CASE f = e
  BY <1>0, <1>1 DEF Ran
<1>2. CASE Reached(s, e, c) /\ (c \in s.undeclared \/ Len(e.issued) >= Ceiling)
  <2>1. /\ f.issued = e.issued /\ f.seen = e.seen
        /\ f.status = [e.status EXCEPT ![c] = "refused"]
    BY <1>2 DEF Agent, Engine
  <2>2. e.status[c] = "open"
    BY <1>2 DEF Reached
  <2> HIDE DEF f
  <2>3. \A d \in Calls : f.status[d] = IF d = c THEN "refused" ELSE e.status[d]
    BY <1>0, <2>1
  <2>4. Ran(e, f)
    BY <1>0, <2>1, <2>2, <2>3 DEF Ran
  <2>5. Sane(s, f)
    BY <1>0, <2>1, <2>2, <2>3 DEF Sane
  <2>6. QED
    BY <2>4, <2>5 DEF f
<1>3. CASE Reached(s, e, c) /\ c \notin s.undeclared /\ ~(Len(e.issued) >= Ceiling)
  <2> DEFINE n == Len(e.issued)
             q == Append(e.issued, c)
  <2>1. /\ f.issued = q /\ f.seen = e.seen
        /\ f.status = [e.status EXCEPT ![c] = "awaited"]
    BY <1>3 DEF Agent, Engine
  <2>2. /\ e.status[c] = "open"
        /\ \A d \in s.after[c] : e.status[d] \in {"settled", "refused"}
    BY <1>3 DEF Reached
  <2>3. /\ Len(q) = n + 1 /\ q[n + 1] = c
        /\ \A id \in 1..n : q[id] = e.issued[id]
    BY <1>0
  <2> HIDE DEF f, q
  <2>4. \A d \in Calls : f.status[d] = IF d = c THEN "awaited" ELSE e.status[d]
    BY <1>0, <2>1
  <2>5. \A id \in 1..n : e.issued[id] # c
    BY <2>2 DEF Sane
  <2>6. \A id \in 1..(n + 1) : id \in 1..n \/ id = n + 1
    BY <1>0
  <2>7. Ran(e, f)
    BY <1>0, <2>1, <2>2, <2>3, <2>4, <2>6 DEF Ran
  <2>8. Sane(s, f)
    <3>1. n + 1 <= Ceiling
      BY <1>0, <1>3
    <3>2. \A i, j \in 1..(n + 1) : q[i] = q[j] => i = j
      BY <2>3, <2>5, <2>6 DEF Sane
    <3>3. \A d \in Calls : f.status[d] \in {"awaited", "settled"} => \E id \in 1..(n + 1) : q[id] = d
      <4>1. n + 1 \in 1..(n + 1) /\ \A id \in 1..n : id \in 1..(n + 1)
        BY <1>0
      <4>2. QED
        BY <2>3, <2>4, <4>1 DEF Sane
    <3>4. \A id \in 1..(n + 1) :
            /\ f.status[q[id]] \in {"awaited", "settled"}
            /\ \A d \in s.after[q[id]] : f.status[d] \in {"settled", "refused"}
      <4>1. \A d \in Calls : e.status[d] \in {"settled", "refused"} => f.status[d] \in {"settled", "refused"}
        BY <2>2, <2>4
      <4>2. ASSUME NEW id \in 1..n
            PROVE  /\ f.status[q[id]] \in {"awaited", "settled"}
                   /\ \A d \in s.after[q[id]] : f.status[d] \in {"settled", "refused"}
        BY <1>0, <2>3, <2>4, <2>5, <4>1 DEF Sane
      <4>3. /\ f.status[q[n + 1]] \in {"awaited", "settled"}
            /\ \A d \in s.after[q[n + 1]] : f.status[d] \in {"settled", "refused"}
        BY <1>0, <2>2, <2>3, <2>4, <4>1
      <4>4. QED
        BY <2>6, <4>2, <4>3
    <3>5. QED
      BY <2>1, <2>3, <3>1, <3>2, <3>3, <3>4 DEF Sane
  <2>9. QED
    BY <2>7, <2>8 DEF f
<1>4. QED
  BY <1>1, <1>2, <1>3 DEF Agent

\* Running on and on again is running on.
LEMMA RanOn ==
  ASSUME NEW e \in Engine, NEW f \in Engine, NEW g \in Engine, Ran(e, f), Ran(f, g)
  PROVE  Ran(e, g)
<1> DEFINE l == Len(e.issued)
           m == Len(f.issued)
           n == Len(g.issued)
<1>1. /\ l \in Nat /\ m \in Nat /\ n \in Nat
      /\ \A id \in 1..l : e.issued[id] \in Calls
      /\ \A id \in 1..m : f.issued[id] \in Calls
      /\ \A id \in 1..n : g.issued[id] \in Calls
  BY DEF Engine
<1>2. l <= m /\ m <= n /\ l <= n
  BY <1>1 DEF Ran
<1>3. \A id \in 1..l : g.issued[id] = e.issued[id]
  BY <1>1, <1>2 DEF Ran
<1>4. \A c \in Calls : /\ e.status[c] # "open" => g.status[c] = e.status[c]
                       /\ g.status[c] = "settled" => e.status[c] = "settled"
  BY DEF Ran
<1>5. ASSUME NEW id \in (l + 1)..n
      PROVE  e.status[g.issued[id]] = "open" /\ g.status[g.issued[id]] = "awaited"
  <2>1. CASE id \in (l + 1)..m
    <3>1. e.status[f.issued[id]] = "open" /\ f.status[f.issued[id]] = "awaited"
      BY <2>1 DEF Ran
    <3>2. id \in 1..m /\ g.issued[id] = f.issued[id] /\ f.issued[id] \in Calls
      BY <1>1, <1>2, <2>1 DEF Ran
    <3>3. QED
      BY <3>1, <3>2 DEF Ran
  <2>2. CASE id \in (m + 1)..n
    <3>1. g.issued[id] \in Calls /\ f.status[g.issued[id]] = "open" /\ g.status[g.issued[id]] = "awaited"
      BY <1>1, <2>2 DEF Ran
    <3>2. QED
      BY <3>1 DEF Ran
  <2>3. QED
    BY <1>1, <1>2, <2>1, <2>2
<1>6. QED
  BY <1>2, <1>3, <1>4, <1>5 DEF Ran

\* The pending jobs keep the engine sane and only run it on.
LEMMA RunJobsRuns ==
  ASSUME NEW s \in Script, NEW e \in Engine
  PROVE  /\ RunJobs(s, e) \in Engine
         /\ Sane(s, e) => Sane(s, RunJobs(s, e)) /\ Ran(e, RunJobs(s, e))
<1> DEFINE n == Len(s.calls)
<1>1. PICK G : /\ G[0] = e
               /\ \A k \in 1..n : G[k] = Agent(s, G[k - 1], s.calls[k])
               /\ RunJobs(s, e) = G[n]
  BY JobsChain
<1>2. n \in Nat /\ \A k \in 1..n : s.calls[k] \in Calls
  BY DEF Script
<1> DEFINE Good(f) == f \in Engine /\ (Sane(s, e) => Sane(s, f) /\ Ran(e, f))
           T == {k \in Nat : k <= n => Good(G[k])}
<1>3. 0 \in T
  <2>1. Ran(e, e)
    BY DEF Ran, Engine
  <2>2. QED
    BY <1>1, <2>1
<1>4. ASSUME NEW k \in Nat, k \in T
      PROVE  k + 1 \in T
  <2> SUFFICES ASSUME k + 1 <= n
               PROVE  Good(G[k + 1])
    OBVIOUS
  <2>1. Good(G[k])
    BY <1>2, <1>4
  <2>2. k + 1 \in 1..n /\ (k + 1) - 1 = k
    BY <1>2
  <2>3. G[k + 1] = Agent(s, G[k], s.calls[k + 1]) /\ s.calls[k + 1] \in Calls
    BY <1>1, <1>2, <2>2
  <2>4. G[k + 1] \in Engine
    BY <2>1, <2>3, AgentType
  <2>5. Sane(s, e) => Sane(s, G[k + 1]) /\ Ran(G[k], G[k + 1])
    BY <2>1, <2>3, AgentRuns
  <2>6. QED
    BY <2>1, <2>4, <2>5, RanOn
<1> HIDE DEF T, n
<1>5. n \in T
  BY <1>2, <1>3, <1>4, Induct
<1>6. QED
  BY <1>1, <1>2, <1>5 DEF T

Result == [id : Nat, value : Nat]

\* The engine once the promise of call c is resolved with v, before any of the
\* script's continuations has run.
Resolved(e, c, v) == [e EXCEPT !.status[c] = "settled", !.seen[c] = v]

\* What resolving a call does to the engine.
LEMMA ResolvedType ==
  ASSUME NEW e \in Engine, NEW c, NEW v \in Nat
  PROVE  /\ Resolved(e, c, v) \in Engine
         /\ Resolved(e, c, v).issued = e.issued
         /\ c \in Calls => \A d \in Calls :
              /\ Resolved(e, c, v).status[d] = IF d = c THEN "settled" ELSE e.status[d]
              /\ Resolved(e, c, v).seen[d] = IF d = c THEN v ELSE e.seen[d]
<1> DEFINE st == [e.status EXCEPT ![c] = "settled"]
           sn == [e.seen EXCEPT ![c] = v]
<1>1. st \in [Calls -> {"open", "awaited", "settled", "refused"}] /\ sn \in [Calls -> Nat]
  BY DEF Engine
<1>2. c \in Calls => \A d \in Calls : /\ st[d] = IF d = c THEN "settled" ELSE e.status[d]
                                      /\ sn[d] = IF d = c THEN v ELSE e.seen[d]
  BY DEF Engine
<1>3. Resolved(e, c, v) = [e EXCEPT !.status = st, !.seen = sn]
  BY DEF Resolved, Engine
<1> HIDE DEF st, sn
<1>4. Resolved(e, c, v) \in Engine
  BY <1>1, <1>3 DEF Engine
<1>5. /\ Resolved(e, c, v).issued = e.issued
      /\ Resolved(e, c, v).status = st
      /\ Resolved(e, c, v).seen = sn
  BY <1>3 DEF Engine
<1>6. QED
  BY <1>2, <1>4, <1>5

\* A result, with the jobs it wakes, leaves the engine well typed.
LEMMA ResolveType ==
  ASSUME NEW s \in Script, NEW e \in Engine, NEW r \in Result
  PROVE  Resolve(s, e, r) \in Engine
<1>1. Resolved(e, e.issued[r.id], r.value) \in Engine
  BY ResolvedType DEF Result
<1>2. Resolve(s, e, r) = RunJobs(s, Resolved(e, e.issued[r.id], r.value))
  BY DEF Resolve, Resolved
<1>3. QED
  BY <1>1, <1>2, RunJobsRuns

FeedAll(s, e, rs) == FoldLeft(LAMBDA g, r : Resolve(s, g, r), e, rs)

FeedFold(s, e, rs, g) ==
    [S \in SUBSET (DOMAIN rs) |->
       IF S = {} THEN e ELSE Resolve(s, g[S \ {Max(S)}], rs[Max(S)])]

\* The fold Step stands for has a value.
LEMMA FeedFoldExists ==
  ASSUME NEW s \in Script, NEW e \in Engine, NEW rs \in Seq(Result)
  PROVE  \E g : g = FeedFold(s, e, rs, g)
<1>0. Len(rs) \in Nat /\ DOMAIN rs = 1..Len(rs) /\ \A k \in 1..Len(rs) : rs[k] \in Result
  OBVIOUS
<1> DEFINE n == Len(rs)
           h == [k \in 1..n |-> [f \in Engine |-> Resolve(s, f, rs[k])]]
<1>1. n \in Nat /\ DOMAIN rs = 1..n /\ \A k \in 1..n : rs[k] \in Result
  BY <1>0
<1>2. h \in [1..n -> [Engine -> Engine]]
  BY <1>1, ResolveType
<1>3. \A k \in 1..n : \A f \in Engine : h[k][f] = Resolve(s, f, rs[k])
  OBVIOUS
<1> HIDE DEF n, h
<1>4. PICK g \in [SUBSET (1..n) -> Engine] :
        \A S \in SUBSET (1..n) : g[S] = IF S = {} THEN e ELSE h[Max(S)][g[S \ {Max(S)}]]
  <2> DEFINE V == Engine
  <2>1. e \in V /\ n \in Nat /\ h \in [1..n -> [V -> V]]
    BY <1>1, <1>2
  <2> HIDE DEF V
  <2>2. \E g \in [SUBSET (1..n) -> V] : Iterates(g, n, e, h)
    BY <2>1, FoldExists
  <2>3. QED
    BY <2>2 DEF V, Iterates
<1>5. ASSUME NEW S \in SUBSET (1..n)
      PROVE  g[S] = IF S = {} THEN e ELSE Resolve(s, g[S \ {Max(S)}], rs[Max(S)])
  <2>1. CASE S # {}
    <3>1. S \in SUBSET (0..n)
      OBVIOUS
    <3>2. Max(S) \in S
      BY <1>1, <2>1, <3>1, MaxOf
    <3>3. Max(S) \in 1..n /\ g[S \ {Max(S)}] \in Engine
      BY <1>4, <3>2
    <3>4. QED
      BY <1>3, <1>4, <2>1, <3>3
  <2>2. QED
    BY <1>4, <2>1
<1>6. g = FeedFold(s, e, rs, g)
  BY <1>1, <1>5 DEF FeedFold
<1>7. QED
  BY <1>6

\* Step runs the script, then resolves the results one after another.
LEMMA FeedChain ==
  ASSUME NEW s \in Script, NEW e \in Engine, NEW rs \in Seq(Result), Answerable(e, rs)
  PROVE  \E G : /\ G[0] = RunJobs(s, e)
                /\ \A k \in 1..Len(rs) : G[k] = Resolve(s, G[k - 1], rs[k])
                /\ Step(s, e, rs).engine = G[Len(rs)]
<1> DEFINE n == Len(rs)
           b == RunJobs(s, e)
           it == CHOOSE g : g = FeedFold(s, b, rs, g)
           G == [k \in 0..n |-> it[1..k]]
<1>1. it = FeedFold(s, b, rs, it)
  BY FeedFoldExists, RunJobsRuns
<1>2. FeedAll(s, b, rs) = it[DOMAIN rs]
  BY Zenon DEF FeedAll, FoldLeft, MapThenFoldSet, FeedFold
<1>3. n \in Nat /\ DOMAIN rs = 1..n
  OBVIOUS
<1>4. Step(s, e, rs).engine = FeedAll(s, b, rs)
  BY Zenon DEF Step, FeedAll
<1> HIDE DEF n, it, b
<1>5. \A S \in SUBSET (1..n) : it[S] = IF S = {} THEN b ELSE Resolve(s, it[S \ {Max(S)}], rs[Max(S)])
  BY <1>1, <1>3 DEF FeedFold
<1>6. G[0] = b
  <2>1. 1..0 = {} /\ {} \in SUBSET (1..n) /\ G[0] = it[1..0]
    BY <1>3
  <2>2. QED
    BY <1>5, <2>1
<1>7. ASSUME NEW k \in 1..n
      PROVE  G[k] = Resolve(s, G[k - 1], rs[k])
  <2>1. it[1..k] = Resolve(s, it[1..(k - 1)], rs[k])
    <3>1. /\ 1..k # {} /\ 1..k \in SUBSET (1..n)
          /\ Max(1..k) = k /\ (1..k) \ {k} = 1..(k - 1)
      BY <1>3, Prefix
    <3> DEFINE K == 1..k
    <3> HIDE DEF K
    <3>2. QED
      BY <1>5, <3>1
  <2>2. G[k] = it[1..k] /\ G[k - 1] = it[1..(k - 1)]
    BY <1>3
  <2>3. QED
    BY <2>1, <2>2
<1>8. Step(s, e, rs).engine = G[n]
  BY <1>2, <1>3, <1>4
<1>9. QED
  BY <1>6, <1>7, <1>8 DEF n, b

\* f is what e became when the first k results were fed: these calls settled
\* with these values, what had settled stays, and open calls were granted or
\* refused.
Answered(e, rs, k, f) ==
    /\ Len(e.issued) <= Len(f.issued)
    /\ \A id \in 1..Len(e.issued) : f.issued[id] = e.issued[id]
    /\ \A i \in 1..k : /\ f.status[e.issued[rs[i].id]] = "settled"
                       /\ f.seen[e.issued[rs[i].id]] = rs[i].value
    /\ \A c \in Calls : (\A i \in 1..k : c # e.issued[rs[i].id]) =>
         /\ f.seen[c] = e.seen[c]
         /\ e.status[c] # "open" => f.status[c] = e.status[c]
         /\ f.status[c] = "settled" => e.status[c] = "settled"
    /\ \A id \in (Len(e.issued) + 1)..Len(f.issued) :
         e.status[f.issued[id]] = "open" /\ f.status[f.issued[id]] = "awaited"

\* Resolving an awaited call keeps what a granted call waited for.
LEMMA ResolveRuns ==
  ASSUME NEW s \in Script, NEW e \in Engine, Sane(s, e),
         NEW r \in Result, r.id \in 1..Len(e.issued), e.status[e.issued[r.id]] = "awaited"
  PROVE  /\ Sane(s, Resolve(s, e, r))
         /\ Ran(Resolved(e, e.issued[r.id], r.value), Resolve(s, e, r))
<1> DEFINE c == e.issued[r.id]
           f == Resolved(e, c, r.value)
<1>1. c \in Calls /\ r.value \in Nat /\ s.after \in [Calls -> SUBSET Calls]
      /\ \A id \in 1..Len(e.issued) : e.issued[id] \in Calls
  BY DEF Engine, Result, Script
<1>2. /\ f \in Engine /\ f.issued = e.issued
      /\ \A d \in Calls : f.status[d] = IF d = c THEN "settled" ELSE e.status[d]
  BY <1>1, ResolvedType
<1> HIDE DEF c, f
<1>3. Sane(s, f)
  <2>1. \A d \in Calls : /\ e.status[d] \in {"settled", "refused"} => f.status[d] \in {"settled", "refused"}
                         /\ e.status[d] \in {"awaited", "settled"} => f.status[d] \in {"awaited", "settled"}
                         /\ f.status[d] \in {"awaited", "settled"} => e.status[d] \in {"awaited", "settled"}
    BY <1>2 DEF c
  <2>2. QED
    BY <1>1, <1>2, <2>1 DEF Sane
<1>4. Resolve(s, e, r) = RunJobs(s, f)
  BY DEF Resolve, Resolved, c, f
<1>5. QED
  BY <1>2, <1>3, <1>4, RunJobsRuns DEF c, f

\* A step that is fed answers to what is awaited settles exactly these.
LEMMA StepAnswers ==
  ASSUME NEW s \in Script, NEW e \in Engine, Sane(s, e),
         NEW rs \in Seq(Result), Answerable(e, rs)
  PROVE  LET f == Step(s, e, rs).engine
         IN  f \in Engine /\ Sane(s, f) /\ Answered(e, rs, Len(rs), f)
<1> DEFINE n == Len(rs)
<1>1. PICK G : /\ G[0] = RunJobs(s, e)
               /\ \A k \in 1..n : G[k] = Resolve(s, G[k - 1], rs[k])
               /\ Step(s, e, rs).engine = G[n]
  BY FeedChain
<1>2. n \in Nat /\ \A k \in 1..n : rs[k] \in Result /\ rs[k].id \in Nat /\ rs[k].value \in Nat
  <2>1. n \in Nat /\ \A k \in 1..n : rs[k] \in Result
    OBVIOUS
  <2>2. QED
    BY <2>1 DEF Result
<1>3. \A k \in 1..n : /\ rs[k].id \in 1..Len(e.issued)
                      /\ e.status[e.issued[rs[k].id]] = "awaited"
                      /\ e.issued[rs[k].id] \in Calls
  BY DEF Answerable, Awaiting, Engine
<1>4. \A j, k \in 1..n : e.issued[rs[j].id] = e.issued[rs[k].id] => j = k
  BY <1>3 DEF Answerable, Sane
<1> DEFINE Good(k) == G[k] \in Engine /\ Sane(s, G[k]) /\ Answered(e, rs, k, G[k])
           T == {k \in Nat : k <= n => Good(k)}
<1> HIDE DEF n
<1>5. 0 \in T
  <2>1. G[0] \in Engine /\ Sane(s, G[0]) /\ Ran(e, G[0])
    BY <1>1, RunJobsRuns
  <2>2. Answered(e, rs, 0, G[0])
    BY <2>1 DEF Ran, Answered
  <2>3. QED
    BY <2>1, <2>2
<1>6. ASSUME NEW k \in Nat, k \in T, k + 1 <= n
      PROVE  Good(k + 1)
  <2> DEFINE f == G[k]
             g == G[k + 1]
             r == rs[k + 1]
             c == e.issued[r.id]
             h == Resolved(f, c, r.value)
  <2>1. f \in Engine /\ Sane(s, f) /\ Answered(e, rs, k, f)
    BY <1>2, <1>6
  <2>2. k + 1 \in 1..n /\ (k + 1) - 1 = k /\ \A i \in 1..(k + 1) : i \in 1..n /\ (i \in 1..k \/ i = k + 1)
    BY <1>2, <1>6
  <2>3. g = Resolve(s, f, r) /\ r \in Result /\ r.id \in 1..Len(e.issued) /\ r.value \in Nat
        /\ c \in Calls /\ e.status[c] = "awaited"
    BY <1>1, <1>2, <1>3, <2>2
  <2>4. \A i \in 1..k : i \in 1..n /\ c # e.issued[rs[i].id]
    BY <1>2, <1>4, <2>2
  <2> HIDE DEF f, g, h, r
  <2>5. r.id \in 1..Len(f.issued) /\ f.issued[r.id] = c
    <3>1. Len(e.issued) \in Nat /\ Len(f.issued) \in Nat
      BY <2>1 DEF Engine
    <3>2. Len(e.issued) <= Len(f.issued) /\ \A id \in 1..Len(e.issued) : f.issued[id] = e.issued[id]
      BY <2>1 DEF Answered
    <3>3. QED
      BY <2>3, <3>1, <3>2
  <2> HIDE DEF c
  <2>6. f.status[c] = "awaited"
    BY <2>1, <2>3, <2>4 DEF Answered
  <2>7. g \in Engine /\ Sane(s, g) /\ Ran(h, g)
    BY <2>1, <2>3, <2>5, <2>6, ResolveType, ResolveRuns DEF h
  <2>8. /\ h \in Engine /\ h.issued = f.issued
        /\ \A d \in Calls : /\ h.status[d] = IF d = c THEN "settled" ELSE f.status[d]
                            /\ h.seen[d] = IF d = c THEN r.value ELSE f.seen[d]
    BY <2>1, <2>3, ResolvedType DEF h
  <2>9. Answered(e, rs, k + 1, g)
    <3>1. Len(e.issued) \in Nat /\ Len(f.issued) \in Nat /\ Len(g.issued) \in Nat
          /\ Len(e.issued) <= Len(f.issued) /\ Len(f.issued) <= Len(g.issued)
      BY <2>1, <2>7, <2>8 DEF Engine, Answered, Ran
    <3>2. \A id \in 1..Len(f.issued) : g.issued[id] = f.issued[id] /\ f.issued[id] \in Calls
      BY <2>1, <2>7, <2>8 DEF Engine, Ran
    <3>3. \A id \in 1..Len(e.issued) : id \in 1..Len(f.issued) /\ g.issued[id] = e.issued[id]
      BY <2>1, <3>1, <3>2 DEF Answered
    <3>4. \A i \in 1..(k + 1) : /\ g.status[e.issued[rs[i].id]] = "settled"
                                /\ g.seen[e.issued[rs[i].id]] = rs[i].value
      <4>1. g.seen = h.seen /\ \A d \in Calls : h.status[d] = "settled" => g.status[d] = "settled"
        BY <2>7 DEF Ran
      <4>2. g.status[c] = "settled" /\ g.seen[c] = r.value
        BY <2>3, <2>8, <4>1
      <4>3. ASSUME NEW i \in 1..k
            PROVE  g.status[e.issued[rs[i].id]] = "settled" /\ g.seen[e.issued[rs[i].id]] = rs[i].value
        <5>1. e.issued[rs[i].id] \in Calls /\ e.issued[rs[i].id] # c
          BY <1>3, <2>4
        <5>2. f.status[e.issued[rs[i].id]] = "settled" /\ f.seen[e.issued[rs[i].id]] = rs[i].value
          BY <2>1 DEF Answered
        <5>3. QED
          BY <2>8, <4>1, <5>1, <5>2
      <4>4. QED
        BY <2>2, <4>2, <4>3 DEF c, r
    <3>5. ASSUME NEW d \in Calls, \A i \in 1..(k + 1) : d # e.issued[rs[i].id]
          PROVE  /\ g.seen[d] = e.seen[d]
                 /\ e.status[d] # "open" => g.status[d] = e.status[d]
                 /\ g.status[d] = "settled" => e.status[d] = "settled"
      <4>1. d # c /\ \A i \in 1..k : d # e.issued[rs[i].id]
        BY <2>2, <3>5 DEF c, r
      <4>2. h.status[d] = f.status[d] /\ h.seen[d] = f.seen[d]
        BY <2>8, <4>1
      <4>3. /\ f.seen[d] = e.seen[d]
            /\ e.status[d] # "open" => f.status[d] = e.status[d]
            /\ f.status[d] = "settled" => e.status[d] = "settled"
        BY <2>1, <4>1 DEF Answered
      <4>4. QED
        BY <2>7, <4>2, <4>3 DEF Ran
    <3>6. ASSUME NEW id \in (Len(e.issued) + 1)..Len(g.issued)
          PROVE  e.status[g.issued[id]] = "open" /\ g.status[g.issued[id]] = "awaited"
      <4>1. CASE id \in 1..Len(f.issued)
        <5>1. e.status[f.issued[id]] = "open" /\ f.status[f.issued[id]] = "awaited"
          BY <2>1, <3>1, <4>1 DEF Answered
        <5>2. f.issued[id] # c /\ f.issued[id] \in Calls
          BY <2>3, <3>2, <4>1, <5>1
        <5>3. h.status[f.issued[id]] = "awaited"
          BY <2>8, <5>1, <5>2
        <5>4. QED
          BY <2>7, <3>2, <4>1, <5>1, <5>2, <5>3 DEF Ran
      <4>2. CASE id \in (Len(f.issued) + 1)..Len(g.issued)
        <5>1. h.status[g.issued[id]] = "open" /\ g.status[g.issued[id]] = "awaited" /\ g.issued[id] \in Calls
          BY <2>7, <2>8, <3>1, <4>2 DEF Ran, Engine
        <5>2. f.status[g.issued[id]] = "open"
          BY <2>8, <5>1
        <5>3. g.issued[id] # c /\ \A i \in 1..k : g.issued[id] # e.issued[rs[i].id]
          BY <2>1, <2>6, <5>2 DEF Answered
        <5>4. e.status[g.issued[id]] = "open"
          BY <2>1, <5>1, <5>2, <5>3 DEF Answered
        <5>5. QED
          BY <5>1, <5>4
      <4>3. QED
        BY <3>1, <4>1, <4>2
    <3>7. QED
      BY <3>1, <3>3, <3>4, <3>5, <3>6 DEF Answered
  <2>10. QED
    BY <2>7, <2>9 DEF g
<1>7. \A k \in Nat : k \in T => k + 1 \in T
  BY <1>6
<1> HIDE DEF T
<1>8. n \in T
  BY <1>2, <1>5, <1>7, Induct
<1>9. QED
  BY <1>1, <1>2, <1>8 DEF T, n

-----------------------------------------------------------------------------
(* The log                                                                 *)

Asked == [call : Calls, given : UNION {[D -> Nat] : D \in SUBSET Calls}]

Event ==
    {Started, Resumed}
      \cup [type : {"spawned"}, id : Nat, request : Asked, run : Nat]
      \cup [type : {"completed", "failed"}, id : Nat]
      \cup [type : {"ended"}, outcome : Outcomes]

\* Where a step was last announced, and its outcomes since.
LastSpawn(log, id) == Max(SpawnsOf(log, id))
Since(log, id) == {i \in (LastSpawn(log, id) + 1)..Len(log) : IsOutcome(log[i]) /\ log[i].id = id}

\* An event is one of the six kinds, and its kind says what it holds.
LEMMA EventFields ==
  ASSUME NEW e \in Event
  PROVE  /\ e.type = "spawned" => /\ e = Spawned(e.id, e.request, e.run)
                                  /\ e.id \in Nat /\ e.request \in Asked /\ e.run \in Nat
         /\ IsOutcome(e) => e.id \in Nat
         /\ e.type = "ended" => e.outcome \in Outcomes /\ e = Ended(e.outcome)
         /\ e.type \in {"started", "resumed", "spawned", "completed", "failed", "ended"}
<1>1. CASE e \in {Started, Resumed}
  BY <1>1 DEF Started, Resumed, IsOutcome
<1>2. CASE e \in [type : {"spawned"}, id : Nat, request : Asked, run : Nat]
  BY <1>2 DEF Spawned, IsOutcome
<1>3. CASE e \in [type : {"completed", "failed"}, id : Nat]
  BY <1>3 DEF IsOutcome
<1>4. CASE e \in [type : {"ended"}, outcome : Outcomes]
  BY <1>4 DEF IsOutcome, Ended
<1>5. QED
  BY <1>1, <1>2, <1>3, <1>4 DEF Event

\* The events the loop writes.
LEMMA EventsAre ==
  /\ Started \in Event /\ Started.type = "started"
  /\ Resumed \in Event /\ Resumed.type = "resumed"
  /\ \A id \in Nat, q \in Asked, n \in Nat :
       /\ Spawned(id, q, n) \in Event /\ Spawned(id, q, n).type = "spawned"
       /\ Spawned(id, q, n).id = id /\ Spawned(id, q, n).request = q /\ Spawned(id, q, n).run = n
  /\ \A id \in Nat, ok \in BOOLEAN :
       /\ Settled(id, ok) \in Event /\ IsOutcome(Settled(id, ok)) /\ Settled(id, ok).id = id
       /\ Settled(id, ok).type = "completed" <=> ok
       /\ Settled(id, ok).type \notin {"spawned", "ended"}
  /\ \A o \in Outcomes : Ended(o) \in Event /\ Ended(o).type = "ended" /\ Ended(o).outcome = o
<1>1. Started \in Event /\ Started.type = "started" /\ Resumed \in Event /\ Resumed.type = "resumed"
  BY DEF Event, Started, Resumed
<1>2. ASSUME NEW id \in Nat, NEW q \in Asked, NEW n \in Nat
      PROVE  /\ Spawned(id, q, n) \in Event /\ Spawned(id, q, n).type = "spawned"
             /\ Spawned(id, q, n).id = id /\ Spawned(id, q, n).request = q /\ Spawned(id, q, n).run = n
  BY DEF Event, Spawned
<1>3. ASSUME NEW id \in Nat, NEW ok \in BOOLEAN
      PROVE  /\ Settled(id, ok) \in Event /\ IsOutcome(Settled(id, ok)) /\ Settled(id, ok).id = id
             /\ Settled(id, ok).type = "completed" <=> ok
             /\ Settled(id, ok).type \notin {"spawned", "ended"}
  BY DEF Event, Settled, IsOutcome
<1>4. ASSUME NEW o \in Outcomes
      PROVE  Ended(o) \in Event /\ Ended(o).type = "ended" /\ Ended(o).outcome = o
  BY DEF Event, Ended
<1>5. QED
  BY <1>1, <1>2, <1>3, <1>4

\* A list after one more entry.
LEMMA Appended ==
  ASSUME NEW S, NEW log \in Seq(S), NEW e \in S
  PROVE  /\ Append(log, e) \in Seq(S) /\ Len(log) \in Nat
         /\ Len(Append(log, e)) = Len(log) + 1
         /\ \A i \in 1..Len(log) : Append(log, e)[i] = log[i] /\ log[i] \in S
         /\ Append(log, e)[Len(log) + 1] = e
         /\ \A i \in 1..(Len(log) + 1) : i \in 1..Len(log) \/ i = Len(log) + 1
         /\ \A i \in 1..Len(log) : i \in 1..(Len(log) + 1) /\ i # Len(log) + 1
         /\ Len(log) + 1 \in 1..(Len(log) + 1)
  OBVIOUS

\* Only an announcement adds to what a log announces.
LEMMA AnnouncedAppended ==
  ASSUME NEW log \in Seq(Event), NEW e \in Event
  PROVE  /\ e.type = "spawned" => Announced(Append(log, e)) = Announced(log) \cup {e.id}
         /\ e.type # "spawned" => Announced(Append(log, e)) = Announced(log)
<1> DEFINE new == Append(log, e)
           n == Len(log)
<1>1. /\ Len(new) = n + 1 /\ new[n + 1] = e /\ \A i \in 1..n : new[i] = log[i]
      /\ \A i \in 1..(n + 1) : i \in 1..n \/ i = n + 1
      /\ \A i \in 1..n : i \in 1..(n + 1)
      /\ n + 1 \in 1..(n + 1)
  BY Appended
<1> HIDE DEF new, n
<1>2. ASSUME NEW id
      PROVE  id \in Announced(new) <=> id \in Announced(log) \/ (e.type = "spawned" /\ e.id = id)
  <2>1. id \in Announced(new) <=> \E i \in 1..(n + 1) : new[i].type = "spawned" /\ new[i].id = id
    BY <1>1 DEF Announced
  <2>2. id \in Announced(log) <=> \E i \in 1..n : log[i].type = "spawned" /\ log[i].id = id
    BY DEF Announced, n
  <2>3. QED
    BY <1>1, <2>1, <2>2
<1>3. QED
  BY <1>2 DEF new

\* The last announcement of an announced step is in the log.
LEMMA LastSpawnIs ==
  ASSUME NEW log \in Seq(Event), NEW id \in Announced(log)
  PROVE  /\ LastSpawn(log, id) \in 1..Len(log)
         /\ log[LastSpawn(log, id)].type = "spawned" /\ log[LastSpawn(log, id)].id = id
         /\ \A i \in 1..Len(log) : log[i].type = "spawned" /\ log[i].id = id => i <= LastSpawn(log, id)
<1>1. PICK i \in 1..Len(log) : log[i].type = "spawned" /\ log[i].id = id
  BY DEF Announced
<1>2. SpawnsOf(log, id) # {}
  BY <1>1 DEF SpawnsOf
<1>3. SpawnsOf(log, id) \in SUBSET (0..Len(log)) /\ Len(log) \in Nat
  BY DEF SpawnsOf
<1>4. /\ LastSpawn(log, id) \in SpawnsOf(log, id)
      /\ \A j \in SpawnsOf(log, id) : j <= LastSpawn(log, id)
  BY <1>2, <1>3, MaxOf DEF LastSpawn
<1>5. QED
  BY <1>4 DEF SpawnsOf

\* The entry of an announced step.
LEMMA LoadIs ==
  ASSUME NEW log, NEW id \in Announced(log)
  PROVE  Load(log)[id] = Entry(log, LastSpawn(log, id), Since(log, id))
  BY DEF Load, LastSpawn, Since

\* The index has an entry for every announced step, and no other.
LEMMA LoadDomain ==
  ASSUME NEW log
  PROVE  DOMAIN Load(log) = Announced(log)
  BY DEF Load

\* What an entry says: no outcome since, or the last of them.
LEMMA EntryIs ==
  ASSUME NEW log \in Seq(Event), NEW id \in Announced(log)
  PROVE  /\ Load(log)[id].request = log[LastSpawn(log, id)].request
         /\ Load(log)[id].run = log[LastSpawn(log, id)].run
         /\ Load(log)[id].at = 0 <=> Since(log, id) = {}
         /\ Load(log)[id].at \in 0..Len(log)
         /\ Load(log)[id].at # 0 => Load(log)[id].at \in Since(log, id)
         /\ Load(log)[id].ok \in BOOLEAN
         /\ Load(log)[id].at = 0 => ~Load(log)[id].ok
         /\ Load(log)[id] = [request |-> Load(log)[id].request, run |-> Load(log)[id].run,
                             at |-> Load(log)[id].at, ok |-> Load(log)[id].ok]
<1>1. LastSpawn(log, id) \in 1..Len(log) /\ Len(log) \in Nat
  BY LastSpawnIs
<1>2. Since(log, id) \in SUBSET (0..Len(log)) /\ 0 \notin Since(log, id)
  BY <1>1 DEF Since
<1>3. Since(log, id) # {} => Max(Since(log, id)) \in Since(log, id)
  BY <1>1, <1>2, MaxOf
<1> DEFINE e == Load(log)[id]
           settles == Since(log, id)
<1>4. /\ e.request = log[LastSpawn(log, id)].request
      /\ e.run = log[LastSpawn(log, id)].run
      /\ e.at = IF settles = {} THEN 0 ELSE Max(settles)
      /\ e.ok = (settles # {} /\ log[Max(settles)].type = "completed")
      /\ e = [request |-> e.request, run |-> e.run, at |-> e.at, ok |-> e.ok]
  <2>1. e = Entry(log, LastSpawn(log, id), settles)
    BY LoadIs
  <2> HIDE DEF e, settles
  <2>2. QED
    BY <2>1 DEF Entry
<1> HIDE DEF e
<1>5. settles # {} => Max(settles) \in settles /\ Max(settles) \in 1..Len(log)
  BY <1>1, <1>2, <1>3
<1> HIDE DEF settles
<1>6. /\ e.at = 0 <=> settles = {}
      /\ e.at \in 0..Len(log)
      /\ e.at # 0 => e.at \in settles
      /\ e.ok \in BOOLEAN
      /\ e.at = 0 => ~e.ok
  <2>1. CASE settles = {}
    <3>1. e.at = 0 /\ e.ok = FALSE
      BY <1>4, <2>1
    <3>2. 0 \in 0..Len(log)
      BY <1>1
    <3>3. QED
      BY Zenon, <2>1, <3>1, <3>2
  <2>2. CASE settles # {}
    <3>1. e.at = Max(settles) /\ e.ok = (log[Max(settles)].type = "completed")
      BY <1>4, <2>2
    <3>2. e.at \in settles /\ e.at \in 1..Len(log)
      BY <1>5, <2>2, <3>1
    <3>3. QED
      BY <1>1, <2>2, <3>1, <3>2
  <2>3. QED
    BY <2>1, <2>2
<1>7. QED
  BY <1>4, <1>6 DEF e, settles

\* Appending an event leaves what the log says of the steps it does not name.
LEMMA EntryKept ==
  ASSUME NEW log \in Seq(Event), NEW e \in Event, NEW id \in Announced(log),
         e.type = "spawned" \/ IsOutcome(e) => e.id # id
  PROVE  /\ id \in Announced(Append(log, e))
         /\ Load(Append(log, e))[id] = Load(log)[id]
         /\ LastSpawn(Append(log, e), id) = LastSpawn(log, id)
         /\ Since(Append(log, e), id) = Since(log, id)
<1> DEFINE new == Append(log, e)
           n == Len(log)
<1>1. /\ Len(new) = n + 1 /\ new[n + 1] = e /\ \A i \in 1..n : new[i] = log[i]
      /\ \A i \in 1..(n + 1) : i \in 1..n \/ i = n + 1
      /\ \A i \in 1..n : i \in 1..(n + 1) /\ i # n + 1
      /\ n \in Nat
  BY Appended
<1>2. id \in Announced(new)
  BY AnnouncedAppended
<1> HIDE DEF new, n
<1>3. SpawnsOf(new, id) = SpawnsOf(log, id)
  BY <1>1 DEF SpawnsOf, n
<1>4. LastSpawn(new, id) = LastSpawn(log, id) /\ LastSpawn(log, id) \in 1..n
  BY <1>3, LastSpawnIs DEF LastSpawn, n
<1>5. Since(new, id) = Since(log, id)
  <2>1. \A i \in (LastSpawn(log, id) + 1)..(n + 1) : i \in (LastSpawn(log, id) + 1)..n \/ i = n + 1
    BY <1>1, <1>4
  <2>2. \A i \in (LastSpawn(log, id) + 1)..n : i \in 1..n /\ i \in (LastSpawn(log, id) + 1)..(n + 1)
    BY <1>1, <1>4
  <2>3. ASSUME NEW i
        PROVE  i \in Since(new, id) <=> i \in Since(log, id)
    BY <1>1, <1>4, <2>1, <2>2 DEF Since, n
  <2>4. QED
    BY <2>3
<1>6. \A i \in Since(log, id) : i \in 1..n
  BY <1>1, <1>4 DEF Since, n
<1>7. Since(log, id) # {} => Max(Since(log, id)) \in 1..n
  <2>1. Since(log, id) \in SUBSET (0..n)
    BY <1>1, <1>6
  <2>2. QED
    BY <1>1, <1>6, <2>1, MaxOf
<1>8. Entry(new, LastSpawn(log, id), Since(log, id)) = Entry(log, LastSpawn(log, id), Since(log, id))
  BY <1>1, <1>4, <1>7 DEF Entry
<1>9. QED
  BY <1>2, <1>4, <1>5, <1>8, LoadIs DEF new

\* An announcement opens a new entry of its step.
LEMMA EntryOpened ==
  ASSUME NEW log \in Seq(Event), NEW id \in Nat, NEW q \in Asked, NEW run \in Nat
  PROVE  LET new == Append(log, Spawned(id, q, run))
         IN  /\ id \in Announced(new)
             /\ LastSpawn(new, id) = Len(log) + 1
             /\ Since(new, id) = {}
             /\ Load(new)[id] = [request |-> q, run |-> run, at |-> 0, ok |-> FALSE]
<1> DEFINE e == Spawned(id, q, run)
           new == Append(log, e)
           n == Len(log)
<1>1. e \in Event /\ e.type = "spawned" /\ e.id = id /\ e.request = q /\ e.run = run
  BY EventsAre
<1> HIDE DEF e
<1>2. /\ Len(new) = n + 1 /\ new[n + 1] = e /\ n \in Nat /\ new \in Seq(Event)
      /\ n + 1 \in 1..(n + 1) /\ id \in Announced(new)
  BY <1>1, Appended, AnnouncedAppended
<1> HIDE DEF new, n
<1>3. LastSpawn(new, id) = n + 1
  BY <1>1, <1>2, LastSpawnIs
<1>4. Since(new, id) = {}
  BY <1>2, <1>3 DEF Since
<1>5. Load(new)[id] = Entry(new, n + 1, {})
  BY <1>2, <1>3, <1>4, LoadIs
<1>6. QED
  BY <1>1, <1>2, <1>3, <1>4, <1>5 DEF Entry, new, e, n

\* The outcome of an announced step is the last of its entry.
LEMMA EntrySettled ==
  ASSUME NEW log \in Seq(Event), NEW id \in Announced(log), NEW ok \in BOOLEAN, id \in Nat
  PROVE  LET new == Append(log, Settled(id, ok))
         IN  /\ id \in Announced(new)
             /\ LastSpawn(new, id) = LastSpawn(log, id)
             /\ Since(new, id) = Since(log, id) \cup {Len(log) + 1}
             /\ Load(new)[id] = [request |-> Load(log)[id].request, run |-> Load(log)[id].run,
                                 at |-> Len(log) + 1, ok |-> ok]
<1> DEFINE e == Settled(id, ok)
           new == Append(log, e)
           n == Len(log)
<1>1. e \in Event /\ IsOutcome(e) /\ e.id = id /\ e.type # "spawned" /\ (e.type = "completed" <=> ok)
  BY EventsAre
<1> HIDE DEF e
<1>2. /\ Len(new) = n + 1 /\ new[n + 1] = e /\ n \in Nat /\ new \in Seq(Event)
      /\ \A i \in 1..n : new[i] = log[i] /\ i # n + 1 /\ i \in 1..(n + 1)
      /\ \A i \in 1..(n + 1) : i \in 1..n \/ i = n + 1
      /\ n + 1 \in 1..(n + 1) /\ id \in Announced(new)
  BY <1>1, Appended, AnnouncedAppended
<1> HIDE DEF new, n
<1>3. SpawnsOf(new, id) = SpawnsOf(log, id)
  BY <1>1, <1>2 DEF SpawnsOf, n
<1>4. LastSpawn(new, id) = LastSpawn(log, id) /\ LastSpawn(log, id) \in 1..n
  BY <1>3, LastSpawnIs DEF LastSpawn, n
<1>5. Since(new, id) = Since(log, id) \cup {n + 1}
  <2>1. \A i : i \in (LastSpawn(log, id) + 1)..(n + 1) <=> i \in (LastSpawn(log, id) + 1)..n \/ i = n + 1
    BY <1>2, <1>4
  <2>2. \A i \in (LastSpawn(log, id) + 1)..n : i \in 1..n
    BY <1>2, <1>4
  <2>3. ASSUME NEW i
        PROVE  i \in Since(new, id) <=> i \in Since(log, id) \/ i = n + 1
    BY <1>1, <1>2, <1>4, <2>1, <2>2 DEF Since, n
  <2>4. QED
    BY <2>3
<1>6. Max(Since(new, id)) = n + 1
  <2>1. \A i \in Since(new, id) : i \in 1..(n + 1)
    BY <1>2, <1>4, <1>5 DEF Since, n
  <2>2. Since(new, id) \in SUBSET (0..(n + 1)) /\ Since(new, id) # {}
    BY <1>2, <1>5, <2>1
  <2> DEFINE S == Since(new, id)
  <2>3. n + 1 \in S /\ \A i \in S : i \in 1..(n + 1)
    BY <1>5, <2>1
  <2> HIDE DEF S
  <2>4. S \in SUBSET (0..(n + 1)) /\ S # {} /\ n + 1 \in Nat
    BY <1>2, <2>3
  <2>5. Max(S) \in S /\ n + 1 <= Max(S)
    BY <2>3, <2>4, MaxOf
  <2>6. Max(S) = n + 1
    BY <1>2, <2>3, <2>5
  <2>7. QED
    BY <2>6 DEF S
<1>7. Load(new)[id] = Entry(new, LastSpawn(log, id), Since(new, id))
  BY <1>2, <1>4, LoadIs
<1>8. new[LastSpawn(log, id)] = log[LastSpawn(log, id)] /\ Since(new, id) # {}
  BY <1>2, <1>4, <1>5
<1>9. Load(new)[id] = [request |-> log[LastSpawn(log, id)].request, run |-> log[LastSpawn(log, id)].run,
                       at |-> n + 1, ok |-> ok]
  BY <1>1, <1>2, <1>6, <1>7, <1>8 DEF Entry
<1>10. QED
  BY <1>2, <1>4, <1>5, <1>9, EntryIs DEF new, e, n

\* An event that is neither an announcement nor an outcome leaves the index.
LEMMA IndexKept ==
  ASSUME NEW log \in Seq(Event), NEW e \in Event, e.type # "spawned", ~IsOutcome(e)
  PROVE  /\ Append(log, e) \in Seq(Event)
         /\ Announced(Append(log, e)) = Announced(log)
         /\ Load(Append(log, e)) = Load(log)
         /\ \A id \in Announced(log) : Since(Append(log, e), id) = Since(log, id)
<1> DEFINE new == Append(log, e)
<1>1. new \in Seq(Event) /\ Announced(new) = Announced(log)
  BY AnnouncedAppended
<1>2. \A id \in Announced(log) : Load(new)[id] = Load(log)[id] /\ Since(new, id) = Since(log, id)
  BY EntryKept
<1> HIDE DEF new
<1>3. Load(new) = [id \in Announced(new) |-> Load(new)[id]] /\ Load(log) = [id \in Announced(log) |-> Load(log)[id]]
  BY Zenon DEF Load
<1>4. [id \in Announced(new) |-> Load(new)[id]] = [id \in Announced(log) |-> Load(log)[id]]
  BY <1>1, <1>2
<1>5. QED
  BY <1>1, <1>2, <1>3, <1>4 DEF new

-----------------------------------------------------------------------------
(* Children on their way                                                   *)

Members(s) == {s[i] : i \in 1..Len(s)}
Ids(s) == {s[i].id : i \in 1..Len(s)}

Once(s) == \A i, j \in 1..Len(s) : s[i] = s[j] => i = j
OnceEach(s) == \A i, j \in 1..Len(s) : s[i].id = s[j].id => i = j
AnnouncedOnce(log) ==
    \A i, j \in 1..Len(log) :
      log[i].type = "spawned" /\ log[j].type = "spawned" /\ log[i].id = log[j].id => i = j

\* Nothing is in an empty list.
LEMMA Empties ==
  /\ Members(<<>>) = {} /\ Ids(<<>>) = {} /\ Announced(<<>>) = {}
  /\ Once(<<>>) /\ OnceEach(<<>>) /\ AnnouncedOnce(<<>>)
  BY DEF Members, Ids, Announced, Once, OnceEach, AnnouncedOnce

\* What one more entry adds to a list without repeats.
LEMMA MembersAppended ==
  ASSUME NEW S, NEW s \in Seq(S), NEW x \in S
  PROVE  /\ Members(Append(s, x)) = Members(s) \cup {x}
         /\ Once(s) /\ x \notin Members(s) => Once(Append(s, x))
<1>1. /\ Len(Append(s, x)) = Len(s) + 1
      /\ \A i \in 1..Len(s) : Append(s, x)[i] = s[i]
      /\ Append(s, x)[Len(s) + 1] = x
      /\ \A i \in 1..(Len(s) + 1) : i \in 1..Len(s) \/ i = Len(s) + 1
      /\ \A i \in 1..Len(s) : i \in 1..(Len(s) + 1) /\ i # Len(s) + 1
      /\ Len(s) + 1 \in 1..(Len(s) + 1)
  BY Appended
<1> DEFINE t == Append(s, x)
           m == Len(s) + 1
<1> HIDE DEF t, m
<1>2. \A y : y \in Members(t) <=> y \in Members(s) \/ y = x
  <2>1. \A y : y \in Members(t) <=> \E i \in 1..m : t[i] = y
    BY <1>1 DEF Members, t, m
  <2>2. \A y : y \in Members(s) <=> \E i \in 1..Len(s) : s[i] = y
    BY DEF Members
  <2>3. QED
    BY <1>1, <2>1, <2>2 DEF t, m
<1>3. Once(s) /\ x \notin Members(s) => Once(t)
  BY <1>1 DEF Once, Members, t, m
<1>4. QED
  BY <1>2, <1>3 DEF t

\* What one more report adds to reports on different children.
LEMMA IdsAppended ==
  ASSUME NEW S, NEW s \in Seq(S), NEW x \in S
  PROVE  /\ Ids(Append(s, x)) = Ids(s) \cup {x.id}
         /\ OnceEach(s) /\ x.id \notin Ids(s) => OnceEach(Append(s, x))
<1>1. /\ Len(Append(s, x)) = Len(s) + 1
      /\ \A i \in 1..Len(s) : Append(s, x)[i] = s[i]
      /\ Append(s, x)[Len(s) + 1] = x
      /\ \A i \in 1..(Len(s) + 1) : i \in 1..Len(s) \/ i = Len(s) + 1
      /\ \A i \in 1..Len(s) : i \in 1..(Len(s) + 1) /\ i # Len(s) + 1
      /\ Len(s) + 1 \in 1..(Len(s) + 1)
  BY Appended
<1> DEFINE t == Append(s, x)
           m == Len(s) + 1
<1> HIDE DEF t, m
<1>2. \A y : y \in Ids(t) <=> y \in Ids(s) \/ y = x.id
  <2>1. \A y : y \in Ids(t) <=> \E i \in 1..m : t[i].id = y
    BY <1>1 DEF Ids, t, m
  <2>2. \A y : y \in Ids(s) <=> \E i \in 1..Len(s) : s[i].id = y
    BY DEF Ids
  <2>3. QED
    BY <1>1, <2>1, <2>2 DEF t, m
<1>3. OnceEach(s) /\ x.id \notin Ids(s) => OnceEach(t)
  BY <1>1 DEF OnceEach, Ids, t, m
<1>4. QED
  BY <1>2, <1>3 DEF t

\* The rest of a sequence, by position.
LEMMA Tailed ==
  ASSUME NEW S, NEW s \in Seq(S), s # <<>>
  PROVE  /\ Tail(s) \in Seq(S) /\ Len(s) \in Nat \ {0} /\ Len(Tail(s)) = Len(s) - 1
         /\ Head(s) = s[1] /\ Head(s) \in S
         /\ \A i \in 1..Len(Tail(s)) : Tail(s)[i] = s[i + 1] /\ i + 1 \in 1..Len(s) /\ i + 1 # 1
         /\ \A i \in 1..Len(s) : i = 1 \/ (i - 1 \in 1..Len(Tail(s)) /\ Tail(s)[i - 1] = s[i])
         /\ 1 \in 1..Len(s)
         /\ Len(s) = 1 => Tail(s) = <<>>
         /\ Len(s) # 1 => Tail(s) # <<>>
<1>1. Tail(s) \in Seq(S) /\ Len(s) \in Nat \ {0} /\ Len(Tail(s)) = Len(s) - 1
  OBVIOUS
<1>2. Head(s) = s[1] /\ 1 \in 1..Len(s) /\ Head(s) \in S
  OBVIOUS
<1>3. \A i \in 1..Len(Tail(s)) : Tail(s)[i] = s[i + 1] /\ i + 1 \in 1..Len(s) /\ i + 1 # 1
  OBVIOUS
<1>4. \A i \in 1..Len(s) : i = 1 \/ (i - 1 \in 1..Len(Tail(s)) /\ Tail(s)[i - 1] = s[i])
  <2>1. \A i \in 1..Len(s) : i # 1 => i - 1 \in 1..Len(Tail(s)) /\ (i - 1) + 1 = i
    BY <1>1
  <2>2. QED
    BY <1>3, <2>1
<1>5. (Len(s) = 1 => Tail(s) = <<>>) /\ (Len(s) # 1 => Tail(s) # <<>>)
  <2> DEFINE t == Tail(s)
  <2>1. Len(t) = 0 <=> t = <<>>
    <3>1. t \in Seq(S)
      BY <1>1
    <3> HIDE DEF t
    <3>2. QED
      BY <3>1
  <2>2. QED
    BY <1>1, <2>1
<1>6. QED
  BY <1>1, <1>2, <1>3, <1>4, <1>5

\* What is left of a list without its first entry.
LEMMA MembersTail ==
  ASSUME NEW S, NEW s \in Seq(S), s # <<>>
  PROVE  /\ Members(s) = Members(Tail(s)) \cup {Head(s)}
         /\ Once(s) => Once(Tail(s)) /\ Head(s) \notin Members(Tail(s))
<1> DEFINE t == Tail(s)
<1>1. /\ \A i \in 1..Len(t) : t[i] = s[i + 1] /\ i + 1 \in 1..Len(s) /\ i + 1 # 1 /\ i \in Nat
      /\ \A i \in 1..Len(s) : i = 1 \/ (i - 1 \in 1..Len(t) /\ t[i - 1] = s[i])
      /\ 1 \in 1..Len(s) /\ Head(s) = s[1]
  BY Tailed
<1> HIDE DEF t
<1>2. \A y : y \in Members(s) <=> y \in Members(t) \/ y = Head(s)
  <2>1. \A y : y \in Members(t) <=> \E i \in 1..Len(t) : t[i] = y
    BY DEF Members
  <2>2. \A y : y \in Members(s) <=> \E i \in 1..Len(s) : s[i] = y
    BY DEF Members
  <2>3. QED
    BY <1>1, <2>1, <2>2
<1>3. Once(s) => Once(t) /\ Head(s) \notin Members(t)
  <2> SUFFICES ASSUME Once(s)
               PROVE  Once(t) /\ Head(s) \notin Members(t)
    OBVIOUS
  <2>1. ASSUME NEW i \in 1..Len(t), NEW j \in 1..Len(t), t[i] = t[j]
        PROVE  i = j
    <3>1. i + 1 = j + 1
      BY <1>1, <2>1 DEF Once
    <3>2. QED
      BY <1>1, <3>1
  <2>2. \A i \in 1..Len(t) : t[i] # s[1]
    BY <1>1 DEF Once
  <2>3. QED
    BY <1>1, <2>1, <2>2 DEF Once, Members
<1>4. QED
  BY <1>2, <1>3 DEF t

\* What is left of the reports without the first.
LEMMA IdsTail ==
  ASSUME NEW S, NEW s \in Seq(S), s # <<>>
  PROVE  /\ Ids(s) = Ids(Tail(s)) \cup {Head(s).id}
         /\ OnceEach(s) => OnceEach(Tail(s)) /\ Head(s).id \notin Ids(Tail(s))
<1> DEFINE t == Tail(s)
<1>1. /\ \A i \in 1..Len(t) : t[i] = s[i + 1] /\ i + 1 \in 1..Len(s) /\ i + 1 # 1 /\ i \in Nat
      /\ \A i \in 1..Len(s) : i = 1 \/ (i - 1 \in 1..Len(t) /\ t[i - 1] = s[i])
      /\ 1 \in 1..Len(s) /\ Head(s) = s[1]
  BY Tailed
<1> HIDE DEF t
<1>2. \A y : y \in Ids(s) <=> y \in Ids(t) \/ y = Head(s).id
  <2>1. \A y : y \in Ids(t) <=> \E i \in 1..Len(t) : t[i].id = y
    BY DEF Ids
  <2>2. \A y : y \in Ids(s) <=> \E i \in 1..Len(s) : s[i].id = y
    BY DEF Ids
  <2>3. QED
    BY <1>1, <2>1, <2>2
<1>3. OnceEach(s) => OnceEach(t) /\ Head(s).id \notin Ids(t)
  <2> SUFFICES ASSUME OnceEach(s)
               PROVE  OnceEach(t) /\ Head(s).id \notin Ids(t)
    OBVIOUS
  <2>1. ASSUME NEW i \in 1..Len(t), NEW j \in 1..Len(t), t[i].id = t[j].id
        PROVE  i = j
    <3>1. i + 1 = j + 1
      <4>1. i + 1 \in 1..Len(s) /\ j + 1 \in 1..Len(s) /\ s[i + 1].id = s[j + 1].id
        BY <1>1, <2>1
      <4>2. QED
        BY <4>1 DEF OnceEach
    <3>2. QED
      BY <1>1, <3>1
  <2>2. \A i \in 1..Len(t) : t[i].id # s[1].id
    BY <1>1 DEF OnceEach
  <2>3. QED
    BY <1>1, <2>1, <2>2 DEF OnceEach, Ids
<1>4. QED
  BY <1>2, <1>3 DEF t

\* What is left to announce after the first event.
LEMMA AnnouncedTail ==
  ASSUME NEW s \in Seq(Event), s # <<>>
  PROVE  /\ Head(s).type = "spawned" => Announced(s) = Announced(Tail(s)) \cup {Head(s).id}
         /\ Head(s).type # "spawned" => Announced(s) = Announced(Tail(s))
         /\ AnnouncedOnce(s) => /\ AnnouncedOnce(Tail(s))
                                /\ Head(s).type = "spawned" => Head(s).id \notin Announced(Tail(s))
<1> DEFINE t == Tail(s)
<1>1. /\ \A i \in 1..Len(t) : t[i] = s[i + 1] /\ i + 1 \in 1..Len(s) /\ i + 1 # 1 /\ i \in Nat
      /\ \A i \in 1..Len(s) : i = 1 \/ (i - 1 \in 1..Len(t) /\ t[i - 1] = s[i])
      /\ 1 \in 1..Len(s) /\ Head(s) = s[1]
  BY Tailed
<1> HIDE DEF t
<1>2. \A y : y \in Announced(t) <=> \E i \in 1..Len(t) : t[i].type = "spawned" /\ t[i].id = y
  BY DEF Announced
<1>3. \A y : y \in Announced(s) <=> \E i \in 1..Len(s) : s[i].type = "spawned" /\ s[i].id = y
  BY DEF Announced
<1>4. \A y : y \in Announced(s) <=> y \in Announced(t) \/ (Head(s).type = "spawned" /\ y = Head(s).id)
  <2>1. ASSUME NEW y, y \in Announced(s)
        PROVE  y \in Announced(t) \/ (Head(s).type = "spawned" /\ y = Head(s).id)
    <3>1. PICK i \in 1..Len(s) : s[i].type = "spawned" /\ s[i].id = y
      BY <1>3, <2>1
    <3>2. CASE i = 1
      BY <1>1, <3>1, <3>2
    <3>3. CASE i - 1 \in 1..Len(t) /\ t[i - 1] = s[i]
      BY <1>2, <3>1, <3>3
    <3>4. QED
      BY <1>1, <3>2, <3>3
  <2>2. ASSUME NEW y, y \in Announced(t)
        PROVE  y \in Announced(s)
    <3>1. PICK i \in 1..Len(t) : t[i].type = "spawned" /\ t[i].id = y
      BY <1>2, <2>2
    <3>2. QED
      BY <1>1, <1>3, <3>1
  <2>3. ASSUME Head(s).type = "spawned"
        PROVE  Head(s).id \in Announced(s)
    BY <1>1, <1>3, <2>3
  <2>4. QED
    BY <2>1, <2>2, <2>3
<1>5. AnnouncedOnce(s) => /\ AnnouncedOnce(t)
                          /\ Head(s).type = "spawned" => Head(s).id \notin Announced(t)
  <2> SUFFICES ASSUME AnnouncedOnce(s)
               PROVE  /\ AnnouncedOnce(t)
                      /\ Head(s).type = "spawned" => Head(s).id \notin Announced(t)
    OBVIOUS
  <2>1. ASSUME NEW i \in 1..Len(t), NEW j \in 1..Len(t),
               t[i].type = "spawned", t[j].type = "spawned", t[i].id = t[j].id
        PROVE  i = j
    <3>1. i + 1 = j + 1
      BY <1>1, <2>1 DEF AnnouncedOnce
    <3>2. QED
      BY <1>1, <3>1
  <2>2. \A i \in 1..Len(t) : s[1].type = "spawned" /\ t[i].type = "spawned" => t[i].id # s[1].id
    BY <1>1 DEF AnnouncedOnce
  <2>3. QED
    BY <1>1, <1>2, <2>1, <2>2 DEF AnnouncedOnce
<1>6. QED
  BY <1>4, <1>5 DEF t

\* Two lists one after the other.
LEMMA Concatenated ==
  ASSUME NEW S, NEW s \in Seq(S), NEW t \in Seq(S)
  PROVE  /\ s \o t \in Seq(S) /\ Len(s \o t) = Len(s) + Len(t)
         /\ Members(s \o t) = Members(s) \cup Members(t)
         /\ Once(s) /\ Once(t) /\ Members(s) \cap Members(t) = {} => Once(s \o t)
<1> DEFINE u == s \o t
           m == Len(s)
           n == Len(t)
<1>1. /\ u \in Seq(S) /\ Len(u) = m + n /\ m \in Nat /\ n \in Nat
      /\ \A i \in 1..m : u[i] = s[i]
      /\ \A i \in 1..n : u[m + i] = t[i]
  OBVIOUS
<1> HIDE DEF u
<1>2. /\ \A i \in 1..(m + n) : i \in 1..m \/ (i - m \in 1..n /\ m + (i - m) = i)
      /\ \A i \in 1..m : i \in 1..(m + n)
      /\ \A i \in 1..n : m + i \in 1..(m + n)
  BY <1>1
<1> HIDE DEF m, n
<1>3. \A i \in 1..(m + n) : (i \in 1..m /\ u[i] = s[i]) \/ (i - m \in 1..n /\ u[i] = t[i - m])
  BY <1>1, <1>2
<1>4. \A y : y \in Members(u) <=> y \in Members(s) \/ y \in Members(t)
  <2>1. /\ \A y : y \in Members(u) <=> \E i \in 1..(m + n) : u[i] = y
        /\ \A y : y \in Members(s) <=> \E i \in 1..m : s[i] = y
        /\ \A y : y \in Members(t) <=> \E i \in 1..n : t[i] = y
    BY <1>1 DEF Members, m, n
  <2>2. QED
    BY <1>1, <1>2, <1>3, <2>1
<1>5. ASSUME Once(s), Once(t), Members(s) \cap Members(t) = {}
      PROVE  Once(u)
  <2>1. ASSUME NEW i \in 1..(m + n), NEW j \in 1..(m + n), u[i] = u[j]
        PROVE  i = j
    <3>1. \A k \in 1..m : \A l \in 1..n : s[k] # t[l]
      BY <1>5 DEF Members, m, n
    <3>2. CASE i \in 1..m /\ u[i] = s[i]
      BY <1>3, <1>5, <2>1, <3>1, <3>2 DEF Once, m
    <3>3. CASE i - m \in 1..n /\ u[i] = t[i - m]
      <4>1. j - m \in 1..n /\ u[j] = t[j - m]
        BY <1>3, <2>1, <3>1, <3>3
      <4>2. i - m = j - m
        BY <1>5, <2>1, <3>3, <4>1 DEF Once, n
      <4>3. QED
        BY <1>1, <4>2
    <3>4. QED
      BY <1>3, <3>2, <3>3
  <2>2. QED
    BY <1>1, <2>1 DEF Once
<1>6. QED
  BY <1>1, <1>4, <1>5 DEF u, m, n

\* The request of a call names the call.
LEMMA RequestIs ==
  ASSUME NEW s \in Script, NEW e \in Engine, NEW c \in Calls
  PROVE  Request(s, e, c) \in Asked /\ Request(s, e, c).call = c
<1>1. s.after[c] \in SUBSET Calls /\ \A d \in s.after[c] : e.seen[d] \in Nat
  BY DEF Script, Engine
<1>2. [d \in s.after[c] |-> e.seen[d]] \in [s.after[c] -> Nat]
  BY <1>1
<1>3. QED
  BY <1>1, <1>2 DEF Request, Asked

\* What a granted call was asked stays what it was asked.
LEMMA RequestKept ==
  ASSUME NEW s \in Script, NEW e \in Engine, NEW f \in Engine, Sane(s, e),
         NEW rs \in Seq(Result), Answerable(e, rs), Answered(e, rs, Len(rs), f),
         NEW id \in 1..Len(e.issued)
  PROVE  Request(s, f, f.issued[id]) = Request(s, e, e.issued[id])
<1> DEFINE c == e.issued[id]
<1>1. c \in Calls /\ f.issued[id] = c /\ s.after[c] \in SUBSET Calls
  <2>1. c \in Calls
    BY DEF Engine
  <2>2. f.issued[id] = c
    BY DEF Answered
  <2>3. QED
    BY <2>1, <2>2 DEF Script
<1>2. \A i \in 1..Len(rs) : e.status[e.issued[rs[i].id]] = "awaited"
  BY DEF Answerable, Awaiting
<1>3. \A d \in s.after[c] : d \in Calls /\ e.status[d] \in {"settled", "refused"}
  BY <1>1 DEF Sane
<1>4. \A d \in s.after[c] : f.seen[d] = e.seen[d]
  BY <1>2, <1>3 DEF Answered
<1>5. QED
  BY <1>1, <1>4 DEF Request

\* The announcements of a batch announce each of its requests once.
LEMMA AnnouncementsAre ==
  ASSUME script \in Script, session \in Nat, NEW s, s.engine \in Engine,
         NEW ids \in SUBSET (1..Len(s.engine.issued))
  PROVE  LET a == Announcements(s, ids)
         IN  /\ a \in Seq(Event) /\ Len(a) \in Nat
             /\ \A i \in 1..Len(a) : /\ a[i].type = "spawned" /\ a[i].id \in ids
                                     /\ a[i] = Spawned(a[i].id, Ask(s, a[i].id), session)
             /\ Announced(a) = ids
             /\ AnnouncedOnce(a)
             /\ ids # {} => a # <<>>
<1> DEFINE key == [id \in ids |-> id]
           order == InOrder(ids, key)
           n == Cardinality(ids)
           a == [i \in 1..n |-> Spawned(order[i], Ask(s, order[i]), session)]
<1>1. IsFiniteSet(ids) /\ \A id \in ids : id \in Nat
  <2>1. 1..Len(s.engine.issued) \in SUBSET Nat /\ IsFiniteSet(1..Len(s.engine.issued))
    <3>1. Len(s.engine.issued) \in Int /\ 1 \in Int
      BY DEF Engine
    <3>2. QED
      BY <3>1, FS_Interval
  <2>2. QED
    BY <2>1, FS_Subset
<1>2. /\ \A x \in ids : key[x] \in Nat
      /\ \A x, y \in ids : key[x] = key[y] => x = y
  BY <1>1
<1> HIDE DEF key
<1>3. /\ order \in [1..n -> ids] /\ n \in Nat /\ Len(order) = n
      /\ \A i, j \in 1..n : order[i] = order[j] => i = j
      /\ \A x \in ids : \E i \in 1..n : order[i] = x
  <2>1. Lists(order, n, ids)
    BY <1>1, <1>2, InOrderLists
  <2>2. QED
    BY Zenon, <2>1 DEF Lists
<1>4. Announcements(s, ids) = a
  BY <1>3 DEF Announcements, key
<1> HIDE DEF order, n
<1>5. \A id \in ids : id \in Nat /\ Ask(s, id) \in Asked
  <2>1. \A id \in ids : s.engine.issued[id] \in Calls
    BY DEF Engine
  <2>2. QED
    BY <1>1, <2>1, RequestIs DEF Ask
<1>6. \A i \in 1..n : /\ a[i] \in Event /\ a[i].type = "spawned" /\ a[i].id = order[i] /\ order[i] \in ids
                      /\ a[i] = Spawned(order[i], Ask(s, order[i]), session)
  <2>1. ASSUME NEW i \in 1..n
        PROVE  order[i] \in ids /\ order[i] \in Nat /\ Ask(s, order[i]) \in Asked
               /\ a[i] = Spawned(order[i], Ask(s, order[i]), session)
    BY <1>3, <1>5
  <2> HIDE DEF a
  <2>2. QED
    BY <2>1, EventsAre
<1>7. a \in Seq(Event) /\ Len(a) = n
  BY <1>3, <1>6
<1> HIDE DEF a
<1>8. Announced(a) = ids
  <2>1. \A y : y \in Announced(a) <=> \E i \in 1..n : a[i].type = "spawned" /\ a[i].id = y
    BY <1>7 DEF Announced
  <2>2. ASSUME NEW y
        PROVE  y \in Announced(a) <=> y \in ids
    <3>1. y \in ids => \E i \in 1..n : order[i] = y
      BY <1>3
    <3>2. QED
      BY <1>6, <2>1, <3>1
  <2>3. QED
    BY <2>2
<1>9. AnnouncedOnce(a)
  BY <1>3, <1>6, <1>7 DEF AnnouncedOnce
<1>10. ids # {} => a # <<>>
  <2>1. ASSUME ids # {}
        PROVE  n # 0
    <3>1. PICK x \in ids : TRUE
      BY <2>1
    <3>2. PICK i \in 1..n : order[i] = x
      BY <1>3, <3>1
    <3>3. QED
      BY <1>3, <3>2
  <2>2. QED
    BY <1>7, <2>1
<1>11. QED
  BY <1>3, <1>4, <1>6, <1>7, <1>8, <1>9, <1>10

\* The same behind the marker of a resumed run.
LEMMA MarkedAre ==
  ASSUME NEW a \in Seq(Event)
  PROVE  LET m == <<Resumed>> \o a
         IN  /\ m \in Seq(Event) /\ Len(m) = Len(a) + 1 /\ m # <<>>
             /\ m[1] = Resumed /\ \A i \in 1..Len(m) : i = 1 \/ (i - 1 \in 1..Len(a) /\ m[i] = a[i - 1])
             /\ Announced(m) = Announced(a)
             /\ AnnouncedOnce(a) => AnnouncedOnce(m)
<1> DEFINE m == <<Resumed>> \o a
<1>1. Resumed \in Event /\ Resumed.type # "spawned"
  BY EventsAre
<1>2. <<Resumed>> \in Seq(Event)
  BY <1>1
<1>3. m \in Seq(Event) /\ Len(m) = Len(a) + 1 /\ m[1] = Resumed /\ Len(a) \in Nat
  BY <1>2
<1>4. \A i \in 1..Len(a) : m[i + 1] = a[i] /\ i + 1 \in 1..Len(m) /\ i \in Nat
  BY <1>2
<1>5. Head(m) = m[1] /\ Tail(m) = a /\ m # <<>>
  <2>1. Len(Tail(m)) = Len(a) /\ Tail(m) \in Seq(Event) /\ m # <<>> /\ Head(m) = m[1]
    BY <1>3
  <2>2. \A i \in 1..Len(a) : Tail(m)[i] = a[i]
    BY <1>3, <1>4
  <2>3. QED
    BY <2>1, <2>2
<1>6. \A i \in 1..Len(m) : i = 1 \/ (i - 1 \in 1..Len(a) /\ m[i] = a[i - 1])
  <2>1. \A i \in 1..Len(m) : i # 1 => i - 1 \in 1..Len(a) /\ (i - 1) + 1 = i
    BY <1>3
  <2>2. QED
    BY <1>4, <2>1
<1> HIDE DEF m
<1>7. Announced(m) = Announced(a)
  BY <1>1, <1>3, <1>5, AnnouncedTail
<1>8. AnnouncedOnce(a) => AnnouncedOnce(m)
  <2> SUFFICES ASSUME AnnouncedOnce(a), NEW i \in 1..Len(m), NEW j \in 1..Len(m),
                      m[i].type = "spawned", m[j].type = "spawned", m[i].id = m[j].id
               PROVE  i = j
    BY DEF AnnouncedOnce
  <2>1. /\ i - 1 \in 1..Len(a) /\ m[i] = a[i - 1]
        /\ j - 1 \in 1..Len(a) /\ m[j] = a[j - 1]
    BY <1>1, <1>3, <1>6
  <2>2. i - 1 = j - 1
    BY <2>1 DEF AnnouncedOnce
  <2>3. QED
    BY <1>3, <2>2
<1>9. QED
  BY <1>3, <1>5, <1>6, <1>7, <1>8 DEF m

\* The value the log records for a step.
Outcome(entry) == IF entry.ok THEN entry.run ELSE Null

\* What the replay feeds is one recorded outcome for each step of the batch.
LEMMA FedAre ==
  ASSUME NEW ids \in SUBSET (DOMAIN replay.steps), IsFiniteSet(ids), ids \subseteq Nat,
         \A id \in ids : replay.steps[id].at \in Nat /\ replay.steps[id].run \in Nat,
         \A x, y \in ids : replay.steps[x].at = replay.steps[y].at => x = y
  PROVE  LET r == Fed(ids)
         IN  /\ r \in Seq(Result) /\ OnceEach(r) /\ Ids(r) = ids
             /\ \A i \in 1..Len(r) : r[i].id \in ids /\ r[i].value = Outcome(replay.steps[r[i].id])
<1> DEFINE key == [id \in ids |-> replay.steps[id].at]
           order == InOrder(ids, key)
           n == Cardinality(ids)
           r == [i \in 1..n |-> [id |-> order[i], value |-> Outcome(replay.steps[order[i]])]]
<1>1. /\ \A x \in ids : key[x] \in Nat
      /\ \A x, y \in ids : key[x] = key[y] => x = y
  OBVIOUS
<1> HIDE DEF key
<1>2. /\ order \in [1..n -> ids] /\ n \in Nat /\ Len(order) = n
      /\ \A i, j \in 1..n : order[i] = order[j] => i = j
      /\ \A x \in ids : \E i \in 1..n : order[i] = x
  <2>1. Lists(order, n, ids)
    BY <1>1, InOrderLists
  <2>2. QED
    BY Zenon, <2>1 DEF Lists
<1>3. Fed(ids) = r
  BY <1>2 DEF Fed, key, Outcome
<1> HIDE DEF order, n
<1>4. \A i \in 1..n : /\ order[i] \in ids /\ r[i].id = order[i]
                      /\ r[i].value = Outcome(replay.steps[order[i]])
                      /\ r[i] \in Result
  BY <1>2 DEF Outcome, Null, Result
<1>5. r \in Seq(Result) /\ Len(r) = n
  BY <1>2, <1>4
<1> HIDE DEF r
<1>6. OnceEach(r)
  BY <1>2, <1>4, <1>5 DEF OnceEach
<1>7. Ids(r) = ids
  <2>1. \A y : y \in Ids(r) <=> \E i \in 1..n : r[i].id = y
    BY <1>5 DEF Ids
  <2>2. ASSUME NEW y
        PROVE  y \in Ids(r) <=> y \in ids
    <3>1. y \in ids => \E i \in 1..n : order[i] = y
      BY <1>2
    <3>2. QED
      BY <1>4, <2>1, <3>1
  <2>3. QED
    BY <2>2
<1>8. QED
  BY <1>3, <1>4, <1>5, <1>6, <1>7

-----------------------------------------------------------------------------
(* The inductive invariant                                                 *)

Types ==
    /\ TypeOK
    /\ journal \in Seq(Event)
    /\ results \in Seq(Result)
    /\ todo \in Seq(Event)
    /\ queued \in Seq(Nat) /\ queue \in Seq(Nat)
    /\ running \in SUBSET Nat /\ IsFiniteSet(running)
    /\ channel \in Seq([id : Nat, ok : BOOLEAN])
    /\ late \in BOOLEAN /\ replay.active \in BOOLEAN /\ opened \in Nat

\* Children announced by this session whose outcome the loop has not received.
Out == Members(queued) \cup Members(queue) \cup running \cup Ids(channel)

Placed == Announced(todo) \cup Out \cup Ids(results)

Apart(A, B, C, D, E, F) ==
    /\ A \cap (B \cup C \cup D \cup E \cup F) = {}
    /\ B \cap (C \cup D \cup E \cup F) = {}
    /\ C \cap (D \cup E \cup F) = {}
    /\ D \cap (E \cup F) = {}
    /\ E \cap F = {}

\* A request is in one place at a time: about to be announced, waiting for
\* the rest of its batch, queued, on a worker, reported, or about to be fed;
\* wherever it is, the engine awaits it, and the loop counts what is out.
Placement ==
    /\ AnnouncedOnce(todo) /\ Once(queued) /\ Once(queue) /\ OnceEach(channel) /\ OnceEach(results)
    /\ Apart(Announced(todo), Members(queued), Members(queue), running, Ids(channel), Ids(results))
    /\ Placed \subseteq Awaiting(engine)
    /\ outstanding = Len(queue) + Cardinality(running) + Len(channel)

\* While the loop is to go on, what the engine awaits has a place.
Complete ==
    pc \in {"step", "collect", "await"} \/ Announced(todo) # {}
      => Awaiting(engine) \subseteq Placed

\* The entry of a request this session has announced and not seen the end of.
Fresh(id) ==
    [request |-> Request(script, engine, engine.issued[id]), run |-> session, at |-> 0, ok |-> FALSE]

\* What the log says of each request in its place.
Evidence ==
    /\ \A id \in Out : id \in Announced(journal) /\ Load(journal)[id] = Fresh(id)
    /\ \A i \in 1..Len(todo) : todo[i].type = "spawned" =>
         /\ todo[i] = Spawned(todo[i].id, Request(script, engine, engine.issued[todo[i].id]), session)
         /\ todo[i].id \in Announced(journal) => Load(journal)[todo[i].id].at = 0
    /\ \A i \in 1..Len(results) :
         /\ results[i].id \in Announced(journal) /\ Load(journal)[results[i].id].at > 0
         /\ results[i].value = Outcome(Load(journal)[results[i].id])
    /\ ScriptSawTheLog

OnlyKills == \A i \in (opened + 1)..Len(journal) : journal[i] = Ended("watchdog_kill")

\* A step the replay has still to account for.
Held(id) == replay.active /\ id \in DOMAIN replay.steps

\* While a journal is replayed the pool is quiet and the log is left alone.
Replaying ==
    /\ ~replay.active => replay = NoReplay
    /\ replay.active =>
         /\ replay = [active |-> TRUE, steps |-> replay.steps]
         /\ pc \in {"step", "collect", "drain", "append", "join", "stuck"}
         /\ queue = <<>> /\ running = {} /\ channel = <<>> /\ queued = <<>> /\ outstanding = 0
         /\ Announced(todo) = {}
         /\ DOMAIN replay.steps \subseteq Announced(journal)
         /\ \A id \in DOMAIN replay.steps : replay.steps[id] = Load(journal)[id]
         /\ pc \in {"step", "collect", "drain"} => OnlyKills

\* An announced step without an outcome is held by the replay or on its way.
Owing ==
    pc \notin {"off", "join", "stuck"} =>
      \A id \in Announced(journal) :
        Load(journal)[id].at = 0 /\ ~Held(id) => id \in Announced(todo) \cup Out

\* Every step of the log the replay has let go was granted again, to its call.
Matched ==
    pc # "off" =>
      \A id \in Announced(journal) : ~Held(id) =>
        /\ id \in 1..Len(engine.issued)
        /\ Load(journal)[id].request.call = engine.issued[id]

\* In the log each call is one step, which has one outcome at most.
Recorded ==
    /\ \A i, j \in Announced(journal) :
         Load(journal)[i].request.call = Load(journal)[j].request.call => i = j
    /\ \A id \in Announced(journal) : \A i \in Since(journal, id) : i = Load(journal)[id].at

Ends ==
    /\ pc \notin {"off", "join", "stuck"} =>
         \A i \in 1..Len(journal) :
           journal[i].type = "ended" => journal[i].outcome \in {"wall_deadline", "watchdog_kill"}
    /\ NoBreach

Opening == todo = <<Started>> /\ engine = NewEngine /\ ~replay.active /\ queued = <<>>

Announcing ==
    /\ todo # <<>> /\ ~replay.active
    /\ \A i \in 1..Len(todo) :
         \/ todo[i].type = "spawned"
         \/ i = 1 /\ todo[1] = Resumed /\ Len(todo) > 1 /\ queued = <<>>

Verdicts == Outcomes \ {"engine_invariant_breach", "unknown_result"}

Concluding ==
    /\ queued = <<>>
    /\ \E o \in Verdicts :
         /\ todo \in {<<Ended(o)>>, <<Resumed, Ended(o)>>}
         /\ o \in Failures \cup {"done"} =>
              outstanding = 0 /\ (replay.active => DOMAIN replay.steps = {})

Control ==
    /\ pc # "append" => todo = <<>> /\ queued = <<>>
    /\ pc = "append" => Opening \/ Announcing \/ Concluding
    /\ pc = "await" => Awaiting(engine) # {}
    /\ pc = "off" => /\ engine = NewEngine /\ replay = NoReplay
                     /\ results = <<>> /\ queue = <<>> /\ channel = <<>> /\ running = {}
                     /\ outstanding = 0 /\ wait = 0 /\ resident = 0 /\ late = FALSE
                     /\ watchdog = "off" /\ verdict = "none"
    /\ session = 0 => pc = "off" /\ journal = <<>> /\ ~refused
    /\ pc = "drain" => verdict \in {"done", "undeclared_role", "agents_exhausted", "stalled"}
    /\ refused => pc \in {"join", "stuck", "off"} /\ OnlyKills

DriveInv ==
    /\ Types /\ Sane(script, engine) /\ Placement /\ Complete /\ Evidence
    /\ Replaying /\ Owing /\ Matched /\ Recorded /\ Ends /\ Control

-----------------------------------------------------------------------------
(* What a step that leaves them alone keeps                                *)

placed == <<todo, queued, queue, running, channel, results, engine>>

\* Placement depends on the lists alone.
LEMMA PlacementKept ==
  ASSUME Placement, UNCHANGED <<placed, outstanding>>
  PROVE  Placement' /\ Placed' = Placed /\ Out' = Out
  BY DEF Placement, Placed, Out, placed

\* Evidence depends on the lists, the index and the engine alone.
LEMMA EvidenceKept ==
  ASSUME Evidence, UNCHANGED <<placed, script, session>>,
         Announced(journal') = Announced(journal), Load(journal') = Load(journal)
  PROVE  Evidence'
<1>1. Out' = Out
  BY DEF Out, placed, Members, Ids
<1>2. \A id : Fresh(id)' = Fresh(id)
  BY DEF Fresh, placed, Request
<1>3. ScriptSawTheLog'
  BY DEF Evidence, ScriptSawTheLog, placed
<1>4. QED
  BY <1>1, <1>2, <1>3 DEF Evidence, placed

\* Recorded depends on the index alone.
LEMMA RecordedKept ==
  ASSUME Recorded,
         Announced(journal') = Announced(journal), Load(journal') = Load(journal),
         \A id \in Announced(journal) : Since(journal', id) = Since(journal, id)
  PROVE  Recorded'
  BY DEF Recorded

-----------------------------------------------------------------------------
(* The shape of a step                                                     *)

\* What the parameters of a step are, typed.
LEMMA ScriptIs ==
  ASSUME Types
  PROVE  script \in Script /\ session \in Nat /\ engine \in Engine /\ Ceiling \in Nat
  BY DriveAssumption, EngineAssumption DEF Types, TypeOK

\* Steps that move the clock only.
LEMMA ClockKeeps ==
  ASSUME DriveInv, Deadline \/ WatchdogFires
  PROVE  DriveInv'
<1>1. /\ UNCHANGED <<script, journal, session, driveVars, poolVars, opened, torn>>
      /\ pc # "off"
      /\ late' \in BOOLEAN /\ watchdog' \in {"off", "armed", "retired", "fired", "recorded"}
  BY DEF DriveInv, Types, TypeOK, Control, Deadline, WatchdogFires
<1>2. UNCHANGED <<placed, script, session, outstanding, pc, journal, replay, wait, resident, verdict, refused, opened>>
  BY <1>1 DEF placed, driveVars, poolVars
<1>3. Types'
  BY <1>1, <1>2 DEF DriveInv, Types, TypeOK, placed
<1>4. Sane(script, engine)' /\ Placement' /\ Placed' = Placed /\ Out' = Out /\ Evidence'
  BY <1>2, PlacementKept, EvidenceKept DEF DriveInv, placed
<1>5. Complete' /\ Replaying' /\ Owing' /\ Matched' /\ Recorded' /\ Ends'
  BY <1>2, <1>4 DEF DriveInv, Complete, Replaying, OnlyKills, Owing, Matched, Held, Recorded, Ends, NoBreach, placed
<1>6. Control'
  BY <1>1, <1>2 DEF DriveInv, Control, Opening, Announcing, Concluding, OnlyKills, placed
<1>7. QED
  BY <1>3, <1>4, <1>5, <1>6 DEF DriveInv

\* The watchdog's note leaves the index, and every other record, as it was.
LEMMA WatchdogRecordsKeeps ==
  ASSUME DriveInv, WatchdogRecords
  PROVE  DriveInv'
<1>1. UNCHANGED <<placed, script, session, outstanding, pc, replay, wait, resident, verdict, refused, opened, late>>
      /\ watchdog = "fired" /\ watchdog' = "recorded"
      /\ (journal' = journal \/ journal' = Append(journal, Ended("watchdog_kill")))
  BY DEF WatchdogRecords, placed, driveVars, poolVars
<1>2. pc # "off" /\ session # 0 /\ journal \in Seq(Event)
  BY <1>1 DEF DriveInv, Types, Control
<1>3. /\ Ended("watchdog_kill") \in Event /\ Ended("watchdog_kill").type = "ended"
      /\ Ended("watchdog_kill").outcome = "watchdog_kill" /\ ~IsOutcome(Ended("watchdog_kill"))
  BY EventsAre DEF Outcomes, Failures, IsOutcome
<1>4. /\ journal' \in Seq(Event)
      /\ Announced(journal') = Announced(journal) /\ Load(journal') = Load(journal)
      /\ \A id \in Announced(journal) : Since(journal', id) = Since(journal, id)
  BY <1>1, <1>2, <1>3, IndexKept
<1>5. \A i \in 1..Len(journal') : \/ i \in 1..Len(journal) /\ journal'[i] = journal[i]
                                  \/ journal'[i] = Ended("watchdog_kill")
  BY <1>1, <1>2, <1>3, Appended
<1>6. Types'
  <2>1. TypeOK'
    BY <1>1, <1>3, <1>5 DEF DriveInv, Types, TypeOK, placed, Outcomes
  <2>2. QED
    BY <1>1, <1>4, <2>1 DEF DriveInv, Types, placed
<1>7. Sane(script, engine)' /\ Placement' /\ Placed' = Placed /\ Out' = Out /\ Evidence'
  BY <1>1, <1>4, PlacementKept, EvidenceKept DEF DriveInv, placed
<1>8. OnlyKills => OnlyKills'
  <2>1. opened \in Nat /\ Len(journal) \in Nat
    BY <1>2 DEF DriveInv, Types
  <2>2. QED
    BY <1>1, <1>5, <2>1 DEF OnlyKills
<1>9. Complete' /\ Replaying' /\ Owing' /\ Matched' /\ Recorded'
  BY <1>1, <1>4, <1>7, <1>8, RecordedKept DEF DriveInv, Complete, Replaying, Owing, Matched, Held, placed
<1>10. Ends'
  BY <1>1, <1>3, <1>5 DEF DriveInv, Ends, NoBreach
<1>11. Control'
  BY <1>1, <1>2, <1>8 DEF DriveInv, Control, Opening, Announcing, Concluding, placed
<1>12. QED
  BY <1>6, <1>7, <1>9, <1>10, <1>11 DEF DriveInv

\* With the process everything but the log is gone.
LEMMA GoneKeeps ==
  ASSUME DriveInv, Gone, UNCHANGED journal, pc # "off"
  PROVE  DriveInv'
<1>1. /\ pc' = "off" /\ engine' = NewEngine /\ replay' = NoReplay
      /\ results' = <<>> /\ todo' = <<>> /\ queued' = <<>> /\ queue' = <<>> /\ channel' = <<>>
      /\ running' = {} /\ outstanding' = 0 /\ wait' = 0 /\ resident' = 0
      /\ verdict' = "none" /\ late' = FALSE /\ watchdog' = "off"
      /\ UNCHANGED <<script, session, refused, opened, journal>>
  BY DEF Gone
<1>2. /\ NewEngine \in Engine /\ NewEngine.issued = <<>>
      /\ \A c \in Calls : NewEngine.status[c] = "open"
  BY DEF NewEngine, Engine, Null
<1>3. session # 0
  BY DEF DriveInv, Control
<1>4. Types'
  <2>1. TypeOK'
    BY <1>1, <1>2 DEF DriveInv, Types, TypeOK, Locations
  <2>2. IsFiniteSet({})
    BY FS_EmptySet
  <2>3. QED
    <3>1. /\ <<>> \in Seq(Event) /\ <<>> \in Seq(Result) /\ <<>> \in Seq(Nat)
          /\ <<>> \in Seq([id : Nat, ok : BOOLEAN])
      OBVIOUS
    <3>2. replay'.active \in BOOLEAN /\ late' \in BOOLEAN
      BY <1>1 DEF NoReplay
    <3>3. journal' \in Seq(Event) /\ opened' \in Nat
      BY <1>1 DEF DriveInv, Types
    <3>4. QED
      BY <1>1, <2>1, <2>2, <3>1, <3>2, <3>3 DEF Types
<1>5. Sane(script, engine)' /\ Awaiting(engine') = {}
  <2>1. Len(NewEngine.issued) = 0 /\ Ceiling \in Nat
    BY <1>2, EngineAssumption
  <2>2. QED
    BY <1>1, <1>2, <2>1 DEF Sane, Awaiting
<1>6. Out' = {} /\ Placed' = {}
  BY <1>1, Empties DEF Out, Placed
<1>7. Placement'
  BY <1>1, <1>6, Empties, FS_EmptySet DEF Placement, Apart
<1>8. Evidence'
  BY <1>1, <1>2, <1>6 DEF Evidence, ScriptSawTheLog
<1>9. Complete' /\ Replaying' /\ Owing' /\ Matched' /\ Recorded'
  BY <1>1, <1>5, Empties DEF DriveInv, Complete, Replaying, Owing, Matched, Recorded, NoReplay
<1>10. Ends' /\ Control'
  BY <1>1, <1>3 DEF DriveInv, Ends, NoBreach, Control, OnlyKills
<1>11. QED
  BY <1>4, <1>5, <1>7, <1>8, <1>9, <1>10 DEF DriveInv

-----------------------------------------------------------------------------
(* Sessions begin                                                          *)

\* Pending events that announce nobody.
NoSpawn(t) == t \in Seq(Event) /\ \A i \in 1..Len(t) : t[i].type # "spawned"

\* A list without announcements announces nothing.
LEMMA NoSpawnIs ==
  ASSUME NEW t, NoSpawn(t)
  PROVE  Announced(t) = {} /\ AnnouncedOnce(t)
  BY DEF NoSpawn, Announced, AnnouncedOnce

\* The markers and ends the loop writes announce nothing.
LEMMA Shorts ==
  /\ NoSpawn(<<>>) /\ NoSpawn(<<Started>>)
  /\ \A o \in Outcomes : NoSpawn(<<Ended(o)>>) /\ NoSpawn(<<Resumed, Ended(o)>>)
<1>1. NoSpawn(<<>>) /\ NoSpawn(<<Started>>)
  BY EventsAre DEF NoSpawn
<1>2. ASSUME NEW o \in Outcomes
      PROVE  NoSpawn(<<Ended(o)>>) /\ NoSpawn(<<Resumed, Ended(o)>>)
  <2>1. /\ Ended(o) \in Event /\ Ended(o).type # "spawned"
        /\ Resumed \in Event /\ Resumed.type # "spawned"
    BY EventsAre
  <2>2. NoSpawn(<<Ended(o)>>)
    BY <2>1 DEF NoSpawn
  <2>3. NoSpawn(<<Resumed, Ended(o)>>)
    BY <2>1 DEF NoSpawn
  <2>4. QED
    BY <2>2, <2>3
<1>3. QED
  BY <1>1, <1>2

\* Exchanging pending events that announce nobody moves no child.
LEMMA PlacementQuiet ==
  ASSUME Placement, NoSpawn(todo), NoSpawn(todo'),
         UNCHANGED <<queued, queue, running, channel, results, engine, outstanding>>
  PROVE  Placement' /\ Placed' = Placed /\ Out' = Out
<1>1. Announced(todo) = {} /\ Announced(todo') = {} /\ AnnouncedOnce(todo')
  BY NoSpawnIs
<1>2. Out' = Out /\ Placed' = Placed
  BY <1>1 DEF Out, Placed
<1>3. QED
  BY <1>1, <1>2 DEF Placement

\* Evidence survives when children only leave their places.
LEMMA EvidenceQuiet ==
  ASSUME Evidence, NoSpawn(todo'), Out' \subseteq Out,
         UNCHANGED <<results, engine, script, session, journal>>
  PROVE  Evidence'
<1>1. \A id : Fresh(id)' = Fresh(id)
  BY DEF Fresh, Request
<1>2. ScriptSawTheLog'
  BY DEF Evidence, ScriptSawTheLog
<1>3. QED
  BY <1>1, <1>2 DEF Evidence, NoSpawn

\* A run that has not begun satisfies the invariant.
LEMMA InitHolds ==
  ASSUME Init
  PROVE  DriveInv
<1>1. /\ NewEngine \in Engine /\ NewEngine.issued = <<>>
      /\ \A c \in Calls : NewEngine.status[c] = "open"
  BY DEF NewEngine, Engine, Null
<1>2. Types
  <2>1. TypeOK
    BY <1>1, DriveAssumption DEF Init, TypeOK, Locations
  <2>2. /\ <<>> \in Seq(Event) /\ <<>> \in Seq(Result) /\ <<>> \in Seq(Nat)
        /\ <<>> \in Seq([id : Nat, ok : BOOLEAN])
    OBVIOUS
  <2>3. IsFiniteSet({}) /\ {} \in SUBSET Nat
    BY FS_EmptySet
  <2>4. replay.active \in BOOLEAN /\ late \in BOOLEAN /\ opened \in Nat
    BY DEF Init, NoReplay
  <2>5. QED
    BY <2>1, <2>2, <2>3, <2>4 DEF Init, Types
<1>3. Sane(script, engine) /\ Awaiting(engine) = {}
  <2>1. Len(NewEngine.issued) = 0 /\ Ceiling \in Nat
    BY <1>1, EngineAssumption
  <2>2. QED
    BY <1>1, <2>1 DEF Init, Sane, Awaiting
<1>4. Out = {} /\ Placed = {}
  BY Empties DEF Init, Out, Placed
<1>5. Placement
  BY <1>4, Empties, FS_EmptySet DEF Init, Placement, Apart
<1>6. Evidence
  BY <1>1, <1>4 DEF Init, Evidence, ScriptSawTheLog
<1>7. Complete /\ Replaying /\ Owing /\ Matched /\ Recorded
  BY <1>3, Empties DEF Init, Complete, Replaying, Owing, Matched, Recorded, NoReplay
<1>8. Ends /\ Control
  BY DEF Init, Ends, NoBreach, Control
<1>9. QED
  BY <1>2, <1>3, <1>5, <1>6, <1>7, <1>8 DEF DriveInv

\* The first session of a run.
LEMMA BeginKeeps ==
  ASSUME DriveInv, Begin
  PROVE  DriveInv'
<1>1. /\ pc = "off" /\ session = 0 /\ session' = 1 /\ pc' = "append" /\ todo' = <<Started>>
      /\ UNCHANGED <<script, journal, engine, results, replay, queued, outstanding, wait,
                     resident, verdict, refused, queue, running, channel, late, watchdog, opened>>
      /\ 1 \in 0..MaxSessions
  BY DriveAssumption DEF Begin, poolVars, timeVars
<1>2. /\ journal = <<>> /\ ~refused /\ engine = NewEngine /\ replay = NoReplay /\ todo = <<>> /\ queued = <<>>
      /\ queue = <<>> /\ running = {} /\ channel = <<>> /\ results = <<>> /\ ~replay.active
  BY <1>1 DEF DriveInv, Control, NoReplay
<1>3. NoSpawn(todo) /\ NoSpawn(todo')
  BY <1>1, <1>2, Shorts
<1>4. Types'
  BY <1>1, <1>3 DEF DriveInv, Types, TypeOK, Locations, NoSpawn
<1>5. Sane(script, engine)' /\ Placement' /\ Placed' = Placed /\ Out' = Out
  BY <1>1, <1>3, PlacementQuiet DEF DriveInv
<1>6. NewEngine.issued = <<>> /\ Out = {}
  BY <1>2, Empties DEF NewEngine, Out
<1>7. Evidence'
  BY <1>1, <1>2, <1>3, <1>5, <1>6 DEF Evidence, ScriptSawTheLog, NoSpawn
<1>8. Awaiting(engine') = {}
  BY <1>1, <1>2, <1>6 DEF Awaiting
<1>9. Complete' /\ Replaying' /\ Owing' /\ Matched' /\ Recorded'
  BY <1>1, <1>2, <1>8, Empties DEF Complete, Replaying, Owing, Matched, Recorded
<1>10. Ends' /\ Control'
  BY <1>1, <1>2 DEF Ends, NoBreach, Control, Opening
<1>11. QED
  BY <1>4, <1>5, <1>7, <1>9, <1>10 DEF DriveInv

\* A later session, which loads the index and makes a fresh engine.
LEMMA ResumeKeeps ==
  ASSUME DriveInv, Resume
  PROVE  DriveInv'
<1>1. /\ pc = "off" /\ session \in 1..(MaxSessions - 1) /\ Resumable(journal)
      /\ session' = session + 1 /\ pc' = "step"
      /\ replay' = [active |-> TRUE, steps |-> Load(journal)]
      /\ watchdog' = "armed" /\ refused' = FALSE /\ opened' = Len(journal)
      /\ UNCHANGED <<script, journal, engine, results, todo, queued, outstanding, wait,
                     resident, verdict, queue, running, channel, late>>
  BY DEF Resume, poolVars
<1>2. /\ engine = NewEngine /\ todo = <<>> /\ queued = <<>> /\ queue = <<>> /\ running = {}
      /\ channel = <<>> /\ results = <<>> /\ outstanding = 0
  BY <1>1 DEF DriveInv, Control
<1>3. replay'.active /\ replay'.steps = Load(journal)
  BY <1>1
<1>4. session \in Nat /\ MaxSessions \in Nat /\ session' \in 0..MaxSessions /\ session' # 0
  BY <1>1, DriveAssumption
<1>5. journal \in Seq(Event) /\ Len(journal) \in Nat
  BY DEF DriveInv, Types
<1>6. Types'
  <2>1. TypeOK'
    BY <1>1, <1>4 DEF DriveInv, Types, TypeOK, Locations
  <2>2. QED
    BY <1>1, <1>3, <1>5, <2>1 DEF DriveInv, Types
<1>7. NoSpawn(todo) /\ NoSpawn(todo')
  BY <1>1, <1>2, Shorts
<1>8. Sane(script, engine)' /\ Placement' /\ Placed' = Placed /\ Out' = Out
  BY <1>1, <1>7, PlacementQuiet DEF DriveInv
<1>9. NewEngine.issued = <<>> /\ Out = {}
  BY <1>2, Empties DEF NewEngine, Out
<1>10. Evidence'
  BY <1>1, <1>2, <1>7, <1>8, <1>9 DEF Evidence, ScriptSawTheLog, NoSpawn
<1>11. Awaiting(engine') = {}
  BY <1>1, <1>2, <1>9 DEF Awaiting
<1>12. OnlyKills'
  BY <1>1, <1>5 DEF OnlyKills
<1>13. DOMAIN Load(journal) = Announced(journal)
  BY LoadDomain
<1>14. Replaying'
  BY <1>1, <1>2, <1>3, <1>12, <1>13, Empties DEF Replaying
<1>15. Complete' /\ Owing' /\ Matched' /\ Recorded'
  BY <1>1, <1>3, <1>11, <1>13 DEF DriveInv, Complete, Owing, Matched, Held, Recorded
<1>16. Ends' /\ Control'
  BY <1>1, <1>2, <1>4 DEF DriveInv, Ends, NoBreach, Resumable, Control
<1>17. QED
  BY <1>6, <1>8, <1>10, <1>14, <1>15, <1>16 DEF DriveInv

\* A session whose log fails it joins its pool: what it had yet to announce
\* or to queue is dropped.
LEMMA FailsKeeps ==
  ASSUME DriveInv, AppendFails, pc \notin {"off", "join", "stuck"},
         watchdog' \in {"off", "armed", "retired", "fired", "recorded"}
  PROVE  DriveInv'
<1>1. /\ pc' = "join" /\ todo' = <<>> /\ queued' = <<>>
      /\ UNCHANGED <<script, journal, session, engine, results, replay, outstanding, wait,
                     resident, verdict, refused, queue, running, channel, late, opened>>
  BY DEF AppendFails, poolVars
<1>2. NoSpawn(todo') /\ Announced(todo') = {} /\ AnnouncedOnce(todo') /\ <<>> \in Seq(Nat)
      /\ Members(queued') = {} /\ Once(queued')
  BY <1>1, Shorts, NoSpawnIs, Empties
<1>3. Types'
  <2>1. TypeOK'
    BY <1>1 DEF DriveInv, Types, TypeOK, Locations
  <2>2. QED
    BY <1>1, <1>2, <2>1 DEF DriveInv, Types, NoSpawn
<1>4. Out' \subseteq Out /\ Placed' \subseteq Placed
  BY <1>1, <1>2 DEF Out, Placed
<1>5. Sane(script, engine)' /\ Placement'
  BY <1>1, <1>2, <1>4 DEF DriveInv, Placement, Apart
<1>6. Evidence'
  BY <1>1, <1>2, <1>4, EvidenceQuiet DEF DriveInv
<1>7. Complete' /\ Owing'
  BY <1>1, <1>2 DEF Complete, Owing
<1>8. Replaying' /\ Matched' /\ Recorded'
  BY <1>1, <1>2 DEF DriveInv, Replaying, Matched, Held, Recorded
<1>9. Ends' /\ Control'
  BY <1>1 DEF DriveInv, Ends, NoBreach, Control
<1>10. QED
  BY <1>3, <1>5, <1>6, <1>7, <1>8, <1>9 DEF DriveInv

\* The join that never returns: nothing moves but the place.
LEMMA MissedKeeps ==
  ASSUME DriveInv, NotificationMissed
  PROVE  DriveInv'
<1>1. /\ pc = "join" /\ pc' = "stuck"
      /\ UNCHANGED <<script, journal, session, placed, replay, outstanding, wait, resident, verdict,
                     refused, late, watchdog, opened>>
  BY DEF NotificationMissed, poolVars, timeVars, placed
<1>2. Types'
  BY <1>1 DEF DriveInv, Types, TypeOK, Locations, placed
<1>3. Sane(script, engine)' /\ Placement' /\ Placed' = Placed /\ Out' = Out /\ Evidence'
  BY <1>1, PlacementKept, EvidenceKept DEF DriveInv, placed
<1>4. todo = <<>> /\ queued = <<>>
  BY <1>1 DEF DriveInv, Control
<1>5. Announced(todo') = {}
  BY <1>1, <1>4, Empties DEF placed
<1>6. Complete' /\ Owing'
  BY <1>1, <1>5 DEF Complete, Owing
<1>7. Replaying' /\ Matched' /\ Recorded' /\ Ends'
  BY <1>1 DEF DriveInv, Replaying, OnlyKills, Matched, Held, Recorded, Ends, NoBreach, placed
<1>8. Control'
  BY <1>1, <1>4 DEF DriveInv, Control, OnlyKills, placed
<1>9. QED
  BY <1>2, <1>3, <1>6, <1>7, <1>8 DEF DriveInv

-----------------------------------------------------------------------------
(* The loop between two steps                                              *)

\* With nobody outstanding the pool is empty.
LEMMA NobodyOut ==
  ASSUME Types, Placement, outstanding = 0
  PROVE  queue = <<>> /\ running = {} /\ channel = <<>>
<1>1. /\ Len(queue) \in Nat /\ Len(channel) \in Nat /\ Cardinality(running) \in Nat
      /\ IsFiniteSet(running)
  BY FS_CardinalityType DEF Types
<1>2. Len(queue) = 0 /\ Len(channel) = 0 /\ Cardinality(running) = 0
  BY <1>1 DEF Placement
<1>3. running = {}
  BY <1>1, <1>2, FS_EmptySet
<1>4. QED
  BY <1>2, <1>3 DEF Types

\* The loop settles on an outcome, or refuses to go on: no child moves.
LEMMA EndingKeeps ==
  ASSUME DriveInv, pc \in {"step", "collect", "await", "drain"},
         UNCHANGED <<script, journal, session, engine, results, queued, outstanding, wait, resident,
                     queue, running, channel, late, opened, replay, verdict, refused>>,
         watchdog' \in {"off", "armed", "retired", "fired", "recorded"},
         pc' = "append", NEW o \in Verdicts, todo' \in {<<Ended(o)>>, <<Resumed, Ended(o)>>},
         o \in Failures \cup {"done"} => outstanding = 0 /\ (replay.active => DOMAIN replay.steps = {})
  PROVE  DriveInv'
<1>1. todo = <<>> /\ queued = <<>>
  BY DEF DriveInv, Control
<1>2. NoSpawn(todo) /\ NoSpawn(todo')
  BY <1>1, Shorts DEF Verdicts
<1>3. Types'
  <2>1. TypeOK'
    BY DEF DriveInv, Types, TypeOK, Locations
  <2>2. QED
    BY <1>2, <2>1 DEF DriveInv, Types, NoSpawn
<1>4. Sane(script, engine)' /\ Placement' /\ Placed' = Placed /\ Out' = Out
  BY <1>2, PlacementQuiet DEF DriveInv
<1>5. Evidence'
  BY <1>2, <1>4, EvidenceQuiet DEF DriveInv
<1>6. Announced(todo) = {} /\ Announced(todo') = {}
  BY <1>2, NoSpawnIs
<1>7. Complete' /\ Replaying' /\ Owing' /\ Matched' /\ Recorded'
  BY <1>4, <1>6 DEF DriveInv, Complete, Replaying, Owing, Matched, Held, Recorded
<1>8. Ends' /\ Control'
  BY <1>1 DEF DriveInv, Ends, NoBreach, Control, Concluding
<1>9. QED
  BY <1>3, <1>4, <1>5, <1>7, <1>8 DEF DriveInv

\* The loop finds more children resident than it may keep.
LEMMA CapBreachedKeeps ==
  ASSUME DriveInv, CapBreached
  PROVE  DriveInv'
<1>1. /\ pc = "step" /\ pc' = "append" /\ todo' = <<Ended("resident_cap")>> /\ watchdog' = Retired
      /\ UNCHANGED <<script, journal, session, engine, results, queued, outstanding, wait, resident,
                     queue, running, channel, late, opened, replay, verdict, refused>>
  BY DEF CapBreached, EndWith, poolVars
<1>2. watchdog' \in {"off", "armed", "retired", "fired", "recorded"}
  BY <1>1 DEF DriveInv, Types, TypeOK, Retired
<1>3. "resident_cap" \in Verdicts /\ "resident_cap" \notin Failures \cup {"done"}
  BY DEF Verdicts, Outcomes, Failures
<1>4. QED
  BY <1>1, <1>2, <1>3, EndingKeeps

\* The engine ended the run with recorded steps left: nothing is written.
LEMMA RefuseKeeps ==
  ASSUME DriveInv, pc = "drain", replay.active,
         UNCHANGED <<script, journal, session, engine, results, queued, outstanding, wait, resident,
                     queue, running, channel, late, opened, replay, verdict, todo, watchdog>>,
         pc' = "join", refused' = TRUE
  PROVE  DriveInv'
<1>1. todo = <<>> /\ queued = <<>> /\ OnlyKills /\ session # 0
  BY DEF DriveInv, Control, Replaying
<1>2. NoSpawn(todo) /\ NoSpawn(todo')
  BY <1>1, Shorts
<1>3. Types'
  <2>1. TypeOK'
    BY DEF DriveInv, Types, TypeOK, Locations
  <2>2. QED
    BY <2>1 DEF DriveInv, Types
<1>4. Sane(script, engine)' /\ Placement' /\ Placed' = Placed /\ Out' = Out
  BY <1>2, PlacementQuiet DEF DriveInv
<1>5. Evidence'
  BY <1>2, <1>4, EvidenceQuiet DEF DriveInv
<1>6. Announced(todo) = {} /\ Announced(todo') = {}
  BY <1>2, NoSpawnIs
<1>7. Complete' /\ Replaying' /\ Owing' /\ Matched' /\ Recorded'
  BY <1>4, <1>6 DEF DriveInv, Complete, Replaying, Owing, Matched, Held, Recorded
<1>8. Ends' /\ Control'
  BY <1>1 DEF DriveInv, Ends, NoBreach, Control, OnlyKills
<1>9. QED
  BY <1>3, <1>4, <1>5, <1>7, <1>8 DEF DriveInv

\* Two events, one after the other.
LEMMA Paired ==
  ASSUME NEW S, NEW x \in S, NEW y \in S
  PROVE  <<x>> \o <<y>> = <<x, y>>
<1> DEFINE l == <<x>> \o <<y>>
           r == <<x, y>>
<1>1. l \in Seq(S) /\ r \in Seq(S) /\ Len(l) = 2 /\ Len(r) = 2
  OBVIOUS
<1>2. l[1] = x /\ l[2] = y /\ r[1] = x /\ r[2] = y
  OBVIOUS
<1> HIDE DEF l, r
<1>3. \A i \in 1..2 : l[i] = r[i]
  BY <1>2
<1>4. l = r
  BY <1>1, <1>3
<1>5. QED
  BY <1>4 DEF l, r

\* The loop has no child left to wait for and ends the run.
LEMMA DrainedKeeps ==
  ASSUME DriveInv, Drained
  PROVE  DriveInv'
<1>1. /\ pc = "drain" /\ outstanding = 0
      /\ UNCHANGED <<script, journal, session, engine, results, queued, outstanding, resident,
                     queue, running, channel, late, opened>>
  BY DEF Drained, poolVars
<1>2. CASE replay.active /\ DOMAIN replay.steps # {}
  <2>1. pc' = "join" /\ refused' = TRUE /\ UNCHANGED <<replay, todo, wait, verdict, watchdog>>
    BY <1>2 DEF Drained, Refuse
  <2>2. QED
    BY <1>1, <1>2, <2>1, RefuseKeeps
<1>3. CASE ~(replay.active /\ DOMAIN replay.steps # {})
  <2>1. /\ pc' = "append"
        /\ todo' = (IF replay.active THEN <<Resumed>> ELSE <<>>) \o <<Ended(verdict)>>
        /\ UNCHANGED <<replay, wait, verdict, refused, watchdog>>
    BY <1>3 DEF Drained
  <2>2. todo' \in {<<Ended(verdict)>>, <<Resumed, Ended(verdict)>>}
    <3> DEFINE last == Ended(verdict)
    <3> HIDE DEF last
    <3>1. <<>> \o <<last>> = <<last>> /\ <<Resumed>> \o <<last>> = <<Resumed, last>>
      <4>1. last \in Event /\ Resumed \in Event
        BY <1>1, EventsAre DEF DriveInv, Control, Outcomes, Failures, last
      <4>2. <<last>> \in Seq(Event) /\ <<Resumed>> \in Seq(Event)
        BY <4>1
      <4>3. <<>> \o <<last>> = <<last>>
        BY <4>2
      <4>4. <<Resumed>> \o <<last>> = <<Resumed, last>>
        BY <4>1, Paired
      <4>5. QED
        BY <4>3, <4>4
    <3>2. todo' \in {<<last>>, <<Resumed, last>>}
      BY <2>1, <3>1 DEF last
    <3>3. QED
      BY <3>2 DEF last
  <2>3. verdict \in Verdicts
    BY <1>1 DEF DriveInv, Control, Verdicts, Outcomes, Failures
  <2>4. watchdog' \in {"off", "armed", "retired", "fired", "recorded"}
    BY <2>1 DEF DriveInv, Types, TypeOK
  <2>5. QED
    BY <1>1, <1>3, <2>1, <2>2, <2>3, <2>4, EndingKeeps
<1>4. QED
  BY <1>2, <1>3

\* The loop has enough results to step again, or awaits one.
LEMMA CollectedKeeps ==
  ASSUME DriveInv, Collected
  PROVE  DriveInv'
<1>1. /\ pc \in {"collect", "await"}
      /\ UNCHANGED <<script, journal, session, engine, results, queued, outstanding, resident,
                     queue, running, channel, late, opened>>
  BY DEF Collected, poolVars
<1>2. todo = <<>> /\ queued = <<>>
  BY <1>1 DEF DriveInv, Control
<1>3. ~(pc = "await" /\ results = <<>> /\ outstanding = 0)
  <2> SUFFICES ASSUME pc = "await", results = <<>>, outstanding = 0
               PROVE  FALSE
    OBVIOUS
  <2>1. queue = <<>> /\ running = {} /\ channel = <<>>
    BY NobodyOut DEF DriveInv
  <2>2. Placed = {}
    BY <1>2, <2>1, Empties DEF Placed, Out
  <2>3. QED
    BY <2>2 DEF DriveInv, Complete, Control
<1>4. pc' = "step" /\ UNCHANGED <<replay, todo, wait, verdict, refused, watchdog>>
  BY <1>3 DEF Collected
<1>5. NoSpawn(todo) /\ NoSpawn(todo')
  BY <1>2, <1>4, Shorts
<1>6. Types'
  <2>1. TypeOK'
    BY <1>1, <1>4 DEF DriveInv, Types, TypeOK, Locations
  <2>2. QED
    BY <1>1, <1>4, <2>1 DEF DriveInv, Types
<1>7. Sane(script, engine)' /\ Placement' /\ Placed' = Placed /\ Out' = Out
  BY <1>1, <1>5, PlacementQuiet DEF DriveInv
<1>8. Evidence'
  BY <1>1, <1>5, <1>7, EvidenceQuiet DEF DriveInv
<1>9. Complete' /\ Replaying' /\ Owing' /\ Matched' /\ Recorded'
  BY <1>1, <1>4, <1>7 DEF DriveInv, Complete, Replaying, OnlyKills, Owing, Matched, Held, Recorded
<1>10. Ends' /\ Control'
  BY <1>1, <1>2, <1>4 DEF DriveInv, Ends, NoBreach, Control
<1>11. QED
  BY <1>6, <1>7, <1>8, <1>9, <1>10 DEF DriveInv

-----------------------------------------------------------------------------
(* The pool                                                                *)

\* The bounds of the counters of waiting and resident children.
LEMMA CountersAre ==
  ASSUME NEW n \in Nat
  PROVE  /\ Min({1, n}) \in 0..n
         /\ \A w \in 0..n : n # 0 => Max({w - 1, 0}) \in 0..(n - 1)
<1>1. Min({1, n}) \in 0..n
  <2>1. CASE n = 0
    <3>1. 0 \in {1, n} /\ \A y \in {1, n} : 0 <= y
      BY <2>1
    <3>2. Min({1, n}) \in {1, n} /\ \A y \in {1, n} : Min({1, n}) <= y
      BY <3>1 DEF Min
    <3>3. QED
      BY <2>1, <3>2
  <2>2. CASE n # 0
    <3>1. 1 \in {1, n} /\ \A y \in {1, n} : 1 <= y
      BY <2>2
    <3>2. Min({1, n}) \in {1, n} /\ \A y \in {1, n} : Min({1, n}) <= y
      BY <3>1 DEF Min
    <3>3. QED
      BY <2>2, <3>2
  <2>3. QED
    BY <2>1, <2>2
<1>2. ASSUME NEW w \in 0..n, n # 0
      PROVE  Max({w - 1, 0}) \in 0..(n - 1)
  <2>1. \E m \in {w - 1, 0} : \A y \in {w - 1, 0} : m >= y
    <3>1. CASE w = 0
      BY <3>1
    <3>2. CASE w # 0
      BY <3>2
    <3>3. QED
      BY <3>1, <3>2
  <2>2. Max({w - 1, 0}) \in {w - 1, 0} /\ \A y \in {w - 1, 0} : Max({w - 1, 0}) >= y
    BY <2>1 DEF Max
  <2>3. QED
    BY <1>2, <2>2
<1>3. QED
  BY <1>1, <1>2

\* Evidence survives when children change places.
LEMMA EvidenceMoved ==
  ASSUME Evidence, Out' \subseteq Out,
         UNCHANGED <<todo, results, engine, script, session, journal>>
  PROVE  Evidence'
<1>1. \A id : Fresh(id)' = Fresh(id)
  BY DEF Fresh, Request
<1>2. ScriptSawTheLog'
  BY DEF Evidence, ScriptSawTheLog
<1>3. QED
  BY <1>1, <1>2 DEF Evidence

\* A child moves on in the pool.
LEMMA PoolKeeps ==
  ASSUME DriveInv, pc # "off", ~replay.active,
         UNCHANGED <<script, journal, session, engine, results, todo, queued, outstanding, wait, resident,
                     pc, replay, verdict, refused, late, watchdog, opened>>,
         queue' \in Seq(Nat), running' \in SUBSET Nat, IsFiniteSet(running'),
         channel' \in Seq([id : Nat, ok : BOOLEAN]), Placement', Out' = Out
  PROVE  DriveInv'
<1>1. Types'
  <2>1. TypeOK'
    BY DEF DriveInv, Types, TypeOK
  <2>2. QED
    BY <2>1 DEF DriveInv, Types
<1>2. Placed' = Placed
  BY DEF Placed
<1>3. Sane(script, engine)' /\ Evidence'
  BY EvidenceMoved DEF DriveInv
<1>4. Complete' /\ Replaying' /\ Owing' /\ Matched' /\ Recorded'
  BY <1>2 DEF DriveInv, Complete, Replaying, Owing, Matched, Held, Recorded
<1>5. Ends' /\ Control'
  BY DEF DriveInv, Ends, NoBreach, Control, Opening, Announcing, Concluding, OnlyKills
<1>6. QED
  BY <1>1, <1>3, <1>4, <1>5 DEF DriveInv

\* A worker takes a request from the queue.
LEMMA StartChildKeeps ==
  ASSUME DriveInv, StartChild
  PROVE  DriveInv'
<1> DEFINE id == Head(queue)
<1>1. /\ pc # "off" /\ queue # <<>> /\ running' = running \cup {id} /\ queue' = Tail(queue)
      /\ UNCHANGED <<script, journal, session, engine, results, todo, queued, outstanding, wait, resident,
                     pc, replay, verdict, refused, late, watchdog, opened, channel>>
  BY DEF StartChild, driveVars, timeVars
<1>2. queue \in Seq(Nat) /\ running \in SUBSET Nat /\ IsFiniteSet(running)
  BY DEF DriveInv, Types
<1>3. /\ queue' \in Seq(Nat) /\ Len(queue) \in Nat \ {0} /\ Len(queue') = Len(queue) - 1 /\ id \in Nat
      /\ Members(queue) = Members(queue') \cup {id}
      /\ Once(queue) => Once(queue') /\ id \notin Members(queue')
  BY <1>1, <1>2, Tailed, MembersTail
<1> HIDE DEF id
<1>4. Placement
  BY DEF DriveInv
<1>5. id \notin running
  BY <1>3, <1>4 DEF Placement, Apart
<1>6. /\ running' \in SUBSET Nat /\ IsFiniteSet(running') /\ Cardinality(running) \in Nat
      /\ Cardinality(running') = Cardinality(running) + 1
  BY <1>1, <1>2, <1>3, <1>5, FS_AddElement, FS_CardinalityType
<1>7. Out' = Out
  BY <1>1, <1>3 DEF Out
<1>8. Placement'
  <2>1. Placed' = Placed
    BY <1>1, <1>7 DEF Placed
  <2>2. Apart(Announced(todo), Members(queued), Members(queue), running, Ids(channel), Ids(results))'
    BY <1>1, <1>3, <1>4 DEF Placement, Apart
  <2>3. Len(channel) \in Nat
    BY DEF DriveInv, Types
  <2>4. outstanding' = Len(queue') + Cardinality(running') + Len(channel')
    BY <1>1, <1>3, <1>4, <1>6, <2>3 DEF Placement
  <2>5. QED
    BY <1>1, <1>3, <1>4, <2>1, <2>2, <2>4 DEF Placement
<1>9. ~replay.active /\ channel \in Seq([id : Nat, ok : BOOLEAN])
  BY <1>1 DEF DriveInv, Replaying, Types
<1>10. QED
  BY <1>1, <1>3, <1>6, <1>7, <1>8, <1>9, PoolKeeps

\* A worker reports its child.
LEMMA FinishChildKeeps ==
  ASSUME DriveInv, NEW id \in running, FinishChild(id)
  PROVE  DriveInv'
<1>1. PICK ok \in BOOLEAN : channel' = Append(channel, [id |-> id, ok |-> ok])
  BY DEF FinishChild
<1>2. /\ running' = running \ {id}
      /\ UNCHANGED <<script, journal, session, engine, results, todo, queued, outstanding, wait, resident,
                     pc, replay, verdict, refused, late, watchdog, opened, queue>>
  BY DEF FinishChild, driveVars, timeVars
<1>3. /\ pc # "off" /\ ~replay.active /\ queue \in Seq(Nat)
      /\ running \in SUBSET Nat /\ IsFiniteSet(running) /\ channel \in Seq([id : Nat, ok : BOOLEAN])
  BY DEF DriveInv, Types, Control, Replaying
<1> DEFINE step == [id |-> id, ok |-> ok]
<1>4. step \in [id : Nat, ok : BOOLEAN] /\ step.id = id
  BY <1>3
<1> HIDE DEF step
<1>5. Placement
  BY DEF DriveInv
<1>6. id \notin Ids(channel)
  BY <1>5 DEF Placement, Apart
<1>7. /\ channel' \in Seq([id : Nat, ok : BOOLEAN]) /\ Len(channel) \in Nat
      /\ Len(channel') = Len(channel) + 1
      /\ Ids(channel') = Ids(channel) \cup {id}
      /\ OnceEach(channel) => OnceEach(channel')
  <2> DEFINE S == [id : Nat, ok : BOOLEAN]
  <2>1. channel' = Append(channel, step) /\ channel \in Seq(S) /\ step \in S
    BY <1>1, <1>3, <1>4 DEF step
  <2> HIDE DEF S
  <2>2. channel' \in Seq(S) /\ Len(channel) \in Nat /\ Len(channel') = Len(channel) + 1
    BY <2>1, Appended
  <2>3. /\ Ids(channel') = Ids(channel) \cup {step.id}
        /\ OnceEach(channel) /\ step.id \notin Ids(channel) => OnceEach(channel')
    BY <2>1, IdsAppended
  <2>4. QED
    BY <1>4, <1>6, <2>2, <2>3 DEF S
<1>8. /\ running' \in SUBSET Nat /\ IsFiniteSet(running') /\ Cardinality(running) \in Nat
      /\ Cardinality(running') = Cardinality(running) - 1
  BY <1>2, <1>3, FS_RemoveElement, FS_CardinalityType
<1>9. Out' = Out
  BY <1>2, <1>7 DEF Out
<1>10. Placement'
  <2>1. Placed' = Placed
    BY <1>2, <1>9 DEF Placed
  <2>2. Apart(Announced(todo), Members(queued), Members(queue), running, Ids(channel), Ids(results))'
    BY <1>2, <1>5, <1>7 DEF Placement, Apart
  <2>3. Len(queue) \in Nat
    BY <1>3
  <2>4. outstanding' = Len(queue') + Cardinality(running') + Len(channel')
    BY <1>2, <1>5, <1>7, <1>8, <2>3 DEF Placement
  <2>5. QED
    BY <1>2, <1>5, <1>7, <2>1, <2>2, <2>4 DEF Placement
<1>11. QED
  BY <1>2, <1>3, <1>7, <1>8, <1>9, <1>10, PoolKeeps

-----------------------------------------------------------------------------
(* Outcomes are received                                                   *)

\* The loop records the outcome of a child and takes its result.
LEMMA ReceiveKeeps ==
  ASSUME DriveInv, Receive
  PROVE  DriveInv'
<1> DEFINE step == Head(channel)
           id == step.id
           ok == step.ok
           fed == [id |-> id, value |-> IF ok THEN session ELSE Null]
<1>1. /\ pc \in {"collect", "await", "drain"} /\ channel # <<>>
      /\ journal' = Append(journal, Settled(id, ok)) /\ results' = Append(results, fed)
      /\ resident' = (IF ok THEN resident + 1 ELSE resident)
      /\ outstanding' = outstanding - 1 /\ wait' = Max({wait - 1, 0})
      /\ channel' = Tail(channel)
      /\ UNCHANGED <<script, session, pc, engine, replay, todo, queued, verdict, refused,
                     queue, running, late, watchdog, opened>>
  BY DEF Receive, StillOut, StillAwaited, timeVars
<1>2. /\ channel \in Seq([id : Nat, ok : BOOLEAN]) /\ results \in Seq(Result)
      /\ journal \in Seq(Event) /\ session \in Nat /\ resident \in Nat
      /\ outstanding \in Nat /\ wait \in 0..outstanding
      /\ queue \in Seq(Nat) /\ running \in SUBSET Nat /\ IsFiniteSet(running)
  BY ScriptIs DEF DriveInv, Types, TypeOK
<1>3. Placement
  BY DEF DriveInv
<1>4. todo = <<>> /\ queued = <<>> /\ ~replay.active /\ ~refused /\ session # 0
  BY <1>1 DEF DriveInv, Control, Replaying
<1>5. /\ channel' \in Seq([id : Nat, ok : BOOLEAN]) /\ Len(channel) \in Nat \ {0}
      /\ Len(channel') = Len(channel) - 1 /\ id \in Nat /\ ok \in BOOLEAN
      /\ Ids(channel) = Ids(channel') \cup {id}
      /\ OnceEach(channel) => OnceEach(channel') /\ id \notin Ids(channel')
  <2> DEFINE S == [id : Nat, ok : BOOLEAN]
  <2>1. channel \in Seq(S) /\ \A x \in S : x.id \in Nat /\ x.ok \in BOOLEAN
    BY <1>2
  <2> HIDE DEF S
  <2>2. /\ channel' \in Seq(S) /\ Len(channel) \in Nat \ {0} /\ Len(channel') = Len(channel) - 1
        /\ step \in S
    BY <1>1, <2>1, Tailed
  <2>3. /\ Ids(channel) = Ids(channel') \cup {step.id}
        /\ OnceEach(channel) => OnceEach(channel') /\ step.id \notin Ids(channel')
    BY <1>1, <2>1, IdsTail
  <2>4. QED
    BY <2>1, <2>2, <2>3 DEF S
<1> HIDE DEF step
<1>6. fed \in Result /\ fed.id = id /\ fed.value = (IF ok THEN session ELSE Null)
  BY <1>2, <1>5 DEF Result, Null
<1> HIDE DEF fed, id, ok
<1>7. /\ id \in Ids(channel) /\ id \in Out /\ id \notin Ids(results) /\ id \notin Members(queued)
      /\ id \notin Members(queue) /\ id \notin running
  BY <1>3, <1>5 DEF Placement, Apart, Out
<1>8. /\ results' \in Seq(Result) /\ Len(results) \in Nat /\ Len(results') = Len(results) + 1
      /\ \A i \in 1..Len(results) : results'[i] = results[i]
      /\ results'[Len(results) + 1] = fed
      /\ \A i \in 1..Len(results') : i \in 1..Len(results) \/ i = Len(results) + 1
      /\ Ids(results') = Ids(results) \cup {id} /\ OnceEach(results')
  BY <1>1, <1>2, <1>3, <1>6, <1>7, Appended, IdsAppended DEF Placement
<1>9. Out = Out' \cup {id} /\ id \notin Out' /\ Placed' = Placed
  <2>1. Out = Out' \cup {id}
    BY <1>1, <1>5 DEF Out
  <2>2. id \notin Out'
    BY <1>1, <1>3, <1>5, <1>7 DEF Out, Placement
  <2>3. Placed' = Placed
    BY <1>1, <1>8, <2>1 DEF Placed
  <2>4. QED
    BY <2>1, <2>2, <2>3
<1>10. Placement'
  <2>1. Apart(Announced(todo), Members(queued), Members(queue), running, Ids(channel), Ids(results))'
    BY <1>1, <1>3, <1>5, <1>7, <1>8, <1>4, Empties DEF Placement, Apart
  <2>2. Len(queue) \in Nat /\ Cardinality(running) \in Nat
    BY <1>2, FS_CardinalityType
  <2>3. outstanding' = Len(queue') + Cardinality(running') + Len(channel')
    BY <1>1, <1>3, <1>5, <2>2 DEF Placement
  <2>4. QED
    BY <1>1, <1>3, <1>5, <1>8, <1>9, <2>1, <2>3 DEF Placement
<1>11. outstanding # 0
  <2>1. Len(queue) \in Nat /\ Cardinality(running) \in Nat
    BY <1>2, FS_CardinalityType
  <2>2. QED
    BY <1>3, <1>5, <2>1 DEF Placement
<1>12. /\ Settled(id, ok) \in Event /\ IsOutcome(Settled(id, ok)) /\ Settled(id, ok).id = id
       /\ Settled(id, ok).type \notin {"spawned", "ended"}
  BY <1>5, EventsAre
<1>13. /\ journal' \in Seq(Event) /\ Len(journal') = Len(journal) + 1 /\ Len(journal) \in Nat
       /\ \A i \in 1..Len(journal) : journal'[i] = journal[i]
       /\ \A i \in 1..Len(journal') : i \in 1..Len(journal) \/ journal'[i] = Settled(id, ok)
       /\ Announced(journal') = Announced(journal)
  BY <1>1, <1>2, <1>12, Appended, AnnouncedAppended
<1>14. \A j \in Announced(journal) : j # id =>
         Load(journal')[j] = Load(journal)[j] /\ Since(journal', j) = Since(journal, j)
  BY <1>1, <1>2, <1>12, EntryKept
<1>15. id \in Announced(journal) /\ Load(journal)[id] = Fresh(id)
  BY <1>7 DEF DriveInv, Evidence
<1>16. /\ Since(journal', id) = Since(journal, id) \cup {Len(journal) + 1}
       /\ Load(journal')[id] = [request |-> Load(journal)[id].request, run |-> Load(journal)[id].run,
                                at |-> Len(journal) + 1, ok |-> ok]
  BY <1>1, <1>2, <1>5, <1>15, EntrySettled
<1>17. /\ Load(journal')[id].request = Load(journal)[id].request
       /\ Load(journal')[id].at = Len(journal) + 1 /\ Load(journal')[id].ok = ok
       /\ Load(journal')[id].run = session /\ Load(journal)[id].at = 0
  BY <1>15, <1>16 DEF Fresh
<1>18. Since(journal, id) = {}
  BY <1>2, <1>15, <1>17, EntryIs
<1>19. Types'
  <2>1. wait' \in 0..outstanding' /\ outstanding' \in Nat /\ resident' \in Nat
    <3>1. wait' \in 0..(outstanding - 1)
      BY <1>1, <1>2, <1>11, CountersAre
    <3>2. resident' \in Nat
      BY <1>1, <1>2
    <3>3. outstanding - 1 \in Nat
      BY <1>2, <1>11
    <3>4. QED
      BY <1>1, <3>1, <3>2, <3>3
  <2>2. \A i \in 1..Len(journal') : journal'[i].type = "ended" => journal'[i].outcome \in Outcomes
    BY <1>12, <1>13 DEF DriveInv, Types, TypeOK
  <2>3. TypeOK'
    BY <1>1, <2>1, <2>2 DEF DriveInv, Types, TypeOK
  <2>4. QED
    BY <1>1, <1>5, <1>8, <1>13, <2>3 DEF DriveInv, Types
<1>20. Sane(script, engine)' /\ Complete'
  BY <1>1, <1>9 DEF DriveInv, Complete
<1>21. Evidence'
  <2>1. \A j : Fresh(j)' = Fresh(j)
    BY <1>1 DEF Fresh, Request
  <2>2. \A j \in Out' : j \in Announced(journal') /\ Load(journal')[j] = Fresh(j)'
    BY <1>9, <1>13, <1>14, <2>1 DEF DriveInv, Evidence
  <2>3. \A i \in 1..Len(results') :
          /\ results'[i].id \in Announced(journal') /\ Load(journal')[results'[i].id].at > 0
          /\ results'[i].value = Outcome(Load(journal')[results'[i].id])
    <3>1. ASSUME NEW i \in 1..Len(results)
          PROVE  /\ results[i].id \in Announced(journal') /\ Load(journal')[results[i].id].at > 0
                 /\ results[i].value = Outcome(Load(journal')[results[i].id])
      <4>1. results[i].id # id
        BY <1>7 DEF Ids
      <4>2. QED
        BY <1>13, <1>14, <4>1 DEF DriveInv, Evidence
    <3>2. /\ fed.id \in Announced(journal') /\ Load(journal')[fed.id].at > 0
          /\ fed.value = Outcome(Load(journal')[fed.id])
      BY <1>6, <1>13, <1>15, <1>17 DEF Outcome
    <3>3. QED
      BY <1>8, <3>1, <3>2
  <2>4. ScriptSawTheLog'
    <3>1. engine.status[engine.issued[id]] = "awaited"
      BY <1>3, <1>7 DEF Placement, Placed, Awaiting
    <3>2. \A j \in 1..Len(engine.issued) : engine.status[engine.issued[j]] = "settled" => j # id
      BY <3>1
    <3>3. DOMAIN Load(journal') = DOMAIN Load(journal) /\ DOMAIN Load(journal) = Announced(journal)
      BY <1>13, LoadDomain
    <3>4. ASSUME NEW j \in 1..Len(engine.issued), engine.status[engine.issued[j]] = "settled"
          PROVE  /\ j \in DOMAIN Load(journal') /\ Load(journal')[j].at > 0
                 /\ engine.seen[engine.issued[j]] =
                      IF Load(journal')[j].ok THEN Load(journal')[j].run ELSE Null
      <4>1. /\ j \in DOMAIN Load(journal) /\ Load(journal)[j].at > 0
            /\ engine.seen[engine.issued[j]] =
                 IF Load(journal)[j].ok THEN Load(journal)[j].run ELSE Null
        BY <3>4 DEF DriveInv, Evidence, ScriptSawTheLog
      <4>2. Load(journal')[j] = Load(journal)[j]
        BY <1>14, <3>2, <3>3, <3>4, <4>1
      <4>3. QED
        BY <3>3, <4>1, <4>2
    <3>5. QED
      BY <1>1, <3>4 DEF ScriptSawTheLog
  <2>5. todo' = <<>>
    BY <1>1, <1>4
  <2>6. QED
    BY <2>2, <2>3, <2>4, <2>5 DEF Evidence
<1>22. Replaying'
  BY <1>1, <1>4 DEF DriveInv, Replaying
<1>23. Owing'
  <2>1. \A j \in Announced(journal) :
          Load(journal)[j].at = 0 /\ ~Held(j) => j \in Announced(todo) \cup Out
    BY <1>1 DEF DriveInv, Owing
  <2>2. \A j : Held(j)' = Held(j)
    BY <1>1 DEF Held
  <2>3. ASSUME NEW j \in Announced(journal), Load(journal')[j].at = 0, ~Held(j)
        PROVE  j \in Announced(todo) \cup Out'
    <3>1. j # id
      BY <1>13, <1>17, <2>3
    <3>2. QED
      BY <1>9, <1>14, <2>1, <2>3, <3>1
  <2>4. QED
    BY <1>1, <1>13, <2>2, <2>3 DEF Owing
<1>24. \A j \in Announced(journal) : Load(journal')[j].request = Load(journal)[j].request
  BY <1>14, <1>17
<1>25. Matched'
  BY <1>1, <1>13, <1>24 DEF DriveInv, Matched, Held
<1>26. Recorded'
  <2>1. \A j \in Announced(journal) : \A i \in Since(journal', j) : i = Load(journal')[j].at
    <3>1. ASSUME NEW j \in Announced(journal), NEW i \in Since(journal', j)
          PROVE  i = Load(journal')[j].at
      <4>1. CASE j = id
        BY <1>16, <1>17, <1>18, <3>1, <4>1
      <4>2. CASE j # id
        BY <1>14, <3>1, <4>2 DEF DriveInv, Recorded
      <4>3. QED
        BY <4>1, <4>2
    <3>2. QED
      BY <3>1
  <2>2. QED
    BY <1>13, <1>24, <2>1 DEF DriveInv, Recorded
<1>27. Ends'
  BY <1>1, <1>12, <1>13 DEF DriveInv, Ends, NoBreach
<1>28. Control'
  BY <1>1, <1>4 DEF DriveInv, Control
<1>29. QED
  BY <1>10, <1>19, <1>20, <1>21, <1>22, <1>23, <1>25, <1>26, <1>27, <1>28 DEF DriveInv

-----------------------------------------------------------------------------
(* Appends                                                                 *)

\* A list followed by nothing.
LEMMA NothingMore ==
  ASSUME NEW S, NEW s \in Seq(S)
  PROVE  s \o <<>> = s
  OBVIOUS

\* The loop appends a marker or an outcome of the run: no child moves, no
\* entry of the index does.
LEMMA MarkKeeps ==
  ASSUME DriveInv, pc = "append",
         NEW e \in Event, todo # <<>>, e = Head(todo), e.type # "spawned", ~IsOutcome(e),
         journal' = Append(journal, e), todo' = Tail(todo),
         UNCHANGED <<script, session, engine, results, replay, queued, outstanding, resident, verdict,
                     refused, queue, running, channel, late, opened>>,
         wait' \in 0..outstanding, watchdog' \in {"off", "armed", "retired", "fired", "recorded"},
         pc' \in {"append", "join"} \/ (pc' = "step" /\ ~replay.active),
         e.type = "ended" => pc' = "join" /\ e.outcome \in Verdicts,
         Complete', Control'
  PROVE  DriveInv'
<1>1. journal \in Seq(Event) /\ todo \in Seq(Event)
  BY DEF DriveInv, Types
<1>2. /\ journal' \in Seq(Event) /\ Announced(journal') = Announced(journal)
      /\ Load(journal') = Load(journal)
      /\ \A id \in Announced(journal) : Since(journal', id) = Since(journal, id)
  BY <1>1, IndexKept
<1>3. \A i \in 1..Len(journal') : \/ i \in 1..Len(journal) /\ journal'[i] = journal[i]
                                  \/ journal'[i] = e
  BY <1>1, Appended
<1>4. /\ todo' \in Seq(Event)
      /\ \A i \in 1..Len(todo') : i + 1 \in 1..Len(todo) /\ todo'[i] = todo[i + 1]
  BY <1>1, Tailed
<1>5. Announced(todo') = Announced(todo) /\ (AnnouncedOnce(todo) => AnnouncedOnce(todo'))
  BY <1>1, AnnouncedTail
<1>6. Types'
  <2>1. e.type = "ended" => e.outcome \in Outcomes
    BY EventFields
  <2>2. TypeOK'
    BY <1>3, <2>1 DEF DriveInv, Types, TypeOK, Locations
  <2>3. QED
    BY <1>2, <1>4, <2>2 DEF DriveInv, Types
<1>7. Sane(script, engine)' /\ Out' = Out /\ Placed' = Placed
  BY <1>5 DEF DriveInv, Out, Placed
<1>8. Placement'
  BY <1>5, <1>7 DEF DriveInv, Placement
<1>9. Evidence'
  <2>1. \A id : Fresh(id)' = Fresh(id)
    BY DEF Fresh, Request
  <2>2. ScriptSawTheLog'
    BY <1>2 DEF DriveInv, Evidence, ScriptSawTheLog
  <2>3. QED
    BY <1>2, <1>4, <1>7, <2>1, <2>2 DEF DriveInv, Evidence
<1>10. Replaying'
  BY <1>2, <1>5 DEF DriveInv, Replaying
<1>11. Owing' /\ Matched' /\ Recorded'
  BY <1>2, <1>5, <1>7, RecordedKept DEF DriveInv, Owing, Matched, Held
<1>12. Ends'
  <2>1. e.type = "ended" => e.outcome \notin {"engine_invariant_breach", "unknown_result"}
    BY DEF Verdicts
  <2>2. NoBreach'
    BY <1>3, <2>1 DEF DriveInv, Ends, NoBreach
  <2>3. pc' \notin {"off", "join", "stuck"} =>
         \A i \in 1..Len(journal') :
           journal'[i].type = "ended" => journal'[i].outcome \in {"wall_deadline", "watchdog_kill"}
    BY <1>3 DEF DriveInv, Ends
  <2>4. QED
    BY <2>2, <2>3 DEF Ends
<1>13. QED
  BY <1>6, <1>7, <1>8, <1>9, <1>10, <1>11, <1>12 DEF DriveInv

\* The loop appends the announcement of a child.
LEMMA AnnounceKeeps ==
  ASSUME DriveInv, pc = "append", todo # <<>>, NEW e \in Event, e = Head(todo), e.type = "spawned",
         journal' = Append(journal, e), todo' = Tail(todo),
         UNCHANGED <<script, session, engine, results, replay, resident, verdict,
                     refused, running, channel, late, watchdog, opened>>,
         ~replay.active, Types', Placement', Out' = Out \cup {e.id}, Control',
         pc' \in {"append", "collect"}, Announced(todo') # {} \/ pc' = "collect"
  PROVE  DriveInv'
<1> DEFINE id == e.id
<1>1. journal \in Seq(Event) /\ todo \in Seq(Event) /\ script \in Script /\ engine \in Engine /\ session \in Nat
  BY ScriptIs DEF DriveInv, Types
<1>2. Announced(todo) = Announced(todo') \cup {id} /\ id \notin Announced(todo')
  BY <1>1, AnnouncedTail DEF DriveInv, Placement
<1>3. /\ \A i \in 1..Len(todo') : i + 1 \in 1..Len(todo) /\ todo'[i] = todo[i + 1]
      /\ 1 \in 1..Len(todo) /\ e = todo[1]
  BY <1>1, Tailed
<1>4. Placed' = Placed
  BY <1>2 DEF Placed
<1> HIDE DEF id
<1>5. /\ id \in Awaiting(engine) /\ id \notin Out /\ id \notin Ids(results)
  BY <1>2 DEF DriveInv, Placement, Placed, Apart, Out
<1>6. id \in 1..Len(engine.issued) /\ engine.status[engine.issued[id]] = "awaited" /\ id \in Nat
      /\ engine.issued[id] \in Calls
  BY <1>1, <1>5 DEF Awaiting, Engine
<1>7. /\ e = Spawned(id, Request(script, engine, engine.issued[id]), session)
      /\ id \in Announced(journal) => Load(journal)[id].at = 0
  BY <1>3 DEF DriveInv, Evidence, id
<1>8. /\ Request(script, engine, engine.issued[id]) \in Asked
      /\ Request(script, engine, engine.issued[id]).call = engine.issued[id]
  BY <1>1, <1>6, RequestIs
<1>9. Announced(journal') = Announced(journal) \cup {id}
  BY <1>1, AnnouncedAppended DEF id
<1>10. \A j \in Announced(journal) : j # id =>
         Load(journal')[j] = Load(journal)[j] /\ Since(journal', j) = Since(journal, j)
  BY <1>1, EntryKept DEF id, IsOutcome
<1>11. Load(journal')[id] = Fresh(id) /\ Since(journal', id) = {}
  BY <1>1, <1>6, <1>7, <1>8, EntryOpened DEF Fresh
<1>12. /\ Load(journal')[id].at = 0
       /\ Load(journal')[id].request.call = engine.issued[id]
  BY <1>8, <1>11 DEF Fresh
<1>13. Sane(script, engine)'
  BY DEF DriveInv
<1>14. Complete'
  BY <1>2, <1>4 DEF DriveInv, Complete
<1>15. Evidence'
  <2>1. \A j : Fresh(j)' = Fresh(j)
    BY DEF Fresh, Request
  <2>2. \A j \in Out' : j \in Announced(journal') /\ Load(journal')[j] = Fresh(j)'
    <3>1. ASSUME NEW j \in Out
          PROVE  j \in Announced(journal') /\ Load(journal')[j] = Fresh(j)
      BY <1>5, <1>9, <1>10, <3>1 DEF DriveInv, Evidence
    <3>2. id \in Announced(journal') /\ Load(journal')[id] = Fresh(id)
      BY <1>9, <1>11
    <3>3. QED
      BY <2>1, <3>1, <3>2 DEF id
  <2>3. \A i \in 1..Len(todo') : todo'[i].type = "spawned" =>
          /\ todo'[i] = Spawned(todo'[i].id, Request(script, engine, engine.issued[todo'[i].id]), session)
          /\ todo'[i].id \in Announced(journal') => Load(journal')[todo'[i].id].at = 0
    <3>1. ASSUME NEW i \in 1..Len(todo'), todo'[i].type = "spawned"
          PROVE  /\ todo'[i] = Spawned(todo'[i].id, Request(script, engine, engine.issued[todo'[i].id]), session)
                 /\ todo'[i].id \in Announced(journal') => Load(journal')[todo'[i].id].at = 0
      <4>1. todo'[i].id # id
        BY <1>2, <3>1 DEF Announced
      <4>2. /\ todo'[i] = Spawned(todo'[i].id, Request(script, engine, engine.issued[todo'[i].id]), session)
            /\ todo'[i].id \in Announced(journal) => Load(journal)[todo'[i].id].at = 0
        BY <1>3, <3>1 DEF DriveInv, Evidence
      <4>3. QED
        BY <1>9, <1>10, <4>1, <4>2
    <3>2. QED
      BY <3>1
  <2>4. \A i \in 1..Len(results) :
          /\ results[i].id \in Announced(journal') /\ Load(journal')[results[i].id].at > 0
          /\ results[i].value = Outcome(Load(journal')[results[i].id])
    <3>1. ASSUME NEW i \in 1..Len(results)
          PROVE  /\ results[i].id \in Announced(journal') /\ Load(journal')[results[i].id].at > 0
                 /\ results[i].value = Outcome(Load(journal')[results[i].id])
      <4>1. results[i].id # id
        BY <1>5 DEF Ids
      <4>2. QED
        BY <1>9, <1>10, <4>1 DEF DriveInv, Evidence
    <3>2. QED
      BY <3>1
  <2>5. ScriptSawTheLog'
    <3>1. \A j \in 1..Len(engine.issued) : engine.status[engine.issued[j]] = "settled" => j # id
      BY <1>6
    <3>2. DOMAIN Load(journal') = Announced(journal') /\ DOMAIN Load(journal) = Announced(journal)
      BY LoadDomain
    <3>3. ASSUME NEW j \in 1..Len(engine.issued), engine.status[engine.issued[j]] = "settled"
          PROVE  /\ j \in DOMAIN Load(journal') /\ Load(journal')[j].at > 0
                 /\ engine.seen[engine.issued[j]] =
                      IF Load(journal')[j].ok THEN Load(journal')[j].run ELSE Null
      <4>1. /\ j \in DOMAIN Load(journal) /\ Load(journal)[j].at > 0
            /\ engine.seen[engine.issued[j]] =
                 IF Load(journal)[j].ok THEN Load(journal)[j].run ELSE Null
        BY <3>3 DEF DriveInv, Evidence, ScriptSawTheLog
      <4>2. Load(journal')[j] = Load(journal)[j] /\ j \in Announced(journal')
        BY <1>9, <1>10, <3>1, <3>2, <3>3, <4>1
      <4>3. QED
        BY <3>2, <4>1, <4>2
    <3>4. QED
      BY <3>3 DEF ScriptSawTheLog
  <2>6. QED
    BY <2>2, <2>3, <2>4, <2>5 DEF Evidence
<1>16. Replaying'
  BY DEF DriveInv, Replaying
<1>17. \A j : ~Held(j) /\ ~Held(j)'
  BY DEF Held
<1>18. Owing'
  <2>1. \A j \in Announced(journal) : Load(journal)[j].at = 0 => j \in Announced(todo) \cup Out
    BY <1>17 DEF DriveInv, Owing
  <2>2. ASSUME NEW j \in Announced(journal'), Load(journal')[j].at = 0
        PROVE  j \in Announced(todo') \cup Out'
    <3>1. CASE j = id
      BY <3>1 DEF id
    <3>2. CASE j # id
      <4>1. j \in Announced(journal) /\ Load(journal)[j].at = 0
        BY <1>9, <1>10, <2>2, <3>2
      <4>2. QED
        BY <1>2, <2>1, <3>2, <4>1
    <3>3. QED
      BY <3>1, <3>2
  <2>3. QED
    BY <2>2 DEF Owing
<1>19. \A j \in Announced(journal') : /\ j \in 1..Len(engine.issued)
                                      /\ Load(journal')[j].request.call = engine.issued[j]
  <2>1. \A j \in Announced(journal) : /\ j \in 1..Len(engine.issued)
                                      /\ Load(journal)[j].request.call = engine.issued[j]
    BY <1>17 DEF DriveInv, Matched
  <2>2. QED
    BY <1>6, <1>9, <1>10, <1>12, <2>1
<1>20. Matched'
  BY <1>19 DEF Matched
<1>21. Recorded'
  <2>1. \A i, j \in 1..Len(engine.issued) : engine.issued[i] = engine.issued[j] => i = j
    BY DEF DriveInv, Sane
  <2>2. \A i, j \in Announced(journal') :
          Load(journal')[i].request.call = Load(journal')[j].request.call => i = j
    BY <1>19, <2>1
  <2>3. \A j \in Announced(journal') : \A i \in Since(journal', j) : i = Load(journal')[j].at
    <3>1. ASSUME NEW j \in Announced(journal'), NEW i \in Since(journal', j)
          PROVE  i = Load(journal')[j].at
      <4>1. j # id
        BY <1>11, <3>1
      <4>2. QED
        BY <1>9, <1>10, <3>1, <4>1 DEF DriveInv, Recorded
    <3>2. QED
      BY <3>1
  <2>4. QED
    BY <2>2, <2>3 DEF Recorded
<1>22. Ends'
  <2>1. \A i \in 1..Len(journal') : \/ i \in 1..Len(journal) /\ journal'[i] = journal[i]
                                    \/ journal'[i] = e
    BY <1>1, Appended
  <2>2. QED
    BY <2>1 DEF DriveInv, Ends, NoBreach
<1>23. QED
  BY <1>13, <1>14, <1>15, <1>16, <1>18, <1>20, <1>21, <1>22 DEF DriveInv

\* What an append of the loop does, by the event: `last` is whether it is the
\* last one pending.
LEMMA AppendIs ==
  ASSUME DriveInv, AppendEvent
  PROVE  /\ pc = "append" /\ todo # <<>> /\ todo \in Seq(Event) /\ Head(todo) \in Event
         /\ journal' = Append(journal, Head(todo)) /\ todo' = Tail(todo)
         /\ UNCHANGED <<script, session, engine, results, replay, resident, verdict, refused,
                        running, channel, late, opened>>
         /\ Len(todo) # 1 => todo' # <<>> /\ pc' = "append" /\ wait' = wait
         /\ Len(todo) = 1 => todo' = <<>> /\ queued' = <<>> /\ wait' = Min({1, outstanding'})
         /\ Head(todo).type # "spawned" =>
              /\ queued = <<>> /\ queued' = <<>>
              /\ queue' = queue /\ outstanding' = outstanding
         /\ Head(todo).type = "spawned" =>
              LET ready == Append(queued, Head(todo).id)
              IN  /\ watchdog' = watchdog
                  /\ Len(todo) # 1 => queued' = ready /\ queue' = queue /\ outstanding' = outstanding
                  /\ Len(todo) = 1 => /\ pc' = "collect" /\ queue' = queue \o ready
                                      /\ outstanding' = outstanding + Len(ready)
<1> DEFINE e == Head(todo)
           ready == IF e.type = "spawned" THEN Append(queued, e.id) ELSE queued
           last == Len(todo) = 1
<1>1. /\ pc = "append"
      /\ journal' = Append(journal, e) /\ todo' = Tail(todo)
      /\ queued' = (IF last THEN <<>> ELSE ready)
      /\ queue' = queue \o Enqueued(ready, last)
      /\ outstanding' = outstanding + Len(Enqueued(ready, last))
      /\ wait' = (IF last THEN Min({1, outstanding'}) ELSE wait)
      /\ pc' = (IF ~last THEN "append"
                ELSE CASE e.type = "started" -> "step"
                       [] e.type = "spawned" -> "collect"
                       [] e.type = "ended"   -> "join")
      /\ watchdog' = (CASE e.type = "started" -> "armed"
                        [] e.type = "ended"   -> Retired
                        [] OTHER                  -> watchdog)
      /\ UNCHANGED <<script, session, engine, results, replay, resident, verdict, refused,
                     running, channel, late, opened>>
  BY DEF AppendEvent
<1>2. todo \in Seq(Event) /\ queue \in Seq(Nat) /\ outstanding \in Nat /\ queued \in Seq(Nat)
  BY DEF DriveInv, Types, TypeOK
<1>3. todo # <<>>
  BY <1>1 DEF DriveInv, Control, Opening, Announcing, Concluding
<1>4. e \in Event /\ (last => Tail(todo) = <<>>) /\ (~last => Tail(todo) # <<>>) /\ e = todo[1] /\ 1 \in 1..Len(todo)
  BY <1>2, <1>3, Tailed
<1>5. e.type # "spawned" => queued = <<>>
  <2> SUFFICES ASSUME e.type # "spawned"
               PROVE  queued = <<>>
    OBVIOUS
  <2>1. CASE Announcing
    BY <1>4, <2>1 DEF Announcing
  <2>2. QED
    BY <1>1, <2>1 DEF DriveInv, Control, Opening, Concluding
<1>6. queue \o <<>> = queue /\ outstanding + Len(<<>>) = outstanding
  BY <1>2, NothingMore
<1> HIDE DEF e
<1>7. e.type # "spawned" => queued' = <<>> /\ queue' = queue /\ outstanding' = outstanding
  BY <1>1, <1>5, <1>6 DEF Enqueued
<1>8. e.type = "spawned" => /\ ready = Append(queued, e.id) /\ watchdog' = watchdog
                            /\ (last => pc' = "collect")
  BY <1>1
<1>9. e.type = "spawned" => /\ ~last => queued' = ready /\ queue' = queue /\ outstanding' = outstanding
                            /\ last => queue' = queue \o ready /\ outstanding' = outstanding + Len(ready)
  BY <1>1, <1>6 DEF Enqueued
<1> HIDE DEF ready, last
<1>10. e.type = "spawned" =>
              LET now == Append(queued, e.id)
              IN  /\ watchdog' = watchdog
                  /\ ~last => queued' = now /\ queue' = queue /\ outstanding' = outstanding
                  /\ last => /\ pc' = "collect" /\ queue' = queue \o now
                             /\ outstanding' = outstanding + Len(now)
  BY <1>8, <1>9
<1>11. (~last => pc' = "append" /\ wait' = wait) /\ (last => queued' = <<>> /\ wait' = Min({1, outstanding'}))
  BY <1>1
<1>12. QED
  BY <1>1, <1>2, <1>3, <1>4, <1>5, <1>7, <1>10, <1>11 DEF e, last

\* Fewer children are waited for than are out.
LEMMA WaitIs ==
  ASSUME DriveInv, AppendEvent, outstanding' \in Nat, outstanding <= outstanding'
  PROVE  wait' \in 0..outstanding'
<1>1. wait \in 0..outstanding /\ outstanding \in Nat
  BY DEF DriveInv, Types, TypeOK
<1>2. wait' = wait \/ wait' = Min({1, outstanding'})
  BY AppendIs
<1>3. wait \in 0..outstanding'
  BY <1>1
<1>4. QED
  BY <1>2, <1>3, CountersAre

\* A batch is announced in full before the pool has any of it.
LEMMA AppendSpawnKeeps ==
  ASSUME DriveInv, AppendEvent, Head(todo).type = "spawned"
  PROVE  DriveInv'
<1> DEFINE e == Head(todo)
           id == e.id
           ready == Append(queued, id)
<1>1. /\ pc = "append" /\ todo # <<>> /\ todo \in Seq(Event) /\ e \in Event /\ e.type = "spawned"
      /\ journal' = Append(journal, e) /\ todo' = Tail(todo)
      /\ UNCHANGED <<script, session, engine, results, replay, resident, verdict, refused,
                     running, channel, late, watchdog, opened>>
      /\ Len(todo) # 1 => /\ todo' # <<>> /\ pc' = "append"
                          /\ queued' = ready /\ queue' = queue /\ outstanding' = outstanding
      /\ Len(todo) = 1 => /\ todo' = <<>> /\ queued' = <<>> /\ pc' = "collect" /\ queue' = queue \o ready
                          /\ outstanding' = outstanding + Len(ready)
  BY AppendIs
<1>2. /\ e = todo[1] /\ 1 \in 1..Len(todo) /\ todo' \in Seq(Event) /\ id \in Nat
      /\ \A i \in 1..Len(todo') : todo'[i] = todo[i + 1] /\ i + 1 \in 1..Len(todo) /\ i + 1 # 1
  <2>1. /\ e = todo[1] /\ 1 \in 1..Len(todo) /\ todo' \in Seq(Event)
        /\ \A i \in 1..Len(todo') : todo'[i] = todo[i + 1] /\ i + 1 \in 1..Len(todo) /\ i + 1 # 1
    BY <1>1, Tailed
  <2>2. id \in Nat
    BY <1>1, EventFields
  <2>3. QED
    BY <2>1, <2>2
<1>3. Announcing
  <2>1. e # Started /\ e # Resumed /\ \A o \in Verdicts : e # Ended(o)
    BY <1>1, EventsAre DEF Verdicts
  <2>2. ~Opening
    BY <1>2, <2>1 DEF Opening
  <2>3. ~Concluding
    <3> SUFFICES ASSUME Concluding PROVE FALSE
      OBVIOUS
    <3>1. PICK o \in Verdicts : todo \in {<<Ended(o)>>, <<Resumed, Ended(o)>>}
      BY DEF Concluding
    <3>2. todo[1] = Ended(o) \/ todo[1] = Resumed
      BY <3>1
    <3>3. QED
      BY <1>2, <2>1, <3>2
  <2>4. QED
    BY <1>1, <2>2, <2>3 DEF DriveInv, Control
<1> HIDE DEF e
<1>4. ~replay.active /\ \A i \in 1..Len(todo') : todo'[i].type = "spawned"
  BY <1>2, <1>3 DEF Announcing
<1>5. Announced(todo') # {} \/ pc' = "collect"
  <2>1. CASE Len(todo) = 1
    BY <1>1, <2>1
  <2>2. CASE Len(todo) # 1
    <3>1. todo' # <<>>
      BY <1>1, <2>2
    <3>2. 1 \in 1..Len(todo')
      BY <1>2, <3>1
    <3>3. QED
      BY <1>4, <3>2 DEF Announced
  <2>3. QED
    BY <2>1, <2>2
<1>6. Placement /\ queued \in Seq(Nat) /\ queue \in Seq(Nat) /\ outstanding \in Nat
  BY DEF DriveInv, Types, TypeOK
<1>7. Announced(todo) = Announced(todo') \cup {id} /\ id \notin Announced(todo') /\ AnnouncedOnce(todo')
  BY <1>1, <1>6, AnnouncedTail DEF Placement, e
<1>8. id \notin Members(queued) /\ id \notin Members(queue)
  BY <1>6, <1>7 DEF Placement, Apart
<1> HIDE DEF id
<1>9. /\ ready \in Seq(Nat) /\ Members(ready) = Members(queued) \cup {id} /\ Once(ready) /\ Len(ready) \in Nat
  <2>1. ready \in Seq(Nat)
    BY <1>2, <1>6
  <2>2. Members(ready) = Members(queued) \cup {id} /\ Once(ready)
    BY <1>2, <1>6, <1>8, MembersAppended DEF Placement
  <2>3. Len(ready) \in Nat
    BY <2>1
  <2>4. QED
    BY <2>1, <2>2, <2>3
<1> HIDE DEF ready
<1>10. /\ queue \o ready \in Seq(Nat) /\ Len(queue \o ready) = Len(queue) + Len(ready)
       /\ Members(queue \o ready) = Members(queue) \cup Members(ready)
       /\ Once(queue \o ready)
  <2>1. Members(queue) \cap Members(ready) = {}
    BY <1>6, <1>8, <1>9 DEF Placement, Apart
  <2>2. Once(queue)
    BY <1>6 DEF Placement
  <2>3. QED
    BY <1>6, <1>9, <2>1, <2>2, Concatenated
<1>11. /\ queued' \in Seq(Nat) /\ queue' \in Seq(Nat) /\ outstanding' \in Nat /\ outstanding <= outstanding'
       /\ Once(queued') /\ Once(queue')
       /\ Members(queued') \cup Members(queue') = Members(queued) \cup Members(queue) \cup {id}
       /\ Members(queued') \cap Members(queue') = {}
       /\ outstanding' = Len(queue') + Cardinality(running') + Len(channel')
  <2>0. Len(queue) \in Nat /\ Len(channel) \in Nat /\ Cardinality(running) \in Nat
    BY FS_CardinalityType DEF DriveInv, Types
  <2>1. CASE Len(todo) # 1
    <3>1. queued' = ready /\ queue' = queue /\ outstanding' = outstanding
      BY <1>1, <2>1
    <3>2. Members(ready) \cap Members(queue) = {}
      BY <1>6, <1>8, <1>9 DEF Placement, Apart
    <3>3. outstanding' = Len(queue') + Cardinality(running') + Len(channel')
      BY <1>1, <1>6, <3>1 DEF Placement
    <3>4. outstanding <= outstanding'
      BY <1>6, <3>1
    <3>5. QED
      BY <1>6, <1>9, <3>1, <3>2, <3>3, <3>4 DEF Placement
  <2>2. CASE Len(todo) = 1
    <3>1. queued' = <<>> /\ queue' = queue \o ready /\ outstanding' = outstanding + Len(ready)
      BY <1>1, <2>2
    <3>2. outstanding' \in Nat /\ outstanding <= outstanding'
      BY <1>6, <1>9, <3>1
    <3>3. outstanding = Len(queue) + Cardinality(running) + Len(channel)
      BY <1>6 DEF Placement
    <3>4. outstanding' = Len(queue') + Cardinality(running') + Len(channel')
      BY <1>1, <1>9, <1>10, <2>0, <3>1, <3>3
    <3>5. queued' \in Seq(Nat) /\ Members(queued') = {} /\ Once(queued')
      BY <3>1, Empties
    <3>6. QED
      BY <1>9, <1>10, <3>1, <3>2, <3>4, <3>5
  <2>3. QED
    BY <2>1, <2>2
<1>12. Types'
  <2>1. wait' \in 0..outstanding'
    BY <1>11, WaitIs
  <2>2. e.type # "ended"
    BY <1>1
  <2>3. \A i \in 1..Len(journal') : \/ i \in 1..Len(journal) /\ journal'[i] = journal[i]
                                    \/ journal'[i] = e
    BY <1>1, Appended DEF DriveInv, Types
  <2>4. pc' \in Locations
    BY <1>1 DEF Locations
  <2>5. TypeOK'
    BY <1>1, <1>11, <2>1, <2>2, <2>3, <2>4 DEF DriveInv, Types, TypeOK
  <2>6. journal' \in Seq(Event)
    BY <1>1 DEF DriveInv, Types
  <2>7. QED
    BY <1>1, <1>2, <1>11, <2>5, <2>6 DEF DriveInv, Types
<1>13. Out' = Out \cup {id}
  BY <1>1, <1>11 DEF Out
<1>14. Placement'
  <2>1. Placed' = Placed
    BY <1>1, <1>7, <1>13 DEF Placed
  <2>2. Apart(Announced(todo), Members(queued), Members(queue), running, Ids(channel), Ids(results))'
    <3>1. /\ id \in Announced(todo) /\ Announced(todo') \subseteq Announced(todo)
          /\ id \notin Announced(todo')
      BY <1>7
    <3>2. Members(queued') \cup Members(queue') = Members(queued) \cup Members(queue) \cup {id}
      BY <1>11
    <3>3. /\ Announced(todo) \cap (Members(queued) \cup Members(queue) \cup running \cup Ids(channel) \cup Ids(results)) = {}
          /\ (Members(queued) \cup Members(queue)) \cap (running \cup Ids(channel) \cup Ids(results)) = {}
          /\ running \cap (Ids(channel) \cup Ids(results)) = {}
          /\ Ids(channel) \cap Ids(results) = {}
      BY <1>6 DEF Placement, Apart
    <3>4. Announced(todo') \cap (Members(queued') \cup Members(queue') \cup running \cup Ids(channel) \cup Ids(results)) = {}
      BY <3>1, <3>2, <3>3
    <3>5. (Members(queued') \cup Members(queue')) \cap (running \cup Ids(channel) \cup Ids(results)) = {}
      BY <3>1, <3>2, <3>3
    <3>6. QED
      BY <1>1, <1>11, <3>3, <3>4, <3>5 DEF Apart
  <2>3. QED
    BY <1>1, <1>6, <1>7, <1>11, <2>1, <2>2 DEF Placement
<1>15. Control'
  <2>1. pc' = "append" => Announcing'
    <3>1. pc' = "append" => todo' # <<>>
      BY <1>1
    <3>2. QED
      BY <1>1, <1>4, <3>1 DEF Announcing
  <2>2. pc' # "append" => todo' = <<>> /\ queued' = <<>>
    BY <1>1
  <2>3. ~refused /\ session # 0 /\ pc' \in {"append", "collect"}
    BY <1>1 DEF DriveInv, Control
  <2>4. QED
    BY <1>1, <2>1, <2>2, <2>3 DEF Control
<1>16. pc' \in {"append", "collect"}
  BY <1>1
<1>17. QED
  BY <1>1, <1>4, <1>5, <1>12, <1>13, <1>14, <1>15, <1>16, AnnounceKeeps DEF e, id

\* The second of two events.
LEMMA PairTail ==
  ASSUME NEW S, NEW x \in S, NEW y \in S
  PROVE  Tail(<<x, y>>) = <<y>>
  OBVIOUS

\* The run announces itself, and the loop begins.
LEMMA AppendOpeningKeeps ==
  ASSUME DriveInv, AppendEvent, Opening
  PROVE  DriveInv'
<1>1. Head(todo) = Started /\ Len(todo) = 1 /\ todo # <<>> /\ Tail(todo) = <<>> /\ Started \in Event
      /\ Started.type = "started"
  BY EventsAre DEF Opening
<1>2. /\ pc = "append" /\ journal' = Append(journal, Started) /\ todo' = Tail(todo) /\ todo' = <<>>
      /\ UNCHANGED <<script, session, engine, results, replay, queued, outstanding, resident, verdict,
                     refused, queue, running, channel, late, opened>>
      /\ queued' = <<>>
  BY <1>1, AppendIs
<1>3. pc' = "step" /\ watchdog' = "armed"
  BY <1>1 DEF AppendEvent
<1>4. engine = NewEngine /\ ~replay.active
  BY DEF Opening
<1>5. wait' \in 0..outstanding
  <2>1. outstanding' \in Nat /\ outstanding <= outstanding'
    BY <1>2 DEF DriveInv, Types, TypeOK
  <2>2. QED
    BY <1>2, <2>1, WaitIs
<1>6. Complete'
  <2>1. NewEngine.issued = <<>>
    BY DEF NewEngine
  <2>2. Awaiting(engine') = {}
    BY <1>2, <1>4, <2>1 DEF Awaiting
  <2>3. QED
    BY <2>2 DEF Complete
<1>7. Control'
  BY <1>2, <1>3 DEF DriveInv, Control
<1>8. Started.type # "spawned" /\ ~IsOutcome(Started) /\ Started.type # "ended"
  BY <1>1 DEF IsOutcome
<1>9. QED
  BY <1>1, <1>2, <1>3, <1>4, <1>5, <1>6, <1>7, <1>8, MarkKeeps

\* A replay is over: the marker goes to the log ahead of what follows it.
LEMMA AppendMarkerKeeps ==
  ASSUME DriveInv, AppendEvent, Head(todo) = Resumed, Len(todo) > 1, Announcing \/ Concluding
  PROVE  DriveInv'
<1>1. todo \in Seq(Event) /\ Resumed.type = "resumed" /\ Resumed \in Event /\ outstanding \in Nat
      /\ wait \in 0..outstanding
  BY EventsAre DEF DriveInv, Types, TypeOK
<1>2. /\ pc = "append" /\ todo # <<>> /\ journal' = Append(journal, Resumed) /\ todo' = Tail(todo) /\ todo' # <<>>
      /\ UNCHANGED <<script, session, engine, results, replay, queued, outstanding, resident, verdict,
                     refused, queue, running, channel, late, opened>>
      /\ pc' = "append" /\ wait' = wait /\ queued = <<>>
  BY <1>1, AppendIs
<1>3. watchdog' = watchdog
  BY <1>1 DEF AppendEvent
<1>4. watchdog \in {"off", "armed", "retired", "fired", "recorded"}
  BY DEF DriveInv, Types, TypeOK
<1>5. Resumed.type # "spawned" /\ ~IsOutcome(Resumed) /\ Resumed.type # "ended"
  BY <1>1 DEF IsOutcome
<1>6. Announced(todo') = Announced(todo)
  BY <1>1, <1>2, <1>5, AnnouncedTail
<1>7. Complete'
  <2>1. Placed' = Placed
    BY <1>2, <1>6 DEF Placed, Out
  <2>2. QED
    BY <1>2, <1>6, <2>1 DEF DriveInv, Complete
<1>8. Announcing' \/ Concluding'
  <2>1. CASE Announcing
    <3>1. \A i \in 1..Len(todo') : todo'[i] = todo[i + 1] /\ i + 1 \in 1..Len(todo) /\ i + 1 # 1
      BY <1>1, <1>2, Tailed
    <3>2. \A i \in 1..Len(todo') : todo'[i].type = "spawned"
      BY <2>1, <3>1 DEF Announcing
    <3>3. QED
      BY <1>2, <2>1, <3>2 DEF Announcing
  <2>2. CASE Concluding
    <3>1. PICK o \in Verdicts :
            /\ todo \in {<<Ended(o)>>, <<Resumed, Ended(o)>>}
            /\ o \in Failures \cup {"done"} =>
                 outstanding = 0 /\ (replay.active => DOMAIN replay.steps = {})
      BY <2>2 DEF Concluding
    <3> DEFINE last == Ended(o)
    <3> HIDE DEF last
    <3>2. todo = <<last>> \/ todo = <<Resumed, last>>
      BY <3>1 DEF last
    <3>3. last \in Event /\ Resumed \in Event
      BY <1>1, EventsAre DEF Verdicts, last
    <3>4. Tail(<<last>>) = <<>>
      BY <3>3
    <3>5. Tail(<<Resumed, last>>) = <<last>>
      BY <3>3, PairTail
    <3>6. todo' = <<last>>
      BY <1>2, <3>2, <3>4, <3>5
    <3>7. QED
      BY <1>2, <3>1, <3>6 DEF Concluding, last
  <2>3. QED
    BY <2>1, <2>2
<1>9. Control'
  BY <1>2, <1>8 DEF DriveInv, Control
<1>10. QED
  BY <1>1, <1>2, <1>3, <1>4, <1>5, <1>7, <1>9, MarkKeeps

\* The outcome of the run goes to the log, and the session is over.
LEMMA AppendOutcomeKeeps ==
  ASSUME DriveInv, AppendEvent, NEW o \in Verdicts, todo = <<Ended(o)>>
  PROVE  DriveInv'
<1>1. Ended(o) \in Event /\ Ended(o).type = "ended" /\ Ended(o).outcome = o
  BY EventsAre DEF Verdicts
<1> DEFINE e == Ended(o)
<1> HIDE DEF e
<1>2. Head(todo) = e /\ Len(todo) = 1 /\ todo # <<>> /\ Tail(todo) = <<>>
  <2>1. todo = <<e>>
    BY DEF e
  <2>2. QED
    BY <2>1
<1>3. /\ pc = "append" /\ journal' = Append(journal, e) /\ todo' = Tail(todo) /\ todo' = <<>>
      /\ UNCHANGED <<script, session, engine, results, replay, queued, outstanding, resident, verdict,
                     refused, queue, running, channel, late, opened>>
      /\ queued' = <<>>
  BY <1>1, <1>2, AppendIs DEF e
<1>4. pc' = "join" /\ watchdog' = Retired
  BY <1>1, <1>2 DEF AppendEvent, e
<1>5. watchdog' \in {"off", "armed", "retired", "fired", "recorded"}
  BY <1>4 DEF DriveInv, Types, TypeOK, Retired
<1>6. wait' \in 0..outstanding
  <2>1. outstanding' \in Nat /\ outstanding <= outstanding'
    BY <1>3 DEF DriveInv, Types, TypeOK
  <2>2. QED
    BY <1>3, <2>1, WaitIs
<1>7. Complete'
  BY <1>3, <1>4, Empties DEF Complete
<1>8. Control'
  BY <1>3, <1>4 DEF DriveInv, Control
<1>9. e \in Event /\ e.type # "spawned" /\ ~IsOutcome(e) /\ e.outcome \in Verdicts
  BY <1>1 DEF IsOutcome, e
<1>10. QED
  BY <1>2, <1>3, <1>4, <1>5, <1>6, <1>7, <1>8, <1>9, MarkKeeps

\* The loop appends an event, whatever its kind.
LEMMA AppendEventKeeps ==
  ASSUME DriveInv, AppendEvent
  PROVE  DriveInv'
<1>1. /\ pc = "append" /\ todo # <<>> /\ todo \in Seq(Event) /\ Head(todo) = todo[1] /\ 1 \in 1..Len(todo)
      /\ Len(todo) \in Nat
  BY AppendIs, Tailed
<1>2. CASE Opening
  BY <1>2, AppendOpeningKeeps
<1>3. CASE Announcing
  <2>1. CASE todo[1].type = "spawned"
    BY <1>1, <2>1, AppendSpawnKeeps
  <2>2. CASE todo[1].type # "spawned"
    <3>1. todo[1] = Resumed /\ Len(todo) > 1
      BY <1>1, <1>3, <2>2 DEF Announcing
    <3>2. QED
      BY <1>1, <1>3, <3>1, AppendMarkerKeeps
  <2>3. QED
    BY <2>1, <2>2
<1>4. CASE Concluding
  <2>1. PICK o \in Verdicts : todo \in {<<Ended(o)>>, <<Resumed, Ended(o)>>}
    BY <1>4 DEF Concluding
  <2>2. CASE todo = <<Ended(o)>>
    BY <2>2, AppendOutcomeKeeps
  <2>3. CASE todo = <<Resumed, Ended(o)>>
    <3>1. todo[1] = Resumed /\ Len(todo) > 1
      BY <2>3
    <3>2. QED
      BY <1>1, <1>4, <3>1, AppendMarkerKeeps
  <2>4. QED
    BY <2>1, <2>2, <2>3
<1>5. QED
  BY <1>1, <1>2, <1>3, <1>4 DEF DriveInv, Control

-----------------------------------------------------------------------------
(* Steps of the engine                                                     *)

\* Before the engine is stepped: nothing is pending, and what it is to be fed
\* answers requests it awaits.
LEMMA StepStarts ==
  ASSUME DriveInv, pc = "step"
  PROVE  /\ todo = <<>> /\ queued = <<>> /\ Answerable(engine, results)
         /\ script \in Script /\ engine \in Engine /\ session \in Nat /\ Sane(script, engine)
         /\ results \in Seq(Result) /\ journal \in Seq(Event) /\ outstanding \in Nat
         /\ Out \subseteq Awaiting(engine) \ Ids(results)
         /\ Awaiting(engine) \subseteq Out \cup Ids(results)
         /\ Awaiting(engine) \subseteq 1..Len(engine.issued) /\ Len(engine.issued) \in Nat
         /\ session # 0 /\ ~refused /\ wait \in 0..outstanding
<1>1. todo = <<>> /\ queued = <<>> /\ session # 0 /\ ~refused
  BY DEF DriveInv, Control
<1>2. script \in Script /\ engine \in Engine /\ session \in Nat /\ Sane(script, engine)
      /\ results \in Seq(Result) /\ journal \in Seq(Event) /\ outstanding \in Nat /\ wait \in 0..outstanding
  BY ScriptIs DEF DriveInv, Types, TypeOK
<1>3. Placed = Out \cup Ids(results) /\ Out \cap Ids(results) = {} /\ Placed \subseteq Awaiting(engine)
  BY <1>1, Empties DEF DriveInv, Placement, Placed, Out, Apart
<1>4. Answerable(engine, results)
  <2>1. \A i \in 1..Len(results) : results[i].id \in Awaiting(engine)
    BY <1>3 DEF Ids
  <2>2. OnceEach(results)
    BY DEF DriveInv, Placement
  <2>3. QED
    BY <2>1, <2>2 DEF Answerable, OnceEach
<1>5. Awaiting(engine) \subseteq Placed
  BY DEF DriveInv, Complete
<1>6. Awaiting(engine) \subseteq 1..Len(engine.issued) /\ Len(engine.issued) \in Nat
  BY <1>2 DEF Awaiting, Engine
<1>7. QED
  BY <1>1, <1>2, <1>3, <1>4, <1>5, <1>6

\* What a step of the engine does to its requests.
LEMMA StepMoves ==
  ASSUME DriveInv, pc = "step", NEW s, s = Step(script, engine, results), engine' = s.engine
  PROVE  /\ engine' \in Engine /\ Sane(script, engine')
         /\ Answered(engine, results, Len(results), engine')
         /\ NewIds(s) = (Len(engine.issued) + 1)..Len(engine'.issued)
         /\ NewIds(s) \subseteq 1..Len(engine'.issued) /\ NewIds(s) \cap 1..Len(engine.issued) = {}
         /\ Awaiting(engine') = (Awaiting(engine) \ Ids(results)) \cup NewIds(s)
         /\ \A id \in 1..Len(engine.issued) :
              /\ id \in 1..Len(engine'.issued) /\ engine'.issued[id] = engine.issued[id]
              /\ Request(script, engine', engine'.issued[id]) = Request(script, engine, engine.issued[id])
<1> DEFINE f == s.engine
           m == Len(engine.issued)
           n == Len(engine'.issued)
<1>1. /\ script \in Script /\ engine \in Engine /\ Sane(script, engine)
      /\ results \in Seq(Result) /\ Answerable(engine, results)
  BY StepStarts
<1>2. engine' \in Engine /\ Sane(script, engine') /\ Answered(engine, results, Len(results), engine')
  BY <1>1, StepAnswers
<1>3. m \in Nat /\ n \in Nat /\ m <= n /\ \A id \in 1..m : engine'.issued[id] = engine.issued[id]
  BY <1>1, <1>2 DEF Answered, Engine
<1>4. NewIds(s) = (m + 1)..n
  BY DEF NewIds
<1> HIDE DEF m, n
<1>5. /\ NewIds(s) \subseteq 1..n /\ NewIds(s) \cap 1..m = {} /\ 1..m \subseteq 1..n
      /\ \A id \in 1..n : id \in 1..m \/ id \in NewIds(s)
  BY <1>3, <1>4
<1>6. \A id \in 1..m : Request(script, engine', engine'.issued[id]) = Request(script, engine, engine.issued[id])
  BY <1>1, <1>2, RequestKept DEF m
<1>7. Awaiting(engine') = (Awaiting(engine) \ Ids(results)) \cup NewIds(s)
  <2>1. \A id : id \in Awaiting(engine') <=> id \in 1..n /\ engine'.status[engine'.issued[id]] = "awaited"
    BY DEF Awaiting, n
  <2>2. \A id : id \in Awaiting(engine) <=> id \in 1..m /\ engine.status[engine.issued[id]] = "awaited"
    BY DEF Awaiting, m
  <2>3. \A id \in NewIds(s) : engine'.status[engine'.issued[id]] = "awaited"
    BY <1>2, <1>4 DEF Answered, m, n
  <2>4. ASSUME NEW id \in 1..m
        PROVE  id \in Awaiting(engine') <=> id \in Awaiting(engine) \ Ids(results)
    <3> DEFINE c == engine.issued[id]
    <3>1. c \in Calls /\ engine'.issued[id] = c
      BY <1>1, <1>3 DEF Engine, m
    <3>2. CASE id \in Ids(results)
      <4>1. PICK i \in 1..Len(results) : results[i].id = id
        BY <3>2 DEF Ids
      <4>2. engine'.status[c] = "settled"
        BY <1>2, <4>1 DEF Answered
      <4>3. QED
        BY <2>1, <3>1, <3>2, <4>2
    <3>3. CASE id \notin Ids(results)
      <4>1. \A i \in 1..Len(results) : results[i].id # id /\ results[i].id \in 1..m
        BY <1>1, <3>3 DEF Ids, Answerable, Awaiting, m
      <4>2. \A i \in 1..Len(results) : c # engine.issued[results[i].id]
        BY <1>1, <4>1 DEF Sane, m
      <4>3. engine.status[c] # "open"
        BY <1>1 DEF Sane, m
      <4>4. engine'.status[c] = engine.status[c]
        BY <1>2, <3>1, <4>2, <4>3 DEF Answered
      <4>5. QED
        BY <1>5, <2>1, <2>2, <3>1, <3>3, <4>4
    <3>4. QED
      BY <3>2, <3>3
  <2>5. ASSUME NEW id
        PROVE  id \in Awaiting(engine') <=> id \in (Awaiting(engine) \ Ids(results)) \cup NewIds(s)
    <3>1. CASE id \in 1..m
      BY <1>5, <2>4, <3>1
    <3>2. CASE id \notin 1..m
      BY <1>5, <2>1, <2>2, <2>3, <3>2
    <3>3. QED
      BY <3>1, <3>2
  <2>6. QED
    BY <2>5
<1>8. QED
  BY <1>2, <1>3, <1>4, <1>5, <1>6, <1>7 DEF m, n

\* The script goes on seeing what the log records.
LEMMA StepSaw ==
  ASSUME DriveInv, pc = "step", NEW s, s = Step(script, engine, results), Drives(s)
  PROVE  ScriptSawTheLog'
<1> DEFINE m == Len(engine.issued)
<1>1. /\ engine' = s.engine /\ UNCHANGED journal
  BY DEF Drives
<1>2. /\ Answered(engine, results, Len(results), engine')
      /\ NewIds(s) = (m + 1)..Len(engine'.issued)
      /\ \A id \in 1..m : id \in 1..Len(engine'.issued) /\ engine'.issued[id] = engine.issued[id]
      /\ engine' \in Engine
  BY <1>1, StepMoves
<1>3. /\ engine \in Engine /\ Sane(script, engine) /\ m \in Nat /\ Len(engine'.issued) \in Nat
      /\ Answerable(engine, results)
  BY <1>2, StepStarts DEF Engine
<1>4. \A id \in 1..Len(engine'.issued) : id \in 1..m \/ id \in NewIds(s)
  BY <1>2, <1>3
<1> HIDE DEF m
<1>5. DOMAIN Load(journal) = Announced(journal)
  BY LoadDomain
<1>6. ASSUME NEW id \in 1..Len(engine'.issued), engine'.status[engine'.issued[id]] = "settled"
      PROVE  /\ id \in DOMAIN Load(journal) /\ Load(journal)[id].at > 0
             /\ engine'.seen[engine'.issued[id]] =
                  IF Load(journal)[id].ok THEN Load(journal)[id].run ELSE Null
  <2>1. id \notin NewIds(s)
    BY <1>2, <1>6 DEF Answered, m
  <2>2. id \in 1..m /\ engine'.issued[id] = engine.issued[id] /\ engine.issued[id] \in Calls
    BY <1>2, <1>3, <1>4, <2>1 DEF Engine, m
  <2>3. CASE id \in Ids(results)
    <3>1. PICK i \in 1..Len(results) : results[i].id = id
      BY <2>3 DEF Ids
    <3>2. engine'.seen[engine.issued[id]] = results[i].value
      BY <1>2, <3>1 DEF Answered
    <3>3. /\ id \in Announced(journal) /\ Load(journal)[id].at > 0
          /\ results[i].value = Outcome(Load(journal)[id])
      BY <3>1 DEF DriveInv, Evidence
    <3>4. QED
      BY <1>5, <2>2, <3>2, <3>3 DEF Outcome
  <2>4. CASE id \notin Ids(results)
    <3>1. \A i \in 1..Len(results) : results[i].id # id /\ results[i].id \in 1..m
      BY <1>3, <2>4 DEF Ids, Answerable, Awaiting, m
    <3>2. \A i \in 1..Len(results) : engine.issued[id] # engine.issued[results[i].id]
      BY <1>3, <2>2, <3>1 DEF Sane, m
    <3>3. /\ engine'.seen[engine.issued[id]] = engine.seen[engine.issued[id]]
          /\ engine.status[engine.issued[id]] = "settled"
      BY <1>2, <1>6, <2>2, <3>2 DEF Answered
    <3>4. QED
      BY <2>2, <3>3 DEF DriveInv, Evidence, ScriptSawTheLog, m
  <2>5. QED
    BY <2>3, <2>4
<1>7. QED
  BY <1>1, <1>6 DEF ScriptSawTheLog

\* What every step of the engine keeps, whatever the loop then does with the
\* requests it makes.
LEMMA EngineKeeps ==
  ASSUME DriveInv, pc = "step", NEW s, s = Step(script, engine, results), Drives(s),
         results' \in Seq(Result), OnceEach(results'), todo' \in Seq(Event), AnnouncedOnce(todo'),
         Announced(todo') \cup Ids(results') \subseteq NewIds(s),
         Announced(todo') \cap Ids(results') = {},
         wait' \in 0..outstanding, resident' \in Nat, replay'.active \in BOOLEAN,
         watchdog' \in {"off", "armed", "retired", "fired", "recorded"},
         verdict' \in Failures \cup {"done", "none"}, pc' \in Locations,
         \A i \in 1..Len(todo') : todo'[i].type = "spawned" =>
           /\ todo'[i] = Spawned(todo'[i].id, Ask(s, todo'[i].id), session)
           /\ todo'[i].id \in Announced(journal) => Load(journal)[todo'[i].id].at = 0,
         \A i \in 1..Len(results') :
           /\ results'[i].id \in Announced(journal) /\ Load(journal)[results'[i].id].at > 0
           /\ results'[i].value = Outcome(Load(journal)[results'[i].id])
  PROVE  /\ Types' /\ Sane(script, engine)' /\ Placement' /\ Evidence' /\ Recorded'
         /\ Out' = Out /\ (pc' # "off" => Ends')
<1>1. /\ engine' = s.engine /\ queued = <<>>
      /\ UNCHANGED <<script, journal, session, queued, outstanding, queue, running, channel, late, opened>>
  BY StepStarts DEF Drives, poolVars
<1>2. /\ engine' \in Engine /\ Sane(script, engine')
      /\ NewIds(s) \cap 1..Len(engine.issued) = {}
      /\ Awaiting(engine') = (Awaiting(engine) \ Ids(results)) \cup NewIds(s)
      /\ \A id \in 1..Len(engine.issued) :
           Request(script, engine', engine'.issued[id]) = Request(script, engine, engine.issued[id])
  BY <1>1, StepMoves
<1>3. /\ Out \subseteq Awaiting(engine) \ Ids(results) /\ Awaiting(engine) \subseteq 1..Len(engine.issued)
      /\ Out \subseteq 1..Len(engine.issued)
  BY StepStarts
<1>4. Types'
  <2>1. TypeOK'
    BY <1>1, <1>2 DEF DriveInv, Types, TypeOK
  <2>2. QED
    BY <1>1, <2>1 DEF DriveInv, Types
<1>5. Out' = Out
  BY <1>1 DEF Out
<1>6. Placement'
  <2>1. Placed' \subseteq Awaiting(engine')
    BY <1>2, <1>3, <1>5 DEF Placed
  <2>2. Out \cap NewIds(s) = {}
    BY <1>2, <1>3
  <2>3. /\ Announced(todo') \cap (Members(queued') \cup Members(queue') \cup running' \cup Ids(channel') \cup Ids(results')) = {}
        /\ (Members(queued') \cup Members(queue') \cup running' \cup Ids(channel')) \cap Ids(results') = {}
    BY <1>5, <2>2 DEF Out
  <2>4. Apart(Announced(todo), Members(queued), Members(queue), running, Ids(channel), {})
    BY DEF DriveInv, Placement, Apart
  <2>5. Apart(Announced(todo), Members(queued), Members(queue), running, Ids(channel), Ids(results))'
    BY <1>1, <2>3, <2>4 DEF Apart
  <2>6. QED
    BY <1>1, <2>1, <2>5 DEF DriveInv, Placement
<1>7. Evidence'
  <2>1. \A id \in Out : Fresh(id)' = Fresh(id)
    BY <1>1, <1>2, <1>3 DEF Fresh
  <2>2. \A id \in Out' : id \in Announced(journal') /\ Load(journal')[id] = Fresh(id)'
    BY <1>1, <1>5, <2>1 DEF DriveInv, Evidence
  <2>3. \A i \in 1..Len(todo') : todo'[i].type = "spawned" =>
          /\ todo'[i] = Spawned(todo'[i].id, Request(script', engine', engine'.issued[todo'[i].id]), session')
          /\ todo'[i].id \in Announced(journal') => Load(journal')[todo'[i].id].at = 0
    BY <1>1 DEF Ask
  <2>4. ScriptSawTheLog'
    BY StepSaw
  <2>5. QED
    BY <1>1, <2>2, <2>3, <2>4 DEF Evidence
<1>8. Recorded'
  BY <1>1 DEF DriveInv, Recorded
<1>9. pc' # "off" => Ends'
  BY <1>1 DEF DriveInv, Ends, NoBreach
<1>10. QED
  BY <1>1, <1>2, <1>4, <1>5, <1>6, <1>7, <1>8, <1>9

\* A batch asks for something, and a pause awaits something.
LEMMA StepKinds ==
  ASSUME DriveInv, pc = "step", NEW s, s = Step(script, engine, results)
  PROVE  /\ s.kind = "batch" => NewIds(s) # {}
         /\ s.kind = "awaiting" => NewIds(s) = {} /\ Awaiting(s.engine) # {}
         /\ s.why \in {"undeclared_role", "agents_exhausted", "stalled"}
         /\ Len(s.engine.issued) <= Ceiling
<1>1. /\ Answerable(engine, results) /\ script \in Script /\ engine \in Engine /\ Sane(script, engine)
      /\ results \in Seq(Result)
  BY StepStarts
<1>2. s.engine \in Engine /\ Sane(script, s.engine)
  BY <1>1, StepAnswers
<1>3. Len(s.engine.issued) \in Nat /\ Len(engine.issued) \in Nat
  BY <1>1, <1>2 DEF Engine
<1> DEFINE f == FoldLeft(LAMBDA g, r : Resolve(script, g, r), RunJobs(script, engine), results)
<1>4. s = [engine |-> f,
           kind   |-> IF f.undeclared THEN "failed"
                      ELSE IF Len(f.issued) > Len(engine.issued) THEN "batch"
                      ELSE IF Rejected(script, f) THEN "failed"
                      ELSE IF Fulfilled(script, f) THEN "done"
                      ELSE IF Awaiting(f) # {} THEN "awaiting"
                      ELSE "failed",
           why    |-> IF f.undeclared THEN "undeclared_role"
                      ELSE IF Rejected(script, f) THEN "agents_exhausted"
                      ELSE "stalled"]
  BY <1>1 DEF Step
<1> HIDE DEF f
<1>5. s.engine = f
  BY <1>4
<1>6. /\ s.kind = "batch" => Len(f.issued) > Len(engine.issued)
      /\ s.kind = "awaiting" => ~(Len(f.issued) > Len(engine.issued)) /\ Awaiting(f) # {}
      /\ s.why \in {"undeclared_role", "agents_exhausted", "stalled"}
  BY <1>4
<1>7. QED
  BY <1>2, <1>3, <1>5, <1>6 DEF NewIds, Sane

\* The engine has asked for nothing the loop would carry out.
LEMMA QuietStep ==
  ASSUME DriveInv, pc = "step", NEW s, s = Step(script, engine, results), Drives(s),
         results' = <<>>, NoSpawn(todo'),
         wait' \in 0..outstanding, UNCHANGED <<resident, replay>>,
         watchdog' \in {"off", "armed", "retired", "fired", "recorded"},
         verdict' \in Failures \cup {"done", "none"}, pc' \in Locations \ {"off"}
  PROVE  /\ Types' /\ Sane(script, engine)' /\ Placement' /\ Evidence' /\ Recorded' /\ Ends'
         /\ Out' = Out /\ Placed' = Out /\ Announced(todo') = {} /\ Owing' /\ Matched'
         /\ UNCHANGED <<script, journal, session, queued, outstanding, queue, running, channel, late, opened>>
         /\ queued = <<>>
<1>1. /\ engine' = s.engine /\ queued = <<>> /\ todo = <<>>
      /\ UNCHANGED <<script, journal, session, queued, outstanding, queue, running, channel, late, opened>>
  BY StepStarts DEF Drives, poolVars
<1>2. /\ Announced(todo') = {} /\ AnnouncedOnce(todo') /\ todo' \in Seq(Event)
      /\ Ids(results') = {} /\ OnceEach(results') /\ results' \in Seq(Result)
      /\ \A i \in 1..Len(todo') : todo'[i].type # "spawned"
      /\ 1..Len(results') = {}
  BY NoSpawnIs, Empties DEF NoSpawn
<1>3. resident' \in Nat /\ replay'.active \in BOOLEAN
  BY DEF DriveInv, Types, TypeOK
<1>4. /\ Types' /\ Sane(script, engine)' /\ Placement' /\ Evidence' /\ Recorded' /\ Ends' /\ Out' = Out
  BY <1>2, <1>3, EngineKeeps
<1>5. Placed' = Out
  BY <1>2, <1>4 DEF Placed
<1>6. Owing'
  BY <1>1, <1>4, Empties DEF DriveInv, Owing, Held
<1>7. Matched'
  <2>1. \A id \in 1..Len(engine.issued) :
          id \in 1..Len(engine'.issued) /\ engine'.issued[id] = engine.issued[id]
    BY <1>1, StepMoves
  <2>2. QED
    BY <1>1, <2>1 DEF DriveInv, Matched, Held
<1>8. QED
  BY <1>1, <1>2, <1>4, <1>5, <1>6, <1>7

\* A replay that starts nothing stays quiet.
LEMMA QuietReplay ==
  ASSUME DriveInv, pc = "step", UNCHANGED <<replay, journal, queue, running, channel, queued, outstanding, opened>>,
         Announced(todo') = {}, pc' \in {"drain", "append", "join"}
  PROVE  Replaying'
  BY DEF DriveInv, Replaying, OnlyKills

\* A batch after the wall deadline is not started.
LEMMA BatchTooLateKeeps ==
  ASSUME DriveInv, pc = "step", NEW s, s = Step(script, engine, results), BatchTooLate(s)
  PROVE  DriveInv'
<1>1. Len(s.engine.issued) <= Ceiling /\ Len(s.engine.issued) \in Nat /\ Ceiling \in Nat
  <2>1. s.engine \in Engine
    BY StepStarts, StepAnswers
  <2>2. QED
    BY <2>1, StepKinds, EngineAssumption DEF Engine
<1>2. late
  BY <1>1 DEF BatchTooLate
<1>3. /\ Drives(s) /\ results' = <<>> /\ pc' = "append" /\ todo' = <<Ended("wall_deadline")>>
      /\ watchdog' = Retired /\ UNCHANGED <<replay, wait, verdict, refused, resident>>
  BY <1>2 DEF BatchTooLate, EndWith
<1>4. "wall_deadline" \in Verdicts /\ "wall_deadline" \notin Failures \cup {"done"}
  BY DEF Verdicts, Outcomes, Failures
<1>5. /\ watchdog' \in {"off", "armed", "retired", "fired", "recorded"}
      /\ verdict' \in Failures \cup {"done", "none"} /\ wait' \in 0..outstanding
  BY <1>3 DEF DriveInv, Types, TypeOK, Retired
<1>6. NoSpawn(todo') /\ pc' \in Locations \ {"off"}
  BY <1>3, <1>4, Shorts DEF Verdicts, Locations
<1>7. /\ Types' /\ Sane(script, engine)' /\ Placement' /\ Evidence' /\ Recorded' /\ Ends'
      /\ Announced(todo') = {} /\ Owing' /\ Matched'
      /\ UNCHANGED <<script, journal, session, queued, outstanding, queue, running, channel, late, opened>>
      /\ queued = <<>>
  BY <1>3, <1>5, <1>6, QuietStep
<1>8. Replaying'
  BY <1>3, <1>7, QuietReplay
<1>9. Complete'
  BY <1>3, <1>7 DEF Complete
<1>10. Control'
  <2>1. Concluding'
    BY <1>3, <1>4, <1>7 DEF Concluding
  <2>2. ~refused /\ session # 0
    BY StepStarts
  <2>3. QED
    BY <1>3, <1>7, <2>1, <2>2 DEF Control
<1>11. QED
  BY <1>7, <1>8, <1>9, <1>10 DEF DriveInv

\* A batch the replay cannot match is refused.
LEMMA BatchRefusedKeeps ==
  ASSUME DriveInv, pc = "step", NEW s, s = Step(script, engine, results), BatchRefused(s)
  PROVE  DriveInv'
<1>1. /\ Drives(s) /\ results' = <<>> /\ pc' = "join" /\ refused' = TRUE /\ replay.active
      /\ UNCHANGED <<replay, todo, wait, verdict, watchdog, resident>>
  BY DEF BatchRefused, Refuse, NewBatch
<1>2. todo = <<>> /\ session # 0
  BY StepStarts
<1>3. /\ watchdog' \in {"off", "armed", "retired", "fired", "recorded"}
      /\ verdict' \in Failures \cup {"done", "none"} /\ wait' \in 0..outstanding
  BY <1>1 DEF DriveInv, Types, TypeOK
<1>4. NoSpawn(todo') /\ pc' \in Locations \ {"off"}
  BY <1>1, <1>2, Shorts DEF Locations
<1>5. /\ Types' /\ Sane(script, engine)' /\ Placement' /\ Evidence' /\ Recorded' /\ Ends'
      /\ Announced(todo') = {} /\ Owing' /\ Matched'
      /\ UNCHANGED <<script, journal, session, queued, outstanding, queue, running, channel, late, opened>>
      /\ queued = <<>>
  BY <1>1, <1>3, <1>4, QuietStep
<1>6. Replaying'
  BY <1>1, <1>5, QuietReplay
<1>7. Complete'
  BY <1>1, <1>5 DEF Complete
<1>8. Control'
  <2>1. OnlyKills'
    BY <1>1, <1>5 DEF DriveInv, Replaying, OnlyKills
  <2>2. QED
    BY <1>1, <1>2, <1>5, <2>1 DEF Control
<1>9. QED
  BY <1>5, <1>6, <1>7, <1>8 DEF DriveInv

\* The script waits for a child that is still out.
LEMMA StepAwaitingKeeps ==
  ASSUME DriveInv, pc = "step", NEW s, s = Step(script, engine, results), StepAwaiting(s)
  PROVE  DriveInv'
<1>1. /\ Drives(s) /\ results' = <<>> /\ pc' = "await" /\ wait' = Min({1, outstanding})
      /\ s.kind = "awaiting" /\ engine' = s.engine
      /\ UNCHANGED <<replay, todo, resident, verdict, refused, watchdog>>
  BY DEF StepAwaiting, Drives
<1>2. todo = <<>> /\ session # 0 /\ ~refused /\ outstanding \in Nat
      /\ Awaiting(engine) \subseteq Out \cup Ids(results)
  BY StepStarts
<1>3. /\ watchdog' \in {"off", "armed", "retired", "fired", "recorded"}
      /\ verdict' \in Failures \cup {"done", "none"} /\ wait' \in 0..outstanding
  <2>1. wait' \in 0..outstanding
    BY <1>1, <1>2, CountersAre
  <2>2. QED
    BY <1>1, <2>1 DEF DriveInv, Types, TypeOK
<1>4. NoSpawn(todo') /\ pc' \in Locations \ {"off"}
  BY <1>1, <1>2, Shorts DEF Locations
<1>5. /\ Types' /\ Sane(script, engine)' /\ Placement' /\ Evidence' /\ Recorded' /\ Ends'
      /\ Announced(todo') = {} /\ Owing' /\ Matched' /\ Placed' = Out
      /\ UNCHANGED <<script, journal, session, queued, outstanding, queue, running, channel, late, opened>>
      /\ queued = <<>>
  BY <1>1, <1>3, <1>4, QuietStep
<1>6. Awaiting(engine') \subseteq Out /\ Awaiting(engine') # {}
  <2>1. NewIds(s) = {} /\ Awaiting(engine') # {}
    BY <1>1, StepKinds
  <2>2. Awaiting(engine') = (Awaiting(engine) \ Ids(results)) \cup NewIds(s)
    BY <1>1, StepMoves
  <2>3. QED
    BY <1>2, <2>1, <2>2
<1>7. ~replay.active
  <2> SUFFICES ASSUME replay.active PROVE FALSE
    OBVIOUS
  <2>1. queue = <<>> /\ running = {} /\ channel = <<>> /\ queued = <<>>
    BY DEF DriveInv, Replaying
  <2>2. Out = {}
    BY <2>1, Empties DEF Out
  <2>3. QED
    BY <1>6, <2>2
<1>8. Replaying'
  BY <1>1, <1>7 DEF DriveInv, Replaying
<1>9. Complete'
  BY <1>5, <1>6 DEF Complete
<1>10. Control'
  BY <1>1, <1>2, <1>5, <1>6 DEF Control
<1>11. QED
  BY <1>5, <1>8, <1>9, <1>10 DEF DriveInv

\* The engine is done, or failed: what is in flight is drained.
LEMMA StepOverKeeps ==
  ASSUME DriveInv, pc = "step", NEW s, s = Step(script, engine, results), StepDone(s) \/ StepFailed(s)
  PROVE  DriveInv'
<1>1. /\ Drives(s) /\ results' = <<>> /\ pc' = "drain"
      /\ UNCHANGED <<replay, todo, wait, resident, refused>>
      /\ (verdict' = "done" /\ watchdog' = watchdog) \/ (verdict' = s.why /\ watchdog' = Retired)
  BY DEF StepDone, StepFailed
<1>2. todo = <<>> /\ session # 0 /\ ~refused
  BY StepStarts
<1>3. verdict' \in {"done", "undeclared_role", "agents_exhausted", "stalled"}
  BY <1>1, StepKinds
<1>4. /\ watchdog' \in {"off", "armed", "retired", "fired", "recorded"}
      /\ verdict' \in Failures \cup {"done", "none"} /\ wait' \in 0..outstanding
  <2>1. watchdog' \in {"off", "armed", "retired", "fired", "recorded"} /\ wait' \in 0..outstanding
    BY <1>1 DEF DriveInv, Types, TypeOK, Retired
  <2>2. QED
    BY <1>3, <2>1 DEF Failures
<1>5. NoSpawn(todo') /\ pc' \in Locations \ {"off"}
  BY <1>1, <1>2, Shorts DEF Locations
<1>6. /\ Types' /\ Sane(script, engine)' /\ Placement' /\ Evidence' /\ Recorded' /\ Ends'
      /\ Announced(todo') = {} /\ Owing' /\ Matched'
      /\ UNCHANGED <<script, journal, session, queued, outstanding, queue, running, channel, late, opened>>
      /\ queued = <<>>
  BY <1>1, <1>4, <1>5, QuietStep
<1>7. Replaying'
  BY <1>1, <1>6, QuietReplay
<1>8. Complete'
  BY <1>1, <1>6 DEF Complete
<1>9. Control'
  BY <1>1, <1>2, <1>3, <1>6 DEF Control
<1>10. QED
  BY <1>6, <1>7, <1>8, <1>9 DEF DriveInv

\* The engine asks for a batch: requests the log does not know, unless a
\* replay holds them.
LEMMA BatchStarts ==
  ASSUME DriveInv, pc = "step", NEW s, s = Step(script, engine, results), NewBatch(s)
  PROVE  /\ Drives(s) /\ engine' = s.engine /\ s.engine \in Engine
         /\ NewIds(s) # {} /\ NewIds(s) \in SUBSET (1..Len(s.engine.issued)) /\ NewIds(s) \subseteq Nat
         /\ IsFiniteSet(NewIds(s))
         /\ Awaiting(engine') = (Awaiting(engine) \ Ids(results)) \cup NewIds(s)
         /\ \A id \in 1..Len(engine.issued) :
              id \in 1..Len(engine'.issued) /\ engine'.issued[id] = engine.issued[id]
         /\ \A id \in NewIds(s) : /\ id \in Announced(journal) => Held(id)
                                  /\ id \in 1..Len(engine'.issued)
                                  /\ Ask(s, id).call = engine'.issued[id]
         /\ UNCHANGED <<script, journal, session, queued, outstanding, queue, running, channel, late, opened>>
<1>1. /\ Drives(s) /\ engine' = s.engine /\ s.kind = "batch"
      /\ UNCHANGED <<script, journal, session, queued, outstanding, queue, running, channel, late, opened>>
  BY DEF NewBatch, Drives, poolVars
<1>2. /\ s.engine \in Engine /\ NewIds(s) # {} /\ NewIds(s) \subseteq 1..Len(s.engine.issued)
      /\ NewIds(s) \cap 1..Len(engine.issued) = {}
      /\ Awaiting(engine') = (Awaiting(engine) \ Ids(results)) \cup NewIds(s)
      /\ \A id \in 1..Len(engine.issued) :
           id \in 1..Len(engine'.issued) /\ engine'.issued[id] = engine.issued[id]
  BY <1>1, StepMoves, StepKinds
<1>3. NewIds(s) \subseteq Nat /\ IsFiniteSet(NewIds(s))
  <2>1. Len(s.engine.issued) \in Int /\ 1 \in Int
    BY <1>2 DEF Engine
  <2>2. IsFiniteSet(1..Len(s.engine.issued)) /\ 1..Len(s.engine.issued) \subseteq Nat
    BY <2>1, FS_Interval
  <2>3. QED
    BY <1>2, <2>2, FS_Subset
<1>4. ASSUME NEW id \in NewIds(s)
      PROVE  /\ id \in Announced(journal) => Held(id)
             /\ id \in 1..Len(engine'.issued)
             /\ Ask(s, id).call = engine'.issued[id]
  <2>1. id \in Announced(journal) /\ ~Held(id) => id \in 1..Len(engine.issued)
    BY DEF DriveInv, Matched
  <2>2. id \in 1..Len(s.engine.issued) /\ s.engine.issued[id] \in Calls
    BY <1>2 DEF Engine
  <2>3. Ask(s, id).call = s.engine.issued[id]
    BY <1>2, <2>2, StepStarts, RequestIs DEF Ask
  <2>4. QED
    BY <1>1, <1>2, <2>1, <2>2, <2>3
<1>5. QED
  BY <1>1, <1>2, <1>3, <1>4

\* The requests of a live batch are announced one after another.
LEMMA BatchLiveKeeps ==
  ASSUME DriveInv, pc = "step", NEW s, s = Step(script, engine, results), BatchLive(s)
  PROVE  DriveInv'
<1> DEFINE ids == NewIds(s)
<1>1. /\ NewBatch(s) /\ ~replay.active /\ results' = <<>> /\ pc' = "append"
      /\ todo' = Announcements(s, ids)
      /\ UNCHANGED <<replay, wait, resident, verdict, refused, watchdog>>
  BY DEF BatchLive
<1>2. /\ Drives(s) /\ engine' = s.engine /\ s.engine \in Engine
      /\ ids # {} /\ ids \in SUBSET (1..Len(s.engine.issued))
      /\ Awaiting(engine') = (Awaiting(engine) \ Ids(results)) \cup ids
      /\ \A id \in 1..Len(engine.issued) :
           id \in 1..Len(engine'.issued) /\ engine'.issued[id] = engine.issued[id]
      /\ \A id \in ids : id \in Announced(journal) => Held(id)
      /\ UNCHANGED <<script, journal, session, queued, outstanding, queue, running, channel, late, opened>>
  BY <1>1, BatchStarts
<1>3. /\ queued = <<>> /\ session # 0 /\ ~refused /\ script \in Script /\ session \in Nat
      /\ Awaiting(engine) \subseteq Out \cup Ids(results)
  BY StepStarts
<1> HIDE DEF ids
<1>4. /\ todo' \in Seq(Event)
      /\ \A i \in 1..Len(todo') : /\ todo'[i].type = "spawned" /\ todo'[i].id \in ids
                                  /\ todo'[i] = Spawned(todo'[i].id, Ask(s, todo'[i].id), session)
      /\ Announced(todo') = ids /\ AnnouncedOnce(todo') /\ todo' # <<>>
  BY <1>1, <1>2, <1>3, AnnouncementsAre
<1>5. \A id : ~Held(id) /\ ~Held(id)'
  BY <1>1 DEF Held
<1>6. \A i \in 1..Len(todo') : todo'[i].id \notin Announced(journal)
  BY <1>2, <1>4, <1>5
<1>7. Ids(results') = {} /\ OnceEach(results') /\ results' \in Seq(Result) /\ 1..Len(results') = {}
  BY <1>1, Empties
<1>8. /\ watchdog' \in {"off", "armed", "retired", "fired", "recorded"}
      /\ verdict' \in Failures \cup {"done", "none"} /\ wait' \in 0..outstanding
      /\ resident' \in Nat /\ replay'.active \in BOOLEAN /\ pc' \in Locations
  BY <1>1 DEF DriveInv, Types, TypeOK, Locations
<1>9. /\ Types' /\ Sane(script, engine)' /\ Placement' /\ Evidence' /\ Recorded' /\ Ends' /\ Out' = Out
  <2>1. Announced(todo') \cup Ids(results') \subseteq NewIds(s) /\ Announced(todo') \cap Ids(results') = {}
    BY <1>4, <1>7 DEF ids
  <2>2. pc' # "off"
    BY <1>1
  <2>3. QED
    BY <1>2, <1>4, <1>6, <1>7, <1>8, <2>1, <2>2, EngineKeeps
<1>10. Complete'
  <2>1. Placed' = ids \cup Out
    BY <1>4, <1>7, <1>9 DEF Placed
  <2>2. QED
    BY <1>2, <1>3, <2>1 DEF Complete
<1>11. Replaying'
  BY <1>1 DEF DriveInv, Replaying
<1>12. Owing'
  BY <1>2, <1>5, <1>9, StepStarts, Empties DEF DriveInv, Owing
<1>13. Matched'
  BY <1>2, <1>5 DEF DriveInv, Matched
<1>14. Control'
  <2>1. Announcing'
    BY <1>1, <1>4 DEF Announcing
  <2>2. QED
    BY <1>1, <1>2, <1>3, <2>1 DEF Control
<1>15. QED
  BY <1>9, <1>10, <1>11, <1>12, <1>13, <1>14 DEF DriveInv

\* What a batch finds in the journal: results that are fed back, in the order
\* they were recorded.
LEMMA ReplayFeeds ==
  ASSUME DriveInv, replay.active, NEW done \in SUBSET (DOMAIN replay.steps), IsFiniteSet(done), done \subseteq Nat,
         \A id \in done : replay.steps[id].at > 0
  PROVE  /\ Fed(done) \in Seq(Result) /\ OnceEach(Fed(done)) /\ Ids(Fed(done)) = done
         /\ \A i \in 1..Len(Fed(done)) :
              LET id == Fed(done)[i].id
              IN  /\ id \in Announced(journal) /\ Load(journal)[id].at > 0
                  /\ Fed(done)[i].value = Outcome(Load(journal)[id])
<1>1. journal \in Seq(Event)
  BY DEF DriveInv, Types
<1>2. \A id \in DOMAIN replay.steps : id \in Announced(journal) /\ replay.steps[id] = Load(journal)[id]
  BY DEF DriveInv, Replaying
<1>3. ASSUME NEW id \in done
      PROVE  /\ replay.steps[id].at \in Nat /\ replay.steps[id].run \in Nat
             /\ replay.steps[id].at \in 1..Len(journal) /\ journal[replay.steps[id].at].id = id
  <2>1. id \in Announced(journal) /\ replay.steps[id] = Load(journal)[id] /\ Load(journal)[id].at > 0
    BY <1>2
  <2>2. /\ Load(journal)[id].at \in 0..Len(journal)
        /\ Load(journal)[id].at # 0 => Load(journal)[id].at \in Since(journal, id)
        /\ Load(journal)[id].run = journal[LastSpawn(journal, id)].run
    BY <1>1, <2>1, EntryIs
  <2>3. LastSpawn(journal, id) \in 1..Len(journal) /\ journal[LastSpawn(journal, id)].type = "spawned"
    BY <1>1, <2>1, LastSpawnIs
  <2>4. journal[LastSpawn(journal, id)] \in Event
    BY <1>1, <2>3
  <2>5. journal[LastSpawn(journal, id)].run \in Nat
    BY <2>3, <2>4, EventFields
  <2>6. Len(journal) \in Nat
    BY <1>1
  <2>7. Load(journal)[id].at \in 1..Len(journal)
    BY <2>1, <2>2, <2>6
  <2>8. journal[Load(journal)[id].at].id = id
    BY <2>1, <2>2, <2>7 DEF Since
  <2>9. QED
    BY <2>1, <2>2, <2>5, <2>7, <2>8
<1>4. \A x, y \in done : replay.steps[x].at = replay.steps[y].at => x = y
  BY <1>3
<1>5. /\ Fed(done) \in Seq(Result) /\ OnceEach(Fed(done)) /\ Ids(Fed(done)) = done
      /\ \A i \in 1..Len(Fed(done)) :
           Fed(done)[i].id \in done /\ Fed(done)[i].value = Outcome(replay.steps[Fed(done)[i].id])
  BY <1>3, <1>4, FedAre
<1>6. QED
  BY <1>2, <1>5

\* The steps of a replay, replaced.
LEMMA StepsExchanged ==
  ASSUME NEW old, NEW left
  PROVE  [[active |-> TRUE, steps |-> old] EXCEPT !.steps = left] = [active |-> TRUE, steps |-> left]
<1> DEFINE R == [active : BOOLEAN, steps : {old, left}]
           before == [active |-> TRUE, steps |-> old]
           after == [before EXCEPT !.steps = left]
<1>1. before \in R /\ before.active = TRUE
  OBVIOUS
<1> HIDE DEF before
<1>2. after \in R /\ after.active = TRUE /\ after.steps = left
  BY <1>1
<1> HIDE DEF after
<1>3. after = [active |-> TRUE, steps |-> left]
  BY <1>2
<1>4. QED
  BY <1>3 DEF before, after

\* A batch the log holds is answered from it, and asked for where it does not.
LEMMA BatchReplayedKeeps ==
  ASSUME DriveInv, pc = "step", NEW s, s = Step(script, engine, results), BatchReplayed(s)
  PROVE  DriveInv'
<1> DEFINE ids == NewIds(s)
           known == DOMAIN replay.steps
           done == {id \in ids \cap known : replay.steps[id].at > 0}
           live == ids \ done
           left == [id \in known \ ids |-> replay.steps[id]]
           fresh == Announcements(s, live)
<1>1. /\ NewBatch(s) /\ replay.active /\ ~Divergent(s) /\ results' = Fed(done)
      /\ resident' = resident + Cardinality({id \in done : replay.steps[id].ok})
      /\ \/ /\ live = {} /\ pc' = "collect" /\ wait' = outstanding
            /\ replay' = [replay EXCEPT !.steps = left] /\ UNCHANGED todo
         \/ /\ live # {} /\ pc' = "append" /\ todo' = <<Resumed>> \o fresh
            /\ replay' = NoReplay /\ UNCHANGED wait
      /\ UNCHANGED <<verdict, refused, watchdog>>
  BY DEF BatchReplayed
<1>2. /\ Drives(s) /\ engine' = s.engine /\ s.engine \in Engine
      /\ ids \in SUBSET (1..Len(s.engine.issued)) /\ ids \subseteq Nat /\ IsFiniteSet(ids)
      /\ Awaiting(engine') = (Awaiting(engine) \ Ids(results)) \cup ids
      /\ \A id \in 1..Len(engine.issued) :
           id \in 1..Len(engine'.issued) /\ engine'.issued[id] = engine.issued[id]
      /\ \A id \in ids : /\ id \in Announced(journal) => Held(id)
                         /\ id \in 1..Len(engine'.issued) /\ Ask(s, id).call = engine'.issued[id]
      /\ UNCHANGED <<script, journal, session, queued, outstanding, queue, running, channel, late, opened>>
  BY <1>1, BatchStarts
<1>3. /\ queued = <<>> /\ todo = <<>> /\ session # 0 /\ ~refused /\ script \in Script /\ session \in Nat
      /\ outstanding \in Nat /\ wait \in 0..outstanding /\ journal \in Seq(Event)
      /\ Awaiting(engine) \subseteq Out \cup Ids(results)
  BY StepStarts
<1>4. /\ queue = <<>> /\ running = {} /\ channel = <<>> /\ outstanding = 0 /\ OnlyKills /\ Announced(todo) = {}
      /\ \A id \in known : id \in Announced(journal) /\ replay.steps[id] = Load(journal)[id]
  BY <1>1 DEF DriveInv, Replaying
<1>5. Out = {}
  BY <1>3, <1>4, Empties DEF Out
<1>6. /\ \A id \in ids \cap known : replay.steps[id].request = Ask(s, id)
      /\ ids \cap known # {} => ids \subseteq known
      /\ ~(known \subseteq ids) => ids \cap known # {} /\ \A id \in ids : replay.steps[id].at # 0
  BY <1>1 DEF Divergent
<1>7. \A id \in known : replay.steps[id].at \in Nat
  <2>1. \A id \in Announced(journal) : Load(journal)[id].at \in 0..Len(journal)
    BY <1>3, EntryIs
  <2>2. QED
    BY <1>3, <1>4, <2>1
<1> HIDE DEF ids, known
<1>8. live # {} => known \subseteq ids
  <2> SUFFICES ASSUME ~(known \subseteq ids)
               PROVE  ids \subseteq done
    OBVIOUS
  <2>1. ids \subseteq known /\ \A id \in ids : replay.steps[id].at # 0
    BY <1>6
  <2>2. QED
    BY <1>7, <2>1
<1>9. done \in SUBSET known /\ done \subseteq ids /\ IsFiniteSet(done) /\ done \subseteq Nat
      /\ \A id \in done : replay.steps[id].at > 0
  <2>1. done \subseteq ids /\ done \subseteq known
    OBVIOUS
  <2>2. QED
    BY <1>2, <2>1, FS_Subset
<1>10. \A id \in ids \cap known : id \notin done => replay.steps[id].at = 0
  BY <1>7
<1>11. live \in SUBSET (1..Len(s.engine.issued)) /\ live \subseteq ids /\ ids = live \cup done /\ live \cap done = {}
  BY <1>2, <1>9
<1>12. Cardinality({id \in done : replay.steps[id].ok}) \in Nat
  <2>1. {id \in done : replay.steps[id].ok} \subseteq done
    OBVIOUS
  <2>2. QED
    BY <1>9, <2>1, FS_Subset, FS_CardinalityType
<1> HIDE DEF done, live
<1>13. /\ results' \in Seq(Result) /\ OnceEach(results') /\ Ids(results') = done
       /\ \A i \in 1..Len(results') :
           /\ results'[i].id \in Announced(journal) /\ Load(journal)[results'[i].id].at > 0
           /\ results'[i].value = Outcome(Load(journal)[results'[i].id])
  BY <1>1, <1>9, ReplayFeeds DEF known
<1>14. /\ todo' \in Seq(Event) /\ AnnouncedOnce(todo') /\ Announced(todo') = live
       /\ \A i \in 1..Len(todo') : todo'[i].type = "spawned" =>
            todo'[i].id \in live /\ todo'[i] = Spawned(todo'[i].id, Ask(s, todo'[i].id), session)
       /\ live # {} => /\ todo' # <<>> /\ Len(todo') > 1 /\ todo'[1] = Resumed
                       /\ \A i \in 1..Len(todo') : i = 1 \/ todo'[i].type = "spawned"
       /\ live = {} => todo' = <<>>
  <2>1. CASE live = {}
    <3>1. todo' = <<>>
      BY <1>1, <1>3, <2>1
    <3>2. QED
      BY <2>1, <3>1, Empties
  <2>2. CASE live # {}
    <3>1. /\ fresh \in Seq(Event) /\ Len(fresh) \in Nat
          /\ \A i \in 1..Len(fresh) : /\ fresh[i].type = "spawned" /\ fresh[i].id \in live
                                      /\ fresh[i] = Spawned(fresh[i].id, Ask(s, fresh[i].id), session)
          /\ Announced(fresh) = live /\ AnnouncedOnce(fresh) /\ fresh # <<>>
      BY <1>2, <1>3, <1>11, <2>2, AnnouncementsAre
    <3>2. todo' = <<Resumed>> \o fresh
      BY <1>1, <2>2
    <3> HIDE DEF fresh
    <3>3. /\ todo' \in Seq(Event) /\ Len(todo') = Len(fresh) + 1 /\ todo' # <<>>
          /\ todo'[1] = Resumed
          /\ \A i \in 1..Len(todo') : i = 1 \/ (i - 1 \in 1..Len(fresh) /\ todo'[i] = fresh[i - 1])
          /\ Announced(todo') = Announced(fresh) /\ AnnouncedOnce(todo')
      BY <3>1, <3>2, MarkedAre
    <3>4. Len(fresh) # 0
      BY <3>1
    <3>5. Resumed.type # "spawned"
      BY EventsAre
    <3>6. /\ \A i \in 1..Len(todo') : i = 1 \/ todo'[i].type = "spawned"
          /\ \A i \in 1..Len(todo') : todo'[i].type = "spawned" =>
               todo'[i].id \in live /\ todo'[i] = Spawned(todo'[i].id, Ask(s, todo'[i].id), session)
      BY <3>1, <3>3, <3>5
    <3>7. Len(todo') > 1
      BY <3>1, <3>3, <3>4
    <3>8. QED
      BY <2>2, <3>1, <3>3, <3>6, <3>7
  <2>3. QED
    BY <2>1, <2>2
<1>15. \A id \in live : id \in Announced(journal) => Load(journal)[id].at = 0
  BY <1>2, <1>4, <1>10, <1>11 DEF Held, known
<1>16. /\ watchdog' \in {"off", "armed", "retired", "fired", "recorded"}
       /\ verdict' \in Failures \cup {"done", "none"} /\ wait' \in 0..outstanding
       /\ resident' \in Nat /\ replay'.active \in BOOLEAN /\ pc' \in Locations
  <2>1. wait' \in 0..outstanding
    BY <1>1, <1>3
  <2>2. replay'.active \in BOOLEAN
    <3>1. replay' = NoReplay \/ replay' = [active |-> TRUE, steps |-> left]
      BY <1>1 DEF DriveInv, Replaying
    <3> HIDE DEF left
    <3>2. NoReplay.active = FALSE /\ [active |-> TRUE, steps |-> left].active = TRUE
      BY DEF NoReplay
    <3>3. QED
      BY <3>1, <3>2
  <2>3. resident' \in Nat
    BY <1>1, <1>12 DEF DriveInv, Types, TypeOK
  <2>4. pc' \in Locations
    BY <1>1 DEF Locations
  <2>5. QED
    BY <1>1, <2>1, <2>2, <2>3, <2>4 DEF DriveInv, Types, TypeOK
<1>17. /\ Types' /\ Sane(script, engine)' /\ Placement' /\ Evidence' /\ Recorded' /\ Ends' /\ Out' = {}
  <2>1. Announced(todo') \cup Ids(results') \subseteq NewIds(s) /\ Announced(todo') \cap Ids(results') = {}
    BY <1>11, <1>13, <1>14 DEF ids
  <2>2. pc' # "off"
    BY <1>1
  <2>3. \A i \in 1..Len(todo') : todo'[i].type = "spawned" =>
           /\ todo'[i] = Spawned(todo'[i].id, Ask(s, todo'[i].id), session)
           /\ todo'[i].id \in Announced(journal) => Load(journal)[todo'[i].id].at = 0
    BY <1>14, <1>15
  <2>4. QED
    BY <1>2, <1>5, <1>13, <1>14, <1>16, <2>1, <2>2, <2>3, EngineKeeps
<1>18. Complete'
  <2>1. Placed' = ids
    BY <1>11, <1>13, <1>14, <1>17 DEF Placed
  <2>2. QED
    BY <1>2, <1>3, <1>5, <2>1 DEF Complete
<1>19. CASE live = {}
  <2>1. /\ pc' = "collect" /\ replay'.active /\ todo' = <<>> /\ replay'.steps = left
        /\ replay' = [active |-> TRUE, steps |-> replay'.steps]
    <3>1. replay' = [replay EXCEPT !.steps = left]
      BY <1>1, <1>19
    <3>2. replay = [active |-> TRUE, steps |-> replay.steps]
      BY <1>1 DEF DriveInv, Replaying
    <3> HIDE DEF left
    <3>3. \A old : [[active |-> TRUE, steps |-> old] EXCEPT !.steps = left]
                   = [active |-> TRUE, steps |-> left]
      BY StepsExchanged
    <3>4. replay' = [active |-> TRUE, steps |-> left]
      <4>1. [replay EXCEPT !.steps = left] = [active |-> TRUE, steps |-> left]
        BY Zenon, <3>2, <3>3
      <4>2. QED
        BY <3>1, <4>1
    <3>5. QED
      BY <1>1, <1>3, <1>19, <3>4
  <2>2. DOMAIN replay'.steps = known \ ids /\ \A id \in known \ ids : replay'.steps[id] = replay.steps[id]
    BY <2>1
  <2>3. Replaying'
    BY <1>2, <1>3, <1>4, <2>1, <2>2, Empties DEF Replaying, OnlyKills
  <2>4. \A id : Held(id)' <=> (Held(id) /\ id \notin ids)
    BY <1>1, <2>1, <2>2 DEF Held, known
  <2>5. Owing'
    <3>1. ASSUME NEW id \in Announced(journal), Load(journal)[id].at = 0, ~Held(id)'
          PROVE  FALSE
      <4>1. CASE Held(id)
        <5>1. id \in ids \cap known
          BY <2>4, <3>1, <4>1 DEF Held, known
        <5>2. id \in done
          BY <1>11, <1>19, <5>1
        <5>3. replay.steps[id].at > 0 /\ replay.steps[id].at = 0
          BY <1>4, <1>9, <3>1, <5>1, <5>2
        <5>4. QED
          BY <5>3
      <4>2. CASE ~Held(id)
        BY <1>4, <1>5, <3>1, <4>2 DEF DriveInv, Owing
      <4>3. QED
        BY <4>1, <4>2
    <3>2. QED
      BY <1>2, <3>1 DEF Owing
  <2>6. Matched'
    <3>1. ASSUME NEW id \in Announced(journal), ~Held(id)'
          PROVE  id \in 1..Len(engine'.issued) /\ Load(journal)[id].request.call = engine'.issued[id]
      <4>1. CASE Held(id)
        <5>1. id \in ids \cap known
          BY <2>4, <3>1, <4>1 DEF Held, known
        <5>2. QED
          BY <1>2, <1>4, <1>6, <5>1
      <4>2. CASE ~Held(id)
        BY <1>2, <3>1, <4>2 DEF DriveInv, Matched
      <4>3. QED
        BY <4>1, <4>2
    <3>2. QED
      BY <1>2, <3>1 DEF Matched
  <2>7. Control'
    BY <1>1, <1>2, <1>3, <2>1 DEF Control
  <2>8. QED
    BY <1>17, <1>18, <2>3, <2>5, <2>6, <2>7 DEF DriveInv
<1>20. CASE live # {}
  <2>1. pc' = "append" /\ replay' = NoReplay /\ ~replay'.active
    BY <1>1, <1>20 DEF NoReplay
  <2>2. Replaying'
    BY <2>1 DEF Replaying
  <2>3. \A id : ~Held(id)'
    BY <2>1 DEF Held
  <2>4. \A id : Held(id) => id \in ids \cap known
    BY <1>8, <1>20 DEF Held, known
  <2>5. Owing'
    <3>1. ASSUME NEW id \in Announced(journal), Load(journal)[id].at = 0
          PROVE  id \in Announced(todo')
      <4>1. CASE Held(id)
        <5>1. id \in ids \cap known
          BY <2>4, <4>1
        <5>2. id \notin done
          BY <1>4, <1>9, <3>1, <5>1
        <5>3. QED
          BY <1>11, <1>14, <5>1, <5>2
      <4>2. CASE ~Held(id)
        BY <1>4, <1>5, <3>1, <4>2 DEF DriveInv, Owing
      <4>3. QED
        BY <4>1, <4>2
    <3>2. QED
      BY <1>2, <3>1 DEF Owing
  <2>6. Matched'
    <3>1. ASSUME NEW id \in Announced(journal)
          PROVE  id \in 1..Len(engine'.issued) /\ Load(journal)[id].request.call = engine'.issued[id]
      <4>1. CASE Held(id)
        <5>1. id \in ids \cap known
          BY <2>4, <4>1
        <5>2. QED
          BY <1>2, <1>4, <1>6, <5>1
      <4>2. CASE ~Held(id)
        BY <1>2, <3>1, <4>2 DEF DriveInv, Matched
      <4>3. QED
        BY <4>1, <4>2
    <3>2. QED
      BY <1>2, <3>1 DEF Matched
  <2>7. Announcing'
    BY <1>2, <1>3, <1>14, <1>20, <2>1 DEF Announcing
  <2>8. Control'
    BY <1>1, <1>2, <1>3, <2>1, <2>7 DEF Control
  <2>9. QED
    BY <1>17, <1>18, <2>2, <2>5, <2>6, <2>8 DEF DriveInv
<1>21. QED
  BY <1>19, <1>20

-----------------------------------------------------------------------------
(* The invariant                                                           *)

\* A step of the engine, whatever comes of it.
LEMMA StepEngineKeeps ==
  ASSUME DriveInv, StepEngine
  PROVE  DriveInv'
<1>1. pc = "step"
  BY DEF StepEngine
<1>2. PICK s : /\ s = Step(script, engine, results)
               /\ \/ BatchTooLate(s) \/ BatchLive(s) \/ BatchRefused(s) \/ BatchReplayed(s)
                  \/ StepAwaiting(s) \/ StepDone(s) \/ StepFailed(s)
  BY DEF StepEngine
<1>3. CASE BatchTooLate(s)
  BY <1>1, <1>2, <1>3, BatchTooLateKeeps
<1>4. CASE BatchLive(s)
  BY <1>1, <1>2, <1>4, BatchLiveKeeps
<1>5. CASE BatchRefused(s)
  BY <1>1, <1>2, <1>5, BatchRefusedKeeps
<1>6. CASE BatchReplayed(s)
  BY <1>1, <1>2, <1>6, BatchReplayedKeeps
<1>7. CASE StepAwaiting(s)
  BY <1>1, <1>2, <1>7, StepAwaitingKeeps
<1>8. CASE StepDone(s) \/ StepFailed(s)
  BY <1>1, <1>2, <1>8, StepOverKeeps
<1>9. QED
  BY <1>2, <1>3, <1>4, <1>5, <1>6, <1>7, <1>8

\* A write the disk refuses.
LEMMA LossKeeps ==
  ASSUME DriveInv, AppendLost \/ ReceiptLost
  PROVE  DriveInv'
<1>1. /\ AppendFails /\ pc \notin {"off", "join", "stuck"}
      /\ watchdog' = Retired \/ watchdog' = watchdog
  BY DEF AppendLost, ReceiptLost
<1>2. watchdog' \in {"off", "armed", "retired", "fired", "recorded"}
  BY <1>1 DEF DriveInv, Types, TypeOK, Retired
<1>3. QED
  BY <1>1, <1>2, FailsKeeps

\* The session ends: the process exits, is killed, or the watchdog goes.
LEMMA EndsKeeps ==
  ASSUME DriveInv, Exit \/ Crash \/ WatchdogExits
  PROVE  DriveInv'
<1>1. Gone /\ UNCHANGED journal /\ pc # "off"
  BY DEF DriveInv, Control, Exit, Crash, WatchdogExits
<1>2. QED
  BY <1>1, GoneKeeps

\* Every step keeps the invariant.
LEMMA NextKeeps ==
  ASSUME DriveInv, [Next]_vars
  PROVE  DriveInv'
<1>1. CASE Begin
  BY <1>1, BeginKeeps
<1>2. CASE Resume
  BY <1>2, ResumeKeeps
<1>3. CASE Drive
  <2>1. CASE CapBreached
    BY <2>1, CapBreachedKeeps
  <2>2. CASE StepEngine
    BY <2>2, StepEngineKeeps
  <2>3. CASE AppendEvent
    BY <2>3, AppendEventKeeps
  <2>4. CASE AppendLost \/ ReceiptLost
    BY <2>4, LossKeeps
  <2>5. CASE Receive
    BY <2>5, ReceiveKeeps
  <2>6. CASE Collected
    BY <2>6, CollectedKeeps
  <2>7. CASE Drained
    BY <2>7, DrainedKeeps
  <2>8. CASE Exit
    BY <2>8, EndsKeeps
  <2>9. QED
    BY <1>3, <2>1, <2>2, <2>3, <2>4, <2>5, <2>6, <2>7, <2>8 DEF Drive
<1>4. CASE StartChild \/ NotificationMissed
  BY <1>4, StartChildKeeps, MissedKeeps
<1>5. CASE \E id \in running : FinishChild(id)
  BY <1>5, FinishChildKeeps
<1>6. CASE Deadline \/ WatchdogFires
  BY <1>6, ClockKeeps
<1>7. CASE WatchdogRecords
  BY <1>7, WatchdogRecordsKeeps
<1>8. CASE WatchdogExits \/ Crash
  BY <1>8, EndsKeeps
<1>9. CASE UNCHANGED vars
  <2>1. UNCHANGED <<script, journal, session, placed, pc, replay, outstanding, wait, resident, verdict,
                    refused, late, watchdog, opened>>
    BY <1>9 DEF vars, driveVars, poolVars, timeVars, placed
  <2>2. Placement' /\ Placed' = Placed /\ Out' = Out /\ Evidence' /\ Recorded'
    BY <2>1, PlacementKept, EvidenceKept DEF DriveInv, Recorded
  <2>3. Types'
    BY <2>1 DEF DriveInv, Types, TypeOK, placed
  <2>4. Sane(script, engine)' /\ Complete' /\ Replaying' /\ Owing' /\ Matched' /\ Ends'
    BY <2>1, <2>2 DEF DriveInv, Complete, Replaying, OnlyKills, Owing, Matched, Held, Ends, NoBreach, placed
  <2>5. Control'
    BY <2>1 DEF DriveInv, Control, Opening, Announcing, Concluding, OnlyKills, placed
  <2>6. QED
    BY <2>2, <2>3, <2>4, <2>5 DEF DriveInv
<1>10. QED
  BY <1>1, <1>2, <1>3, <1>4, <1>5, <1>6, <1>7, <1>8, <1>9 DEF Next, Watchdog

\* A request is in one place at a time, the log tells the truth about it, and
\* the loop knows what it owes: the inductive invariant of the drive loop.
THEOREM Invariant == Spec => []DriveInv
<1>1. Init => DriveInv
  BY InitHolds
<1>2. DriveInv /\ [Next]_vars => DriveInv'
  BY NextKeeps
<1>3. QED
  BY <1>1, <1>2, PTL DEF Spec

\* The state of the loop keeps its types: it never waits for more completions
\* than are outstanding, and its verdicts are the outcomes the log may record.
THEOREM TypesHold == Spec => []TypeOK
<1>1. DriveInv => TypeOK
  BY DEF DriveInv, Types
<1>2. QED
  BY <1>1, Invariant, PTL

\* The invariant accounts for every announced child.
LEMMA Accounted ==
  ASSUME DriveInv
  PROVE  ChildrenAreAccounted
<1>1. OutstandingIsExact
  BY DEF DriveInv, Placement, OutstandingIsExact
<1>2. AnnouncedBeforeLaunch
  <2>1. ASSUME NEW id \in running
        PROVE  \E i \in 1..Len(journal) :
                 journal[i] = Spawned(id, Request(script, engine, engine.issued[id]), session)
    <3>1. id \in Announced(journal) /\ Load(journal)[id] = Fresh(id)
      BY DEF DriveInv, Evidence, Out
    <3>2. journal \in Seq(Event)
      BY DEF DriveInv, Types
    <3>3. /\ LastSpawn(journal, id) \in 1..Len(journal)
          /\ journal[LastSpawn(journal, id)].type = "spawned" /\ journal[LastSpawn(journal, id)].id = id
      BY <3>1, <3>2, LastSpawnIs
    <3>4. /\ Load(journal)[id].request = journal[LastSpawn(journal, id)].request
          /\ Load(journal)[id].run = journal[LastSpawn(journal, id)].run
      BY <3>1, <3>2, EntryIs
    <3>5. /\ journal[LastSpawn(journal, id)].request = Request(script, engine, engine.issued[id])
          /\ journal[LastSpawn(journal, id)].run = session
      BY <3>1, <3>4 DEF Fresh
    <3>6. journal[LastSpawn(journal, id)] \in Event
      BY <3>2, <3>3
    <3>7. journal[LastSpawn(journal, id)] = Spawned(id, Request(script, engine, engine.issued[id]), session)
      BY <3>3, <3>5, <3>6, EventFields
    <3>8. QED
      BY <3>3, <3>7
  <2>2. \A i \in 1..Len(queued) : queued[i] \notin running
    BY DEF DriveInv, Placement, Apart, Members
  <2>3. QED
    BY <2>1, <2>2 DEF AnnouncedBeforeLaunch
<1>3. NoBreach
  BY DEF DriveInv, Ends
<1>4. QED
  BY <1>1, <1>2, <1>3 DEF ChildrenAreAccounted

\* No child is waited for that cannot be heard from, none runs unannounced,
\* and the loop never finds the engine in breach of what it was promised.
THEOREM ChildrenHold == Spec => []ChildrenAreAccounted
<1>1. DriveInv => ChildrenAreAccounted
  BY Accounted
<1>2. QED
  BY <1>1, Invariant, PTL

\* Whatever the script has been given for a call is the outcome the log
\* records for it, in every session.
THEOREM ScriptHolds == Spec => []ScriptSawTheLog
<1>1. DriveInv => ScriptSawTheLog
  BY DEF DriveInv, Evidence
<1>2. QED
  BY <1>1, Invariant, PTL

\* A session that refuses to resume appends nothing: the log grows by the
\* watchdog's own note at most.
THEOREM RefusalHolds == Spec => []RefusalAppendsNothing
<1>1. DriveInv => RefusalAppendsNothing
  BY DEF DriveInv, Control, OnlyKills, RefusalAppendsNothing
<1>2. QED
  BY <1>1, Invariant, PTL

-----------------------------------------------------------------------------
(* The drive loop implements WorkflowPromise                               *)

\* A log in which each call is one step with one outcome at most.
WellKept(log) ==
    /\ log \in Seq(Event)
    /\ \A i, j \in Announced(log) :
         Load(log)[i].request.call = Load(log)[j].request.call => i = j
    /\ \A id \in Announced(log) : \A i \in Since(log, id) : i = Load(log)[id].at

\* What such a log tells of a call is what the entry of its step says.
LEMMA ToldIs ==
  ASSUME NEW log, WellKept(log), NEW c \in Calls
  PROVE  /\ (\A id \in Announced(log) : Load(log)[id].request.call # c) => Told(log)[c] = "silent"
         /\ \A id \in Announced(log) : Load(log)[id].request.call = c =>
              Told(log)[c] = IF Load(log)[id].at = 0 THEN "announced" ELSE "settled"
<1> DEFINE last == [id \in Announced(log) |-> Max(SpawnsOf(log, id))]
           outcomes(id) == {i \in (last[id] + 1)..Len(log) : IsOutcome(log[i]) /\ log[i].id = id}
           ids == {id \in DOMAIN last : log[last[id]].request.call = c}
<1>1. Told(log)[c] = IF ids = {} THEN "silent"
                     ELSE IF \E id \in ids : outcomes(id) = {} THEN "announced"
                     ELSE IF \A id \in ids : Cardinality(outcomes(id)) = 1 THEN "settled"
                     ELSE "settled twice"
  BY DEF Told
<1>2. \A id \in Announced(log) : last[id] = LastSpawn(log, id) /\ outcomes(id) = Since(log, id)
  BY DEF LastSpawn, Since
<1>3. DOMAIN last = Announced(log)
  OBVIOUS
<1> HIDE DEF last
<1>4. \A id \in Announced(log) : Load(log)[id].request = log[last[id]].request
  <2>1. ASSUME NEW id \in Announced(log)
        PROVE  Load(log)[id].request = log[LastSpawn(log, id)].request
    <3>1. log \in Seq(Event)
      BY DEF WellKept
    <3>2. QED
      BY <3>1, EntryIs
  <2>2. QED
    BY <1>2, <2>1
<1>5. \A id : id \in ids <=> id \in Announced(log) /\ Load(log)[id].request.call = c
  BY <1>3, <1>4
<1> HIDE DEF ids, outcomes
<1>6. ASSUME \A id \in Announced(log) : Load(log)[id].request.call # c
      PROVE  Told(log)[c] = "silent"
  <2>1. ids = {}
    BY <1>5, <1>6
  <2>2. QED
    BY <1>1, <2>1
<1>7. ASSUME NEW id \in Announced(log), Load(log)[id].request.call = c
      PROVE  Told(log)[c] = IF Load(log)[id].at = 0 THEN "announced" ELSE "settled"
  <2>1. ids = {id}
    <3>1. \A j \in ids : j = id
      BY <1>5, <1>7 DEF WellKept
    <3>2. id \in ids
      BY <1>5, <1>7
    <3>3. QED
      BY <3>1, <3>2
  <2>2. Load(log)[id].at = 0 <=> outcomes(id) = {}
    <3>1. log \in Seq(Event)
      BY DEF WellKept
    <3>2. Load(log)[id].at = 0 <=> Since(log, id) = {}
      BY <3>1, EntryIs
    <3>3. outcomes(id) = Since(log, id)
      BY <1>2
    <3>4. QED
      BY <3>2, <3>3
  <2>3. CASE Load(log)[id].at = 0
    <3>1. ids # {} /\ \E j \in ids : outcomes(j) = {}
      BY <2>1, <2>2, <2>3
    <3>2. QED
      BY <1>1, <2>3, <3>1
  <2>4. CASE Load(log)[id].at # 0
    <3>1. outcomes(id) # {} /\ \A i \in outcomes(id) : i = Load(log)[id].at
      BY <1>2, <2>2, <2>4 DEF WellKept
    <3>2. outcomes(id) = {Load(log)[id].at}
      BY <3>1
    <3>3. Cardinality(outcomes(id)) = 1
      BY <3>2, FS_Singleton
    <3>4. ids # {} /\ ~(\E j \in ids : outcomes(j) = {}) /\ \A j \in ids : Cardinality(outcomes(j)) = 1
      BY <2>1, <3>1, <3>3
    <3>5. QED
      BY <1>1, <2>4, <3>4
  <2>5. QED
    BY <2>3, <2>4
<1>8. QED
  BY <1>6, <1>7

\* One step's entry changes: what the log tells of the other calls stays.
LEMMA ToldOfOne ==
  ASSUME NEW log, WellKept(log), NEW new, WellKept(new), NEW id \in Announced(new),
         Announced(new) = Announced(log) \cup {id},
         \A j \in Announced(log) : j # id => Load(new)[j] = Load(log)[j],
         NEW c \in Calls, Load(new)[id].request.call = c,
         id \in Announced(log) => Load(log)[id].request.call = c
  PROVE  /\ Told(new) = [Told(log) EXCEPT ![c] = IF Load(new)[id].at = 0 THEN "announced" ELSE "settled"]
         /\ Told(log)[c] = IF id \notin Announced(log) THEN "silent"
                           ELSE IF Load(log)[id].at = 0 THEN "announced" ELSE "settled"
<1>1. Told(new)[c] = IF Load(new)[id].at = 0 THEN "announced" ELSE "settled"
  BY ToldIs
<1>2. ASSUME NEW d \in Calls, d # c
      PROVE  Told(new)[d] = Told(log)[d]
  <2>1. CASE \E j \in Announced(new) : Load(new)[j].request.call = d
    <3>1. PICK j \in Announced(new) : Load(new)[j].request.call = d
      BY <2>1
    <3>2. j # id /\ j \in Announced(log) /\ Load(new)[j] = Load(log)[j]
      BY <1>2, <3>1
    <3>3. QED
      BY <3>1, <3>2, ToldIs
  <2>2. CASE \A j \in Announced(new) : Load(new)[j].request.call # d
    <3>1. \A j \in Announced(log) : Load(log)[j].request.call # d
      BY <1>2, <2>2
    <3>2. QED
      BY <2>2, <3>1, ToldIs
  <2>3. QED
    BY <2>1, <2>2
<1>3. /\ Told(new) = [d \in Calls |-> Told(new)[d]]
      /\ Told(log) = [d \in Calls |-> Told(log)[d]]
  BY Zenon DEF Told
<1> DEFINE f == Told(new)
           g == Told(log)
           v == IF Load(new)[id].at = 0 THEN "announced" ELSE "settled"
<1>4. f = [g EXCEPT ![c] = v]
  <2> HIDE DEF f, g, v
  <2>1. f = [d \in Calls |-> f[d]] /\ g = [d \in Calls |-> g[d]]
    BY <1>3 DEF f, g
  <2>2. f[c] = v /\ \A d \in Calls : d # c => f[d] = g[d]
    BY <1>1, <1>2 DEF f, g, v
  <2>3. DOMAIN f = Calls /\ DOMAIN g = Calls
    BY <2>1
  <2>4. QED
    BY <2>1, <2>2, <2>3
<1>5. Told(log)[c] = IF id \notin Announced(log) THEN "silent"
                     ELSE IF Load(log)[id].at = 0 THEN "announced" ELSE "settled"
  <2>1. CASE id \in Announced(log)
    BY <2>1, ToldIs
  <2>2. CASE id \notin Announced(log)
    <3>1. \A j \in Announced(log) : Load(log)[j].request.call # c
      BY <2>2 DEF WellKept
    <3>2. QED
      BY <2>2, <3>1, ToldIs
  <2>3. QED
    BY <2>1, <2>2
<1>6. QED
  BY <1>4, <1>5

\* What a log tells depends on its index alone.
LEMMA ToldKept ==
  ASSUME NEW log, WellKept(log), NEW new, WellKept(new),
         Announced(new) = Announced(log), Load(new) = Load(log)
  PROVE  Told(new) = Told(log)
<1>1. ASSUME NEW d \in Calls
      PROVE  Told(new)[d] = Told(log)[d]
  <2>1. CASE \E j \in Announced(new) : Load(new)[j].request.call = d
    BY <2>1, ToldIs
  <2>2. CASE \A j \in Announced(new) : Load(new)[j].request.call # d
    BY <2>2, ToldIs
  <2>3. QED
    BY <2>1, <2>2
<1>2. /\ Told(new) = [d \in Calls |-> Told(new)[d]]
      /\ Told(log) = [d \in Calls |-> Told(log)[d]]
  BY Zenon DEF Told
<1>3. [d \in Calls |-> Told(new)[d]] = [d \in Calls |-> Told(log)[d]]
  BY <1>1
<1>4. QED
  BY <1>2, <1>3

EndsOf(log) == {log[i].outcome : i \in {j \in 1..Len(log) : log[j].type = "ended"}}

\* The ends of a log after one more event.
LEMMA EndsAppended ==
  ASSUME NEW log \in Seq(Event), NEW e \in Event
  PROVE  /\ e.type # "ended" => EndsOf(Append(log, e)) = EndsOf(log)
         /\ e.type = "ended" => EndsOf(Append(log, e)) = EndsOf(log) \cup {e.outcome}
<1> DEFINE new == Append(log, e)
           n == Len(log)
<1>1. /\ Len(new) = n + 1 /\ new[n + 1] = e /\ \A i \in 1..n : new[i] = log[i]
      /\ \A i \in 1..(n + 1) : i \in 1..n \/ i = n + 1
      /\ \A i \in 1..n : i \in 1..(n + 1)
      /\ n + 1 \in 1..(n + 1)
  BY Appended
<1> HIDE DEF new, n
<1>2. ASSUME NEW o
      PROVE  o \in EndsOf(new) <=> o \in EndsOf(log) \/ (e.type = "ended" /\ e.outcome = o)
  <2>1. o \in EndsOf(new) <=> \E i \in 1..(n + 1) : new[i].type = "ended" /\ new[i].outcome = o
    BY <1>1 DEF EndsOf
  <2>2. o \in EndsOf(log) <=> \E i \in 1..n : log[i].type = "ended" /\ log[i].outcome = o
    BY DEF EndsOf, n
  <2>3. QED
    BY <1>1, <2>1, <2>2
<1>3. QED
  BY <1>2 DEF new

\* The verdict of a log depends on its ends alone.
LEMMA VerdictIs ==
  ASSUME NEW log
  PROVE  Verdict(log) = IF "done" \in EndsOf(log) THEN "done"
                        ELSE IF EndsOf(log) \cap Failures # {} THEN "failed"
                        ELSE IF EndsOf(log) \subseteq {"wall_deadline", "watchdog_kill"} THEN "open"
                        ELSE "cut"
  BY DEF Verdict, EndsOf

-----------------------------------------------------------------------------
(* Each action and the promise                                             *)

\* The log is well kept.
LEMMA LogWellKept ==
  ASSUME DriveInv
  PROVE  WellKept(journal)
  BY DEF DriveInv, Types, Recorded, WellKept

\* The log is well kept after the step.
LEMMA LogWellKeptNext ==
  ASSUME DriveInv'
  PROVE  WellKept(journal')
  BY DEF DriveInv, Types, Recorded, WellKept

\* A run that has not ended is open.
LEMMA RunIsOpen ==
  ASSUME DriveInv, pc \notin {"off", "join", "stuck"}
  PROVE  Verdict(journal) = "open"
<1>1. EndsOf(journal) \subseteq {"wall_deadline", "watchdog_kill"}
  BY DEF DriveInv, Ends, EndsOf
<1>2. "done" \notin EndsOf(journal) /\ EndsOf(journal) \cap Failures = {}
  BY <1>1 DEF Failures
<1>3. QED
  BY <1>1, <1>2, VerdictIs

\* A run that is recorded done or failed owes nothing.
LEMMA NothingOwed ==
  ASSUME DriveInv, pc = "append", NEW o \in Failures \cup {"done"}, todo = <<Ended(o)>>
  PROVE  \A c \in Calls : Told(journal)[c] # "announced"
<1>1. o \in Outcomes /\ Ended(o) \in Event /\ Ended(o).outcome = o /\ Ended(o).type = "ended"
  BY EventsAre DEF Outcomes
<1> DEFINE e == Ended(o)
<1> HIDE DEF e
<1>2. todo = <<e>>
  BY DEF e
<1>3. todo[1] = e /\ Len(todo) = 1
  BY <1>2
<1>4. Concluding
  <2>1. ~Opening
    BY <1>1, <1>3, EventsAre DEF Opening, e
  <2>2. ~Announcing
    BY <1>1, <1>3, EventsAre DEF Announcing, e
  <2>3. QED
    BY <2>1, <2>2 DEF DriveInv, Control
<1>5. PICK p \in Verdicts :
        /\ todo \in {<<Ended(p)>>, <<Resumed, Ended(p)>>}
        /\ p \in Failures \cup {"done"} =>
              outstanding = 0 /\ (replay.active => DOMAIN replay.steps = {})
  BY <1>4 DEF Concluding
<1>6. p = o
  <2>1. todo = <<Ended(p)>>
    BY <1>3, <1>5
  <2>2. Ended(p) = e
    BY <1>3, <2>1
  <2>3. Ended(p).outcome = p
    BY EventsAre DEF Verdicts
  <2>4. QED
    BY <1>1, <2>2, <2>3 DEF e
<1>7. outstanding = 0 /\ \A id : ~Held(id)
  BY <1>5, <1>6 DEF Held
<1>8. queue = <<>> /\ running = {} /\ channel = <<>> /\ queued = <<>>
  BY <1>4, <1>7, NobodyOut DEF DriveInv, Concluding
<1>9. Out = {}
  BY <1>8, Empties DEF Out
<1>10. NoSpawn(todo)
  BY <1>1, Shorts
<1>11. \A id \in Announced(journal) : Load(journal)[id].at # 0
  BY <1>7, <1>9, <1>10, NoSpawnIs DEF DriveInv, Owing
<1>12. WellKept(journal)
  BY LogWellKept
<1>13. QED
  BY <1>11, <1>12, ToldIs

\* A call may be told one thing more.
LEMMA Furthered ==
  ASSUME NEW now, NEW c \in Calls
  PROVE  /\ now[c] \in {"silent", "announced"} => [now EXCEPT ![c] = "announced"] \in Promise!Further(now)
         /\ now[c] = "announced" => [now EXCEPT ![c] = "settled"] \in Promise!Further(now)
  BY DEF Promise!Further

\* The announcement of a step tells of one call.
LEMMA AnnouncePromised ==
  ASSUME DriveInv, DriveInv', AppendEvent, Head(todo).type = "spawned"
  PROVE  Promise!Tell
<1> DEFINE e == Head(todo)
           id == e.id
           c == engine.issued[id]
<1>1. pc = "append" /\ todo \in Seq(Event) /\ todo # <<>> /\ e \in Event /\ e.type = "spawned"
      /\ journal' = Append(journal, e)
  BY AppendIs
<1>2. /\ script \in Script /\ engine \in Engine /\ session \in Nat /\ journal \in Seq(Event)
  BY ScriptIs DEF DriveInv, Types
<1>3. e = todo[1] /\ 1 \in 1..Len(todo)
  BY <1>1, Tailed
<1>4. id \in Announced(todo)
  BY <1>1, <1>3 DEF Announced
<1>5. id \in 1..Len(engine.issued) /\ id \in Nat /\ c \in Calls
  <2>1. id \in Awaiting(engine)
    BY <1>4 DEF DriveInv, Placement, Placed
  <2>2. QED
    BY <1>2, <2>1 DEF Awaiting, Engine
<1>6. /\ e = Spawned(id, Request(script, engine, c), session)
      /\ id \in Announced(journal) => Load(journal)[id].at = 0
  BY <1>1, <1>3 DEF DriveInv, Evidence
<1>7. Request(script, engine, c) \in Asked /\ Request(script, engine, c).call = c
  BY <1>2, <1>5, RequestIs
<1> HIDE DEF e
<1>8. ~replay.active
  <2>1. replay.active => Announced(todo) = {}
    BY DEF DriveInv, Replaying
  <2>2. QED
    BY <1>4, <2>1
<1>9. id \in Announced(journal) => Load(journal)[id].request.call = c
  BY <1>1, <1>8 DEF DriveInv, Matched, Held
<1> HIDE DEF id
<1>10. Announced(journal') = Announced(journal) \cup {id}
  BY <1>1, <1>2, AnnouncedAppended DEF id
<1>11. \A j \in Announced(journal) : j # id => Load(journal')[j] = Load(journal)[j]
  BY <1>1, <1>2, EntryKept DEF id, IsOutcome
<1> HIDE DEF c
<1>12. Load(journal')[id] = [request |-> Request(script, engine, c), run |-> session, at |-> 0, ok |-> FALSE]
  BY <1>1, <1>2, <1>5, <1>6, <1>7, EntryOpened
<1>13. Load(journal')[id].at = 0 /\ Load(journal')[id].request.call = c
  BY <1>7, <1>12
<1>14. WellKept(journal) /\ WellKept(journal')
  BY LogWellKept, LogWellKeptNext
<1>15. /\ Told(journal') = [Told(journal) EXCEPT ![c] = "announced"]
       /\ Told(journal)[c] \in {"silent", "announced"}
  BY <1>5, <1>6, <1>9, <1>10, <1>11, <1>13, <1>14, ToldOfOne
<1>16. Verdict(journal) = "open" /\ Verdict(journal') = "open"
  <2>1. EndsOf(journal') = EndsOf(journal)
    BY <1>1, <1>2, EndsAppended
  <2>2. Verdict(journal) = "open"
    BY <1>1, RunIsOpen
  <2>3. QED
    BY <2>1, <2>2, VerdictIs
<1>17. Told(journal') \in Promise!Further(Told(journal))
  BY <1>5, <1>15, Furthered
<1>18. QED
  BY <1>16, <1>17 DEF Promise!Tell

\* The outcome of a child tells of one call.
LEMMA ReceivePromised ==
  ASSUME DriveInv, DriveInv', Receive
  PROVE  Promise!Tell
<1> DEFINE step == Head(channel)
           id == step.id
           ok == step.ok
           c == engine.issued[id]
<1>1. /\ pc \in {"collect", "await", "drain"} /\ channel # <<>>
      /\ journal' = Append(journal, Settled(id, ok))
  BY DEF Receive
<1>2. /\ channel \in Seq([id : Nat, ok : BOOLEAN]) /\ script \in Script /\ engine \in Engine
      /\ session \in Nat /\ journal \in Seq(Event)
  BY ScriptIs DEF DriveInv, Types
<1>3. id \in Nat /\ ok \in BOOLEAN /\ id \in Ids(channel)
  <2>1. step = channel[1] /\ 1 \in 1..Len(channel) /\ step \in [id : Nat, ok : BOOLEAN]
    BY <1>1, <1>2, Tailed
  <2>2. QED
    BY <2>1 DEF Ids
<1> HIDE DEF step, id, ok
<1>4. id \in Announced(journal) /\ Load(journal)[id] = Fresh(id) /\ id \in Awaiting(engine)
  BY <1>3 DEF DriveInv, Evidence, Out, Placement, Placed
<1>5. c \in Calls
  BY <1>2, <1>4 DEF Awaiting, Engine
<1> HIDE DEF c
<1>6. Load(journal)[id].at = 0 /\ Load(journal)[id].request.call = c
  <2>1. Request(script, engine, c).call = c
    BY <1>2, <1>5, RequestIs
  <2>2. QED
    BY <1>4, <2>1 DEF Fresh, c
<1>7. /\ Settled(id, ok) \in Event /\ IsOutcome(Settled(id, ok)) /\ Settled(id, ok).id = id
      /\ Settled(id, ok).type \notin {"spawned", "ended"}
  BY <1>3, EventsAre
<1>8. Announced(journal') = Announced(journal) /\ Announced(journal) = Announced(journal) \cup {id}
  BY <1>1, <1>2, <1>4, <1>7, AnnouncedAppended
<1>9. \A j \in Announced(journal) : j # id => Load(journal')[j] = Load(journal)[j]
  BY <1>1, <1>2, <1>7, EntryKept
<1>10. Load(journal')[id] = [request |-> Load(journal)[id].request, run |-> Load(journal)[id].run,
                             at |-> Len(journal) + 1, ok |-> ok]
  BY <1>1, <1>2, <1>3, <1>4, EntrySettled
<1>11. Load(journal')[id].at # 0 /\ Load(journal')[id].request.call = c
  <2>1. Len(journal) + 1 # 0
    BY <1>2
  <2>2. QED
    BY <1>6, <1>10, <2>1
<1>12. WellKept(journal) /\ WellKept(journal')
  BY LogWellKept, LogWellKeptNext
<1>13. /\ Told(journal') = [Told(journal) EXCEPT ![c] = "settled"]
       /\ Told(journal)[c] = "announced"
  BY <1>4, <1>5, <1>6, <1>8, <1>9, <1>11, <1>12, ToldOfOne
<1>14. Verdict(journal) = "open" /\ Verdict(journal') = "open"
  <2>1. EndsOf(journal') = EndsOf(journal)
    BY <1>1, <1>2, <1>7, EndsAppended
  <2>2. Verdict(journal) = "open"
    BY <1>1, RunIsOpen
  <2>3. QED
    BY <2>1, <2>2, VerdictIs
<1>15. Told(journal') \in Promise!Further(Told(journal))
  BY <1>5, <1>13, Furthered
<1>16. QED
  BY <1>14, <1>15 DEF Promise!Tell

\* An event that is neither an announcement nor an outcome tells of no call.
LEMMA MarkPromised ==
  ASSUME DriveInv, DriveInv', NEW e \in Event, e.type # "spawned", ~IsOutcome(e),
         journal' = Append(journal, e)
  PROVE  /\ Told(journal') = Told(journal)
         /\ e.type # "ended" \/ e.outcome \in {"wall_deadline", "watchdog_kill"} =>
              Verdict(journal') = Verdict(journal)
<1>1. journal \in Seq(Event) /\ WellKept(journal) /\ WellKept(journal')
  BY LogWellKept, LogWellKeptNext DEF WellKept
<1>2. Announced(journal') = Announced(journal) /\ Load(journal') = Load(journal)
  BY <1>1, IndexKept
<1>3. Told(journal') = Told(journal)
  BY <1>1, <1>2, ToldKept
<1>4. CASE e.type # "ended"
  BY <1>1, <1>3, <1>4, EndsAppended, VerdictIs
<1>5. CASE e.type = "ended" /\ e.outcome \in {"wall_deadline", "watchdog_kill"}
  <2>1. EndsOf(journal') = EndsOf(journal) \cup {e.outcome}
    BY <1>1, <1>5, EndsAppended
  <2>2. /\ "done" \in EndsOf(journal') <=> "done" \in EndsOf(journal)
        /\ EndsOf(journal') \cap Failures = EndsOf(journal) \cap Failures
        /\ EndsOf(journal') \subseteq {"wall_deadline", "watchdog_kill"}
             <=> EndsOf(journal) \subseteq {"wall_deadline", "watchdog_kill"}
    BY <1>5, <2>1 DEF Failures
  <2>3. QED
    BY <1>3, <2>2, VerdictIs
<1>6. QED
  BY <1>3, <1>4, <1>5

\* The end of a run seals the promise.
LEMMA OutcomePromised ==
  ASSUME DriveInv, DriveInv', pc = "append", NEW o \in Verdicts, todo = <<Ended(o)>>,
         journal' = Append(journal, Ended(o))
  PROVE  [Promise!PromiseNext]_(Promise!promiseVars)
<1>1. Ended(o) \in Event /\ Ended(o).type = "ended" /\ Ended(o).outcome = o /\ ~IsOutcome(Ended(o))
  BY EventsAre DEF Verdicts, IsOutcome
<1>2. Told(journal') = Told(journal)
  BY <1>1, MarkPromised
<1>3. Verdict(journal) = "open"
  BY RunIsOpen
<1>4. EndsOf(journal') = EndsOf(journal) \cup {o}
  BY <1>1, EndsAppended DEF DriveInv, Types
<1>5. EndsOf(journal) \subseteq {"wall_deadline", "watchdog_kill"}
  BY DEF DriveInv, Ends, EndsOf
<1>6. CASE o \in Failures \cup {"done"}
  <2>1. Verdict(journal') \in {"done", "failed"}
    <3>1. o = "done" \/ o \in EndsOf(journal') \cap Failures
      BY <1>4, <1>6
    <3>2. QED
      BY <1>4, <3>1, VerdictIs
  <2>2. \A c \in Calls : Told(journal)[c] # "announced"
    BY <1>6, NothingOwed
  <2>3. QED
    BY <1>2, <1>3, <2>1, <2>2 DEF Promise!PromiseNext, Promise!Conclude
<1>7. CASE o \in {"wall_deadline", "watchdog_kill"}
  <2>1. Verdict(journal') = Verdict(journal)
    BY <1>1, <1>7, MarkPromised
  <2>2. QED
    BY <1>2, <2>1 DEF Promise!promiseVars
<1>8. CASE o = "resident_cap"
  <2>1. /\ "done" \notin EndsOf(journal') /\ EndsOf(journal') \cap Failures = {}
        /\ ~(EndsOf(journal') \subseteq {"wall_deadline", "watchdog_kill"})
    BY <1>4, <1>5, <1>8 DEF Failures
  <2>2. Verdict(journal') = "cut"
    BY <2>1, VerdictIs
  <2>3. QED
    BY <1>2, <1>3, <2>2 DEF Promise!PromiseNext, Promise!CutOff
<1>9. QED
  BY <1>6, <1>7, <1>8 DEF Verdicts, Outcomes

\* Each append furthers the promise or tells nothing.
LEMMA AppendPromised ==
  ASSUME DriveInv, DriveInv', AppendEvent
  PROVE  [Promise!PromiseNext]_(Promise!promiseVars)
<1>1. /\ pc = "append" /\ todo # <<>> /\ todo \in Seq(Event) /\ Head(todo) = todo[1] /\ 1 \in 1..Len(todo)
      /\ Head(todo) \in Event /\ journal' = Append(journal, Head(todo))
  BY AppendIs, Tailed
<1>2. CASE Head(todo).type = "spawned"
  BY <1>2, AnnouncePromised DEF Promise!PromiseNext
<1>3. CASE Head(todo) \in {Started, Resumed}
  <2>1. Head(todo).type \in {"started", "resumed"}
    BY <1>3, EventsAre
  <2>2. Told(journal') = Told(journal) /\ Verdict(journal') = Verdict(journal)
    BY <1>1, <2>1, MarkPromised DEF IsOutcome
  <2>3. QED
    BY <2>2 DEF Promise!promiseVars
<1>4. ASSUME NEW o \in Verdicts, todo = <<Ended(o)>>
      PROVE  [Promise!PromiseNext]_(Promise!promiseVars)
  <2>1. Head(todo) = Ended(o)
    BY <1>1, <1>4
  <2>2. QED
    BY <1>1, <1>4, <2>1, OutcomePromised
<1>5. CASE Opening
  BY <1>1, <1>3, <1>5 DEF Opening
<1>6. CASE Announcing
  BY <1>1, <1>2, <1>3, <1>6 DEF Announcing
<1>7. CASE Concluding
  BY <1>1, <1>3, <1>4, <1>7 DEF Concluding
<1>8. QED
  BY <1>1, <1>5, <1>6, <1>7 DEF DriveInv, Control

\* A step that changes the log keeps the promise.
LEMMA StepPromised ==
  ASSUME DriveInv, DriveInv', [Next]_vars
  PROVE  [journal' = journal \/ [Promise!PromiseNext]_(Promise!promiseVars)]_journal
<1>1. CASE AppendEvent
  BY <1>1, AppendPromised
<1>2. CASE Receive
  BY <1>2, ReceivePromised DEF Promise!PromiseNext
<1>3. CASE WatchdogRecords
  <2>1. journal' = journal \/ journal' = Append(journal, Ended("watchdog_kill"))
    BY <1>3 DEF WatchdogRecords
  <2>2. /\ Ended("watchdog_kill") \in Event /\ Ended("watchdog_kill").type = "ended"
        /\ Ended("watchdog_kill").outcome = "watchdog_kill" /\ ~IsOutcome(Ended("watchdog_kill"))
    BY EventsAre DEF Outcomes, Failures, IsOutcome
  <2>3. journal' = Append(journal, Ended("watchdog_kill")) =>
          Told(journal') = Told(journal) /\ Verdict(journal') = Verdict(journal)
    BY <2>2, MarkPromised
  <2>4. QED
    BY <2>1, <2>3 DEF Promise!promiseVars
<1>4. CASE StepEngine
  BY <1>4 DEF StepEngine, BatchTooLate, BatchLive, BatchRefused, BatchReplayed, NewBatch, StepAwaiting,
              StepDone, StepFailed, Drives
<1>5. CASE \/ Begin \/ Resume \/ CapBreached \/ AppendLost \/ ReceiptLost \/ Collected \/ Drained \/ Exit
           \/ StartChild \/ (\E id \in running : FinishChild(id)) \/ NotificationMissed
           \/ Deadline \/ WatchdogFires \/ WatchdogExits \/ Crash \/ UNCHANGED vars
  BY <1>5 DEF Begin, Resume, CapBreached, AppendLost, ReceiptLost, AppendFails, Collected, Drained, Exit,
              StartChild, FinishChild, NotificationMissed, Deadline, WatchdogFires, WatchdogExits,
              Crash, vars
<1>6. QED
  BY <1>1, <1>2, <1>3, <1>4, <1>5 DEF Next, Drive, Watchdog

\* "A completed step never runs twice, and a failed one is never silently
\* retried"; a run recorded done or failed has recorded all of its children:
\* the drive loop implements WorkflowPromise, over all sessions.
THEOREM PromiseKept == Spec => KeepsPromise
<1>1. Init => Promise!PromiseInit
  <2> SUFFICES ASSUME Init PROVE Promise!PromiseInit
    OBVIOUS
  <2>1. journal = <<>> /\ Announced(<<>>) = {} /\ EndsOf(<<>>) = {}
    BY Empties DEF Init, EndsOf
  <2>2. WellKept(<<>>)
    BY <2>1 DEF WellKept
  <2>3. \A c \in Calls : Told(<<>>)[c] = "silent"
    BY <2>1, <2>2, ToldIs
  <2>4. Told(<<>>) = [c \in Calls |-> Told(<<>>)[c]]
    BY Zenon DEF Told
  <2>5. [c \in Calls |-> Told(<<>>)[c]] = [c \in Calls |-> "silent"]
    BY <2>3
  <2>6. Verdict(<<>>) = "open"
    BY <2>1, VerdictIs
  <2>7. QED
    BY <2>1, <2>4, <2>5, <2>6 DEF Promise!PromiseInit
<1>2. DriveInv /\ DriveInv' /\ [Next]_vars
        => [journal' = journal \/ [Promise!PromiseNext]_(Promise!promiseVars)]_journal
  BY StepPromised
<1>3. QED
  BY <1>1, <1>2, Invariant, PTL DEF Spec, KeepsPromise

-----------------------------------------------------------------------------
(* Feeding an engine on, and an engine that has no more to ask             *)

\* Feeding resolves the results one after another, from any engine.
LEMMA FeedSteps ==
  ASSUME NEW s \in Script, NEW e \in Engine, NEW rs \in Seq(Result)
  PROVE  \E G : /\ G[0] = e
                /\ \A k \in 1..Len(rs) : G[k] = Resolve(s, G[k - 1], rs[k])
                /\ \A k \in 0..Len(rs) : G[k] \in Engine
                /\ FeedAll(s, e, rs) = G[Len(rs)]
<1> DEFINE n == Len(rs)
           it == CHOOSE g : g = FeedFold(s, e, rs, g)
           G == [k \in 0..n |-> it[1..k]]
<1>1. it = FeedFold(s, e, rs, it)
  BY FeedFoldExists
<1>2. FeedAll(s, e, rs) = it[DOMAIN rs]
  BY Zenon DEF FeedAll, FoldLeft, MapThenFoldSet, FeedFold
<1>3. n \in Nat /\ DOMAIN rs = 1..n /\ \A k \in 1..n : rs[k] \in Result
  OBVIOUS
<1> HIDE DEF n, it
<1>4. \A S \in SUBSET (1..n) : it[S] = IF S = {} THEN e ELSE Resolve(s, it[S \ {Max(S)}], rs[Max(S)])
  BY <1>1, <1>3 DEF FeedFold
<1>5. G[0] = e
  <2>1. 1..0 = {} /\ {} \in SUBSET (1..n) /\ G[0] = it[1..0]
    BY <1>3
  <2>2. QED
    BY <1>4, <2>1
<1>6. ASSUME NEW k \in 1..n
      PROVE  G[k] = Resolve(s, G[k - 1], rs[k])
  <2>1. it[1..k] = Resolve(s, it[1..(k - 1)], rs[k])
    <3>1. /\ 1..k # {} /\ 1..k \in SUBSET (1..n)
          /\ Max(1..k) = k /\ (1..k) \ {k} = 1..(k - 1)
      BY <1>3, Prefix
    <3> DEFINE K == 1..k
    <3> HIDE DEF K
    <3>2. QED
      BY <1>4, <3>1
  <2>2. G[k] = it[1..k] /\ G[k - 1] = it[1..(k - 1)]
    BY <1>3
  <2>3. QED
    BY <2>1, <2>2
<1>7. FeedAll(s, e, rs) = G[n]
  BY <1>2, <1>3
<1> HIDE DEF G
<1>8. \A k \in 0..n : G[k] \in Engine
  <2> DEFINE T == {k \in Nat : k <= n => G[k] \in Engine}
  <2>1. 0 \in T
    BY <1>5
  <2>2. ASSUME NEW k \in Nat, k \in T
        PROVE  k + 1 \in T
    <3> SUFFICES ASSUME k + 1 <= n
                 PROVE  G[k + 1] \in Engine
      OBVIOUS
    <3>1. k + 1 \in 1..n /\ (k + 1) - 1 = k /\ G[k] \in Engine
      BY <1>3, <2>2
    <3>2. G[k + 1] = Resolve(s, G[k], rs[k + 1]) /\ rs[k + 1] \in Result
      BY <1>3, <1>6, <3>1
    <3>3. QED
      BY <3>1, <3>2, ResolveType
  <2> HIDE DEF T
  <2>3. Nat \subseteq T
    BY <2>1, <2>2, Induct
  <2>4. QED
    BY <1>3, <2>3 DEF T
<1>9. QED
  BY <1>5, <1>6, <1>7, <1>8 DEF n

\* The script cannot be granted another request.
Spent(e) == e.undeclared \/ Len(e.issued) >= Ceiling

\* A call of agent spends the script for good, or leaves one call fewer reached.
LEMMA AgentSpends ==
  ASSUME NEW s \in Script, NEW e \in Engine, NEW c \in Calls
  PROVE  LET f == Agent(s, e, c)
         IN  /\ e.undeclared => f.undeclared
             /\ Len(e.issued) <= Len(f.issued)
             /\ \/ Spent(f)
                \/ /\ ~Reached(s, f, c)
                   /\ \A d \in Calls : Reached(s, f, d) => Reached(s, e, d)
<1> DEFINE f == Agent(s, e, c)
<1>u. /\ Ceiling \in Nat /\ Len(e.issued) \in Nat /\ e.issued \in Seq(Calls)
      /\ e.status \in [Calls -> {"open", "awaited", "settled", "refused"}]
      /\ s.after \in [Calls -> SUBSET Calls]
  BY EngineAssumption DEF Engine, Script
<1>1. CASE ~Reached(s, e, c)
  BY <1>1, <1>u DEF Agent
<1>2. CASE Reached(s, e, c) /\ c \in s.undeclared
  <2>1. f = [e EXCEPT !.status[c] = "refused", !.undeclared = TRUE]
    BY <1>2 DEF Agent
  <2>2. f.undeclared = TRUE /\ f.issued = e.issued
    BY <2>1 DEF Engine
  <2>3. QED
    BY <1>u, <2>2 DEF Spent
<1>3. CASE Reached(s, e, c) /\ c \notin s.undeclared /\ Len(e.issued) >= Ceiling
  <2>1. f = [e EXCEPT !.status[c] = "refused"]
    BY <1>3 DEF Agent
  <2>2. f.undeclared = e.undeclared /\ f.issued = e.issued
    BY <2>1 DEF Engine
  <2>3. QED
    BY <1>3, <1>u, <2>2 DEF Spent
<1>4. CASE Reached(s, e, c) /\ c \notin s.undeclared /\ ~(Len(e.issued) >= Ceiling)
  <2>1. f = [e EXCEPT !.status[c] = "awaited", !.issued = Append(e.issued, c)]
    BY <1>4 DEF Agent
  <2>2. /\ f.undeclared = e.undeclared /\ f.issued = Append(e.issued, c)
        /\ f.status = [e.status EXCEPT ![c] = "awaited"]
    BY <2>1 DEF Engine
  <2>3. Len(f.issued) = Len(e.issued) + 1
    BY <1>u, <2>2
  <2>4. /\ f.status[c] = "awaited"
        /\ \A d \in Calls : d # c => f.status[d] = e.status[d]
    BY <1>u, <2>2
  <2>5. ~Reached(s, f, c)
    BY <2>4 DEF Reached
  <2>6. ASSUME NEW d \in Calls, Reached(s, f, d)
        PROVE  Reached(s, e, d)
    <3>1. d # c /\ e.status[d] = "open"
      BY <2>4, <2>6 DEF Reached
    <3>2. ASSUME NEW b \in s.after[d]
          PROVE  b \in Calls /\ b # c
      BY <1>u, <2>4, <2>6 DEF Reached
    <3>3. QED
      BY <2>4, <2>6, <3>1, <3>2 DEF Reached
  <2>7. QED
    BY <1>u, <2>2, <2>3, <2>5, <2>6
<1>5. QED
  BY <1>1, <1>2, <1>3, <1>4

\* After the pending jobs the script is spent, or none of its calls is reached.
LEMMA JobsSpend ==
  ASSUME NEW s \in Script, NEW e \in Engine
  PROVE  LET f == RunJobs(s, e)
         IN  /\ e.undeclared => f.undeclared
             /\ Len(e.issued) <= Len(f.issued)
             /\ Spent(f) \/ \A i \in 1..Len(s.calls) : ~Reached(s, f, s.calls[i])
<1> DEFINE n == Len(s.calls)
<1>1. PICK G : /\ G[0] = e
               /\ \A k \in 1..n : G[k] = Agent(s, G[k - 1], s.calls[k])
               /\ RunJobs(s, e) = G[n]
  BY JobsChain
<1>2. n \in Nat /\ \A k \in 1..n : s.calls[k] \in Calls
  BY DEF Script
<1> DEFINE Good(f, k) == /\ f \in Engine
                         /\ e.undeclared => f.undeclared
                         /\ Len(e.issued) <= Len(f.issued)
                         /\ Spent(f) \/ \A i \in 1..k : ~Reached(s, f, s.calls[i])
           T == {k \in Nat : k <= n => Good(G[k], k)}
<1>3. 0 \in T
  <2>1. e \in Engine /\ Len(e.issued) <= Len(e.issued)
    BY DEF Engine
  <2>2. QED
    BY <1>1, <2>1
<1>4. ASSUME NEW k \in Nat, k \in T
      PROVE  k + 1 \in T
  <2> SUFFICES ASSUME k + 1 <= n
               PROVE  Good(G[k + 1], k + 1)
    OBVIOUS
  <2>1. Good(G[k], k)
    BY <1>2, <1>4
  <2>2. k + 1 \in 1..n /\ (k + 1) - 1 = k
    BY <1>2
  <2>3. G[k + 1] = Agent(s, G[k], s.calls[k + 1]) /\ s.calls[k + 1] \in Calls
    BY <1>1, <1>2, <2>2
  <2>4. G[k + 1] \in Engine
    BY <2>1, <2>3, AgentType
  <2>5. /\ G[k].undeclared => G[k + 1].undeclared
        /\ Len(G[k].issued) <= Len(G[k + 1].issued)
        /\ \/ Spent(G[k + 1])
           \/ /\ ~Reached(s, G[k + 1], s.calls[k + 1])
              /\ \A d \in Calls : Reached(s, G[k + 1], d) => Reached(s, G[k], d)
    BY <2>1, <2>3, AgentSpends
  <2>6. /\ Len(e.issued) \in Nat /\ Len(G[k].issued) \in Nat /\ Len(G[k + 1].issued) \in Nat
        /\ Ceiling \in Nat
    BY <2>1, <2>4, EngineAssumption DEF Engine
  <2>7. Len(e.issued) <= Len(G[k + 1].issued)
    BY <2>1, <2>5, <2>6
  <2>8. CASE Spent(G[k])
    <3>1. Spent(G[k + 1])
      BY <2>5, <2>6, <2>8 DEF Spent
    <3>2. QED
      BY <2>1, <2>4, <2>5, <2>7, <3>1
  <2>9. CASE ~Spent(G[k])
    <3>1. ASSUME ~Spent(G[k + 1]), NEW i \in 1..(k + 1)
          PROVE  ~Reached(s, G[k + 1], s.calls[i])
      <4>1. CASE i = k + 1
        BY <2>5, <3>1, <4>1
      <4>2. CASE i # k + 1
        <5>1. i \in 1..k /\ i \in 1..n
          BY <1>2, <2>2, <4>2
        <5>2. QED
          BY <1>2, <2>1, <2>5, <2>9, <3>1, <5>1
      <4>3. QED
        BY <4>1, <4>2
    <3>2. QED
      BY <2>1, <2>4, <2>5, <2>7, <3>1
  <2>10. QED
    BY <2>8, <2>9
<1> HIDE DEF T, n
<1>5. n \in T
  BY <1>2, <1>3, <1>4, Induct
<1>6. QED
  BY <1>1, <1>2, <1>5 DEF T, n

\* A script none of whose calls is reached has no job to run.
LEMMA NoJobs ==
  ASSUME NEW s \in Script, NEW e \in Engine, \A i \in 1..Len(s.calls) : ~Reached(s, e, s.calls[i])
  PROVE  RunJobs(s, e) = e
<1> DEFINE n == Len(s.calls)
<1>1. PICK G : /\ G[0] = e
               /\ \A k \in 1..n : G[k] = Agent(s, G[k - 1], s.calls[k])
               /\ RunJobs(s, e) = G[n]
  BY JobsChain
<1>2. n \in Nat
  BY DEF Script
<1> DEFINE T == {k \in Nat : k <= n => G[k] = e}
<1>3. 0 \in T
  BY <1>1
<1>4. ASSUME NEW k \in Nat, k \in T
      PROVE  k + 1 \in T
  <2> SUFFICES ASSUME k + 1 <= n
               PROVE  G[k + 1] = e
    OBVIOUS
  <2>1. G[k] = e /\ k + 1 \in 1..n /\ (k + 1) - 1 = k
    BY <1>2, <1>4
  <2>2. G[k + 1] = Agent(s, e, s.calls[k + 1])
    BY <1>1, <2>1
  <2>3. QED
    BY <2>1, <2>2 DEF Agent
<1> HIDE DEF T, n
<1>5. n \in T
  BY <1>2, <1>3, <1>4, Induct
<1>6. QED
  BY <1>1, <1>2, <1>5 DEF T

\* What is fed leaves a script that was granted all it can be, or that has run
\* as far as it can.
LEMMA FeedSpends ==
  ASSUME NEW s \in Script, NEW e \in Engine, NEW rs \in Seq(Result)
  PROVE  LET f == FeedAll(s, RunJobs(s, e), rs)
         IN  /\ f \in Engine
             /\ e.undeclared => f.undeclared
             /\ Spent(f) \/ RunJobs(s, f) = f
<1> DEFINE b == RunJobs(s, e)
           n == Len(rs)
           f == FeedAll(s, b, rs)
<1>1. b \in Engine /\ (e.undeclared => b.undeclared)
  BY RunJobsRuns, JobsSpend
<1>2. PICK G : /\ G[0] = b
               /\ \A k \in 1..n : G[k] = Resolve(s, G[k - 1], rs[k])
               /\ \A k \in 0..n : G[k] \in Engine
               /\ f = G[n]
  BY <1>1, FeedSteps
<1>3. n \in Nat /\ \A k \in 1..n : rs[k] \in Result
  OBVIOUS
<1> HIDE DEF n, f
\* Each engine on the way is what the pending jobs left.
<1> DEFINE T == {k \in Nat : k <= n => (b.undeclared => G[k].undeclared) /\ \E x \in Engine : G[k] = RunJobs(s, x)}
<1>4. 0 \in T
  BY <1>2
<1>5. ASSUME NEW k \in Nat, k \in T
      PROVE  k + 1 \in T
  <2> SUFFICES ASSUME k + 1 <= n
               PROVE  (b.undeclared => G[k + 1].undeclared) /\ \E x \in Engine : G[k + 1] = RunJobs(s, x)
    OBVIOUS
  <2>1. k + 1 \in 1..n /\ (k + 1) - 1 = k /\ k \in 0..n /\ k <= n
    BY <1>3
  <2>2. G[k + 1] = Resolve(s, G[k], rs[k + 1]) /\ rs[k + 1] \in Result /\ G[k] \in Engine
    BY <1>2, <1>3, <2>1
  <2> DEFINE x == Resolved(G[k], G[k].issued[rs[k + 1].id], rs[k + 1].value)
  <2>3. G[k + 1] = RunJobs(s, x)
    BY <2>2 DEF Resolve, Resolved
  <2>4. x \in Engine /\ x.undeclared = G[k].undeclared
    BY <2>2, ResolvedType DEF Result, Resolved, Engine
  <2> HIDE DEF x
  <2>5. b.undeclared => G[k].undeclared
    BY <1>5, <2>1
  <2>6. QED
    BY <2>3, <2>4, <2>5, JobsSpend
<1> HIDE DEF T
<1>6. n \in T
  BY <1>3, <1>4, <1>5, Induct
<1>7. PICK x \in Engine : f = RunJobs(s, x)
  BY <1>2, <1>3, <1>6 DEF T
<1>8. f \in Engine /\ (b.undeclared => f.undeclared)
  BY <1>2, <1>3, <1>6 DEF T
<1>9. Spent(f) \/ RunJobs(s, f) = f
  BY <1>7, <1>8, JobsSpend, NoJobs
<1>10. QED
  BY <1>1, <1>8, <1>9 DEF f

\* Feeding one list and then another is feeding both.
LEMMA FeedOn ==
  ASSUME NEW s \in Script, NEW e \in Engine, NEW F \in Seq(Result), NEW rs \in Seq(Result)
  PROVE  FeedAll(s, FeedAll(s, e, F), rs) = FeedAll(s, e, F \o rs)
<1> DEFINE m == Len(F)
           n == Len(rs)
           f == FeedAll(s, e, F)
           all == F \o rs
<1>1. PICK G : /\ G[0] = e
               /\ \A k \in 1..m : G[k] = Resolve(s, G[k - 1], F[k])
               /\ \A k \in 0..m : G[k] \in Engine
               /\ f = G[m]
  BY FeedSteps
<1>2. m \in Nat /\ n \in Nat /\ all \in Seq(Result) /\ Len(all) = m + n
  OBVIOUS
<1>3. f \in Engine
  BY <1>1, <1>2
<1> HIDE DEF f
<1>4. PICK H : /\ H[0] = f
               /\ \A k \in 1..n : H[k] = Resolve(s, H[k - 1], rs[k])
               /\ FeedAll(s, f, rs) = H[n]
  BY <1>3, FeedSteps
<1>5. (\A k \in 1..m : all[k] = F[k]) /\ (\A k \in 1..n : all[m + k] = rs[k])
  OBVIOUS
<1> HIDE DEF m, n, all
<1>6. PICK K : /\ K[0] = e
               /\ \A k \in 1..(m + n) : K[k] = Resolve(s, K[k - 1], all[k])
               /\ FeedAll(s, e, all) = K[m + n]
  <2>1. \A q \in Seq(Result) :
          \E K : /\ K[0] = e
                 /\ \A k \in 1..Len(q) : K[k] = Resolve(s, K[k - 1], q[k])
                 /\ FeedAll(s, e, q) = K[Len(q)]
    BY FeedSteps
  <2>2. QED
    BY Zenon, <1>2, <2>1
<1>7. K[m] = G[m]
  <2> DEFINE T == {k \in Nat : k <= m => K[k] = G[k]}
  <2>1. 0 \in T
    BY <1>1, <1>6
  <2>2. ASSUME NEW k \in Nat, k \in T
        PROVE  k + 1 \in T
    <3> SUFFICES ASSUME k + 1 <= m
                 PROVE  K[k + 1] = G[k + 1]
      OBVIOUS
    <3>1. /\ k + 1 \in 1..m /\ k + 1 \in 1..(m + n) /\ (k + 1) - 1 = k /\ K[k] = G[k]
      BY <1>2, <2>2
    <3>2. K[k + 1] = Resolve(s, K[k], all[k + 1]) /\ G[k + 1] = Resolve(s, G[k], F[k + 1])
      BY <1>1, <1>6, <3>1
    <3>3. QED
      BY <1>5, <3>1, <3>2
  <2> HIDE DEF T
  <2>3. m \in T
    BY <1>2, <2>1, <2>2, Induct
  <2>4. QED
    BY <1>2, <2>3 DEF T
<1>8. K[m + n] = H[n]
  <2> DEFINE T == {k \in Nat : k <= n => K[m + k] = H[k]}
  <2>1. 0 \in T
    BY <1>1, <1>2, <1>4, <1>7
  <2>2. ASSUME NEW k \in Nat, k \in T
        PROVE  k + 1 \in T
    <3> SUFFICES ASSUME k + 1 <= n
                 PROVE  K[m + (k + 1)] = H[k + 1]
      OBVIOUS
    <3>1. /\ k + 1 \in 1..n /\ m + (k + 1) \in 1..(m + n) /\ (k + 1) - 1 = k
          /\ (m + (k + 1)) - 1 = m + k /\ K[m + k] = H[k]
      BY <1>2, <2>2
    <3>2. /\ K[m + (k + 1)] = Resolve(s, K[m + k], all[m + (k + 1)])
          /\ H[k + 1] = Resolve(s, H[k], rs[k + 1])
      BY <1>4, <1>6, <3>1
    <3>3. QED
      BY <1>5, <3>1, <3>2
  <2> HIDE DEF T
  <2>3. n \in T
    BY <1>2, <2>1, <2>2, Induct
  <2>4. QED
    BY <1>2, <2>3 DEF T
<1>9. QED
  BY <1>4, <1>6, <1>8 DEF f, all

\* What a step of the engine is, when the answers are to what it awaits.
LEMMA StepIs ==
  ASSUME NEW s \in Script, NEW e \in Engine, NEW rs \in Seq(Result), Answerable(e, rs)
  PROVE  LET f == FeedAll(s, RunJobs(s, e), rs)
         IN  /\ Step(s, e, rs).engine = f
             /\ Step(s, e, rs).kind = "batch" <=> ~f.undeclared /\ Len(f.issued) > Len(e.issued)
<1>1. Step(s, e, rs).engine = FeedAll(s, RunJobs(s, e), rs)
  BY Zenon DEF Step, FeedAll
<1> DEFINE f == FeedAll(s, RunJobs(s, e), rs)
<1>2. Step(s, e, rs).kind = IF f.undeclared THEN "failed"
                            ELSE IF Len(f.issued) > Len(e.issued) THEN "batch"
                            ELSE IF Rejected(s, f) THEN "failed"
                            ELSE IF Fulfilled(s, f) THEN "done"
                            ELSE IF Awaiting(f) # {} THEN "awaiting"
                            ELSE "failed"
  BY Zenon DEF Step, FeedAll
<1> HIDE DEF f
<1>3. Step(s, e, rs).kind = "batch" <=> ~f.undeclared /\ Len(f.issued) > Len(e.issued)
  BY <1>2
<1>4. QED
  BY <1>1, <1>3 DEF f

\* A step that makes requests was of a script that was not spent.
LEMMA BatchUnspent ==
  ASSUME NEW s \in Script, NEW e \in Engine, NEW rs \in Seq(Result), Answerable(e, rs),
         Step(s, e, rs).kind = "batch", Len(Step(s, e, rs).engine.issued) <= Ceiling
  PROVE  ~Spent(e)
<1> DEFINE f == FeedAll(s, RunJobs(s, e), rs)
<1>1. f = Step(s, e, rs).engine /\ ~f.undeclared /\ Len(f.issued) > Len(e.issued)
  BY StepIs
<1>2. f \in Engine /\ (e.undeclared => f.undeclared)
  BY FeedSpends
<1> HIDE DEF f
<1>3. Len(f.issued) \in Nat /\ Len(e.issued) \in Nat /\ Ceiling \in Nat
  BY <1>2, EngineAssumption DEF Engine
<1>4. QED
  BY <1>1, <1>2, <1>3 DEF Spent

\* A script that is spent stays so.
LEMMA StaysSpent ==
  ASSUME NEW s \in Script, NEW e \in Engine, NEW rs \in Seq(Result), Answerable(e, rs),
         Sane(s, e), Spent(e)
  PROVE  Spent(Step(s, e, rs).engine)
<1> DEFINE f == Step(s, e, rs).engine
<1>1. f \in Engine /\ Len(e.issued) <= Len(f.issued)
  BY StepAnswers DEF Answered
<1>2. e.undeclared => f.undeclared
  BY StepIs, FeedSpends
<1> HIDE DEF f
<1>3. Len(f.issued) \in Nat /\ Len(e.issued) \in Nat /\ Ceiling \in Nat
  BY <1>1, EngineAssumption DEF Engine
<1>4. QED
  BY <1>1, <1>2, <1>3 DEF Spent, f

-----------------------------------------------------------------------------
(* What a log recalls of the outcomes of requests                          *)

\* R is what the log recalls of the requests in S: a result for each that has
\* an outcome, in the order the outcomes were recorded.
Recalls(R, log, S) ==
    /\ R \in Seq(Result)
    /\ Ids(R) = {id \in S : id \in Announced(log) /\ Load(log)[id].at > 0}
    /\ \A i \in 1..Len(R) : R[i].value = Outcome(Load(log)[R[i].id])
    /\ \A i, j \in 1..Len(R) : i < j => Load(log)[R[i].id].at < Load(log)[R[j].id].at

\* What is recalled is about requests of S that have an outcome, each once.
LEMMA RecallsAre ==
  ASSUME NEW log \in Seq(Event), NEW S, NEW R, Recalls(R, log, S)
  PROVE  /\ Len(R) \in Nat /\ OnceEach(R)
         /\ \A i \in 1..Len(R) : /\ R[i] = [id |-> R[i].id, value |-> R[i].value]
                                 /\ R[i].id \in S /\ R[i].id \in Announced(log)
                                 /\ Load(log)[R[i].id].at \in Nat \ {0}
         /\ \A id \in S : id \in Announced(log) /\ Load(log)[id].at > 0 =>
              \E i \in 1..Len(R) : R[i].id = id
<1>1. R \in Seq(Result) /\ Len(R) \in Nat
  BY DEF Recalls
<1>2. ASSUME NEW i \in 1..Len(R)
      PROVE  /\ R[i] = [id |-> R[i].id, value |-> R[i].value]
             /\ R[i].id \in S /\ R[i].id \in Announced(log)
             /\ Load(log)[R[i].id].at \in Nat \ {0}
  <2>1. R[i] \in Result /\ R[i].id \in Ids(R)
    BY <1>1 DEF Ids
  <2>2. R[i].id \in S /\ R[i].id \in Announced(log) /\ Load(log)[R[i].id].at > 0
    BY <2>1 DEF Recalls
  <2>3. Load(log)[R[i].id].at \in 0..Len(log)
    BY <2>2, EntryIs
  <2>4. QED
    BY <2>1, <2>2, <2>3 DEF Result
<1>3. ASSUME NEW i \in 1..Len(R), NEW j \in 1..Len(R), R[i].id = R[j].id
      PROVE  i = j
  <2>1. /\ i < j => Load(log)[R[i].id].at < Load(log)[R[j].id].at
        /\ j < i => Load(log)[R[j].id].at < Load(log)[R[i].id].at
    BY DEF Recalls
  <2>2. Load(log)[R[i].id].at = Load(log)[R[j].id].at /\ Load(log)[R[i].id].at \in Nat
    BY <1>2, <1>3
  <2>3. QED
    BY <1>1, <2>1, <2>2
<1>4. \A id \in S : id \in Announced(log) /\ Load(log)[id].at > 0 => \E i \in 1..Len(R) : R[i].id = id
  BY DEF Recalls, Ids
<1>5. QED
  BY <1>1, <1>2, <1>3, <1>4 DEF OnceEach

\* Two rising lists of the same numbers agree as far as the first goes.
LEMMA RisingAgree ==
  ASSUME NEW m \in Nat, NEW n \in Nat, NEW f \in [1..m -> Nat], NEW g \in [1..n -> Nat],
         \A i, j \in 1..m : i < j => f[i] < f[j],
         \A i, j \in 1..n : i < j => g[i] < g[j],
         \A i \in 1..m : \E j \in 1..n : g[j] = f[i],
         \A j \in 1..n : \E i \in 1..m : f[i] = g[j]
  PROVE  m <= n /\ \A i \in 1..m : f[i] = g[i]
<1> DEFINE Same(k) == k <= n /\ f[k] = g[k]
           D == {k \in 1..m : ~Same(k)}
<1>1. D = {}
  <2> SUFFICES ASSUME D # {}
               PROVE  FALSE
    OBVIOUS
  <2>1. D \subseteq Nat
    OBVIOUS
  <2>2. \E k \in D : \A i \in D : k <= i
    BY <2>1, NatMin
  <2>3. PICK k \in 1..m : ~Same(k) /\ \A i \in 1..m : ~Same(i) => k <= i
    BY <2>2
  <2> HIDE DEF D
  <2>4. ASSUME NEW i \in 1..m, i < k
        PROVE  Same(i)
    <3>1. ~(k <= i)
      BY <2>4
    <3>2. QED
      BY <2>3, <3>1
  <2>5. PICK j \in 1..n : g[j] = f[k]
    OBVIOUS
  <2>6. ~(j < k)
    <3> SUFFICES ASSUME j < k
                 PROVE  FALSE
      OBVIOUS
    <3>1. j \in 1..m /\ f[j] = g[j]
      BY <2>4
    <3>2. f[j] < f[k]
      BY <3>1
    <3>3. f[j] \in Nat /\ f[k] \in Nat
      BY <3>1
    <3>4. QED
      BY <2>5, <3>1, <3>2, <3>3
  <2>7. k \in 1..n /\ k <= j
    BY <2>6
  <2>8. PICK i \in 1..m : f[i] = g[k]
    BY <2>7
  <2>9. ~(i < k)
    <3> SUFFICES ASSUME i < k
                 PROVE  FALSE
      OBVIOUS
    <3>1. i \in 1..n /\ f[i] = g[i]
      BY <2>4, <2>7
    <3>2. g[i] < g[k]
      BY <2>7, <3>1
    <3>3. g[i] \in Nat /\ g[k] \in Nat
      BY <2>7, <3>1
    <3>4. QED
      BY <2>8, <3>1, <3>2, <3>3
  <2>10. f[k] <= f[i] /\ f[k] \in Nat /\ f[i] \in Nat
    <3>1. CASE k = i
      BY <3>1
    <3>2. CASE k < i
      <4>1. f[k] < f[i]
        BY <3>2
      <4>2. QED
        BY <4>1
    <3>3. QED
      BY <2>9, <3>1, <3>2
  <2>11. g[k] <= g[j] /\ g[k] \in Nat /\ g[j] \in Nat
    <3>1. CASE k = j
      BY <2>7, <3>1
    <3>2. CASE k < j
      <4>1. g[k] < g[j]
        BY <2>7, <3>2
      <4>2. QED
        BY <2>7, <4>1
    <3>3. QED
      BY <2>7, <3>1, <3>2
  <2>12. f[k] = g[k]
    <3>1. f[k] <= g[k] /\ g[k] <= f[k]
      BY <2>5, <2>8, <2>10, <2>11
    <3>2. \A x, y \in Nat : x <= y /\ y <= x => x = y
      OBVIOUS
    <3>3. QED
      BY Zenon, <2>10, <2>11, <3>1, <3>2
  <2>13. QED
    BY <2>3, <2>7, <2>12
<1>2. \A i \in 1..m : i <= n /\ f[i] = g[i]
  BY <1>1
<1>3. m <= n
  BY <1>2
<1>4. QED
  BY <1>2, <1>3

\* The outcome an entry names is one of its step.
LEMMA EntryNames ==
  ASSUME NEW log \in Seq(Event), NEW id \in Announced(log), Load(log)[id].at > 0
  PROVE  Load(log)[id].at \in Nat /\ log[Load(log)[id].at].id = id
<1>1. /\ Load(log)[id].at \in 0..Len(log)
      /\ Load(log)[id].at # 0 => Load(log)[id].at \in Since(log, id)
  BY EntryIs
<1>a. Len(log) \in Nat
  OBVIOUS
<1>2. Load(log)[id].at \in Since(log, id)
  BY <1>a, <1>1
<1>3. QED
  BY <1>a, <1>1, <1>2 DEF Since

\* Two lists that recall the same agree as far as the first goes.
LEMMA RecallsAgree ==
  ASSUME NEW log \in Seq(Event), NEW S, NEW R, Recalls(R, log, S), NEW Q, Recalls(Q, log, S)
  PROVE  Len(R) <= Len(Q) /\ \A i \in 1..Len(R) : R[i] = Q[i]
<1> DEFINE f == [i \in 1..Len(R) |-> Load(log)[R[i].id].at]
           g == [i \in 1..Len(Q) |-> Load(log)[Q[i].id].at]
<1>1. /\ Len(R) \in Nat
      /\ \A i \in 1..Len(R) : /\ R[i] = [id |-> R[i].id, value |-> R[i].value]
                              /\ f[i] \in Nat /\ log[f[i]].id = R[i].id
                              /\ \E j \in 1..Len(Q) : Q[j].id = R[i].id
  <2>1. /\ Len(R) \in Nat
        /\ \A i \in 1..Len(R) : /\ R[i] = [id |-> R[i].id, value |-> R[i].value]
                                /\ R[i].id \in S /\ R[i].id \in Announced(log)
                                /\ Load(log)[R[i].id].at \in Nat \ {0}
    BY RecallsAre
  <2>2. \A id \in S : id \in Announced(log) /\ Load(log)[id].at > 0 =>
          \E j \in 1..Len(Q) : Q[j].id = id
    BY RecallsAre
  <2>3. ASSUME NEW i \in 1..Len(R)
        PROVE  /\ Load(log)[R[i].id].at \in Nat /\ log[Load(log)[R[i].id].at].id = R[i].id
               /\ \E j \in 1..Len(Q) : Q[j].id = R[i].id
    <3>a. R[i].id \in S /\ R[i].id \in Announced(log) /\ Load(log)[R[i].id].at \in Nat \ {0}
      BY Zenon, <2>1
    <3>1. Load(log)[R[i].id].at > 0
      BY <3>a
    <3>2. QED
      BY <2>2, <3>a, <3>1, EntryNames
  <2>4. QED
    BY <2>1, <2>3
<1>2. /\ Len(Q) \in Nat
      /\ \A i \in 1..Len(Q) : /\ Q[i] = [id |-> Q[i].id, value |-> Q[i].value]
                              /\ g[i] \in Nat /\ log[g[i]].id = Q[i].id
                              /\ \E j \in 1..Len(R) : R[j].id = Q[i].id
  <2>1. /\ Len(Q) \in Nat
        /\ \A i \in 1..Len(Q) : /\ Q[i] = [id |-> Q[i].id, value |-> Q[i].value]
                                /\ Q[i].id \in S /\ Q[i].id \in Announced(log)
                                /\ Load(log)[Q[i].id].at \in Nat \ {0}
    BY RecallsAre
  <2>2. \A id \in S : id \in Announced(log) /\ Load(log)[id].at > 0 =>
          \E j \in 1..Len(R) : R[j].id = id
    BY RecallsAre
  <2>3. ASSUME NEW i \in 1..Len(Q)
        PROVE  /\ Load(log)[Q[i].id].at \in Nat /\ log[Load(log)[Q[i].id].at].id = Q[i].id
               /\ \E j \in 1..Len(R) : R[j].id = Q[i].id
    <3>a. Q[i].id \in S /\ Q[i].id \in Announced(log) /\ Load(log)[Q[i].id].at \in Nat \ {0}
      BY Zenon, <2>1
    <3>1. Load(log)[Q[i].id].at > 0
      BY <3>a
    <3>2. QED
      BY <2>2, <3>a, <3>1, EntryNames
  <2>4. QED
    BY <2>1, <2>3
<1>3. /\ \A i, j \in 1..Len(R) : i < j => f[i] < f[j]
      /\ \A i \in 1..Len(R) : R[i].value = Outcome(Load(log)[R[i].id])
  BY DEF Recalls
<1>4. /\ \A i, j \in 1..Len(Q) : i < j => g[i] < g[j]
      /\ \A i \in 1..Len(Q) : Q[i].value = Outcome(Load(log)[Q[i].id])
  BY DEF Recalls
<1>5. /\ \A i \in 1..Len(R) : \E j \in 1..Len(Q) : g[j] = f[i]
      /\ \A j \in 1..Len(Q) : \E i \in 1..Len(R) : f[i] = g[j]
  BY <1>1, <1>2
<1>6. f \in [1..Len(R) -> Nat] /\ g \in [1..Len(Q) -> Nat]
  BY <1>1, <1>2
<1> HIDE DEF f, g
<1>7. Len(R) <= Len(Q) /\ \A i \in 1..Len(R) : f[i] = g[i]
  <2>1. Len(R) \in Nat /\ Len(Q) \in Nat
    BY <1>1, <1>2
  <2>2. /\ \A i, j \in 1..Len(R) : i < j => f[i] < f[j]
        /\ \A i, j \in 1..Len(Q) : i < j => g[i] < g[j]
    BY <1>3, <1>4
  <2>3. QED
    BY <1>5, <1>6, <2>1, <2>2, RisingAgree
<1>8. ASSUME NEW i \in 1..Len(R)
      PROVE  R[i] = Q[i]
  <2>1. Len(R) \in Nat /\ Len(Q) \in Nat
    BY <1>1, <1>2
  <2>2. i \in 1..Len(Q) /\ f[i] = g[i]
    BY <1>7, <2>1
  <2>3. R[i].id = Q[i].id
    <3>1. log[f[i]].id = R[i].id /\ log[g[i]].id = Q[i].id
      BY Zenon, <1>1, <1>2, <2>2
    <3>2. QED
      BY <2>2, <3>1
  <2>4. R[i].value = Q[i].value
    <3>1. R[i].value = Outcome(Load(log)[R[i].id]) /\ Q[i].value = Outcome(Load(log)[Q[i].id])
      BY Zenon, <1>3, <1>4, <2>2
    <3>2. QED
      BY <2>3, <3>1
  <2>5. /\ R[i] = [id |-> R[i].id, value |-> R[i].value]
        /\ Q[i] = [id |-> Q[i].id, value |-> Q[i].value]
    BY Zenon, <1>1, <1>2, <2>2
  <2>6. QED
    BY <2>3, <2>4, <2>5
<1>9. QED
  BY <1>7, <1>8

\* What the log recalls of some requests is one list.
LEMMA RecallsSame ==
  ASSUME NEW log \in Seq(Event), NEW S, NEW R, Recalls(R, log, S), NEW Q, Recalls(Q, log, S)
  PROVE  R = Q
<1>1. /\ Len(R) <= Len(Q) /\ Len(Q) <= Len(R)
      /\ \A i \in 1..Len(R) : R[i] = Q[i]
  BY RecallsAgree
<1>2. R \in Seq(Result) /\ Q \in Seq(Result)
  BY DEF Recalls
<1>3. QED
  BY <1>1, <1>2

\* What is recalled of some requests depends on their entries alone.
LEMMA RecallsKept ==
  ASSUME NEW log, NEW new, NEW S, NEW P, NEW R, Recalls(R, log, S),
         {id \in P : id \in Announced(new) /\ Load(new)[id].at > 0}
           = {id \in S : id \in Announced(log) /\ Load(log)[id].at > 0},
         \A id \in S : id \in Announced(log) /\ Load(log)[id].at > 0 => Load(new)[id] = Load(log)[id]
  PROVE  Recalls(R, new, P)
<1>1. \A i \in 1..Len(R) : Load(new)[R[i].id] = Load(log)[R[i].id]
  <2>1. ASSUME NEW i \in 1..Len(R)
        PROVE  R[i].id \in Ids(R)
    BY DEF Ids
  <2>2. QED
    BY <2>1 DEF Recalls
<1>2. QED
  BY <1>1 DEF Recalls

\* The outcome of one more request is recalled after the others.
LEMMA RecallsMore ==
  ASSUME NEW log \in Seq(Event), NEW S, NEW R, Recalls(R, log, S),
         NEW id \in S, id \in Nat, id \in Announced(log), Load(log)[id].at = 0,
         Load(log)[id].run \in Nat, NEW ok \in BOOLEAN
  PROVE  Recalls(Append(R, [id |-> id, value |-> IF ok THEN Load(log)[id].run ELSE Null]),
                 Append(log, Settled(id, ok)), S)
<1> DEFINE new == Append(log, Settled(id, ok))
           r == [id |-> id, value |-> IF ok THEN Load(log)[id].run ELSE Null]
           Q == Append(R, r)
<1>1. /\ id \in Announced(new)
      /\ Load(new)[id] = [request |-> Load(log)[id].request, run |-> Load(log)[id].run,
                          at |-> Len(log) + 1, ok |-> ok]
  BY EntrySettled
<1>2. Settled(id, ok) \in Event /\ IsOutcome(Settled(id, ok)) /\ Settled(id, ok).id = id
      /\ Settled(id, ok).type # "spawned"
  BY EventsAre
<1>3. Announced(new) = Announced(log)
  BY <1>2, AnnouncedAppended
<1>4. \A x \in Announced(log) : x # id => Load(new)[x] = Load(log)[x]
  BY <1>2, EntryKept
<1>5. r \in Result /\ r.id = id /\ r.value = Outcome(Load(new)[id])
  BY <1>1 DEF Result, Null, Outcome
<1>6. Len(log) \in Nat /\ \A x \in Announced(log) : Load(log)[x].at \in 0..Len(log)
  <2>1. ASSUME NEW x \in Announced(log)
        PROVE  Load(log)[x].at \in 0..Len(log)
    BY EntryIs
  <2>2. QED
    BY <2>1
<1>7. /\ Len(R) \in Nat /\ R \in Seq(Result)
      /\ \A i \in 1..Len(R) : R[i].id \in Announced(log) /\ R[i].id # id
  <2>1. R \in Seq(Result)
    BY DEF Recalls
  <2>2. \A i \in 1..Len(R) : R[i].id \in Announced(log) /\ Load(log)[R[i].id].at \in Nat \ {0}
    BY RecallsAre
  <2>3. QED
    BY <2>1, <2>2
<1> HIDE DEF new, r
<1>8. /\ Q \in Seq(Result) /\ Len(Q) = Len(R) + 1 /\ Q[Len(R) + 1] = r
      /\ \A i \in 1..Len(R) : Q[i] = R[i]
      /\ Ids(Q) = Ids(R) \cup {id}
  BY <1>5, <1>7, Appended, IdsAppended
<1> HIDE DEF Q
<1>9. Load(new)[id].at = Len(log) + 1
  BY <1>1
<1>10. Ids(Q) = {x \in S : x \in Announced(new) /\ Load(new)[x].at > 0}
  <2>1. \A x \in Announced(log) : x # id => (Load(new)[x].at > 0 <=> Load(log)[x].at > 0)
    BY <1>4
  <2>2. Load(new)[id].at > 0
    BY <1>6, <1>9
  <2>3. Ids(R) = {x \in S : x \in Announced(log) /\ Load(log)[x].at > 0}
    BY DEF Recalls
  <2>4. QED
    BY <1>3, <1>8, <2>1, <2>2, <2>3
<1>11. ASSUME NEW i \in 1..Len(Q)
       PROVE  Q[i].value = Outcome(Load(new)[Q[i].id])
  <2>1. CASE i = Len(R) + 1
    BY <1>5, <1>8, <2>1
  <2>2. CASE i # Len(R) + 1
    <3>1. i \in 1..Len(R)
      BY <1>7, <1>8, <2>2
    <3>2. Load(new)[R[i].id] = Load(log)[R[i].id] /\ Q[i] = R[i]
      BY <1>4, <1>7, <1>8, <3>1
    <3>3. QED
      BY <3>1, <3>2 DEF Recalls
  <2>3. QED
    BY <2>1, <2>2
<1>12. ASSUME NEW i \in 1..Len(Q), NEW j \in 1..Len(Q), i < j
       PROVE  Load(new)[Q[i].id].at < Load(new)[Q[j].id].at
  <2>1. i \in 1..Len(R)
    BY <1>7, <1>8, <1>12
  <2>2. Q[i] = R[i] /\ Load(new)[R[i].id] = Load(log)[R[i].id]
    BY <1>4, <1>7, <1>8, <2>1
  <2>3. CASE j = Len(R) + 1
    <3>1. Load(log)[R[i].id].at \in 0..Len(log)
      BY <1>6, <1>7, <2>1
    <3>2. Load(new)[Q[j].id].at = Len(log) + 1
      BY <1>5, <1>8, <1>9, <2>3
    <3>3. QED
      BY <1>6, <2>2, <3>1, <3>2
  <2>4. CASE j # Len(R) + 1
    <3>1. j \in 1..Len(R)
      BY <1>7, <1>8, <2>4
    <3>2. Q[j] = R[j] /\ Load(new)[R[j].id] = Load(log)[R[j].id]
      BY <1>4, <1>7, <1>8, <3>1
    <3>3. Load(log)[R[i].id].at < Load(log)[R[j].id].at
      BY <1>12, <2>1, <3>1 DEF Recalls
    <3>4. QED
      BY <2>2, <3>2, <3>3
  <2>5. QED
    BY <2>3, <2>4
<1>13. Recalls(Q, new, S)
  BY <1>8, <1>10, <1>11, <1>12 DEF Recalls
<1>14. QED
  BY <1>13 DEF Q, new, r

-----------------------------------------------------------------------------
(* The batches of a log                                                    *)

\* R is what the log recalls of all that e awaits.
Whole(R, log, e) == Recalls(R, log, Awaiting(e)) /\ Ids(R) = Awaiting(e)

\* The log knows what e asked, and the outcome of what e was told.
Faithful(s, e, log) ==
    \A id \in 1..Len(e.issued) :
      /\ id \in Announced(log) => Load(log)[id].request = Request(s, e, e.issued[id])
      /\ e.status[e.issued[id]] = "settled" => id \in Announced(log) /\ Load(log)[id].at > 0

\* G is how the engine comes from nothing to its n-th batch when it is fed,
\* batch after batch, what the log recalls; the log knows no other request.
Chain(s, n, G, log) ==
    /\ n \in Nat /\ G \in [0..n -> Engine] /\ G[0] = NewEngine
    /\ \A k \in 0..n : /\ Sane(s, G[k]) /\ Faithful(s, G[k], log)
                       /\ Len(G[k].issued) <= Len(G[n].issued)
    /\ \A k \in 0..(n - 1) : \E R : /\ Whole(R, log, G[k])
                                    /\ Step(s, G[k], R).kind = "batch"
                                    /\ Step(s, G[k], R).engine = G[k + 1]
    /\ Announced(log) \subseteq 1..Len(G[n].issued)

\* What is recalled of requests the engine awaits can be fed to it.
LEMMA RecallsAnswer ==
  ASSUME NEW log \in Seq(Event), NEW e, NEW S, S \subseteq Awaiting(e), NEW R, Recalls(R, log, S)
  PROVE  R \in Seq(Result) /\ Answerable(e, R)
<1>1. R \in Seq(Result)
  BY DEF Recalls
<1>2. OnceEach(R) /\ \A i \in 1..Len(R) : R[i].id \in S
  BY RecallsAre
<1>3. QED
  BY <1>1, <1>2 DEF Answerable, OnceEach

\* A request of a sane engine is awaited or has settled.
LEMMA SaneRequest ==
  ASSUME NEW s, NEW e, Sane(s, e), NEW id \in 1..Len(e.issued)
  PROVE  id \in Awaiting(e) \/ e.status[e.issued[id]] = "settled"
  BY DEF Sane, Awaiting

\* Every request before the last batch of a chain has its outcome in the log.
LEMMA Below ==
  ASSUME NEW s, NEW n, NEW G, NEW log, Chain(s, n, G, log),
         NEW k \in 0..n, k # n, NEW id \in 1..Len(G[k].issued)
  PROVE  id \in Announced(log) /\ Load(log)[id].at > 0
<1>1. n \in Nat /\ k \in 0..(n - 1)
  BY DEF Chain
<1>2. PICK R : Whole(R, log, G[k])
  BY <1>1 DEF Chain
<1>3. Sane(s, G[k]) /\ Faithful(s, G[k], log)
  BY DEF Chain
<1>4. CASE id \in Awaiting(G[k])
  <2>1. id \in Ids(R)
    BY <1>2, <1>4 DEF Whole
  <2>2. Ids(R) = {x \in Awaiting(G[k]) : x \in Announced(log) /\ Load(log)[x].at > 0}
    BY <1>2 DEF Whole, Recalls
  <2>3. QED
    BY <2>1, <2>2
<1>5. CASE G[k].status[G[k].issued[id]] = "settled"
  BY <1>3, <1>5 DEF Faithful
<1>6. QED
  BY <1>3, <1>4, <1>5, SaneRequest

\* A log without announcements leaves the engine where it starts.
LEMMA ChainStarts ==
  ASSUME NEW s \in Script, NEW log, Announced(log) = {}
  PROVE  \E G : Chain(s, 0, G, log) /\ G[0] = NewEngine
<1> DEFINE G == [k \in 0..0 |-> NewEngine]
<1>1. NewEngine \in Engine /\ NewEngine.issued = <<>>
      /\ \A c \in Calls : NewEngine.status[c] = "open"
  BY DEF NewEngine, Engine, Null
<1>2. Len(NewEngine.issued) = 0 /\ 1..Len(NewEngine.issued) = {}
  BY <1>1
<1>3. Sane(s, NewEngine)
  BY <1>1, <1>2, EngineAssumption DEF Sane
<1>4. Faithful(s, NewEngine, log)
  BY <1>2 DEF Faithful
<1>5. 0..0 = {0} /\ 0..(0 - 1) = {} /\ 0 \in Nat
  OBVIOUS
<1>6. G \in [0..0 -> Engine] /\ G[0] = NewEngine
  BY <1>1, <1>5
<1> HIDE DEF G
<1>7. Chain(s, 0, G, log)
  BY <1>2, <1>3, <1>4, <1>5, <1>6 DEF Chain
<1>8. QED
  BY <1>6, <1>7

\* A chain depends on the index of the log alone.
LEMMA ChainKept ==
  ASSUME NEW s, NEW n, NEW G, NEW log, Chain(s, n, G, log), NEW new,
         Announced(new) = Announced(log), Load(new) = Load(log)
  PROVE  Chain(s, n, G, new)
<1>1. \A e : Faithful(s, e, log) => Faithful(s, e, new)
  BY DEF Faithful
<1>2. \A R, e : Whole(R, log, e) => Whole(R, new, e)
  BY DEF Whole, Recalls
<1>3. QED
  BY <1>1, <1>2 DEF Chain

\* A chain of a log is one of a log that says the same of all but one request
\* of its last batch, which has no outcome yet.
LEMMA ChainBut ==
  ASSUME NEW s, NEW n, NEW G, NEW log, Chain(s, n, G, log), NEW new,
         NEW id \in 1..Len(G[n].issued),
         id \in Announced(log) => Load(log)[id].at = 0,
         Announced(new) = Announced(log) \cup {id},
         \A x \in Announced(log) : x # id => Load(new)[x] = Load(log)[x],
         Load(new)[id].request = Request(s, G[n], G[n].issued[id])
  PROVE  Chain(s, n, G, new)
<1>1. n \in Nat /\ n \in 0..n
  BY DEF Chain
<1>2. ASSUME NEW k \in 0..n, k # n
      PROVE  id \notin 1..Len(G[k].issued)
  BY <1>2, Below
<1>3. ASSUME NEW k \in 0..n, k # n
      PROVE  Faithful(s, G[k], new)
  <2>1. Faithful(s, G[k], log) /\ id \notin 1..Len(G[k].issued)
    BY <1>2, <1>3 DEF Chain
  <2>2. ASSUME NEW x \in 1..Len(G[k].issued)
        PROVE  /\ x \in Announced(new) <=> x \in Announced(log)
               /\ x \in Announced(log) => Load(new)[x] = Load(log)[x]
    BY <2>1
  <2>3. QED
    BY <2>1, <2>2 DEF Faithful
<1>4. Faithful(s, G[n], new)
  <2>1. Faithful(s, G[n], log)
    BY <1>1 DEF Chain
  <2>2. ASSUME NEW x \in 1..Len(G[n].issued)
        PROVE  /\ x \in Announced(new) => Load(new)[x].request = Request(s, G[n], G[n].issued[x])
               /\ G[n].status[G[n].issued[x]] = "settled" => x \in Announced(new) /\ Load(new)[x].at > 0
    <3>1. CASE x = id
      <4>1. G[n].status[G[n].issued[id]] # "settled"
        BY <2>1 DEF Faithful
      <4>2. QED
        BY <3>1, <4>1
    <3>2. CASE x # id
      <4>1. /\ x \in Announced(new) <=> x \in Announced(log)
            /\ x \in Announced(log) => Load(new)[x] = Load(log)[x]
        BY <3>2
      <4>2. QED
        BY <2>1, <4>1 DEF Faithful
    <3>3. QED
      BY <3>1, <3>2
  <2>3. QED
    BY <2>2 DEF Faithful
<1>5. ASSUME NEW k \in 0..(n - 1)
      PROVE  \E R : /\ Whole(R, new, G[k])
                    /\ Step(s, G[k], R).kind = "batch"
                    /\ Step(s, G[k], R).engine = G[k + 1]
  <2>1. k \in 0..n /\ k # n
    BY <1>1
  <2>2. PICK R : /\ Whole(R, log, G[k])
                 /\ Step(s, G[k], R).kind = "batch"
                 /\ Step(s, G[k], R).engine = G[k + 1]
    BY DEF Chain
  <2>3. id \notin Awaiting(G[k])
    BY <1>2, <2>1 DEF Awaiting
  <2>4. Recalls(R, log, Awaiting(G[k]))
    BY <2>2 DEF Whole
  <2>5. {x \in Awaiting(G[k]) : x \in Announced(new) /\ Load(new)[x].at > 0}
          = {x \in Awaiting(G[k]) : x \in Announced(log) /\ Load(log)[x].at > 0}
    BY <2>3
  <2>6. \A x \in Awaiting(G[k]) : x \in Announced(log) /\ Load(log)[x].at > 0 => Load(new)[x] = Load(log)[x]
    BY <2>3
  <2>7. Recalls(R, new, Awaiting(G[k]))
    BY <2>4, <2>5, <2>6, RecallsKept
  <2>8. QED
    BY <2>2, <2>7 DEF Whole
<1>6. Announced(new) \subseteq 1..Len(G[n].issued)
  BY DEF Chain
<1>7. \A k \in 0..n : Faithful(s, G[k], new)
  BY <1>3, <1>4
<1>8. QED
  BY <1>5, <1>6, <1>7 DEF Chain

\* A batch all of whose results the log recalls is followed by the next.
LEMMA ChainGrows ==
  ASSUME NEW s \in Script, NEW n \in Nat, NEW G, NEW log \in Seq(Event), Chain(s, n, G, log),
         NEW R, Whole(R, log, G[n]), Step(s, G[n], R).kind = "batch"
  PROVE  \E H : Chain(s, n + 1, H, log) /\ H[n + 1] = Step(s, G[n], R).engine
<1> DEFINE f == Step(s, G[n], R).engine
           H == [k \in 0..(n + 1) |-> IF k = n + 1 THEN f ELSE G[k]]
<1>1. /\ n \in Nat /\ n \in 0..n /\ G \in [0..n -> Engine] /\ G[n] \in Engine
      /\ Sane(s, G[n]) /\ Faithful(s, G[n], log) /\ Announced(log) \subseteq 1..Len(G[n].issued)
  BY DEF Chain
<1>2. R \in Seq(Result) /\ Answerable(G[n], R)
  BY RecallsAnswer DEF Whole
<1>3. f \in Engine /\ Sane(s, f) /\ Answered(G[n], R, Len(R), f)
  BY <1>1, <1>2, StepAnswers
<1> HIDE DEF f
<1>4. /\ Len(G[n].issued) \in Nat /\ Len(f.issued) \in Nat /\ Len(G[n].issued) <= Len(f.issued)
      /\ \A id \in 1..Len(G[n].issued) : id \in 1..Len(f.issued) /\ f.issued[id] = G[n].issued[id]
  BY <1>1, <1>3 DEF Answered, Engine
<1>5. Faithful(s, f, log)
  <2>1. ASSUME NEW id \in 1..Len(f.issued), id \in Announced(log)
        PROVE  Load(log)[id].request = Request(s, f, f.issued[id])
    <3>1. id \in 1..Len(G[n].issued)
      BY <1>1, <2>1
    <3>2. Load(log)[id].request = Request(s, G[n], G[n].issued[id])
      BY <1>1, <2>1, <3>1 DEF Faithful
    <3>3. Request(s, f, f.issued[id]) = Request(s, G[n], G[n].issued[id])
      BY <1>1, <1>2, <1>3, <3>1, RequestKept
    <3>4. QED
      BY <3>2, <3>3
  <2>2. ASSUME NEW id \in 1..Len(f.issued), f.status[f.issued[id]] = "settled"
        PROVE  id \in Announced(log) /\ Load(log)[id].at > 0
    <3>1. id \in 1..Len(G[n].issued)
      <4>1. \A x \in (Len(G[n].issued) + 1)..Len(f.issued) : f.status[f.issued[x]] = "awaited"
        BY <1>3 DEF Answered
      <4>2. id \notin (Len(G[n].issued) + 1)..Len(f.issued)
        BY <2>2, <4>1
      <4>3. QED
        BY <1>4, <4>2
    <3>2. f.issued[id] = G[n].issued[id] /\ f.issued[id] \in Calls
      BY <1>3, <1>4, <3>1 DEF Engine
    <3>3. CASE \E i \in 1..Len(R) : f.issued[id] = G[n].issued[R[i].id]
      <4>1. PICK i \in 1..Len(R) : f.issued[id] = G[n].issued[R[i].id]
        BY <3>3
      <4>2. R[i].id \in Awaiting(G[n]) /\ R[i].id \in Announced(log) /\ Load(log)[R[i].id].at > 0
        <5>1. R[i].id \in Ids(R)
          BY DEF Ids
        <5>2. QED
          BY <5>1 DEF Whole, Recalls
      <4>3. R[i].id = id
        <5>1. R[i].id \in 1..Len(G[n].issued)
          BY <4>2 DEF Awaiting
        <5>2. G[n].issued[R[i].id] = G[n].issued[id]
          BY <3>2, <4>1
        <5>3. \A x, y \in 1..Len(G[n].issued) : G[n].issued[x] = G[n].issued[y] => x = y
          BY <1>1 DEF Sane
        <5>4. QED
          BY <3>1, <5>1, <5>2, <5>3
      <4>4. QED
        BY <4>2, <4>3
    <3>4. CASE \A i \in 1..Len(R) : f.issued[id] # G[n].issued[R[i].id]
      <4>1. G[n].status[f.issued[id]] = "settled"
        BY <1>3, <2>2, <3>2, <3>4 DEF Answered
      <4>2. QED
        BY <1>1, <3>1, <3>2, <4>1 DEF Faithful
    <3>5. QED
      BY <3>3, <3>4
  <2>3. QED
    BY <2>1, <2>2 DEF Faithful
<1>6. /\ n + 1 \in Nat /\ H \in [0..(n + 1) -> Engine] /\ H[n + 1] = f
      /\ \A k \in 0..n : H[k] = G[k]
  BY <1>1, <1>3
<1> HIDE DEF H
<1>7. H[0] = NewEngine
  BY <1>1, <1>6 DEF Chain
<1>8. ASSUME NEW k \in 0..(n + 1)
      PROVE  Sane(s, H[k]) /\ Faithful(s, H[k], log) /\ Len(H[k].issued) <= Len(H[n + 1].issued)
  <2>1. CASE k = n + 1
    BY <1>3, <1>4, <1>5, <1>6, <2>1
  <2>2. CASE k # n + 1
    <3>1. k \in 0..n /\ H[k] = G[k]
      BY <1>1, <1>6, <2>2
    <3>2. Sane(s, G[k]) /\ Faithful(s, G[k], log) /\ Len(G[k].issued) <= Len(G[n].issued) /\ G[k] \in Engine
      BY <3>1 DEF Chain
    <3>3. Len(G[k].issued) \in Nat
      BY <3>2 DEF Engine
    <3>4. QED
      BY <1>4, <1>6, <3>1, <3>2, <3>3
  <2>3. QED
    BY <2>1, <2>2
<1>9. ASSUME NEW k \in 0..((n + 1) - 1)
      PROVE  \E Q : /\ Whole(Q, log, H[k])
                    /\ Step(s, H[k], Q).kind = "batch"
                    /\ Step(s, H[k], Q).engine = H[k + 1]
  <2>1. CASE k = n
    BY <1>1, <1>6, <2>1 DEF f
  <2>2. CASE k # n
    <3>1. k \in 0..(n - 1) /\ k \in 0..n /\ k + 1 \in 0..n
      BY <1>1, <2>2
    <3>2. H[k] = G[k] /\ H[k + 1] = G[k + 1]
      BY <1>6, <3>1
    <3>3. QED
      BY <3>1, <3>2 DEF Chain
  <2>3. QED
    BY <2>1, <2>2
<1>10. Announced(log) \subseteq 1..Len(H[n + 1].issued)
  BY <1>1, <1>4, <1>6
<1>11. Chain(s, n + 1, H, log)
  BY <1>6, <1>7, <1>8, <1>9, <1>10 DEF Chain
<1>12. QED
  BY <1>6, <1>11 DEF f

-----------------------------------------------------------------------------
(* What a replay feeds                                                     *)

\* The replay feeds in the order the outcomes were recorded.
LEMMA FedSorted ==
  ASSUME NEW ids \in SUBSET (DOMAIN replay.steps), IsFiniteSet(ids),
         \A id \in ids : replay.steps[id].at \in Nat,
         \A x, y \in ids : replay.steps[x].at = replay.steps[y].at => x = y
  PROVE  \A i, j \in 1..Len(Fed(ids)) :
           i < j => replay.steps[Fed(ids)[i].id].at < replay.steps[Fed(ids)[j].id].at
<1> DEFINE key == [id \in ids |-> replay.steps[id].at]
           order == InOrder(ids, key)
           n == Cardinality(ids)
           r == [i \in 1..n |-> [id |-> order[i], value |-> Outcome(replay.steps[order[i]])]]
<1>1. /\ \A x \in ids : key[x] \in Nat
      /\ \A x, y \in ids : key[x] = key[y] => x = y
  OBVIOUS
<1> HIDE DEF key
<1>2. /\ order \in [1..n -> ids] /\ n \in Nat /\ Len(order) = n
      /\ \A i, j \in 1..n : i < j => key[order[i]] < key[order[j]]
  <2>1. Lists(order, n, ids)
    BY <1>1, InOrderLists
  <2>2. /\ order \in [1..n -> ids] /\ n \in Nat /\ Len(order) = n
    BY Zenon, <2>1 DEF Lists
  <2>3. \E o \in [1..n -> ids] : \A i, j \in 1..n : i < j => key[o[i]] < key[o[j]]
    BY <1>1, OrderExists
  <2>4. \A i, j \in 1..n : i < j => key[order[i]] < key[order[j]]
    BY <2>3 DEF InOrder
  <2>5. QED
    BY <2>2, <2>4
<1>3. Fed(ids) = r
  BY <1>2 DEF Fed, key, Outcome
<1> HIDE DEF order, n
<1>4. \A i \in 1..n : order[i] \in ids /\ r[i].id = order[i]
  BY <1>2
<1>5. r \in Seq([id : ids, value : {Outcome(replay.steps[order[i]]) : i \in 1..n}]) /\ Len(r) = n
  BY <1>2, <1>4
<1> HIDE DEF r
<1>6. ASSUME NEW i \in 1..Len(r), NEW j \in 1..Len(r), i < j
      PROVE  replay.steps[r[i].id].at < replay.steps[r[j].id].at
  <2>1. i \in 1..n /\ j \in 1..n /\ key[order[i]] < key[order[j]]
    BY <1>2, <1>5, <1>6
  <2>2. key[order[i]] = replay.steps[r[i].id].at /\ key[order[j]] = replay.steps[r[j].id].at
    BY <1>4, <2>1 DEF key
  <2>3. QED
    BY <2>1, <2>2
<1>7. QED
  BY <1>3, <1>6

\* What the replay feeds is what the log recalls.
LEMMA FedRecalls ==
  ASSUME DriveInv, replay.active, NEW S, NEW done, IsFiniteSet(done), done \subseteq Nat,
         done \subseteq DOMAIN replay.steps,
         done = {id \in S : id \in Announced(journal) /\ Load(journal)[id].at > 0}
  PROVE  Recalls(Fed(done), journal, S)
<1>1. journal \in Seq(Event)
  BY DEF DriveInv, Types
<1>2. \A id \in done : replay.steps[id] = Load(journal)[id] /\ id \in Announced(journal) /\ Load(journal)[id].at > 0
  BY DEF DriveInv, Replaying
<1>3. done \in SUBSET (DOMAIN replay.steps) /\ \A id \in done : replay.steps[id].at > 0
  BY <1>2
<1>4. /\ Fed(done) \in Seq(Result) /\ Ids(Fed(done)) = done
      /\ \A i \in 1..Len(Fed(done)) : /\ Fed(done)[i].id \in Announced(journal)
                                      /\ Fed(done)[i].value = Outcome(Load(journal)[Fed(done)[i].id])
  BY <1>3, ReplayFeeds
<1>5. ASSUME NEW id \in done
      PROVE  replay.steps[id].at \in Nat /\ journal[replay.steps[id].at].id = id
  BY <1>1, <1>2, EntryNames
<1>6. \A x, y \in done : replay.steps[x].at = replay.steps[y].at => x = y
  BY <1>5
<1>7. \A i, j \in 1..Len(Fed(done)) :
        i < j => replay.steps[Fed(done)[i].id].at < replay.steps[Fed(done)[j].id].at
  BY <1>3, <1>5, <1>6, FedSorted
<1>8. \A i \in 1..Len(Fed(done)) : Fed(done)[i].id \in done
  BY <1>4 DEF Ids
<1>9. ASSUME NEW i \in 1..Len(Fed(done)), NEW j \in 1..Len(Fed(done)), i < j
      PROVE  Load(journal)[Fed(done)[i].id].at < Load(journal)[Fed(done)[j].id].at
  BY <1>2, <1>7, <1>8, <1>9
<1>10. QED
  BY <1>4, <1>9 DEF Recalls

-----------------------------------------------------------------------------
(* The journal of a run in lockstep replays                                *)

\* Before a batch is announced, the log ends in something else than an
\* announcement.
Between ==
    \/ pc \in {"step", "await"}
    \/ pc = "collect" /\ wait = 0
    \/ pc = "append" /\ queued = <<>> /\ todo[1].type = "spawned"

Apartness == ~replay.active /\ Between => journal # <<>> /\ journal[Len(journal)].type # "spawned"

\* The log takes the engine through all of its batches.
Replayable ==
    queued = <<>> =>
      \E n, G : Chain(script, n, G, journal) /\ 1..Len(G[n].issued) \subseteq Announced(journal)

\* The engine is where batch e left it, and will be fed what came of it.
AtBatch(e) == engine = e /\ Recalls(results, journal, Awaiting(e))

\* The engine has been fed some of what came of batch e, and asked for nothing.
AfterBatch(e) ==
    /\ Announced(todo) = {}
    /\ \/ Spent(engine)
       \/ \E F \in Seq(Result) : /\ engine = FeedAll(script, RunJobs(script, e), F)
                                 /\ Recalls(F \o results, journal, Awaiting(e))

\* The run is on its way, and announces no batch before the last is over.
OnItsWay ==
    /\ ~replay.active
    /\ \/ pc \in {"step", "collect", "await"}
       \/ /\ Announced(todo) # {}
          /\ queued = <<>> => \A id \in Announced(journal) \ Announced(todo) : Load(journal)[id].at > 0

\* The run so far is what a replay of its log would do.
Following ==
    OnItsWay => \E n, G : Chain(script, n, G, journal) /\ (AtBatch(G[n]) \/ AfterBatch(G[n]))

\* A replay is at one of the batches of the log, and holds the later ones.
Retracing ==
    replay.active /\ pc \in {"step", "collect"} =>
      \E n, G : /\ Chain(script, n, G, journal) /\ 1..Len(G[n].issued) \subseteq Announced(journal)
                /\ \E k \in 0..n : engine = G[k]
                /\ DOMAIN replay.steps = Announced(journal) \ 1..Len(engine.issued)
                /\ Recalls(results, journal, Awaiting(engine))

\* A replay that comes to an outcome has nothing left.
Exhausted == replay.active /\ pc = "drain" => DOMAIN replay.steps = {}

Lockstep == Replayable /\ Following /\ Retracing /\ Exhausted /\ ~refused

LockInv == Apartness /\ (InLockstep(journal) /\ ~torn => Lockstep)

\* A log that is in lockstep was so all along.
LEMMA LockstepPrefix ==
  ASSUME NEW log \in Seq(Event), NEW e \in Event, InLockstep(Append(log, e))
  PROVE  InLockstep(log)
<1> DEFINE new == Append(log, e)
<1>1. /\ Len(log) \in Nat /\ Len(new) = Len(log) + 1
      /\ \A i \in 1..Len(log) : new[i] = log[i] /\ i \in 1..Len(new)
  BY Appended
<1> HIDE DEF new
<1>2. ASSUME NEW i \in 1..Len(log), NEW j \in 1..Len(log),
             i < j, log[i].type = "spawned", log[j].type = "spawned"
      PROVE  \/ \A k \in i..j : log[k].type = "spawned"
             \/ \E k \in (i + 1)..j :
                  (IsOutcome(log[k]) \/ log[k].type = "spawned") /\ log[k].id = log[i].id
  <2>1. \A k \in i..j : k \in 1..Len(log) /\ new[k] = log[k]
    BY <1>1
  <2>2. \A k \in (i + 1)..j : k \in i..j
    BY <1>1
  <2>3. \/ \A k \in i..j : new[k].type = "spawned"
        \/ \E k \in (i + 1)..j :
             (IsOutcome(new[k]) \/ new[k].type = "spawned") /\ new[k].id = new[i].id
    BY <1>1, <1>2 DEF InLockstep, new
  <2>4. new[i] = log[i]
    BY <1>1
  <2>5. QED
    BY <2>1, <2>2, <2>3, <2>4
<1>3. QED
  BY <1>2 DEF InLockstep

-----------------------------------------------------------------------------
(* Lockstep at the start, across quiet steps, and across sessions          *)

\* A run that has not begun is in lockstep.
LEMMA LockStarts ==
  ASSUME Init
  PROVE  LockInv
<1>1. /\ script \in Script /\ journal = <<>> /\ pc = "off" /\ todo = <<>> /\ queued = <<>>
      /\ replay.active = FALSE /\ refused = FALSE
  BY DriveAssumption DEF Init, NoReplay
<1>2. Announced(journal) = {} /\ Announced(todo) = {}
  BY <1>1, Empties
<1>3. PICK G : Chain(script, 0, G, journal) /\ G[0] = NewEngine
  BY <1>1, <1>2, ChainStarts
<1>4. 1..Len(G[0].issued) \subseteq Announced(journal)
  <2>1. NewEngine.issued = <<>>
    BY DEF NewEngine
  <2>2. Len(G[0].issued) = 0
    BY <1>3, <2>1
  <2>3. QED
    BY <2>2
<1>5. Replayable
  BY <1>3, <1>4 DEF Replayable
<1>6. QED
  BY <1>1, <1>2, <1>5 DEF LockInv, Lockstep, Apartness, Between, Following, OnItsWay, Retracing, Exhausted

\* What an invariant of logs in lockstep owes to an earlier state.
LEMMA LockBefore ==
  ASSUME DriveInv, LockInv,
         journal' = journal \/ \E e \in Event : journal' = Append(journal, e),
         InLockstep(journal'), ~torn
  PROVE  Lockstep
<1>1. journal \in Seq(Event)
  BY DEF DriveInv, Types
<1>2. InLockstep(journal)
  BY <1>1, LockstepPrefix
<1>3. QED
  BY <1>2 DEF LockInv

\* A step that is neither the loop's nor about a step of the run.
LEMMA LockQuiet ==
  ASSUME DriveInv, LockInv,
         UNCHANGED <<script, pc, replay, engine, results, todo, queued, wait, refused, torn>>,
         \/ journal' = journal
         \/ \E e \in Event : journal' = Append(journal, e) /\ e.type # "spawned" /\ ~IsOutcome(e)
  PROVE  LockInv'
<1>1. journal \in Seq(Event)
  BY DEF DriveInv, Types
<1>2. Announced(journal') = Announced(journal) /\ Load(journal') = Load(journal)
  BY <1>1, IndexKept
<1>3. Apartness'
  <2>1. CASE journal' = journal
    BY <2>1 DEF LockInv, Apartness, Between
  <2>2. CASE journal' # journal
    <3>1. PICK e \in Event : journal' = Append(journal, e) /\ e.type # "spawned"
      BY <2>2
    <3>2. Len(journal') = Len(journal) + 1 /\ journal'[Len(journal) + 1] = e /\ Len(journal) \in Nat
      BY <1>1, <3>1, Appended
    <3>3. journal' # <<>>
      BY <3>2
    <3>4. journal'[Len(journal')].type # "spawned"
      BY <3>1, <3>2
    <3>5. QED
      BY <3>3, <3>4 DEF Apartness
  <2>3. QED
    BY <2>1, <2>2
<1>4. ASSUME InLockstep(journal'), ~torn'
      PROVE  Lockstep'
  <2>1. Lockstep
    BY <1>4, LockBefore
  <2>2. \A n, G : Chain(script, n, G, journal) => Chain(script, n, G, journal')
    BY <1>2, ChainKept
  <2>3. \A R, S : Recalls(R, journal, S) => Recalls(R, journal', S)
    BY <1>2 DEF Recalls
  <2>4. Replayable'
    BY <1>2, <2>1, <2>2 DEF Lockstep, Replayable
  <2>5. OnItsWay' => OnItsWay
    BY <1>2 DEF OnItsWay
  <2>6. \A e : (AtBatch(e) => AtBatch(e)') /\ (AfterBatch(e) => AfterBatch(e)')
    BY <2>3 DEF AtBatch, AfterBatch
  <2>7. Following'
    <3>1. SUFFICES ASSUME OnItsWay'
                   PROVE  \E n, G : Chain(script, n, G, journal') /\ (AtBatch(G[n])' \/ AfterBatch(G[n])')
      BY DEF Following
    <3>2. PICK n, G : Chain(script, n, G, journal) /\ (AtBatch(G[n]) \/ AfterBatch(G[n]))
      BY <2>1, <2>5, <3>1 DEF Lockstep, Following
    <3>3. QED
      BY <2>2, <2>6, <3>2
  <2>8. Retracing'
    BY <1>2, <2>1, <2>2, <2>3 DEF Lockstep, Retracing
  <2>9. Exhausted' /\ ~refused'
    BY <2>1 DEF Lockstep, Exhausted
  <2>10. QED
    BY <2>4, <2>7, <2>8, <2>9 DEF Lockstep
<1>5. QED
  BY <1>3, <1>4 DEF LockInv

\* The session is gone.
LEMMA LockGone ==
  ASSUME DriveInv, LockInv, Gone, UNCHANGED journal
  PROVE  LockInv'
<1>1. /\ pc' = "off" /\ queued' = <<>> /\ replay'.active = FALSE /\ torn' = (torn \/ queued # <<>>)
      /\ UNCHANGED <<script, journal, refused>> /\ Announced(todo') = {}
  BY Empties DEF Gone, NoReplay
<1>2. Apartness'
  BY <1>1 DEF Apartness, Between
<1>3. ASSUME InLockstep(journal'), ~torn'
      PROVE  Lockstep'
  <2>1. Lockstep /\ queued = <<>>
    BY <1>1, <1>3, LockBefore
  <2>2. QED
    BY <1>1, <2>1 DEF Lockstep, Replayable, Following, OnItsWay, Retracing, Exhausted
<1>4. QED
  BY <1>2, <1>3 DEF LockInv

\* The loop turns to something else than a batch.
LEMMA LockTurns ==
  ASSUME DriveInv, LockInv, UNCHANGED <<script, journal, replay, refused>>,
         pc' \in {"append", "join", "stuck", "drain"}, Announced(todo') = {},
         pc' = "append" => todo'[1].type # "spawned",
         ~torn' => ~torn /\ (queued' = <<>> => queued = <<>>),
         pc' = "drain" /\ replay.active /\ InLockstep(journal) /\ ~torn => DOMAIN replay.steps = {}
  PROVE  LockInv'
<1>1. Apartness'
  BY DEF Apartness, Between
<1>2. ASSUME InLockstep(journal'), ~torn'
      PROVE  Lockstep'
  <2>1. Lockstep
    BY <1>2, LockBefore
  <2>2. QED
    BY <1>2, <2>1 DEF Lockstep, Replayable, Following, OnItsWay, Retracing, Exhausted
<1>3. QED
  BY <1>1, <1>2 DEF LockInv

\* The join that never returns.
LEMMA LockMissed ==
  ASSUME DriveInv, LockInv, NotificationMissed
  PROVE  LockInv'
<1>1. pc = "join" /\ pc' = "stuck" /\ UNCHANGED <<script, journal, replay, refused, todo, queued, torn>>
  BY DEF NotificationMissed
<1>2. Announced(todo') = {}
  BY <1>1, Empties DEF DriveInv, Control
<1>3. QED
  BY <1>1, <1>2, LockTurns

\* A fresh run announces itself.
LEMMA LockBegins ==
  ASSUME DriveInv, LockInv, Begin
  PROVE  LockInv'
<1>1. /\ UNCHANGED <<script, journal, replay, refused, queued, torn>> /\ pc' = "append" /\ todo' = <<Started>>
  BY DEF Begin, poolVars, timeVars
<1>2. Announced(todo') = {} /\ todo'[1].type # "spawned"
  BY <1>1, Shorts, NoSpawnIs, EventsAre
<1>3. QED
  BY <1>1, <1>2, LockTurns

\* A resumed run is at the beginning of its log.
LEMMA LockResumes ==
  ASSUME DriveInv, LockInv, Resume
  PROVE  LockInv'
<1>1. /\ pc = "off" /\ pc' = "step" /\ replay' = [active |-> TRUE, steps |-> Load(journal)] /\ refused' = FALSE
      /\ UNCHANGED <<script, journal, engine, results, todo, queued, torn>>
  BY DEF Resume, poolVars
<1>2. engine = NewEngine /\ results = <<>>
  BY <1>1 DEF DriveInv, Control
<1>3. replay'.active = TRUE /\ replay'.steps = Load(journal)
  BY <1>1
<1>4. Apartness'
  BY <1>3 DEF Apartness
<1>5. ASSUME InLockstep(journal'), ~torn'
      PROVE  Lockstep'
  <2>1. Lockstep
    BY <1>1, <1>5, LockBefore
  <2>2. queued = <<>>
    BY <1>1 DEF DriveInv, Control
  <2>3. PICK n, G : Chain(script, n, G, journal) /\ 1..Len(G[n].issued) \subseteq Announced(journal)
    BY <2>1, <2>2 DEF Lockstep, Replayable
  <2>4. 0 \in 0..n /\ engine = G[0]
    BY <1>2, <2>3 DEF Chain
  <2>5. 1..Len(engine.issued) = {} /\ Awaiting(engine) = {}
    <3>1. Len(NewEngine.issued) = 0
      BY DEF NewEngine
    <3>2. QED
      BY <1>2, <3>1 DEF Awaiting
  <2>6. Recalls(results, journal, Awaiting(engine))
    <3>1. Ids(results) = {} /\ Len(results) = 0 /\ results \in Seq(Result)
      BY <1>2, Empties
    <3>2. 1..Len(results) = {}
      BY <3>1
    <3>3. QED
      BY <2>5, <3>1, <3>2 DEF Recalls
  <2>7. DOMAIN replay'.steps = Announced(journal) \ 1..Len(engine.issued)
    BY <1>3, <2>5, LoadDomain
  <2>8. Retracing'
    BY <1>1, <2>3, <2>4, <2>6, <2>7 DEF Retracing
  <2>9. Replayable'
    BY <1>1, <2>1 DEF Lockstep, Replayable
  <2>10. QED
    BY <1>1, <1>3, <2>8, <2>9 DEF Lockstep, Following, OnItsWay, Exhausted
<1>6. QED
  BY <1>4, <1>5 DEF LockInv

-----------------------------------------------------------------------------
(* Lockstep while the loop steps, waits and ends                           *)

\* A step of the engine in a replay is the one the log tells of, and beyond the
\* log there is nothing left to replay.
LEMMA Retraced ==
  ASSUME DriveInv, Lockstep, replay.active, pc = "step", NEW s, s = Step(script, engine, results)
  PROVE  \E n, G : /\ Chain(script, n, G, journal) /\ 1..Len(G[n].issued) \subseteq Announced(journal)
                   /\ DOMAIN replay.steps = Announced(journal) \ 1..Len(engine.issued)
                   /\ Recalls(results, journal, Awaiting(engine))
                   /\ \/ \E k \in 0..(n - 1) : /\ engine = G[k] /\ s.engine = G[k + 1] /\ s.kind = "batch"
                                               /\ Whole(results, journal, engine)
                      \/ engine = G[n] /\ DOMAIN replay.steps = {}
<1>1. PICK n, G : /\ Chain(script, n, G, journal) /\ 1..Len(G[n].issued) \subseteq Announced(journal)
                  /\ \E k \in 0..n : engine = G[k]
                  /\ DOMAIN replay.steps = Announced(journal) \ 1..Len(engine.issued)
                  /\ Recalls(results, journal, Awaiting(engine))
  BY DEF Lockstep, Retracing
<1>2. PICK k \in 0..n : engine = G[k]
  BY <1>1
<1>3. n \in Nat /\ journal \in Seq(Event)
  BY <1>1 DEF Chain, DriveInv, Types
<1>4. CASE k = n
  <2>1. Announced(journal) \subseteq 1..Len(G[n].issued)
    BY <1>1 DEF Chain
  <2>2. DOMAIN replay.steps = {}
    BY <1>1, <1>2, <1>4, <2>1
  <2>3. QED
    BY <1>1, <1>2, <1>4, <2>2
<1>5. CASE k # n
  <2>1. k \in 0..(n - 1)
    BY <1>3, <1>5
  <2>2. PICK R : /\ Whole(R, journal, G[k])
                 /\ Step(script, G[k], R).kind = "batch"
                 /\ Step(script, G[k], R).engine = G[k + 1]
    BY <1>1, <2>1 DEF Chain
  <2>3. R = results
    <3>1. Recalls(R, journal, Awaiting(engine))
      BY <1>2, <2>2 DEF Whole
    <3>2. QED
      BY <1>1, <1>3, <3>1, RecallsSame
  <2>4. QED
    BY <1>1, <1>2, <2>1, <2>2, <2>3
<1>6. QED
  BY <1>4, <1>5

\* The engine came to an outcome.
LEMMA LockIsOver ==
  ASSUME DriveInv, LockInv, pc = "step", NEW s, s = Step(script, engine, results), StepDone(s) \/ StepFailed(s)
  PROVE  LockInv'
<1>1. /\ UNCHANGED <<script, journal, replay, refused, todo, queued, torn>> /\ pc' = "drain"
      /\ s.kind # "batch"
  BY DEF StepDone, StepFailed, Drives
<1>2. Announced(todo') = {}
  BY <1>1, Empties DEF DriveInv, Control
<1>3. ASSUME replay.active, InLockstep(journal), ~torn
      PROVE  DOMAIN replay.steps = {}
  <2>1. Lockstep
    BY <1>3 DEF LockInv
  <2>2. QED
    BY <1>1, <1>3, <2>1, Retraced
<1>4. QED
  BY <1>1, <1>2, <1>3, LockTurns

\* An engine fed some of what came of a batch, and then some more.
LEMMA FedFurther ==
  ASSUME NEW s \in Script, NEW e \in Engine, NEW F \in Seq(Result), NEW f,
         f = FeedAll(s, RunJobs(s, e), F), ~Spent(f), NEW rs \in Seq(Result), Answerable(f, rs)
  PROVE  /\ f \in Engine
         /\ Step(s, f, rs).engine = FeedAll(s, RunJobs(s, e), F \o rs)
<1>1. RunJobs(s, e) \in Engine
  BY RunJobsRuns
<1>2. f \in Engine /\ RunJobs(s, f) = f
  BY FeedSpends
<1>3. Step(s, f, rs).engine = FeedAll(s, f, rs)
  BY <1>2, StepIs
<1>4. QED
  BY <1>1, <1>2, <1>3, FeedOn

\* The engine awaits the rest of what it asked for.
LEMMA LockAwaits ==
  ASSUME DriveInv, DriveInv', LockInv, pc = "step", NEW s, s = Step(script, engine, results), StepAwaiting(s)
  PROVE  LockInv'
<1>1. /\ UNCHANGED <<script, journal, replay, refused, todo, queued, torn>> /\ pc' = "await"
      /\ engine' = s.engine /\ results' = <<>>
  BY DEF StepAwaiting, Drives
<1>2. ~replay.active
  BY <1>1 DEF DriveInv, Replaying
<1>3. /\ Answerable(engine, results) /\ script \in Script /\ engine \in Engine /\ Sane(script, engine)
      /\ results \in Seq(Result) /\ todo = <<>>
  BY StepStarts
<1>4. Apartness'
  BY <1>1, <1>2 DEF LockInv, Apartness, Between
<1>5. ASSUME InLockstep(journal'), ~torn'
      PROVE  Lockstep'
  <2>1. Lockstep
    BY <1>1, <1>5, LockBefore
  <2>2. PICK n, G : Chain(script, n, G, journal) /\ (AtBatch(G[n]) \/ AfterBatch(G[n]))
    BY <1>2, <2>1 DEF Lockstep, Following, OnItsWay
  <2>3. Announced(todo') = {}
    BY <1>1, <1>3, Empties
  <2>4. G[n] \in Engine
    BY <2>2 DEF Chain
  <2>5. AfterBatch(G[n])'
    <3>1. SUFFICES \/ Spent(engine')
                   \/ \E F \in Seq(Result) : /\ engine' = FeedAll(script, RunJobs(script, G[n]), F)
                                             /\ Recalls(F \o <<>>, journal, Awaiting(G[n]))
      BY <1>1, <2>3 DEF AfterBatch
    <3>2. CASE AtBatch(G[n])
      <4>1. engine' = FeedAll(script, RunJobs(script, G[n]), results)
        BY <1>1, <1>3, <3>2, StepIs DEF AtBatch
      <4>2. results \o <<>> = results
        BY <1>3
      <4>3. QED
        BY <1>3, <3>2, <4>1, <4>2 DEF AtBatch
    <3>3. CASE Spent(engine)
      BY <1>1, <1>3, <3>3, StaysSpent
    <3>4. CASE ~Spent(engine) /\ AfterBatch(G[n])
      <4>1. PICK F \in Seq(Result) : /\ engine = FeedAll(script, RunJobs(script, G[n]), F)
                                     /\ Recalls(F \o results, journal, Awaiting(G[n]))
        BY <3>4 DEF AfterBatch
      <4>2. engine' = FeedAll(script, RunJobs(script, G[n]), F \o results)
        BY <1>1, <1>3, <2>4, <3>4, <4>1, FedFurther
      <4>3. F \o results \in Seq(Result) /\ (F \o results) \o <<>> = F \o results
        BY <1>3
      <4>4. QED
        BY <4>1, <4>2, <4>3
    <3>5. QED
      BY <2>2, <3>2, <3>3, <3>4
  <2>6. Following'
    BY <1>1, <2>2, <2>5 DEF Following
  <2>7. QED
    BY <1>1, <1>2, <2>1, <2>6 DEF Lockstep, Replayable, Retracing, Exhausted
<1>6. QED
  BY <1>4, <1>5 DEF LockInv

\* The loop has what it waited for.
LEMMA LockCollects ==
  ASSUME DriveInv, LockInv, Collected
  PROVE  LockInv'
<1>1. /\ UNCHANGED <<script, journal, replay, engine, results, queued, refused, torn>>
      /\ pc \in {"collect", "await"} /\ wait = 0
      /\ \/ pc' = "append" /\ todo' = <<Ended("engine_invariant_breach")>>
         \/ pc' = "step" /\ todo' = todo
  BY DEF Collected, EndWith
<1>2. CASE pc' = "append" /\ todo' = <<Ended("engine_invariant_breach")>>
  <2>1. "engine_invariant_breach" \in Outcomes
    BY DEF Outcomes
  <2>2. Announced(todo') = {} /\ todo'[1].type # "spawned"
    BY <1>2, <2>1, Shorts, NoSpawnIs, EventsAre
  <2>3. QED
    BY <1>1, <1>2, <2>2, LockTurns
<1>3. CASE pc' = "step" /\ todo' = todo
  <2>1. Apartness'
    BY <1>1, <1>3 DEF LockInv, Apartness, Between
  <2>2. ASSUME InLockstep(journal'), ~torn'
        PROVE  Lockstep'
    <3>1. Lockstep
      BY <1>1, <2>2, LockBefore
    <3>2. OnItsWay' => OnItsWay
      BY <1>1, <1>3 DEF OnItsWay
    <3>3. \A e : (AtBatch(e) => AtBatch(e)') /\ (AfterBatch(e) => AfterBatch(e)')
      BY <1>1, <1>3 DEF AtBatch, AfterBatch
    <3>4. Following'
      <4>1. SUFFICES ASSUME OnItsWay'
                     PROVE  \E n, G : Chain(script', n, G, journal') /\ (AtBatch(G[n])' \/ AfterBatch(G[n])')
        BY DEF Following
      <4>2. PICK n, G : Chain(script, n, G, journal) /\ (AtBatch(G[n]) \/ AfterBatch(G[n]))
        BY <3>1, <3>2, <4>1 DEF Lockstep, Following
      <4>3. QED
        BY <1>1, <3>3, <4>2
    <3>5. Retracing'
      <4>1. SUFFICES ASSUME replay.active
                     PROVE  Retracing'
        BY <1>1 DEF Retracing
      <4>2. pc = "collect"
        BY <1>1, <4>1 DEF DriveInv, Replaying
      <4>3. QED
        BY <1>1, <1>3, <3>1, <4>1, <4>2 DEF Lockstep, Retracing
    <3>6. QED
      BY <1>1, <1>3, <3>1, <3>4, <3>5 DEF Lockstep, Replayable, Exhausted
  <2>3. QED
    BY <2>1, <2>2 DEF LockInv
<1>4. QED
  BY <1>1, <1>2, <1>3

\* The loop ends the run, its children all back.
LEMMA LockDrains ==
  ASSUME DriveInv, LockInv, Drained
  PROVE  LockInv'
<1>1. UNCHANGED <<script, journal, replay, queued, torn>> /\ pc = "drain"
  BY DEF Drained, Refuse
<1>2. CASE replay.active /\ DOMAIN replay.steps # {}
  <2>1. ~(InLockstep(journal) /\ ~torn)
    BY <1>1, <1>2 DEF LockInv, Lockstep, Exhausted
  <2>2. pc' = "join"
    BY <1>2 DEF Drained, Refuse
  <2>3. Apartness'
    BY <2>2 DEF Apartness, Between
  <2>4. QED
    BY <1>1, <2>1, <2>3 DEF LockInv
<1>3. CASE ~(replay.active /\ DOMAIN replay.steps # {})
  <2>1. /\ pc' = "append" /\ refused' = refused
        /\ todo' = (IF replay.active THEN <<Resumed>> ELSE <<>>) \o <<Ended(verdict)>>
    BY <1>3 DEF Drained
  <2>2. verdict \in Outcomes
    BY <1>1 DEF DriveInv, Control, Outcomes, Failures
  <2>3. Resumed \in Event /\ Ended(verdict) \in Event
    BY <2>2, EventsAre
  <2>4. todo' \in {<<Ended(verdict)>>, <<Resumed, Ended(verdict)>>}
    <3>1. CASE replay.active
      <4>1. <<Resumed>> \o <<Ended(verdict)>> = <<Resumed, Ended(verdict)>>
        BY <2>3, Paired
      <4>2. QED
        BY <2>1, <3>1, <4>1
    <3>2. CASE ~replay.active
      <4>1. <<>> \o <<Ended(verdict)>> = <<Ended(verdict)>>
        OBVIOUS
      <4>2. QED
        BY <2>1, <3>2, <4>1
    <3>3. QED
      BY <3>1, <3>2
  <2>5. Announced(todo') = {}
    BY <2>2, <2>4, Shorts, NoSpawnIs
  <2>6. todo'[1].type # "spawned"
    BY <2>2, <2>4, EventsAre
  <2>7. QED
    BY <1>1, <2>1, <2>5, <2>6, LockTurns
<1>4. QED
  BY <1>2, <1>3

\* Too many children are resident.
LEMMA LockCaps ==
  ASSUME DriveInv, LockInv, CapBreached
  PROVE  LockInv'
<1>1. /\ UNCHANGED <<script, journal, replay, refused, queued, torn>>
      /\ pc' = "append" /\ todo' = <<Ended("resident_cap")>>
  BY DEF CapBreached, EndWith
<1>2. "resident_cap" \in Outcomes
  BY DEF Outcomes
<1>3. Announced(todo') = {} /\ todo'[1].type # "spawned"
  BY <1>1, <1>2, Shorts, NoSpawnIs, EventsAre
<1>4. QED
  BY <1>1, <1>3, LockTurns

\* A batch comes too late.
LEMMA LockIsLate ==
  ASSUME DriveInv, LockInv, pc = "step", NEW s, BatchTooLate(s)
  PROVE  LockInv'
<1>1. /\ UNCHANGED <<script, journal, replay, refused, queued, torn>> /\ pc' = "append"
      /\ \E o \in Outcomes : todo' = <<Ended(o)>>
  BY DEF BatchTooLate, EndWith, Drives, Outcomes
<1>2. Announced(todo') = {} /\ todo'[1].type # "spawned"
  <2>1. PICK o \in Outcomes : todo' = <<Ended(o)>>
    BY <1>1
  <2>2. QED
    BY <2>1, Shorts, NoSpawnIs, EventsAre
<1>3. QED
  BY <1>1, <1>2, LockTurns

\* A write is lost.
LEMMA LockLoses ==
  ASSUME DriveInv, LockInv, AppendLost \/ ReceiptLost
  PROVE  LockInv'
<1>1. /\ UNCHANGED <<script, journal, replay, refused>> /\ pc' = "join" /\ todo' = <<>>
      /\ torn' = (torn \/ queued # <<>>)
  BY DEF AppendLost, ReceiptLost, AppendFails
<1>2. Announced(todo') = {}
  BY <1>1, Empties
<1>3. QED
  BY <1>1, <1>2, LockTurns

-----------------------------------------------------------------------------
(* A replayed batch stays in lockstep                                      *)

\* In a replay, or with nothing out, what the engine awaits is what it is fed.
LEMMA NothingOut ==
  ASSUME DriveInv, pc = "step", Out = {}
  PROVE  /\ Awaiting(engine) = Ids(results)
         /\ \A s : s = Step(script, engine, results) /\ engine' = s.engine => Awaiting(engine') = NewIds(s)
<1>1. Awaiting(engine) \subseteq Ids(results)
  BY StepStarts
<1>2. Ids(results) \subseteq Awaiting(engine)
  BY DEF DriveInv, Placement, Placed
<1>3. ASSUME NEW s, s = Step(script, engine, results), engine' = s.engine
      PROVE  Awaiting(engine') = NewIds(s)
  BY <1>1, <1>3, StepMoves
<1>4. QED
  BY <1>1, <1>2, <1>3

\* A journal in lockstep is never found to diverge.
LEMMA NeverDivergent ==
  ASSUME DriveInv, Lockstep, replay.active, pc = "step",
         NEW s, s = Step(script, engine, results), NewBatch(s)
  PROVE  ~Divergent(s)
<1>1. PICK n, G : /\ Chain(script, n, G, journal) /\ 1..Len(G[n].issued) \subseteq Announced(journal)
                  /\ DOMAIN replay.steps = Announced(journal) \ 1..Len(engine.issued)
                  /\ Recalls(results, journal, Awaiting(engine))
                  /\ \/ \E k \in 0..(n - 1) : /\ engine = G[k] /\ s.engine = G[k + 1] /\ s.kind = "batch"
                                              /\ Whole(results, journal, engine)
                     \/ engine = G[n] /\ DOMAIN replay.steps = {}
  BY Retraced
<1>2. CASE DOMAIN replay.steps = {}
  BY <1>2 DEF Divergent
<1>3. CASE \E k \in 0..(n - 1) : engine = G[k] /\ s.engine = G[k + 1]
  <2>1. PICK k \in 0..(n - 1) : engine = G[k] /\ s.engine = G[k + 1]
    BY <1>3
  <2>2. n \in Nat /\ k + 1 \in 0..n /\ (k + 1 # n => k + 1 \in 0..n /\ k + 1 # n)
    BY <1>1 DEF Chain
  <2>3. /\ Faithful(script, G[k + 1], journal) /\ Len(G[k + 1].issued) <= Len(G[n].issued)
        /\ Announced(journal) \subseteq 1..Len(G[n].issued)
        /\ G[k + 1] \in Engine /\ G[n] \in Engine
    BY <1>1, <2>2 DEF Chain
  <2>4. Len(G[k + 1].issued) \in Nat /\ Len(G[n].issued) \in Nat /\ Len(engine.issued) \in Nat
    BY <2>3, StepStarts DEF Engine
  <2>5. NewIds(s) = (Len(engine.issued) + 1)..Len(G[k + 1].issued) /\ NewIds(s) # {}
    <3>1. NewIds(s) # {}
      BY BatchStarts
    <3>2. QED
      BY <2>1, <3>1 DEF NewIds
  <2>6. NewIds(s) \subseteq DOMAIN replay.steps
    <3>1. \A id \in NewIds(s) : id \in 1..Len(G[n].issued) /\ id \notin 1..Len(engine.issued)
      BY <2>3, <2>4, <2>5
    <3>2. QED
      BY <1>1, <3>1
  <2>7. ASSUME NEW id \in NewIds(s)
        PROVE  replay.steps[id].request = Ask(s, id)
    <3>1. replay.steps[id] = Load(journal)[id] /\ id \in Announced(journal)
      BY <1>1, <2>6 DEF DriveInv, Replaying
    <3>2. id \in 1..Len(G[k + 1].issued)
      BY <2>4, <2>5
    <3>3. Load(journal)[id].request = Request(script, G[k + 1], G[k + 1].issued[id])
      BY <2>3, <3>1, <3>2 DEF Faithful
    <3>4. QED
      BY <2>1, <3>1, <3>3 DEF Ask
  <2>8. ASSUME NEW id \in NewIds(s), replay.steps[id].at = 0
        PROVE  DOMAIN replay.steps \subseteq NewIds(s)
    <3>1. replay.steps[id] = Load(journal)[id]
      BY <2>6 DEF DriveInv, Replaying
    <3>2. id \in 1..Len(G[k + 1].issued)
      BY <2>4, <2>5
    <3>3. k + 1 = n
      <4>1. SUFFICES ASSUME k + 1 # n
                     PROVE  FALSE
        OBVIOUS
      <4>2. Load(journal)[id].at > 0
        BY <1>1, <2>2, <3>2, <4>1, Below
      <4>3. QED
        BY <2>8, <3>1, <4>2
    <3>4. \A x \in DOMAIN replay.steps : x \in 1..Len(G[n].issued) /\ x \notin 1..Len(engine.issued)
      BY <1>1, <2>3
    <3>5. QED
      BY <2>4, <2>5, <3>3, <3>4
  <2>9. QED
    BY <2>5, <2>6, <2>7, <2>8 DEF Divergent
<1>4. QED
  BY <1>1, <1>2, <1>3

\* A run whose journal is in lockstep is not refused.
LEMMA LockRefuses ==
  ASSUME DriveInv, LockInv, pc = "step", NEW s, s = Step(script, engine, results), BatchRefused(s)
  PROVE  LockInv'
<1>1. /\ NewBatch(s) /\ replay.active /\ Divergent(s) /\ pc' = "join"
      /\ UNCHANGED <<journal, torn, replay>>
  BY DEF BatchRefused, NewBatch, Drives, Refuse
<1>2. ~(InLockstep(journal) /\ ~torn)
  BY <1>1, NeverDivergent DEF LockInv
<1>3. Apartness'
  BY <1>1 DEF Apartness, Between
<1>4. QED
  BY <1>1, <1>2, <1>3 DEF LockInv

\* A batch that the journal answers, as far as it goes.
LEMMA LockReplays ==
  ASSUME DriveInv, LockInv, pc = "step", NEW s, s = Step(script, engine, results), BatchReplayed(s)
  PROVE  LockInv'
<1> DEFINE done == {id \in NewIds(s) \cap DOMAIN replay.steps : replay.steps[id].at > 0}
           live == NewIds(s) \ done
           left == [id \in DOMAIN replay.steps \ NewIds(s) |-> replay.steps[id]]
<1>1. /\ NewBatch(s) /\ replay.active /\ results' = Fed(done) /\ UNCHANGED refused
      /\ \/ /\ live = {} /\ pc' = "collect" /\ replay' = [replay EXCEPT !.steps = left] /\ todo' = todo
         \/ /\ live # {} /\ pc' = "append" /\ todo' = <<Resumed>> \o Announcements(s, live)
            /\ replay' = NoReplay
  BY DEF BatchReplayed
<1>2. /\ engine' = s.engine /\ UNCHANGED <<script, journal, session, queued, torn>> /\ s.kind = "batch"
      /\ queued = <<>> /\ queued' = <<>>
  BY <1>1, StepStarts DEF NewBatch, Drives
<1>3. /\ NewIds(s) # {} /\ NewIds(s) \subseteq Nat /\ IsFiniteSet(NewIds(s)) /\ s.engine \in Engine
      /\ NewIds(s) \in SUBSET (1..Len(s.engine.issued))
      /\ \A id \in NewIds(s) : id \in Announced(journal) => id \in DOMAIN replay.steps
  BY <1>1, BatchStarts DEF Held
<1>4. /\ \A id \in DOMAIN replay.steps : id \in Announced(journal) /\ replay.steps[id] = Load(journal)[id]
      /\ replay = [active |-> TRUE, steps |-> replay.steps]
  BY <1>1 DEF DriveInv, Replaying
<1>5. script \in Script /\ session \in Nat /\ journal \in Seq(Event) /\ Len(engine.issued) \in Nat
  BY StepStarts
<1>6. Out = {}
  <2>1. queue = <<>> /\ running = {} /\ channel = <<>> /\ queued = <<>>
    BY <1>1 DEF DriveInv, Replaying
  <2>2. QED
    BY <2>1, Empties DEF Out
<1>7. Awaiting(engine') = NewIds(s) /\ Awaiting(engine) = Ids(results)
  BY <1>2, <1>6, NothingOut
<1>8. done = {id \in NewIds(s) : id \in Announced(journal) /\ Load(journal)[id].at > 0}
  BY <1>3, <1>4
<1>9. Recalls(results', journal, Awaiting(engine'))
  <2>1. IsFiniteSet(done) /\ done \subseteq Nat /\ done \subseteq DOMAIN replay.steps
    <3>1. done \subseteq NewIds(s)
      OBVIOUS
    <3>2. QED
      BY <1>3, <3>1, FS_Subset
  <2>2. QED
    BY <1>1, <1>7, <1>8, <2>1, FedRecalls
<1>10. CASE live = {}
  <2>1. /\ pc' = "collect" /\ replay'.active = TRUE /\ replay'.steps = left
    <3>1. pc' = "collect" /\ replay' = [replay EXCEPT !.steps = left]
      BY <1>1, <1>10
    <3>2. replay' = [active |-> TRUE, steps |-> left]
      <4> HIDE DEF left
      <4>1. [replay EXCEPT !.steps = left] = [[active |-> TRUE, steps |-> replay.steps] EXCEPT !.steps = left]
        BY <1>4
      <4>2. QED
        BY <3>1, <4>1, StepsExchanged
    <3> HIDE DEF left
    <3>3. QED
      BY <3>1, <3>2
  <2>2. Apartness'
    BY <2>1 DEF Apartness
  <2>3. ASSUME InLockstep(journal'), ~torn'
        PROVE  Lockstep'
    <3>1. Lockstep
      BY <1>2, <2>3, LockBefore
    <3>2. PICK n, G : /\ Chain(script, n, G, journal) /\ 1..Len(G[n].issued) \subseteq Announced(journal)
                      /\ DOMAIN replay.steps = Announced(journal) \ 1..Len(engine.issued)
                      /\ \/ \E k \in 0..(n - 1) : engine = G[k] /\ s.engine = G[k + 1]
                         \/ DOMAIN replay.steps = {}
      BY <1>1, <3>1, Retraced
    <3>3. DOMAIN replay.steps # {}
      BY <1>3, <1>10
    <3>4. PICK k \in 0..(n - 1) : engine = G[k] /\ s.engine = G[k + 1]
      BY <3>2, <3>3
    <3>5. k + 1 \in 0..n /\ engine' = G[k + 1]
      BY <1>2, <3>2, <3>4 DEF Chain
    <3>6. DOMAIN replay'.steps = Announced(journal) \ 1..Len(engine'.issued)
      <4>1. DOMAIN replay'.steps = DOMAIN replay.steps \ NewIds(s)
        BY <2>1
      <4>2. NewIds(s) = (Len(engine.issued) + 1)..Len(engine'.issued)
        BY <1>2, StepMoves
      <4>3. Len(engine'.issued) \in Nat /\ Len(engine.issued) <= Len(engine'.issued)
        BY <1>2, StepMoves DEF Answered, Engine
      <4>4. 1..Len(engine'.issued) = (1..Len(engine.issued)) \cup NewIds(s)
        BY <1>5, <4>2, <4>3
      <4>5. QED
        BY <3>2, <4>1, <4>4
    <3>7. Retracing'
      BY <1>2, <1>9, <3>2, <3>5, <3>6 DEF Retracing
    <3>8. QED
      BY <1>1, <1>2, <2>1, <3>1, <3>7 DEF Lockstep, Replayable, Following, OnItsWay, Exhausted
  <2>4. QED
    BY <2>2, <2>3 DEF LockInv
<1>11. CASE live # {}
  <2>1. pc' = "append" /\ todo' = <<Resumed>> \o Announcements(s, live) /\ replay'.active = FALSE
    BY <1>1, <1>11 DEF NoReplay
  <2>2. todo'[1] = Resumed /\ todo'[1].type # "spawned"
    <3>1. live \in SUBSET (1..Len(s.engine.issued))
      BY <1>3
    <3> HIDE DEF live
    <3>2. Announcements(s, live) \in Seq(Event)
      BY <1>3, <1>5, <3>1, AnnouncementsAre
    <3>3. QED
      BY <2>1, <3>2, MarkedAre, EventsAre
  <2>3. Apartness'
    BY <2>1, <2>2 DEF Apartness, Between
  <2>4. ASSUME InLockstep(journal'), ~torn'
        PROVE  Lockstep'
    <3>1. Lockstep
      BY <1>2, <2>4, LockBefore
    <3>2. PICK n, G : /\ Chain(script, n, G, journal) /\ 1..Len(G[n].issued) \subseteq Announced(journal)
                      /\ DOMAIN replay.steps = Announced(journal) \ 1..Len(engine.issued)
                      /\ Recalls(results, journal, Awaiting(engine))
                      /\ \/ \E k \in 0..(n - 1) : engine = G[k] /\ s.engine = G[k + 1]
                         \/ engine = G[n] /\ DOMAIN replay.steps = {}
      BY <1>1, <3>1, Retraced
    <3>3. \E m, H : Chain(script, m, H, journal) /\ engine' = H[m]
      <4>1. CASE engine = G[n]
        <5>1. Whole(results, journal, G[n])
          BY <1>7, <3>2, <4>1 DEF Whole
        <5>2. Step(script, G[n], results).kind = "batch"
          BY <1>2, <4>1
        <5>3. PICK H : Chain(script, n + 1, H, journal) /\ H[n + 1] = Step(script, G[n], results).engine
          <6>1. Chain(script, n, G, journal) /\ n \in Nat
            BY <3>2 DEF Chain
          <6>2. QED
            BY <1>5, <5>1, <5>2, <6>1, ChainGrows
        <5>4. QED
          BY <1>2, <4>1, <5>3
      <4>2. CASE \E k \in 0..(n - 1) : engine = G[k] /\ s.engine = G[k + 1]
        <5>1. PICK k \in 0..(n - 1) : engine = G[k] /\ s.engine = G[k + 1]
          BY <4>2
        <5>2. n \in Nat /\ k + 1 \in 0..n /\ Len(G[k + 1].issued) <= Len(G[n].issued)
              /\ G[k + 1] \in Engine /\ G[n] \in Engine
          BY <3>2 DEF Chain
        <5>3. PICK id \in NewIds(s) : id \notin done
          BY <1>11
        <5>4. id \in 1..Len(G[k + 1].issued)
          BY <1>3, <5>1, <5>3
        <5>5. k + 1 = n
          <6>1. SUFFICES ASSUME k + 1 # n
                         PROVE  FALSE
            OBVIOUS
          <6>2. id \in Announced(journal) /\ Load(journal)[id].at > 0
            BY <3>2, <5>2, <5>4, <6>1, Below
          <6>3. QED
            BY <1>8, <5>3, <6>2
        <5>6. QED
          BY <1>2, <3>2, <5>1, <5>5
      <4>3. QED
        BY <3>2, <4>1, <4>2
    <3>4. Following'
      BY <1>2, <1>9, <3>3 DEF Following, AtBatch
    <3>5. QED
      BY <1>1, <1>2, <2>1, <3>1, <3>4 DEF Lockstep, Replayable, Retracing, Exhausted
  <2>5. QED
    BY <2>3, <2>4 DEF LockInv
<1>12. QED
  BY <1>10, <1>11

-----------------------------------------------------------------------------
(* A live batch stays in lockstep                                          *)

\* With nothing out, all that came of a batch since was recalled.
LEMMA AllCameBack ==
  ASSUME DriveInv, pc = "step", Out = {},
         NEW e \in Engine, Sane(script, e), NEW F \in Seq(Result), Answerable(e, F),
         engine = Step(script, e, F).engine, Recalls(F \o results, journal, Awaiting(e))
  PROVE  Whole(F \o results, journal, e)
<1> DEFINE R == F \o results
<1>1. /\ script \in Script /\ engine \in Engine /\ Sane(script, engine) /\ journal \in Seq(Event)
      /\ Awaiting(engine) = Ids(results)
  BY StepStarts, NothingOut
<1>2. Answered(e, F, Len(F), engine)
  BY <1>1, StepAnswers
<1>3. ASSUME NEW id \in Awaiting(e)
      PROVE  id \in Announced(journal) /\ Load(journal)[id].at > 0
  <2>1. id \in 1..Len(e.issued) /\ Len(e.issued) \in Nat
    BY DEF Awaiting, Engine
  <2>2. Len(e.issued) <= Len(engine.issued) /\ Len(engine.issued) \in Nat
    BY <1>1, <1>2 DEF Answered, Engine
  <2>3. id \in 1..Len(engine.issued)
    BY <2>1, <2>2
  <2>4. CASE id \in Awaiting(engine)
    <3>1. PICK i \in 1..Len(results) : results[i].id = id
      BY <1>1, <2>4 DEF Ids
    <3>2. QED
      BY <3>1 DEF DriveInv, Evidence
  <2>5. CASE engine.status[engine.issued[id]] = "settled"
    <3>1. id \in DOMAIN Load(journal) /\ Load(journal)[id].at > 0
      BY <2>3, <2>5 DEF DriveInv, Evidence, ScriptSawTheLog
    <3>2. QED
      BY <3>1, LoadDomain
  <2>6. QED
    BY <1>1, <2>3, <2>4, <2>5, SaneRequest
<1> HIDE DEF R
<1>4. Ids(R) = Awaiting(e)
  BY <1>3 DEF Recalls, R
<1>5. QED
  BY <1>4 DEF Whole, R

\* A batch that comes when nothing is out is the next of the log.
LEMMA NextBatch ==
  ASSUME DriveInv, pc = "step", Out = {}, Following, ~replay.active,
         NEW s, s = Step(script, engine, results), s.kind = "batch", Len(s.engine.issued) <= Ceiling
  PROVE  \E m, H : Chain(script, m, H, journal) /\ H[m] = s.engine
<1>1. PICK n, G : Chain(script, n, G, journal) /\ (AtBatch(G[n]) \/ AfterBatch(G[n]))
  BY DEF Following, OnItsWay
<1>2. /\ script \in Script /\ engine \in Engine /\ Sane(script, engine) /\ journal \in Seq(Event)
      /\ results \in Seq(Result) /\ Answerable(engine, results) /\ Awaiting(engine) = Ids(results)
  BY StepStarts, NothingOut
<1>3. n \in Nat /\ n \in 0..n /\ G[n] \in Engine /\ Sane(script, G[n])
  BY <1>1 DEF Chain
<1>4. ~Spent(engine)
  BY <1>2, BatchUnspent
<1>5. \E R : /\ Whole(R, journal, G[n]) /\ Step(script, G[n], R).kind = "batch"
             /\ Step(script, G[n], R).engine = s.engine
  <2>1. CASE AtBatch(G[n])
    <3>1. engine = G[n] /\ Whole(results, journal, G[n])
      BY <1>2, <2>1 DEF AtBatch, Whole
    <3>2. QED
      BY <3>1
  <2>2. CASE AfterBatch(G[n])
    <3>1. PICK F \in Seq(Result) : /\ engine = FeedAll(script, RunJobs(script, G[n]), F)
                                   /\ Recalls(F \o results, journal, Awaiting(G[n]))
      BY <1>4, <2>2 DEF AfterBatch
    <3> DEFINE e == G[n]
               R == F \o results
    <3>2. R \in Seq(Result) /\ Answerable(e, R)
      BY <1>2, <3>1, RecallsAnswer
    <3>3. Answerable(e, F)
      <4>1. \A i \in 1..Len(F) : i \in 1..Len(R) /\ R[i] = F[i]
        BY <1>2
      <4> HIDE DEF R, e
      <4>2. QED
        BY <3>2, <4>1 DEF Answerable
    <3>4. Step(script, e, F).engine = engine
      BY <1>2, <1>3, <3>1, <3>3, StepIs
    <3>5. Len(e.issued) <= Len(engine.issued)
      BY <1>2, <1>3, <3>3, <3>4, StepAnswers DEF Answered
    <3>6. s.engine = FeedAll(script, RunJobs(script, e), R)
      BY <1>2, <1>3, <1>4, <3>1, FedFurther
    <3>7. ~s.engine.undeclared /\ Len(s.engine.issued) > Len(engine.issued)
      BY <1>2, StepIs
    <3> HIDE DEF R, e
    <3>8. /\ Step(script, e, R).engine = s.engine
          /\ Step(script, e, R).kind = "batch" <=> ~s.engine.undeclared /\ Len(s.engine.issued) > Len(e.issued)
      BY <1>2, <1>3, <3>2, <3>6, StepIs DEF e
    <3>9. Len(s.engine.issued) > Len(e.issued)
      <4>1. s.engine \in Engine
        BY <1>2, StepAnswers
      <4>2. Len(s.engine.issued) \in Nat /\ Len(engine.issued) \in Nat /\ Len(e.issued) \in Nat
        BY <1>2, <1>3, <4>1 DEF Engine, e
      <4>3. QED
        BY <3>5, <3>7, <4>2
    <3>10. Whole(R, journal, e)
      BY <1>3, <3>1, <3>3, <3>4, AllCameBack DEF R, e
    <3>11. QED
      BY <3>7, <3>8, <3>9, <3>10 DEF e
  <2>3. QED
    BY <1>1, <2>1, <2>2
<1>6. PICK R : /\ Whole(R, journal, G[n]) /\ Step(script, G[n], R).kind = "batch"
               /\ Step(script, G[n], R).engine = s.engine
  BY <1>5
<1>7. \E H : Chain(script, n + 1, H, journal) /\ H[n + 1] = Step(script, G[n], R).engine
  BY <1>1, <1>2, <1>3, <1>6, ChainGrows
<1>8. QED
  BY <1>6, <1>7

\* The loop is about to announce a batch.
LEMMA LockPlans ==
  ASSUME DriveInv, LockInv, pc = "step", NEW s, s = Step(script, engine, results), BatchLive(s)
  PROVE  LockInv'
<1>1. /\ NewBatch(s) /\ ~replay.active /\ results' = <<>> /\ pc' = "append" /\ UNCHANGED <<replay, refused>>
      /\ todo' = Announcements(s, NewIds(s))
  BY DEF BatchLive
<1>2. /\ engine' = s.engine /\ UNCHANGED <<script, journal, session, queued, torn>> /\ s.kind = "batch"
      /\ queued = <<>> /\ queued' = <<>> /\ Len(s.engine.issued) <= Ceiling
  BY <1>1, StepStarts DEF NewBatch, Drives
<1>3. /\ NewIds(s) # {} /\ NewIds(s) \in SUBSET (1..Len(s.engine.issued)) /\ s.engine \in Engine
      /\ \A id \in NewIds(s) : id \notin Announced(journal)
  BY <1>1, BatchStarts DEF Held
<1>4. script \in Script /\ session \in Nat /\ journal \in Seq(Event)
  BY StepStarts
<1>5. /\ todo' \in Seq(Event) /\ Announced(todo') = NewIds(s)
  BY <1>1, <1>3, <1>4, AnnouncementsAre
<1>6. Apartness'
  BY <1>1, <1>2 DEF LockInv, Apartness, Between
<1>7. ASSUME InLockstep(journal'), ~torn'
      PROVE  Lockstep'
  <2>1. Lockstep
    BY <1>2, <1>7, LockBefore
  <2>2. Following'
    <3>1. SUFFICES ASSUME OnItsWay'
                   PROVE  \E m, H : Chain(script, m, H, journal) /\ AtBatch(H[m])'
      BY <1>2 DEF Following
    <3>2. \A id \in Announced(journal) : Load(journal)[id].at > 0
      BY <1>1, <1>2, <1>3, <1>5, <3>1 DEF OnItsWay
    <3>3. Out = {}
      <4>1. \A id \in Out : id \in Announced(journal) /\ Load(journal)[id].at = 0
        <5>1. \A id \in Out : id \in Announced(journal) /\ Load(journal)[id] = Fresh(id)
          BY DEF DriveInv, Evidence
        <5>2. \A id : Fresh(id).at = 0
          BY DEF Fresh
        <5>3. QED
          BY <5>1, <5>2
      <4>2. QED
        BY <3>2, <4>1
    <3>4. PICK m, H : Chain(script, m, H, journal) /\ H[m] = s.engine
      BY <1>1, <1>2, <2>1, <3>3, NextBatch DEF Lockstep
    <3>5. Awaiting(engine') = NewIds(s)
      BY <1>2, <3>3, NothingOut
    <3>6. Recalls(<<>>, journal, NewIds(s))
      <4>1. Ids(<<>>) = {} /\ Len(<<>>) = 0 /\ <<>> \in Seq(Result)
        BY Empties
      <4>2. 1..Len(<<>>) = {}
        BY <4>1
      <4>3. {id \in NewIds(s) : id \in Announced(journal) /\ Load(journal)[id].at > 0} = {}
        BY <1>3
      <4>4. QED
        BY <4>1, <4>2, <4>3 DEF Recalls
    <3>7. AtBatch(H[m])'
      BY <1>1, <1>2, <3>4, <3>5, <3>6 DEF AtBatch
    <3>8. QED
      BY <3>4, <3>7
  <2>3. QED
    BY <1>1, <1>2, <2>1, <2>2 DEF Lockstep, Replayable, Retracing, Exhausted
<1>8. QED
  BY <1>6, <1>7 DEF LockInv

-----------------------------------------------------------------------------
(* Lockstep as the log grows                                               *)

\* An event that says nothing of a step goes to the log.
LEMMA LockMarks ==
  ASSUME DriveInv, LockInv, AppendEvent, NEW e \in Event, e = Head(todo), e.type # "spawned", ~IsOutcome(e),
         pc' \in {"append", "join"} \/ (pc' = "step" /\ todo = <<Started>> /\ engine = NewEngine /\ ~replay.active)
  PROVE  LockInv'
<1>1. /\ pc = "append" /\ todo # <<>> /\ todo \in Seq(Event) /\ queued = <<>> /\ queued' = <<>>
      /\ journal' = Append(journal, e) /\ todo' = Tail(todo)
      /\ UNCHANGED <<script, session, engine, results, replay, refused>>
  BY AppendIs
<1>2. UNCHANGED torn
  BY DEF AppendEvent
<1>3. journal \in Seq(Event) /\ results \in Seq(Result) /\ script \in Script
  BY ScriptIs DEF DriveInv, Types
<1>4. /\ Announced(journal') = Announced(journal) /\ Load(journal') = Load(journal)
      /\ journal' # <<>> /\ journal'[Len(journal')] = e
  <2>1. /\ Len(journal) \in Nat /\ Len(journal') = Len(journal) + 1 /\ journal'[Len(journal) + 1] = e
    BY <1>1, <1>3, Appended
  <2>2. journal' # <<>> /\ journal'[Len(journal')] = e
    BY <2>1
  <2>3. QED
    BY <1>1, <1>3, <2>2, IndexKept
<1>5. Apartness'
  BY <1>4 DEF Apartness
<1>6. ASSUME InLockstep(journal'), ~torn'
      PROVE  Lockstep'
  <2>1. Lockstep
    BY <1>1, <1>2, <1>6, LockBefore
  <2>2. \A n, G : Chain(script, n, G, journal) => Chain(script, n, G, journal')
    BY <1>4, ChainKept
  <2>3. \A R, S : Recalls(R, journal, S) => Recalls(R, journal', S)
    BY <1>4 DEF Recalls
  <2>4. Replayable'
    BY <1>1, <1>4, <2>1, <2>2 DEF Lockstep, Replayable
  <2>5. Announced(todo') = Announced(todo)
    BY <1>1, AnnouncedTail
  <2>6. CASE pc' \in {"append", "join"}
    <3>1. SUFFICES ASSUME OnItsWay'
                   PROVE  \E n, G : Chain(script, n, G, journal') /\ (AtBatch(G[n])' \/ AfterBatch(G[n])')
      BY <1>1, <2>1, <2>4, <2>6 DEF Lockstep, Following, Retracing, Exhausted
    <3>2. OnItsWay /\ Announced(todo) # {}
      BY <1>1, <1>4, <2>5, <2>6, <3>1 DEF OnItsWay
    <3>3. PICK n, G : Chain(script, n, G, journal) /\ (AtBatch(G[n]) \/ AfterBatch(G[n]))
      BY <2>1, <3>2 DEF Lockstep, Following
    <3>4. AtBatch(G[n])
      BY <3>2, <3>3 DEF AfterBatch
    <3>5. AtBatch(G[n])'
      BY <1>1, <2>3, <3>4 DEF AtBatch
    <3>6. QED
      BY <2>2, <3>3, <3>5
  <2>7. CASE pc' = "step" /\ todo = <<Started>> /\ engine = NewEngine /\ ~replay.active
    <3>1. 1..Len(engine.issued) = {} /\ Awaiting(engine) = {}
      <4>1. Len(NewEngine.issued) = 0
        BY DEF NewEngine
      <4>2. QED
        BY <2>7, <4>1 DEF Awaiting
    <3>2. Announced(journal) = {}
      BY <1>1, <2>7, <3>1 DEF DriveInv, Matched, Held
    <3>3. PICK G : Chain(script, 0, G, journal') /\ G[0] = NewEngine
      BY <1>3, <1>4, <3>2, ChainStarts
    <3>4. Ids(results) = {}
      BY <3>1 DEF DriveInv, Placement, Placed
    <3>5. 1..Len(results) = {}
      BY <3>4 DEF Ids
    <3>6. Recalls(results, journal', {})
      BY <1>3, <3>4, <3>5 DEF Recalls
    <3>7. AtBatch(G[0])'
      BY <1>1, <2>7, <3>1, <3>3, <3>6 DEF AtBatch
    <3>8. Following'
      BY <1>1, <3>3, <3>7 DEF Following
    <3>9. QED
      BY <1>1, <2>1, <2>4, <2>7, <3>8 DEF Lockstep, Retracing, Exhausted
  <2>8. QED
    BY <2>6, <2>7
<1>7. QED
  BY <1>5, <1>6 DEF LockInv

\* A batch is announced, one request after another, when all else is settled.
LEMMA LastAreSettled ==
  ASSUME DriveInv, LockInv, pc = "append", todo # <<>>, Head(todo).type = "spawned", ~replay.active,
         queued = <<>>, InLockstep(Append(journal, Head(todo))),
         NEW id \in Announced(journal), id \notin Announced(todo)
  PROVE  Load(journal)[id].at > 0
<1> DEFINE e == Head(todo)
           new == Append(journal, e)
           n == Len(journal)
           i == LastSpawn(journal, id)
<1>1. journal \in Seq(Event) /\ todo \in Seq(Event)
  BY DEF DriveInv, Types
<1>2. e = todo[1] /\ e \in Event /\ 1 \in 1..Len(todo)
  BY <1>1, Tailed
<1>3. e.type = "spawned" /\ e.id # id
  BY <1>2 DEF Announced
<1>4. journal[n].type # "spawned" /\ n # 0 /\ n \in Nat
  <2>1. todo[1].type = "spawned"
    BY <1>2, <1>3
  <2>2. journal # <<>> /\ journal[n].type # "spawned"
    BY <2>1 DEF LockInv, Apartness, Between
  <2>3. QED
    BY <1>1, <2>2
<1> HIDE DEF e
<1>5. /\ Len(new) = n + 1 /\ new[n + 1] = e
      /\ \A k \in 1..n : new[k] = journal[k]
  BY <1>1, <1>2, Appended
<1>6. /\ i \in 1..n /\ journal[i].type = "spawned" /\ journal[i].id = id
      /\ \A k \in 1..n : journal[k].type = "spawned" /\ journal[k].id = id => k <= i
  BY <1>1, LastSpawnIs
<1>u. InLockstep(new)
  BY DEF e
<1> HIDE DEF new, n, i
<1>7. /\ i \in 1..Len(new) /\ n + 1 \in 1..Len(new) /\ i < n + 1
      /\ new[i].type = "spawned" /\ new[n + 1].type = "spawned" /\ new[i].id = id
  BY <1>3, <1>4, <1>5, <1>6
<1>8. \/ \A k \in i..(n + 1) : new[k].type = "spawned"
      \/ \E k \in (i + 1)..(n + 1) : (IsOutcome(new[k]) \/ new[k].type = "spawned") /\ new[k].id = id
  BY <1>u, <1>7 DEF InLockstep
<1>9. ~(\A k \in i..(n + 1) : new[k].type = "spawned")
  <2>1. n \in i..(n + 1) /\ n \in 1..n
    BY <1>4, <1>6
  <2>2. new[n].type # "spawned"
    BY <1>4, <1>5, <2>1
  <2>3. QED
    BY <2>1, <2>2
<1>10. PICK k \in (i + 1)..(n + 1) : (IsOutcome(new[k]) \/ new[k].type = "spawned") /\ new[k].id = id
  BY <1>8, <1>9
<1>11. k \in 1..n /\ k > i
  <2>1. k # n + 1
    BY <1>3, <1>5, <1>10
  <2>2. QED
    BY <1>4, <1>6, <1>10, <2>1
<1>12. IsOutcome(journal[k]) /\ journal[k].id = id
  <2>1. new[k] = journal[k]
    BY <1>5, <1>11
  <2>2. ~(journal[k].type = "spawned" /\ journal[k].id = id)
    BY <1>4, <1>6, <1>11
  <2>3. QED
    BY <1>10, <2>1, <2>2
<1>13. k \in Since(journal, id)
  <2>1. k \in (i + 1)..n
    BY <1>4, <1>6, <1>11
  <2>2. QED
    BY <1>12, <2>1 DEF Since, i, n
<1>14. Load(journal)[id].at # 0 /\ Load(journal)[id].at \in 0..Len(journal)
  BY <1>1, <1>13, EntryIs
<1>15. QED
  BY <1>4, <1>14 DEF n

\* The announcement of a child goes to the log.
LEMMA LockSpawns ==
  ASSUME DriveInv, LockInv, AppendEvent, Head(todo).type = "spawned", ~replay.active
  PROVE  LockInv'
<1> DEFINE e == Head(todo)
           id == e.id
           ready == Append(queued, id)
<1>1. /\ pc = "append" /\ todo # <<>> /\ todo \in Seq(Event) /\ e \in Event
      /\ journal' = Append(journal, e) /\ todo' = Tail(todo)
      /\ UNCHANGED <<script, session, engine, results, replay, refused>>
      /\ Len(todo) # 1 => todo' # <<>> /\ pc' = "append" /\ queued' = ready
      /\ Len(todo) = 1 => /\ todo' = <<>> /\ pc' = "collect" /\ wait' = Min({1, outstanding'})
                          /\ outstanding' = outstanding + Len(ready)
  BY AppendIs
<1>2. UNCHANGED torn
  BY DEF AppendEvent
<1>3. /\ journal \in Seq(Event) /\ results \in Seq(Result) /\ script \in Script /\ session \in Nat
      /\ engine \in Engine /\ queued \in Seq(Nat) /\ outstanding \in Nat /\ Sane(script, engine)
  BY ScriptIs DEF DriveInv, Types, TypeOK
<1>4. e = todo[1] /\ 1 \in 1..Len(todo) /\ id \in Nat
  <2>1. e = todo[1] /\ 1 \in 1..Len(todo)
    BY <1>1, Tailed
  <2>2. QED
    BY <1>1, <2>1, EventFields
<1>5. /\ e = Spawned(id, Request(script, engine, engine.issued[id]), session)
      /\ id \in Announced(journal) => Load(journal)[id].at = 0
  BY <1>4 DEF DriveInv, Evidence
<1>6. id \in Announced(todo) /\ Announced(todo) = Announced(todo') \cup {id}
  BY <1>1, AnnouncedTail
<1>7. id \in Awaiting(engine) /\ id \in 1..Len(engine.issued) /\ engine.issued[id] \in Calls
  BY <1>3, <1>6 DEF DriveInv, Placement, Placed, Awaiting, Engine
<1>8. e.type = "spawned" /\ Len(ready) \in Nat \ {0}
  BY <1>3, <1>4
<1> DEFINE q == Request(script, engine, engine.issued[id])
<1>9. q \in Asked
  BY <1>3, <1>7, RequestIs
<1> HIDE DEF q
<1>10. /\ Announced(journal') = Announced(journal) \cup {id}
       /\ \A x \in Announced(journal) : x # id => Load(journal')[x] = Load(journal)[x]
       /\ Load(journal')[id].request = q /\ Load(journal')[id].at = 0
  <2>1. journal' = Append(journal, Spawned(id, q, session))
    BY <1>1, <1>5 DEF q
  <2>2. Load(journal')[id] = [request |-> q, run |-> session, at |-> 0, ok |-> FALSE]
    BY <1>3, <1>4, <1>9, <2>1, EntryOpened
  <2>3. \A x \in Announced(journal) : x # id => Load(journal')[x] = Load(journal)[x]
    BY <1>1, <1>3, EntryKept
  <2>4. Announced(journal') = Announced(journal) \cup {id}
    BY <1>1, <1>3, <1>8, AnnouncedAppended
  <2>5. QED
    BY <2>2, <2>3, <2>4
<1>11. Apartness'
  <2>1. CASE Len(todo) = 1
    <3>1. outstanding' \in Nat \ {0} /\ wait' = Min({1, outstanding'})
      BY <1>1, <1>3, <1>8, <2>1
    <3> DEFINE n == outstanding'
    <3> HIDE DEF n
    <3>2. 1 \in {1, n} /\ \A y \in {1, n} : 1 <= y
      BY <3>1 DEF n
    <3>3. Min({1, n}) \in {1, n}
      BY <3>2 DEF Min
    <3>4. wait' # 0 /\ pc' = "collect"
      BY <1>1, <2>1, <3>1, <3>3 DEF n
    <3>5. QED
      BY <3>4 DEF Apartness, Between
  <2>2. CASE Len(todo) # 1
    <3>1. pc' = "append" /\ queued' # <<>>
      <4>1. ready # <<>>
        BY <1>3, <1>4
      <4>2. QED
        BY <1>1, <2>2, <4>1
    <3>2. QED
      BY <3>1 DEF Apartness, Between
  <2>3. QED
    BY <2>1, <2>2
<1>12. ASSUME InLockstep(journal'), ~torn'
       PROVE  Lockstep'
  <2>1. Lockstep
    BY <1>1, <1>2, <1>12, LockBefore
  <2>2. OnItsWay
    <3>1. ASSUME queued = <<>>, NEW x \in Announced(journal), x \notin Announced(todo)
          PROVE  Load(journal)[x].at > 0
      BY <1>1, <1>8, <1>12, <3>1, LastAreSettled
    <3>2. QED
      BY <1>6, <3>1 DEF OnItsWay
  <2>3. PICK n, G : Chain(script, n, G, journal) /\ AtBatch(G[n])
    BY <1>6, <2>1, <2>2 DEF Lockstep, Following, AfterBatch
  <2>4. engine = G[n]
    BY <2>3 DEF AtBatch
  <2>5. Chain(script, n, G, journal')
    <3>1. Load(journal')[id].request = Request(script, G[n], G[n].issued[id])
      BY <1>10, <2>4 DEF q
    <3>2. id \in 1..Len(G[n].issued)
      BY <1>7, <2>4
    <3> HIDE DEF id, ready
    <3>3. QED
      BY <1>5, <1>10, <2>3, <3>1, <3>2, ChainBut
  <2>6. Recalls(results, journal', Awaiting(engine))
    <3>1. Recalls(results, journal, Awaiting(engine))
      BY <2>3 DEF AtBatch
    <3>2. {x \in Awaiting(engine) : x \in Announced(journal') /\ Load(journal')[x].at > 0}
            = {x \in Awaiting(engine) : x \in Announced(journal) /\ Load(journal)[x].at > 0}
      BY <1>5, <1>10
    <3>3. \A x \in Awaiting(engine) :
            x \in Announced(journal) /\ Load(journal)[x].at > 0 => Load(journal')[x] = Load(journal)[x]
      BY <1>5, <1>10
    <3>4. QED
      BY <3>1, <3>2, <3>3, RecallsKept
  <2>7. Following'
    BY <1>1, <2>4, <2>5, <2>6 DEF Following, AtBatch
  <2>8. Replayable'
    <3>1. SUFFICES ASSUME queued' = <<>>
                   PROVE  1..Len(G[n].issued) \subseteq Announced(journal')
      BY <1>1, <2>5 DEF Replayable
    <3>2. Announced(todo') = {}
      <4>1. ready # <<>>
        BY <1>3, <1>4
      <4>2. todo' = <<>>
        BY <1>1, <3>1, <4>1
      <4>3. QED
        BY <4>2, Empties
    <3>3. ASSUME NEW x \in 1..Len(engine.issued)
          PROVE  x \in Announced(journal')
      <4>1. CASE x \in Awaiting(engine)
        <5>1. x \in Announced(todo) \/ x \in Out \/ x \in Ids(results)
          BY <1>6, <4>1 DEF DriveInv, Complete, Placed
        <5>2. x \in Announced(todo) => x = id
          BY <1>6, <3>2
        <5>3. x \in Out => x \in Announced(journal)
          BY DEF DriveInv, Evidence
        <5>4. x \in Ids(results) => x \in Announced(journal)
          BY DEF DriveInv, Evidence, Ids
        <5>5. QED
          BY <1>10, <5>1, <5>2, <5>3, <5>4
      <4>2. CASE engine.status[engine.issued[x]] = "settled"
        <5>1. x \in DOMAIN Load(journal)
          BY <4>2 DEF DriveInv, Evidence, ScriptSawTheLog
        <5>2. QED
          BY <1>10, <5>1, LoadDomain
      <4>3. QED
        BY <1>3, <4>1, <4>2, SaneRequest
    <3>4. QED
      BY <2>4, <3>3
  <2>9. QED
    BY <1>1, <2>1, <2>7, <2>8 DEF Lockstep, Retracing, Exhausted
<1>13. QED
  BY <1>11, <1>12 DEF LockInv

\* The loop appends an event, whatever its kind.
LEMMA LockAppends ==
  ASSUME DriveInv, LockInv, AppendEvent
  PROVE  LockInv'
<1>1. /\ pc = "append" /\ todo # <<>> /\ todo \in Seq(Event) /\ Head(todo) = todo[1] /\ 1 \in 1..Len(todo)
      /\ Len(todo) \in Nat
  BY AppendIs, Tailed
<1>2. /\ Started \in Event /\ Started.type = "started" /\ ~IsOutcome(Started)
      /\ Resumed \in Event /\ Resumed.type = "resumed" /\ ~IsOutcome(Resumed)
  BY EventsAre DEF IsOutcome
<1>3. CASE Opening
  <2>1. todo = <<Started>> /\ engine = NewEngine /\ ~replay.active
    BY <1>3 DEF Opening
  <2>2. Head(todo) = Started /\ Len(todo) = 1
    BY <1>2, <2>1
  <2>3. pc' = "step"
    BY <1>2, <2>2 DEF AppendEvent
  <2>4. QED
    BY <1>2, <2>1, <2>2, <2>3, LockMarks
<1>4. ASSUME Head(todo) = Resumed, Len(todo) > 1
      PROVE  LockInv'
  <2>1. pc' = "append"
    BY <1>2, <1>4, AppendIs
  <2>2. QED
    BY <1>2, <1>4, <2>1, LockMarks
<1>5. CASE Announcing
  <2>1. CASE todo[1].type = "spawned"
    <3>1. todo[1].id \in Announced(todo)
      BY <1>1, <2>1 DEF Announced
    <3>2. ~replay.active
      BY <3>1 DEF DriveInv, Replaying
    <3>3. QED
      BY <1>1, <2>1, <3>2, LockSpawns
  <2>2. CASE todo[1].type # "spawned"
    <3>1. todo[1] = Resumed /\ Len(todo) > 1
      BY <1>1, <1>5, <2>2 DEF Announcing
    <3>2. QED
      BY <1>1, <1>4, <3>1
  <2>3. QED
    BY <2>1, <2>2
<1>6. CASE Concluding
  <2>1. PICK o \in Verdicts : todo \in {<<Ended(o)>>, <<Resumed, Ended(o)>>}
    BY <1>6 DEF Concluding
  <2> DEFINE e == Ended(o)
  <2>2. e \in Event /\ e.type = "ended" /\ ~IsOutcome(e)
    BY EventsAre DEF Verdicts, IsOutcome
  <2> HIDE DEF e
  <2>3. CASE todo = <<Ended(o)>>
    <3>1. todo = <<e>>
      BY <2>3 DEF e
    <3>2. Head(todo) = e /\ Len(todo) = 1
      BY <3>1
    <3>3. pc' = "join"
      BY <2>2, <3>2 DEF AppendEvent
    <3>4. QED
      BY <2>2, <3>2, <3>3, LockMarks
  <2>4. CASE todo = <<Resumed, Ended(o)>>
    <3>1. todo[1] = Resumed /\ Len(todo) > 1
      BY <2>4
    <3>2. QED
      BY <1>1, <1>4, <3>1
  <2>5. QED
    BY <2>1, <2>3, <2>4
<1>7. QED
  BY <1>1, <1>3, <1>5, <1>6 DEF DriveInv, Control

\* The loop records the outcome of a child, which the next replay recalls too.
LEMMA LockReceives ==
  ASSUME DriveInv, LockInv, Receive
  PROVE  LockInv'
<1> DEFINE step == Head(channel)
           id == step.id
           ok == step.ok
           fed == [id |-> id, value |-> IF ok THEN session ELSE Null]
<1>1. /\ pc \in {"collect", "await", "drain"} /\ channel # <<>>
      /\ journal' = Append(journal, Settled(id, ok)) /\ results' = Append(results, fed)
      /\ UNCHANGED <<script, pc, engine, replay, todo, queued, refused, torn>>
  BY DEF Receive
<1>2. /\ channel \in Seq([id : Nat, ok : BOOLEAN]) /\ results \in Seq(Result)
      /\ journal \in Seq(Event) /\ session \in Nat
  BY ScriptIs DEF DriveInv, Types, TypeOK
<1>3. todo = <<>> /\ queued = <<>> /\ ~replay.active /\ Announced(todo) = {}
  BY <1>1, Empties DEF DriveInv, Control, Replaying
<1>4. id \in Nat /\ ok \in BOOLEAN /\ id \in Ids(channel)
  <2> DEFINE S == [id : Nat, ok : BOOLEAN]
  <2>1. channel \in Seq(S) /\ \A x \in S : x.id \in Nat /\ x.ok \in BOOLEAN
    BY <1>2
  <2> HIDE DEF S
  <2>2. step \in S
    BY <1>1, <2>1, Tailed
  <2>3. Ids(channel) = Ids(Tail(channel)) \cup {step.id}
    BY <1>1, <2>1, IdsTail
  <2>4. QED
    BY <2>1, <2>2, <2>3
<1>5. fed = [id |-> id, value |-> IF ok THEN session ELSE Null] /\ fed \in Result
  BY <1>2, <1>4 DEF Result, Null
<1> HIDE DEF step, id, ok, fed
<1>6. id \in Announced(journal) /\ Load(journal)[id] = Fresh(id)
  BY <1>4 DEF DriveInv, Evidence, Out
<1>7. /\ Load(journal)[id].at = 0 /\ Load(journal)[id].run = session
  BY <1>6 DEF Fresh
<1>8. /\ Settled(id, ok) \in Event /\ IsOutcome(Settled(id, ok)) /\ Settled(id, ok).id = id
      /\ Settled(id, ok).type # "spawned"
  BY <1>4, EventsAre
<1>9. /\ Announced(journal') = Announced(journal)
      /\ \A x \in Announced(journal) : x # id => Load(journal')[x] = Load(journal)[x]
      /\ Load(journal')[id].request = Load(journal)[id].request
  <2>1. Announced(journal') = Announced(journal)
    BY <1>1, <1>2, <1>8, AnnouncedAppended
  <2>2. \A x \in Announced(journal) : x # id => Load(journal')[x] = Load(journal)[x]
    BY <1>1, <1>2, <1>8, EntryKept
  <2>3. Load(journal')[id] = [request |-> Load(journal)[id].request, run |-> Load(journal)[id].run,
                              at |-> Len(journal) + 1, ok |-> ok]
    BY <1>1, <1>2, <1>4, <1>6, EntrySettled
  <2>4. QED
    BY <2>1, <2>2, <2>3
<1>10. Apartness'
  <2>1. /\ Len(journal) \in Nat /\ Len(journal') = Len(journal) + 1
        /\ journal'[Len(journal) + 1] = Settled(id, ok)
    BY <1>1, <1>2, <1>8, Appended
  <2>2. journal' # <<>> /\ journal'[Len(journal')].type # "spawned"
    BY <1>8, <2>1
  <2>3. QED
    BY <2>2 DEF Apartness
<1>11. ASSUME NEW n, NEW G, Chain(script, n, G, journal)
       PROVE  /\ Chain(script, n, G, journal')
              /\ id \in Awaiting(G[n])
  <2>1. n \in 0..n /\ Sane(script, G[n]) /\ Faithful(script, G[n], journal) /\ id \in 1..Len(G[n].issued)
    BY <1>6, <1>11 DEF Chain
  <2>2. Load(journal')[id].request = Request(script, G[n], G[n].issued[id])
    BY <1>6, <1>9, <2>1 DEF Faithful
  <2>3. Announced(journal') = Announced(journal) \cup {id}
    BY <1>6, <1>9
  <2>4. Chain(script, n, G, journal')
    BY <1>7, <1>9, <1>11, <2>1, <2>2, <2>3, ChainBut
  <2>5. G[n].status[G[n].issued[id]] # "settled"
    BY <1>7, <2>1 DEF Faithful
  <2>6. QED
    BY <2>1, <2>4, <2>5, SaneRequest
<1>12. ASSUME NEW S, id \in S, NEW R, Recalls(R, journal, S)
       PROVE  Recalls(Append(R, fed), journal', S)
  BY <1>1, <1>2, <1>4, <1>5, <1>6, <1>7, <1>12, RecallsMore
<1>13. ASSUME InLockstep(journal'), ~torn'
       PROVE  Lockstep'
  <2>1. Lockstep
    BY <1>1, <1>8, <1>13, LockBefore
  <2>2. Replayable'
    BY <1>1, <1>9, <1>11, <2>1 DEF Lockstep, Replayable
  <2>3. Following'
    <3>1. SUFFICES ASSUME OnItsWay'
                   PROVE  \E n, G : Chain(script, n, G, journal') /\ (AtBatch(G[n])' \/ AfterBatch(G[n])')
      BY <1>1 DEF Following
    <3>2. OnItsWay
      BY <1>1, <1>3, <3>1 DEF OnItsWay
    <3>3. PICK n, G : Chain(script, n, G, journal) /\ (AtBatch(G[n]) \/ AfterBatch(G[n]))
      BY <2>1, <3>2 DEF Lockstep, Following
    <3>4. Chain(script, n, G, journal') /\ id \in Awaiting(G[n])
      BY <1>11, <3>3
    <3>5. CASE AtBatch(G[n])
      <4>1. engine = G[n] /\ Recalls(Append(results, fed), journal', Awaiting(G[n]))
        BY <1>12, <3>4, <3>5 DEF AtBatch
      <4>2. AtBatch(G[n])'
        BY <1>1, <4>1 DEF AtBatch
      <4>3. QED
        BY <3>4, <4>2
    <3>6. CASE Spent(engine)
      <4>1. AfterBatch(G[n])'
        BY <1>1, <1>3, <3>6 DEF AfterBatch
      <4>2. QED
        BY <3>4, <4>1
    <3>7. CASE AfterBatch(G[n]) /\ ~Spent(engine)
      <4>1. PICK F \in Seq(Result) : /\ engine = FeedAll(script, RunJobs(script, G[n]), F)
                                     /\ Recalls(F \o results, journal, Awaiting(G[n]))
        BY <3>7 DEF AfterBatch
      <4>2. Recalls(Append(F \o results, fed), journal', Awaiting(G[n]))
        BY <1>12, <3>4, <4>1
      <4>3. Append(F \o results, fed) = F \o results'
        <5>1. F \in Seq(Result) /\ results \in Seq(Result) /\ fed \in Result
          BY <1>2, <1>5
        <5>2. Append(F \o results, fed) = F \o Append(results, fed)
          BY ONLY <5>1
        <5>3. QED
          BY <1>1, <5>2
      <4>4. AfterBatch(G[n])'
        BY <1>1, <1>3, <4>1, <4>2, <4>3 DEF AfterBatch
      <4>5. QED
        BY <3>4, <4>4
    <3>8. QED
      BY <3>3, <3>5, <3>6, <3>7
  <2>4. QED
    BY <1>1, <1>3, <2>1, <2>2, <2>3 DEF Lockstep, Retracing, Exhausted
<1>14. QED
  BY <1>10, <1>13 DEF LockInv

\* Every step of a run keeps its log in step with what a replay would do.
LEMMA LockNext ==
  ASSUME DriveInv, DriveInv', LockInv, [Next]_vars
  PROVE  LockInv'
<1>1. CASE Begin
  BY <1>1, LockBegins
<1>2. CASE Resume
  BY <1>2, LockResumes
<1>3. CASE Drive
  <2>1. CASE CapBreached
    BY <2>1, LockCaps
  <2>2. CASE StepEngine
    <3>1. PICK s \in {Step(script, engine, results)} :
            \/ BatchTooLate(s) \/ BatchLive(s) \/ BatchRefused(s) \/ BatchReplayed(s)
            \/ StepAwaiting(s) \/ StepDone(s) \/ StepFailed(s)
      BY <2>2 DEF StepEngine
    <3>2. pc = "step" /\ s = Step(script, engine, results)
      BY <2>2 DEF StepEngine
    <3>3. CASE BatchTooLate(s)
      BY <3>2, <3>3, LockIsLate
    <3>4. CASE BatchLive(s)
      BY <3>2, <3>4, LockPlans
    <3>5. CASE BatchRefused(s)
      BY <3>2, <3>5, LockRefuses
    <3>6. CASE BatchReplayed(s)
      BY <3>2, <3>6, LockReplays
    <3>7. CASE StepAwaiting(s)
      BY <3>2, <3>7, LockAwaits
    <3>8. CASE StepDone(s) \/ StepFailed(s)
      BY <3>2, <3>8, LockIsOver
    <3>9. QED
      BY <3>1, <3>3, <3>4, <3>5, <3>6, <3>7, <3>8
  <2>3. CASE AppendEvent
    BY <2>3, LockAppends
  <2>4. CASE AppendLost \/ ReceiptLost
    BY <2>4, LockLoses
  <2>5. CASE Receive
    BY <2>5, LockReceives
  <2>6. CASE Collected
    BY <2>6, LockCollects
  <2>7. CASE Drained
    BY <2>7, LockDrains
  <2>8. CASE Exit
    BY <2>8, LockGone DEF Exit
  <2>9. QED
    BY <1>3, <2>1, <2>2, <2>3, <2>4, <2>5, <2>6, <2>7, <2>8 DEF Drive
<1>4. CASE StartChild \/ NotificationMissed
  BY <1>4, LockQuiet, LockMissed DEF StartChild, driveVars
<1>5. CASE \E id \in running : FinishChild(id)
  BY <1>5, LockQuiet DEF FinishChild, driveVars
<1>6. CASE Deadline
  BY <1>6, LockQuiet DEF Deadline, driveVars
<1>7. CASE Watchdog
  <2>1. CASE WatchdogFires
    BY <2>1, LockQuiet DEF WatchdogFires, driveVars
  <2>2. CASE WatchdogRecords
    <3> DEFINE e == Ended("watchdog_kill")
    <3>1. e \in Event /\ e.type # "spawned" /\ ~IsOutcome(e)
      BY EventsAre DEF Outcomes, IsOutcome
    <3>2. journal' = journal \/ journal' = Append(journal, e)
      BY <2>2 DEF WatchdogRecords
    <3> HIDE DEF e
    <3>3. UNCHANGED <<script, pc, replay, engine, results, todo, queued, wait, refused, torn>>
      BY <2>2 DEF WatchdogRecords, driveVars
    <3>4. QED
      BY <3>1, <3>2, <3>3, LockQuiet
  <2>3. CASE WatchdogExits
    BY <2>3, LockGone DEF WatchdogExits
  <2>4. QED
    BY <1>7, <2>1, <2>2, <2>3 DEF Watchdog
<1>8. CASE Crash
  BY <1>8, LockGone DEF Crash
<1>9. CASE UNCHANGED vars
  BY <1>9, LockQuiet DEF vars, driveVars
<1>10. QED
  BY <1>1, <1>2, <1>3, <1>4, <1>5, <1>6, <1>7, <1>8, <1>9 DEF Next

\* Whatever the order its outcomes came in, and however many sessions it took,
\* a log in which every batch was announced with the earlier ones settled
\* replays to its end, unless a session died between two announcements.
THEOREM LockstepHolds == Spec => []LockstepResumes
<1>1. Init => LockInv
  BY LockStarts
<1>2. DriveInv /\ DriveInv' /\ LockInv /\ [Next]_vars => LockInv'
  BY LockNext
<1>3. LockInv => LockstepResumes
  BY DEF LockInv, Lockstep, LockstepResumes
<1>4. QED
  BY <1>1, <1>2, <1>3, Invariant, PTL DEF Spec

\* A resume is refused for a cause the journal shows, and leaves the journal as
\* it was.
THEOREM RefusalsHold == Spec => []RefusalsAreClean
<1>1. LockstepResumes /\ RefusalAppendsNothing => RefusalsAreClean
  BY DEF RefusalsAreClean
<1>2. QED
  BY <1>1, LockstepHolds, RefusalHolds, PTL

-----------------------------------------------------------------------------
(* No idle steps                                                           *)

\* The loop steps the engine to start it or to tell it something, and does not
\* leave a wait with nothing to tell.
Fuelled ==
    /\ pc = "step" => results # <<>> \/ engine = NewEngine
    /\ pc \in {"collect", "await"} /\ wait = 0 => results # <<>>

\* Somebody is out, so somebody is waited for.
LEMMA WaitsForSome ==
  ASSUME NEW n \in Nat, n # 0
  PROVE  Min({1, n}) # 0
<1>1. 1 \in {1, n} /\ \A y \in {1, n} : 1 <= y
  OBVIOUS
<1>2. Min({1, n}) \in {1, n}
  BY <1>1 DEF Min
<1>3. QED
  BY <1>2

\* While the engine only awaits, a child is out.
LEMMA FuelAwaits ==
  ASSUME DriveInv, DriveInv', pc = "step", NEW s, s = Step(script, engine, results), StepAwaiting(s)
  PROVE  Fuelled'
<1>1. /\ results' = <<>> /\ pc' = "await" /\ wait' = Min({1, outstanding}) /\ outstanding' = outstanding
      /\ todo' = todo /\ queued' = queued
  BY DEF StepAwaiting, Drives
<1>2. todo = <<>> /\ queued = <<>> /\ outstanding \in Nat
  BY StepStarts
<1>3. Awaiting(engine') # {} /\ Awaiting(engine') \subseteq Placed'
  BY <1>1 DEF DriveInv, Control, Complete
<1>4. Placed' = Out'
  BY <1>1, <1>2, Empties DEF Placed
<1>5. Out' # {}
  BY <1>3, <1>4
<1>6. outstanding' = 0 => Out' = {}
  <2> SUFFICES ASSUME outstanding' = 0
               PROVE  Out' = {}
    OBVIOUS
  <2>1. /\ queue' \in Seq(Nat) /\ IsFiniteSet(running') /\ channel' \in Seq([id : Nat, ok : BOOLEAN])
        /\ outstanding' = Len(queue') + Cardinality(running') + Len(channel')
    BY DEF DriveInv, Types, Placement
  <2>2. Len(queue') = 0 /\ Cardinality(running') = 0 /\ Len(channel') = 0
    BY <2>1, FS_CardinalityType
  <2>3. queue' = <<>> /\ running' = {} /\ channel' = <<>>
    BY <2>1, <2>2, FS_EmptySet
  <2>4. QED
    BY <1>1, <1>2, <2>3, Empties DEF Out
<1>7. QED
  BY <1>1, <1>2, <1>5, <1>6, WaitsForSome DEF Fuelled

\* A batch the replay answers in full is answered with something.
LEMMA FuelReplays ==
  ASSUME DriveInv, pc = "step", NEW s, s = Step(script, engine, results), BatchReplayed(s)
  PROVE  Fuelled'
<1> DEFINE ids == NewIds(s)
           known == DOMAIN replay.steps
           done == {id \in ids \cap known : replay.steps[id].at > 0}
           live == ids \ done
<1>1. /\ NewBatch(s) /\ replay.active /\ results' = Fed(done)
      /\ \/ live = {} /\ pc' = "collect"
         \/ live # {} /\ pc' = "append"
  BY DEF BatchReplayed
<1>2. CASE pc' = "append"
  BY <1>2 DEF Fuelled
<1>3. CASE live = {}
  <2>1. ids # {} /\ ids \subseteq Nat /\ IsFiniteSet(ids)
    BY <1>1, StepKinds, BatchStarts DEF NewBatch
  <2>2. done # {} /\ done \subseteq ids /\ done \in SUBSET known
    BY <1>3, <2>1
  <2>3. IsFiniteSet(done) /\ done \subseteq Nat /\ \A id \in done : replay.steps[id].at > 0
    BY <2>1, <2>2, FS_Subset
  <2> HIDE DEF done
  <2>4. Ids(results') = done
    BY <1>1, <2>2, <2>3, ReplayFeeds
  <2>5. results' # <<>>
    BY <2>2, <2>4, Empties
  <2>6. QED
    BY <1>1, <1>3, <2>5 DEF Fuelled
<1>4. QED
  BY <1>1, <1>2, <1>3

\* Behind the last announcement of a batch the loop waits for a child; behind
\* the opening of the log the engine is new.
LEMMA FuelAppends ==
  ASSUME DriveInv, AppendEvent
  PROVE  Fuelled'
<1>1. /\ pc = "append" /\ todo # <<>> /\ todo \in Seq(Event) /\ Head(todo) = todo[1] /\ 1 \in 1..Len(todo)
      /\ Len(todo) \in Nat /\ engine' = engine
      /\ Len(todo) # 1 => pc' = "append"
  BY AppendIs, Tailed
<1>2. SUFFICES ASSUME Len(todo) = 1
               PROVE  Fuelled'
  BY <1>1 DEF Fuelled
<1>3. CASE Opening
  <2>1. todo = <<Started>> /\ engine = NewEngine
    BY <1>3 DEF Opening
  <2>2. Head(todo) = Started /\ Started.type = "started"
    BY <2>1, EventsAre
  <2>3. pc' = "step"
    BY <1>2, <2>2 DEF AppendEvent
  <2>4. QED
    BY <1>1, <2>1, <2>3 DEF Fuelled
<1>4. CASE Head(todo).type = "spawned"
  <2> DEFINE ready == Append(queued, Head(todo).id)
  <2>1. pc' = "collect" /\ wait' = Min({1, outstanding'}) /\ outstanding' = outstanding + Len(ready)
    BY <1>2, <1>4, AppendIs
  <2>2. outstanding \in Nat /\ queued \in Seq(Nat)
    BY DEF DriveInv, Types, TypeOK
  <2>3. Head(todo).id \in Nat
    BY <1>1, <1>4, EventFields
  <2>4. Len(ready) \in Nat /\ Len(ready) # 0
    BY <2>2, <2>3
  <2> HIDE DEF ready
  <2>5. outstanding' \in Nat /\ outstanding' # 0
    BY <2>1, <2>2, <2>4
  <2>6. QED
    BY <2>1, <2>5, WaitsForSome DEF Fuelled
<1>5. CASE Announcing
  BY <1>1, <1>2, <1>4, <1>5 DEF Announcing
<1>6. CASE Concluding
  <2>1. PICK o \in Verdicts : todo \in {<<Ended(o)>>, <<Resumed, Ended(o)>>}
    BY <1>6 DEF Concluding
  <2> DEFINE e == Ended(o)
  <2>2. e.type = "ended"
    BY EventsAre DEF Verdicts
  <2> HIDE DEF e
  <2>3. todo = <<e>>
    BY <1>2, <2>1 DEF e
  <2>4. Head(todo) = e
    BY <2>3
  <2>5. pc' = "join"
    BY <1>2, <2>2, <2>4 DEF AppendEvent
  <2>6. QED
    BY <2>5 DEF Fuelled
<1>7. QED
  BY <1>1, <1>3, <1>5, <1>6 DEF DriveInv, Control

\* What leaves the loop where it is, and every end of a session.
LEMMA FuelKept ==
  ASSUME Fuelled, UNCHANGED <<pc, wait, results, engine>> \/ pc' \notin {"step", "collect", "await"}
  PROVE  Fuelled'
  BY DEF Fuelled

\* Every step leaves the loop something to tell.
LEMMA FuelNext ==
  ASSUME DriveInv, DriveInv', Fuelled, [Next]_vars
  PROVE  Fuelled'
<1>1. CASE Begin
  BY <1>1, FuelKept DEF Begin
<1>2. CASE Resume
  <2>1. pc' = "step" /\ pc = "off" /\ engine' = engine
    BY <1>2 DEF Resume
  <2>2. engine = NewEngine
    BY <2>1 DEF DriveInv, Control
  <2>3. QED
    BY <2>1, <2>2 DEF Fuelled
<1>3. CASE CapBreached
  BY <1>3, FuelKept DEF CapBreached, EndWith
<1>4. CASE StepEngine
  <2>1. PICK s \in {Step(script, engine, results)} :
          \/ BatchTooLate(s) \/ BatchLive(s) \/ BatchRefused(s) \/ BatchReplayed(s)
          \/ StepAwaiting(s) \/ StepDone(s) \/ StepFailed(s)
    BY <1>4 DEF StepEngine
  <2>2. pc = "step" /\ s = Step(script, engine, results)
    BY <1>4 DEF StepEngine
  <2>3. CASE BatchTooLate(s) \/ BatchLive(s) \/ BatchRefused(s) \/ StepDone(s) \/ StepFailed(s)
    BY <2>3, FuelKept DEF BatchTooLate, EndWith, BatchLive, BatchRefused, Refuse, StepDone, StepFailed
  <2>4. QED
    BY <2>1, <2>2, <2>3, FuelReplays, FuelAwaits
<1>5. CASE AppendEvent
  BY <1>5, FuelAppends
<1>6. CASE AppendLost \/ ReceiptLost
  BY <1>6, FuelKept DEF AppendLost, ReceiptLost, AppendFails
<1>7. CASE Receive
  <2> DEFINE fed == [id |-> Head(channel).id, value |-> IF Head(channel).ok THEN session ELSE Null]
  <2>1. pc' = pc /\ pc \in {"collect", "await", "drain"} /\ results' = Append(results, fed)
    BY <1>7 DEF Receive
  <2>2. results \in Seq(Result)
    BY DEF DriveInv, Types
  <2> HIDE DEF fed
  <2>3. results' # <<>>
    BY <2>1, <2>2
  <2>4. QED
    BY <2>1, <2>3 DEF Fuelled
<1>8. CASE Collected
  BY <1>8 DEF Collected, EndWith, Fuelled
<1>9. CASE Drained
  BY <1>9, FuelKept DEF Drained, Refuse
<1>10. CASE Exit \/ Crash \/ WatchdogExits
  BY <1>10, FuelKept DEF Exit, Crash, WatchdogExits, Gone
<1>11. CASE StartChild \/ (\E id \in running : FinishChild(id)) \/ Deadline
            \/ NotificationMissed \/ WatchdogFires \/ WatchdogRecords \/ UNCHANGED vars
  BY <1>11, FuelKept DEF StartChild, FinishChild, Deadline, NotificationMissed, WatchdogFires,
                         WatchdogRecords, vars, driveVars
<1>12. QED
  BY <1>1, <1>2, <1>3, <1>4, <1>5, <1>6, <1>7, <1>8, <1>9, <1>10, <1>11 DEF Next, Drive, Watchdog

\* The loop never steps the engine with nothing to tell it, but to start it.
THEOREM FuelTheorem == Spec => []Fuelled
<1>1. Init => Fuelled
  BY DEF Init, Fuelled
<1>2. DriveInv /\ DriveInv' /\ Fuelled /\ [Next]_vars => Fuelled'
  BY FuelNext
<1>3. QED
  BY <1>1, <1>2, Invariant, PTL DEF Spec

\* The calls the script has heard of.
Heard == {c \in Calls : engine.status[c] = "settled"}

\* A step of the engine that has started tells the script of calls it had not
\* heard of, and takes back none.
StepsAdvance == [][StepEngine => engine = NewEngine \/ (Heard \subseteq Heard' /\ Heard # Heard')]_vars

\* What the engine is fed answers requests it awaits.
LEMMA StepAdvances ==
  ASSUME DriveInv, Fuelled, StepEngine, engine # NewEngine
  PROVE  Heard \subseteq Heard' /\ Heard # Heard'
<1>1. PICK s : /\ s = Step(script, engine, results) /\ pc = "step"
               /\ \/ BatchTooLate(s) \/ BatchLive(s) \/ BatchRefused(s) \/ BatchReplayed(s)
                  \/ StepAwaiting(s) \/ StepDone(s) \/ StepFailed(s)
  BY DEF StepEngine
<1>2. engine' = s.engine
  BY <1>1 DEF BatchTooLate, BatchLive, BatchRefused, BatchReplayed, NewBatch, StepAwaiting, StepDone,
              StepFailed, Drives
<1>3. /\ Answered(engine, results, Len(results), engine') /\ Answerable(engine, results)
      /\ engine \in Engine /\ results \in Seq(Result) /\ engine' \in Engine
  BY <1>1, <1>2, StepMoves, StepStarts
<1>4. results # <<>>
  BY <1>1 DEF Fuelled
<1>5. \A i \in 1..Len(results) : LET c == engine.issued[results[i].id]
                                 IN  c \in Calls /\ engine.status[c] = "awaited" /\ engine'.status[c] = "settled"
  <2> SUFFICES ASSUME NEW i \in 1..Len(results)
               PROVE  LET c == engine.issued[results[i].id]
                      IN  c \in Calls /\ engine.status[c] = "awaited" /\ engine'.status[c] = "settled"
    OBVIOUS
  <2>1. results[i].id \in 1..Len(engine.issued) /\ engine.status[engine.issued[results[i].id]] = "awaited"
    BY <1>3 DEF Answerable, Awaiting
  <2>2. engine'.status[engine.issued[results[i].id]] = "settled"
    BY <1>3 DEF Answered
  <2>3. engine.issued[results[i].id] \in Calls
    BY <1>3, <2>1 DEF Engine
  <2>4. QED
    BY <2>1, <2>2, <2>3
<1>6. ASSUME NEW c \in Calls, engine.status[c] = "settled"
      PROVE  engine'.status[c] = "settled"
  <2>1. \A i \in 1..Len(results) : c # engine.issued[results[i].id]
    BY <1>5, <1>6
  <2>2. QED
    BY <1>3, <1>6, <2>1 DEF Answered
<1>7. 1 \in 1..Len(results)
  BY <1>3, <1>4
<1>8. QED
  BY <1>5, <1>6, <1>7 DEF Heard

\* The drive loop never spins: a session steps the engine at most once more
\* than the ceiling allows calls.
THEOREM AdvanceTheorem == Spec => StepsAdvance
<1>1. DriveInv /\ Fuelled /\ [Next]_vars
        => [StepEngine => engine = NewEngine \/ (Heard \subseteq Heard' /\ Heard # Heard')]_vars
  BY StepAdvances
<1>2. QED
  BY <1>1, Invariant, FuelTheorem, PTL DEF Spec, StepsAdvance
=============================================================================
