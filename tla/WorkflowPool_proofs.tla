------------------------ MODULE WorkflowPool_proofs -------------------------
(***************************************************************************)
(* Theorems about the worker pool, for any number of workers and children. *)
(***************************************************************************)
EXTENDS WorkflowPool, FiniteSetTheorems, TLAPS

Working == {"gate", "child", "send"}

\* A worker holds a child exactly between its look at the queue and its report.
Holding ==
    \A w \in Workers : IF pc[w] \in Working THEN item[w] \in Children ELSE item[w] = Nobody

TypeInv == TypeOK /\ Holding

LEMMA InitTypeInv == Init => TypeInv
<1> SUFFICES ASSUME Init PROVE TypeInv
  OBVIOUS
<1>1. queue \in Seq(Children)
  BY DEF Init
<1>2. asleep = {w \in Workers : pc[w] = "asleep"}
  BY DEF Init
<1>3. Holding
  BY DEF Init, Holding, Working
<1>4. QED
  BY <1>1, <1>2, <1>3 DEF Init, TypeInv, TypeOK

\* Every step of the drive thread and of a worker keeps the types.
LEMMA NextTypeInv == TypeInv /\ [Next]_vars => TypeInv'
<1> SUFFICES ASSUME TypeInv, [Next]_vars PROVE TypeInv'
  OBVIOUS
<1> USE PoolAssumption DEF TypeInv, TypeOK, Holding, Working, Goes, lockVars
<1>1. ASSUME NEW c \in Children, Enqueue(c) PROVE TypeInv'
  BY <1>1 DEF Enqueue
<1>2. CASE NotifyOne
  BY <1>2 DEF NotifyOne
<1>3. CASE StoreShutdown
  BY <1>3 DEF StoreShutdown
<1>4. CASE NotifyAll
  BY <1>4 DEF NotifyAll
<1>5. CASE Join
  BY <1>5 DEF Join
<1>6. ASSUME NEW w \in Workers, Lock(w) PROVE TypeInv'
  BY <1>6 DEF Lock
<1>7. ASSUME NEW w \in Workers, Retire(w) PROVE TypeInv'
  BY <1>7 DEF Retire
<1>14. ASSUME NEW w \in Workers, Take(w) PROVE TypeInv'
  <2>1. Head(queue) \in Children /\ Tail(queue) \in Seq(Children)
    BY <1>14 DEF Take
  <2>2. QED
    BY <1>14, <2>1 DEF Take
<1>15. ASSUME NEW w \in Workers, FindNothing(w) PROVE TypeInv'
  BY <1>15 DEF FindNothing
<1>8. ASSUME NEW w \in Workers, Sleep(w) PROVE TypeInv'
  BY <1>8 DEF Sleep
<1>9. ASSUME NEW w \in Workers, SpuriousWake(w) PROVE TypeInv'
  BY <1>9 DEF SpuriousWake
<1>10. ASSUME NEW w \in Workers, Enter(w) PROVE TypeInv'
  BY <1>10 DEF Enter
<1>11. ASSUME NEW w \in Workers, Finish(w) PROVE TypeInv'
  BY <1>11 DEF Finish
<1>12. ASSUME NEW w \in Workers, Send(w) PROVE TypeInv'
  BY <1>12 DEF Send
<1>13. CASE UNCHANGED vars
  BY <1>13 DEF vars
<1>16. QED
  BY <1>1, <1>2, <1>3, <1>4, <1>5, <1>6, <1>7, <1>8, <1>9, <1>10, <1>11, <1>12, <1>13, <1>14, <1>15
     DEF Next, Works

\* The pool's variables keep their types, and the wait set of the condition
\* variable is exactly the workers that sleep on it.
THEOREM TypeCorrect == Spec => []TypeOK
<1>1. TypeInv => TypeOK
  BY DEF TypeInv
<1>2. QED
  BY <1>1, InitTypeInv, NextTypeInv, PTL DEF Spec

-----------------------------------------------------------------------------
(* The project lock                                                        *)

\* Who is in a child holds the project lock the way that child needs it, and
\* a writer holds it without readers.
ProjectLock ==
    /\ \A w \in Workers : pc[w] = "child" /\ item[w] \in Serial => writer = w
    /\ \A w \in Workers : pc[w] = "child" /\ item[w] \notin Serial => w \in readers
    /\ \A w \in readers : pc[w] = "child" /\ item[w] \notin Serial
    /\ writer # Nobody => readers = {} /\ pc[writer] = "child"

LEMMA InitProjectLock == Init => ProjectLock
  BY DEF Init, ProjectLock

LEMMA NextProjectLock == TypeInv /\ ProjectLock /\ [Next]_vars => ProjectLock'
<1> SUFFICES ASSUME TypeInv, ProjectLock, [Next]_vars PROVE ProjectLock'
  OBVIOUS
<1> USE PoolAssumption DEF TypeInv, TypeOK, Holding, Working, ProjectLock, Goes, lockVars
<1>1. ASSUME NEW c \in Children, Enqueue(c) PROVE ProjectLock'
  BY <1>1 DEF Enqueue
<1>2. CASE NotifyOne
  BY <1>2 DEF NotifyOne
<1>3. CASE StoreShutdown
  BY <1>3 DEF StoreShutdown
<1>4. CASE NotifyAll
  BY <1>4 DEF NotifyAll
<1>5. CASE Join
  BY <1>5 DEF Join
<1>6. ASSUME NEW w \in Workers, Lock(w) PROVE ProjectLock'
  BY <1>6 DEF Lock
<1>7. ASSUME NEW w \in Workers, Retire(w) PROVE ProjectLock'
  BY <1>7 DEF Retire
<1>14. ASSUME NEW w \in Workers, Take(w) PROVE ProjectLock'
  BY <1>14 DEF Take
<1>15. ASSUME NEW w \in Workers, FindNothing(w) PROVE ProjectLock'
  BY <1>15 DEF FindNothing
<1>8. ASSUME NEW w \in Workers, Sleep(w) PROVE ProjectLock'
  BY <1>8 DEF Sleep
<1>9. ASSUME NEW w \in Workers, SpuriousWake(w) PROVE ProjectLock'
  BY <1>9 DEF SpuriousWake
<1>10. ASSUME NEW w \in Workers, Enter(w) PROVE ProjectLock'
  BY <1>10 DEF Enter
<1>11. ASSUME NEW w \in Workers, Finish(w) PROVE ProjectLock'
  BY <1>11 DEF Finish
<1>12. ASSUME NEW w \in Workers, Send(w) PROVE ProjectLock'
  BY <1>12 DEF Send
<1>13. CASE UNCHANGED vars
  BY <1>13 DEF vars
<1>16. QED
  BY <1>1, <1>2, <1>3, <1>4, <1>5, <1>6, <1>7, <1>8, <1>9, <1>10, <1>11, <1>12, <1>13, <1>14, <1>15
     DEF Next, Works

\* A child that swaps the project's configuration has the project to itself:
\* no other worker is in a child, exclusive or shared.
THEOREM SwapsRunAlone == Spec => []SwapAlone
<1>1. TypeInv /\ ProjectLock => SwapAlone
  BY PoolAssumption DEF TypeInv, TypeOK, ProjectLock, SwapAlone
<1>2. Init => TypeInv /\ ProjectLock
  BY InitTypeInv, InitProjectLock
<1>3. TypeInv /\ ProjectLock /\ [Next]_vars => (TypeInv /\ ProjectLock)'
  BY NextTypeInv, NextProjectLock
<1>4. QED
  BY <1>1, <1>2, <1>3, PTL DEF Spec

-----------------------------------------------------------------------------
(* Refinement of WorkflowChildren                                          *)

\* A child is in one place: queued once, with one worker, or reported.
OnePlace ==
    /\ \A i, j \in 1..Len(queue) : queue[i] = queue[j] => i = j
    /\ \A i \in 1..Len(queue) : queue[i] \notin Taken \cup reported
    /\ \A v, w \in Workers : item[v] = item[w] /\ item[v] # Nobody => v = w
    /\ Taken \cap reported = {}

LEMMA InitOnePlace == Init => OnePlace
  BY DEF Init, OnePlace, Taken

LEMMA NextOnePlace == TypeInv /\ OnePlace /\ [Next]_vars => OnePlace'
<1> SUFFICES ASSUME TypeInv, OnePlace, [Next]_vars PROVE OnePlace'
  OBVIOUS
<1> USE PoolAssumption DEF TypeInv, TypeOK, Holding, Working, OnePlace, Taken, Goes, lockVars
<1>1. ASSUME NEW c \in Children, Enqueue(c) PROVE OnePlace'
  BY <1>1 DEF Enqueue
<1>2. ASSUME NEW w \in Workers, Take(w) PROVE OnePlace'
  <2>1. queue # <<>> /\ queue' = Tail(queue) /\ reported' = reported
    BY <1>2 DEF Take
  <2>2. \A v \in Workers : item'[v] = IF v = w THEN queue[1] ELSE item[v]
    BY <1>2 DEF Take
  <2>3. Len(queue') = Len(queue) - 1 /\ \A i \in 1..Len(queue') : queue'[i] = queue[i + 1]
    BY <2>1
  <2>4. queue[1] \notin Taken \cup reported /\ \A i \in 1..Len(queue') : queue'[i] # queue[1]
    BY <2>1, <2>3
  <2>5. Taken' \subseteq Taken \cup {queue[1]}
    BY <2>2
  <2>6. \A i, j \in 1..Len(queue') : queue'[i] = queue'[j] => i = j
    BY <2>1, <2>3
  <2>7. ASSUME NEW i \in 1..Len(queue') PROVE queue'[i] \notin Taken' \cup reported'
    <3>1. queue'[i] = queue[i + 1] /\ i + 1 \in 1..Len(queue)
      BY <2>1, <2>3
    <3>2. queue[i + 1] \notin Taken \cup reported
      BY <3>1
    <3>3. QED
      BY <2>1, <2>4, <2>5, <3>1, <3>2
  <2>8. \A v, x \in Workers : item'[v] = item'[x] /\ item'[v] # Nobody => v = x
    BY <2>2, <2>4
  <2>9. Taken' \cap reported' = {}
    <3>1. Taken \cap reported = {} /\ queue[1] \notin reported /\ reported' = reported
      BY <2>1, <2>4
    <3>2. Taken' \subseteq Taken \cup {queue[1]}
      BY <2>5
    <3> HIDE DEF TypeInv, TypeOK, Holding, OnePlace, Taken
    <3>3. QED
      BY <3>1, <3>2
  <2>10. QED
    BY <2>6, <2>7, <2>8, <2>9
<1>3. ASSUME NEW w \in Workers, Send(w) PROVE OnePlace'
  BY <1>3 DEF Send
<1>4. CASE UNCHANGED <<queue, item, reported>>
  BY <1>4
<1>5. QED
  BY <1>1, <1>2, <1>3, <1>4
     DEF Next, Works, vars, NotifyOne, StoreShutdown, NotifyAll, Join, Lock, Retire,
         FindNothing, Sleep, SpuriousWake, Enter, Finish

\* A worker with no child leaves a slot free for one.
LEMMA SlotFree ==
    ASSUME TypeInv, NEW w \in Workers, item[w] = Nobody
    PROVE  Cardinality(Taken) < Cardinality(Workers)
<1> DEFINE others == Workers \ {w}
           busy == {v \in others : item[v] # Nobody}
           f == [v \in busy |-> item[v]]
<1>1. IsFiniteSet(others) /\ Cardinality(others) = Cardinality(Workers) - 1
  BY PoolAssumption, FS_RemoveElement
<1>2. IsFiniteSet(busy) /\ Cardinality(busy) <= Cardinality(others)
  BY <1>1, FS_Subset
<1>3. f \in Surjection(busy, Taken)
  BY DEF Surjection, Taken
<1>4. IsFiniteSet(Taken) /\ Cardinality(Taken) <= Cardinality(busy)
  BY <1>2, <1>3, FS_Surjection
<1>5. Cardinality(Taken) \in Nat /\ Cardinality(busy) \in Nat /\ Cardinality(Workers) \in Nat
  BY <1>2, <1>4, PoolAssumption, FS_CardinalityType
<1>6. QED
  BY <1>1, <1>2, <1>4, <1>5

LEMMA NextImplements ==
    ASSUME TypeInv, OnePlace, [Next]_vars
    PROVE  [Pool!ChildrenNext]_(Pool!childVars)
<1> USE DEF Pool!ChildrenNext, Pool!childVars
<1>1. ASSUME NEW c \in Children, Enqueue(c) PROVE Pool!Enqueue(c)
  BY <1>1 DEF Enqueue, Pool!Enqueue, Taken
<1>2. ASSUME NEW w \in Workers, Take(w) PROVE Pool!Start
  <2>1. item[w] = Nobody
    BY <1>2 DEF Take, TypeInv, Holding, Working
  <2>2. Cardinality(Taken) < Cardinality(Workers)
    BY <2>1, SlotFree
  <2>3. Taken' = Taken \cup {Head(queue)}
    <3>1. Head(queue) # Nobody
      BY <1>2, PoolAssumption DEF Take, TypeInv, TypeOK
    <3>2. \A v \in Workers : item'[v] = IF v = w THEN Head(queue) ELSE item[v]
      BY <1>2 DEF Take, TypeInv, TypeOK
    <3>3. QED
      BY <2>1, <3>1, <3>2 DEF Taken
  <2>4. queue # <<>> /\ queue' = Tail(queue) /\ reported' = reported
    BY <1>2 DEF Take
  <2>5. QED
    BY <2>2, <2>3, <2>4 DEF Pool!Start, Pool!Cardinality, Cardinality
<1>3. ASSUME NEW w \in Workers, Send(w) PROVE \E c \in Children : Pool!Report(c)
  <2>1. item[w] \in Children /\ item[w] # Nobody
    BY <1>3, PoolAssumption DEF Send, TypeInv, Holding, Working
  <2>2. Taken' = Taken \ {item[w]}
    <3>1. \A v \in Workers : item'[v] = IF v = w THEN Nobody ELSE item[v]
      BY <1>3 DEF Send, TypeInv, TypeOK
    <3>2. \A v \in Workers : item[v] = item[w] => v = w
      BY <2>1 DEF OnePlace
    <3>3. QED
      BY <3>1, <3>2 DEF Taken
  <2>3. item[w] \in Taken
    BY <2>1 DEF Taken
  <2>4. Pool!Report(item[w])
    BY <1>3, <2>2, <2>3 DEF Send, Pool!Report
  <2>5. QED
    BY <2>1, <2>4
<1>4. CASE UNCHANGED <<queue, item, reported>>
  BY <1>4 DEF Taken
<1>5. QED
  BY <1>1, <1>2, <1>3, <1>4
     DEF Next, Works, vars, lockVars, NotifyOne, StoreShutdown, NotifyAll, Join, Lock, Retire,
         FindNothing, Sleep, SpuriousWake, Enter, Finish

\* The drive loop may count on its pool: children start in the order they were
\* queued, never more of them than there are workers, each once, and each that
\* started reports once.
THEOREM PoolImplementsChildren == Spec => ImplementsChildren
<1>1. Init => Pool!ChildrenInit
  BY DEF Init, Pool!ChildrenInit, Taken
<1>2. Init => TypeInv /\ OnePlace
  BY InitTypeInv, InitOnePlace
<1>3. TypeInv /\ OnePlace /\ [Next]_vars => (TypeInv /\ OnePlace)'
  BY NextTypeInv, NextOnePlace
<1>4. TypeInv /\ OnePlace /\ [Next]_vars => [Pool!ChildrenNext]_(Pool!childVars)
  BY NextImplements
<1>5. QED
  BY <1>1, <1>2, <1>3, <1>4, PTL DEF Spec, ImplementsChildren, Pool!ChildrenSpec

-----------------------------------------------------------------------------
(* Wake-ups                                                                *)

\* Workers on their way to look at the queue.
Coming == {w \in Workers : pc[w] \in {"lock", "check"}}

\* A notification the drive thread still owes.
Due == IF drive = "queued" THEN 1 ELSE 0

\* No wake-up is lost: while a worker sleeps, each queued child has a worker
\* that is coming for it, or a notification that is.
NobodyOversleeps == asleep # {} /\ ~shutdown => Len(queue) <= Cardinality(Coming) + Due

\* The mutex is held from the look at the queue to the wait, so a worker about
\* to wait has seen the queue as it is.
MutexHeld ==
    /\ \A w \in Workers : mutex = w <=> pc[w] \in {"check", "sleep"}
    /\ \A w \in Workers : pc[w] = "sleep" => queue = <<>>
    /\ \A w \in Workers : pc[w] = "gone" => shutdown

LEMMA InitMutexHeld == Init => MutexHeld
  BY PoolAssumption DEF Init, MutexHeld

LEMMA NextMutexHeld == TypeInv /\ MutexHeld /\ [Next]_vars => MutexHeld'
<1> SUFFICES ASSUME TypeInv, MutexHeld, [Next]_vars PROVE MutexHeld'
  OBVIOUS
<1> USE PoolAssumption DEF TypeInv, TypeOK, MutexHeld, Goes, lockVars
<1>1. ASSUME NEW c \in Children, Enqueue(c) PROVE MutexHeld'
  BY <1>1 DEF Enqueue
<1>2. CASE NotifyOne
  BY <1>2 DEF NotifyOne
<1>3. CASE StoreShutdown
  BY <1>3 DEF StoreShutdown
<1>4. CASE NotifyAll
  BY <1>4 DEF NotifyAll
<1>5. CASE Join
  BY <1>5 DEF Join
<1>6. ASSUME NEW w \in Workers, Lock(w) PROVE MutexHeld'
  BY <1>6 DEF Lock
<1>7. ASSUME NEW w \in Workers, Retire(w) PROVE MutexHeld'
  BY <1>7 DEF Retire
<1>8. ASSUME NEW w \in Workers, Take(w) PROVE MutexHeld'
  BY <1>8 DEF Take
<1>9. ASSUME NEW w \in Workers, FindNothing(w) PROVE MutexHeld'
  BY <1>9 DEF FindNothing
<1>10. ASSUME NEW w \in Workers, Sleep(w) PROVE MutexHeld'
  BY <1>10 DEF Sleep
<1>11. ASSUME NEW w \in Workers, SpuriousWake(w) PROVE MutexHeld'
  BY <1>11 DEF SpuriousWake
<1>12. ASSUME NEW w \in Workers, Enter(w) PROVE MutexHeld'
  BY <1>12 DEF Enter
<1>13. ASSUME NEW w \in Workers, Finish(w) PROVE MutexHeld'
  BY <1>13 DEF Finish
<1>14. ASSUME NEW w \in Workers, Send(w) PROVE MutexHeld'
  BY <1>14 DEF Send
<1>15. CASE UNCHANGED vars
  BY <1>15 DEF vars
<1>16. QED
  BY <1>1, <1>2, <1>3, <1>4, <1>5, <1>6, <1>7, <1>8, <1>9, <1>10, <1>11, <1>12, <1>13, <1>14, <1>15
     DEF Next, Works

\* One worker joins or leaves those that are coming.
LEMMA Counted ==
  ASSUME NEW A, NEW B, IsFiniteSet(A), NEW w, w \notin A, B = A \cup {w}
  PROVE  Cardinality(A) \in Nat /\ Cardinality(B) = Cardinality(A) + 1 /\ IsFiniteSet(B)
  BY FS_AddElement, FS_CardinalityType

\* Every step leaves each queued child somebody who comes for it.
LEMMA NextWakes == TypeInv /\ MutexHeld /\ NobodyOversleeps /\ [Next]_vars => NobodyOversleeps'
<1> SUFFICES ASSUME TypeInv, MutexHeld, NobodyOversleeps, [Next]_vars, asleep' # {}, ~shutdown'
             PROVE  Len(queue') <= Cardinality(Coming') + Due'
  BY DEF NobodyOversleeps
<1> DEFINE Goal == Len(queue') <= Cardinality(Coming') + Due'
           n == Cardinality(Coming)
           m == Cardinality(Coming')
<1>1. /\ IsFiniteSet(Coming) /\ IsFiniteSet(Coming') /\ n \in Nat /\ m \in Nat
      /\ Len(queue) \in Nat /\ queue \in Seq(Children)
  <2>1. Coming \in SUBSET Workers /\ Coming' \in SUBSET Workers
    BY DEF Coming
  <2>2. IsFiniteSet(Coming) /\ IsFiniteSet(Coming')
    BY <2>1, PoolAssumption, FS_Subset
  <2>3. n \in Nat /\ m \in Nat
    BY <2>2, FS_CardinalityType
  <2>4. queue \in Seq(Children) /\ Len(queue) \in Nat
    BY DEF TypeInv, TypeOK
  <2>5. QED
    BY <2>2, <2>3, <2>4
<1>2. ASSUME UNCHANGED <<queue, drive, asleep, shutdown>>, Coming' = Coming
      PROVE  Goal
  BY <1>2 DEF NobodyOversleeps, Due
<1>3. ASSUME UNCHANGED <<queue, drive, shutdown>>, asleep # {},
             NEW w, w \notin Coming, Coming' = Coming \cup {w}
      PROVE  Goal
  <2>1. m = n + 1
    BY <1>1, <1>3, Counted
  <2>2. QED
    BY <1>1, <1>3, <2>1 DEF NobodyOversleeps, Due
<1>4. ASSUME queue' = <<>> PROVE Goal
  BY <1>1, <1>4 DEF Due
<1> HIDE DEF Goal, n, m
<1> USE DEF TypeInv, TypeOK, Goes, lockVars
<1>5. ASSUME NEW c \in Children, Enqueue(c) PROVE Goal
  <2>1. /\ Len(queue') = Len(queue) + 1 /\ Due = 0 /\ Due' = 1
        /\ Coming' = Coming /\ UNCHANGED <<asleep, shutdown>>
    BY <1>5, <1>1 DEF Enqueue, Due, Coming
  <2>2. QED
    BY <1>1, <2>1 DEF NobodyOversleeps, Goal, n
<1>6. CASE NotifyOne
  <2>1. CASE asleep = {}
    BY <1>6, <2>1 DEF NotifyOne
  <2>2. CASE asleep # {}
    <3>1. PICK w \in asleep : asleep' = asleep \ {w} /\ pc' = [pc EXCEPT ![w] = "lock"]
      BY <1>6, <2>2 DEF NotifyOne
    <3>2. w \notin Coming /\ Coming' = Coming \cup {w}
      BY <1>1, <3>1 DEF Coming
    <3>3. m = n + 1
      BY <1>1, <3>2, Counted DEF m, n
    <3>4. Due = 1 /\ Due' = 0 /\ UNCHANGED <<queue, shutdown>>
      BY <1>6 DEF NotifyOne, Due
    <3>5. QED
      BY <1>1, <2>2, <3>3, <3>4 DEF NobodyOversleeps, Goal, n, m
  <2>3. QED
    BY <2>1, <2>2
<1>7. CASE StoreShutdown
  BY <1>7 DEF StoreShutdown
<1>8. CASE NotifyAll
  BY <1>8 DEF NotifyAll
<1>9. CASE Join
  BY <1>2, <1>9 DEF Join, Coming, NobodyOversleeps, Due, Goal
<1>10. ASSUME NEW w \in Workers, Lock(w) PROVE Goal
  BY <1>1, <1>2, <1>10 DEF Lock, Coming
<1>11. ASSUME NEW w \in Workers, Retire(w) PROVE Goal
  BY <1>11 DEF Retire
<1>12. ASSUME NEW w \in Workers, Take(w) PROVE Goal
  <2>1. w \notin Coming' /\ Coming = Coming' \cup {w}
    BY <1>1, <1>12 DEF Take, Coming
  <2>2. n = m + 1
    BY <1>1, <2>1, Counted DEF m, n
  <2>3. Len(queue') = Len(queue) - 1 /\ UNCHANGED <<drive, asleep, shutdown>>
    BY <1>1, <1>12 DEF Take
  <2>4. QED
    BY <1>1, <2>2, <2>3 DEF NobodyOversleeps, Goal, Due, n, m
<1>13. ASSUME NEW w \in Workers, FindNothing(w) PROVE Goal
  BY <1>4, <1>13 DEF FindNothing
<1>14. ASSUME NEW w \in Workers, Sleep(w) PROVE Goal
  BY <1>4, <1>14 DEF Sleep, MutexHeld
<1>15. ASSUME NEW w \in Workers, SpuriousWake(w) PROVE Goal
  <2>1. w \notin Coming /\ Coming' = Coming \cup {w} /\ asleep # {} /\ UNCHANGED <<queue, drive, shutdown>>
    BY <1>1, <1>15 DEF SpuriousWake, Coming
  <2>2. QED
    BY <1>3, <2>1
<1>16. ASSUME NEW w \in Workers, Enter(w) PROVE Goal
  BY <1>1, <1>2, <1>16 DEF Enter, Coming
<1>17. ASSUME NEW w \in Workers, Finish(w) PROVE Goal
  BY <1>1, <1>2, <1>17 DEF Finish, Coming
<1>18. ASSUME NEW w \in Workers, Send(w) PROVE Goal
  <2>1. w \notin Coming /\ Coming' = Coming \cup {w} /\ asleep # {} /\ UNCHANGED <<queue, drive, shutdown>>
    BY <1>1, <1>18 DEF Send, Coming
  <2>2. QED
    BY <1>3, <2>1
<1>19. CASE UNCHANGED vars
  <2>1. UNCHANGED <<queue, drive, asleep, shutdown>> /\ Coming' = Coming
    BY <1>19 DEF vars, Coming
  <2>2. QED
    BY <1>2, <2>1 DEF Goal
<1>20. QED
  BY <1>5, <1>6, <1>7, <1>8, <1>9, <1>10, <1>11, <1>12, <1>13, <1>14, <1>15, <1>16, <1>17, <1>18, <1>19
     DEF Next, Works, Goal

\* No wake-up is lost between a worker's look at the queue and its sleep, nor
\* to a worker that was not asleep: a child never waits in the queue for a
\* worker that sleeps.
THEOREM WakeTheorem == Spec => []NobodyOversleeps
<1>1. Init => TypeInv /\ MutexHeld /\ NobodyOversleeps
  BY InitTypeInv, InitMutexHeld DEF Init, NobodyOversleeps
<1>2. TypeInv /\ MutexHeld /\ NobodyOversleeps /\ [Next]_vars => (TypeInv /\ MutexHeld /\ NobodyOversleeps)'
  BY NextTypeInv, NextMutexHeld, NextWakes
<1>3. QED
  BY <1>1, <1>2, PTL DEF Spec

\* A worker that need not wait for anybody.
CanWork(w) ==
    \/ pc[w] = "lock" /\ mutex = Nobody
    \/ pc[w] \in {"check", "sleep", "child", "send"}
    \/ pc[w] = "gate" /\ writer = Nobody /\ (item[w] \in Serial => readers = {})

\* While a child is queued or with a worker, some worker can go on, or is
\* about to be told to.
PoolCanGo ==
    Workers # {} /\ ~shutdown /\ (queue # <<>> \/ Taken # {}) =>
      drive = "queued" \/ \E w \in Workers : CanWork(w)

\* Neither the mutex nor the project lock nor the condition variable ever
\* leaves all workers waiting for one another while there is work.
THEOREM WorkTheorem == Spec => []PoolCanGo
<1>1. ASSUME TypeInv, ProjectLock, MutexHeld, NobodyOversleeps
      PROVE  PoolCanGo
  <2>1. SUFFICES ASSUME Workers # {}, ~shutdown, queue # <<>> \/ Taken # {}, drive # "queued",
                        \A w \in Workers : ~CanWork(w)
                 PROVE  FALSE
    BY DEF PoolCanGo
  <2>2. mutex = Nobody
    BY <1>1, <2>1 DEF TypeInv, TypeOK, MutexHeld, CanWork
  <2>3. writer = Nobody
    BY <1>1, <2>1 DEF TypeInv, TypeOK, ProjectLock, CanWork
  <2>4. readers = {}
    BY <1>1, <2>1 DEF TypeInv, TypeOK, ProjectLock, CanWork
  <2>5. \A w \in Workers : pc[w] = "asleep"
    BY <1>1, <2>1, <2>2, <2>3, <2>4 DEF TypeInv, TypeOK, MutexHeld, CanWork
  <2>6. Taken = {}
    BY <1>1, <2>5 DEF TypeInv, Holding, Working, Taken
  <2>7. Coming = {} /\ asleep # {}
    BY <1>1, <2>1, <2>5 DEF Coming, TypeInv, TypeOK
  <2>8. Len(queue) <= 0
    BY <1>1, <2>1, <2>7, FS_EmptySet DEF NobodyOversleeps, Due
  <2>9. queue = <<>>
    BY <1>1, <2>8 DEF TypeInv, TypeOK
  <2>10. QED
    BY <2>1, <2>6, <2>9
<1>2. Init => TypeInv /\ ProjectLock /\ MutexHeld
  BY InitTypeInv, InitProjectLock, InitMutexHeld
<1>3. TypeInv /\ ProjectLock /\ MutexHeld /\ [Next]_vars => (TypeInv /\ ProjectLock /\ MutexHeld)'
  BY NextTypeInv, NextProjectLock, NextMutexHeld
<1>4. QED
  BY <1>1, <1>2, <1>3, WakeTheorem, PTL DEF Spec
=============================================================================
