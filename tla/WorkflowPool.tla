---------------------------- MODULE WorkflowPool ----------------------------
(***************************************************************************)
(* The worker pool of crates/cli/src/commands/workflow.rs, one lock        *)
(* operation at a time: the drive thread queues children and finally drops *)
(* PoolGuard; each worker takes a child from the queue under a mutex or    *)
(* sleeps on a condition variable, runs it under the project lock, reports *)
(* it, and starts over.                                                    *)
(*                                                                         *)
(* A condition variable releases the mutex and goes to sleep in one step,  *)
(* which orders it with those who hold the mutex and with nobody else.     *)
(***************************************************************************)
EXTENDS Sequences, FiniteSets, Naturals

CONSTANTS
    Workers,    \* max_concurrent threads
    Children,   \* bound: children the drive loop may queue
    Serial,     \* those that swap the project's configuration
    Nobody      \* no worker, no child

ASSUME PoolAssumption ==
    /\ IsFiniteSet(Workers)
    /\ Serial \subseteq Children
    /\ Nobody \notin Workers \cup Children

VARIABLES
    queue,      \* Dispatch.queue
    mutex,      \* who holds its mutex across a step
    asleep,     \* waiters of Dispatch.ready
    shutdown,   \* Dispatch.shutdown
    readers,    \* Dispatch.project: shared holders
    writer,     \* Dispatch.project: the exclusive holder
    pc,         \* where each worker is
    item,       \* the child each worker has taken
    reported,   \* children sent to the drive loop
    drive       \* where the drive thread is, as far as the pool can tell

vars == <<queue, mutex, asleep, shutdown, readers, writer, pc, item, reported, drive>>
lockVars == <<readers, writer>>

TypeOK ==
    /\ queue \in Seq(Children)
    /\ mutex \in Workers \cup {Nobody}
    /\ asleep = {w \in Workers : pc[w] = "asleep"}
    /\ shutdown \in BOOLEAN
    /\ readers \subseteq Workers
    /\ writer \in Workers \cup {Nobody}
    /\ pc \in [Workers -> {"lock", "check", "sleep", "asleep", "gate", "child", "send", "gone"}]
    /\ item \in [Workers -> Children \cup {Nobody}]
    /\ reported \subseteq Children
    /\ drive \in {"loop", "queued", "stored", "join", "returned"}

Init ==
    /\ queue = <<>>
    /\ mutex = Nobody
    /\ asleep = {}
    /\ shutdown = FALSE
    /\ readers = {} /\ writer = Nobody
    /\ pc = [w \in Workers |-> "lock"]
    /\ item = [w \in Workers |-> Nobody]
    /\ reported = {}
    /\ drive = "loop"

Taken == {item[w] : w \in Workers} \ {Nobody}

Goes(w, where) == pc' = [pc EXCEPT ![w] = where]

-----------------------------------------------------------------------------
(* The drive thread                                                        *)

\* enqueue: one announced child, pushed under the mutex ...
Enqueue(c) ==
    /\ drive = "loop"
    /\ mutex = Nobody
    /\ c \notin Taken \cup reported /\ \A i \in 1..Len(queue) : queue[i] # c
    /\ queue' = Append(queue, c)
    /\ drive' = "queued"
    /\ UNCHANGED <<mutex, asleep, shutdown, lockVars, pc, item, reported>>

\* Mutant: the notification is left out.
NotifyNobody ==
    /\ drive = "queued"
    /\ drive' = "loop"
    /\ UNCHANGED <<queue, mutex, asleep, shutdown, lockVars, pc, item, reported>>

\* ... and one waiter, if there is one, told without it.
NotifyOne ==
    /\ drive = "queued"
    /\ drive' = "loop"
    /\ IF asleep = {} THEN UNCHANGED <<asleep, pc>>
       ELSE \E w \in asleep : asleep' = asleep \ {w} /\ Goes(w, "lock")
    /\ UNCHANGED <<queue, mutex, shutdown, lockVars, item, reported>>

\* PoolGuard::drop, on whatever path the loop leaves: the flag is stored and
\* the waiters are notified, both without the mutex, then every worker joined.
StoreShutdown ==
    /\ drive = "loop"
    /\ shutdown' = TRUE
    /\ drive' = "stored"
    /\ UNCHANGED <<queue, mutex, asleep, lockVars, pc, item, reported>>

\* Mutant: the waiters run and still count as waiting.
NotifyAllKeepsWaiters ==
    /\ drive = "stored"
    /\ drive' = "join"
    /\ pc' = [w \in Workers |-> IF w \in asleep THEN "lock" ELSE pc[w]]
    /\ UNCHANGED <<queue, mutex, asleep, shutdown, lockVars, item, reported>>

NotifyAll ==
    /\ drive = "stored"
    /\ drive' = "join"
    /\ asleep' = {}
    /\ pc' = [w \in Workers |-> IF w \in asleep THEN "lock" ELSE pc[w]]
    /\ UNCHANGED <<queue, mutex, shutdown, lockVars, item, reported>>

Join ==
    /\ drive = "join"
    /\ \A w \in Workers : pc[w] = "gone"
    /\ drive' = "returned"
    /\ UNCHANGED <<queue, mutex, asleep, shutdown, lockVars, pc, item, reported>>

-----------------------------------------------------------------------------
(* A worker                                                                *)

Lock(w) ==
    /\ pc[w] = "lock"
    /\ mutex = Nobody
    /\ mutex' = w
    /\ Goes(w, "check")
    /\ UNCHANGED <<queue, asleep, shutdown, lockVars, item, reported, drive>>

\* With the mutex: leave on shutdown, else take the oldest child, else wait.
Retire(w) ==
    /\ pc[w] = "check" /\ shutdown
    /\ mutex' = Nobody
    /\ Goes(w, "gone")
    /\ UNCHANGED <<queue, asleep, shutdown, lockVars, item, reported, drive>>

\* Mutant: the newest child is taken.
TakeNewest(w) ==
    /\ pc[w] = "check" /\ ~shutdown /\ queue # <<>>
    /\ item' = [item EXCEPT ![w] = queue[Len(queue)]]
    /\ queue' = SubSeq(queue, 1, Len(queue) - 1)
    /\ mutex' = Nobody
    /\ Goes(w, "gate")
    /\ UNCHANGED <<asleep, shutdown, lockVars, reported, drive>>

Take(w) ==
    /\ pc[w] = "check" /\ ~shutdown /\ queue # <<>>
    /\ item' = [item EXCEPT ![w] = Head(queue)]
    /\ queue' = Tail(queue)
    /\ mutex' = Nobody
    /\ Goes(w, "gate")
    /\ UNCHANGED <<asleep, shutdown, lockVars, reported, drive>>

FindNothing(w) ==
    /\ pc[w] = "check" /\ ~shutdown /\ queue = <<>>
    /\ Goes(w, "sleep")
    /\ UNCHANGED <<queue, mutex, asleep, shutdown, lockVars, item, reported, drive>>

\* Condvar::wait: mutex released and asleep at once; awake by a notification
\* or for no reason.
Sleep(w) ==
    /\ pc[w] = "sleep"
    /\ mutex' = Nobody
    /\ asleep' = asleep \cup {w}
    /\ Goes(w, "asleep")
    /\ UNCHANGED <<queue, shutdown, lockVars, item, reported, drive>>

SpuriousWake(w) ==
    /\ w \in asleep
    /\ asleep' = asleep \ {w}
    /\ Goes(w, "lock")
    /\ UNCHANGED <<queue, mutex, shutdown, lockVars, item, reported, drive>>

\* Mutant: every child shares the project.
EnterShared(w) ==
    /\ pc[w] = "gate"
    /\ writer = Nobody
    /\ readers' = readers \cup {w}
    /\ Goes(w, "child")
    /\ UNCHANGED <<queue, mutex, asleep, shutdown, writer, item, reported, drive>>

\* Dispatch.project: exclusive for a child that swaps the configuration,
\* shared for the others; a waiting writer holds no reader back.
Enter(w) ==
    /\ pc[w] = "gate"
    /\ writer = Nobody
    /\ IF item[w] \in Serial
       THEN readers = {} /\ writer' = w /\ UNCHANGED readers
       ELSE readers' = readers \cup {w} /\ UNCHANGED writer
    /\ Goes(w, "child")
    /\ UNCHANGED <<queue, mutex, asleep, shutdown, item, reported, drive>>

\* The child is over, however it ended, and the project lock released.
Finish(w) ==
    /\ pc[w] = "child"
    /\ readers' = readers \ {w}
    /\ writer' = IF writer = w THEN Nobody ELSE writer
    /\ Goes(w, "send")
    /\ UNCHANGED <<queue, mutex, asleep, shutdown, item, reported, drive>>

\* The receiver outlives the pool, so the send succeeds.
Send(w) ==
    /\ pc[w] = "send"
    /\ reported' = reported \cup {item[w]}
    /\ item' = [item EXCEPT ![w] = Nobody]
    /\ Goes(w, "lock")
    /\ UNCHANGED <<queue, mutex, asleep, shutdown, lockVars, drive>>

-----------------------------------------------------------------------------

Works(w) ==
    \/ Lock(w) \/ Retire(w) \/ Take(w) \/ FindNothing(w) \/ Sleep(w)
    \/ Enter(w) \/ Finish(w) \/ Send(w)

Next ==
    \/ \E c \in Children : Enqueue(c)
    \/ NotifyOne \/ StoreShutdown \/ NotifyAll \/ Join
    \/ \E w \in Workers : Works(w) \/ SpuriousWake(w)

Spec == Init /\ [][Next]_vars

\* Every thread runs, every child comes back.  The loop need not queue another
\* child or ever leave, and no thread wakes up by itself.
FairSpec ==
    /\ Spec
    /\ WF_vars(NotifyOne) /\ WF_vars(NotifyAll) /\ WF_vars(Join)
    /\ \A w \in Workers : WF_vars(Works(w))

-----------------------------------------------------------------------------
(* Properties                                                              *)

\* "Park/swap children still get the project to themselves."
SwapAlone ==
    \A v, w \in Workers :
      pc[v] = "child" /\ pc[w] = "child" /\ item[v] \in Serial => v = w

\* The pool is what the drive loop takes it for.
Pool == INSTANCE WorkflowChildren WITH Slots <- Cardinality(Workers), running <- Taken

ImplementsChildren == Pool!ChildrenSpec

\* A queued child reports, unless the loop leaves first: no wake-up is lost
\* between a worker's look at the queue and its sleep, and no child that needs
\* the project to itself "can be starved forever".
EveryChildReports ==
    \A c \in Children :
      (\E i \in 1..Len(queue) : queue[i] = c) ~> (c \in reported \/ shutdown)

\* PoolGuard "guarantees they are retired on EVERY exit path".
PoolRetires == shutdown ~> drive = "returned"
=============================================================================
