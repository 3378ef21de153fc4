-------------------------- MODULE WorkflowChildren --------------------------
(***************************************************************************)
(* What the drive loop of WorkflowDrive counts on from its worker pool:    *)
(* children start in the order they were queued, at most Slots of them at  *)
(* a time, each once, and each that started reports once.                  *)
(*                                                                         *)
(* WorkflowPool implements this specification.                             *)
(***************************************************************************)
EXTENDS Sequences, FiniteSets, Naturals

CONSTANTS
    Children,   \* announced children of a session
    Slots       \* how many may be with a worker

VARIABLES
    queue,      \* children nobody has taken
    running,    \* children with a worker
    reported    \* children whose outcome the loop can receive

childVars == <<queue, running, reported>>

ChildrenInit ==
    /\ queue = <<>>
    /\ running = {}
    /\ reported = {}

Enqueue(c) ==
    /\ c \notin running \cup reported
    /\ \A i \in 1..Len(queue) : queue[i] # c
    /\ queue' = Append(queue, c)
    /\ UNCHANGED <<running, reported>>

Start ==
    /\ queue # <<>>
    /\ Cardinality(running) < Slots
    /\ running' = running \cup {Head(queue)}
    /\ queue' = Tail(queue)
    /\ UNCHANGED reported

Report(c) ==
    /\ c \in running
    /\ running' = running \ {c}
    /\ reported' = reported \cup {c}
    /\ UNCHANGED queue

ChildrenNext ==
    \/ Start
    \/ \E c \in Children : Enqueue(c) \/ Report(c)

ChildrenSpec == ChildrenInit /\ [][ChildrenNext]_childVars
=============================================================================
