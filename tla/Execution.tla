----------------------------- MODULE Execution -----------------------------
(***************************************************************************)
(* One tools_execute run: hosted::execute_plan of cli/src/execution.rs     *)
(* with what runs beside it until it returns:                              *)
(*                                                                         *)
(*   relay     the tool-call relay of egress/src/execution_relay.rs, its   *)
(*             connection slots and its call budget;                       *)
(*   follower  the task that hands each log line of the egress sidecar to  *)
(*             the event spool of egress/src/spool.rs, and the spool's     *)
(*             writer thread;                                              *)
(*   daemon    the networks and containers that runtime/src/lockdown.rs    *)
(*             and docker.rs create and remove.                            *)
(*                                                                         *)
(* The main thread leaves early at every setup failure; what it started by *)
(* then is taken down by destructors, in reverse order of declaration.     *)
(***************************************************************************)
EXTENDS Integers, Sequences, FiniteSets

CONSTANTS
    Conns,           \* connections to the relay
    MaxConnections,  \* MAX_CONNECTIONS
    MaxCalls,        \* limits.max_calls
    Capacity,        \* CAPACITY of the spool
    MaxLines,        \* bound: lines the sidecar logs
    MaxFrames        \* bound: granted requests that reach the relay

ASSUME ExecutionAssumption ==
    /\ IsFiniteSet(Conns)
    /\ MaxConnections \in Nat
    /\ MaxCalls \in Nat \ {0}
    /\ Capacity \in Nat
    /\ MaxLines \in Nat
    /\ MaxFrames \in Nat

VARIABLES
    pc,           \* where execute_plan is
    outcome,      \* how the run ends, once known
    log,          \* the run log
    relay,        \* "none", "up", "down"
    conn,         \* what the task of each connection does
    connections,  \* Shared::connections
    calls,        \* Shared::calls
    spool,        \* the spool's writer: "none", "up", "done"
    owners,       \* who holds a sender of the spool: "main", "sink", "follower"
    queue,        \* lines accepted and not yet written
    follower,     \* "none", "on", "aborted", "gone"
    nets,         \* networks that exist
    sidecar,      \* "none", "created", "running" or "attached" to both networks
    guest,        \* "none", "running", "exited"
    frames, lines,
    \* history:
    taken,        \* calls granted out of the budget
    dispatched,   \* calls handed to the gateway
    accepted,     \* lines the spool took
    cause         \* what went wrong in a way that may leave something behind

daemon == <<nets, sidecar, guest>>
relaying == <<relay, conn, connections, calls, frames, taken, dispatched>>
spooling == <<spool, owners, queue, follower, lines, accepted>>

vars == <<pc, outcome, log, relaying, spooling, daemon, cause>>

Started == [event |-> "started", line |-> 0]
Finished == [event |-> "finished", line |-> 0]
Line(n) == [event |-> "line", line |-> n]

\* The run has its ExecutionFinished.
Closed == \E i \in 1..Len(log) : log[i] = Finished

Init ==
    /\ pc = "begin"
    /\ outcome = "none"
    /\ log = <<>>
    /\ relay = "none"
    /\ conn = [c \in Conns |-> "none"]
    /\ connections = 0
    /\ calls = 0
    /\ spool = "none"
    /\ owners = {}
    /\ queue = <<>>
    /\ follower = "none"
    /\ nets = {}
    /\ sidecar = "none"
    /\ guest = "none"
    /\ frames = 0
    /\ lines = 0
    /\ taken = 0
    /\ dispatched = 0
    /\ accepted = <<>>
    /\ cause = {}

-----------------------------------------------------------------------------
(* The relay                                                               *)

\* Mutant: the slot is taken, and not given back, when the relay is full.
AcceptKeepingSlot(c) ==
    /\ relay = "up"
    /\ conn[c] = "none"
    /\ \A d \in Conns : conn[d] # "bounced"
    /\ connections' = connections + 1
    /\ conn' = [conn EXCEPT ![c] = IF connections >= MaxConnections THEN "none" ELSE "open"]
    /\ UNCHANGED <<pc, outcome, log, relay, calls, frames, taken, dispatched, spooling, daemon, cause>>

\* The accept loop: one task, which gives a slot it took in vain back before
\* it accepts again.
Accept(c) ==
    /\ relay = "up"
    /\ conn[c] = "none"
    /\ \A d \in Conns : conn[d] # "bounced"
    /\ connections' = connections + 1
    /\ conn' = [conn EXCEPT ![c] = IF connections >= MaxConnections THEN "bounced" ELSE "open"]
    /\ UNCHANGED <<pc, outcome, log, relay, calls, frames, taken, dispatched, spooling, daemon, cause>>

\* Mutant: a bounced connection gives back by hand and by a guard.
CloseTwice(c) ==
    /\ \/ conn[c] \in {"open", "bounced"}
       \/ relay = "down" /\ conn[c] \in {"spawned", "called"}
    /\ connections' = IF conn[c] = "bounced" THEN connections - 2 ELSE connections - 1
    /\ conn' = [conn EXCEPT ![c] = "none"]
    /\ UNCHANGED <<pc, outcome, log, relay, calls, frames, taken, dispatched, spooling, daemon, cause>>

\* The slot goes back: a bounced connection, the end of one's requests, or the
\* end of the relay, which cancels every task that is waiting.
Close(c) ==
    /\ \/ conn[c] \in {"open", "bounced"}
       \/ relay = "down" /\ conn[c] \in {"spawned", "called"}
    /\ connections' = connections - 1
    /\ conn' = [conn EXCEPT ![c] = "none"]
    /\ UNCHANGED <<pc, outcome, log, relay, calls, frames, taken, dispatched, spooling, daemon, cause>>

\* Mutant: the budget is looked at, and charged only when the call is made.
TakeByLooking(c) ==
    /\ conn[c] = "open"
    /\ frames < MaxFrames
    /\ frames' = frames + 1
    /\ UNCHANGED calls
    /\ taken' = IF calls < MaxCalls THEN taken + 1 ELSE taken
    /\ conn' = [conn EXCEPT ![c] = IF calls < MaxCalls THEN "spawned" ELSE "open"]
    /\ UNCHANGED <<pc, outcome, log, relay, connections, dispatched, spooling, daemon, cause>>

\* A request with the token, for a granted tool: fetch_add on the budget.
Take(c) ==
    /\ conn[c] = "open"
    /\ frames < MaxFrames
    /\ frames' = frames + 1
    /\ calls' = calls + 1
    /\ \/ calls < MaxCalls /\ taken' = taken + 1 /\ conn' = [conn EXCEPT ![c] = "spawned"]
       \/ calls >= MaxCalls /\ taken' = taken /\ conn' = [conn EXCEPT ![c] = "over"]
    /\ UNCHANGED <<pc, outcome, log, relay, connections, dispatched, spooling, daemon, cause>>

\* "call-limit": the charge is given back.
GiveBack(c) ==
    /\ conn[c] = "over"
    /\ calls' = calls - 1
    /\ conn' = [conn EXCEPT ![c] = "open"]
    /\ UNCHANGED <<pc, outcome, log, relay, connections, frames, taken, dispatched, spooling, daemon, cause>>

\* A blocking thread picks the call up: from now on it cannot be revoked.
Dispatch(c) ==
    /\ conn[c] = "spawned"
    /\ dispatched' = dispatched + 1
    /\ conn' = [conn EXCEPT ![c] = "called"]
    /\ UNCHANGED <<pc, outcome, log, relay, connections, calls, frames, taken, spooling, daemon, cause>>

Respond(c) ==
    /\ conn[c] = "called"
    /\ relay = "up"
    /\ conn' = [conn EXCEPT ![c] = "open"]
    /\ UNCHANGED <<pc, outcome, log, relay, connections, calls, frames, taken, dispatched, spooling, daemon, cause>>

-----------------------------------------------------------------------------
(* The follower and the spool                                              *)

\* A line of the sidecar reaches the sink: try_send, which sheds at capacity.
\* An aborted follower may still be in the middle of its last lines.
Forward ==
    /\ follower \in {"on", "aborted"}
    /\ lines < MaxLines
    /\ lines' = lines + 1
    /\ \/ /\ Len(queue) < Capacity
          /\ queue' = Append(queue, lines')
          /\ accepted' = Append(accepted, lines')
       \/ /\ Len(queue) >= Capacity
          /\ UNCHANGED <<queue, accepted>>
    /\ UNCHANGED <<pc, outcome, log, relaying, spool, owners, follower, daemon, cause>>

\* The task ends and drops its sink: at the end of the sidecar's log, ...
SidecarLogEnds ==
    /\ follower = "on"
    /\ follower' = "gone"
    /\ owners' = owners \ {"follower"}
    /\ UNCHANGED <<pc, outcome, log, relaying, spool, queue, lines, accepted, daemon, cause>>

\* ... or when its runtime comes round to the abort.
AbortTakesEffect ==
    /\ follower = "aborted"
    /\ follower' = "gone"
    /\ owners' = owners \ {"follower"}
    /\ UNCHANGED <<pc, outcome, log, relaying, spool, queue, lines, accepted, daemon, cause>>

WriteLine ==
    /\ spool = "up"
    /\ queue # <<>>
    /\ log' = Append(log, Line(Head(queue)))
    /\ queue' = Tail(queue)
    /\ UNCHANGED <<pc, outcome, relaying, spool, owners, follower, lines, accepted, daemon, cause>>

\* The receiver's iteration ends when every sender is gone and all is drained.
WriterEnds ==
    /\ spool = "up"
    /\ queue = <<>>
    /\ owners = {}
    /\ spool' = "done"
    /\ UNCHANGED <<pc, outcome, log, relaying, owners, queue, follower, lines, accepted, daemon, cause>>

-----------------------------------------------------------------------------
(* The main thread                                                         *)

Go(from, to) == pc = from /\ pc' = to

\* Mutant: a setup failure returns without closing the run.
FailUnrecorded(why) ==
    /\ pc' = "drops"
    /\ outcome' = why
    /\ UNCHANGED log

\* setup! and finish_error: the record is closed, then the destructors run.
Fail(why) ==
    /\ pc' = "drops"
    /\ outcome' = why
    /\ log' = Append(log, Finished)

Begin ==
    /\ Go("begin", "relay")
    /\ log' = Append(log, Started)
    /\ UNCHANGED <<outcome, relaying, spooling, daemon, cause>>

\* Files, token, docker, bind address, listener.
StartRelay ==
    /\ pc = "relay"
    /\ \/ pc' = "spool" /\ relay' = "up" /\ UNCHANGED <<outcome, log>>
       \/ Fail("setup") /\ UNCHANGED relay
    /\ UNCHANGED <<conn, connections, calls, frames, taken, dispatched, spooling, daemon, cause>>

\* Fence, ruleset, spool: the sink holds a sender, and main holds the sink.
StartSpool ==
    /\ pc = "spool"
    /\ \/ /\ pc' = "topology"
          /\ spool' = "up"
          /\ owners' = {"main", "sink"}
          /\ UNCHANGED <<outcome, log>>
       \/ Fail("setup") /\ UNCHANGED <<spool, owners>>
    /\ UNCHANGED <<relaying, queue, follower, lines, accepted, daemon, cause>>

\* Images, then Lockdown::start, which is handed the sink.
CreateNets ==
    /\ pc = "topology"
    /\ \/ pc' = "sidecar" /\ nets' = {"internal", "egress"} /\ UNCHANGED <<outcome, log, owners>>
       \/ /\ Fail("setup")                    \* no image: the sink is a local of main
          /\ owners' = owners \ {"sink"}
          /\ UNCHANGED nets
       \/ /\ pc' = "undo"                     \* the second network, or the first
          /\ nets' \in {{}, {"internal"}}
          /\ UNCHANGED <<outcome, log, owners>>
    /\ UNCHANGED <<relaying, spool, queue, follower, lines, accepted, sidecar, guest, cause>>

\* create, start and attach the sidecar: a failure leaves it as far as it got.
StartSidecar ==
    /\ pc = "sidecar"
    /\ sidecar' \in {"none", "created", "running", "attached"}
    /\ pc' = IF sidecar' = "attached" THEN "follow" ELSE "undo"
    /\ cause' = IF sidecar' \in {"created", "running"} THEN cause \cup {"sidecar"} ELSE cause
    /\ UNCHANGED <<outcome, log, relaying, spooling, nets, guest>>

\* The endpoints that keep a network from being removed.
InUse(net) ==
    \/ net = "egress" /\ sidecar \in {"running", "attached"}
    \/ net = "internal" /\ (sidecar = "attached" \/ guest = "running")

\* Best effort: a network goes unless it is in use or the daemon refuses.
RemoveNets(free) ==
    \E kept \in SUBSET {n \in nets : n \in free} :
        /\ nets' = (nets \ free) \cup kept
        /\ cause' = IF kept = {} THEN cause ELSE cause \cup {"removal"}

\* Lockdown::start on an error: the two networks, and not the sidecar.
UndoTopology ==
    /\ pc = "undo"
    /\ RemoveNets({n \in {"internal", "egress"} : ~InUse(n)})
    /\ Fail("setup")
    /\ owners' = owners \ {"sink"}
    /\ UNCHANGED <<relaying, spool, queue, follower, lines, accepted, sidecar, guest>>

Follow ==
    /\ Go("follow", "ready")
    /\ follower' = "on"
    /\ owners' = (owners \ {"sink"}) \cup {"follower"}
    /\ UNCHANGED <<outcome, log, relaying, spool, queue, lines, accepted, daemon, cause>>

\* READY, or the sidecar's end or the timeout: then the Lockdown is dropped
\* before Lockdown::start returns its error.
AwaitReady ==
    /\ pc = "ready"
    /\ \/ pc' = "guest" /\ UNCHANGED outcome
       \/ pc' = "lockdown" /\ outcome' = "setup"
    /\ UNCHANGED <<log, relaying, spooling, daemon, cause>>

\* A container that does not start has been removed by docker.rs, as far as
\* the daemon let it.
StartGuest ==
    /\ pc = "guest"
    /\ \/ pc' = "wait" /\ guest' = "running" /\ UNCHANGED <<outcome, log, cause>>
       \/ pc' = "lockdown" /\ outcome' = "setup" /\ log' = Append(log, Finished)
          /\ \/ guest' = "none" /\ UNCHANGED cause
             \/ guest' = "exited" /\ cause' = cause \cup {"guest"}
    /\ UNCHANGED <<relaying, spooling, nets, sidecar>>

\* The container ends well or badly, or is still running when the limit is met
\* or its log stream breaks.
Wait ==
    /\ pc = "wait"
    /\ pc' = "teardown"
    /\ \/ guest' = "exited" /\ outcome' \in {"ok", "error"}
       \/ guest' = "running" /\ outcome' \in {"limit", "error"}
    /\ UNCHANGED <<log, relaying, spooling, nets, sidecar, cause>>

\* Forced removal, tried twice.
Teardown ==
    /\ pc = "teardown"
    /\ pc' = "lockdown"
    /\ \/ guest' = "none" /\ UNCHANGED <<outcome, cause>>
       \/ guest' = guest /\ outcome' = "teardown" /\ cause' = cause \cup {"teardown"}
    /\ UNCHANGED <<log, relaying, spooling, nets, sidecar>>

\* Mutant: the networks first, as long as the sidecar still uses them.
DropLockdownNetsFirst ==
    /\ pc = "lockdown"
    /\ follower' = IF follower = "on" THEN "aborted" ELSE follower
    /\ RemoveNets({n \in {"internal", "egress"} : ~InUse(n)})
    /\ sidecar' = "none"
    /\ pc' = IF Closed THEN "drops" ELSE "report"
    /\ UNCHANGED <<outcome, log, relaying, spool, owners, queue, lines, accepted, guest>>

\* Lockdown::drop: abort the follower, force-remove the sidecar, and with it
\* gone the networks.
DropLockdown ==
    /\ pc = "lockdown"
    /\ follower' = IF follower = "on" THEN "aborted" ELSE follower
    /\ \/ /\ sidecar' = "none"
          /\ RemoveNets({"egress"} \cup (IF guest = "running" THEN {} ELSE {"internal"}))
       \/ /\ UNCHANGED <<sidecar, nets>>
          /\ cause' = cause \cup {"removal"}
    /\ pc' = IF Closed THEN "drops" ELSE "report"
    /\ UNCHANGED <<outcome, log, relaying, spool, owners, queue, lines, accepted, guest>>

\* The outcome is recorded; a good run is still refused if the relay counts
\* more calls than the plan allows.
Report ==
    /\ pc = "report"
    /\ Fail(IF outcome = "ok" /\ calls > MaxCalls THEN "overcount" ELSE outcome)
    /\ UNCHANGED <<relaying, spooling, daemon, cause>>

\* Mutant: the spool joins its writer with its own sender still alive.
DropHandleKeepingSender ==
    /\ Go("drops", "join")
    /\ guest' \in (IF "teardown" \in cause THEN {"none", guest} ELSE {guest})
    /\ UNCHANGED <<outcome, log, relaying, spooling, nets, sidecar, cause>>

\* Destructors, last declared first: the handle tries the removal once more,
\* and the spool lets its own sender go.
DropHandle ==
    /\ Go("drops", "join")
    /\ owners' = owners \ {"main"}
    /\ guest' \in (IF "teardown" \in cause THEN {"none", guest} ELSE {guest})
    /\ UNCHANGED <<outcome, log, relaying, spool, queue, follower, lines, accepted, nets, sidecar, cause>>

\* Mutant: the spool is dropped without waiting for its writer.
DropSpool ==
    /\ Go("join", "relaydrop")
    /\ UNCHANGED <<outcome, log, relaying, spooling, daemon, cause>>

\* The spool's join is also the flush.
JoinWriter ==
    /\ Go("join", "relaydrop")
    /\ spool \in {"none", "done"}
    /\ UNCHANGED <<outcome, log, relaying, spooling, daemon, cause>>

\* The listener stops and the runtime shuts down without waiting for callbacks.
DropRelay ==
    /\ Go("relaydrop", "returned")
    /\ relay' = IF relay = "up" THEN "down" ELSE relay
    /\ UNCHANGED <<outcome, log, conn, connections, calls, frames, taken, dispatched, spooling, daemon, cause>>

Main ==
    \/ Begin \/ StartRelay \/ StartSpool \/ CreateNets \/ StartSidecar \/ UndoTopology \/ Follow
    \/ AwaitReady \/ StartGuest \/ Wait \/ Teardown \/ DropLockdown \/ Report \/ DropHandle
    \/ JoinWriter \/ DropRelay

Connection(c) == Accept(c) \/ Close(c) \/ Take(c) \/ GiveBack(c) \/ Dispatch(c) \/ Respond(c)

Next ==
    \/ Main
    \/ \E c \in Conns : Connection(c)
    \/ Forward \/ SidecarLogEnds \/ AbortTakesEffect \/ WriteLine \/ WriterEnds

\* The daemon answers, the container ends or meets its time limit, and the
\* threads and tasks are scheduled; nobody is obliged to call the relay.
Spec ==
    /\ Init /\ [][Next]_vars
    /\ WF_vars(Main) /\ WF_vars(AbortTakesEffect) /\ WF_vars(WriteLine \/ WriterEnds)

-----------------------------------------------------------------------------
(* Properties                                                              *)

Outcomes == {"none", "setup", "ok", "error", "limit", "teardown", "overcount"}

Events == {Started, Finished} \cup {Line(n) : n \in 1..MaxLines}

TypeOK ==
    /\ pc \in {"begin", "relay", "spool", "topology", "sidecar", "undo", "follow", "ready", "guest",
               "wait", "teardown", "lockdown", "report", "drops", "join", "relaydrop", "returned"}
    /\ outcome \in Outcomes
    /\ log \in Seq(Events)
    /\ relay \in {"none", "up", "down"}
    /\ conn \in [Conns -> {"none", "bounced", "open", "over", "spawned", "called"}]
    /\ connections \in Nat
    /\ calls \in Nat
    /\ spool \in {"none", "up", "done"}
    /\ owners \subseteq {"main", "sink", "follower"}
    /\ queue \in Seq(1..MaxLines)
    /\ follower \in {"none", "on", "aborted", "gone"}
    /\ nets \subseteq {"internal", "egress"}
    /\ sidecar \in {"none", "created", "running", "attached"}
    /\ guest \in {"none", "running", "exited"}
    /\ frames \in Nat
    /\ lines \in Nat
    /\ taken \in Nat
    /\ dispatched \in Nat
    /\ accepted \in Seq(1..MaxLines)
    /\ cause \subseteq {"sidecar", "removal", "guest", "teardown"}

In(state) == {c \in Conns : conn[c] = state}

\* However many connections ask at once, the gateway is called at most
\* max_calls times; "call-limit" is only ever answered when all of them were
\* granted, although a refused request charges the counter for a moment too;
\* and no charge is lost or stays.
BudgetHolds ==
    /\ dispatched <= MaxCalls
    /\ In("over") # {} => taken = MaxCalls
    /\ calls = taken + Cardinality(In("over"))

\* Every slot is held by a live connection, and no more than MAX_CONNECTIONS
\* are served; a slot comes back however its connection ends.
SlotsAccounted ==
    /\ connections = Cardinality(Conns \ In("none"))
    /\ Cardinality(Conns \ (In("none") \cup In("bounced"))) <= MaxConnections

\* Where the log holds a line of the sidecar, and the place of one among them.
LinesLogged == {i \in 1..Len(log) : log[i].event = "line"}

Place(i) == Cardinality({j \in LinesLogged : j <= i})

\* Every line the spool accepted is written in order, and all of them before
\* execute_plan returns.
AcceptedAreWritten ==
    /\ Cardinality(LinesLogged) + Len(queue) = Len(accepted)
    /\ \A i \in LinesLogged : log[i].line = accepted[Place(i)]
    /\ \A k \in 1..Len(queue) : queue[k] = accepted[Cardinality(LinesLogged) + k]
    /\ pc = "returned" => queue = <<>> /\ spool # "up"

\* Every exit closes the run, once: no started-without-terminal gap.
ClosesTheRun ==
    pc = "returned" =>
        /\ log[1] = Started
        /\ \E i \in 1..Len(log) : \A j \in 1..Len(log) : log[j] = Finished <=> j = i

\* What a returned execution may leave with the daemon, and because of what.
NothingLeftBehind ==
    pc = "returned" =>
        /\ sidecar # "none" => cause \cap {"sidecar", "removal"} # {}
        /\ guest # "none" => cause \cap {"guest", "teardown"} # {}
        /\ "egress" \in nets => cause \cap {"sidecar", "removal"} # {}
        /\ "internal" \in nets => cause \cap {"removal", "teardown"} # {}

\* execute_plan returns: no destructor waits for something a later one frees.
Returns == <>(pc = "returned")
=============================================================================
