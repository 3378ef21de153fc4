--------------------------- MODULE WorkflowEngine ---------------------------
(***************************************************************************)
(* One slice of the workflow engine: WorkflowRun::step of                  *)
(* crates/workflow/src/lib.rs with the agent() bridge of bridge.rs, as a   *)
(* function from the engine's state and the results it is fed to its next  *)
(* state and outcome.                                                      *)
(*                                                                         *)
(* A script is the order in which its agent() calls depend on each other.  *)
(* parallel() after parallel() makes every call of the second wait for all *)
(* of the first; pipeline() makes a stage wait for its own item only; a    *)
(* chain of awaits makes each call wait for the one before.  `after` lists *)
(* every earlier call a call waits for, directly or not.                   *)
(***************************************************************************)
EXTENDS Naturals, SequencesExt

CONSTANTS
    Calls,         \* agent() calls a script can make
    Never,         \* a promise nobody resolves
    Ceiling        \* the granted max_agents

ASSUME EngineAssumption == Never \notin Calls /\ Ceiling \in Nat

Script ==
    [calls: Seq(Calls),                \* in script order
     after: [Calls -> SUBSET Calls],
     awaits: SUBSET (Calls \cup {Never}),  \* what the root promise waits for
     onThrow: {"null", "drop", "reject"},  \* parallel, pipeline, a bare await
     undeclared: SUBSET Calls]         \* calls naming a role meta.roles lacks

\* issued[id] is the call granted request id (ids start at 1 here); seen[c]
\* is the result c resolved with: the run of the child that completed, or Null.
Null == 0

Engine ==
    [issued: Seq(Calls),
     status: [Calls -> {"open", "awaited", "settled", "refused"}],
     seen: [Calls -> Nat],
     undeclared: BOOLEAN]

NewEngine ==
    [issued     |-> <<>>,
     status     |-> [c \in Calls |-> "open"],
     seen       |-> [c \in Calls |-> Null],
     undeclared |-> FALSE]

\* The resolvers map: requests nobody has answered yet.
Awaiting(e) == {id \in 1..Len(e.issued) : e.status[e.issued[id]] = "awaited"}

-----------------------------------------------------------------------------
(* The script's own progress                                               *)

Reached(script, e, c) ==
    /\ e.status[c] = "open"
    /\ \A d \in script.after[c] :
         \/ e.status[d] = "settled"
         \/ e.status[d] = "refused" /\ script.onThrow = "null"

\* Mutant: the ceiling admits one call too many.
AgentOverCeiling(script, e, c) ==
    IF ~Reached(script, e, c) THEN e
    ELSE IF c \in script.undeclared
         THEN [e EXCEPT !.status[c] = "refused", !.undeclared = TRUE]
    ELSE IF Len(e.issued) > Ceiling
         THEN [e EXCEPT !.status[c] = "refused"]
    ELSE [e EXCEPT !.status[c] = "awaited", !.issued = Append(@, c)]

\* agent(): an undeclared role and a spent ceiling throw, and create no
\* promise; any other call gets the next request id and a pending promise.
Agent(script, e, c) ==
    IF ~Reached(script, e, c) THEN e
    ELSE IF c \in script.undeclared
         THEN [e EXCEPT !.status[c] = "refused", !.undeclared = TRUE]
    ELSE IF Len(e.issued) >= Ceiling
         THEN [e EXCEPT !.status[c] = "refused"]
    ELSE [e EXCEPT !.status[c] = "awaited", !.issued = Append(@, c)]

RunJobs(script, e) ==
    FoldLeft(LAMBDA f, c : Agent(script, f, c), e, script.calls)

\* One promise resolved and its continuations run: jobs queue in the order
\* the promises were resolved.
Resolve(script, e, result) ==
    LET c == e.issued[result.id]
    IN  RunJobs(script, [e EXCEPT !.status[c] = "settled", !.seen[c] = result.value])

\* Whether the promise of a call has settled, or its item was dropped.
Over(script, e, c) ==
    \/ e.status[c] \in {"settled", "refused"}
    \/ script.onThrow = "drop" /\ \E d \in script.after[c] : e.status[d] = "refused"

Rejected(script, e) ==
    script.onThrow = "reject" /\ \E c \in Calls : e.status[c] = "refused"

Fulfilled(script, e) ==
    \A c \in script.awaits : c # Never /\ Over(script, e, c)

-----------------------------------------------------------------------------

\* Every result answers a request that is still waiting, and none twice.
Answerable(e, results) ==
    /\ \A i \in 1..Len(results) : results[i].id \in Awaiting(e)
    /\ \A i, j \in 1..Len(results) : results[i].id = results[j].id => i = j

\* WorkflowRun::drive: evaluate or resume the script, then report the new
\* requests, or else how the root promise stands.
Step(script, e, results) ==
    IF ~Answerable(e, results) THEN [engine |-> e, kind |-> "failed", why |-> "unknown_result"]
    ELSE
    LET f == FoldLeft(LAMBDA g, r : Resolve(script, g, r), RunJobs(script, e), results)
    IN  [engine |-> f,
         kind   |-> IF f.undeclared THEN "failed"
                    ELSE IF Len(f.issued) > Len(e.issued) THEN "batch"
                    ELSE IF Rejected(script, f) THEN "failed"
                    ELSE IF Fulfilled(script, f) THEN "done"
                    ELSE IF Awaiting(f) # {} THEN "awaiting"
                    ELSE "failed",
         why    |-> IF f.undeclared THEN "undeclared_role"
                    ELSE IF Rejected(script, f) THEN "agents_exhausted"
                    ELSE "stalled"]

\* What a spawn request asks, and so its digest: the prompt is built from the
\* results the call waited for.
Request(script, e, c) == [call |-> c, given |-> [d \in script.after[c] |-> e.seen[d]]]
=============================================================================
