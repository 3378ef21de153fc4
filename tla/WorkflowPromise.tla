--------------------------- MODULE WorkflowPromise --------------------------
(***************************************************************************)
(* What the evidence log of one workflow run promises its reader, over all *)
(* the sessions that write to it: a call is announced before it has an     *)
(* outcome, gets at most one, is never announced again once it has one,    *)
(* and a run that is recorded done or failed owes no announced call its    *)
(* outcome.                                                                *)
(*                                                                         *)
(* WorkflowDrive implements this specification.                            *)
(***************************************************************************)
CONSTANT Calls

VARIABLES
    told,      \* what the log says of each call
    verdict    \* what the log says of the run

promiseVars == <<told, verdict>>

PromiseInit ==
    /\ told = [c \in Calls |-> "silent"]
    /\ verdict = "open"

\* One call further: announced, again if its outcome was never known (an
\* interrupted call reruns), or settled.
Further(now) ==
    {[now EXCEPT ![c] = "announced"] : c \in {d \in Calls : now[d] \in {"silent", "announced"}}}
    \cup {[now EXCEPT ![c] = "settled"] : c \in {d \in Calls : now[d] = "announced"}}

Tell ==
    /\ verdict = "open"
    /\ UNCHANGED verdict
    /\ told' \in Further(told)

Conclude ==
    /\ verdict = "open"
    /\ verdict' \in {"done", "failed"}
    /\ \A c \in Calls : told[c] # "announced"
    /\ UNCHANGED told

\* A machine ceiling on results ends a run for good, whatever is in flight.
CutOff ==
    /\ verdict = "open"
    /\ verdict' = "cut"
    /\ UNCHANGED told

PromiseNext ==
    \/ Tell
    \/ Conclude
    \/ CutOff

PromiseSpec == PromiseInit /\ [][PromiseNext]_promiseVars
=============================================================================
