---------------------------- MODULE WorkflowDrive ---------------------------
(***************************************************************************)
(* The drive loop of crates/cli/src/commands/workflow.rs: one workflow run *)
(* from its first session to its last.  A session is one process.  Its     *)
(* drive thread steps the engine, appends evidence to the run's log,       *)
(* queues children for the worker pool and feeds their results back; a     *)
(* watchdog thread kills the process past its wall clock.  The log is also *)
(* the journal a later session replays (workflow_replay.rs).               *)
(*                                                                         *)
(* Sessions follow one another: the command documents that it assumes the  *)
(* original session is dead.                                               *)
(***************************************************************************)
EXTENDS WorkflowEngine, FiniteSets, FiniteSetsExt

CONSTANTS
    Scripts,         \* the scripts a run may have
    MaxConcurrent,   \* workers of the pool
    ResidentCap,     \* completed results the engine may be fed in one session
    AppendsMayFail,  \* whether appending evidence can fail
    MaxSessions      \* bound: sessions of the run

ASSUME DriveAssumption ==
    /\ Scripts \subseteq Script
    /\ MaxConcurrent \in Nat \ {0}
    /\ ResidentCap \in Nat
    /\ AppendsMayFail \in BOOLEAN
    /\ MaxSessions \in Nat

VARIABLES
    script,       \* the pinned script
    journal,      \* runs/<id>/events.jsonl
    session,      \* number of the current or last session; it names child runs
    pc,           \* where the drive thread is
    engine,       \* WorkflowRun
    results,      \* what the next step will be fed
    replay,       \* the ReplayJournal while it is active
    todo,         \* events the drive thread is about to append
    queued,       \* announced members of the batch being announced
    outstanding,  \* children enqueued and not yet reported, as the loop counts them
    wait,         \* completions still to block for
    queue,        \* Dispatch.queue
    running,      \* children on a worker
    channel,      \* reported, not yet received
    resident,     \* ResidentBudget.used
    late,         \* the wall clock has passed the cooperative deadline
    watchdog,     \* the watchdog thread
    verdict,      \* the outcome the engine gave, kept while the loop drains
    refused,      \* history: this session refused to resume
    opened,       \* history: length of the journal when this session began
    torn          \* history: a session died between two announcements of a batch

driveVars == <<pc, engine, results, replay, todo, queued, outstanding, wait, resident, verdict, refused>>
poolVars  == <<queue, running, channel>>
timeVars  == <<late, watchdog>>
vars == <<script, journal, session, driveVars, poolVars, timeVars, opened, torn>>

-----------------------------------------------------------------------------
(* The log                                                                 *)

\* The failed:* outcomes, by the kind of the engine's error.
Failures == {"undeclared_role", "agents_exhausted", "stalled", "unknown_result"}
Outcomes == Failures \cup {"done", "wall_deadline", "watchdog_kill", "resident_cap",
                           "engine_invariant_breach"}

Started      == [type |-> "started"]
Resumed      == [type |-> "resumed"]
Spawned(id, request, run) ==
    [type |-> "spawned", id |-> id, request |-> request, run |-> run]
Settled(id, ok) == [type |-> IF ok THEN "completed" ELSE "failed", id |-> id]
Ended(outcome)  == [type |-> "ended", outcome |-> outcome]

SpawnsOf(log, id) == {i \in 1..Len(log) : log[i].type = "spawned" /\ log[i].id = id}

IsOutcome(event) == event.type \in {"completed", "failed"}

Announced(log) == {log[i].id : i \in {j \in 1..Len(log) : log[j].type = "spawned"}}

\* One entry of the step index: the announcement at `at` with the last of the
\* outcomes at the positions `settles`; its own position is 0 if there is none.
Entry(log, at, settles) ==
    [request |-> log[at].request,
     run     |-> log[at].run,
     at      |-> IF settles = {} THEN 0 ELSE Max(settles),
     ok      |-> settles # {} /\ log[Max(settles)].type = "completed"]

\* ReplayJournal::load: the last announcement of a step wins, and only the
\* outcomes recorded after it belong to it.
Load(log) ==
    [id \in Announced(log) |->
       LET last == Max(SpawnsOf(log, id))
       IN  Entry(log, last, {i \in (last + 1)..Len(log) : IsOutcome(log[i]) /\ log[i].id = id})]

\* resumability: only an interrupted run, one without a terminal outcome or
\* with these two, can be resumed.
Resumable(log) ==
    /\ \E i \in 1..Len(log) : log[i] = Started
    /\ \A i \in 1..Len(log) :
         log[i].type = "ended" => log[i].outcome \in {"wall_deadline", "watchdog_kill"}

NoReplay == [active |-> FALSE, steps |-> <<>>]
-----------------------------------------------------------------------------
(* Initial state, and the end of a session                                 *)

Init ==
    /\ script \in Scripts
    /\ journal = <<>>
    /\ session = 0
    /\ pc = "off"
    /\ engine = NewEngine
    /\ replay = NoReplay
    /\ results = <<>> /\ todo = <<>> /\ queued = <<>> /\ queue = <<>> /\ channel = <<>>
    /\ running = {}
    /\ outstanding = 0 /\ wait = 0 /\ resident = 0
    /\ verdict = "none"
    /\ late = FALSE
    /\ watchdog = "off"
    /\ refused = FALSE
    /\ opened = 0
    /\ torn = FALSE

\* The process is gone: its memory with it, the log not.
Gone ==
    /\ pc' = "off"
    /\ engine' = NewEngine
    /\ replay' = NoReplay
    /\ results' = <<>> /\ todo' = <<>> /\ queued' = <<>> /\ queue' = <<>> /\ channel' = <<>>
    /\ running' = {}
    /\ outstanding' = 0 /\ wait' = 0 /\ resident' = 0
    /\ verdict' = "none"
    /\ late' = FALSE
    /\ watchdog' = "off"
    /\ torn' = (torn \/ queued # <<>>)
    /\ UNCHANGED <<script, session, refused, opened>>

-----------------------------------------------------------------------------
(* Sessions                                                                *)

\* `workflow run`: a fresh run announces itself first.
Begin ==
    /\ pc = "off" /\ session = 0 /\ session < MaxSessions
    /\ session' = 1
    /\ pc' = "append"
    /\ todo' = <<Started>>
    /\ UNCHANGED <<script, journal, engine, results, replay, queued, outstanding, wait,
                   resident, verdict, refused, poolVars, timeVars, opened, torn>>

\* Mutant: the marker is appended before the journal has been checked.
ResumeMarkedFirst ==
    /\ pc = "off" /\ session \in 1..(MaxSessions - 1)
    /\ Resumable(journal)
    /\ session' = session + 1
    /\ journal' = Append(journal, Resumed)
    /\ pc' = "step"
    /\ replay' = [active |-> TRUE, steps |-> Load(journal)]
    /\ watchdog' = "armed"
    /\ refused' = FALSE
    /\ opened' = Len(journal)
    /\ UNCHANGED <<script, engine, results, todo, queued, outstanding, wait,
                   resident, verdict, poolVars, late, torn>>

\* `workflow run --resume`: the journal is loaded and gated, nothing is
\* appended, and the clock starts anew.
Resume ==
    /\ pc = "off" /\ session \in 1..(MaxSessions - 1)
    /\ Resumable(journal)
    /\ session' = session + 1
    /\ pc' = "step"
    /\ replay' = [active |-> TRUE, steps |-> Load(journal)]
    /\ watchdog' = "armed"
    /\ refused' = FALSE
    /\ opened' = Len(journal)
    /\ UNCHANGED <<script, journal, engine, results, todo, queued, outstanding, wait,
                   resident, verdict, poolVars, late, torn>>

-----------------------------------------------------------------------------
(* Steps of the drive loop                                                 *)

\* Dropping done_tx retires the watchdog, unless it has timed out already.
Retired == IF watchdog = "armed" THEN "retired" ELSE watchdog

\* WorkflowEvidence::fail on the loop's own verdict: the watchdog is retired,
\* the outcome appended, and the function returns.
EndWith(outcome) ==
    /\ pc' = "append"
    /\ todo' = <<Ended(outcome)>>
    /\ watchdog' = Retired
    /\ UNCHANGED <<replay, wait, verdict, refused>>

\* A refused resume returns without a word to the log.
Refuse ==
    /\ pc' = "join"
    /\ refused' = TRUE
    /\ UNCHANGED <<replay, todo, wait, verdict, watchdog>>

\* Common to every step of the engine: `s` is what it returned, the results
\* are consumed, nothing else moves.
Drives(s) ==
    /\ engine' = s.engine
    /\ UNCHANGED <<script, journal, session, queued, outstanding, poolVars, late, opened, torn>>

\* The resident ceiling is looked at before the results are fed.
CapBreached ==
    /\ pc = "step" /\ resident > ResidentCap
    /\ EndWith("resident_cap")
    /\ UNCHANGED <<script, journal, session, engine, results, queued, outstanding, resident,
                   poolVars, late, opened, torn>>

NewIds(s) == (Len(engine.issued) + 1) .. Len(s.engine.issued)

Ask(s, id) == Request(script, s.engine, s.engine.issued[id])

\* The members of a set in the order of their keys, which differ.
InOrder(ids, key) ==
    CHOOSE order \in [1..Cardinality(ids) -> ids] :
      \A i, j \in 1..Cardinality(ids) : i < j => key[order[i]] < key[order[j]]

\* The spawn events of the live members of a batch, in request order.
Announcements(s, ids) ==
    LET order == InOrder(ids, [id \in ids |-> id])
    IN  [i \in 1..Len(order) |-> Spawned(order[i], Ask(s, order[i]), session)]

\* A batch past the wall clock, or past the ceiling the engine should have kept.
BatchTooLate(s) ==
    /\ s.kind = "batch"
    /\ late \/ Len(s.engine.issued) > Ceiling
    /\ Drives(s)
    /\ results' = <<>>
    /\ EndWith(IF late THEN "wall_deadline" ELSE "engine_invariant_breach")
    /\ UNCHANGED resident

NewBatch(s) == s.kind = "batch" /\ ~late /\ Len(s.engine.issued) <= Ceiling /\ Drives(s)

BatchLive(s) ==
    /\ NewBatch(s)
    /\ ~replay.active
    /\ results' = <<>>
    /\ pc' = "append"
    /\ todo' = Announcements(s, NewIds(s))
    /\ UNCHANGED <<replay, wait, resident, verdict, refused, watchdog>>

\* The alignment gate: a journaled member asks something else now, the batch
\* mixes journaled members with others, or the journal holds steps that the
\* engine has not asked for when its live part begins.
Divergent(s) ==
    LET known == DOMAIN replay.steps
    IN  \/ \E id \in NewIds(s) \cap known : replay.steps[id].request # Ask(s, id)
        \/ NewIds(s) \cap known # {} /\ ~(NewIds(s) \subseteq known)
        \/ ~(known \subseteq NewIds(s))
             /\ \/ NewIds(s) \cap known = {}
                \/ \E id \in NewIds(s) : replay.steps[id].at = 0

BatchRefused(s) ==
    /\ NewBatch(s)
    /\ replay.active
    /\ Divergent(s)
    /\ results' = <<>>
    /\ Refuse
    /\ UNCHANGED resident

\* Mutant: recorded results are fed in request order.
FedInRequestOrder(ids) ==
    LET order == InOrder(ids, [id \in ids |-> id])
    IN  [i \in 1..Len(order) |->
           LET entry == replay.steps[order[i]]
           IN  [id |-> order[i], value |-> IF entry.ok THEN entry.run ELSE Null]]

\* Mutant: a recorded failure is fed as if the child had completed.
FedAsCompleted(ids) ==
    LET order == InOrder(ids, [id \in ids |-> replay.steps[id].at])
    IN  [i \in 1..Len(order) |-> [id |-> order[i], value |-> replay.steps[order[i]].run]]

\* Recorded results, in the order they were recorded.
Fed(ids) ==
    LET order == InOrder(ids, [id \in ids |-> replay.steps[id].at])
    IN  [i \in 1..Len(order) |->
           LET entry == replay.steps[order[i]]
           IN  [id |-> order[i], value |-> IF entry.ok THEN entry.run ELSE Null]]

\* A batch checked against the journal: what has an outcome is fed back, what
\* was only announced runs again, and the first live child ends the replay.
BatchReplayed(s) ==
    /\ NewBatch(s)
    /\ replay.active
    /\ ~Divergent(s)
    /\ LET done == {id \in NewIds(s) \cap DOMAIN replay.steps : replay.steps[id].at > 0}
           live == NewIds(s) \ done
           left == [id \in DOMAIN replay.steps \ NewIds(s) |-> replay.steps[id]]
       IN  /\ results' = Fed(done)
           /\ resident' = resident + Cardinality({id \in done : replay.steps[id].ok})
           /\ \/ /\ live = {}
                 /\ pc' = "collect"
                 /\ wait' = outstanding
                 /\ replay' = [replay EXCEPT !.steps = left]
                 /\ UNCHANGED todo
              \/ /\ live # {}
                 /\ pc' = "append"
                 /\ todo' = <<Resumed>> \o Announcements(s, live)
                 /\ replay' = NoReplay
                 /\ UNCHANGED wait
    /\ UNCHANGED <<verdict, refused, watchdog>>

StepAwaiting(s) ==
    /\ s.kind = "awaiting"
    /\ Drives(s)
    /\ results' = <<>>
    /\ pc' = "await"
    /\ wait' = Min({1, outstanding})
    /\ UNCHANGED <<replay, todo, resident, verdict, refused, watchdog>>

\* Mutant: the outcome is recorded with children still in flight.
StepDoneUndrained(s) ==
    /\ s.kind = "done"
    /\ Drives(s)
    /\ results' = <<>>
    /\ pc' = "append"
    /\ todo' = <<Ended("done")>>
    /\ verdict' = "done"
    /\ UNCHANGED <<replay, wait, resident, refused, watchdog>>

\* The root promise settled, or the engine failed.  What is still in flight
\* is drained first; on failure the watchdog is retired before that.
StepDone(s) ==
    /\ s.kind = "done"
    /\ Drives(s)
    /\ results' = <<>>
    /\ pc' = "drain"
    /\ verdict' = "done"
    /\ UNCHANGED <<replay, todo, wait, resident, refused, watchdog>>

StepFailed(s) ==
    /\ s.kind = "failed"
    /\ Drives(s)
    /\ results' = <<>>
    /\ pc' = "drain"
    /\ verdict' = s.why
    /\ watchdog' = Retired
    /\ UNCHANGED <<replay, todo, wait, resident, refused>>

-----------------------------------------------------------------------------
(* Appending, receiving                                                    *)

\* A failed append of evidence ends the session without another word.
AppendFails ==
    /\ AppendsMayFail
    /\ pc' = "join"
    /\ todo' = <<>>
    /\ queued' = <<>>
    /\ torn' = (torn \/ queued # <<>>)
    /\ UNCHANGED <<script, journal, session, engine, results, replay, outstanding, wait,
                   resident, verdict, refused, poolVars, late, opened>>

\* Mutant: each child is queued behind its own announcement.
EnqueuedOneByOne(ready, last) == IF ready = <<>> THEN <<>> ELSE <<ready[Len(ready)]>>

\* The children an append lets the pool have, `ready` being the announced
\* members of the batch: all of them behind the last announcement.
Enqueued(ready, last) == IF last THEN ready ELSE <<>>

\* One append.  Behind the last announcement of a batch the loop collects;
\* behind a terminal outcome the function returns.
AppendEvent ==
    /\ pc = "append"
    /\ LET event == Head(todo)
           ready == IF event.type = "spawned" THEN Append(queued, event.id) ELSE queued
           last  == Len(todo) = 1
       IN  /\ journal' = Append(journal, event)
           /\ todo' = Tail(todo)
           /\ queued' = IF last THEN <<>> ELSE ready
           /\ queue' = queue \o Enqueued(ready, last)
           /\ outstanding' = outstanding + Len(Enqueued(ready, last))
           /\ wait' = IF last THEN Min({1, outstanding'}) ELSE wait
           /\ pc' = IF ~last THEN "append"
                    ELSE CASE event.type = "started" -> "step"
                           [] event.type = "spawned" -> "collect"
                           [] event.type = "ended"   -> "join"
           /\ watchdog' = CASE event.type = "started" -> "armed"
                            [] event.type = "ended"   -> Retired
                            [] OTHER                  -> watchdog
    /\ UNCHANGED <<script, session, engine, results, replay, resident, verdict, refused,
                   running, channel, late, opened, torn>>

AppendLost ==
    /\ pc = "append"
    /\ AppendFails
    /\ watchdog' = IF Head(todo).type = "ended" THEN Retired ELSE watchdog

\* Mutants: a failed child is not counted off; a reception is not counted.
OutIfFailed(step) == IF step.ok THEN outstanding - 1 ELSE outstanding
AwaitedRegardless(step) == wait

\* Children still out, and receptions still to block for, after a report.
StillOut(step) == outstanding - 1
StillAwaited(step) == Max({wait - 1, 0})

\* record_completion: charged, appended, and kept for the next step.
Receive ==
    /\ pc \in {"collect", "await", "drain"}
    /\ channel # <<>>
    /\ LET step == Head(channel)
       IN  /\ journal' = Append(journal, Settled(step.id, step.ok))
           /\ results' = Append(results, [id    |-> step.id,
                                          value |-> IF step.ok THEN session ELSE Null])
           /\ resident' = IF step.ok THEN resident + 1 ELSE resident
           /\ outstanding' = StillOut(step)
           /\ wait' = StillAwaited(step)
    /\ channel' = Tail(channel)
    /\ UNCHANGED <<script, session, pc, engine, replay, todo, queued, verdict, refused,
                   queue, running, timeVars, opened, torn>>

ReceiptLost ==
    /\ pc \in {"collect", "await", "drain"}
    /\ channel # <<>>
    /\ AppendFails
    /\ UNCHANGED watchdog

\* Enough was waited for and nothing else is ready.
Collected ==
    /\ pc \in {"collect", "await"}
    /\ wait = 0 /\ channel = <<>>
    /\ IF pc = "await" /\ results = <<>> /\ outstanding = 0
       THEN EndWith("engine_invariant_breach")
       ELSE pc' = "step" /\ UNCHANGED <<replay, todo, wait, verdict, refused, watchdog>>
    /\ UNCHANGED <<script, journal, session, engine, results, queued, outstanding, resident,
                   poolVars, late, opened, torn>>

\* Nothing in flight: steps the engine never asked for refuse the resume,
\* otherwise the outcome goes to the log, marked if the journal was still open.
Drained ==
    /\ pc = "drain"
    /\ outstanding = 0
    /\ IF replay.active /\ DOMAIN replay.steps # {}
       THEN Refuse
       ELSE /\ pc' = "append"
            /\ todo' = (IF replay.active THEN <<Resumed>> ELSE <<>>) \o <<Ended(verdict)>>
            /\ UNCHANGED <<replay, wait, verdict, refused, watchdog>>
    /\ UNCHANGED <<script, journal, session, engine, results, queued, outstanding, resident,
                   poolVars, late, opened, torn>>

\* PoolGuard::drop stores its flag and notifies without the mutex.  A worker
\* that has looked at the flag and the empty queue and does not wait yet hears
\* nothing, and the join never returns (WorkflowPool shows it lock by lock).
\* The pool is set up behind the watchdog: without one there is nobody to join.
NotificationMissed ==
    /\ pc = "join" /\ watchdog # "off"
    /\ queue = <<>> /\ Cardinality(running) < MaxConcurrent
    /\ pc' = "stuck"
    /\ UNCHANGED <<script, journal, session, engine, results, replay, todo, queued, outstanding,
                   wait, resident, verdict, refused, poolVars, timeVars, opened, torn>>

\* Where they hear it, the workers are joined: children on a worker finish,
\* children still queued by now never start.
Exit ==
    /\ pc = "join"
    /\ running = {}
    /\ Gone
    /\ UNCHANGED journal

-----------------------------------------------------------------------------
(* Children                                                                *)

\* A worker takes the oldest child, up to the moment PoolGuard stops it
\* (WorkflowPool shows the pool lock by lock).
StartChild ==
    /\ pc # "off"
    /\ queue # <<>>
    /\ Cardinality(running) < MaxConcurrent
    /\ running' = running \cup {Head(queue)}
    /\ queue' = Tail(queue)
    /\ UNCHANGED <<script, journal, session, driveVars, channel, timeVars, opened, torn>>

FinishChild(id) ==
    /\ id \in running
    /\ running' = running \ {id}
    /\ \E ok \in BOOLEAN : channel' = Append(channel, [id |-> id, ok |-> ok])
    /\ UNCHANGED <<script, journal, session, driveVars, queue, timeVars, opened, torn>>

-----------------------------------------------------------------------------
(* Time and death                                                          *)

Deadline ==
    /\ pc # "off" /\ watchdog = "armed" /\ ~late
    /\ late' = TRUE
    /\ UNCHANGED <<script, journal, session, driveVars, poolVars, watchdog, opened, torn>>

\* recv_timeout returned Timeout: the exit that does no I/O is armed first.
WatchdogFires ==
    /\ watchdog = "armed" /\ late
    /\ watchdog' = "fired"
    /\ UNCHANGED <<script, journal, session, driveVars, poolVars, late, opened, torn>>

\* Best effort, and beside a drive thread that is still running.
WatchdogRecords ==
    /\ watchdog = "fired"
    /\ watchdog' = "recorded"
    /\ journal' \in {journal, Append(journal, Ended("watchdog_kill"))}
    /\ UNCHANGED <<script, session, driveVars, poolVars, late, opened, torn>>

WatchdogExits ==
    /\ watchdog \in {"fired", "recorded"}
    /\ Gone
    /\ UNCHANGED journal

Crash ==
    /\ pc # "off"
    /\ Gone
    /\ UNCHANGED journal

-----------------------------------------------------------------------------

StepEngine ==
    /\ pc = "step" /\ resident <= ResidentCap
    /\ \E s \in {Step(script, engine, results)} :
         \/ BatchTooLate(s) \/ BatchLive(s) \/ BatchRefused(s) \/ BatchReplayed(s)
         \/ StepAwaiting(s) \/ StepDone(s) \/ StepFailed(s)

Drive ==
    \/ CapBreached
    \/ StepEngine
    \/ AppendEvent \/ AppendLost \/ Receive \/ ReceiptLost \/ Collected \/ Drained \/ Exit

Watchdog == WatchdogFires \/ WatchdogRecords \/ WatchdogExits

Next ==
    \/ Begin \/ Resume
    \/ Drive
    \/ StartChild
    \/ \E id \in running : FinishChild(id)
    \/ NotificationMissed
    \/ Deadline \/ Watchdog \/ Crash

Spec == Init /\ [][Next]_vars

\* The drive thread blocks in three places only: a receive with nothing
\* reported, the join of a worker that has a child, and the join of one that
\* sleeps through its retirement.  This is ENABLED Drive,
\* written out because TLC evaluates the engine again and again in an ENABLED.
Unblocked ==
    \/ pc \in {"append", "step"}
    \/ pc \in {"collect", "await"} /\ (wait = 0 \/ channel # <<>>)
    \/ pc = "drain" /\ (outstanding = 0 \/ channel # <<>>)
    \/ pc = "join" /\ running = {}

\* The threads of a live process run and its clock advances.  Nothing obliges
\* anyone to start or resume a run, and a child is a coding agent that may
\* never finish.
ProcessFairness ==
    /\ []<>~Unblocked \/ []<><<Drive>>_vars
    /\ WF_vars(StartChild)
    /\ WF_vars(Deadline)
    /\ WF_vars(Watchdog)

HangSpec == Spec /\ ProcessFairness

\* Where every child comes back, with a result or without.
FairSpec == HangSpec /\ WF_vars(\E id \in running : FinishChild(id))

-----------------------------------------------------------------------------
(* Properties                                                              *)

Locations == {"off", "append", "step", "collect", "await", "drain", "join", "stuck"}

TypeOK ==
    /\ script \in Scripts
    /\ session \in 0..MaxSessions
    /\ pc \in Locations
    /\ engine \in Engine
    /\ outstanding \in Nat
    /\ wait \in 0..outstanding
    /\ resident \in Nat
    /\ watchdog \in {"off", "armed", "retired", "fired", "recorded"}
    /\ verdict \in Failures \cup {"done", "none"}
    /\ \A i \in 1..Len(journal) :
         journal[i].type = "ended" => journal[i].outcome \in Outcomes

\* "Children enqueued but not yet reported": the count the loop blocks on is
\* exactly the children it can still hear from, so no wait is for nobody.
OutstandingIsExact ==
    pc \notin {"off", "join", "stuck"}
      => outstanding = Len(queue) + Cardinality(running) + Len(channel)

\* "An unrecordable spawn does not launch", and a batch's announcements all
\* precede the first of its children.
AnnouncedBeforeLaunch ==
    /\ \A id \in running : \E i \in 1..Len(journal) :
         journal[i] = Spawned(id, Request(script, engine, engine.issued[id]), session)
    /\ \A i \in 1..Len(queued) : queued[i] \notin running

\* "An engine defect": the loop never hands out more spawns than the grant,
\* never waits with nobody outstanding, never feeds an answer nobody asked for.
NoBreach ==
    \A i \in 1..Len(journal) :
      journal[i].type = "ended"
        => journal[i].outcome \notin {"engine_invariant_breach", "unknown_result"}

\* The loop's account of its children: none is waited for that cannot be heard
\* from, none runs unannounced, none is beyond the grant.
ChildrenAreAccounted == OutstandingIsExact /\ AnnouncedBeforeLaunch /\ NoBreach

\* Resume replays results, never other ones: whatever the script has been
\* given for a call is the outcome the log records for it.
ScriptSawTheLog ==
    LET steps == Load(journal)
    IN  \A id \in 1..Len(engine.issued) :
          engine.status[engine.issued[id]] = "settled"
            => /\ id \in DOMAIN steps
               /\ steps[id].at > 0
               /\ engine.seen[engine.issued[id]] = IF steps[id].ok THEN steps[id].run ELSE Null

\* "A refused resume has spawned nothing and appended nothing": a corrected
\* attempt reads the journal unchanged.
RefusalAppendsNothing ==
    refused => \A i \in (opened + 1)..Len(journal) : journal[i] = Ended("watchdog_kill")

\* "A genuine journal records a whole batch's spawns before executing it": a
\* resume is refused only if a session died between two of those records.
WholeBatchesResume == refused => torn

\* "Resume stays lockstep": a log in which every batch was announced with the
\* earlier ones settled replays to its end, whatever the order its outcomes
\* came in; a resume of it is refused only if it is torn within a batch.
InLockstep(log) ==
    \A i, j \in 1..Len(log) :
      i < j /\ log[i].type = "spawned" /\ log[j].type = "spawned"
        => \/ \A k \in i..j : log[k].type = "spawned"
           \/ \E k \in (i + 1)..j :
                (IsOutcome(log[k]) \/ log[k].type = "spawned") /\ log[k].id = log[i].id

LockstepResumes == refused /\ InLockstep(journal) => torn

\* A resume is refused for a cause the journal shows, and leaves it as it was.
RefusalsAreClean == LockstepResumes /\ RefusalAppendsNothing

\* What a log says of each call and of the run.
Told(log) ==
    LET last == [id \in Announced(log) |-> Max(SpawnsOf(log, id))]
        outcomes(id) == {i \in (last[id] + 1)..Len(log) : IsOutcome(log[i]) /\ log[i].id = id}
    IN  [c \in Calls |->
           LET ids == {id \in DOMAIN last : log[last[id]].request.call = c}
           IN  IF ids = {} THEN "silent"
               ELSE IF \E id \in ids : outcomes(id) = {} THEN "announced"
               ELSE IF \A id \in ids : Cardinality(outcomes(id)) = 1 THEN "settled"
               ELSE "settled twice"]

Verdict(log) ==
    LET ends == {log[i].outcome : i \in {j \in 1..Len(log) : log[j].type = "ended"}}
    IN  IF "done" \in ends THEN "done"
        ELSE IF ends \cap Failures # {} THEN "failed"
        ELSE IF ends \subseteq {"wall_deadline", "watchdog_kill"} THEN "open" ELSE "cut"

\* "A completed step never runs twice, and a failed one is never silently
\* retried"; a run recorded done or failed has recorded all of its children.
Promise == INSTANCE WorkflowPromise WITH told <- Told(journal), verdict <- Verdict(journal)

\* (PromiseSpec, where Told and Verdict are functions of the log: a step that
\* leaves the log alone leaves them alone.)
KeepsPromise ==
    /\ Promise!PromiseInit
    /\ [][journal' = journal \/ [Promise!PromiseNext]_(Promise!promiseVars)]_journal

\* A session ends, whatever its script does, unless the pool does not retire
\* (WorkflowPool's PoolRetires, which the code does not have).  Even then it
\* ends by the watchdog, where that is not retired yet: what is left hanging is
\* a process whose outcome is in its log or whose engine failed.
SessionEnds ==
    pc # "off" ~> \/ pc = "off"
                  \/ pc = "stuck" /\ watchdog = "retired"
=============================================================================
