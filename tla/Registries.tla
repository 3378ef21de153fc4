------------------------------ MODULE Registries ------------------------------
(***************************************************************************)
(* Two registries of what is running on a machine, over one table of       *)
(* process ids that the operating system hands out again.                  *)
(*                                                                         *)
(*   leases  one file per lease, written and removed under a lock directory*)
(*           by the MCP server that holds the lease (lease_registry.rs); a *)
(*           record also names its process's start time                    *)
(*   runs    one file with every launched harness, loaded, changed and     *)
(*           saved whole under a mutex of the launching process (runs.rs); *)
(*           other processes list and kill                                 *)
(*                                                                         *)
(* Both only report: nothing is authorized by them.  What they must not do *)
(* is tell of something that is not there, or forget what is.              *)
(***************************************************************************)
EXTENDS Naturals, FiniteSets

CONSTANTS
    Pids,
    Launchers, Threads, LauncherOf,  \* processes that launch harnesses, and their worker threads
    Commands,       \* `report runs`, `kill`: one process each
    None,
    MaxBirths,      \* bound: processes started
    MaxOps          \* bound: leases opened, closed or ended, and commands

\* The record of a lease, of a launched harness, and runs.json.
Record == [instance: Nat, pid: Pids, token: Nat \cup {None}]
Run == [pid: Pids, birth: Nat]
Runs == [Threads -> Run \cup {None}]

ASSUME RegistryAssumption ==
    /\ LauncherOf \in [Threads -> Launchers]
    /\ Launchers \cap Commands = {}
    /\ None \notin Nat \cup Record \cup Run \cup Runs
    /\ MaxBirths \in Nat /\ MaxOps \in Nat

VARIABLES
    os,        \* who has each pid: a kind, and a start time that never comes twice
    births,
    leases,    \* ~/.agentstack/leases/*.json
    lockDir,   \* leases.lock.d: the start time of its maker, or None
    held,      \* the lease each server has in memory: None, Unrecorded or its instance
    at, work,  \* each server's place in lease_registry.rs
    runs,      \* runs.json
    stage, child, map,  \* each launching thread, its harness, what it loaded
    command,   \* each command's place and what it loaded
    ops,
    \* history, which no step of the code reads:
    forgotten, \* leases that ended, or were replaced, with their record left there
    slip       \* windows a step fell into

system == <<os, births>>
leaseVars == <<leases, lockDir, held, at, work>>
threadVars == <<stage, child, map>>
vars == <<system, leaseVars, runs, threadVars, command, ops, forgotten, slip>>

Unrecorded == 0

Free == [kind |-> "free", birth |-> 0]
NoWork == [op |-> "none", record |-> None, todo |-> {}, ok |-> FALSE]
NoCommand == [op |-> "none", id |-> None, base |-> None]

Init ==
    /\ os = [p \in Pids |-> Free]
    /\ births = 0
    /\ leases = {}
    /\ lockDir = None
    /\ held = [p \in Pids |-> None]
    /\ at = [p \in Pids |-> "idle"]
    /\ work = [p \in Pids |-> NoWork]
    /\ runs = [t \in Threads |-> None]
    /\ stage = [t \in Threads |-> "idle"]
    /\ child = [t \in Threads |-> None]
    /\ map = [t \in Threads |-> None]
    /\ command = [c \in Commands |-> NoCommand]
    /\ ops = 0
    /\ forgotten = {}
    /\ slip = {}

Slips(name, when) == IF when THEN slip \cup {name} ELSE slip

-----------------------------------------------------------------------------
(* The operating system                                                    *)

Alive(pid) == os[pid].kind # "free"

\* A process starts on a free pid.
Starts(p, kind) ==
    /\ ~Alive(p)
    /\ births < MaxBirths
    /\ births' = births + 1
    /\ os' = [os EXCEPT ![p] = [kind |-> kind, birth |-> births']]

Boot(p, kind) ==
    /\ Starts(p, kind)
    /\ UNCHANGED <<leaseVars, runs, threadVars, command, ops, forgotten, slip>>

Parents(p) == {t \in Threads : stage[t] \in {"spawned", "insert", "waiting"}
                               /\ child[t] = [pid |-> p, birth |-> os[p].birth]}

\* What a pid is once its process has ended: its parent has yet to wait for it.
AfterEnd(p) ==
    IF os[p].kind = "harness" /\ Parents(p) # {} THEN [os[p] EXCEPT !.kind = "zombie"]
    ELSE IF os[p].kind = "zombie" THEN os[p]
    ELSE Free

\* Any process may end at any point; a server's memory goes with it, what it
\* had on disk stays.
Die(p) ==
    /\ os[p].kind \in {"server", "harness", "other"}
    /\ os' = [os EXCEPT ![p] = AfterEnd(p)]
    /\ held' = [held EXCEPT ![p] = None]
    /\ at' = [at EXCEPT ![p] = "idle"]
    /\ work' = [work EXCEPT ![p] = NoWork]
    /\ UNCHANGED <<births, leases, lockDir, runs, threadVars, command, ops, forgotten, slip>>

-----------------------------------------------------------------------------
(* The lease registry                                                      *)

\* Mutant: a process with the recorded number is the recorded process.
LivenessByPid(r) == IF Alive(r.pid) THEN {"live"} ELSE {"stale"}

\* liveness: by pid and start time.  The two are read one after the other, and
\* the second may fail: then nothing is claimed.
Liveness(r) ==
    IF ~Alive(r.pid) THEN {"stale"}
    ELSE {"unknown"} \cup
         (IF r.token = None THEN {}
          ELSE IF r.token = os[r.pid].birth THEN {"live"} ELSE {"stale"})

Goes(p, place, w) ==
    /\ at' = [at EXCEPT ![p] = place]
    /\ work' = [work EXCEPT ![p] = w]

Asks(p) ==
    /\ os[p].kind = "server" /\ at[p] = "idle"
    /\ ops < MaxOps
    /\ ops' = ops + 1

\* lease_open, past its gates: the record is made up before the lock is taken.
Open(p) ==
    /\ Asks(p)
    /\ \E token \in {os[p].birth, None} :
           Goes(p, "lock", [NoWork EXCEPT !.op = "open",
                                          !.record = [instance |-> ops', pid |-> p, token |-> token]])
    /\ UNCHANGED <<system, leases, lockDir, held, runs, threadVars, command, forgotten, slip>>

Recorded(p) == held[p] \notin {None, Unrecorded}

Unregisters(p, op) ==
    Goes(p, "lock", [NoWork EXCEPT !.op = op, !.record = [instance |-> held[p], pid |-> p, token |-> None]])

\* lease_close: the lease leaves memory first.
Close(p) ==
    /\ Asks(p)
    /\ held[p] # None
    /\ held' = [held EXCEPT ![p] = None]
    /\ IF Recorded(p) THEN Unregisters(p, "close") ELSE UNCHANGED <<at, work>>
    /\ UNCHANGED <<system, leases, lockDir, runs, threadVars, command, forgotten, slip>>

\* A clean end of the connection takes its record along.
Exit(p) ==
    /\ Asks(p)
    /\ Recorded(p)
    /\ Unregisters(p, "exit")
    /\ UNCHANGED <<system, leases, lockDir, held, runs, threadVars, command, forgotten, slip>>

\* with_registry_lock: create_dir.
TakeLock(p) ==
    /\ at[p] = "lock"
    /\ lockDir = None
    /\ lockDir' = os[p].birth
    /\ IF work[p].op = "open" THEN Goes(p, "prune", [work[p] EXCEPT !.todo = leases])
       ELSE Goes(p, "remove", work[p])
    /\ UNCHANGED <<system, leases, held, runs, threadVars, command, ops, forgotten, slip>>

\* Only a sentinel whose maker is gone grows old.
SeeStale(p) ==
    /\ at[p] = "lock"
    /\ lockDir # None
    /\ \A q \in Pids : os[q].birth # lockDir
    /\ Goes(p, "break", work[p])
    /\ UNCHANGED <<system, leases, lockDir, held, runs, threadVars, command, ops, forgotten, slip>>

\* remove_dir of the stale sentinel, whoever's it is by now.
BreakLock(p) ==
    /\ at[p] = "break"
    /\ lockDir' = None
    /\ Goes(p, "lock", work[p])
    /\ UNCHANGED <<system, leases, held, runs, threadVars, command, ops, forgotten, slip>>

\* The call is over: the lease is open, recorded or not, closed, or the
\* process gone.  A lease that was open already is replaced in memory, its
\* record stays.
Ends(p, ok) ==
    LET w == work[p] IN
    /\ Goes(p, "idle", NoWork)
    /\ held' = [held EXCEPT ![p] = CASE w.op = "open"  -> IF ok THEN w.record.instance ELSE Unrecorded
                                     [] w.op = "close" -> @
                                     [] w.op = "exit"  -> None]
    /\ os' = IF w.op = "exit" THEN [os EXCEPT ![p] = Free] ELSE os
    /\ forgotten' = forgotten \cup (IF w.op = "open" THEN {held[p]} ELSE IF ok THEN {} ELSE {w.record.instance})

\* The lock is held past the deadline, or cannot be made.
GiveUp(p) ==
    /\ at[p] = "lock"
    /\ Ends(p, FALSE)
    /\ UNCHANGED <<births, leases, lockDir, runs, threadVars, command, ops, slip>>

\* prune_stale_locked: the listed records one by one.  A record judged stale
\* is stale for ever, so judging and removing it are one step.
Prune(p, r) ==
    /\ at[p] = "prune"
    /\ r \in work[p].todo
    /\ \E verdict \in Liveness(r) :
           leases' = IF verdict = "stale" THEN leases \ {r} ELSE leases
    /\ Goes(p, "prune", [work[p] EXCEPT !.todo = @ \ {r}])
    /\ UNCHANGED <<system, lockDir, held, runs, threadVars, command, ops, forgotten, slip>>

\* The record is written by one rename, or not at all.
WriteRecord(p) ==
    /\ at[p] = "prune" /\ work[p].todo = {}
    /\ \/ leases' = leases \cup {work[p].record} /\ Goes(p, "unlock", [work[p] EXCEPT !.ok = TRUE])
       \/ Goes(p, "unlock", work[p]) /\ UNCHANGED leases
    /\ UNCHANGED <<system, lockDir, held, runs, threadVars, command, ops, forgotten, slip>>

Files(instance) == {r \in leases : r.instance = instance}

\* remove_file, whose failure is ignored like the lock's.
RemoveRecord(p) ==
    /\ at[p] = "remove"
    /\ \/ leases' = leases \ Files(work[p].record.instance) /\ Goes(p, "unlock", [work[p] EXCEPT !.ok = TRUE])
       \/ Goes(p, "unlock", work[p]) /\ UNCHANGED leases
    /\ UNCHANGED <<system, lockDir, held, runs, threadVars, command, ops, forgotten, slip>>

\* remove_dir, and back in the caller.
Unlock(p) ==
    /\ at[p] = "unlock"
    /\ lockDir' = None
    /\ Ends(p, work[p].ok)
    /\ UNCHANGED <<births, leases, runs, threadVars, command, ops, slip>>

-----------------------------------------------------------------------------
(* The run registry                                                        *)

\* REGISTRY_LOCK: one thread of a process between load and save.
GuardFree(t) ==
    \A u \in Threads : LauncherOf[u] = LauncherOf[t] => stage[u] \notin {"insert", "remove"}

Moves(t, place) == stage' = [stage EXCEPT ![t] = place]

\* A harness is spawned in a process group of its own.
Launch(t, p) ==
    /\ stage[t] = "idle"
    /\ Starts(p, "harness")
    /\ child' = [child EXCEPT ![t] = [pid |-> p, birth |-> births']]
    /\ Moves(t, "spawned")
    /\ UNCHANGED <<leaseVars, runs, map, command, ops, forgotten, slip>>

\* Mutant: two threads of one process may be between load and save.
LoadRunsUnguarded(t) ==
    /\ \/ stage[t] = "spawned" /\ Moves(t, "insert")
       \/ stage[t] = "reaped" /\ Moves(t, "remove")
    /\ map' = [map EXCEPT ![t] = runs]
    /\ UNCHANGED <<system, leaseVars, runs, child, command, ops, forgotten, slip>>

\* registry_insert and registry_remove load the whole file,
LoadRuns(t) ==
    /\ GuardFree(t)
    /\ \/ stage[t] = "spawned" /\ Moves(t, "insert")
       \/ stage[t] = "reaped" /\ Moves(t, "remove")
    /\ map' = [map EXCEPT ![t] = runs]
    /\ UNCHANGED <<system, leaseVars, runs, child, command, ops, forgotten, slip>>

\* Processes that have loaded the file and not yet saved it.
Between == {LauncherOf[t] : t \in {u \in Threads : map[u] # None}}
           \cup {c \in Commands : command[c].base # None}

\* A save, best effort.  What another process loaded before it will be saved
\* over it.
Saves(process, new) ==
    \/ runs' = new /\ slip' = Slips("overlapped", Between # {process})
    \/ slip' = slip \cup {"unsaved"} /\ UNCHANGED runs

\* Mutant: the file is written with the one record only.
SaveRunsAlone(t) ==
    /\ stage[t] \in {"insert", "remove"}
    /\ Saves(LauncherOf[t], [u \in {t} |-> IF stage[t] = "insert" THEN child[t] ELSE None])
    /\ Moves(t, IF stage[t] = "insert" THEN "waiting" ELSE "over")
    /\ map' = [map EXCEPT ![t] = None]
    /\ UNCHANGED <<system, leaseVars, child, command, ops, forgotten>>

\* and save it with their one record changed.
SaveRuns(t) ==
    /\ stage[t] \in {"insert", "remove"}
    /\ Saves(LauncherOf[t], [map[t] EXCEPT ![t] = IF stage[t] = "insert" THEN child[t] ELSE None])
    /\ Moves(t, IF stage[t] = "insert" THEN "waiting" ELSE "over")
    /\ map' = [map EXCEPT ![t] = None]
    /\ UNCHANGED <<system, leaseVars, child, command, ops, forgotten>>

\* wait() returns, and the pid is free from then on.
Reap(t) ==
    /\ stage[t] = "waiting"
    /\ os[child[t].pid].kind = "zombie"
    /\ os' = [os EXCEPT ![child[t].pid] = Free]
    /\ Moves(t, "reaped")
    /\ UNCHANGED <<births, leaseVars, runs, child, map, command, ops, forgotten, slip>>

Own(l) == {t \in Threads : LauncherOf[t] = l}

\* The launching process dies: its harnesses live on, their records too.
LauncherDies(l) ==
    /\ \E t \in Own(l) : stage[t] \notin {"idle", "over"}
    /\ stage' = [t \in Threads |-> IF t \in Own(l) THEN "over" ELSE stage[t]]
    /\ map' = [t \in Threads |-> IF t \in Own(l) THEN None ELSE map[t]]
    /\ os' = [p \in Pids |-> IF os[p].kind = "zombie" /\ Own(l) \cap Parents(p) # {} THEN Free ELSE os[p]]
    /\ slip' = slip \cup {"orphaned"}
    /\ UNCHANGED <<births, leaseVars, runs, child, command, ops, forgotten>>

Dead(record) == record # None /\ ~Alive(record.pid)

Commanded(c, op, t, base) ==
    command' = [command EXCEPT ![c] = [op |-> op, id |-> t, base |-> base]]

\* list: what is dead by its pid is dropped, and the file saved if any was.
List(c) ==
    /\ command[c] = NoCommand
    /\ ops < MaxOps /\ ops' = ops + 1
    /\ \E t \in Threads : Dead(runs[t])
    /\ Commanded(c, "save", None, [t \in Threads |-> IF Dead(runs[t]) THEN None ELSE runs[t]])
    /\ UNCHANGED <<system, leaseVars, runs, threadVars, forgotten, slip>>

\* kill: the record is looked up; --force skips the polite signal.
Kill(c, t) ==
    /\ command[c] = NoCommand
    /\ runs[t] # None
    /\ ops < MaxOps /\ ops' = ops + 1
    /\ \E op \in {"term", "kill"} : Commanded(c, op, t, runs)
    /\ UNCHANGED <<system, leaseVars, runs, threadVars, forgotten, slip>>

\* The signal reaches whoever leads a process group of that number: the
\* harness, which may outlive a polite one, or an unrelated process; when
\* nobody does, that is as good.
Signalled(pid, deadly) ==
    \/ os[pid].kind \in {"harness", "other"} /\ os' = [os EXCEPT ![pid] = AfterEnd(pid)]
    \/ ~(deadly /\ os[pid].kind = "harness") /\ UNCHANGED os

Term(c) ==
    /\ command[c].op = "term"
    /\ Signalled(command[c].base[command[c].id].pid, FALSE)
    /\ Commanded(c, "grace", command[c].id, command[c].base)
    /\ UNCHANGED <<births, leaseVars, runs, threadVars, ops, forgotten, slip>>

\* Whatever outlives the grace period, or at once.
Terminate(c) ==
    /\ command[c].op \in {"grace", "kill"}
    /\ Signalled(command[c].base[command[c].id].pid, TRUE)
    /\ Commanded(c, "save", None, [command[c].base EXCEPT ![command[c].id] = None])
    /\ UNCHANGED <<births, leaseVars, runs, threadVars, ops, forgotten, slip>>

\* An unrelated process that may not be signalled ends the command with an error.
NotPermitted(c) ==
    /\ command[c].op \in {"term", "grace", "kill"}
    /\ os[command[c].base[command[c].id].pid].kind = "other"
    /\ command' = [command EXCEPT ![c] = NoCommand]
    /\ UNCHANGED <<system, leaseVars, runs, threadVars, ops, forgotten, slip>>

\* The map as it was loaded, less what was dead or killed.
SaveCommand(c) ==
    /\ command[c].op = "save"
    /\ Saves(c, command[c].base)
    /\ command' = [command EXCEPT ![c] = NoCommand]
    /\ UNCHANGED <<system, leaseVars, threadVars, ops, forgotten>>

-----------------------------------------------------------------------------

Server(p) ==
    \/ Open(p) \/ Close(p) \/ Exit(p)
    \/ TakeLock(p) \/ SeeStale(p) \/ BreakLock(p) \/ GiveUp(p)
    \/ \E r \in work[p].todo : Prune(p, r)
    \/ WriteRecord(p) \/ RemoveRecord(p) \/ Unlock(p)

Thread(t) ==
    \/ \E p \in Pids : Launch(t, p)
    \/ LoadRuns(t) \/ SaveRuns(t) \/ Reap(t)

Other(c) ==
    \/ List(c)
    \/ \E t \in Threads : Kill(c, t)
    \/ Term(c) \/ Terminate(c) \/ NotPermitted(c) \/ SaveCommand(c)

Next ==
    \/ \E p \in Pids : Boot(p, "server") \/ Boot(p, "other") \/ Die(p) \/ Server(p)
    \/ \E t \in Threads : Thread(t)
    \/ \E l \in Launchers : LauncherDies(l)
    \/ \E c \in Commands : Other(c)

Spec == Init /\ [][Next]_vars

-----------------------------------------------------------------------------
(* Properties                                                              *)

TypeOK ==
    /\ os \in [Pids -> [kind: {"free", "server", "harness", "zombie", "other"}, birth: Nat]]
    /\ births \in 0..MaxBirths
    /\ leases \subseteq Record
    /\ lockDir \in Nat \cup {None}
    /\ held \in [Pids -> Nat \cup {None}]
    /\ at \in [Pids -> {"idle", "lock", "break", "prune", "remove", "unlock"}]
    /\ work \in [Pids -> [op: {"none", "open", "close", "exit"}, record: Record \cup {None},
                          todo: SUBSET Record, ok: BOOLEAN]]
    /\ runs \in Runs
    /\ stage \in [Threads -> {"idle", "spawned", "insert", "waiting", "reaped", "remove", "over"}]
    /\ child \in [Threads -> Run \cup {None}]
    /\ map \in [Threads -> Runs \cup {None}]
    /\ command \in [Commands -> [op: {"none", "term", "grace", "kill", "save"},
                                 id: Threads \cup {None}, base: Runs \cup {None}]]

\* "A stale record never reads as live", and a live one is there to be read:
\* a record that reads live is of a lease its process has open, or is opening
\* or closing; a recorded lease has its record as long as it is open, whatever
\* others prune and whoever gets the pid of a process that crashed.  The
\* exception: leases replaced, or closed with their record left there.
LeasesAreTold ==
    /\ \A r \in leases :
           "live" \in Liveness(r) =>
               \/ r.instance \in {held[r.pid]} \cup forgotten
               \/ at[r.pid] # "idle" /\ work[r.pid].record.instance = r.instance
    /\ \A p \in Pids : Recorded(p) /\ work[p].op # "exit" => Files(held[p]) # {}

\* Threads of one process lose no record of each other, and no record outlives
\* the wait for its harness, to be shown, or killed, under another's pid.  The
\* exceptions: another process between load and save, a save that failed, a
\* launcher that died.
RunsAreTold ==
    slip = {} =>
        \A t \in Threads :
            /\ stage[t] = "waiting" /\ os[child[t].pid].kind = "harness" => runs[t] = child[t]
            /\ runs[t] # None /\ stage[t] \notin {"reaped", "remove"} => os[runs[t].pid].birth = runs[t].birth
=============================================================================
