----------------------------- MODULE TrustStore -----------------------------
(***************************************************************************)
(* The trust store of crates/trust/src/lib.rs as its processes run it.     *)
(* Every agentstack process mutates one whole-file map (trust.json) by     *)
(* load, modify, save under with_store_lock, whose primitive is the        *)
(* creation of the directory trust.lock.d: create_dir either creates it or *)
(* fails because it exists.  The sentinel names no owner; one older than   *)
(* STORE_LOCK_STALE is taken for a crashed writer's and removed by whoever *)
(* sees it.  After a save, and before the lock is released, the writer     *)
(* appends one line to audit/trust.jsonl, best effort.                     *)
(*                                                                         *)
(* Each step below is one file-system operation; between any two of them   *)
(* another process may run, and any process may die.                       *)
(***************************************************************************)
EXTENDS TrustEntries, Sequences

CONSTANTS
    Procs,         \* agentstack processes
    NoCall,        \* a process outside with_store_lock
    Environments,  \* what may happen around the processes of one behaviour
    MaxCalls,      \* bound: calls started
    MaxCrashes     \* bound: processes that die inside with_store_lock

\* ages: the behaviour outlasts STORE_LOCK_STALE, so an abandoned sentinel may
\* grow stale.  removalFails: remove_dir may fail, which is always ignored.
ASSUME TrustStoreAssumption ==
    /\ Environments \subseteq [ages: BOOLEAN, removalFails: BOOLEAN]
    /\ MaxCalls \in Nat
    /\ MaxCrashes \in Nat

VARIABLES
    store,     \* trust.json
    lockDir,   \* trust.lock.d: "none", "fresh" or "stale" (older than STORE_LOCK_STALE)
    log,       \* audit/trust.jsonl
    pc,        \* where each process is in with_store_lock
    call,      \* the mutation each process was asked for
    mem,       \* its loaded copy of the store
    late,      \* its STORE_LOCK_WAIT deadline has passed
    event,     \* the line it is about to append
    calls,     \* calls started so far
    crashes,   \* processes that died so far
    lost,      \* history: some line never reached the log
    env        \* the environment of this behaviour

vars == <<store, lockDir, log, pc, call, mem, late, event, calls, crashes, lost, env>>

Locations == {"idle", "create", "stat", "break", "load", "save", "record", "release", "dead"}

\* Inside the critical section the lock is meant to protect.
InLock(p) == pc[p] \in {"load", "save", "record", "release"}

TypeOK ==
    /\ store \in Store
    /\ lockDir \in {"none", "fresh", "stale"}
    /\ log \in Seq(TrustMutation)
    /\ pc \in [Procs -> Locations]
    /\ call \in [Procs -> Call \cup {NoCall}]
    /\ mem \in [Procs -> Store]
    /\ late \in [Procs -> BOOLEAN]
    /\ event \in [Procs -> TrustMutation \cup {NoEvent}]
    /\ calls \in Nat
    /\ crashes \in Nat
    /\ lost \in BOOLEAN
    /\ env \in Environments

Init ==
    /\ store = EmptyStore
    /\ lockDir = "none"
    /\ log = <<>>
    /\ pc = [p \in Procs |-> "idle"]
    /\ call = [p \in Procs |-> NoCall]
    /\ mem = [p \in Procs |-> EmptyStore]
    /\ late = [p \in Procs |-> FALSE]
    /\ event = [p \in Procs |-> NoEvent]
    /\ calls = 0
    /\ crashes = 0
    /\ lost = FALSE
    /\ env \in Environments

-----------------------------------------------------------------------------
(* Taking the lock                                                         *)

Begin(p, c) ==
    /\ pc[p] = "idle"
    /\ calls < MaxCalls
    /\ calls' = calls + 1
    /\ pc' = [pc EXCEPT ![p] = "create"]
    /\ call' = [call EXCEPT ![p] = c]
    /\ UNCHANGED <<store, lockDir, log, mem, late, event, crashes, lost, env>>

\* The call returns, or its process dies: its locals are gone.
Leave(p, where) ==
    /\ pc' = [pc EXCEPT ![p] = where]
    /\ call' = [call EXCEPT ![p] = NoCall]
    /\ mem' = [mem EXCEPT ![p] = EmptyStore]
    /\ late' = [late EXCEPT ![p] = FALSE]
    /\ event' = [event EXCEPT ![p] = NoEvent]

\* Mutant: create_dir_all, which succeeds on a directory that exists.
CreateDirAll(p) ==
    /\ pc[p] = "create"
    /\ lockDir' = "fresh"
    /\ pc' = [pc EXCEPT ![p] = "load"]
    /\ UNCHANGED <<store, log, call, mem, late, event, calls, crashes, lost, env>>

\* create_dir: the one atomic step.
CreateDir(p) ==
    /\ pc[p] = "create"
    /\ \/ /\ lockDir = "none"
          /\ lockDir' = "fresh"
          /\ pc' = [pc EXCEPT ![p] = "load"]
       \/ /\ lockDir # "none"
          /\ pc' = [pc EXCEPT ![p] = "stat"]
          /\ UNCHANGED lockDir
    /\ UNCHANGED <<store, log, call, mem, late, event, calls, crashes, lost, env>>

\* Mutant: the deadline is never looked at.
StatWithoutDeadline(p) ==
    /\ pc[p] = "stat"
    /\ pc' = [pc EXCEPT ![p] = IF lockDir = "stale" THEN "break" ELSE "create"]
    /\ UNCHANGED <<store, lockDir, log, call, mem, late, event, calls, crashes, lost, env>>

\* metadata: a stale sentinel is broken before the deadline is looked at; a
\* missing or a fresh one is waited for until the deadline, then the call
\* fails with nothing written.
Stat(p) ==
    /\ pc[p] = "stat"
    /\ \/ /\ lockDir = "stale"
          /\ pc' = [pc EXCEPT ![p] = "break"]
          /\ UNCHANGED <<call, mem, late, event>>
       \/ /\ lockDir # "stale"
          /\ ~late[p]
          /\ pc' = [pc EXCEPT ![p] = "create"]
          /\ UNCHANGED <<call, mem, late, event>>
       \/ /\ lockDir # "stale"
          /\ late[p]
          /\ Leave(p, "idle")
    /\ UNCHANGED <<store, lockDir, log, calls, crashes, lost, env>>

\* What remove_dir leaves at the path: it removes whatever stands there by now.
AfterRemoveDir == IF env.removalFails THEN {"none", lockDir} ELSE {"none"}

BreakStale(p) ==
    /\ pc[p] = "break"
    /\ lockDir' \in AfterRemoveDir
    /\ pc' = [pc EXCEPT ![p] = "create"]
    /\ UNCHANGED <<store, log, call, mem, late, event, calls, crashes, lost, env>>

-----------------------------------------------------------------------------
(* The closure                                                             *)

\* TrustStore::load, and the early Ok(false) of a closure that has nothing to write.
Load(p) ==
    /\ pc[p] = "load"
    /\ mem' = [mem EXCEPT ![p] = store]
    /\ pc' = [pc EXCEPT ![p] =
                IF Writes(store[call[p].project], call[p]) THEN "save" ELSE "release"]
    /\ UNCHANGED <<store, lockDir, log, call, late, event, calls, crashes, lost, env>>

\* Mutant: the guard is dropped as soon as the store is saved.
SaveAndUnlock(p) ==
    /\ pc[p] = "save"
    /\ store' = Applied(mem[p], call[p])
    /\ event' = [event EXCEPT ![p] = Event(mem[p][call[p].project], call[p])]
    /\ pc' = [pc EXCEPT ![p] = "record"]
    /\ lockDir' = "none"
    /\ UNCHANGED <<log, call, mem, late, calls, crashes, lost, env>>

\* TrustStore::save: the whole map is replaced by one rename, or not at all.
Save(p) ==
    /\ pc[p] = "save"
    /\ \/ /\ store' = Applied(mem[p], call[p])
          /\ event' = [event EXCEPT ![p] = Event(mem[p][call[p].project], call[p])]
          /\ pc' = [pc EXCEPT ![p] = "record"]
       \/ /\ pc' = [pc EXCEPT ![p] = "release"]
          /\ UNCHANGED <<store, event>>
    /\ UNCHANGED <<lockDir, log, call, mem, late, calls, crashes, lost, env>>

\* Mutant: the line is cleared before it is written.
RecordCleared(p) ==
    /\ pc[p] = "record"
    /\ event' = [event EXCEPT ![p] = NoEvent]
    /\ log' = Append(log, event'[p])
    /\ pc' = [pc EXCEPT ![p] = "release"]
    /\ UNCHANGED <<store, lockDir, call, mem, late, calls, crashes, lost, env>>

\* record_mutation: appended, or swallowed.
RecordMutation(p) ==
    /\ pc[p] = "record"
    /\ \/ log' = Append(log, event[p]) /\ UNCHANGED lost
       \/ lost' = TRUE /\ UNCHANGED log
    /\ event' = [event EXCEPT ![p] = NoEvent]
    /\ pc' = [pc EXCEPT ![p] = "release"]
    /\ UNCHANGED <<store, lockDir, call, mem, late, calls, crashes, env>>

\* LockGuard::drop, on return and on unwind: remove_dir, failure ignored.
Release(p) ==
    /\ pc[p] = "release"
    /\ lockDir' \in AfterRemoveDir
    /\ Leave(p, "idle")
    /\ UNCHANGED <<store, log, calls, crashes, lost, env>>

-----------------------------------------------------------------------------
(* Time and death                                                          *)

Deadline(p) ==
    /\ pc[p] \in {"create", "stat", "break"}
    /\ ~late[p]
    /\ late' = [late EXCEPT ![p] = TRUE]
    /\ UNCHANGED <<store, lockDir, log, pc, call, mem, event, calls, crashes, lost, env>>

\* A healthy writer holds the lock for milliseconds, so only a sentinel that
\* nobody is working under grows older than STORE_LOCK_STALE.
Age ==
    /\ env.ages
    /\ lockDir = "fresh"
    /\ \A p \in Procs : ~InLock(p)
    /\ lockDir' = "stale"
    /\ UNCHANGED <<store, log, pc, call, mem, late, event, calls, crashes, lost, env>>

\* The process dies: no destructor runs, the sentinel stays, and a mutation
\* saved but not yet recorded never reaches the log.
Crash(p) ==
    /\ pc[p] \notin {"idle", "dead"}
    /\ crashes < MaxCrashes
    /\ crashes' = crashes + 1
    /\ Leave(p, "dead")
    /\ lost' = (lost \/ pc[p] = "record")
    /\ UNCHANGED <<store, lockDir, log, calls, env>>

-----------------------------------------------------------------------------

Locking(p) == CreateDir(p) \/ Stat(p) \/ BreakStale(p)

Closure(p) == Load(p) \/ Save(p) \/ RecordMutation(p) \/ Release(p)

Next ==
    \/ \E p \in Procs : \/ \E c \in Call : Begin(p, c)
                        \/ Locking(p)
                        \/ Closure(p)
                        \/ Deadline(p)
                        \/ Crash(p)
    \/ Age

Spec == Init /\ [][Next]_vars

\* A live process keeps running and its clock keeps going; nothing obliges a
\* call to begin, a process to die or a sentinel to be left behind.
Fairness == \A p \in Procs : WF_vars(Locking(p) \/ Closure(p)) /\ WF_vars(Deadline(p))

FairSpec == Spec /\ Fairness

-----------------------------------------------------------------------------
(* Properties                                                              *)

\* with_store_lock "serializes every load, modify, save": between one
\* process's load and its release no other process is in its closure.
OneWriter == \A p, q \in Procs : InLock(p) /\ InLock(q) => p = q

\* The comment on with_store_lock: a concurrent grant never resurrects an
\* entry that a racing revoke removed.  An entry appears only by a grant of
\* that very project.
NoResurrection ==
    [][\A r \in Projects :
         store[r] = NoEntry /\ store'[r] # NoEntry
           => \E p \in Procs : /\ pc[p] = "save" /\ pc'[p] = "record"
                               /\ call[p].kind = "grant" /\ call[p].project = r]_vars

Pinned(r) == IF store[r] = NoEntry THEN NoEntry ELSE store[r].digest

\* What a line of the log says its project is pinned to.
Says(e) == IF e.action = "revoke" THEN NoEntry ELSE e.digest

\* The log says nothing more of a project after this line.
LastWord(i) == \A j \in 1..Len(log) : j > i => log[j].project # log[i].project

Unmentioned(r) == \A i \in 1..Len(log) : log[i].project # r

\* The consent metrics are counted over the log: when every line was written
\* and none is still owed, reading it to its end gives exactly what the store
\* pins, project by project.
LogReplaysToStore ==
    ~lost /\ (\A p \in Procs : pc[p] # "record") =>
        /\ \A i \in 1..Len(log) : LastWord(i) => Pinned(log[i].project) = Says(log[i])
        /\ \A r \in Projects : Unmentioned(r) => Pinned(r) = NoEntry

\* The store is the ledger: every mutation is applied to the entry as it is at
\* that instant, and the log lists the mutations in store order.
Owed ==
    LET recording == {p \in Procs : pc[p] = "record"}
    IN  IF recording = {} THEN NoEvent ELSE event[CHOOSE p \in recording : TRUE]

Ledger == INSTANCE TrustLedger WITH owed <- Owed

ImplementsLedger == Ledger!LedgerSpec

\* Every call returns, whoever else dies holding the lock: it either gets the
\* lock or gives up at its deadline.
EveryCallReturns == \A p \in Procs : pc[p] # "idle" ~> pc[p] \in {"idle", "dead"}
=============================================================================
