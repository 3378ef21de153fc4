-------------------------- MODULE Registries_proofs --------------------------
(***************************************************************************)
(* Theorems about the two registries, for any number of pids, launchers,   *)
(* worker threads and commands, and any number of processes and calls.     *)
(***************************************************************************)
EXTENDS Registries, TLAPS

Work ==
    [op: {"none", "open", "close", "exit"}, record: Record \cup {None}, todo: SUBSET Record, ok: BOOLEAN]

Command ==
    [op: {"none", "term", "grace", "kill", "save"}, id: Threads \cup {None}, base: Runs \cup {None}]

Signals == {"term", "grace", "kill"}

Os == [kind: {"free", "server", "harness", "zombie", "other"}, birth: Nat]

Types == TypeOK /\ ops \in Nat

-----------------------------------------------------------------------------
(* The operating system and the launchers: what holds whatever is lost.    *)

\* A start time comes once: of a process, and of a thread's harness.
Births ==
    /\ \A p \in Pids : os[p].birth <= births /\ (os[p].kind = "free" => os[p].birth = 0)
    /\ \A t \in Threads : child[t] # None => child[t].birth \in 1..births
    /\ \A t, u \in Threads : child[t] # None /\ child[t] = child[u] => t = u

\* Until its thread has waited for it, a harness has its pid.
Harnessed ==
    /\ \A t \in Threads : stage[t] \notin {"idle", "over"} => child[t] # None
    /\ \A t \in Threads : stage[t] \in {"spawned", "insert", "waiting"} =>
         /\ os[child[t].pid].birth = child[t].birth
         /\ os[child[t].pid].kind \in {"harness", "zombie"}

\* REGISTRY_LOCK excludes, and a command knows what it is about.
Guarded ==
    /\ \A t \in Threads : map[t] # None <=> stage[t] \in {"insert", "remove"}
    /\ \A t, u \in Threads : map[t] # None /\ map[u] # None /\ LauncherOf[t] = LauncherOf[u] => t = u
    /\ \A c \in Commands :
         /\ command[c].base = None <=> command[c].op = "none"
         /\ command[c].op = "none" => command[c] = NoCommand
         /\ command[c].op \in Signals =>
              command[c].id \in Threads /\ command[c].base[command[c].id] # None

\* Nothing is lost: what anybody is between loading and saving with is what
\* is there, but for records of the dead.
Loaded(t) == map[t] = runs

Known(c) ==
    /\ command[c].op \in Signals => command[c].base = runs
    /\ command[c].op = "save" => \A t \in Threads :
         \/ command[c].base[t] = runs[t]
         \/ /\ command[c].base[t] = None
            /\ stage[t] = "waiting" => os[child[t].pid].kind # "harness"

Told(t) ==
    /\ runs[t] # None => runs[t] = child[t] /\ stage[t] \in {"waiting", "reaped", "remove"}
    /\ stage[t] = "waiting" /\ os[child[t].pid].kind = "harness" => runs[t] = child[t]

RunInv ==
    /\ Births /\ Harnessed /\ Guarded
    /\ slip = {} =>
         /\ \A t \in Threads : Told(t) /\ (map[t] # None => Loaded(t))
         /\ \A c \in Commands : Known(c)

-----------------------------------------------------------------------------
(* The leases                                                              *)

Busy(p) == work[p].op # "none"

\* Only a server has a lease or a call in the registry, and each call is
\* about a record of its own.
Calls ==
    \A p \in Pids :
      /\ held[p] # None \/ Busy(p) => os[p].kind = "server"
      /\ at[p] = "idle" <=> ~Busy(p)
      /\ Busy(p) => /\ work[p].record \in Record /\ work[p].record.pid = p
                    /\ work[p].record.instance \in 1..ops
      /\ at[p] \in {"lock", "break"} => ~work[p].ok
      /\ at[p] = "prune" => work[p].op = "open" /\ ~work[p].ok
      /\ at[p] = "remove" => work[p].op # "open" /\ ~work[p].ok
      /\ work[p].op = "open" => work[p].record.token \in {os[p].birth, None}
      /\ work[p].op = "close" => held[p] = None
      /\ work[p].op = "exit" => held[p] = work[p].record.instance

\* An instance is made up once.
Instances ==
    /\ \A r \in leases : r.instance \in 1..ops /\ (r.token # None => r.token \in 0..births)
    /\ \A p \in Pids : Recorded(p) => held[p] \in 1..ops
    /\ \A p \in Pids : work[p].op = "open" => held[p] # work[p].record.instance
    /\ \A p, q \in Pids : Recorded(p) /\ held[p] = held[q] => p = q
    /\ \A p, q \in Pids : Busy(p) /\ Busy(q) /\ work[p].record.instance = work[q].record.instance => p = q
    /\ \A p, q \in Pids : Busy(p) /\ held[q] = work[p].record.instance => p = q
    /\ \A r \in leases, p \in Pids :
         /\ Busy(p) /\ r.instance = work[p].record.instance => r.pid = p
         /\ Recorded(p) /\ r.instance = held[p] => r.pid = p

\* Where a record is, and where it is not.
Written ==
    \A p \in Pids :
      /\ Recorded(p) /\ work[p].op # "exit"
           => \E r \in leases : r.instance = held[p] /\ r.pid = p /\ r.token \in {os[p].birth, None}
      /\ work[p].op = "open" /\ work[p].ok => work[p].record \in leases
      /\ work[p].op = "open" /\ ~work[p].ok => Files(work[p].record.instance) = {}
      /\ work[p].op \in {"close", "exit"} /\ work[p].ok => Files(work[p].record.instance) = {}

Accounted(r) ==
    \/ r.instance = held[r.pid] \/ r.instance \in forgotten
    \/ Busy(r.pid) /\ work[r.pid].record.instance = r.instance

LeaseInv ==
    /\ Calls /\ Instances /\ Written
    /\ \A r \in leases : Alive(r.pid) /\ r.token = os[r.pid].birth => Accounted(r)


-----------------------------------------------------------------------------
(* Types                                                                   *)

LEMMA StateTypes ==
  ASSUME Types
  PROVE  /\ os \in [Pids -> Os] /\ births \in Nat /\ ops \in Nat
         /\ leases \subseteq Record /\ lockDir \in Nat \cup {None}
         /\ held \in [Pids -> Nat \cup {None}] /\ work \in [Pids -> Work]
         /\ runs \in Runs /\ child \in [Threads -> Run \cup {None}]
         /\ map \in [Threads -> Runs \cup {None}] /\ command \in [Commands -> Command]
  BY RegistryAssumption DEF Types, TypeOK, Os, Work, Command

LEMMA Accept ==
  ASSUME os' \in [Pids -> Os], births' \in 0..MaxBirths, ops' \in Nat,
         leases' \subseteq Record, lockDir' \in Nat \cup {None},
         held' \in [Pids -> Nat \cup {None}], work' \in [Pids -> Work],
         at' \in [Pids -> {"idle", "lock", "break", "prune", "remove", "unlock"}],
         runs' \in Runs, child' \in [Threads -> Run \cup {None}],
         stage' \in [Threads -> {"idle", "spawned", "insert", "waiting", "reaped", "remove", "over"}],
         map' \in [Threads -> Runs \cup {None}], command' \in [Commands -> Command]
  PROVE  Types'
  BY DEF Types, TypeOK, Os, Work, Command

\* Where a step of a server leaves it.
LEMMA GoesTypes ==
  ASSUME Types, NEW p \in Pids, NEW place \in {"idle", "lock", "break", "prune", "remove", "unlock"},
         NEW w \in Work, Goes(p, place, w)
  PROVE  /\ work' \in [Pids -> Work]
         /\ at' \in [Pids -> {"idle", "lock", "break", "prune", "remove", "unlock"}]
  BY StateTypes DEF Goes, Types, TypeOK

LEMMA EndTypes ==
  ASSUME Types, NEW p \in Pids
  PROVE  AfterEnd(p) \in Os /\ Free \in Os /\ NoWork \in Work
  BY StateTypes DEF AfterEnd, Os, Free, NoWork, Work

LEMMA EndsTypes ==
  ASSUME Types, Calls, NEW p \in Pids, NEW ok \in BOOLEAN, at[p] # "idle", Ends(p, ok)
  PROVE  /\ work' \in [Pids -> Work] /\ os' \in [Pids -> Os] /\ held' \in [Pids -> Nat \cup {None}]
         /\ at' \in [Pids -> {"idle", "lock", "break", "prune", "remove", "unlock"}]
<1>1. work' \in [Pids -> Work] /\ at' \in [Pids -> {"idle", "lock", "break", "prune", "remove", "unlock"}]
  BY GoesTypes, EndTypes DEF Ends
<1>2. os' \in [Pids -> Os]
  BY StateTypes, EndTypes DEF Ends
<1>3. work[p].op \in {"open", "close", "exit"} /\ work[p].record.instance \in Nat /\ held[p] \in Nat \cup {None}
  BY StateTypes DEF Calls, Busy, Work, Record
<1>4. held' \in [Pids -> Nat \cup {None}]
  BY <1>3, StateTypes DEF Ends, Unrecorded
<1>5. QED
  BY <1>1, <1>2, <1>4

LEMMA ServerTypes ==
  ASSUME Types, Calls, NEW p \in Pids, Server(p)
  PROVE  Types'
<1> USE DEF system, leaseVars, threadVars
<1>a. /\ os \in [Pids -> Os] /\ births \in 0..MaxBirths /\ ops \in Nat
      /\ leases \subseteq Record /\ lockDir \in Nat \cup {None}
      /\ held \in [Pids -> Nat \cup {None}] /\ work \in [Pids -> Work]
      /\ at \in [Pids -> {"idle", "lock", "break", "prune", "remove", "unlock"}]
      /\ runs \in Runs /\ child \in [Threads -> Run \cup {None}]
      /\ stage \in [Threads -> {"idle", "spawned", "insert", "waiting", "reaped", "remove", "over"}]
      /\ map \in [Threads -> Runs \cup {None}] /\ command \in [Commands -> Command]
  BY StateTypes DEF Types, TypeOK
<1>b. work[p] \in Work /\ os[p].birth \in Nat /\ held[p] \in Nat \cup {None}
  BY <1>a DEF Os
<1>1. CASE Open(p)
  <2>1. ops' \in Nat
    BY <1>1, <1>a DEF Open, Asks
  <2>2. PICK token \in {os[p].birth, None} :
          Goes(p, "lock", [NoWork EXCEPT !.op = "open",
                                         !.record = [instance |-> ops', pid |-> p, token |-> token]])
    BY <1>1 DEF Open
  <2>3. [NoWork EXCEPT !.op = "open", !.record = [instance |-> ops', pid |-> p, token |-> token]] \in Work
    BY <1>b, <2>1 DEF NoWork, Work, Record
  <2>4. QED
    BY <1>1, <1>a, <2>1, <2>2, <2>3, GoesTypes, Accept DEF Open
<1>2. ASSUME NEW op \in {"close", "exit"}, Unregisters(p, op), Recorded(p)
      PROVE  /\ work' \in [Pids -> Work]
             /\ at' \in [Pids -> {"idle", "lock", "break", "prune", "remove", "unlock"}]
  <2>1. [NoWork EXCEPT !.op = op, !.record = [instance |-> held[p], pid |-> p, token |-> None]] \in Work
    BY <1>2, <1>b DEF NoWork, Work, Record, Recorded
  <2>2. QED
    BY <1>2, <2>1, GoesTypes DEF Unregisters
<1>3. CASE Close(p)
  <2>1. ops' \in Nat /\ held' \in [Pids -> Nat \cup {None}]
    BY <1>3, <1>a DEF Close, Asks
  <2>2. /\ work' \in [Pids -> Work]
        /\ at' \in [Pids -> {"idle", "lock", "break", "prune", "remove", "unlock"}]
    BY <1>3, <1>2, <1>a DEF Close
  <2>3. QED
    BY <1>3, <1>a, <2>1, <2>2, Accept DEF Close
<1>4. CASE Exit(p)
  <2>1. ops' \in Nat
    BY <1>4, <1>a DEF Exit, Asks
  <2>2. QED
    BY <1>4, <1>2, <1>a, <2>1, Accept DEF Exit
<1>5. CASE TakeLock(p)
  <2>1. [work[p] EXCEPT !.todo = leases] \in Work
    BY <1>a, <1>b DEF Work
  <2>2. /\ work' \in [Pids -> Work]
        /\ at' \in [Pids -> {"idle", "lock", "break", "prune", "remove", "unlock"}]
    BY <1>5, <1>b, <2>1, GoesTypes DEF TakeLock
  <2>3. QED
    BY <1>5, <1>a, <1>b, <2>2, Accept DEF TakeLock
<1>6. CASE SeeStale(p)
  BY <1>6, <1>a, <1>b, GoesTypes, Accept DEF SeeStale
<1>7. CASE BreakLock(p)
  BY <1>7, <1>a, <1>b, GoesTypes, Accept DEF BreakLock
<1>8. CASE GiveUp(p)
  BY <1>8, <1>a, EndsTypes, Accept DEF GiveUp
<1>9. ASSUME NEW r \in work[p].todo, Prune(p, r)
      PROVE  Types'
  <2>1. [work[p] EXCEPT !.todo = @ \ {r}] \in Work
    BY <1>b DEF Work
  <2>2. leases' \subseteq Record
    BY <1>9, <1>a DEF Prune
  <2>3. QED
    BY <1>9, <1>a, <2>1, <2>2, GoesTypes, Accept DEF Prune
<1>10. [work[p] EXCEPT !.ok = TRUE] \in Work
  BY <1>b DEF Work
<1>11. CASE WriteRecord(p)
  <2>1. work[p].record \in Record
    BY <1>11 DEF WriteRecord, Calls, Busy
  <2>2. QED
    BY <1>11, <1>a, <1>b, <1>10, <2>1, GoesTypes, Accept DEF WriteRecord
<1>12. CASE RemoveRecord(p)
  BY <1>12, <1>a, <1>b, <1>10, GoesTypes, Accept DEF RemoveRecord
<1>13. CASE Unlock(p)
  BY <1>13, <1>a, <1>b, EndsTypes, Accept DEF Unlock, Work
<1>14. QED
  BY <1>1, <1>3, <1>4, <1>5, <1>6, <1>7, <1>8, <1>9, <1>11, <1>12, <1>13 DEF Server

LEMMA SavesTypes ==
  ASSUME Types, NEW process, NEW new \in Runs, Saves(process, new)
  PROVE  runs' \in Runs
  BY StateTypes DEF Saves

LEMMA SignalTypes ==
  ASSUME Types, NEW pid \in Pids, NEW deadly \in BOOLEAN, Signalled(pid, deadly)
  PROVE  os' \in [Pids -> Os]
  BY StateTypes, EndTypes DEF Signalled

LEMMA CommandTypes ==
  ASSUME Types, Guarded, NEW c \in Commands, command[c].op \in Signals
  PROVE  /\ command[c].id \in Threads /\ command[c].base \in Runs
         /\ command[c].base[command[c].id] \in Run /\ command[c].base[command[c].id].pid \in Pids
<1>1. command[c] \in Command /\ command[c].op # "none"
  BY StateTypes DEF Signals
<1>2. command[c].base \in Runs /\ command[c].id \in Threads /\ command[c].base[command[c].id] # None
  BY <1>1 DEF Guarded, Command
<1>3. QED
  BY <1>2 DEF Runs, Run

LEMMA RunTypes ==
  ASSUME Types, Guarded, Harnessed,
         \/ \E p \in Pids : Boot(p, "server") \/ Boot(p, "other") \/ Die(p)
         \/ \E t \in Threads : Thread(t)
         \/ \E l \in Launchers : LauncherDies(l)
         \/ \E c \in Commands : Other(c)
  PROVE  Types'
<1> USE DEF system, leaseVars, threadVars
<1>a. /\ os \in [Pids -> Os] /\ births \in 0..MaxBirths /\ ops \in Nat
      /\ leases \subseteq Record /\ lockDir \in Nat \cup {None}
      /\ held \in [Pids -> Nat \cup {None}] /\ work \in [Pids -> Work]
      /\ at \in [Pids -> {"idle", "lock", "break", "prune", "remove", "unlock"}]
      /\ runs \in Runs /\ child \in [Threads -> Run \cup {None}]
      /\ stage \in [Threads -> {"idle", "spawned", "insert", "waiting", "reaped", "remove", "over"}]
      /\ map \in [Threads -> Runs \cup {None}] /\ command \in [Commands -> Command]
  BY StateTypes DEF Types, TypeOK
<1>1. ASSUME NEW p \in Pids, NEW kind \in {"server", "other", "harness"}, Starts(p, kind)
      PROVE  /\ births' \in 0..MaxBirths /\ os' \in [Pids -> Os]
             /\ [pid |-> p, birth |-> births'] \in Run
  <2>1. births' \in 0..MaxBirths
    BY <1>1, <1>a, RegistryAssumption DEF Starts
  <2>2. [kind |-> kind, birth |-> births'] \in Os
    BY <2>1 DEF Os
  <2>3. QED
    BY <1>1, <1>a, <2>1, <2>2 DEF Starts, Run
<1>2. ASSUME NEW p \in Pids, Boot(p, "server") \/ Boot(p, "other") PROVE Types'
  BY <1>2, <1>1, <1>a, Accept DEF Boot
<1>3. ASSUME NEW p \in Pids, Die(p) PROVE Types'
  <2>1. os' \in [Pids -> Os] /\ work' \in [Pids -> Work] /\ held' \in [Pids -> Nat \cup {None}]
    BY <1>3, <1>a, EndTypes DEF Die
  <2>2. QED
    BY <1>3, <1>a, <2>1, Accept DEF Die
<1>4. ASSUME NEW t \in Threads, Thread(t) PROVE Types'
  <2>1. ASSUME NEW p \in Pids, Launch(t, p) PROVE Types'
    BY <2>1, <1>1, <1>a, Accept DEF Launch, Moves
  <2>2. CASE LoadRuns(t)
    BY <2>2, <1>a, Accept DEF LoadRuns, Moves
  <2>3. CASE SaveRuns(t)
    <3>1. map[t] \in Runs /\ child[t] \in Run \cup {None}
      BY <2>3, <1>a DEF SaveRuns, Guarded
    <3>2. [map[t] EXCEPT ![t] = IF stage[t] = "insert" THEN child[t] ELSE None] \in Runs
      BY <3>1 DEF Runs
    <3>3. QED
      BY <2>3, <1>a, <3>2, SavesTypes, Accept DEF SaveRuns, Moves
  <2>4. CASE Reap(t)
    BY <2>4, <1>a, EndTypes, Accept DEF Reap, Moves
  <2>5. QED
    BY <1>4, <2>1, <2>2, <2>3, <2>4 DEF Thread
<1>5. ASSUME NEW l \in Launchers, LauncherDies(l) PROVE Types'
  <2>1. os' \in [Pids -> Os]
    BY <1>5, <1>a, EndTypes DEF LauncherDies
  <2>2. map' \in [Threads -> Runs \cup {None}]
    BY <1>5, <1>a DEF LauncherDies
  <2>3. QED
    BY <1>5, <1>a, <2>1, <2>2, Accept DEF LauncherDies
<1>6. ASSUME NEW c \in Commands, NEW op \in {"term", "grace", "kill", "save"},
             NEW id \in Threads \cup {None}, NEW base \in Runs, Commanded(c, op, id, base)
      PROVE  command' \in [Commands -> Command]
  BY <1>6, <1>a DEF Commanded, Command
<1>7. ASSUME NEW c \in Commands, command' = [command EXCEPT ![c] = NoCommand]
      PROVE  command' \in [Commands -> Command]
  BY <1>7, <1>a DEF NoCommand, Command
<1>8. ASSUME NEW c \in Commands, Other(c) PROVE Types'
  <2>1. CASE List(c)
    <3>1. [t \in Threads |-> IF Dead(runs[t]) THEN None ELSE runs[t]] \in Runs
      BY <1>a DEF Runs
    <3>2. ops' \in Nat
      BY <2>1, <1>a DEF List
    <3>3. QED
      BY <2>1, <1>a, <3>1, <3>2, <1>6, Accept DEF List
  <2>2. ASSUME NEW t \in Threads, Kill(c, t) PROVE Types'
    <3>1. ops' \in Nat /\ command' \in [Commands -> Command]
      BY <2>2, <1>a, <1>6 DEF Kill
    <3>2. QED
      BY <2>2, <1>a, <3>1, Accept DEF Kill
  <2>3. CASE Term(c)
    <3>1. os' \in [Pids -> Os] /\ command' \in [Commands -> Command]
      BY <2>3, <1>6, CommandTypes, SignalTypes DEF Term, Signals
    <3>2. QED
      BY <2>3, <1>a, <3>1, Accept DEF Term
  <2>4. CASE Terminate(c)
    <3>1. [command[c].base EXCEPT ![command[c].id] = None] \in Runs
      BY <2>4, CommandTypes DEF Terminate, Signals, Runs
    <3>2. os' \in [Pids -> Os] /\ command' \in [Commands -> Command]
      BY <2>4, <3>1, <1>6, CommandTypes, SignalTypes DEF Terminate, Signals
    <3>3. QED
      BY <2>4, <1>a, <3>2, Accept DEF Terminate
  <2>5. CASE NotPermitted(c)
    BY <2>5, <1>a, <1>7, Accept DEF NotPermitted
  <2>6. CASE SaveCommand(c)
    <3>1. command[c].base \in Runs
      BY <2>6, <1>a DEF SaveCommand, Guarded, Command
    <3>2. QED
      BY <2>6, <1>a, <3>1, <1>7, SavesTypes, Accept DEF SaveCommand
  <2>7. QED
    BY <1>8, <2>1, <2>2, <2>3, <2>4, <2>5, <2>6 DEF Other
<1>9. QED
  BY <1>2, <1>3, <1>4, <1>5, <1>8

-----------------------------------------------------------------------------
(* The run registry                                                        *)

\* Processes may end: what has no parent frees its pid, a harness waits.
Ending == \A q \in Pids :
    \/ os'[q] = os[q]
    \/ os[q].kind \in {"server", "harness", "other"} /\ os'[q] = AfterEnd(q)

LEMMA EndingKeeps ==
  ASSUME Types, Types', Births, Harnessed, Ending, UNCHANGED <<births, stage, child>>
  PROVE  /\ Births' /\ Harnessed'
         /\ \A t \in Threads : stage[t] = "waiting" /\ os'[child[t].pid].kind = "harness"
                                 => os[child[t].pid].kind = "harness"
<1> USE StateTypes
<1>1. ASSUME NEW q \in Pids
      PROVE  /\ os'[q].birth <= births /\ (os'[q].kind = "free" => os'[q].birth = 0)
             /\ os'[q].kind = "harness" => os[q].kind = "harness"
  <2>1. /\ os[q] \in Os /\ births \in Nat
        /\ os[q].birth <= births /\ (os[q].kind = "free" => os[q].birth = 0)
    BY DEF Births
  <2>2. AfterEnd(q).birth \in {0, os[q].birth} /\ AfterEnd(q).kind \in {"free", "zombie"}
        /\ (AfterEnd(q).kind = "free" => AfterEnd(q).birth = 0)
    BY <2>1 DEF AfterEnd, Os, Free
  <2>3. QED
    BY <2>1, <2>2 DEF Ending, Os
<1>2. Births'
  BY <1>1 DEF Births
<1>3. ASSUME NEW t \in Threads, stage[t] \in {"spawned", "insert", "waiting"}
      PROVE  /\ child[t].pid \in Pids
             /\ os'[child[t].pid].birth = child[t].birth
             /\ os'[child[t].pid].kind \in {"harness", "zombie"}
  <2> DEFINE q == child[t].pid
  <2>1. child[t] \in Run /\ q \in Pids /\ os[q] \in Os
    BY <1>3 DEF Harnessed, Run
  <2>2. os[q].birth = child[t].birth /\ os[q].kind \in {"harness", "zombie"}
    BY <1>3 DEF Harnessed
  <2>3. child[t] = [pid |-> q, birth |-> os[q].birth]
    BY <2>1, <2>2 DEF Run
  <2>4. t \in Parents(q)
    BY <1>3, <2>3 DEF Parents
  <2>5. os[q].kind = "harness" => AfterEnd(q) = [os[q] EXCEPT !.kind = "zombie"]
    BY <2>4 DEF AfterEnd
  <2>6. QED
    BY <2>1, <2>2, <2>5 DEF Ending, Os
<1>4. Harnessed'
  BY <1>3 DEF Harnessed
<1>5. QED
  BY <1>1, <1>2, <1>3, <1>4

\* A step that saves, loads and launches nothing keeps the run registry.
LEMMA EndingKeepsRuns ==
  ASSUME Types, Types', RunInv, Ending, UNCHANGED <<births, runs, stage, child, map, command, slip>>
  PROVE  RunInv'
<1>1. /\ Births' /\ Harnessed'
      /\ \A t \in Threads : stage[t] = "waiting" /\ os'[child[t].pid].kind = "harness"
                              => os[child[t].pid].kind = "harness"
  BY EndingKeeps DEF RunInv
<1>2. Guarded'
  BY DEF RunInv, Guarded
<1>3. ASSUME slip = {}, NEW t \in Threads
      PROVE  Told(t)' /\ (map'[t] # None => Loaded(t)')
  BY <1>1, <1>3 DEF RunInv, Told, Loaded
<1>4. ASSUME slip = {}, NEW c \in Commands
      PROVE  Known(c)'
  BY <1>1, <1>4 DEF RunInv, Known
<1>5. QED
  BY <1>1, <1>2, <1>3, <1>4 DEF RunInv

\* A start uses a pid nobody's harness has.
LEMMA StartKeeps ==
  ASSUME Types, RunInv, NEW p \in Pids, NEW kind, Starts(p, kind)
  PROVE  /\ births' = births + 1
         /\ os'[p] = [kind |-> kind, birth |-> births'] /\ \A q \in Pids : q # p => os'[q] = os[q]
         /\ \A t \in Threads : stage[t] \in {"spawned", "insert", "waiting"} => child[t].pid # p
  BY StateTypes DEF Starts, Alive, RunInv, Harnessed, Os

LEMMA BootKeepsRuns ==
  ASSUME Types, RunInv, NEW p \in Pids, NEW kind \in {"server", "other"}, Boot(p, kind)
  PROVE  RunInv'
<1> USE StateTypes
<1>1. /\ births' = births + 1
      /\ os'[p] = [kind |-> kind, birth |-> births'] /\ \A q \in Pids : q # p => os'[q] = os[q]
      /\ \A t \in Threads : stage[t] \in {"spawned", "insert", "waiting"} => child[t].pid # p
      /\ UNCHANGED <<runs, stage, child, map, command, slip>>
  BY StartKeeps DEF Boot, threadVars
<1>2. \A t \in Threads : stage[t] \notin {"idle", "over"} => child[t] \in Run /\ child[t].pid \in Pids
  BY DEF RunInv, Harnessed, Run
<1>3. \A t \in Threads : stage[t] \in {"spawned", "insert", "waiting"} => os'[child[t].pid] = os[child[t].pid]
  BY <1>1, <1>2
<1>4. Births'
  <2>1. \A q \in Pids : os'[q].birth <= births' /\ (os'[q].kind = "free" => os'[q].birth = 0)
    BY <1>1 DEF RunInv, Births, Os
  <2>2. \A t \in Threads : child[t] # None => child[t].birth \in 1..births'
    BY <1>1 DEF RunInv, Births, Run
  <2>3. QED
    BY <1>1, <2>1, <2>2 DEF RunInv, Births
<1>5. Harnessed'
  BY <1>1, <1>3 DEF RunInv, Harnessed
<1>6. Guarded'
  BY <1>1 DEF RunInv, Guarded
<1>7. ASSUME slip = {}, NEW t \in Threads
      PROVE  Told(t)' /\ (map'[t] # None => Loaded(t)')
  BY <1>1, <1>3, <1>7 DEF RunInv, Told, Loaded
<1>8. ASSUME slip = {}, NEW c \in Commands
      PROVE  Known(c)'
  BY <1>1, <1>3, <1>8 DEF RunInv, Known
<1>9. QED
  BY <1>1, <1>4, <1>5, <1>6, <1>7, <1>8 DEF RunInv

LEMMA LaunchKeepsRuns ==
  ASSUME Types, Types', RunInv, NEW t \in Threads, NEW p \in Pids, Launch(t, p)
  PROVE  RunInv'
<1> USE StateTypes
<1> DEFINE new == [pid |-> p, birth |-> births']
<1>1. /\ births' = births + 1 /\ births' \in Nat
      /\ os'[p] = [kind |-> "harness", birth |-> births'] /\ \A q \in Pids : q # p => os'[q] = os[q]
      /\ \A u \in Threads : stage[u] \in {"spawned", "insert", "waiting"} => child[u].pid # p
      /\ UNCHANGED <<runs, map, command, slip>>
      /\ stage[t] = "idle" /\ stage'[t] = "spawned" /\ child'[t] = new /\ new \in Run /\ new # None
      /\ \A u \in Threads : u # t => stage'[u] = stage[u] /\ child'[u] = child[u]
  <2>1. births' \in Nat
    BY DEF Types, TypeOK, Launch, Starts
  <2>2. new \in Run /\ new # None
    BY <2>1, RegistryAssumption DEF Run
  <2>3. stage \in [Threads -> {"idle", "spawned", "insert", "waiting", "reaped", "remove", "over"}]
    BY DEF Types, TypeOK
  <2>4. QED
    BY <2>1, <2>2, <2>3, StartKeeps DEF Launch, Moves
<1>2. \A u \in Threads : stage[u] \notin {"idle", "over"} => child[u] \in Run /\ child[u].pid \in Pids
  BY DEF RunInv, Harnessed, Run
<1>3. \A u \in Threads : stage[u] \in {"spawned", "insert", "waiting"} => os'[child[u].pid] = os[child[u].pid]
  BY <1>1, <1>2
<1>4. Births'
  <2>1. \A q \in Pids : os'[q].birth <= births' /\ (os'[q].kind = "free" => os'[q].birth = 0)
    BY <1>1 DEF RunInv, Births, Os
  <2>2. \A u \in Threads : u # t /\ child[u] # None => child[u] \in Run /\ child[u].birth \in 1..births
    BY <1>1 DEF RunInv, Births, Run
  <2>3. \A u \in Threads : child'[u] # None => child'[u].birth \in 1..births'
    BY <1>1, <2>2 DEF Run
  <2>4. \A u \in Threads : u # t => child'[u] # child'[t]
    BY <1>1, <2>2 DEF Run
  <2>5. QED
    BY <1>1, <2>1, <2>3, <2>4 DEF RunInv, Births
<1>5. Harnessed'
  BY <1>1, <1>3 DEF RunInv, Harnessed
<1>6. Guarded'
  BY <1>1 DEF RunInv, Guarded
<1>7. ASSUME slip = {}, NEW u \in Threads
      PROVE  Told(u)' /\ (map'[u] # None => Loaded(u)')
  BY <1>1, <1>3, <1>7 DEF RunInv, Told, Loaded
<1>8. ASSUME slip = {}, NEW c \in Commands
      PROVE  Known(c)'
  BY <1>1, <1>3, <1>8 DEF RunInv, Known
<1>9. QED
  BY <1>1, <1>4, <1>5, <1>6, <1>7, <1>8 DEF RunInv

\* What a load adds to the processes between load and save.
LEMMA LoadKeepsRuns ==
  ASSUME Types, RunInv, NEW t \in Threads, LoadRuns(t)
  PROVE  RunInv'
<1> USE StateTypes
<1>1. /\ stage[t] \in {"spawned", "reaped"} /\ map'[t] = runs /\ runs # None
      /\ stage'[t] = IF stage[t] = "spawned" THEN "insert" ELSE "remove"
      /\ \A u \in Threads : u # t => stage'[u] = stage[u] /\ map'[u] = map[u]
      /\ \A u \in Threads : LauncherOf[u] = LauncherOf[t] => stage[u] \notin {"insert", "remove"}
      /\ UNCHANGED <<os, births, runs, child, command, slip>>
  <2>1. stage \in [Threads -> {"idle", "spawned", "insert", "waiting", "reaped", "remove", "over"}]
    BY DEF Types, TypeOK
  <2>2. runs # None
    BY RegistryAssumption
  <2>3. QED
    BY <2>1, <2>2 DEF LoadRuns, Moves, GuardFree, system
<1>2. Births' /\ Harnessed'
  BY <1>1 DEF RunInv, Births, Harnessed
<1>3. Guarded'
  <2>1. \A u \in Threads : map'[u] # None <=> stage'[u] \in {"insert", "remove"}
    BY <1>1 DEF RunInv, Guarded
  <2>2. \A u, v \in Threads : map'[u] # None /\ map'[v] # None /\ LauncherOf[u] = LauncherOf[v] => u = v
    BY <1>1 DEF RunInv, Guarded
  <2>3. QED
    BY <1>1, <2>1, <2>2 DEF RunInv, Guarded
<1>4. ASSUME slip = {}, NEW u \in Threads
      PROVE  Told(u)' /\ (map'[u] # None => Loaded(u)')
  BY <1>1, <1>4 DEF RunInv, Told, Loaded
<1>5. ASSUME slip = {}, NEW c \in Commands
      PROVE  Known(c)'
  BY <1>1, <1>5 DEF RunInv, Known
<1>6. QED
  BY <1>1, <1>2, <1>3, <1>4, <1>5 DEF RunInv

\* The save of a thread finds nothing to lose, or somebody between.
LEMMA SaveKeepsRuns ==
  ASSUME Types, RunInv, NEW t \in Threads, SaveRuns(t)
  PROVE  RunInv'
<1> USE StateTypes
<1> DEFINE new == [map[t] EXCEPT ![t] = IF stage[t] = "insert" THEN child[t] ELSE None]
<1>1. /\ stage[t] \in {"insert", "remove"} /\ map'[t] = None
      /\ stage'[t] = IF stage[t] = "insert" THEN "waiting" ELSE "over"
      /\ \A u \in Threads : u # t => stage'[u] = stage[u] /\ map'[u] = map[u]
      /\ UNCHANGED <<os, births, child, command>>
      /\ Saves(LauncherOf[t], new)
  <2>1. stage \in [Threads -> {"idle", "spawned", "insert", "waiting", "reaped", "remove", "over"}]
    BY DEF Types, TypeOK
  <2>2. QED
    BY <2>1 DEF SaveRuns, Moves, system
<1>2. Births' /\ Harnessed'
  BY <1>1 DEF RunInv, Births, Harnessed
<1>3. Guarded'
  BY <1>1 DEF RunInv, Guarded
<1>4. SUFFICES ASSUME slip' = {}
               PROVE  /\ \A u \in Threads : Told(u)' /\ (map'[u] # None => Loaded(u)')
                      /\ \A c \in Commands : Known(c)'
  BY <1>2, <1>3 DEF RunInv
<1>5. slip = {} /\ runs' = new /\ Between = {LauncherOf[t]}
  BY <1>1, <1>4 DEF Saves, Slips
<1>6. \A u \in Threads : u # t => map'[u] = None
  <2>1. ASSUME NEW u \in Threads, u # t, map[u] # None PROVE FALSE
    <3>1. LauncherOf[u] \in Between
      BY <2>1 DEF Between
    <3>2. LauncherOf[u] = LauncherOf[t]
      BY <1>5, <3>1
    <3>3. QED
      BY <1>1, <2>1, <3>2 DEF RunInv, Guarded
  <2>2. QED
    BY <1>1, <2>1
<1>7. \A c \in Commands : command[c].base = None
  <2>1. ASSUME NEW c \in Commands, command[c].base # None PROVE FALSE
    <3>1. c \in Between
      BY <2>1 DEF Between
    <3>2. LauncherOf[t] \in Launchers
      BY RegistryAssumption
    <3>3. QED
      BY <1>5, <3>1, <3>2, RegistryAssumption
  <2>2. QED
    BY <2>1
<1>8. map[t] = runs /\ child[t] # None
  BY <1>1, <1>5 DEF RunInv, Guarded, Loaded, Harnessed
<1>9. /\ runs'[t] = IF stage[t] = "insert" THEN child[t] ELSE None
      /\ \A u \in Threads : u # t => runs'[u] = runs[u]
  BY <1>5, <1>8 DEF Runs
<1>10. ASSUME NEW u \in Threads
       PROVE  Told(u)' /\ (map'[u] # None => Loaded(u)')
  BY <1>1, <1>5, <1>6, <1>9 DEF RunInv, Told
<1>11. ASSUME NEW c \in Commands
       PROVE  Known(c)'
  BY <1>1, <1>7 DEF RunInv, Guarded, Known, Signals
<1>12. QED
  BY <1>10, <1>11

\* The one who waits is the only parent.
LEMMA OneParent ==
  ASSUME Types, RunInv, NEW t \in Threads, NEW u \in Threads,
         stage[t] \in {"spawned", "insert", "waiting"}, stage[u] \in {"spawned", "insert", "waiting"},
         child[t].pid = child[u].pid
  PROVE  t = u
<1>1. child[t] \in Run /\ child[u] \in Run /\ child[t] # None /\ child[u] # None
  BY StateTypes DEF RunInv, Harnessed
<1>2. child[t].birth = child[u].birth
  BY DEF RunInv, Harnessed
<1>3. child[t] = child[u]
  BY <1>1, <1>2 DEF Run
<1>4. QED
  BY <1>1, <1>3 DEF RunInv, Births

LEMMA ReapKeepsRuns ==
  ASSUME Types, RunInv, NEW t \in Threads, Reap(t)
  PROVE  RunInv'
<1> USE StateTypes
<1>1. /\ stage[t] = "waiting" /\ stage'[t] = "reaped"
      /\ \A u \in Threads : u # t => stage'[u] = stage[u]
      /\ os'[child[t].pid] = Free /\ child[t].pid \in Pids
      /\ \A q \in Pids : q # child[t].pid => os'[q] = os[q]
      /\ UNCHANGED <<births, runs, child, map, command, slip>>
  <2>1. stage \in [Threads -> {"idle", "spawned", "insert", "waiting", "reaped", "remove", "over"}]
    BY DEF Types, TypeOK
  <2>2. child[t] \in Run
    BY DEF Reap, RunInv, Harnessed
  <2>3. child[t].pid \in Pids
    BY <2>2 DEF Run
  <2>4. QED
    BY <2>1, <2>3 DEF Reap, Moves, threadVars
<1>2. ASSUME NEW u \in Threads, stage'[u] \in {"spawned", "insert", "waiting"}
      PROVE  u # t /\ stage[u] = stage'[u] /\ child[u].pid \in Pids /\ os'[child[u].pid] = os[child[u].pid]
  <2>1. u # t /\ stage[u] = stage'[u]
    BY <1>1, <1>2
  <2>2. child[u] \in Run
    BY <1>2, <2>1 DEF RunInv, Harnessed
  <2>3. child[u].pid # child[t].pid
    BY <1>1, <1>2, <2>1, OneParent
  <2>4. QED
    BY <1>1, <2>1, <2>2, <2>3 DEF Run
<1>3. Births'
  BY <1>1 DEF RunInv, Births, Free
<1>4. Harnessed'
  <2>1. \A u \in Threads : stage'[u] \notin {"idle", "over"} => child[u] # None
    BY <1>1 DEF RunInv, Harnessed
  <2>2. QED
    BY <1>1, <1>2, <2>1 DEF RunInv, Harnessed
<1>5. Guarded'
  BY <1>1 DEF RunInv, Guarded
<1>6. ASSUME slip = {}, NEW u \in Threads
      PROVE  Told(u)' /\ (map'[u] # None => Loaded(u)')
  BY <1>1, <1>2, <1>6 DEF RunInv, Told, Loaded
<1>7. ASSUME slip = {}, NEW c \in Commands
      PROVE  Known(c)'
  BY <1>1, <1>2, <1>7 DEF RunInv, Known
<1>8. QED
  BY <1>1, <1>3, <1>4, <1>5, <1>6, <1>7 DEF RunInv

LEMMA LauncherDeathKeepsRuns ==
  ASSUME Types, RunInv, NEW l \in Launchers, LauncherDies(l)
  PROVE  RunInv'
<1> USE StateTypes
<1>1. /\ \A t \in Threads : stage'[t] = IF t \in Own(l) THEN "over" ELSE stage[t]
      /\ \A t \in Threads : map'[t] = IF t \in Own(l) THEN None ELSE map[t]
      /\ \A p \in Pids : os'[p] = IF os[p].kind = "zombie" /\ Own(l) \cap Parents(p) # {} THEN Free ELSE os[p]
      /\ slip' # {} /\ UNCHANGED <<births, child, command>>
  BY DEF LauncherDies
<1>2. ASSUME NEW u \in Threads, stage'[u] \in {"spawned", "insert", "waiting"}
      PROVE  stage[u] = stage'[u] /\ os'[child[u].pid] = os[child[u].pid]
  <2>1. u \notin Own(l) /\ stage[u] = stage'[u]
    BY <1>1, <1>2
  <2>2. child[u] \in Run
    BY <1>2, <2>1 DEF RunInv, Harnessed
  <2>3. Own(l) \cap Parents(child[u].pid) = {}
    <3>1. ASSUME NEW t \in Own(l), t \in Parents(child[u].pid) PROVE FALSE
      <4>1. /\ t \in Threads /\ stage[t] \in {"spawned", "insert", "waiting"}
            /\ child[t].pid = child[u].pid
        BY <3>1 DEF Parents
      <4>2. t = u
        BY <1>2, <2>1, <4>1, OneParent
      <4>3. QED
        BY <2>1, <4>2
    <3>2. QED
      BY <3>1
  <2>4. QED
    BY <1>1, <2>1, <2>2, <2>3 DEF Run
<1>3. Births'
  BY <1>1 DEF RunInv, Births, Free
<1>4. Harnessed'
  <2>1. \A u \in Threads : stage'[u] \notin {"idle", "over"} => child[u] # None
    BY <1>1 DEF RunInv, Harnessed
  <2>2. QED
    BY <1>1, <1>2, <2>1 DEF RunInv, Harnessed
<1>5. Guarded'
  BY <1>1 DEF RunInv, Guarded
<1>6. QED
  BY <1>1, <1>3, <1>4, <1>5 DEF RunInv

-----------------------------------------------------------------------------
(* The commands on the run registry                                        *)

LEMMA CommandedMoves ==
  ASSUME Types, NEW c \in Commands, NEW op, NEW id, NEW base, Commanded(c, op, id, base)
  PROVE  /\ command'[c].op = op /\ command'[c].id = id /\ command'[c].base = base
         /\ \A d \in Commands : d # c => command'[d] = command[d]
  BY StateTypes DEF Commanded

LEMMA SignalledEnds ==
  ASSUME Types, NEW pid \in Pids, NEW deadly \in BOOLEAN, Signalled(pid, deadly)
  PROVE  Ending
<1>1. \/ os[pid].kind \in {"harness", "other"} /\ os' = [os EXCEPT ![pid] = AfterEnd(pid)]
      \/ os' = os
  BY DEF Signalled
<1>2. os \in [Pids -> Os]
  BY StateTypes
<1>3. QED
  BY <1>1, <1>2 DEF Ending

\* A command that goes on without a save: the harnesses may end, and what it
\* knows is to be shown.
LEMMA CommandKeepsRuns ==
  ASSUME Types, Types', RunInv, Ending, UNCHANGED <<births, runs, stage, child, map, slip>>,
         NEW c \in Commands, \A d \in Commands : d # c => command'[d] = command[d],
         command'[c].base = None <=> command'[c].op = "none",
         command'[c].op = "none" => command'[c] = NoCommand,
         command'[c].op \in Signals =>
              command'[c].id \in Threads /\ command'[c].base[command'[c].id] # None,
         slip = {} => Known(c)'
  PROVE  RunInv'
<1>1. /\ Births' /\ Harnessed'
      /\ \A t \in Threads : stage[t] = "waiting" /\ os'[child[t].pid].kind = "harness"
                              => os[child[t].pid].kind = "harness"
  BY EndingKeeps DEF RunInv
<1>2. Guarded'
  BY DEF RunInv, Guarded
<1>3. ASSUME slip = {}, NEW t \in Threads
      PROVE  Told(t)' /\ (map'[t] # None => Loaded(t)')
  BY <1>1, <1>3 DEF RunInv, Told, Loaded
<1>4. ASSUME slip = {}, NEW d \in Commands
      PROVE  Known(d)'
  BY <1>1, <1>4 DEF RunInv, Known
<1>5. QED
  BY <1>1, <1>2, <1>3, <1>4 DEF RunInv

LEMMA ListKeepsRuns ==
  ASSUME Types, Types', RunInv, NEW c \in Commands, List(c)
  PROVE  RunInv'
<1> USE StateTypes
<1> DEFINE base == [t \in Threads |-> IF Dead(runs[t]) THEN None ELSE runs[t]]
<1>1. base \in Runs /\ base # None /\ Ending /\ UNCHANGED <<births, runs, stage, child, map, slip>>
  BY RegistryAssumption DEF Runs, List, system, threadVars, Ending
<1>2. /\ command'[c].op = "save" /\ command'[c].base = base
      /\ \A d \in Commands : d # c => command'[d] = command[d]
  BY CommandedMoves DEF List
<1>3. ASSUME slip = {} PROVE Known(c)'
  <2>1. ASSUME NEW t \in Threads
        PROVE  \/ base[t] = runs[t]
               \/ base[t] = None /\ (stage[t] = "waiting" => os'[child[t].pid].kind # "harness")
    <3>1. CASE Dead(runs[t])
      <4>1. ~Alive(runs[t].pid) /\ runs[t] = child[t]
        BY <1>3, <3>1 DEF Dead, RunInv, Told
      <4>2. QED
        BY <3>1, <4>1 DEF Alive, List, system
    <3>2. CASE ~Dead(runs[t])
      BY <3>2
    <3>3. QED
      BY <3>1, <3>2
  <2>2. QED
    BY <1>1, <1>2, <2>1 DEF Known, Signals
<1>4. QED
  BY <1>1, <1>2, <1>3, CommandKeepsRuns DEF Signals

LEMMA KillKeepsRuns ==
  ASSUME Types, Types', RunInv, NEW c \in Commands, NEW t \in Threads, Kill(c, t)
  PROVE  RunInv'
<1> USE StateTypes
<1>1. runs # None /\ runs[t] # None /\ Ending /\ UNCHANGED <<births, runs, stage, child, map, slip>>
  BY RegistryAssumption DEF Kill, system, threadVars, Ending
<1>2. /\ command'[c].op \in {"term", "kill"} /\ command'[c].id = t /\ command'[c].base = runs
      /\ \A d \in Commands : d # c => command'[d] = command[d]
  BY CommandedMoves DEF Kill
<1>3. Known(c)'
  BY <1>1, <1>2 DEF Known, Signals
<1>4. QED
  BY <1>1, <1>2, <1>3, CommandKeepsRuns DEF Signals

LEMMA TermKeepsRuns ==
  ASSUME Types, Types', RunInv, NEW c \in Commands, Term(c)
  PROVE  RunInv'
<1> USE StateTypes
<1>1. /\ command[c].id \in Threads /\ command[c].base \in Runs
      /\ command[c].base[command[c].id] # None
      /\ command[c].base[command[c].id].pid \in Pids
  BY CommandTypes DEF Term, Signals, RunInv, Guarded
<1>2. Ending /\ UNCHANGED <<births, runs, stage, child, map, slip>>
  BY <1>1, SignalledEnds DEF Term, threadVars
<1>3. /\ command'[c].op = "grace" /\ command'[c].id = command[c].id /\ command'[c].base = command[c].base
      /\ \A d \in Commands : d # c => command'[d] = command[d]
  BY CommandedMoves DEF Term
<1>4. command[c].base # None
  BY <1>1, RegistryAssumption
<1>5. slip = {} => Known(c)'
  BY <1>2, <1>3 DEF Term, RunInv, Known, Signals
<1>6. QED
  BY <1>1, <1>2, <1>3, <1>4, <1>5, CommandKeepsRuns DEF Signals

\* What is killed for good is no harness any more.
LEMMA TerminateKeepsRuns ==
  ASSUME Types, Types', RunInv, NEW c \in Commands, Terminate(c)
  PROVE  RunInv'
<1> USE StateTypes
<1> DEFINE id == command[c].id
           pid == command[c].base[id].pid
           base == [command[c].base EXCEPT ![id] = None]
<1>1. id \in Threads /\ command[c].base \in Runs /\ command[c].base[id] # None /\ pid \in Pids
  BY CommandTypes DEF Terminate, Signals, RunInv, Guarded
<1>2. Ending /\ UNCHANGED <<births, runs, stage, child, map, slip>>
  BY <1>1, SignalledEnds DEF Terminate, threadVars
<1>3. /\ command'[c].op = "save" /\ command'[c].base = base
      /\ \A d \in Commands : d # c => command'[d] = command[d]
  BY CommandedMoves DEF Terminate
<1>4. /\ base \in Runs /\ base[id] = None
      /\ \A t \in Threads : t # id => base[t] = command[c].base[t]
  BY <1>1 DEF Runs
<1>5. base # None
  BY <1>4, RegistryAssumption
<1>6. os'[pid].kind # "harness"
  <2>1. \/ os'[pid] = AfterEnd(pid) /\ os[pid].kind \in {"harness", "other"}
        \/ os'[pid] = os[pid] /\ os[pid].kind # "harness"
    BY <1>1 DEF Terminate, Signalled
  <2>2. os[pid] \in Os
    BY <1>1
  <2>3. AfterEnd(pid).kind \in {"free", "zombie"}
    <3> HIDE DEF pid
    <3>1. QED
      BY <2>2 DEF AfterEnd, Os, Free
  <2>4. QED
    BY <2>1, <2>3
<1>7. ASSUME slip = {} PROVE Known(c)'
  <2>1. command[c].base = runs
    BY <1>7 DEF Terminate, RunInv, Known, Signals
  <2>2. child[id].pid = pid
    BY <1>1, <1>7, <2>1 DEF RunInv, Told
  <2>3. ASSUME NEW t \in Threads
        PROVE  \/ base[t] = runs[t]
               \/ base[t] = None /\ (stage[t] = "waiting" => os'[child[t].pid].kind # "harness")
    BY <1>4, <1>6, <2>1, <2>2
  <2>4. QED
    BY <1>2, <1>3, <2>3 DEF Known, Signals
<1>8. QED
  BY <1>2, <1>3, <1>5, <1>7, CommandKeepsRuns DEF Signals

\* And a save of a command, like that of a thread, finds nothing to lose.
LEMMA SaveCommandKeepsRuns ==
  ASSUME Types, Types', RunInv, NEW c \in Commands, SaveCommand(c)
  PROVE  RunInv'
<1> USE StateTypes
<1>1. /\ command[c].op = "save" /\ command'[c] = NoCommand
      /\ \A d \in Commands : d # c => command'[d] = command[d]
      /\ UNCHANGED <<os, births, stage, child, map>> /\ Saves(c, command[c].base)
  BY DEF SaveCommand, system, threadVars
<1>2. Births' /\ Harnessed'
  BY <1>1 DEF RunInv, Births, Harnessed
<1>3. Guarded'
  BY <1>1 DEF RunInv, Guarded, NoCommand, Signals
<1>4. SUFFICES ASSUME slip' = {}
               PROVE  /\ \A u \in Threads : Told(u)' /\ (map'[u] # None => Loaded(u)')
                      /\ \A d \in Commands : Known(d)'
  BY <1>2, <1>3 DEF RunInv
<1>5. slip = {} /\ runs' = command[c].base /\ Between = {c}
  BY <1>1, <1>4 DEF Saves, Slips
<1>6. \A t \in Threads : map[t] = None
  <2>1. ASSUME NEW t \in Threads, map[t] # None PROVE FALSE
    <3>1. LauncherOf[t] \in Between
      BY <2>1 DEF Between
    <3>2. LauncherOf[t] \in Launchers
      BY RegistryAssumption
    <3>3. QED
      BY <1>5, <3>1, <3>2, RegistryAssumption
  <2>2. QED
    BY <2>1
<1>7. \A d \in Commands : d # c => command[d].base = None
  <2>1. ASSUME NEW d \in Commands, d # c, command[d].base # None PROVE FALSE
    <3>1. d \in Between
      BY <2>1 DEF Between
    <3>2. QED
      BY <1>5, <2>1, <3>1
  <2>2. QED
    BY <2>1
<1>8. ASSUME NEW t \in Threads
      PROVE  \/ runs'[t] = runs[t]
             \/ runs'[t] = None /\ (stage[t] = "waiting" => os[child[t].pid].kind # "harness")
  BY <1>1, <1>5, <1>8 DEF RunInv, Known
<1>9. ASSUME NEW t \in Threads
      PROVE  Told(t)' /\ (map'[t] # None => Loaded(t)')
  BY <1>1, <1>5, <1>6, <1>8, <1>9 DEF RunInv, Told
<1>10. ASSUME NEW d \in Commands
       PROVE  Known(d)'
  BY <1>1, <1>7, <1>10 DEF RunInv, Guarded, Known, Signals, NoCommand
<1>11. QED
  BY <1>9, <1>10

\* The clean end of a server frees its pid; other calls of it touch no process.
LEMMA ServerEnds ==
  ASSUME Types, Calls, NEW p \in Pids, Server(p)
  PROVE  Ending /\ UNCHANGED <<births, runs, stage, child, map, command, slip>>
<1> USE StateTypes DEF system, threadVars, Ending
<1>1. ASSUME NEW ok, Ends(p, ok), at[p] # "idle" PROVE Ending
  <2>1. os[p].kind = "server" /\ AfterEnd(p) = Free
    BY <1>1 DEF Calls, Busy, AfterEnd
  <2>2. QED
    BY <1>1, <2>1 DEF Ends
<1>2. CASE GiveUp(p)
  BY <1>1, <1>2 DEF GiveUp
<1>3. CASE Unlock(p)
  BY <1>1, <1>3 DEF Unlock
<1>4. CASE ~GiveUp(p) /\ ~Unlock(p)
  BY <1>4 DEF Server, Open, Close, Exit, TakeLock, SeeStale, BreakLock, Prune, WriteRecord, RemoveRecord
<1>5. QED
  BY <1>2, <1>3, <1>4

LEMMA DeathEnds ==
  ASSUME Types, NEW p \in Pids, Die(p)
  PROVE  Ending /\ UNCHANGED <<births, runs, stage, child, map, command, slip>>
  BY StateTypes DEF Die, threadVars, Ending

-----------------------------------------------------------------------------
(* The lease registry                                                      *)

\* Processes that are no servers start and end; a start time is a new one.
Elsewhere == \A q \in Pids :
    \/ os'[q] = os[q]
    \/ /\ os[q].kind # "server"
       /\ \/ os'[q].kind = "free" \/ os'[q].birth > births
          \/ os'[q].birth = os[q].birth /\ os[q].kind # "free"

LEMMA ElsewhereKeepsLeases ==
  ASSUME Types, Types', LeaseInv, Elsewhere, births <= births', ops <= ops',
         UNCHANGED <<leases, held, at, work, forgotten>>
  PROVE  LeaseInv'
<1> USE StateTypes
<1>1. /\ births \in Nat /\ births' \in Nat /\ ops \in Nat /\ ops' \in Nat
      /\ \A q \in Pids : os[q] \in Os /\ os'[q] \in Os
  BY DEF Types, TypeOK, Os
<1>2. \A q \in Pids : held[q] # None \/ Busy(q) => os'[q] = os[q]
  BY DEF LeaseInv, Calls, Elsewhere
<1>3. Calls'
  BY <1>1, <1>2 DEF LeaseInv, Calls, Busy
<1>4. Instances'
  BY <1>1 DEF LeaseInv, Instances, Busy, Recorded
<1>5. Written'
  BY <1>1, <1>2 DEF LeaseInv, Written, Recorded, Files
<1>6. ASSUME NEW r \in leases', Alive(r.pid)', r.token = os'[r.pid].birth PROVE Accounted(r)'
  <2>1. r \in leases /\ r \in Record /\ r.pid \in Pids
    BY <1>6 DEF Record
  <2>2. r.token # None /\ r.token <= births
    BY <1>1, <1>6, <2>1, RegistryAssumption DEF LeaseInv, Instances, Os
  <2>3. Alive(r.pid) /\ r.token = os[r.pid].birth
    BY <1>1, <1>6, <2>1, <2>2 DEF Elsewhere, Alive, Os
  <2>4. QED
    BY <2>1, <2>3 DEF LeaseInv, Accounted, Busy
<1>7. QED
  BY <1>3, <1>4, <1>5, <1>6 DEF LeaseInv

\* With a server its memory goes, and its records are of nobody alive.
LEMMA DeathKeepsLeases ==
  ASSUME Types, Types', LeaseInv, NEW p \in Pids, Die(p)
  PROVE  LeaseInv'
<1> USE StateTypes
<1>1. /\ births' = births /\ ops' = ops /\ leases' = leases /\ forgotten' = forgotten
      /\ os'[p] = AfterEnd(p) /\ held'[p] = None /\ at'[p] = "idle" /\ work'[p] = NoWork
      /\ \A q \in Pids : q # p => os'[q] = os[q] /\ held'[q] = held[q] /\ at'[q] = at[q] /\ work'[q] = work[q]
  <2>1. at \in [Pids -> {"idle", "lock", "break", "prune", "remove", "unlock"}]
    BY DEF Types, TypeOK
  <2>2. QED
    BY <2>1 DEF Die
<1>2. None \notin Nat /\ NoWork.op = "none" /\ ~NoWork.ok
  BY RegistryAssumption DEF NoWork
<1>3. Calls'
  BY <1>1, <1>2 DEF LeaseInv, Calls, Busy
<1>4. Instances'
  <2>1. /\ \A q \in Pids : Recorded(q)' => q # p /\ Recorded(q)
        /\ \A q \in Pids : Busy(q)' => q # p /\ Busy(q)
    BY <1>1, <1>2 DEF Recorded, Busy
  <2>2. \A q \in Pids : Busy(q) => work[q].record.instance \in Nat
    BY DEF LeaseInv, Calls, Record
  <2>3. \A q \in Pids : work'[q].op = "open" => held'[q] # work'[q].record.instance
    BY <1>1, <1>2 DEF LeaseInv, Instances
  <2>4. \A q, u \in Pids : Busy(q)' /\ held'[u] = work'[q].record.instance => q = u
    BY <1>1, <1>2, <2>1, <2>2 DEF LeaseInv, Instances
  <2>5. \A r \in leases', q \in Pids :
          /\ Busy(q)' /\ r.instance = work'[q].record.instance => r.pid = q
          /\ Recorded(q)' /\ r.instance = held'[q] => r.pid = q
    BY <1>1, <2>1 DEF LeaseInv, Instances
  <2>6. \A r \in leases' : r.instance \in 1..ops' /\ (r.token # None => r.token \in 0..births')
    BY <1>1 DEF LeaseInv, Instances
  <2>7. \A q \in Pids : Recorded(q)' => held'[q] \in 1..ops'
    BY <1>1, <2>1 DEF LeaseInv, Instances
  <2>8. \A q, u \in Pids : Recorded(q)' /\ held'[q] = held'[u] => q = u
    BY <1>1, <2>1 DEF LeaseInv, Instances, Recorded
  <2>9. \A q, u \in Pids : Busy(q)' /\ Busy(u)' /\ work'[q].record.instance = work'[u].record.instance => q = u
    BY <1>1, <2>1 DEF LeaseInv, Instances
  <2>10. QED
    BY <2>3, <2>4, <2>5, <2>6, <2>7, <2>8, <2>9 DEF Instances
<1>5. Written'
  BY <1>1, <1>2 DEF LeaseInv, Written, Recorded, Files
<1>6. ASSUME NEW r \in leases', Alive(r.pid)', r.token = os'[r.pid].birth PROVE Accounted(r)'
  <2>1. r \in leases /\ r \in Record /\ r.pid \in Pids
    BY <1>1, <1>6 DEF Record
  <2>2. CASE r.pid # p
    BY <1>1, <1>6, <2>1, <2>2 DEF LeaseInv, Alive, Accounted, Busy
  <2>3. CASE r.pid = p
    <3>1. AfterEnd(p).kind # "free"
      BY <1>1, <1>6, <2>3 DEF Alive
    <3>2. os[p] \in Os /\ os[p].kind # "server" /\ Alive(p) /\ AfterEnd(p).birth = os[p].birth
      BY <3>1 DEF AfterEnd, Free, Os, Alive
    <3>3. Accounted(r)
      BY <1>1, <1>6, <2>1, <2>3, <3>2 DEF LeaseInv
    <3>4. held[p] = None /\ ~Busy(p)
      BY <3>2 DEF LeaseInv, Calls
    <3>5. r.instance # None
      BY <2>1, <1>2 DEF Record
    <3>6. QED
      BY <1>1, <2>3, <3>3, <3>4, <3>5 DEF Accounted
  <2>4. QED
    BY <2>2, <2>3
<1>7. QED
  BY <1>3, <1>4, <1>5, <1>6 DEF LeaseInv

LEMMA GoesMoves ==
  ASSUME Types, NEW p \in Pids, NEW place, NEW w, Goes(p, place, w)
  PROVE  /\ at'[p] = place /\ work'[p] = w
         /\ \A q \in Pids : q # p => at'[q] = at[q] /\ work'[q] = work[q]
<1>1. at \in [Pids -> {"idle", "lock", "break", "prune", "remove", "unlock"}]
  BY DEF Types, TypeOK
<1>2. QED
  BY <1>1, StateTypes DEF Goes

\* A step within a call: it takes or finds the lock, prunes what is stale.
LEMMA WaitKeepsLeases ==
  ASSUME Types, Types', LeaseInv, NEW p \in Pids,
         \A q \in Pids : q # p => at'[q] = at[q] /\ work'[q] = work[q],
         work'[p].op = work[p].op, work'[p].record = work[p].record, work'[p].ok = work[p].ok,
         work[p].op # "none",
         \/ at'[p] \in {"lock", "break"} /\ ~work[p].ok
         \/ at'[p] = "prune" /\ work[p].op = "open" /\ ~work[p].ok
         \/ at'[p] = "remove" /\ work[p].op # "open" /\ ~work[p].ok,
         leases' \subseteq leases,
         \A r \in leases \ leases' : ~Alive(r.pid) \/ r.token \notin {os[r.pid].birth, None},
         UNCHANGED <<os, births, held, ops, forgotten>>
  PROVE  LeaseInv'
<1> USE StateTypes
<1>1. Calls'
  BY DEF LeaseInv, Calls, Busy
<1>2. Instances'
  BY DEF LeaseInv, Instances, Busy, Recorded
<1>3. Written'
  <2>1. ASSUME NEW q \in Pids, held[q] # None \/ Busy(q) PROVE Alive(q)
    BY <2>1 DEF LeaseInv, Calls, Alive
  <2>2. ASSUME NEW q \in Pids, Recorded(q), work[q].op # "exit"
        PROVE  \E r \in leases' : r.instance = held[q] /\ r.pid = q /\ r.token \in {os[q].birth, None}
    <3>1. PICK r \in leases : r.instance = held[q] /\ r.pid = q /\ r.token \in {os[q].birth, None}
      BY <2>2 DEF LeaseInv, Written
    <3>2. Alive(q)
      BY <2>1, <2>2 DEF Recorded
    <3>3. r \in leases'
      BY <3>1, <3>2
    <3>4. QED
      BY <3>1, <3>3
  <2>3. ASSUME NEW q \in Pids, work[q].op = "open", work[q].ok PROVE work[q].record \in leases'
    <3>1. work[q].record \in leases /\ work[q].record.pid = q /\ work[q].record.token \in {os[q].birth, None} /\ Alive(q)
      BY <2>1, <2>3 DEF LeaseInv, Written, Calls, Busy
    <3>2. QED
      BY <3>1
  <2>5. \A q \in Pids : /\ work'[q].op = work[q].op /\ work'[q].ok = work[q].ok
                        /\ work'[q].record = work[q].record /\ Recorded(q)' = Recorded(q)
    BY DEF Recorded
  <2>6. ASSUME NEW q \in Pids
        PROVE  /\ Recorded(q)' /\ work'[q].op # "exit"
                    => \E r \in leases' : r.instance = held'[q] /\ r.pid = q /\ r.token \in {os'[q].birth, None}
               /\ work'[q].op = "open" /\ work'[q].ok => work'[q].record \in leases'
               /\ work'[q].op = "open" /\ ~work'[q].ok => Files(work[q].record.instance)' = {}
               /\ work'[q].op \in {"close", "exit"} /\ work'[q].ok => Files(work[q].record.instance)' = {}
    <3>1. /\ work[q].op = "open" /\ ~work[q].ok => Files(work[q].record.instance) = {}
          /\ work[q].op \in {"close", "exit"} /\ work[q].ok => Files(work[q].record.instance) = {}
      BY DEF LeaseInv, Written
    <3>2. Files(work[q].record.instance)' \subseteq Files(work[q].record.instance)
      BY <2>5 DEF Files
    <3>3. QED
      BY <2>2, <2>3, <2>5, <3>1, <3>2
  <2>7. QED
    BY <2>6 DEF Written
<1>4. ASSUME NEW r \in leases', Alive(r.pid)', r.token = os'[r.pid].birth PROVE Accounted(r)'
  <2>1. Accounted(r) /\ r.pid \in Pids
    BY <1>4 DEF LeaseInv, Alive, Record
  <2>2. QED
    BY <2>1 DEF Accounted, Busy
<1>5. QED
  BY <1>1, <1>2, <1>3, <1>4 DEF LeaseInv

LEMMA Waits ==
  ASSUME Types, Types', LeaseInv, NEW p \in Pids,
         \/ TakeLock(p) \/ SeeStale(p) \/ BreakLock(p)
         \/ \E r \in work[p].todo : Prune(p, r)
  PROVE  LeaseInv'
<1> USE DEF system
<1>1. /\ work[p] \in Work
      /\ at[p] # "idle" => work[p].op # "none"
      /\ at[p] \in {"lock", "break"} => ~work[p].ok
      /\ at[p] = "prune" => work[p].op = "open" /\ ~work[p].ok
  BY StateTypes DEF LeaseInv, Calls, Busy
<1>2. CASE TakeLock(p)
  <2> DEFINE w == [work[p] EXCEPT !.todo = leases]
  <2>1. w.op = work[p].op /\ w.record = work[p].record /\ w.ok = work[p].ok
    BY <1>1 DEF Work
  <2>2. \/ work[p].op = "open" /\ Goes(p, "prune", w)
        \/ work[p].op # "open" /\ Goes(p, "remove", work[p])
    BY <1>2 DEF TakeLock
  <2>3. at[p] = "lock" /\ UNCHANGED <<os, births, leases, held, ops, forgotten>>
    BY <1>2 DEF TakeLock
  <2> HIDE DEF w
  <2>4. CASE work[p].op = "open" /\ Goes(p, "prune", w)
    <3>1. /\ at'[p] = "prune" /\ work'[p] = w
          /\ \A q \in Pids : q # p => at'[q] = at[q] /\ work'[q] = work[q]
      BY <2>4, GoesMoves
    <3>2. QED
      BY <1>1, <2>1, <2>3, <2>4, <3>1, WaitKeepsLeases
  <2>5. CASE work[p].op # "open" /\ Goes(p, "remove", work[p])
    <3>1. /\ at'[p] = "remove" /\ work'[p] = work[p]
          /\ \A q \in Pids : q # p => at'[q] = at[q] /\ work'[q] = work[q]
      BY <2>5, GoesMoves
    <3>2. QED
      BY <1>1, <2>3, <2>5, <3>1, WaitKeepsLeases
  <2>6. QED
    BY <2>2, <2>4, <2>5
<1>3. CASE SeeStale(p) \/ BreakLock(p)
  <2>1. /\ at[p] \in {"lock", "break"} /\ UNCHANGED <<os, births, leases, held, ops, forgotten>>
        /\ Goes(p, "break", work[p]) \/ Goes(p, "lock", work[p])
    BY <1>3 DEF SeeStale, BreakLock
  <2>2. /\ at'[p] \in {"lock", "break"} /\ work'[p] = work[p]
        /\ \A q \in Pids : q # p => at'[q] = at[q] /\ work'[q] = work[q]
    BY <2>1, GoesMoves
  <2>3. QED
    BY <1>1, <2>1, <2>2, WaitKeepsLeases
<1>4. ASSUME NEW r \in work[p].todo, Prune(p, r) PROVE LeaseInv'
  <2> DEFINE w == [work[p] EXCEPT !.todo = @ \ {r}]
  <2>1. w.op = work[p].op /\ w.record = work[p].record /\ w.ok = work[p].ok
    BY <1>1 DEF Work
  <2>2. at[p] = "prune" /\ Goes(p, "prune", w) /\ UNCHANGED <<os, births, held, ops, forgotten>>
    BY <1>4 DEF Prune
  <2>3. leases' \subseteq leases /\ \A q \in leases \ leases' : q = r /\ "stale" \in Liveness(r)
    BY <1>4 DEF Prune
  <2>4. \A q \in leases \ leases' : ~Alive(q.pid) \/ q.token \notin {os[q.pid].birth, None}
    BY <2>3 DEF Liveness
  <2> HIDE DEF w
  <2>5. QED
    <3>1. /\ at'[p] = "prune" /\ work'[p] = w
          /\ \A q \in Pids : q # p => at'[q] = at[q] /\ work'[q] = work[q]
      BY <2>2, GoesMoves
    <3>2. QED
      BY <1>1, <2>1, <2>2, <2>3, <2>4, <3>1, WaitKeepsLeases
<1>5. QED
  BY <1>2, <1>3, <1>4

\* A new call: its record is of a new instance, or of the lease it had.
LEMMA OpenKeepsLeases ==
  ASSUME Types, Types', LeaseInv, NEW p \in Pids, Open(p)
  PROVE  LeaseInv'
<1>1. PICK token \in {os[p].birth, None} :
        Goes(p, "lock", [NoWork EXCEPT !.op = "open",
                                       !.record = [instance |-> ops', pid |-> p, token |-> token]])
  BY DEF Open
<1> DEFINE record == [instance |-> ops', pid |-> p, token |-> token]
           w == [NoWork EXCEPT !.op = "open", !.record = record]
<1>2. w.op = "open" /\ w.record = record /\ ~w.ok
  BY DEF NoWork
<1>3. /\ ops \in Nat /\ ops' = ops + 1 /\ os[p].kind = "server" /\ at[p] = "idle" /\ ~Busy(p)
      /\ os[p].birth \in Nat /\ UNCHANGED <<os, births, leases, held, forgotten>>
  BY StateTypes DEF Open, Asks, system, LeaseInv, Calls, Os
<1>4. record \in Record /\ record.instance = ops' /\ record.pid = p /\ record.token = token
  BY <1>3 DEF Record
<1>5. /\ at'[p] = "lock" /\ work'[p].op = "open" /\ work'[p].record = record /\ ~work'[p].ok
      /\ \A q \in Pids : q # p => at'[q] = at[q] /\ work'[q] = work[q]
  <2>1. Goes(p, "lock", w)
    BY <1>1
  <2> HIDE DEF record, w
  <2>2. at'[p] = "lock" /\ work'[p] = w /\ \A q \in Pids : q # p => at'[q] = at[q] /\ work'[q] = work[q]
    BY <2>1, GoesMoves
  <2>3. QED
    BY <1>2, <2>2
<1> HIDE DEF record, w
<1>6. /\ \A r \in leases : r.instance \in 1..ops /\ r.instance # ops'
      /\ \A q \in Pids : Recorded(q) => held[q] \in 1..ops /\ held[q] # ops'
      /\ \A q \in Pids : Busy(q) => work[q].record.instance \in 1..ops /\ work[q].record.instance # ops'
  BY <1>3 DEF LeaseInv, Instances, Calls
<1>7. \A q \in Pids : held[q] # ops'
  BY <1>3, <1>6, RegistryAssumption DEF Recorded, Unrecorded
<1>8. Calls'
  BY <1>1, <1>3, <1>4, <1>5 DEF LeaseInv, Calls, Busy
<1>9. Instances'
  <2>1. /\ \A r \in leases : r.instance \in 1..ops' /\ (r.token # None => r.token \in 0..births)
        /\ \A q \in Pids : Recorded(q) => held[q] \in 1..ops'
    BY <1>3 DEF LeaseInv, Instances
  <2>2. /\ \A q \in Pids : work'[q].op = "open" => held[q] # work'[q].record.instance
        /\ \A q, u \in Pids : Recorded(q) /\ held[q] = held[u] => q = u
    BY <1>4, <1>5, <1>7 DEF LeaseInv, Instances
  <2>3. \A q, u \in Pids : Busy(q)' /\ Busy(u)' /\ work'[q].record.instance = work'[u].record.instance => q = u
    BY <1>4, <1>5, <1>6 DEF LeaseInv, Instances, Busy
  <2>4. \A q, u \in Pids : Busy(q)' /\ held[u] = work'[q].record.instance => q = u
    BY <1>4, <1>5, <1>7 DEF LeaseInv, Instances, Busy
  <2>5. \A r \in leases, q \in Pids :
          /\ Busy(q)' /\ r.instance = work'[q].record.instance => r.pid = q
          /\ Recorded(q) /\ r.instance = held[q] => r.pid = q
    BY <1>4, <1>5, <1>6 DEF LeaseInv, Instances, Busy
  <2>6. QED
    BY <1>3, <2>1, <2>2, <2>3, <2>4, <2>5 DEF Instances, Recorded
<1>10. Written'
  <2>1. Files(ops') = {}
    BY <1>6 DEF Files
  <2>2. ~Busy(p) => work[p].op = "none"
    BY DEF Busy
  <2>3. QED
    BY <1>3, <1>4, <1>5, <2>1, <2>2 DEF LeaseInv, Written, Recorded, Files
<1>11. ASSUME NEW r \in leases', Alive(r.pid)', r.token = os'[r.pid].birth PROVE Accounted(r)'
  <2>1. Accounted(r) /\ r.pid \in Pids
    BY <1>3, <1>11, StateTypes DEF LeaseInv, Alive, Record
  <2>2. QED
    BY <1>3, <1>5, <2>1 DEF Accounted, Busy
<1>12. QED
  BY <1>8, <1>9, <1>10, <1>11 DEF LeaseInv

LEMMA UnregisterMoves ==
  ASSUME Types, NEW p \in Pids, NEW op \in {"close", "exit"}, Recorded(p), Unregisters(p, op)
  PROVE  /\ at'[p] = "lock" /\ work'[p].op = op /\ ~work'[p].ok
         /\ work'[p].record \in Record /\ work'[p].record.instance = held[p] /\ work'[p].record.pid = p
         /\ \A q \in Pids : q # p => at'[q] = at[q] /\ work'[q] = work[q]
<1> DEFINE record == [instance |-> held[p], pid |-> p, token |-> None]
           w == [NoWork EXCEPT !.op = op, !.record = record]
<1>1. record \in Record /\ record.instance = held[p] /\ record.pid = p
  BY StateTypes DEF Recorded, Record
<1>2. w.op = op /\ w.record = record /\ ~w.ok
  BY DEF NoWork
<1>3. Goes(p, "lock", w)
  BY DEF Unregisters
<1> HIDE DEF record, w
<1>4. at'[p] = "lock" /\ work'[p] = w /\ \A q \in Pids : q # p => at'[q] = at[q] /\ work'[q] = work[q]
  BY <1>3, GoesMoves
<1>5. QED
  BY <1>1, <1>2, <1>4

LEMMA LeavingKeepsLeases ==
  ASSUME Types, Types', LeaseInv, NEW p \in Pids, Close(p) \/ Exit(p)
  PROVE  LeaseInv'
<1>1. /\ ops \in Nat /\ ops' = ops + 1 /\ os[p].kind = "server" /\ at[p] = "idle" /\ ~Busy(p)
      /\ None \notin Nat /\ UNCHANGED <<os, births, leases, forgotten>>
      /\ \A q \in Pids : q # p => held'[q] = held[q]
      /\ held'[p] = None \/ held'[p] = held[p]
  BY StateTypes, RegistryAssumption DEF Close, Exit, Asks, system, LeaseInv, Calls
<1>2. CASE ~Recorded(p)
  <2>1. UNCHANGED <<at, work>> /\ held'[p] = None
    BY <1>2, StateTypes DEF Close, Exit
  <2>2. Calls'
    BY <1>1, <2>1 DEF LeaseInv, Calls, Busy
  <2>3. Instances'
    <3>1. \A q \in Pids : Busy(q) => work[q].record.instance \in Nat
      BY DEF LeaseInv, Calls, Record
    <3>2. QED
      BY <1>1, <2>1, <3>1 DEF LeaseInv, Instances, Recorded, Busy
  <2>4. Written'
    BY <1>1, <2>1 DEF LeaseInv, Written, Recorded, Files
  <2>5. ASSUME NEW r \in leases', Alive(r.pid)', r.token = os'[r.pid].birth PROVE Accounted(r)'
    <3>1. Accounted(r) /\ r.pid \in Pids /\ r.instance \in 1..ops
      BY <1>1, <2>5, StateTypes DEF LeaseInv, Instances, Alive, Record
    <3>2. held[p] # r.instance
      BY <1>1, <1>2, <3>1 DEF Recorded, Unrecorded
    <3>3. QED
      BY <1>1, <2>1, <3>1, <3>2 DEF Accounted, Busy
  <2>6. QED
    BY <2>2, <2>3, <2>4, <2>5 DEF LeaseInv
<1>3. CASE Recorded(p)
  <2>1. PICK op \in {"close", "exit"} :
          Unregisters(p, op) /\ (op = "close" => held'[p] = None) /\ (op = "exit" => held'[p] = held[p])
    BY <1>3, StateTypes DEF Close, Exit
  <2>2. /\ at'[p] = "lock" /\ work'[p].op = op /\ ~work'[p].ok
        /\ work'[p].record \in Record /\ work'[p].record.instance = held[p] /\ work'[p].record.pid = p
        /\ \A q \in Pids : q # p => at'[q] = at[q] /\ work'[q] = work[q]
    BY <1>3, <2>1, UnregisterMoves
  <2>3. held[p] \in 1..ops
    BY <1>3 DEF LeaseInv, Instances
  <2>4. \A q \in Pids : q # p => held[q] # held[p] /\ (Busy(q) => work[q].record.instance # held[p])
    BY <1>3 DEF LeaseInv, Instances
  <2>5. Calls'
    BY <1>1, <2>1, <2>2, <2>3 DEF LeaseInv, Calls, Busy
  <2>6. Instances'
    <3>1. /\ \A r \in leases : r.instance \in 1..ops' /\ (r.token # None => r.token \in 0..births)
          /\ \A q \in Pids : Recorded(q)' => Recorded(q) /\ held'[q] = held[q] /\ held[q] \in 1..ops'
      BY <1>1 DEF LeaseInv, Instances, Recorded
    <3>2. /\ \A q \in Pids : work'[q].op = "open" => held'[q] # work'[q].record.instance
          /\ \A q, u \in Pids : Recorded(q)' /\ held'[q] = held'[u] => q = u
      BY <1>1, <2>1, <2>2, <3>1 DEF LeaseInv, Instances, Recorded
    <3>3. \A q, u \in Pids : Busy(q)' /\ Busy(u)' /\ work'[q].record.instance = work'[u].record.instance => q = u
      BY <2>2, <2>4 DEF LeaseInv, Instances, Busy
    <3>4. \A q \in Pids : Busy(q) => work[q].record.instance \in Nat
      BY DEF LeaseInv, Calls, Record
    <3>5. \A q, u \in Pids : Busy(q)' /\ held'[u] = work'[q].record.instance => q = u
      BY <1>1, <2>2, <2>3, <2>4, <3>4 DEF LeaseInv, Instances, Busy
    <3>6. \A r \in leases, q \in Pids :
            /\ Busy(q)' /\ r.instance = work'[q].record.instance => r.pid = q
            /\ Recorded(q)' /\ r.instance = held'[q] => r.pid = q
      BY <1>3, <2>2, <3>1 DEF LeaseInv, Instances, Busy
    <3>7. QED
      BY <1>1, <3>1, <3>2, <3>3, <3>5, <3>6 DEF Instances
  <2>7. Written'
    BY <1>1, <2>1, <2>2 DEF LeaseInv, Written, Recorded, Files
  <2>8. ASSUME NEW r \in leases', Alive(r.pid)', r.token = os'[r.pid].birth PROVE Accounted(r)'
    <3>1. Accounted(r) /\ r.pid \in Pids
      BY <1>1, <2>8, StateTypes DEF LeaseInv, Alive, Record
    <3>2. QED
      BY <1>1, <2>1, <2>2, <3>1 DEF Accounted, Busy
  <2>9. QED
    BY <2>5, <2>6, <2>7, <2>8 DEF LeaseInv
<1>4. QED
  BY <1>2, <1>3

LEMMA WriteKeepsLeases ==
  ASSUME Types, Types', RunInv, LeaseInv, NEW p \in Pids, WriteRecord(p)
  PROVE  LeaseInv'
<1> DEFINE record == work[p].record
           w == [work[p] EXCEPT !.ok = TRUE]
<1>1. /\ work[p] \in Work /\ work[p].op = "open" /\ ~work[p].ok /\ Busy(p) /\ os[p].kind = "server"
      /\ record \in Record /\ record.pid = p /\ record.instance \in 1..ops
      /\ record.token \in {os[p].birth, None}
  BY StateTypes DEF WriteRecord, LeaseInv, Calls, Busy
<1>2. w.op = "open" /\ w.record = record /\ w.ok
  BY <1>1 DEF Work
<1>3. \/ leases' = leases \cup {record} /\ Goes(p, "unlock", w)
      \/ leases' = leases /\ Goes(p, "unlock", work[p])
  BY DEF WriteRecord
<1>4. UNCHANGED <<os, births, held, ops, forgotten>>
  BY DEF WriteRecord, system
<1> HIDE DEF record, w
<1>5. /\ at'[p] = "unlock" /\ work'[p].op = "open" /\ work'[p].record = record
      /\ leases' = IF work'[p].ok THEN leases \cup {record} ELSE leases
      /\ \A q \in Pids : q # p => at'[q] = at[q] /\ work'[q] = work[q]
  <2>1. CASE leases' = leases \cup {record} /\ Goes(p, "unlock", w)
    BY <1>2, <2>1, GoesMoves
  <2>2. CASE leases' = leases /\ Goes(p, "unlock", work[p])
    BY <1>1, <2>2, GoesMoves DEF record
  <2>3. QED
    BY <1>3, <2>1, <2>2
<1>6. Calls'
  BY <1>1, <1>4, <1>5 DEF LeaseInv, Calls, Busy
<1>7. /\ record.token # None => record.token \in 0..births
      /\ \A q \in Pids : Busy(q) /\ work[q].record.instance = record.instance => q = p
      /\ \A q \in Pids : held[q] = record.instance => q = p
  <2>1. os[p] \in Os /\ births \in Nat /\ os[p].birth <= births
    BY StateTypes DEF RunInv, Births
  <2>2. record.token # None => record.token \in 0..births
    BY <1>1, <2>1 DEF Os
  <2>3. QED
    BY <1>1, <2>2 DEF LeaseInv, Instances, record
<1>8. Instances'
  <2>1. /\ \A r \in leases' : r \in leases \/ r = record
        /\ \A q \in Pids : Busy(q)' = Busy(q) /\ Recorded(q)' = Recorded(q)
        /\ \A q \in Pids : work'[q].op = work[q].op /\ work'[q].record = work[q].record
    BY <1>1, <1>4, <1>5 DEF Busy, Recorded, record
  <2>2. \A r \in leases' : r.instance \in 1..ops /\ (r.token # None => r.token \in 0..births)
    BY <1>1, <1>7, <2>1 DEF LeaseInv, Instances
  <2>3. \A r \in leases', q \in Pids :
          /\ Busy(q) /\ r.instance = work[q].record.instance => r.pid = q
          /\ Recorded(q) /\ r.instance = held[q] => r.pid = q
    BY <1>1, <1>7, <2>1 DEF LeaseInv, Instances
  <2>4. QED
    BY <1>4, <2>1, <2>2, <2>3 DEF LeaseInv, Instances
<1>9. Written'
  <2>1. ASSUME NEW q \in Pids, q # p
        PROVE  /\ work[q].op = "open" /\ ~work[q].ok => Files(work[q].record.instance)' = Files(work[q].record.instance)
               /\ work[q].op \in {"close", "exit"} => Files(work[q].record.instance)' = Files(work[q].record.instance)
    <3>1. Busy(q) => work[q].record.instance # record.instance
      BY <1>7, <2>1
    <3>2. QED
      BY <1>5, <2>1, <3>1 DEF Files, Busy
  <2>2. \A q \in Pids : q # p => work'[q] = work[q]
    BY <1>5
  <2>3. leases \subseteq leases' /\ (work'[p].ok => record \in leases') /\ (~work'[p].ok => leases' = leases)
    BY <1>5
  <2>4. ASSUME NEW q \in Pids
        PROVE  /\ Recorded(q)' /\ work'[q].op # "exit"
                    => \E r \in leases' : r.instance = held'[q] /\ r.pid = q /\ r.token \in {os'[q].birth, None}
               /\ work'[q].op = "open" /\ work'[q].ok => work'[q].record \in leases'
    BY <1>1, <1>4, <1>5, <2>2, <2>3 DEF LeaseInv, Written, Recorded
  <2>5. ASSUME NEW q \in Pids
        PROVE  /\ work'[q].op = "open" /\ ~work'[q].ok => Files(work[q].record.instance)' = {}
               /\ work'[q].op \in {"close", "exit"} /\ work'[q].ok => Files(work[q].record.instance)' = {}
    <3>1. CASE q = p
      BY <1>1, <1>5, <2>3, <3>1 DEF LeaseInv, Written, Files, record
    <3>2. CASE q # p
      BY <2>1, <2>2, <3>2 DEF LeaseInv, Written
    <3>3. QED
      BY <3>1, <3>2
  <2>6. \A q \in Pids : work'[q].record = work[q].record
    BY <1>5 DEF record
  <2>7. QED
    BY <2>4, <2>5, <2>6 DEF Written, Files
<1>10. ASSUME NEW r \in leases', Alive(r.pid)', r.token = os'[r.pid].birth PROVE Accounted(r)'
  <2>1. CASE r \in leases
    <3>1. Accounted(r) /\ r.pid \in Pids
      BY <1>4, <1>10, <2>1, StateTypes DEF LeaseInv, Alive, Record
    <3>2. QED
      BY <1>1, <1>4, <1>5, <3>1 DEF Accounted, Busy, record
  <2>2. CASE r = record
    BY <1>1, <1>5, <2>2 DEF Accounted, Busy
  <2>3. QED
    BY <1>5, <2>1, <2>2
<1>11. QED
  BY <1>6, <1>8, <1>9, <1>10 DEF LeaseInv

LEMMA RemoveKeepsLeases ==
  ASSUME Types, Types', LeaseInv, NEW p \in Pids, RemoveRecord(p)
  PROVE  LeaseInv'
<1> DEFINE instance == work[p].record.instance
           w == [work[p] EXCEPT !.ok = TRUE]
<1>1. work[p] \in Work /\ work[p].op \in {"close", "exit"} /\ ~work[p].ok /\ Busy(p)
  BY StateTypes DEF RemoveRecord, LeaseInv, Calls, Busy, Work
<1>2. w.op = work[p].op /\ w.record = work[p].record /\ w.ok
  BY <1>1 DEF Work
<1>3. \/ leases' = leases \ Files(instance) /\ Goes(p, "unlock", w)
      \/ leases' = leases /\ Goes(p, "unlock", work[p])
  BY DEF RemoveRecord
<1>4. UNCHANGED <<os, births, held, ops, forgotten>>
  BY DEF RemoveRecord, system
<1> HIDE DEF w
<1>5. /\ at'[p] = "unlock" /\ work'[p].op = work[p].op /\ work'[p].record = work[p].record
      /\ leases' = IF work'[p].ok THEN leases \ Files(instance) ELSE leases
      /\ \A q \in Pids : q # p => at'[q] = at[q] /\ work'[q] = work[q]
  <2>1. CASE leases' = leases \ Files(instance) /\ Goes(p, "unlock", w)
    BY <1>2, <2>1, GoesMoves
  <2>2. CASE leases' = leases /\ Goes(p, "unlock", work[p])
    BY <1>1, <2>2, GoesMoves
  <2>3. QED
    BY <1>3, <2>1, <2>2
<1>6. Calls'
  BY <1>1, <1>4, <1>5 DEF LeaseInv, Calls, Busy
<1>7. /\ leases' \subseteq leases
      /\ \A q \in Pids : /\ Busy(q)' = Busy(q) /\ Recorded(q)' = Recorded(q)
                         /\ work'[q].op = work[q].op /\ work'[q].record = work[q].record
                         /\ q # p => work'[q].ok = work[q].ok
  BY <1>4, <1>5 DEF Busy, Recorded
<1>8. Instances'
  BY <1>4, <1>7 DEF LeaseInv, Instances
<1>9. Written'
  <2>1. ASSUME NEW q \in Pids, Recorded(q), work[q].op # "exit"
        PROVE  \E r \in leases' : r.instance = held[q] /\ r.pid = q /\ r.token \in {os[q].birth, None}
    <3>1. PICK r \in leases : r.instance = held[q] /\ r.pid = q /\ r.token \in {os[q].birth, None}
      BY <2>1 DEF LeaseInv, Written
    <3>2. held[q] # instance
      BY <1>1, <2>1 DEF LeaseInv, Instances, Calls, Recorded
    <3>3. QED
      BY <1>5, <3>1, <3>2 DEF Files
  <2>2. ASSUME NEW q \in Pids, work[q].op = "open", work[q].ok PROVE work[q].record \in leases'
    <3>1. work[q].record \in leases /\ work[q].record.instance # instance
      BY <1>1, <2>2 DEF LeaseInv, Written, Instances, Busy
    <3>2. QED
      BY <1>5, <3>1 DEF Files
  <2>3. ASSUME NEW q \in Pids
        PROVE  /\ Recorded(q)' /\ work'[q].op # "exit"
                    => \E r \in leases' : r.instance = held'[q] /\ r.pid = q /\ r.token \in {os'[q].birth, None}
               /\ work'[q].op = "open" /\ work'[q].ok => work'[q].record \in leases'
               /\ work'[q].op = "open" /\ ~work'[q].ok => Files(work[q].record.instance)' = {}
               /\ work'[q].op \in {"close", "exit"} /\ work'[q].ok => Files(work[q].record.instance)' = {}
    <3>1. Files(work[q].record.instance)' \subseteq Files(work[q].record.instance)
      BY <1>7 DEF Files
    <3>2. q = p /\ work'[p].ok => Files(work[q].record.instance)' = {}
      BY <1>5 DEF Files
    <3>3. Recorded(q)' /\ work'[q].op # "exit"
             => \E r \in leases' : r.instance = held'[q] /\ r.pid = q /\ r.token \in {os'[q].birth, None}
      BY <1>4, <1>7, <2>1
    <3>4. work'[q].op = "open" /\ work'[q].ok => work'[q].record \in leases'
      BY <1>1, <1>5, <1>7, <2>2
    <3>5. /\ work'[q].op = "open" /\ ~work'[q].ok => Files(work[q].record.instance)' = {}
          /\ work'[q].op \in {"close", "exit"} /\ work'[q].ok => Files(work[q].record.instance)' = {}
      BY <1>1, <1>4, <1>7, <2>1, <2>2, <3>1, <3>2 DEF LeaseInv, Written
    <3>6. QED
      BY <3>3, <3>4, <3>5
  <2>4. QED
    BY <1>7, <2>3 DEF Written, Files
<1>10. ASSUME NEW r \in leases', Alive(r.pid)', r.token = os'[r.pid].birth PROVE Accounted(r)'
  <2>1. Accounted(r) /\ r.pid \in Pids
    BY <1>4, <1>7, <1>10, StateTypes DEF LeaseInv, Alive, Record
  <2>2. QED
    BY <1>4, <1>7, <2>1 DEF Accounted
<1>11. QED
  BY <1>6, <1>8, <1>9, <1>10 DEF LeaseInv

\* The end of a call: what it was about is told, or not, or accounted for.
LEMMA EndsKeepsLeases ==
  ASSUME Types, Types', LeaseInv, NEW p \in Pids, at[p] # "idle",
         Ends(p, work[p].ok), UNCHANGED <<births, leases, ops>>
  PROVE  LeaseInv'
<1> DEFINE w == work[p]
           mine == IF w.op = "open" /\ w.ok THEN w.record.instance
                   ELSE IF w.op = "open" THEN Unrecorded ELSE None
<1>1. /\ w.op \in {"open", "close", "exit"} /\ Busy(p) /\ os[p].kind = "server"
      /\ w.record \in Record /\ w.record.pid = p /\ w.record.instance \in 1..ops
      /\ w.op = "open" => w.record.token \in {os[p].birth, None}
      /\ w.op = "close" => held[p] = None
      /\ w.op = "exit" => held[p] = w.record.instance
  BY StateTypes DEF LeaseInv, Calls, Busy, Work
<1>2. /\ at'[p] = "idle" /\ work'[p] = NoWork
      /\ \A q \in Pids : q # p => at'[q] = at[q] /\ work'[q] = work[q]
  BY GoesMoves DEF Ends
<1>3. /\ held'[p] = mine /\ \A q \in Pids : q # p => held'[q] = held[q]
      /\ os'[p] = IF w.op = "exit" THEN Free ELSE os[p]
      /\ \A q \in Pids : q # p => os'[q] = os[q]
      /\ forgotten \subseteq forgotten' /\ (w.op = "open" => held[p] \in forgotten')
      /\ w.op # "open" /\ ~w.ok => w.record.instance \in forgotten'
  <2>1. held'[p] = mine
    BY <1>1, StateTypes DEF Ends
  <2>2. QED
    BY <1>1, <2>1, StateTypes DEF Ends
<1>4. /\ None \notin Nat /\ NoWork.op = "none" /\ ~NoWork.ok /\ ~Busy(p)'
      /\ \A q \in Pids : q # p => Busy(q)' = Busy(q) /\ Recorded(q)' = Recorded(q)
      /\ Recorded(p)' => w.op = "open" /\ w.ok /\ mine = w.record.instance
  BY <1>1, <1>2, <1>3, RegistryAssumption DEF NoWork, Busy, Recorded, Unrecorded
<1>5. Calls'
  <2>1. mine # None => w.op = "open"
    OBVIOUS
  <2> HIDE DEF mine
  <2>2. QED
    BY <1>1, <1>2, <1>3, <1>4, <2>1 DEF LeaseInv, Calls, Busy
<1>6. Instances'
  <2>1. \A r \in leases : r.instance \in 1..ops /\ (r.token # None => r.token \in 0..births)
    BY DEF LeaseInv, Instances
  <2>2. \A q \in Pids : Recorded(q)' => held'[q] \in 1..ops
    BY <1>1, <1>3, <1>4 DEF LeaseInv, Instances
  <2>3. \A q \in Pids : work'[q].op = "open" => held'[q] # work'[q].record.instance
    BY <1>2, <1>3, <1>4 DEF LeaseInv, Instances
  <2>4. \A q, u \in Pids : Recorded(q)' /\ held'[q] = held'[u] => q = u
    <3>1. \A q \in Pids : q # p /\ Busy(p) => held[q] # w.record.instance
      BY DEF LeaseInv, Instances
    <3>2. ASSUME NEW q \in Pids, NEW u \in Pids, q # u, Recorded(q)', held'[q] = held'[u] PROVE FALSE
      <4>1. Recorded(u)'
        BY <3>2 DEF Recorded
      <4>2. CASE q # p /\ u # p
        BY <1>3, <1>4, <3>2, <4>2 DEF LeaseInv, Instances
      <4>3. CASE q = p \/ u = p
        BY <1>1, <1>3, <1>4, <3>1, <3>2, <4>1, <4>3
      <4>4. QED
        BY <4>2, <4>3
    <3>3. QED
      BY <3>2
  <2>5. \A q, u \in Pids : Busy(q)' /\ Busy(u)' /\ work'[q].record.instance = work'[u].record.instance => q = u
    BY <1>2, <1>4 DEF LeaseInv, Instances
  <2>6. \A q, u \in Pids : Busy(q)' /\ held'[u] = work'[q].record.instance => q = u
    <3>1. \A q \in Pids : Busy(q) => work[q].record.instance \in 1..ops
      BY DEF LeaseInv, Calls
    <3>2. \A q \in Pids : q # p /\ Busy(q) => work[q].record.instance # mine
      <4>1. ASSUME NEW q \in Pids, q # p, Busy(q), work[q].record.instance = mine PROVE FALSE
        <5>1. work[q].record.instance \in Nat \ {0}
          BY <3>1, <4>1
        <5>2. mine = w.record.instance
          BY <1>4, <4>1, <5>1 DEF Unrecorded
        <5>3. QED
          BY <1>1, <4>1, <5>2 DEF LeaseInv, Instances
      <4>2. QED
        BY <4>1
    <3>3. QED
      BY <1>2, <1>3, <1>4, <3>2 DEF LeaseInv, Instances
  <2>7. \A r \in leases, q \in Pids :
          /\ Busy(q)' /\ r.instance = work'[q].record.instance => r.pid = q
          /\ Recorded(q)' /\ r.instance = held'[q] => r.pid = q
    BY <1>1, <1>2, <1>3, <1>4 DEF LeaseInv, Instances
  <2>8. QED
    BY <2>1, <2>2, <2>3, <2>4, <2>5, <2>6, <2>7 DEF Instances
<1>7. Written'
  <2>1. ASSUME Recorded(p)'
        PROVE  \E r \in leases : r.instance = held'[p] /\ r.pid = p /\ r.token \in {os'[p].birth, None}
    <3>1. w.record \in leases /\ w.op = "open" /\ held'[p] = w.record.instance /\ os'[p] = os[p]
      BY <1>3, <1>4, <2>1 DEF LeaseInv, Written
    <3>2. QED
      BY <1>1, <3>1
  <2>2. ASSUME NEW q \in Pids
        PROVE  /\ Recorded(q)' /\ work'[q].op # "exit"
                    => \E r \in leases' : r.instance = held'[q] /\ r.pid = q /\ r.token \in {os'[q].birth, None}
               /\ work'[q].op = "open" /\ work'[q].ok => work'[q].record \in leases'
               /\ work'[q].op = "open" /\ ~work'[q].ok => Files(work'[q].record.instance) = {}
               /\ work'[q].op \in {"close", "exit"} /\ work'[q].ok => Files(work'[q].record.instance) = {}
    <3>1. CASE q = p
      BY <1>2, <1>4, <2>1, <3>1
    <3>2. CASE q # p
      <4>1. /\ UNCHANGED leases /\ Recorded(q)' = Recorded(q)
            /\ work'[q] = work[q] /\ held'[q] = held[q] /\ os'[q] = os[q]
        BY <1>1, <1>2, <1>3, <1>4, <3>2
      <4>2. /\ Recorded(q) /\ work[q].op # "exit"
                 => \E r \in leases : r.instance = held[q] /\ r.pid = q /\ r.token \in {os[q].birth, None}
            /\ work[q].op = "open" /\ work[q].ok => work[q].record \in leases
            /\ work[q].op = "open" /\ ~work[q].ok => Files(work[q].record.instance) = {}
            /\ work[q].op \in {"close", "exit"} /\ work[q].ok => Files(work[q].record.instance) = {}
        BY DEF LeaseInv, Written
      <4>3. QED
        BY <4>1, <4>2
    <3>3. QED
      BY <3>1, <3>2
  <2>3. QED
    BY <2>2 DEF Written, Files
<1>8. ASSUME NEW r \in leases', Alive(r.pid)', r.token = os'[r.pid].birth PROVE Accounted(r)'
  <2>1. r \in leases /\ r.pid \in Pids
    BY <1>8, StateTypes DEF Record
  <2>2. os'[r.pid] = os[r.pid] /\ Accounted(r)
    BY <1>3, <1>8, <2>1 DEF Alive, Free, LeaseInv
  <2>3. CASE r.pid # p
    BY <1>2, <1>3, <1>4, <2>2, <2>1, <2>3 DEF Accounted
  <2>4. CASE r.pid = p
    <3>1. w.op # "exit"
      BY <1>3, <1>8, <2>4 DEF Alive, Free
    <3>2. CASE w.op = "open"
      <4>1. w.record.instance = r.instance => w.ok
        BY <2>1, <3>2 DEF LeaseInv, Written, Files
      <4>2. QED
        BY <1>3, <2>2, <2>4, <3>2, <4>1 DEF Accounted
    <3>3. CASE w.op = "close"
      <4>1. held[p] # r.instance
        BY <1>1, <2>1, <3>3, StateTypes, RegistryAssumption DEF Record
      <4>2. w.record.instance = r.instance => ~w.ok
        BY <2>1, <3>3 DEF LeaseInv, Written, Files
      <4>3. QED
        BY <1>3, <2>2, <2>4, <3>3, <4>1, <4>2 DEF Accounted
    <3>4. QED
      BY <1>1, <3>1, <3>2, <3>3
  <2>5. QED
    BY <2>3, <2>4
<1>9. QED
  BY <1>5, <1>6, <1>7, <1>8 DEF LeaseInv

-----------------------------------------------------------------------------
(* The invariant and what follows from it                                  *)

Inv == Types /\ RunInv /\ LeaseInv

LEMMA InitInv == Init => Inv
<1> SUFFICES ASSUME Init PROVE Inv
  OBVIOUS
<1> USE RegistryAssumption DEF Init
<1>1. Types
  BY DEF Types, TypeOK, Free, NoWork, NoCommand, Runs
<1>2. RunInv
  BY DEF RunInv, Births, Harnessed, Guarded, Told, Loaded, Known, Free, NoCommand, Signals
<1>3. LeaseInv
  BY DEF LeaseInv, Calls, Instances, Written, Busy, Recorded, NoWork
<1>4. QED
  BY <1>1, <1>2, <1>3 DEF Inv

\* What the run registry and the operating system do is nothing to a server.
LEMMA OthersKeepLeases ==
  ASSUME Types, Types', RunInv, LeaseInv,
         \/ \E p \in Pids : Boot(p, "server") \/ Boot(p, "other")
         \/ \E t \in Threads : Thread(t)
         \/ \E l \in Launchers : LauncherDies(l)
         \/ \E c \in Commands : Other(c)
  PROVE  LeaseInv'
<1> USE DEF leaseVars, system
<1>1. \A q \in Pids : os[q] \in Os
  BY StateTypes
<1>2. ASSUME NEW p \in Pids, NEW kind, Starts(p, kind) PROVE Elsewhere /\ births <= births'
  <2>1. /\ births' = births + 1 /\ births \in Nat /\ os[p].kind = "free"
        /\ os'[p] = [kind |-> kind, birth |-> births'] /\ \A q \in Pids : q # p => os'[q] = os[q]
    BY <1>2, StateTypes, StartKeeps DEF Starts, Alive
  <2>2. QED
    BY <2>1 DEF Elsewhere
<1>3. ASSUME NEW pid \in Pids, NEW deadly \in BOOLEAN, Signalled(pid, deadly) PROVE Elsewhere
  <2>1. CASE os' = os
    BY <2>1 DEF Elsewhere
  <2>2. CASE os[pid].kind \in {"harness", "other"} /\ os' = [os EXCEPT ![pid] = AfterEnd(pid)]
    <3>1. \/ AfterEnd(pid).kind = "free"
          \/ AfterEnd(pid).birth = os[pid].birth
      BY <1>1, <2>2 DEF AfterEnd, Free, Os
    <3>2. QED
      BY <2>2, <3>1, StateTypes DEF Elsewhere
  <2>3. QED
    BY <1>3, <2>1, <2>2 DEF Signalled
<1>4. births \in Nat /\ ops \in Nat
  BY StateTypes
<1>5. ASSUME NEW p \in Pids, Boot(p, "server") \/ Boot(p, "other") PROVE LeaseInv'
  <2>1. Elsewhere /\ births <= births'
    BY <1>2, <1>5 DEF Boot
  <2>2. QED
    BY <1>4, <1>5, <2>1, ElsewhereKeepsLeases DEF Boot
<1>6. ASSUME NEW t \in Threads, Thread(t) PROVE LeaseInv'
  <2>1. ASSUME NEW p \in Pids, Launch(t, p) PROVE LeaseInv'
    <3>1. Elsewhere /\ births <= births'
      BY <1>2, <2>1 DEF Launch
    <3>2. QED
      BY <1>4, <2>1, <3>1, ElsewhereKeepsLeases DEF Launch
  <2>2. CASE LoadRuns(t) \/ SaveRuns(t)
    <3>1. Elsewhere
      BY <2>2 DEF LoadRuns, SaveRuns, Elsewhere
    <3>2. QED
      BY <1>4, <2>2, <3>1, ElsewhereKeepsLeases DEF LoadRuns, SaveRuns
  <2>3. CASE Reap(t)
    <3>1. Elsewhere
      BY <2>3, StateTypes DEF Reap, Elsewhere, Free
    <3>2. QED
      BY <1>4, <2>3, <3>1, ElsewhereKeepsLeases DEF Reap
  <2>4. QED
    BY <1>6, <2>1, <2>2, <2>3 DEF Thread
<1>7. ASSUME NEW l \in Launchers, LauncherDies(l) PROVE LeaseInv'
  <2>1. Elsewhere
    BY <1>7 DEF LauncherDies, Elsewhere, Free
  <2>2. QED
    BY <1>4, <1>7, <2>1, ElsewhereKeepsLeases DEF LauncherDies
<1>8. ASSUME NEW c \in Commands, Other(c) PROVE LeaseInv'
  <2>1. CASE List(c) \/ \E t \in Threads : Kill(c, t)
    <3>1. Elsewhere /\ ops <= ops'
      BY <1>4, <2>1 DEF List, Kill, Elsewhere
    <3>2. QED
      BY <1>4, <2>1, <3>1, ElsewhereKeepsLeases DEF List, Kill
  <2>2. CASE Term(c) \/ Terminate(c)
    <3>1. command[c].base[command[c].id].pid \in Pids
      BY <2>2, CommandTypes DEF Term, Terminate, Signals, RunInv
    <3>2. /\ Signalled(command[c].base[command[c].id].pid, FALSE) \/ Signalled(command[c].base[command[c].id].pid, TRUE)
          /\ UNCHANGED <<births, leases, held, at, work, ops, forgotten>>
      BY <2>2 DEF Term, Terminate
    <3>3. Elsewhere
      BY <1>3, <3>1, <3>2
    <3>4. QED
      BY <1>4, <3>2, <3>3, ElsewhereKeepsLeases
  <2>3. CASE NotPermitted(c) \/ SaveCommand(c)
    <3>1. Elsewhere
      BY <2>3 DEF NotPermitted, SaveCommand, Elsewhere
    <3>2. QED
      BY <1>4, <2>3, <3>1, ElsewhereKeepsLeases DEF NotPermitted, SaveCommand
  <2>4. QED
    BY <1>8, <2>1, <2>2, <2>3 DEF Other
<1>9. QED
  BY <1>5, <1>6, <1>7, <1>8

LEMMA NextInv == Inv /\ [Next]_vars => Inv'
<1> SUFFICES ASSUME Types, RunInv, LeaseInv, [Next]_vars PROVE Inv'
  BY DEF Inv
<1>a. Births /\ Harnessed /\ Guarded /\ Calls
  BY DEF RunInv, LeaseInv
<1>1. ASSUME NEW p \in Pids, Server(p) PROVE Inv'
  <2>1. Types'
    BY <1>1, <1>a, ServerTypes
  <2>2. RunInv'
    BY <1>1, <1>a, <2>1, ServerEnds, EndingKeepsRuns
  <2>3. CASE Open(p)
    BY <2>1, <2>2, <2>3, OpenKeepsLeases DEF Inv
  <2>4. CASE Close(p) \/ Exit(p)
    BY <2>1, <2>2, <2>4, LeavingKeepsLeases DEF Inv
  <2>5. CASE TakeLock(p) \/ SeeStale(p) \/ BreakLock(p) \/ \E r \in work[p].todo : Prune(p, r)
    BY <2>1, <2>2, <2>5, Waits DEF Inv
  <2>6. CASE WriteRecord(p)
    BY <2>1, <2>2, <2>6, WriteKeepsLeases DEF Inv
  <2>7. CASE RemoveRecord(p)
    BY <2>1, <2>2, <2>7, RemoveKeepsLeases DEF Inv
  <2>8. CASE GiveUp(p)
    <3>1. ~work[p].ok /\ work[p].ok \in BOOLEAN
      BY <2>8, <1>a, StateTypes DEF GiveUp, Calls, Work
    <3>2. work[p].ok = FALSE
      BY <3>1
    <3>3. Ends(p, work[p].ok) /\ at[p] # "idle" /\ UNCHANGED <<births, leases, ops>>
      BY <2>8, <3>2 DEF GiveUp
    <3>4. QED
      BY <2>1, <2>2, <3>3, EndsKeepsLeases DEF Inv
  <2>9. CASE Unlock(p)
    BY <2>1, <2>2, <2>9, EndsKeepsLeases DEF Inv, Unlock
  <2>10. QED
    BY <1>1, <2>3, <2>4, <2>5, <2>6, <2>7, <2>8, <2>9 DEF Server
<1>2. ASSUME NEW p \in Pids, Die(p) PROVE Inv'
  BY <1>2, <1>a, RunTypes, DeathEnds, EndingKeepsRuns, DeathKeepsLeases DEF Inv
<1>3. ASSUME NEW p \in Pids, Boot(p, "server") \/ Boot(p, "other") PROVE Inv'
  BY <1>3, <1>a, RunTypes, BootKeepsRuns, OthersKeepLeases DEF Inv
<1>4. ASSUME NEW t \in Threads, Thread(t) PROVE Inv'
  <2>1. Types'
    BY <1>4, <1>a, RunTypes
  <2>2. RunInv'
    BY <1>4, <2>1, LaunchKeepsRuns, LoadKeepsRuns, SaveKeepsRuns, ReapKeepsRuns DEF Thread
  <2>3. QED
    BY <1>4, <2>1, <2>2, OthersKeepLeases DEF Inv
<1>5. ASSUME NEW l \in Launchers, LauncherDies(l) PROVE Inv'
  BY <1>5, <1>a, RunTypes, LauncherDeathKeepsRuns, OthersKeepLeases DEF Inv
<1>6. ASSUME NEW c \in Commands, Other(c) PROVE Inv'
  <2>1. Types'
    BY <1>6, <1>a, RunTypes
  <2>2. ASSUME NotPermitted(c) PROVE RunInv'
    <3>1. /\ command'[c] = NoCommand /\ \A d \in Commands : d # c => command'[d] = command[d]
          /\ UNCHANGED <<os, births, runs, stage, child, map, slip>>
      BY <2>2, StateTypes DEF NotPermitted, system, threadVars
    <3>2. Ending /\ Known(c)'
      BY <3>1 DEF Ending, Known, NoCommand, Signals
    <3>3. QED
      BY <2>1, <3>1, <3>2, CommandKeepsRuns DEF NoCommand, Signals
  <2>3. RunInv'
    BY <1>6, <2>1, <2>2, ListKeepsRuns, KillKeepsRuns, TermKeepsRuns, TerminateKeepsRuns, SaveCommandKeepsRuns DEF Other
  <2>4. QED
    BY <1>6, <2>1, <2>3, OthersKeepLeases DEF Inv
<1>7. CASE UNCHANGED vars
  <2>1. UNCHANGED <<os, births, leases, lockDir, held, at, work, runs, stage, child, map, command, ops, forgotten, slip>>
    BY <1>7 DEF vars, system, leaseVars, threadVars
  <2>2. Types'
    BY <2>1 DEF Types, TypeOK
  <2>3. Ending /\ Elsewhere
    BY <2>1 DEF Ending, Elsewhere
  <2>4. RunInv'
    BY <2>1, <2>2, <2>3, EndingKeepsRuns
  <2>5. births <= births' /\ ops <= ops'
    BY <2>1, StateTypes
  <2>6. QED
    BY <2>1, <2>2, <2>3, <2>4, <2>5, ElsewhereKeepsLeases DEF Inv
<1>8. QED
  BY <1>1, <1>2, <1>3, <1>4, <1>5, <1>6, <1>7 DEF Next

\* Every step of every process keeps both invariants.
THEOREM InvariantTheorem == Spec => []Inv
  BY InitInv, NextInv, PTL DEF Spec

\* The state of both registries is well formed.
THEOREM TypesTheorem == Spec => []TypeOK
<1>1. Inv => TypeOK
  BY DEF Inv, Types
<1>2. QED
  BY <1>1, InvariantTheorem, PTL

\* "A stale record never reads as live": whatever reads live is of a lease its
\* process has, or is opening or closing, or left its record to; and an open
\* lease that was recorded has its record.
THEOREM LeasesTheorem == Spec => []LeasesAreTold
<1>1. ASSUME Inv PROVE LeasesAreTold
  <2>1. ASSUME NEW r \in leases, "live" \in Liveness(r)
        PROVE  \/ r.instance \in {held[r.pid]} \cup forgotten
               \/ at[r.pid] # "idle" /\ work[r.pid].record.instance = r.instance
    <3>1. Alive(r.pid) /\ r.token = os[r.pid].birth /\ r.pid \in Pids
      BY <1>1, <2>1, StateTypes DEF Liveness, Inv, Record
    <3>2. QED
      BY <1>1, <3>1 DEF Inv, LeaseInv, Accounted, Calls
  <2>2. ASSUME NEW p \in Pids, Recorded(p), work[p].op # "exit" PROVE Files(held[p]) # {}
    BY <1>1, <2>2 DEF Inv, LeaseInv, Written, Files
  <2>3. QED
    BY <2>1, <2>2 DEF LeasesAreTold
<1>2. QED
  BY <1>1, InvariantTheorem, PTL

\* Threads and commands of whatever number lose no record of each other,
\* unless two processes overlap, a save fails or a launcher dies.
THEOREM RunsTheorem == Spec => []RunsAreTold
<1>1. ASSUME Inv, slip = {}, NEW t \in Threads
      PROVE  /\ stage[t] = "waiting" /\ os[child[t].pid].kind = "harness" => runs[t] = child[t]
             /\ runs[t] # None /\ stage[t] \notin {"reaped", "remove"} => os[runs[t].pid].birth = runs[t].birth
  BY <1>1 DEF Inv, RunInv, Told, Harnessed
<1>2. Inv => RunsAreTold
  BY <1>1 DEF RunsAreTold
<1>3. QED
  BY <1>2, InvariantTheorem, PTL

==============================================================================
