-------------------------- MODULE TrustStore_proofs --------------------------
(***************************************************************************)
(* Theorems about TrustStore for any number of processes, projects,        *)
(* digests and items.                                                      *)
(*                                                                         *)
(* Type correctness needs no assumption on the environment.  The lock does *)
(* its work only while no sentinel grows stale under two waiters, so the   *)
(* other theorems assume that none does: either the behaviour is too short *)
(* for it, or no process dies holding the lock and every removal succeeds. *)
(***************************************************************************)
EXTENDS TrustStore, TLAPS

NoStaleSentinel ==
    \A e \in Environments : e.ages => MaxCrashes = 0 /\ ~e.removalFails

-----------------------------------------------------------------------------
(* The entries                                                             *)

\* Every closure leaves an entry or none: trust_reviewed, repin, revoke and
\* set_decision keep the map well formed.
LEMMA EffectType ==
    ASSUME NEW entry \in Entry \cup {NoEntry}, NEW c \in Call
    PROVE  Effect(entry, c) \in Entry \cup {NoEntry}
<1>1. CASE c.kind = "grant"
  <2>1. c.digest \in Digests
    BY <1>1 DEF Call
  <2>2. [i \in Items |-> NoAnswer] \in [Items -> Answers \cup {NoAnswer}]
    OBVIOUS
  <2>3. entry # NoEntry => entry.answers \in [Items -> Answers \cup {NoAnswer}]
    BY DEF Entry
  <2>4. QED
    BY <1>1, <2>1, <2>2, <2>3 DEF Effect, Entry
<1>2. CASE c.kind = "revoke"
  BY <1>2 DEF Effect
<1>3. CASE c.kind = "repin"
  <2>1. c.digest \in Digests
    BY <1>3 DEF Call
  <2>2. QED
    BY <1>3, <2>1 DEF Effect, Entry
<1>4. CASE c.kind = "answer"
  <2>1. c.answer \in Answers \cup {NoAnswer}
    BY <1>4 DEF Call
  <2>2. CASE entry = NoEntry
    BY <1>4, <2>2 DEF Effect
  <2>3. CASE entry # NoEntry
    <3>1. Effect(entry, c) = [entry EXCEPT !.answers[c.item] = c.answer]
      BY <1>4, <2>3 DEF Effect
    <3>2. QED
      BY <2>1, <2>3, <3>1 DEF Entry
  <2>4. QED
    BY <2>2, <2>3
<1>5. QED
  BY <1>1, <1>2, <1>3, <1>4 DEF Call

\* The line a saved mutation owes the log is a line of the log's type.
LEMMA EventType ==
    ASSUME NEW entry \in Entry \cup {NoEntry}, NEW c \in Call, Writes(entry, c)
    PROVE  Event(entry, c) \in TrustMutation
<1>1. c.project \in Projects /\ c.kind \in {"grant", "repin", "revoke", "answer"}
  BY DEF Call
<1>2. (IF c.kind \in {"grant", "repin"} THEN c.digest ELSE entry.digest) \in Digests
  <2>1. CASE c.kind \in {"grant", "repin"}
    BY <2>1 DEF Call
  <2>2. CASE c.kind \notin {"grant", "repin"}
    BY <1>1, <2>2 DEF Writes, Entry
  <2>3. QED
    BY <2>1, <2>2
<1>3. (CASE c.kind = "grant"  -> IF entry = NoEntry THEN "grant" ELSE "regrant"
         [] c.kind = "answer" -> IF c.answer = NoAnswer THEN "undecide" ELSE "decide"
         [] OTHER             -> c.kind)
        \in {"grant", "regrant", "repin", "revoke", "decide", "undecide"}
  BY <1>1
<1>4. QED
  BY <1>1, <1>2, <1>3 DEF Event, TrustMutation

LEMMA AppliedType ==
    ASSUME NEW map \in Store, NEW c \in Call
    PROVE  Applied(map, c) \in Store
<1>1. c.project \in Projects
  BY DEF Call
<1>2. map[c.project] \in Entry \cup {NoEntry}
  BY <1>1 DEF Store
<1>3. Effect(map[c.project], c) \in Entry \cup {NoEntry}
  BY <1>2, EffectType
<1>4. QED
  BY <1>3 DEF Applied, Store

-----------------------------------------------------------------------------
(* Type correctness                                                        *)

\* A process inside with_store_lock knows its call; the one about to append
\* has a line; the one about to save has something to write.
Busy ==
    \A p \in Procs :
        /\ pc[p] \notin {"idle", "dead"} => call[p] \in Call
        /\ pc[p] = "save" => Writes(mem[p][call[p].project], call[p])
        /\ pc[p] = "record" => event[p] \in TrustMutation
        /\ pc[p] # "record" => event[p] = NoEvent

TypeInv == TypeOK /\ Busy

LEMMA InitTypeInv == Init => TypeInv
<1>1. EmptyStore \in Store
  BY DEF EmptyStore, Store
<1> SUFFICES ASSUME Init PROVE TypeInv
  OBVIOUS
<1>2. log \in Seq(TrustMutation)
  BY DEF Init
<1>3. TypeOK
  BY <1>1, <1>2 DEF Init, TypeOK, Locations
<1>4. Busy
  BY DEF Init, Busy
<1>5. QED
  BY <1>3, <1>4 DEF TypeInv

LEMMA LeaveTypeInv ==
    ASSUME TypeInv, NEW p \in Procs, NEW where \in {"idle", "dead"}, Leave(p, where),
           UNCHANGED <<store, log, calls, env>>,
           lockDir' \in {"none", "fresh", "stale"}, crashes' \in Nat, lost' \in BOOLEAN
    PROVE  TypeInv'
<1>1. EmptyStore \in Store
  BY DEF EmptyStore, Store
<1>2. TypeOK'
  BY <1>1 DEF TypeInv, TypeOK, Leave, Locations
<1>3. Busy'
  BY DEF TypeInv, TypeOK, Busy, Leave, Locations
<1>4. QED
  BY <1>2, <1>3 DEF TypeInv

LEMMA NextTypeInv == TypeInv /\ [Next]_vars => TypeInv'
<1> SUFFICES ASSUME TypeInv, [Next]_vars PROVE TypeInv'
  OBVIOUS
<1> USE DEF Locations
<1>1. ASSUME NEW p \in Procs, NEW c \in Call, Begin(p, c) PROVE TypeInv'
  BY <1>1 DEF Begin, TypeInv, TypeOK, Busy
<1>2. ASSUME NEW p \in Procs, CreateDir(p) PROVE TypeInv'
  BY <1>2 DEF CreateDir, TypeInv, TypeOK, Busy
<1>3. ASSUME NEW p \in Procs, Stat(p) PROVE TypeInv'
  <2>1. CASE late[p] /\ lockDir # "stale"
    <3>1. Leave(p, "idle") /\ UNCHANGED <<store, lockDir, log, calls, crashes, lost, env>>
      BY <1>3, <2>1 DEF Stat
    <3>2. QED
      BY <3>1, LeaveTypeInv DEF TypeInv, TypeOK
  <2>2. CASE ~(late[p] /\ lockDir # "stale")
    BY <1>3, <2>2 DEF Stat, TypeInv, TypeOK, Busy
  <2>3. QED
    BY <2>1, <2>2
<1>4. ASSUME NEW p \in Procs, BreakStale(p) PROVE TypeInv'
  BY <1>4 DEF BreakStale, AfterRemoveDir, TypeInv, TypeOK, Busy
<1>5. ASSUME NEW p \in Procs, Load(p) PROVE TypeInv'
  BY <1>5 DEF Load, TypeInv, TypeOK, Busy
<1>6. ASSUME NEW p \in Procs, Save(p) PROVE TypeInv'
  <2>1. call[p] \in Call /\ Writes(mem[p][call[p].project], call[p]) /\ mem[p] \in Store
    BY <1>6 DEF Save, TypeInv, TypeOK, Busy
  <2>2. call[p].project \in Projects
    BY <2>1 DEF Call
  <2>3. mem[p][call[p].project] \in Entry \cup {NoEntry}
    BY <2>1, <2>2 DEF Store
  <2>4. Event(mem[p][call[p].project], call[p]) \in TrustMutation
    BY <2>1, <2>3, EventType
  <2>5. Applied(mem[p], call[p]) \in Store
    BY <2>1, AppliedType
  <2>6. QED
    BY <1>6, <2>4, <2>5 DEF Save, TypeInv, TypeOK, Busy
<1>7. ASSUME NEW p \in Procs, RecordMutation(p) PROVE TypeInv'
  <2>1. event[p] \in TrustMutation
    BY <1>7 DEF RecordMutation, TypeInv, Busy
  <2> DEFINE line == event[p]
  <2>2. log' = Append(log, line) \/ log' = log
    BY <1>7 DEF RecordMutation
  <2>3. log \in Seq(TrustMutation)
    BY DEF TypeInv, TypeOK
  <2>4. log' \in Seq(TrustMutation)
    <3> HIDE DEF line
    <3>1. line \in TrustMutation
      BY <2>1 DEF line
    <3>2. QED
      BY <2>2, <2>3, <3>1
  <2>5. lost' \in BOOLEAN
    BY <1>7 DEF RecordMutation, TypeInv, TypeOK
  <2>6. TypeOK'
    BY <1>7, <2>4, <2>5 DEF RecordMutation, TypeInv, TypeOK
  <2>7. Busy'
    BY <1>7 DEF RecordMutation, TypeInv, TypeOK, Busy
  <2>8. QED
    BY <2>6, <2>7 DEF TypeInv
<1>8. ASSUME NEW p \in Procs, Release(p) PROVE TypeInv'
  <2>1. lockDir' \in {"none", "fresh", "stale"}
    BY <1>8 DEF Release, AfterRemoveDir, TypeInv, TypeOK
  <2>2. QED
    BY <1>8, <2>1, LeaveTypeInv DEF Release, TypeInv, TypeOK
<1>9. ASSUME NEW p \in Procs, Deadline(p) PROVE TypeInv'
  BY <1>9 DEF Deadline, TypeInv, TypeOK, Busy
<1>10. ASSUME NEW p \in Procs, Crash(p) PROVE TypeInv'
  <2>1. crashes' \in Nat /\ lost' \in BOOLEAN
    BY <1>10 DEF Crash, TypeInv, TypeOK
  <2>2. QED
    BY <1>10, <2>1, LeaveTypeInv DEF Crash, TypeInv, TypeOK
<1>11. ASSUME Age PROVE TypeInv'
  BY <1>11 DEF Age, TypeInv, TypeOK, Busy
<1>12. ASSUME UNCHANGED vars PROVE TypeInv'
  BY <1>12 DEF vars, TypeInv, TypeOK, Busy
<1>13. QED
  BY <1>1, <1>2, <1>3, <1>4, <1>5, <1>6, <1>7, <1>8, <1>9, <1>10, <1>11, <1>12
  DEF Next, Locking, Closure

\* In every environment the store, the log and every process's locals keep
\* their types: in particular only lines of the log's own type are appended.
THEOREM TypeCorrect == Spec => []TypeOK
<1>1. TypeInv => TypeOK
  BY DEF TypeInv
<1>2. QED
  BY <1>1, InitTypeInv, NextTypeInv, PTL DEF Spec

-----------------------------------------------------------------------------
(* The lock                                                                *)

\* A sentinel stands while anyone is in its closure; it has grown old for
\* nobody; where it could, somebody is behind it.
Sentinel ==
    /\ lockDir # "stale"
    /\ \A p \in Procs : pc[p] # "break"
    /\ \A p \in Procs : InLock(p) => lockDir = "fresh"
    /\ env.ages /\ lockDir # "none" => \E p \in Procs : InLock(p)

\* What a writer loaded is still what the store holds when it saves.
LoadedIsCurrent == \A p \in Procs : pc[p] = "save" => mem[p] = store

LockInv == Sentinel /\ OneWriter /\ LoadedIsCurrent

LEMMA InitLockInv == Init => LockInv
  BY DEF Init, LockInv, Sentinel, OneWriter, LoadedIsCurrent, InLock

LEMMA NextLockInv ==
    ASSUME NoStaleSentinel, TypeInv, LockInv, [Next]_vars
    PROVE  LockInv'
<1> USE DEF InLock
<1>0. env.ages => MaxCrashes = 0 /\ ~env.removalFails
  BY DEF NoStaleSentinel, TypeInv, TypeOK
<1>1. ASSUME NEW p \in Procs, NEW c \in Call, Begin(p, c) PROVE LockInv'
  BY <1>1 DEF Begin, LockInv, Sentinel, OneWriter, LoadedIsCurrent, TypeInv, TypeOK, Locations
<1>2. ASSUME NEW p \in Procs, CreateDir(p) PROVE LockInv'
  <2>1. Sentinel'
    BY <1>2 DEF CreateDir, LockInv, Sentinel, TypeInv, TypeOK, Locations
  <2>2. OneWriter'
    BY <1>2 DEF CreateDir, LockInv, Sentinel, OneWriter, TypeInv, TypeOK, Locations
  <2>3. LoadedIsCurrent'
    BY <1>2 DEF CreateDir, LockInv, LoadedIsCurrent, TypeInv, TypeOK, Locations
  <2>4. QED
    BY <2>1, <2>2, <2>3 DEF LockInv
<1>3. ASSUME NEW p \in Procs, Stat(p) PROVE LockInv'
  BY <1>3 DEF Stat, Leave, LockInv, Sentinel, OneWriter, LoadedIsCurrent, TypeInv, TypeOK, Locations
<1>4. ASSUME NEW p \in Procs, BreakStale(p) PROVE LockInv'
  BY <1>4 DEF BreakStale, LockInv, Sentinel
<1>5. ASSUME NEW p \in Procs, Load(p) PROVE LockInv'
  BY <1>5 DEF Load, LockInv, Sentinel, OneWriter, LoadedIsCurrent, TypeInv, TypeOK, Locations
<1>6. ASSUME NEW p \in Procs, Save(p) PROVE LockInv'
  <2>1. \A q \in Procs : (pc'[q] = "save" => q # p /\ pc[q] = "save")
    BY <1>6 DEF Save, TypeInv, TypeOK
  <2>2. \A q \in Procs : pc'[q] # "save"
    BY <1>6, <2>1 DEF Save, LockInv, OneWriter
  <2>3. Sentinel' /\ OneWriter'
    BY <1>6 DEF Save, LockInv, Sentinel, OneWriter, TypeInv, TypeOK, Locations
  <2>4. QED
    BY <2>2, <2>3 DEF LockInv, LoadedIsCurrent
<1>7. ASSUME NEW p \in Procs, RecordMutation(p) PROVE LockInv'
  BY <1>7 DEF RecordMutation, LockInv, Sentinel, OneWriter, LoadedIsCurrent, TypeInv, TypeOK, Locations
<1>8. ASSUME NEW p \in Procs, Release(p) PROVE LockInv'
  <2>1. \A q \in Procs : q # p => ~InLock(q) /\ pc'[q] = pc[q]
    BY <1>8 DEF Release, Leave, LockInv, OneWriter, TypeInv, TypeOK
  <2>2. pc'[p] = "idle"
    BY <1>8 DEF Release, Leave, TypeInv, TypeOK
  <2>3. \A q \in Procs : pc'[q] \notin {"load", "save", "record", "release", "break"}
    BY <2>1, <2>2 DEF LockInv, Sentinel
  <2>4. lockDir' \in {"none", lockDir} /\ (~env.removalFails => lockDir' = "none") /\ env' = env
    BY <1>8 DEF Release, AfterRemoveDir
  <2>5. Sentinel'
    BY <1>0, <2>3, <2>4, <1>8 DEF LockInv, Sentinel, Release
  <2>6. QED
    BY <2>3, <2>5 DEF LockInv, OneWriter, LoadedIsCurrent
<1>9. ASSUME NEW p \in Procs, Deadline(p) PROVE LockInv'
  BY <1>9 DEF Deadline, LockInv, Sentinel, OneWriter, LoadedIsCurrent
<1>10. ASSUME NEW p \in Procs, Crash(p) PROVE LockInv'
  <2>1. ~env.ages
    BY <1>0, <1>10, TrustStoreAssumption DEF Crash, TypeInv, TypeOK
  <2>2. QED
    BY <1>10, <2>1
    DEF Crash, Leave, LockInv, Sentinel, OneWriter, LoadedIsCurrent, TypeInv, TypeOK, Locations
<1>11. ASSUME Age PROVE LockInv'
  BY <1>11 DEF Age, LockInv, Sentinel
<1>12. ASSUME UNCHANGED vars PROVE LockInv'
  BY <1>12 DEF vars, LockInv, Sentinel, OneWriter, LoadedIsCurrent
<1>13. QED
  BY <1>1, <1>2, <1>3, <1>4, <1>5, <1>6, <1>7, <1>8, <1>9, <1>10, <1>11, <1>12
  DEF Next, Locking, Closure

LEMMA LockInvariant == NoStaleSentinel /\ Spec => [](TypeInv /\ LockInv)
<1>1. Init => TypeInv /\ LockInv
  BY InitTypeInv, InitLockInv
<1>2. NoStaleSentinel /\ TypeInv /\ LockInv /\ [Next]_vars => (TypeInv /\ LockInv)'
  BY NextTypeInv, NextLockInv
<1>3. QED
  <2>1. CASE NoStaleSentinel
    BY <1>1, <1>2, <2>1, PTL DEF Spec
  <2>2. QED
    BY <2>1

\* with_store_lock serializes: while no sentinel grows stale under its
\* waiters, no two processes are between load and release at once, however
\* many there are and whoever of them dies.
THEOREM MutualExclusion == NoStaleSentinel /\ Spec => []OneWriter
<1>1. LockInv => OneWriter
  BY DEF LockInv
<1>2. QED
  BY <1>1, LockInvariant, PTL

-----------------------------------------------------------------------------
(* The store is the ledger                                                 *)

\* The line owed to the log is the one of the only process that may owe one.
LEMMA OwedByRecorder ==
    ASSUME OneWriter, NEW p \in Procs, pc[p] = "record"
    PROVE  Owed = event[p]
<1>1. {q \in Procs : pc[q] = "record"} = {p}
  BY DEF OneWriter, InLock
<1>2. QED
  BY <1>1 DEF Owed

LEMMA OwedByNobody ==
    ASSUME \A p \in Procs : pc[p] # "record"
    PROVE  Owed = NoEvent
  BY DEF Owed

\* A step that neither begins nor ends a recording owes what was owed.
LEMMA OwedUnchanged ==
    ASSUME \A p \in Procs : /\ pc'[p] = "record" <=> pc[p] = "record"
                            /\ pc[p] = "record" => event'[p] = event[p]
    PROVE  Owed' = Owed
<1> DEFINE recording == {q \in Procs : pc[q] = "record"}
           some == CHOOSE q \in recording : TRUE
<1>1. {q \in Procs : pc'[q] = "record"} = recording
  OBVIOUS
<1>2. CASE recording = {}
  BY <1>1, <1>2 DEF Owed
<1>3. CASE recording # {}
  <2>1. some \in recording
    BY <1>3
  <2>2. event'[some] = event[some]
    BY <2>1
  <2>3. Owed' = event'[some]
    BY <1>1, <1>3 DEF Owed
  <2>4. Owed = event[some]
    BY <1>3 DEF Owed
  <2>5. QED
    BY <2>2, <2>3, <2>4
<1>4. QED
  BY <1>2, <1>3

LEMMA InitLedger == Init => Ledger!LedgerInit
<1> SUFFICES ASSUME Init PROVE Ledger!LedgerInit
  OBVIOUS
<1>1. \A p \in Procs : pc[p] # "record"
  BY DEF Init
<1>2. Owed = NoEvent
  BY <1>1, OwedByNobody
<1>3. QED
  BY <1>2 DEF Init, Ledger!LedgerInit, EmptyStore, Ledger!EmptyStore

\* A save is one atomic mutation of the entry as it stands.
LEMMA SaveMutates ==
    ASSUME TypeInv, LockInv, LockInv', NEW p \in Procs, Save(p)
    PROVE  Ledger!LedgerNext \/ UNCHANGED Ledger!ledgerVars
<1>1. \A q \in Procs : pc[q] # "record"
  BY DEF Save, LockInv, OneWriter, InLock
<1>2. Owed = NoEvent
  BY <1>1, OwedByNobody
<1>3. mem[p] = store
  BY DEF Save, LockInv, LoadedIsCurrent
<1>4. call[p] \in Call /\ Writes(store[call[p].project], call[p])
  BY <1>3 DEF Save, TypeInv, Busy
<1>5. CASE pc'[p] = "record"
  <2>1. event' = [event EXCEPT ![p] = Event(store[call[p].project], call[p])]
        /\ store' = Applied(store, call[p]) /\ log' = log
    BY <1>3, <1>5 DEF Save, TypeInv, TypeOK, Locations
  <2>2. Owed' = event'[p]
    <3>1. {q \in Procs : pc'[q] = "record"} = {p}
      BY <1>5 DEF LockInv, OneWriter, InLock
    <3>2. QED
      BY <3>1 DEF Owed
  <2>3. Owed' = Event(store[call[p].project], call[p])
    BY <2>1, <2>2 DEF TypeInv, TypeOK
  <2>4. Ledger!Mutate(call[p])
    BY <1>2, <1>4, <2>1, <2>3
    DEF Ledger!Mutate, Writes, Ledger!Writes, Applied, Ledger!Applied,
        Event, Ledger!Event, Effect, Ledger!Effect
  <2>5. QED
    BY <1>4, <2>4 DEF Ledger!LedgerNext, Call, Ledger!Call
<1>6. CASE pc'[p] # "record"
  <2>1. UNCHANGED <<store, event, log>> /\ \A q \in Procs : pc'[q] # "record"
    BY <1>1, <1>6 DEF Save, TypeInv, TypeOK
  <2>2. Owed' = Owed
    BY <1>1, <2>1, OwedUnchanged
  <2>3. QED
    BY <2>1, <2>2 DEF Ledger!ledgerVars
<1>7. QED
  BY <1>5, <1>6

\* Appending the line, and losing it, are the ledger's own two ways out.
LEMMA RecordRecords ==
    ASSUME TypeInv, LockInv, NEW p \in Procs, pc[p] = "record",
           pc'[p] # "record", \A q \in Procs \ {p} : pc'[q] = pc[q],
           store' = store, log' \in {log, Append(log, event[p])}
    PROVE  Ledger!LedgerNext
<1>1. Owed = event[p] /\ event[p] # NoEvent
  BY OwedByRecorder, NoEventAssumption DEF LockInv, TypeInv, Busy
<1>2. \A q \in Procs : pc'[q] # "record"
  BY DEF LockInv, OneWriter, InLock
<1>3. Owed' = NoEvent
  BY <1>2 DEF Owed
<1>4. QED
  BY <1>1, <1>3 DEF Ledger!LedgerNext, Ledger!Record, Ledger!Lose

LEMMA NextLedger ==
    ASSUME TypeInv, LockInv, LockInv', [Next]_vars
    PROVE  Ledger!LedgerNext \/ UNCHANGED Ledger!ledgerVars
<1> DEFINE Quiet == /\ UNCHANGED <<store, log>>
                    /\ \A q \in Procs : /\ pc'[q] = "record" <=> pc[q] = "record"
                                        /\ pc[q] = "record" => event'[q] = event[q]
<1>0. ASSUME Quiet PROVE UNCHANGED Ledger!ledgerVars
  BY <1>0, OwedUnchanged DEF Ledger!ledgerVars
<1>1. ASSUME NEW p \in Procs, NEW c \in Call, Begin(p, c) PROVE Quiet
  BY <1>1 DEF Begin, TypeInv, TypeOK
<1>2. ASSUME NEW p \in Procs, CreateDir(p) PROVE Quiet
  BY <1>2 DEF CreateDir, TypeInv, TypeOK
<1>3. ASSUME NEW p \in Procs, Stat(p) PROVE Quiet
  BY <1>3 DEF Stat, Leave, TypeInv, TypeOK
<1>4. ASSUME NEW p \in Procs, BreakStale(p) PROVE Quiet
  BY <1>4 DEF BreakStale, TypeInv, TypeOK
<1>5. ASSUME NEW p \in Procs, Load(p) PROVE Quiet
  BY <1>5 DEF Load, TypeInv, TypeOK
<1>6. ASSUME NEW p \in Procs, RecordMutation(p) PROVE Ledger!LedgerNext
  <2>1. pc[p] = "record" /\ pc'[p] # "record" /\ store' = store
        /\ \A q \in Procs \ {p} : pc'[q] = pc[q]
    BY <1>6 DEF RecordMutation, TypeInv, TypeOK
  <2>2. log' \in {log, Append(log, event[p])}
    BY <1>6 DEF RecordMutation
  <2>3. QED
    BY <2>1, <2>2, RecordRecords
<1>7. ASSUME NEW p \in Procs, Release(p) PROVE Quiet
  BY <1>7 DEF Release, Leave, TypeInv, TypeOK
<1>8. ASSUME NEW p \in Procs, Deadline(p) PROVE Quiet
  BY <1>8 DEF Deadline, TypeInv, TypeOK
<1>9. ASSUME NEW p \in Procs, Crash(p), pc[p] # "record" PROVE Quiet
  BY <1>9 DEF Crash, Leave, TypeInv, TypeOK
<1>10. ASSUME NEW p \in Procs, Crash(p), pc[p] = "record" PROVE Ledger!LedgerNext
  <2>1. pc'[p] # "record" /\ store' = store /\ log' = log
        /\ \A q \in Procs \ {p} : pc'[q] = pc[q]
    BY <1>10 DEF Crash, Leave, TypeInv, TypeOK
  <2>2. QED
    BY <1>10, <2>1, RecordRecords
<1>11. ASSUME Age PROVE Quiet
  BY <1>11 DEF Age
<1>12. ASSUME UNCHANGED vars PROVE Quiet
  BY <1>12 DEF vars
<1>13. ASSUME NEW p \in Procs, Save(p)
       PROVE  Ledger!LedgerNext \/ UNCHANGED Ledger!ledgerVars
  BY <1>13, SaveMutates
<1> HIDE DEF Quiet
<1>14. QED
  BY <1>0, <1>1, <1>2, <1>3, <1>4, <1>5, <1>6, <1>7, <1>8, <1>9, <1>10, <1>11, <1>12, <1>13
  DEF Next, Locking, Closure

\* The concurrent, crashing store implements the ledger: every mutation acts
\* on the entry as it is at that instant, so nothing is granted, re-pinned or
\* answered against an entry a racing process has changed, and the log never
\* lists two mutations in another order than the store took them.
THEOREM StoreIsLedger == NoStaleSentinel /\ Spec => ImplementsLedger
<1>1. Init => Ledger!LedgerInit
  BY InitLedger
<1>2. TypeInv /\ LockInv /\ (TypeInv /\ LockInv)' /\ [Next]_vars
        => [Ledger!LedgerNext]_(Ledger!ledgerVars)
  BY NextLedger
<1>3. QED
  BY <1>1, <1>2, LockInvariant, PTL DEF Spec, ImplementsLedger, Ledger!LedgerSpec

-----------------------------------------------------------------------------
(* No resurrection                                                         *)

\* A closure that found no entry leaves none behind, unless it is a grant.
LEMMA OnlyGrantsCreate ==
    ASSUME NEW map \in Store, NEW c \in Call, NEW r \in Projects,
           map[r] = NoEntry, Applied(map, c)[r] # NoEntry
    PROVE  c.kind = "grant" /\ c.project = r
<1>1. c.project = r
  BY DEF Applied, Store
<1>2. Applied(map, c)[r] = Effect(NoEntry, c)
  BY <1>1 DEF Applied, Store
<1>3. c.kind \in {"grant", "revoke", "repin", "answer"}
  BY DEF Call
<1>4. QED
  BY <1>1, <1>2, <1>3 DEF Effect

\* The entry a racing revoke removed stays removed until that very project is
\* granted again.
THEOREM RevokedStaysRevoked == NoStaleSentinel /\ Spec => NoResurrection
<1> DEFINE Created(r) == store[r] = NoEntry /\ store'[r] # NoEntry
           Granted(r) == \E p \in Procs : /\ pc[p] = "save" /\ pc'[p] = "record"
                                          /\ call[p].kind = "grant" /\ call[p].project = r
<1>1. TypeInv /\ LockInv /\ [Next]_vars => [\A r \in Projects : Created(r) => Granted(r)]_vars
  <2> SUFFICES ASSUME TypeInv, LockInv, Next, NEW r \in Projects, Created(r)
               PROVE  Granted(r)
    OBVIOUS
  <2>1. PICK p \in Procs : Save(p)
    BY DEF Next, Locking, Closure, Begin, CreateDir, Stat, BreakStale, Load,
           RecordMutation, Release, Deadline, Crash, Age
  <2>2. store' = Applied(store, call[p]) /\ pc[p] = "save" /\ pc'[p] = "record"
    BY <2>1 DEF Save, LockInv, LoadedIsCurrent, TypeInv, TypeOK
  <2>3. call[p] \in Call /\ store \in Store
    BY <2>2 DEF TypeInv, TypeOK, Busy
  <2>4. call[p].kind = "grant" /\ call[p].project = r
    BY <2>2, <2>3, OnlyGrantsCreate
  <2>5. QED
    BY <2>2, <2>4
<1>2. QED
  BY <1>1, LockInvariant, PTL DEF Spec, NoResurrection

-----------------------------------------------------------------------------
(* The log replays to the store                                            *)

Recording(p) == pc[p] = "record"

\* The line being appended is the last word on its project until it is there.
Replays ==
    /\ \A p \in Procs : Recording(p) => Pinned(event[p].project) = Says(event[p])
    /\ \A i \in 1..Len(log) :
         LastWord(i) /\ (\A p \in Procs : Recording(p) => event[p].project # log[i].project)
           => Pinned(log[i].project) = Says(log[i])
    /\ \A r \in Projects :
         Unmentioned(r) /\ (\A p \in Procs : Recording(p) => event[p].project # r)
           => Pinned(r) = NoEntry

ReplayInv == ~lost => Replays

\* A mutation pins its project to what its line says, and no other project.
LEMMA AppliedSays ==
    ASSUME store \in Store, NEW c \in Call, Writes(store[c.project], c), store' = Applied(store, c)
    PROVE  /\ c.project \in Projects /\ Event(store[c.project], c).project = c.project
           /\ \A r \in Projects :
                Pinned(r)' = IF r = c.project THEN Says(Event(store[c.project], c)) ELSE Pinned(r)
<1> DEFINE entry == store[c.project]
           e == Event(entry, c)
           left == Effect(entry, c)
<1>1. /\ c.project \in Projects /\ c.kind \in {"grant", "repin", "revoke", "answer"}
      /\ e.project = c.project
      /\ entry \in Entry \cup {NoEntry}
      /\ left \in Entry \cup {NoEntry}
  BY EffectType DEF Call, Event, Store
<1>2. /\ store'[c.project] = left
      /\ \A r \in Projects : r # c.project => store'[r] = store[r]
  BY <1>1 DEF Applied, Store
<1>3. Says(e) = IF c.kind = "revoke" THEN NoEntry
                ELSE IF c.kind \in {"grant", "repin"} THEN c.digest ELSE entry.digest
  BY <1>1 DEF Event, Says
<1>4. (IF left = NoEntry THEN NoEntry ELSE left.digest)
        = IF c.kind = "revoke" THEN NoEntry
          ELSE IF c.kind \in {"grant", "repin"} THEN c.digest ELSE entry.digest
  <2>1. CASE c.kind = "grant"
    <3>1. left = [digest |-> c.digest, answers |-> IF entry = NoEntry THEN [i \in Items |-> NoAnswer]
                                                                     ELSE entry.answers]
      BY <2>1 DEF Effect
    <3>2. left.digest = c.digest
      BY <3>1
    <3>3. left # NoEntry
      <4>1. (IF entry = NoEntry THEN [i \in Items |-> NoAnswer] ELSE entry.answers)
              \in [Items -> Answers \cup {NoAnswer}]
        BY <1>1 DEF Entry
      <4>2. c.digest \in Digests
        BY <2>1 DEF Call
      <4>3. left \in Entry
        BY <3>1, <4>1, <4>2 DEF Entry
      <4>4. QED
        BY <4>3, NoEntryAssumption DEF Entry
    <3>4. QED
      BY <2>1, <3>2, <3>3
  <2>2. CASE c.kind = "revoke"
    BY <2>2 DEF Effect
  <2>3. CASE c.kind = "repin"
    <3>1. entry \in Entry /\ entry # NoEntry
      BY <1>1, <2>3 DEF Writes
    <3>2. left = [entry EXCEPT !.digest = c.digest]
      BY <2>3, <3>1 DEF Effect
    <3>3. left.digest = c.digest /\ left \in Entry
      BY <2>3, <3>1, <3>2 DEF Entry, Call
    <3>4. QED
      BY <2>3, <3>3, NoEntryAssumption DEF Entry
  <2>4. CASE c.kind = "answer"
    <3>1. entry \in Entry /\ entry # NoEntry
      BY <1>1, <2>4 DEF Writes
    <3>2. left = [entry EXCEPT !.answers[c.item] = c.answer] /\ c.answer \in Answers \cup {NoAnswer}
      BY <2>4, <3>1 DEF Effect, Call
    <3>3. left.digest = entry.digest /\ left \in Entry
      BY <3>1, <3>2 DEF Entry
    <3>4. QED
      BY <2>4, <3>3, NoEntryAssumption DEF Entry
  <2>5. QED
    BY <1>1, <2>1, <2>2, <2>3, <2>4
<1> HIDE DEF e, left
<1>5. \A r \in Projects : Pinned(r)' = IF r = c.project THEN Says(e) ELSE Pinned(r)
  BY <1>2, <1>3, <1>4 DEF Pinned
<1>6. QED
  BY <1>1, <1>5 DEF e

\* An empty log, an empty store.
LEMMA InitReplays == Init => Replays
<1> SUFFICES ASSUME Init PROVE Replays
  OBVIOUS
<1>1. Len(log) = 0 /\ \A p \in Procs : ~Recording(p)
  BY DEF Init, Recording
<1>2. \A r \in Projects : Pinned(r) = NoEntry
  BY DEF Init, EmptyStore, Pinned
<1>3. QED
  BY <1>1, <1>2 DEF Replays

\* The store is saved: the line owed becomes the last word on its project.
LEMMA SaveReplays ==
    ASSUME TypeInv, LockInv, Replays, NEW p \in Procs, Save(p)
    PROVE  Replays'
<1>1. \A q \in Procs : ~Recording(q)
  BY DEF Save, LockInv, OneWriter, InLock, Recording
<1>2. log' = log /\ pc[p] = "save"
  BY DEF Save
<1>3. (\A i \in 1..Len(log) : LastWord(i)' <=> LastWord(i)) /\ (\A r \in Projects : Unmentioned(r)' <=> Unmentioned(r))
  BY <1>2 DEF LastWord, Unmentioned
<1>4. CASE pc'[p] = "record"
  <2>1. /\ mem[p] = store /\ call[p] \in Call /\ Writes(store[call[p].project], call[p]) /\ store \in Store
    BY <1>2 DEF LockInv, LoadedIsCurrent, TypeInv, TypeOK, Busy
  <2> DEFINE e == Event(store[call[p].project], call[p])
  <2>2. store' = Applied(store, call[p]) /\ event'[p] = e /\ \A q \in Procs : Recording(q)' <=> q = p
    BY <1>1, <1>4, <2>1 DEF Save, TypeInv, TypeOK, Recording
  <2>3. /\ e.project \in Projects
        /\ \A r \in Projects : Pinned(r)' = IF r = e.project THEN Says(e) ELSE Pinned(r)
    BY <2>1, <2>2, AppliedSays
  <2> HIDE DEF e
  <2>4. \A i \in 1..Len(log) : log[i].project \in Projects
    <3>1. TAKE i \in 1..Len(log)
    <3>2. log[i] \in TrustMutation
      BY DEF TypeInv, TypeOK
    <3>3. QED
      BY <3>2 DEF TrustMutation
  <2>5. ASSUME NEW q \in Procs, Recording(q)' PROVE (Pinned(event[q].project) = Says(event[q]))'
    <3>1. event'[q] = e
      BY <2>2, <2>5
    <3>2. (Pinned(event[q].project) = Says(event[q]))' <=> \A r \in Projects : r = e.project => Pinned(r)' = Says(e)
      BY <3>1, <2>3 DEF Pinned, Says
    <3>3. QED
      BY <3>2, <2>3
  <2>6. ASSUME NEW i \in 1..Len(log), LastWord(i)', \A q \in Procs : Recording(q)' => event'[q].project # log[i].project
        PROVE  (Pinned(log[i].project) = Says(log[i]))'
    <3>1. e.project # log[i].project /\ LastWord(i)
      BY <1>3, <2>2, <2>6
    <3>2. Pinned(log[i].project) = Says(log[i])
      BY <1>1, <3>1 DEF Replays
    <3>3. \A r \in Projects : r = log[i].project => Pinned(r)' = Pinned(r)
      BY <2>3, <3>1
    <3>4. QED
      BY <1>2, <2>4, <3>2, <3>3 DEF Pinned, Says
  <2>7. ASSUME NEW r \in Projects, Unmentioned(r)', \A q \in Procs : Recording(q)' => event'[q].project # r
        PROVE  Pinned(r)' = NoEntry
    BY <1>1, <1>3, <2>2, <2>3, <2>7 DEF Replays
  <2>8. QED
    BY <1>2, <2>5, <2>6, <2>7 DEF Replays
<1>5. CASE pc'[p] # "record"
  <2>1. store' = store /\ \A q \in Procs : ~Recording(q)'
    BY <1>1, <1>5 DEF Save, TypeInv, TypeOK, Recording
  <2>2. QED
    BY <1>1, <1>2, <1>3, <2>1 DEF Replays, Pinned, Says
<1>6. QED
  BY <1>4, <1>5

\* The line is appended, and the last word on its project is in the log.
LEMMA RecordReplays ==
    ASSUME TypeInv, LockInv, Replays, NEW p \in Procs, RecordMutation(p), ~lost'
    PROVE  Replays'
<1>1. /\ log' = Append(log, event[p]) /\ UNCHANGED store /\ Recording(p)
      /\ event[p] \in TrustMutation /\ log \in Seq(TrustMutation)
  BY DEF RecordMutation, TypeInv, TypeOK, Busy, Recording
<1>2. \A q \in Procs : (Recording(q) => q = p) /\ ~Recording(q)'
  BY <1>1 DEF RecordMutation, LockInv, OneWriter, InLock, TypeInv, TypeOK, Recording
<1>3. /\ Len(log) \in Nat /\ Len(log') = Len(log) + 1 /\ log'[Len(log) + 1] = event[p]
      /\ \A i \in 1..Len(log) : log'[i] = log[i]
  BY <1>1
<1>4. \A r : Pinned(r)' = Pinned(r)
  BY <1>1 DEF Pinned
<1>5. ASSUME NEW i \in 1..Len(log'), LastWord(i)'
      PROVE  Pinned(log'[i].project) = Says(log'[i])
  <2>1. CASE i = Len(log) + 1
    BY <1>1, <1>3, <2>1 DEF Replays
  <2>2. CASE i \in 1..Len(log)
    <3>1. Len(log) + 1 \in 1..Len(log') /\ Len(log) + 1 > i
      BY <1>3, <2>2
    <3>2. event[p].project # log[i].project
      BY <1>3, <1>5, <2>2, <3>1 DEF LastWord
    <3>3. LastWord(i)
      BY <1>3, <1>5, <2>2 DEF LastWord
    <3>4. QED
      BY <1>2, <1>3, <2>2, <3>2, <3>3 DEF Replays
  <2>3. QED
    BY <1>3, <2>1, <2>2
<1>6. ASSUME NEW r \in Projects, Unmentioned(r)'
      PROVE  Pinned(r) = NoEntry
  <2>1. Unmentioned(r) /\ event[p].project # r
    BY <1>3, <1>6 DEF Unmentioned
  <2>2. QED
    BY <1>2, <2>1 DEF Replays
<1>7. QED
  BY <1>2, <1>4, <1>5, <1>6 DEF Replays, Says

\* Every step keeps the log in agreement with the store, or loses a line.
LEMMA NextReplays ==
    ASSUME TypeInv, LockInv, ReplayInv, [Next]_vars
    PROVE  ReplayInv'
<1> DEFINE Quiet == /\ UNCHANGED <<store, log>> /\ (~lost' => ~lost)
                    /\ ~lost' => \A q \in Procs : /\ pc'[q] = "record" <=> pc[q] = "record"
                                                  /\ pc[q] = "record" => event'[q] = event[q]
<1>0. ASSUME Quiet PROVE ReplayInv'
  <2> SUFFICES ASSUME ~lost' PROVE Replays'
    BY DEF ReplayInv
  <2>1. /\ Replays /\ log' = log
        /\ \A q \in Procs : (Recording(q)' <=> Recording(q)) /\ (Recording(q) => event'[q] = event[q])
    BY <1>0 DEF ReplayInv, Recording
  <2>2. (\A i \in 1..Len(log) : LastWord(i)' <=> LastWord(i)) /\ (\A r \in Projects : Unmentioned(r)' <=> Unmentioned(r))
    BY <2>1 DEF LastWord, Unmentioned
  <2>3. \A r : Pinned(r)' = Pinned(r)
    BY <1>0 DEF Pinned
  <2>4. QED
    BY <2>1, <2>2, <2>3 DEF Replays, Says
<1>1. ASSUME NEW p \in Procs, NEW c \in Call, Begin(p, c) PROVE Quiet
  BY <1>1 DEF Begin, TypeInv, TypeOK
<1>2. ASSUME NEW p \in Procs, CreateDir(p) PROVE Quiet
  BY <1>2 DEF CreateDir, TypeInv, TypeOK
<1>3. ASSUME NEW p \in Procs, Stat(p) PROVE Quiet
  BY <1>3 DEF Stat, Leave, TypeInv, TypeOK
<1>4. ASSUME NEW p \in Procs, BreakStale(p) PROVE Quiet
  BY <1>4 DEF BreakStale, TypeInv, TypeOK
<1>5. ASSUME NEW p \in Procs, Load(p) PROVE Quiet
  BY <1>5 DEF Load, TypeInv, TypeOK
<1>6. ASSUME NEW p \in Procs, RecordMutation(p) PROVE ReplayInv'
  <2>1. ~lost' => ~lost
    BY <1>6 DEF RecordMutation
  <2>2. QED
    BY <1>6, <2>1, RecordReplays DEF ReplayInv
<1>7. ASSUME NEW p \in Procs, Release(p) PROVE Quiet
  BY <1>7 DEF Release, Leave, TypeInv, TypeOK
<1>8. ASSUME NEW p \in Procs, Deadline(p) PROVE Quiet
  BY <1>8 DEF Deadline, TypeInv, TypeOK
<1>9. ASSUME NEW p \in Procs, Crash(p) PROVE Quiet
  BY <1>9 DEF Crash, Leave, TypeInv, TypeOK
<1>10. ASSUME Age PROVE Quiet
  BY <1>10 DEF Age
<1>11. ASSUME UNCHANGED vars PROVE Quiet
  BY <1>11 DEF vars
<1>12. ASSUME NEW p \in Procs, Save(p) PROVE ReplayInv'
  <2>1. lost' = lost
    BY <1>12 DEF Save
  <2>2. QED
    BY <1>12, <2>1, SaveReplays DEF ReplayInv
<1> HIDE DEF Quiet
<1>13. QED
  BY <1>0, <1>1, <1>2, <1>3, <1>4, <1>5, <1>6, <1>7, <1>8, <1>9, <1>10, <1>11, <1>12
  DEF Next, Locking, Closure

\* As long as no line was lost and none is owed, the mutation log alone says
\* what every project is pinned to.
THEOREM LogTheorem == NoStaleSentinel /\ Spec => []LogReplaysToStore
<1>1. Init => ReplayInv
  BY InitReplays DEF ReplayInv
<1>2. TypeInv /\ LockInv /\ ReplayInv /\ [Next]_vars => ReplayInv'
  BY NextReplays
<1>3. ReplayInv => LogReplaysToStore
  BY DEF ReplayInv, Replays, Recording, LogReplaysToStore
<1>4. QED
  BY <1>1, <1>2, <1>3, LockInvariant, PTL DEF Spec
=============================================================================
