---------------------------- MODULE ProjectFiles ----------------------------
(***************************************************************************)
(* What agentstack puts into a project's harness config and takes out      *)
(* again.  Four parts write the one file and know nothing of each other:   *)
(*                                                                         *)
(*   apply, use    overwrite it and then record what was there (history.rs)*)
(*   session       the same through `use`, with an entry of its own and a  *)
(*                 pointer in sessions.json that says how to end it        *)
(*                 (session.rs)                                            *)
(*   undo, restore roll entries of the ledger back (history.rs)            *)
(*   locked run    swaps the file for a gateway-only body while it lives   *)
(*                 (ScopedMcpConfig of commands/locked.rs)                 *)
(*                                                                         *)
(* The ledger keeps MaxEntries entries; sessions.json is read and written  *)
(* whole; only locked runs exclude each other, with a file that exists.    *)
(* Every step is one read or one write, and a write may fail.  Between any *)
(* two of them another command may run, somebody may edit the file, or the *)
(* process may die.                                                        *)
(***************************************************************************)
EXTENDS Integers, Sequences, FiniteSets, FiniteSetsExt, SequencesExt

CONSTANTS
    Procs,        \* processes
    Projects,     \* each with one harness config file
    Texts,        \* what a config may say
    Missing,      \* no such file
    None,         \* no sentinel, no pointer, no copy
    MaxEntries,   \* MAX_ENTRIES of the ledger
    MaxCommands   \* bound: commands started, an edit by hand among them

\* session::Session: the entry to undo, and whether a load is recorded.
Pointer == [entry: Nat, loaded: BOOLEAN]

ASSUME FilesAssumption ==
    /\ MaxEntries \in Nat \ {0}
    /\ MaxCommands \in Nat
    /\ Missing \notin Texts \cup Nat /\ None \notin Texts \cup Nat \cup {Missing} \cup Pointer
    /\ Texts \cap Nat = {}

VARIABLES
    file,      \* the harness config of each project
    ledger,    \* the history directory: a set of entries
    pointers,  \* sessions.json
    sentinel,  \* the locked run whose guard stands beside the config, or None
    parked,    \* what each run keeps of the original in its run directory
    pc, work,
    commands, records,
    \* history, which no step of the code reads:
    pre,       \* while a session is in effect: the file as it was before
    over,      \* what the gateway body of each run replaced
    slip       \* windows somebody's step fell into

vars == <<file, ledger, pointers, sentinel, parked, pc, work, commands, records, pre, over, slip>>

disk == <<file, ledger, pointers, sentinel, parked>>
history == <<pre, over, slip>>

Runs == 1..MaxCommands

\* A gateway-only body names its run.
Bodies == Texts \cup {Missing} \cup Runs

\* history::Entry.
Entry == [id: Nat, project: Projects, before: Bodies, undone: BOOLEAN]

Blank == [kind |-> "none", project |-> None, run |-> 0, before |-> None, seen |-> None, body |-> None,
          entry |-> 0, map |-> None, ids |-> <<>>, undoing |-> None, target |-> None]

Init ==
    /\ file \in [Projects -> Texts \cup {Missing}]
    /\ ledger = {}
    /\ pointers = [j \in Projects |-> None]
    /\ sentinel = [j \in Projects |-> None]
    /\ parked = [r \in Runs |-> None]
    /\ pc = [p \in Procs |-> "idle"]
    /\ work = [p \in Procs |-> Blank]
    /\ commands = 0
    /\ records = 0
    /\ pre = [j \in Projects |-> None]
    /\ over = [r \in Runs |-> None]
    /\ slip = {}

Start(p, kind, j, at, w) ==
    /\ pc[p] = "idle"
    /\ commands < MaxCommands
    /\ commands' = commands + 1
    /\ pc' = [pc EXCEPT ![p] = at]
    /\ work' = [work EXCEPT ![p] = [w EXCEPT !.kind = kind, !.project = j, !.run = commands']]

Go(p, at, w) ==
    /\ pc' = [pc EXCEPT ![p] = at]
    /\ work' = [work EXCEPT ![p] = w]
    /\ UNCHANGED commands

Leave(p) == Go(p, "idle", Blank)

Slips(name, when) == IF when THEN slip \cup {name} ELSE slip

\* A command is over before it is done.  It matters for a session whose toolset
\* is in effect and that has no name yet, and for a revert.
GiveUp(p) ==
    /\ Leave(p)
    /\ IF work[p].kind = "undo" THEN slip' = slip \cup {"stopped"}
       ELSE slip' = Slips("halted", work[p].kind = "session" /\ pc[p] \in {"record", "own", "load", "save"})

-----------------------------------------------------------------------------
(* The ledger                                                              *)

Named(id) == {e \in ledger : e.id = id}

\* The most recent MaxEntries stay.
Pruned(entries) ==
    {e \in entries : Cardinality({f \in entries : f.id > e.id}) < MaxEntries}

\* history::record: a new entry, and the oldest beyond the limit removed.
Record(j, before) ==
    /\ records' = records + 1
    /\ ledger' = Pruned(ledger \cup {[id |-> records', project |-> j, before |-> before, undone |-> FALSE]})

\* undo's own update of the entry it rolled back: the file is written anew,
\* whether or not it was pruned in between.
MarkUndone(e) == ledger' = (ledger \ Named(e.id)) \cup {[e EXCEPT !.undone = TRUE]}

-----------------------------------------------------------------------------
(* apply, use, and the activation of a session                             *)

BeginApply(p, j, body) ==
    /\ body # file[j]
    /\ Start(p, "apply", j, "capture", [Blank EXCEPT !.body = body])
    /\ UNCHANGED <<disk, records, history>>

\* What is there, just before it is overwritten; when nothing would change,
\* apply is done and a session goes on without an entry of `use`.
Capture(p) ==
    LET w == work[p]
        now == file[w.project]
    IN
    /\ pc[p] = "capture"
    /\ \/ now # w.body /\ Go(p, "write", [w EXCEPT !.before = now])
       \/ now = w.body /\ w.kind = "session" /\ Go(p, "own", w)
       \/ now = w.body /\ w.kind = "apply" /\ Leave(p)
    /\ slip' = Slips("captured", now \in Runs)
    /\ UNCHANGED <<disk, records, pre, over>>

\* The write; for a session it is the moment the toolset is in effect.
Write(p) ==
    LET w == work[p]
        j == w.project
    IN  /\ pc[p] = "write"
        /\ file' = [file EXCEPT ![j] = w.body]
        /\ Go(p, "record", w)
        /\ pre' = IF w.kind = "session" /\ pre[j] = None THEN [pre EXCEPT ![j] = file[j]] ELSE pre
        /\ slip' = Slips("overtaken", w.kind = "session" /\ w.seen # file[j])
        /\ UNCHANGED <<ledger, pointers, sentinel, parked, records, over>>

\* The entry of apply or use, best effort.
RecordWrite(p) ==
    /\ pc[p] = "record"
    /\ Record(work[p].project, work[p].before) \/ UNCHANGED <<ledger, records>>
    /\ IF work[p].kind = "session" THEN Go(p, "own", work[p]) ELSE Leave(p)
    /\ UNCHANGED <<file, pointers, sentinel, parked, history>>

\* The command ends with an error: nothing could be written, or, for a
\* session, what follows the write within the activation failed.  The toolset
\* is in effect then, and nobody comes to name it.
Abort(p) ==
    /\ \/ pc[p] \in {"snapshot", "capture", "write"}
       \/ pc[p] \in {"record", "own"} /\ work[p].kind = "session"
    /\ GiveUp(p)
    /\ UNCHANGED <<disk, records, pre, over>>

-----------------------------------------------------------------------------
(* Sessions                                                                *)

\* A session that is not named yet, or not any more.
Unnamed(j) ==
    \/ pre[j] # None
    \/ \E q \in Procs : work[q].kind = "session" /\ work[q].project = j

\* session start: refused while sessions.json names one here.
BeginSession(p, j, body) ==
    /\ pointers[j] = None
    /\ Start(p, "session", j, "snapshot", [Blank EXCEPT !.body = body])
    /\ slip' = Slips("twice", Unnamed(j))
    /\ UNCHANGED <<disk, records, pre, over>>

\* The session's own snapshot, before the activation takes its own.
Snapshot(p) ==
    LET now == file[work[p].project] IN
    /\ pc[p] = "snapshot"
    /\ Go(p, "capture", [work[p] EXCEPT !.seen = now])
    /\ slip' = Slips("captured", now \in Runs)
    /\ UNCHANGED <<disk, records, pre, over>>

\* Mutant: the entry holds what is there once the toolset is active.
RecordSessionLate(p) ==
    /\ pc[p] = "own"
    /\ \/ Record(work[p].project, file[work[p].project]) /\ Go(p, "load", [work[p] EXCEPT !.entry = records'])
       \/ UNCHANGED <<ledger, records>> /\ Go(p, "load", work[p])
    /\ UNCHANGED <<file, pointers, sentinel, parked, history>>

\* Its own entry; a ledger that cannot be written leaves it without one.
RecordSession(p) ==
    /\ pc[p] = "own"
    /\ \/ Record(work[p].project, work[p].seen) /\ Go(p, "load", [work[p] EXCEPT !.entry = records'])
       \/ UNCHANGED <<ledger, records>> /\ Go(p, "load", work[p])
    /\ UNCHANGED <<file, pointers, sentinel, parked, history>>

\* session start and the recording of a load read sessions.json whole.
LoadMap(p) ==
    /\ pc[p] = "load"
    /\ Go(p, "save", [work[p] EXCEPT !.map = pointers])
    /\ UNCHANGED <<disk, records, history>>

\* session end and record_load start from it.
BeginEnd(p, j) ==
    /\ pointers[j] # None
    /\ Start(p, "end", j, "rollback", [Blank EXCEPT !.map = pointers, !.ids = <<pointers[j].entry>>])
    /\ UNCHANGED <<disk, records, history>>

BeginLoad(p, j) ==
    /\ pointers[j] # None
    /\ ~pointers[j].loaded
    /\ Start(p, "load", j, "save", [Blank EXCEPT !.map = pointers])
    /\ UNCHANGED <<disk, records, history>>

\* What a command makes of this project's pointer.
Renamed(w) ==
    CASE w.kind = "session" -> [entry |-> w.entry, loaded |-> FALSE]
      [] w.kind = "end"     -> None
      [] w.kind = "load"    -> [w.map[w.project] EXCEPT !.loaded = TRUE]

\* Mutant: only this project's pointer is kept.
NewMapAlone(w) == [j \in Projects |-> IF j = w.project THEN Renamed(w) ELSE None]

\* The map as it was read, with this project's pointer renewed.
NewMap(w) == [w.map EXCEPT ![w.project] = Renamed(w)]

\* And it is written back whole, whatever it has become in between.  The write
\* is a plain one.  It may fail before it has touched the file, and may leave
\* it cut short, which the next reader takes for an empty map, a loss if it was
\* none before; a session that was to be named stays in effect.
SaveMap(p) ==
    LET w == work[p] IN
    /\ pc[p] = "save"
    /\ \/ pointers' = NewMap(w) /\ Leave(p) /\ slip' = Slips("map", w.map # pointers)
       \/ UNCHANGED pointers /\ GiveUp(p)
       \/ /\ \E j \in Projects : pointers[j] # None
          /\ pointers' = [j \in Projects |-> None]
          /\ Leave(p)
          /\ slip' = slip \cup {"torn"}
    /\ UNCHANGED <<file, ledger, sentinel, parked, records, pre, over>>

-----------------------------------------------------------------------------
(* Undoing                                                                 *)

Undoable(j) == {e \in ledger : e.project = j /\ ~e.undone}

NewestFirst(entries) ==
    LET ids == {e.id : e \in entries} IN
    CHOOSE order \in [1..Cardinality(ids) -> ids] :
        \A i, j \in 1..Cardinality(ids) : i < j => order[i] > order[j]

\* Mutant: the chosen change first and the newest last.
SelectionOldestFirst(j, to) == Reverse(NewestFirst({e \in Undoable(j) : e.id >= to.id}))

\* Everything from the newest change down to the chosen one.
Selection(j, to) == NewestFirst({e \in Undoable(j) : e.id >= to.id})

\* undo --to: the entries are chosen from the list as shown.
BeginUndo(p, j, to) ==
    /\ Start(p, "undo", j, "before", [Blank EXCEPT !.ids = Selection(j, to), !.target = to.before])
    /\ to \in Undoable(j)
    /\ UNCHANGED <<disk, records, history>>

\* restore: one entry, wherever it lies, and no record of it.
BeginRestore(p, j, e) ==
    /\ Start(p, "restore", j, "rollback", [Blank EXCEPT !.ids = <<e.id>>])
    /\ e \in Undoable(j)
    /\ UNCHANGED <<disk, records, history>>

\* undo_recorded: what is there now becomes an entry before anything moves.
CaptureBefore(p) ==
    LET now == file[work[p].project] IN
    /\ pc[p] = "before"
    /\ Go(p, "redo", [work[p] EXCEPT !.before = now])
    /\ slip' = Slips("captured", now \in Runs)
    /\ UNCHANGED <<disk, records, pre, over>>

\* A revert that cannot be recorded does not begin.
RecordUndo(p) ==
    LET w == work[p] IN
    /\ pc[p] = "redo"
    /\ \/ Record(w.project, w.before)
          /\ Go(p, "rollback", [w EXCEPT !.entry = records', !.seen = w.before])
       \/ UNCHANGED <<ledger, records>> /\ Leave(p)
    /\ UNCHANGED <<file, pointers, sentinel, parked, history>>

\* After one entry: the next, or the end of it.
Onward(p, w) ==
    IF w.kind = "end" THEN Go(p, "save", w)
    ELSE IF Len(w.ids) = 1 THEN Leave(p)
    ELSE Go(p, "rollback", [w EXCEPT !.ids = Tail(@)])

\* What a session's end takes for the end of its toolset.
Over(w) == IF w.kind = "end" THEN [pre EXCEPT ![w.project] = None] ELSE pre

\* An entry cannot be rolled back.  A revert or a restore ends with the error;
\* a session's end goes on to drop the pointer, and its toolset stays.
NotRestored(p, w) ==
    /\ IF w.kind = "end" THEN Onward(p, w) /\ slip' = slip \cup {"unrestored"} ELSE GiveUp(p)
    /\ UNCHANGED <<disk, records, pre, over>>

\* history::undo of the first entry in turn: its content goes back to the file.
Rollback(p) ==
    LET w == work[p] IN
    /\ pc[p] = "rollback"
    /\ \E e \in Named(Head(w.ids)) :
           /\ ~e.undone
           /\ file' = [file EXCEPT ![e.project] = e.before]
           /\ Go(p, "mark", [w EXCEPT !.undoing = e, !.seen = e.before])
    /\ pre' = Over(w)
    /\ UNCHANGED <<ledger, pointers, sentinel, parked, records, over, slip>>

\* The file cannot be written.
RollbackFails(p) ==
    /\ pc[p] = "rollback"
    /\ \E e \in Named(Head(work[p].ids)) : ~e.undone
    /\ NotRestored(p, work[p])

\* The entry is not there.
EntryGone(p) ==
    /\ pc[p] = "rollback"
    /\ Named(Head(work[p].ids)) = {}
    /\ NotRestored(p, work[p])

\* The entry was undone meanwhile: a revert goes on with the next one, and a
\* session's end does not mind.
SkipUndone(p) ==
    LET w == work[p] IN
    /\ pc[p] = "rollback"
    /\ \E e \in Named(Head(w.ids)) : e.undone
    /\ IF w.kind = "restore" THEN Leave(p) ELSE Onward(p, w)
    /\ pre' = Over(w)
    /\ slip' = Slips("undone", w.kind # "restore")
    /\ UNCHANGED <<disk, records, over>>

Mark(p) ==
    /\ pc[p] = "mark"
    /\ MarkUndone(work[p].undoing)
    /\ Onward(p, work[p])
    /\ UNCHANGED <<file, pointers, sentinel, parked, records, history>>

\* The entry cannot be written anew: it stays to be undone, or is cut short
\* and nobody reads it again.
MarkFails(p) ==
    LET w == work[p] IN
    /\ pc[p] = "mark"
    /\ ledger' \in {ledger, ledger \ Named(w.undoing.id)}
    /\ IF w.kind = "end" THEN Onward(p, w) /\ slip' = slip \cup {"unmarked"} ELSE GiveUp(p)
    /\ UNCHANGED <<file, pointers, sentinel, parked, records, pre, over>>

-----------------------------------------------------------------------------
(* Locked runs                                                             *)

\* Mutant: the guard looks for a gateway body and then makes its mark.
BeginLockedByScan(p, j) ==
    /\ file[j] \notin Runs
    /\ Start(p, "locked", j, "park", Blank)
    /\ sentinel' = [sentinel EXCEPT ![j] = commands']
    /\ UNCHANGED <<file, ledger, pointers, parked, records, history>>

\* create_new: one creator wins.
BeginLocked(p, j) ==
    /\ sentinel[j] = None
    /\ Start(p, "locked", j, "park", Blank)
    /\ sentinel' = [sentinel EXCEPT ![j] = commands']
    /\ UNCHANGED <<file, ledger, pointers, parked, records, history>>

\* The original is read, and copied to the run directory.
Park(p) ==
    LET w == work[p]
        now == file[w.project]
    IN  /\ pc[p] = "park"
        /\ \/ /\ Go(p, "scope", [w EXCEPT !.before = now])
              /\ parked' = IF now = Missing THEN parked ELSE [parked EXCEPT ![w.run] = now]
              /\ UNCHANGED sentinel
           \/ Leave(p) /\ sentinel' = [sentinel EXCEPT ![w.project] = None] /\ UNCHANGED parked
        /\ slip' = Slips("captured", now \in Runs)
        /\ UNCHANGED <<file, ledger, pointers, records, pre, over>>

\* The gateway-only body is written; if it cannot be, the original is put
\* back, and if that fails too the guard stays.
Scope(p) ==
    LET w == work[p]
        j == w.project
    IN  /\ pc[p] = "scope"
        /\ \/ /\ file' = [file EXCEPT ![j] = w.run]
              /\ over' = [over EXCEPT ![w.run] = file[j]]
              /\ slip' = Slips("swapped", file[j] # w.before)
              /\ Go(p, "running", w)
              /\ UNCHANGED sentinel
           \/ /\ file' = IF w.before = Missing THEN file ELSE [file EXCEPT ![j] = w.before]
              /\ sentinel' = [sentinel EXCEPT ![j] = None]
              /\ Leave(p)
              /\ UNCHANGED <<over, slip>>
           \/ Leave(p) /\ w.before # Missing /\ UNCHANGED <<file, sentinel, over, slip>>
        /\ UNCHANGED <<ledger, pointers, parked, records, pre>>

\* Mutant: the copy goes before the original is back.
CompareAndUnpark(p) ==
    LET w == work[p] IN
    /\ pc[p] = "running"
    /\ Go(p, IF file[w.project] = w.run THEN "putback" ELSE "release", w)
    /\ parked' = [parked EXCEPT ![w.run] = None]
    /\ UNCHANGED <<file, ledger, pointers, sentinel, records, history>>

\* The harness is done: only what this run wrote is replaced, and a file that
\* cannot be read is not.
Compare(p) ==
    LET w == work[p] IN
    /\ pc[p] = "running"
    /\ \/ file[w.project] = w.run /\ Go(p, "putback", w)
       \/ Go(p, "release", w)
    /\ UNCHANGED <<disk, records, history>>

\* Mutant: what the run directory has is put back, also where nothing was parked.
PutBackCopy(p) ==
    LET w == work[p] IN
    /\ pc[p] = "putback"
    /\ \/ file' = [file EXCEPT ![w.project] = parked[w.run]] /\ Go(p, "unpark", w)
       \/ Leave(p) /\ UNCHANGED file
    /\ UNCHANGED <<ledger, pointers, sentinel, parked, records, history>>

\* The original goes back; a failure keeps copy and guard.
PutBack(p) ==
    LET w == work[p] IN
    /\ pc[p] = "putback"
    /\ \/ file' = [file EXCEPT ![w.project] = w.before] /\ Go(p, "unpark", w)
       \/ Leave(p) /\ UNCHANGED file
    /\ UNCHANGED <<ledger, pointers, sentinel, parked, records, history>>

\* Copy and guard are removed, if they can be.
Unpark(p) ==
    /\ pc[p] = "unpark"
    /\ parked' \in {parked, [parked EXCEPT ![work[p].run] = None]}
    /\ Go(p, "release", work[p])
    /\ UNCHANGED <<file, ledger, pointers, sentinel, records, history>>

Release(p) ==
    /\ pc[p] = "release"
    /\ sentinel' \in {sentinel, [sentinel EXCEPT ![work[p].project] = None]}
    /\ Leave(p)
    /\ UNCHANGED <<file, ledger, pointers, parked, records, history>>

\* The guard of a run that is gone is removed by hand, as the refusal says.
RemoveSentinel(j) ==
    /\ sentinel[j] # None
    /\ \A p \in Procs : work[p].run # sentinel[j]
    /\ sentinel' = [sentinel EXCEPT ![j] = None]
    /\ UNCHANGED <<file, ledger, pointers, parked, pc, work, commands, records, history>>

-----------------------------------------------------------------------------

Edit(j, body) ==
    /\ commands < MaxCommands
    /\ body # file[j]
    /\ commands' = commands + 1
    /\ file' = [file EXCEPT ![j] = body]
    /\ UNCHANGED <<ledger, pointers, sentinel, parked, pc, work, records, history>>

Die(p) ==
    /\ pc[p] # "idle"
    /\ GiveUp(p)
    /\ UNCHANGED <<disk, records, pre, over>>

Command(p) ==
    \/ \E j \in Projects :
           \/ \E body \in Texts : BeginApply(p, j, body) \/ BeginSession(p, j, body)
           \/ BeginEnd(p, j) \/ BeginLoad(p, j) \/ BeginLocked(p, j)
           \/ \E e \in ledger : BeginUndo(p, j, e) \/ BeginRestore(p, j, e)
    \/ Capture(p) \/ Write(p) \/ RecordWrite(p) \/ Abort(p)
    \/ Snapshot(p) \/ RecordSession(p) \/ LoadMap(p) \/ SaveMap(p)
    \/ CaptureBefore(p) \/ RecordUndo(p)
    \/ Rollback(p) \/ RollbackFails(p) \/ EntryGone(p) \/ SkipUndone(p) \/ Mark(p) \/ MarkFails(p)
    \/ Park(p) \/ Scope(p) \/ Compare(p) \/ PutBack(p) \/ Unpark(p) \/ Release(p)
    \/ Die(p)

Next ==
    \/ \E p \in Procs : Command(p)
    \/ \E j \in Projects : RemoveSentinel(j)
    \/ \E j \in Projects, body \in Texts \cup {Missing} : Edit(j, body)

Spec == Init /\ [][Next]_vars

-----------------------------------------------------------------------------
(* Properties                                                              *)

Kinds == {"none", "apply", "session", "end", "load", "undo", "restore", "locked"}

Locations == {"idle", "snapshot", "capture", "write", "record", "own", "load", "save",
              "before", "redo", "rollback", "mark",
              "park", "scope", "running", "putback", "unpark", "release"}

Map == [Projects -> Pointer \cup {None}]

Work ==
    [kind: Kinds, project: Projects \cup {None}, run: 0..MaxCommands, before: Bodies \cup {None},
     seen: Bodies \cup {None}, body: Texts \cup {None}, entry: Nat, map: Map \cup {None},
     ids: Seq(Nat), undoing: Entry \cup {None}, target: Bodies \cup {None}]

TypeOK ==
    /\ file \in [Projects -> Bodies]
    /\ ledger \subseteq Entry
    /\ pointers \in Map
    /\ sentinel \in [Projects -> Runs \cup {None}]
    /\ parked \in [Runs -> Bodies \cup {None}]
    /\ pc \in [Procs -> Locations]
    /\ work \in [Procs -> Work]
    /\ commands \in 0..MaxCommands
    /\ records \in Nat
    /\ pre \in [Projects -> Bodies \cup {None}]
    /\ over \in [Runs -> Bodies \cup {None}]

\* A session whose toolset is in effect can be found and ended: sessions.json
\* names it, or its start is still at work, also where two start at once.  The
\* exceptions: a stale map was saved over it; its start died, or failed after
\* the toolset was in effect; sessions.json was cut short; its end dropped the
\* pointer of a toolset it could not take out.
ActiveHasPointer ==
    slip \cap {"map", "halted", "torn", "unrestored"} = {} =>
        \A j \in Projects : pre[j] # None =>
            \/ pointers[j] # None
            \/ \E p \in Procs : /\ work[p].kind = "session" /\ work[p].project = j
                               /\ pc[p] \in {"record", "own", "load", "save"}

\* A session's end puts back what was there before it, whatever was applied,
\* recorded or locked during it.  The exceptions: its entry is not there, could
\* not be rolled back or was undone by others; two sessions started at once; the
\* file changed between the session's snapshot and its activation; a stale map
\* brought back the pointer of an earlier session, or an end still at work saw
\* that session's entry not marked or its pointer lost with the map.
EndRestores ==
    [][\A p \in Procs :
        LET j == work[p].project IN
        work[p].kind = "end" /\ pc[p] = "rollback" /\ pc'[p] \in {"mark", "save"} /\ pre[j] # None
          => \/ file'[j] = pre[j]
             \/ slip' \cap {"unrestored", "undone", "twice", "overtaken", "map", "unmarked", "torn"} # {}]_vars

\* What a revert wrote last is the file as it was before the change that was
\* chosen, however many entries it had to roll back and whoever recorded in
\* the meantime.  The exceptions: another process undid an entry of the
\* selection; the revert was stopped before its end, by a file or an entry that
\* could not be written, by an entry that was pruned, its own being one too
\* many, or by a death.
RevertReachesThePoint ==
    [][\A p \in Procs :
        work[p].kind = "undo" /\ pc[p] \in {"mark", "rollback"} /\ pc'[p] = "idle"
          => \/ work[p].seen = work[p].target
             \/ slip' \cap {"undone", "stopped"} # {}]_vars

\* Putting one run's original back never takes the gateway-only body from
\* another locked run that is alive.
RestoreWidensNobody ==
    [][\A p, q \in Procs :
        pc[p] = "putback" /\ file' # file /\ pc'[p] = "unpark" /\ q # p
          => ~(work[q].kind = "locked" /\ work[q].project = work[p].project)]_vars

\* As long as a run's gateway-only body is on disk, alive, crashed or given up,
\* what it replaced is in the run's directory.  The exceptions: the file
\* changed between the reading of the original and the write, and a body that
\* the ledger, or a later run, had taken for an original.
OriginalIsKept ==
    slip \cap {"captured", "swapped"} = {} =>
        \A j \in Projects : file[j] \in Runs =>
            over[file[j]] \in {Missing, parked[file[j]]}
=============================================================================
