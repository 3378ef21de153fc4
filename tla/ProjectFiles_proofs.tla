------------------------- MODULE ProjectFiles_proofs -------------------------
(***************************************************************************)
(* Theorems about sessions and locked runs over the files they share with  *)
(* everything else, for any number of processes, projects and commands.    *)
(***************************************************************************)
EXTENDS ProjectFiles, FiniteSetTheorems, WellFoundedInduction, TLAPS

-----------------------------------------------------------------------------
(* What is where                                                           *)

\* TypeOK but for the entries an undo has before it, which Aimed types.
WorkOf(ids) ==
    [kind: Kinds, project: Projects \cup {None}, run: 0..MaxCommands, before: Bodies \cup {None},
     seen: Bodies \cup {None}, body: Texts \cup {None}, entry: Nat, map: Map \cup {None},
     ids: {ids}, undoing: Entry \cup {None}, target: Bodies \cup {None}]

Held(p) == work[p] \in WorkOf(work[p].ids)

Types ==
    /\ file \in [Projects -> Bodies] /\ ledger \subseteq Entry /\ pointers \in Map
    /\ sentinel \in [Projects -> Runs \cup {None}] /\ parked \in [Runs -> Bodies \cup {None}]
    /\ pc \in [Procs -> Locations]
    /\ work = [p \in Procs |-> work[p]] /\ \A p \in Procs : Held(p)
    /\ commands \in 0..MaxCommands /\ records \in Nat
    /\ pre \in [Projects -> Bodies \cup {None}] /\ over \in [Runs -> Bodies \cup {None}]

LockedAt == {"park", "scope", "running", "putback", "unpark", "release"}

\* What a command holds at each place.
Place(p) ==
    LET w == work[p] IN
    /\ pc[p] = "idle" => w = Blank
    /\ pc[p] # "idle" => w.kind # "none" /\ w.project \in Projects /\ w.run \in 1..commands
    /\ pc[p] \in {"capture", "write", "record"} => w.kind \in {"apply", "session"}
    /\ pc[p] \in {"snapshot", "capture", "write", "record"} => w.body \in Texts
    /\ pc[p] \in {"snapshot", "own", "load"} => w.kind = "session"
    /\ pc[p] \in {"snapshot", "capture", "write", "record", "own"} => w.entry = 0
    /\ pc[p] = "save" => w.kind \in {"session", "end", "load"} /\ w.map \in Map
    /\ pc[p] \in {"before", "redo"} => w.kind = "undo"
    /\ pc[p] \in {"rollback", "mark"} => w.kind \in {"end", "undo", "restore"}
    /\ pc[p] = "mark" => w.undoing \in Entry
    /\ w.kind = "locked" <=> pc[p] \in LockedAt
    /\ pc[p] \in {"write", "record", "redo", "scope", "running", "putback"} => w.before \in Bodies
    /\ w.kind = "session" /\ pc[p] # "snapshot" => w.seen \in Bodies
    /\ w.kind \in {"end", "load"} => w.map \in Map /\ w.map[w.project] # None
    /\ w.kind = "end" => pc[p] \in {"rollback", "mark", "save"}
    /\ w.kind = "end" /\ pc[p] = "rollback" => w.ids = <<w.map[w.project].entry>>
    /\ w.kind = "end" /\ pc[p] = "mark" => w.undoing.id = w.map[w.project].entry

Places == \A p \in Procs : Place(p)

\* How a command takes a step: it begins, goes on or is over.
Others(p) == \A q \in Procs \ {p} : pc'[q] = pc[q] /\ work'[q] = work[q]

Began(p) ==
    /\ pc[p] = "idle" /\ pc'[p] # "idle"
    /\ commands' = commands + 1 /\ work'[p].run = commands'

Went(p) ==
    /\ pc[p] # "idle" /\ pc'[p] # "idle" /\ UNCHANGED commands
    /\ work'[p].kind = work[p].kind /\ work'[p].project = work[p].project /\ work'[p].run = work[p].run

Left(p) == pc[p] # "idle" /\ pc'[p] = "idle" /\ work'[p] = Blank /\ UNCHANGED commands

Steps(p) == Others(p) /\ (Began(p) \/ Went(p) \/ Left(p))

Moved(p, at, w) ==
    /\ pc' \in [Procs -> Locations] /\ work' = [q \in Procs |-> work'[q]] /\ \A q \in Procs : Held(q)'
    /\ pc'[p] = at /\ work'[p] = w /\ Others(p)

LEMMA StateTypes ==
  ASSUME Types
  PROVE  /\ file \in [Projects -> Bodies] /\ ledger \subseteq Entry /\ pointers \in Map
         /\ sentinel \in [Projects -> Runs \cup {None}] /\ parked \in [Runs -> Bodies \cup {None}]
         /\ pc \in [Procs -> Locations]
         /\ work = [p \in Procs |-> work[p]] /\ \A p \in Procs : work[p] \in WorkOf(work[p].ids)
         /\ commands \in 0..MaxCommands /\ records \in Nat
         /\ pre \in [Projects -> Bodies \cup {None}] /\ over \in [Runs -> Bodies \cup {None}]
  BY DEF Types, Held

LEMMA BlankTypes == Blank \in WorkOf(<<>>) /\ Blank.kind = "none" /\ Blank.run = 0 /\ Blank.ids = <<>>
  BY FilesAssumption DEF Blank, WorkOf, Kinds, Bodies, Runs

LEMMA GoMoves ==
  ASSUME Types, NEW p \in Procs, NEW at \in Locations, NEW w, NEW ids, w \in WorkOf(ids), Go(p, at, w)
  PROVE  Moved(p, at, w) /\ UNCHANGED commands
<1>1. /\ pc \in [Procs -> Locations] /\ work = [q \in Procs |-> work[q]]
      /\ \A q \in Procs : work[q] \in WorkOf(work[q].ids)
  BY StateTypes
<1>2. pc' = [pc EXCEPT ![p] = at] /\ work' = [work EXCEPT ![p] = w] /\ UNCHANGED commands
  BY DEF Go
<1>3. work'[p] = w /\ \A q \in Procs \ {p} : work'[q] = work[q]
  BY <1>1, <1>2
<1>4. w.ids = ids
  BY DEF WorkOf
<1>5. \A q \in Procs : Held(q)'
  BY <1>1, <1>3, <1>4 DEF Held
<1>6. work' = [q \in Procs |-> work'[q]]
  BY <1>1, <1>2
<1>7. QED
  BY <1>1, <1>2, <1>3, <1>5, <1>6 DEF Moved, Others

LEMMA LeaveMoves ==
  ASSUME Types, NEW p \in Procs, Leave(p)
  PROVE  Moved(p, "idle", Blank) /\ UNCHANGED commands
  BY GoMoves, BlankTypes DEF Leave, Locations

LEMMA StartMoves ==
  ASSUME Types, NEW p \in Procs, NEW kind \in Kinds, NEW j \in Projects, NEW at \in Locations,
         NEW w, NEW ids, w \in WorkOf(ids), Start(p, kind, j, at, w)
  PROVE  /\ pc[p] = "idle" /\ commands' = commands + 1 /\ commands' \in 1..MaxCommands
         /\ Moved(p, at, [w EXCEPT !.kind = kind, !.project = j, !.run = commands'])
<1>1. commands' = commands + 1 /\ commands' \in 1..MaxCommands /\ pc[p] = "idle"
  BY StateTypes, FilesAssumption DEF Start
<1>a. ASSUME NEW n \in 0..MaxCommands
      PROVE  [w EXCEPT !.kind = kind, !.project = j, !.run = n] \in WorkOf(ids)
  BY DEF WorkOf
<1>b. commands' \in 0..MaxCommands
  BY <1>1, FilesAssumption
<1>2. [w EXCEPT !.kind = kind, !.project = j, !.run = commands'] \in WorkOf(ids)
  BY <1>a, <1>b
<1> DEFINE v == [w EXCEPT !.kind = kind, !.project = j, !.run = commands']
<1>3. pc' = [pc EXCEPT ![p] = at] /\ work' = [work EXCEPT ![p] = v]
  BY DEF Start
<1>4. v \in WorkOf(ids) /\ v.ids = ids
  BY <1>2 DEF WorkOf
<1> HIDE DEF v
<1>5. /\ pc \in [Procs -> Locations] /\ work = [q \in Procs |-> work[q]]
      /\ \A q \in Procs : work[q] \in WorkOf(work[q].ids)
  BY StateTypes
<1>6. work'[p] = v /\ \A q \in Procs \ {p} : work'[q] = work[q]
  BY <1>3, <1>5
<1>7. \A q \in Procs : Held(q)'
  BY <1>4, <1>5, <1>6 DEF Held
<1>8. work' = [q \in Procs |-> work'[q]]
  BY <1>3, <1>5
<1>9. Moved(p, at, v)
  BY <1>3, <1>5, <1>6, <1>7, <1>8 DEF Moved, Others
<1>10. QED
  BY <1>1, <1>9 DEF v

\* One command's place is all that can be new.
LEMMA OthersKeepPlaces ==
  ASSUME Types, Places, NEW p \in Procs, Others(p), Place(p)', commands' \in Nat, commands <= commands'
  PROVE  Places'
<1>1. ASSUME NEW q \in Procs \ {p} PROVE Place(q)'
  <2>1. pc'[q] = pc[q] /\ work'[q] = work[q] /\ Place(q)
    BY DEF Others, Places
  <2>2. commands \in Nat /\ work[q].run \in Nat
    BY StateTypes, FilesAssumption DEF WorkOf
  <2>3. QED
    BY <2>1, <2>2 DEF Place
<1>2. QED
  BY <1>1 DEF Places

LEMMA LeaveSteps ==
  ASSUME Types, Places, NEW p \in Procs, pc[p] # "idle", Leave(p)
  PROVE  Places' /\ Steps(p) /\ Moved(p, "idle", Blank) /\ UNCHANGED commands
<1>1. Moved(p, "idle", Blank) /\ UNCHANGED commands
  BY LeaveMoves
<1>2. Place(p)'
  BY <1>1, FilesAssumption DEF Moved, Place, Blank, LockedAt
<1>3. QED
  BY <1>1, <1>2, OthersKeepPlaces, StateTypes, FilesAssumption DEF Moved, Steps, Left

LEMMA GoSteps ==
  ASSUME Types, Places, NEW p \in Procs, NEW at \in Locations \ {"idle"}, NEW w, NEW ids, w \in WorkOf(ids),
         Go(p, at, w), pc[p] # "idle",
         w.kind = work[p].kind, w.project = work[p].project, w.run = work[p].run,
         pc'[p] = at /\ work'[p] = w /\ UNCHANGED commands => Place(p)'
  PROVE  Places' /\ Steps(p) /\ Moved(p, at, w) /\ UNCHANGED commands
<1>1. Moved(p, at, w) /\ UNCHANGED commands
  BY GoMoves
<1>2. Place(p)'
  BY <1>1 DEF Moved
<1>3. QED
  BY <1>1, <1>2, OthersKeepPlaces, StateTypes, FilesAssumption DEF Moved, Steps, Went

-----------------------------------------------------------------------------
(* Every step of a command keeps the types, and is one of the three kinds  *)

LEMMA RecordTypes ==
  ASSUME Types, NEW j \in Projects, NEW before \in Bodies, Record(j, before)
  PROVE  /\ records' = records + 1 /\ records' \in Nat
         /\ ledger' \subseteq ledger \cup {[id |-> records', project |-> j, before |-> before, undone |-> FALSE]}
         /\ ledger' \subseteq Entry
<1>1. records' = records + 1 /\ records' \in Nat
  BY StateTypes DEF Record
<1>2. ledger' \subseteq ledger \cup {[id |-> records', project |-> j, before |-> before, undone |-> FALSE]}
  BY DEF Record, Pruned
<1>3. [id |-> records', project |-> j, before |-> before, undone |-> FALSE] \in Entry
  BY <1>1 DEF Entry
<1>4. QED
  BY <1>1, <1>2, <1>3, StateTypes

\* What a step may leave behind, once its command has moved.
LEMMA Accept ==
  ASSUME NEW p \in Procs, NEW at, NEW w, Moved(p, at, w), commands' \in 0..MaxCommands,
         file' \in [Projects -> Bodies], ledger' \subseteq Entry, pointers' \in Map,
         sentinel' \in [Projects -> Runs \cup {None}], parked' \in [Runs -> Bodies \cup {None}],
         records' \in Nat, pre' \in [Projects -> Bodies \cup {None}], over' \in [Runs -> Bodies \cup {None}]
  PROVE  Types'
  BY DEF Types, Moved

LEMMA StartSteps ==
  ASSUME Types, Places, NEW p \in Procs, NEW kind \in Kinds \ {"none"}, NEW j \in Projects,
         NEW at \in Locations \ {"idle"}, NEW w, NEW ids, w \in WorkOf(ids), Start(p, kind, j, at, w),
         pc'[p] = at /\ work'[p] = [w EXCEPT !.kind = kind, !.project = j, !.run = commands']
           /\ commands' \in 1..MaxCommands => Place(p)'
  PROVE  /\ Places' /\ Steps(p) /\ pc[p] = "idle" /\ commands' = commands + 1 /\ commands' \in 1..MaxCommands
         /\ Moved(p, at, [w EXCEPT !.kind = kind, !.project = j, !.run = commands'])
<1>1. /\ pc[p] = "idle" /\ commands' = commands + 1 /\ commands' \in 1..MaxCommands
      /\ Moved(p, at, [w EXCEPT !.kind = kind, !.project = j, !.run = commands'])
  BY StartMoves
<1>2. Place(p)'
  BY <1>1 DEF Moved
<1>3. work'[p].run = commands'
  BY <1>1 DEF Moved, WorkOf
<1>4. QED
  BY <1>1, <1>2, <1>3, OthersKeepPlaces, StateTypes, FilesAssumption DEF Moved, Steps, Began

LEMMA BeginTypes ==
  ASSUME Types, Places, NEW p \in Procs, NEW j \in Projects,
         \/ \E body \in Texts : BeginApply(p, j, body) \/ BeginSession(p, j, body)
         \/ BeginEnd(p, j) \/ BeginLoad(p, j) \/ BeginLocked(p, j)
         \/ \E e \in ledger : BeginUndo(p, j, e) \/ BeginRestore(p, j, e)
  PROVE  Types' /\ Places' /\ Steps(p)
<1> USE DEF disk, history
<1>a. /\ file \in [Projects -> Bodies] /\ ledger \subseteq Entry /\ pointers \in Map
      /\ sentinel \in [Projects -> Runs \cup {None}] /\ parked \in [Runs -> Bodies \cup {None}]
      /\ records \in Nat
      /\ pre \in [Projects -> Bodies \cup {None}] /\ over \in [Runs -> Bodies \cup {None}]
  BY StateTypes
<1>b. ASSUME NEW at, NEW w, Moved(p, at, w), commands' \in 1..MaxCommands,
             UNCHANGED <<disk, records, pre, over>>
      PROVE  Types'
  BY <1>b, <1>a, Accept, FilesAssumption
<1>c. ASSUME NEW body \in Texts PROVE [Blank EXCEPT !.body = body] \in WorkOf(<<>>)
  BY BlankTypes, FilesAssumption DEF WorkOf
<1>1. ASSUME NEW body \in Texts, BeginApply(p, j, body) PROVE Types' /\ Places' /\ Steps(p)
  <2> DEFINE w == [Blank EXCEPT !.body = body]
  <2>1. w \in WorkOf(<<>>) /\ w.body = body /\ w.entry = 0
    BY <1>c DEF Blank
  <2>2. Start(p, "apply", j, "capture", w) /\ UNCHANGED <<disk, records, pre, over>>
    BY <1>1 DEF BeginApply
  <2> HIDE DEF w
  <2>3. pc'[p] = "capture" /\ work'[p] = [w EXCEPT !.kind = "apply", !.project = j, !.run = commands']
          /\ commands' \in 1..MaxCommands => Place(p)'
    BY <2>1, FilesAssumption DEF Place, WorkOf, LockedAt
  <2>4. QED
    BY <2>1, <2>2, <2>3, <1>b, StartSteps DEF Kinds, Locations
<1>2. ASSUME NEW body \in Texts, BeginSession(p, j, body) PROVE Types' /\ Places' /\ Steps(p)
  <2> DEFINE w == [Blank EXCEPT !.body = body]
  <2>1. w \in WorkOf(<<>>) /\ w.body = body /\ w.entry = 0
    BY <1>c DEF Blank
  <2>2. Start(p, "session", j, "snapshot", w) /\ UNCHANGED <<disk, records, pre, over>>
    BY <1>2 DEF BeginSession
  <2> HIDE DEF w
  <2>3. pc'[p] = "snapshot" /\ work'[p] = [w EXCEPT !.kind = "session", !.project = j, !.run = commands']
          /\ commands' \in 1..MaxCommands => Place(p)'
    BY <2>1, FilesAssumption DEF Place, WorkOf, LockedAt
  <2>4. QED
    BY <2>1, <2>2, <2>3, <1>b, StartSteps DEF Kinds, Locations
<1>3. CASE BeginEnd(p, j)
  <2> DEFINE ids == <<pointers[j].entry>>
             w == [Blank EXCEPT !.map = pointers, !.ids = ids]
  <2>1. w \in WorkOf(ids) /\ w.map = pointers /\ w.ids = ids
    BY <1>a, BlankTypes DEF WorkOf
  <2>2. Start(p, "end", j, "rollback", w) /\ UNCHANGED <<disk, records, pre, over>> /\ pointers[j] # None
    BY <1>3 DEF BeginEnd
  <2> HIDE DEF w
  <2>3. pc'[p] = "rollback" /\ work'[p] = [w EXCEPT !.kind = "end", !.project = j, !.run = commands']
          /\ commands' \in 1..MaxCommands => Place(p)'
    BY <2>1, <2>2, <1>a, FilesAssumption DEF Place, WorkOf, LockedAt
  <2> HIDE DEF ids
  <2>4. QED
    BY <2>1, <2>2, <2>3, <1>b, StartSteps DEF Kinds, Locations
<1>4. CASE BeginLoad(p, j)
  <2> DEFINE w == [Blank EXCEPT !.map = pointers]
  <2>1. w \in WorkOf(<<>>) /\ w.map = pointers
    BY <1>a, BlankTypes DEF WorkOf
  <2>2. Start(p, "load", j, "save", w) /\ UNCHANGED <<disk, records, pre, over>> /\ pointers[j] # None
    BY <1>4 DEF BeginLoad
  <2> HIDE DEF w
  <2>3. pc'[p] = "save" /\ work'[p] = [w EXCEPT !.kind = "load", !.project = j, !.run = commands']
          /\ commands' \in 1..MaxCommands => Place(p)'
    BY <2>1, <2>2, <1>a, FilesAssumption DEF Place, WorkOf, LockedAt
  <2>4. QED
    BY <2>1, <2>2, <2>3, <1>b, StartSteps DEF Kinds, Locations
<1>5. CASE BeginLocked(p, j)
  <2>1. Start(p, "locked", j, "park", Blank)
    BY <1>5 DEF BeginLocked
  <2>2. pc'[p] = "park" /\ work'[p] = [Blank EXCEPT !.kind = "locked", !.project = j, !.run = commands']
          /\ commands' \in 1..MaxCommands => Place(p)'
    BY FilesAssumption, BlankTypes DEF Place, WorkOf, LockedAt
  <2>3. /\ Places' /\ Steps(p) /\ commands' \in 1..MaxCommands
        /\ Moved(p, "park", [Blank EXCEPT !.kind = "locked", !.project = j, !.run = commands'])
    BY <2>1, <2>2, BlankTypes, StartSteps DEF Kinds, Locations
  <2>4. sentinel' \in [Projects -> Runs \cup {None}] /\ commands' \in 0..MaxCommands
    BY <2>3, <1>5, <1>a, FilesAssumption DEF BeginLocked, Runs
  <2>5. QED
    BY <2>3, <2>4, <1>5, <1>a, Accept DEF BeginLocked
<1>6. ASSUME NEW e \in ledger, BeginUndo(p, j, e) PROVE Types' /\ Places' /\ Steps(p)
  <2> DEFINE ids == Selection(j, e)
             w == [Blank EXCEPT !.ids = ids, !.target = e.before]
  <2>1. w \in WorkOf(ids)
    BY <1>a, BlankTypes DEF WorkOf, Entry
  <2>2. Start(p, "undo", j, "before", w) /\ UNCHANGED <<disk, records, pre, over>>
    BY <1>6 DEF BeginUndo
  <2> HIDE DEF w, ids
  <2>3. pc'[p] = "before" /\ work'[p] = [w EXCEPT !.kind = "undo", !.project = j, !.run = commands']
          /\ commands' \in 1..MaxCommands => Place(p)'
    BY <2>1, FilesAssumption DEF Place, WorkOf, LockedAt
  <2>4. QED
    BY <2>1, <2>2, <2>3, <1>b, StartSteps DEF Kinds, Locations
<1>7. ASSUME NEW e \in ledger, BeginRestore(p, j, e) PROVE Types' /\ Places' /\ Steps(p)
  <2> DEFINE ids == <<e.id>>
             w == [Blank EXCEPT !.ids = ids]
  <2>1. w \in WorkOf(ids)
    BY BlankTypes DEF WorkOf
  <2>2. Start(p, "restore", j, "rollback", w) /\ UNCHANGED <<disk, records, pre, over>>
    BY <1>7 DEF BeginRestore
  <2> HIDE DEF w, ids
  <2>3. pc'[p] = "rollback" /\ work'[p] = [w EXCEPT !.kind = "restore", !.project = j, !.run = commands']
          /\ commands' \in 1..MaxCommands => Place(p)'
    BY <2>1, FilesAssumption DEF Place, WorkOf, LockedAt
  <2>4. QED
    BY <2>1, <2>2, <2>3, <1>b, StartSteps DEF Kinds, Locations
<1>8. QED
  BY <1>1, <1>2, <1>3, <1>4, <1>5, <1>6, <1>7

LEMMA ApplyTypes ==
  ASSUME Types, Places, NEW p \in Procs, Capture(p) \/ Write(p) \/ RecordWrite(p)
  PROVE  Types' /\ Places' /\ Steps(p)
<1> USE DEF disk, history
<1>a. /\ file \in [Projects -> Bodies] /\ ledger \subseteq Entry /\ pointers \in Map
      /\ sentinel \in [Projects -> Runs \cup {None}] /\ parked \in [Runs -> Bodies \cup {None}]
      /\ records \in Nat /\ commands \in 0..MaxCommands
      /\ pre \in [Projects -> Bodies \cup {None}] /\ over \in [Runs -> Bodies \cup {None}]
      /\ work[p] \in WorkOf(work[p].ids) /\ Place(p)
  BY StateTypes DEF Places
<1> DEFINE w == work[p]
           j == w.project
<1>1. CASE Capture(p)
  <2>1. pc[p] = "capture" /\ j \in Projects /\ file[j] \in Bodies /\ w.kind \in {"apply", "session"} /\ w.body \in Texts
    BY <1>1, <1>a DEF Capture, Place
  <2>2. UNCHANGED <<file, ledger, pointers, sentinel, parked, records, pre, over>>
    BY <1>1 DEF Capture
  <2>3. CASE Go(p, "write", [w EXCEPT !.before = file[j]])
    <3> DEFINE v == [w EXCEPT !.before = file[j]]
    <3>1. v \in WorkOf(w.ids) /\ v.before = file[j] /\ v.kind = w.kind /\ v.project = j /\ v.run = w.run
          /\ v.body = w.body /\ v.seen = w.seen /\ v.entry = w.entry
      BY <2>1, <1>a DEF WorkOf
    <3>2. Go(p, "write", v)
      BY <2>3
    <3> HIDE DEF v
    <3>3. pc'[p] = "write" /\ work'[p] = v /\ UNCHANGED commands => Place(p)'
      BY <2>1, <3>1, <1>a DEF Place, LockedAt
    <3>4. Places' /\ Steps(p) /\ Moved(p, "write", v) /\ UNCHANGED commands
      BY <2>1, <3>1, <3>2, <3>3, GoSteps DEF Locations
    <3>5. QED
      BY <3>4, <2>2, <1>a, Accept
  <2>4. CASE w.kind = "session" /\ Go(p, "own", w)
    <3>3. pc'[p] = "own" /\ work'[p] = w /\ UNCHANGED commands => Place(p)'
      BY <2>1, <2>4, <1>a DEF Place, LockedAt
    <3>4. Places' /\ Steps(p) /\ Moved(p, "own", w) /\ UNCHANGED commands
      BY <2>1, <2>4, <3>3, <1>a, GoSteps DEF Locations
    <3>5. QED
      BY <3>4, <2>2, <1>a, Accept
  <2>5. CASE Leave(p)
    BY <2>1, <2>2, <2>5, <1>a, LeaveSteps, Accept
  <2>6. QED
    BY <1>1, <2>3, <2>4, <2>5 DEF Capture
<1>2. CASE Write(p)
  <2>1. pc[p] = "write" /\ j \in Projects /\ w.kind \in {"apply", "session"} /\ w.body \in Texts
    BY <1>2, <1>a DEF Write, Place
  <2>2. Go(p, "record", w)
    BY <1>2 DEF Write
  <2>3. pc'[p] = "record" /\ work'[p] = w /\ UNCHANGED commands => Place(p)'
    BY <2>1, <1>a DEF Place, LockedAt
  <2>4. Places' /\ Steps(p) /\ Moved(p, "record", w) /\ UNCHANGED commands
    BY <2>1, <2>2, <2>3, <1>a, GoSteps DEF Locations
  <2>5. file' \in [Projects -> Bodies] /\ pre' \in [Projects -> Bodies \cup {None}]
    BY <1>2, <2>1, <1>a DEF Write, Bodies
  <2>6. QED
    BY <1>2, <2>4, <2>5, <1>a, Accept DEF Write
<1>3. CASE RecordWrite(p)
  <2>1. pc[p] = "record" /\ j \in Projects /\ w.kind \in {"apply", "session"} /\ w.before \in Bodies
    BY <1>3, <1>a DEF RecordWrite, Place
  <2>2. ledger' \subseteq Entry /\ records' \in Nat
    BY <1>3, <2>1, <1>a, RecordTypes DEF RecordWrite
  <2>3. UNCHANGED <<file, pointers, sentinel, parked, pre, over>>
    BY <1>3 DEF RecordWrite
  <2>4. CASE w.kind = "session"
    <3>1. Go(p, "own", w)
      BY <1>3, <2>4 DEF RecordWrite
    <3>3. pc'[p] = "own" /\ work'[p] = w /\ UNCHANGED commands => Place(p)'
      BY <2>1, <2>4, <1>a DEF Place, LockedAt
    <3>4. Places' /\ Steps(p) /\ Moved(p, "own", w) /\ UNCHANGED commands
      BY <2>1, <3>1, <3>3, <1>a, GoSteps DEF Locations
    <3>5. QED
      BY <3>4, <2>2, <2>3, <1>a, Accept
  <2>5. CASE w.kind # "session"
    <3>1. Leave(p)
      BY <1>3, <2>5 DEF RecordWrite
    <3>2. QED
      BY <2>1, <2>2, <2>3, <3>1, <1>a, LeaveSteps, Accept
  <2>6. QED
    BY <2>4, <2>5
<1>4. QED
  BY <1>1, <1>2, <1>3

\* The map that is saved.
LEMMA SaveTypes ==
  ASSUME Types, Places, NEW p \in Procs, pc[p] = "save", pointers' = NewMap(work[p])
  PROVE  LET w == work[p] IN
         /\ w.project \in Projects /\ w.map \in Map /\ w.kind \in {"session", "end", "load"}
         /\ pointers' \in Map /\ \A j \in Projects \ {w.project} : pointers'[j] = w.map[j]
         /\ w.kind = "session" => pointers'[w.project] = [entry |-> w.entry, loaded |-> FALSE]
         /\ w.kind = "end" => pointers'[w.project] = None
         /\ w.kind = "load" => /\ w.map[w.project] \in Pointer
                               /\ pointers'[w.project] = [w.map[w.project] EXCEPT !.loaded = TRUE]
<1> DEFINE w == work[p]
<1>1. /\ w.project \in Projects /\ w.map \in Map /\ w.kind \in {"session", "end", "load"} /\ w.entry \in Nat
      /\ w.kind = "load" => w.map[w.project] # None
  BY StateTypes DEF Places, Place, WorkOf
<1>2. w.kind = "load" => w.map[w.project] \in Pointer
  BY <1>1 DEF Map
<1>3. CASE w.kind = "session"
  <2>1. [entry |-> w.entry, loaded |-> FALSE] \in Pointer
    BY <1>1 DEF Pointer
  <2>2. pointers' = [w.map EXCEPT ![w.project] = [entry |-> w.entry, loaded |-> FALSE]]
    BY <1>3 DEF NewMap, Renamed
  <2>3. QED
    BY <1>1, <1>3, <2>1, <2>2 DEF Map
<1>4. CASE w.kind = "end"
  <2>2. pointers' = [w.map EXCEPT ![w.project] = None]
    BY <1>4 DEF NewMap, Renamed
  <2>3. QED
    BY <1>1, <1>4, <2>2 DEF Map
<1>5. CASE w.kind = "load"
  <2>1. [w.map[w.project] EXCEPT !.loaded = TRUE] \in Pointer
    BY <1>2, <1>5 DEF Pointer
  <2>2. pointers' = [w.map EXCEPT ![w.project] = [w.map[w.project] EXCEPT !.loaded = TRUE]]
    BY <1>5 DEF NewMap, Renamed
  <2>3. QED
    BY <1>1, <1>2, <1>5, <2>1, <2>2 DEF Map
<1>6. QED
  BY <1>1, <1>3, <1>4, <1>5

LEMMA SessionTypes ==
  ASSUME Types, Places, NEW p \in Procs, Snapshot(p) \/ RecordSession(p) \/ LoadMap(p) \/ SaveMap(p)
  PROVE  Types' /\ Places' /\ Steps(p)
<1> USE DEF disk, history
<1>a. /\ file \in [Projects -> Bodies] /\ ledger \subseteq Entry /\ pointers \in Map
      /\ sentinel \in [Projects -> Runs \cup {None}] /\ parked \in [Runs -> Bodies \cup {None}]
      /\ records \in Nat /\ commands \in 0..MaxCommands
      /\ pre \in [Projects -> Bodies \cup {None}] /\ over \in [Runs -> Bodies \cup {None}]
      /\ work[p] \in WorkOf(work[p].ids) /\ Place(p)
  BY StateTypes DEF Places
<1> DEFINE w == work[p]
           j == w.project
<1>1. CASE Snapshot(p)
  <2>1. pc[p] = "snapshot" /\ j \in Projects /\ file[j] \in Bodies /\ w.kind = "session"
    BY <1>1, <1>a DEF Snapshot, Place
  <2> DEFINE v == [w EXCEPT !.seen = file[j]]
  <2>2. v \in WorkOf(w.ids) /\ v.seen = file[j] /\ v.kind = w.kind /\ v.project = j /\ v.run = w.run
        /\ v.body = w.body /\ v.entry = w.entry
    BY <2>1, <1>a DEF WorkOf
  <2>3. Go(p, "capture", v)
    BY <1>1 DEF Snapshot
  <2> HIDE DEF v
  <2>4. w.body \in Texts
    BY <1>a, <2>1 DEF Place
  <2>5. pc'[p] = "capture" /\ work'[p] = v /\ UNCHANGED commands => Place(p)'
    BY <2>1, <2>2, <2>4, <1>a DEF Place, LockedAt
  <2>6. Places' /\ Steps(p) /\ Moved(p, "capture", v) /\ UNCHANGED commands
    BY <2>1, <2>2, <2>3, <2>5, GoSteps DEF Locations
  <2>7. QED
    BY <1>1, <2>6, <1>a, Accept DEF Snapshot
<1>2. CASE RecordSession(p)
  <2>1. pc[p] = "own" /\ j \in Projects /\ w.kind = "session" /\ w.seen \in Bodies
    BY <1>2, <1>a DEF RecordSession, Place
  <2>2. UNCHANGED <<file, pointers, sentinel, parked, pre, over>>
    BY <1>2 DEF RecordSession
  <2>3. CASE Record(j, w.seen) /\ Go(p, "load", [w EXCEPT !.entry = records'])
    <3> DEFINE v == [w EXCEPT !.entry = records']
    <3>1. records' \in Nat /\ ledger' \subseteq Entry
      BY <2>1, <2>3, RecordTypes
    <3>2. ASSUME NEW n \in Nat PROVE [w EXCEPT !.entry = n] \in WorkOf(w.ids)
      BY <1>a DEF WorkOf
    <3>3. v \in WorkOf(w.ids)
      BY <3>1, <3>2
    <3>4. v.seen = w.seen /\ v.kind = w.kind /\ v.project = j /\ v.run = w.run
      BY <1>a DEF WorkOf
    <3>5. Go(p, "load", v)
      BY <2>3
    <3> HIDE DEF v
    <3>6. pc'[p] = "load" /\ work'[p] = v /\ UNCHANGED commands => Place(p)'
      BY <2>1, <3>4, <1>a DEF Place, LockedAt
    <3>7. Places' /\ Steps(p) /\ Moved(p, "load", v) /\ UNCHANGED commands
      BY <2>1, <3>3, <3>4, <3>5, <3>6, GoSteps DEF Locations
    <3>8. QED
      BY <2>2, <3>1, <3>7, <1>a, Accept
  <2>4. CASE UNCHANGED <<ledger, records>> /\ Go(p, "load", w)
    <3>1. pc'[p] = "load" /\ work'[p] = w /\ UNCHANGED commands => Place(p)'
      BY <2>1, <1>a DEF Place, LockedAt
    <3>2. Places' /\ Steps(p) /\ Moved(p, "load", w) /\ UNCHANGED commands
      BY <2>1, <2>4, <3>1, <1>a, GoSteps DEF Locations
    <3>3. QED
      BY <2>2, <2>4, <3>2, <1>a, Accept
  <2>5. QED
    BY <1>2, <2>3, <2>4 DEF RecordSession
<1>3. CASE LoadMap(p)
  <2>1. pc[p] = "load" /\ j \in Projects /\ w.kind = "session" /\ w.seen \in Bodies
    BY <1>3, <1>a DEF LoadMap, Place
  <2> DEFINE v == [w EXCEPT !.map = pointers]
  <2>2. v \in WorkOf(w.ids) /\ v.map = pointers /\ v.seen = w.seen /\ v.kind = w.kind /\ v.project = j /\ v.run = w.run
    BY <1>a DEF WorkOf
  <2>3. Go(p, "save", v)
    BY <1>3 DEF LoadMap
  <2> HIDE DEF v
  <2>4. pc'[p] = "save" /\ work'[p] = v /\ UNCHANGED commands => Place(p)'
    BY <2>1, <2>2, <1>a DEF Place, LockedAt
  <2>5. Places' /\ Steps(p) /\ Moved(p, "save", v) /\ UNCHANGED commands
    BY <2>1, <2>2, <2>3, <2>4, GoSteps DEF Locations
  <2>6. QED
    BY <1>3, <2>5, <1>a, Accept DEF LoadMap
<1>4. CASE SaveMap(p)
  <2>1. pc[p] = "save" /\ Leave(p) /\ UNCHANGED <<file, ledger, sentinel, parked, records, pre, over>>
    BY <1>4 DEF SaveMap, GiveUp
  <2>2. [i \in Projects |-> None] \in Map
    BY DEF Map
  <2>3. pointers' \in Map
    BY <1>4, <1>a, <2>1, <2>2, SaveTypes DEF SaveMap
  <2>4. QED
    BY <2>1, <2>3, <1>a, LeaveSteps, Accept
<1>5. QED
  BY <1>1, <1>2, <1>3, <1>4

\* Where a rollback goes on.
LEMMA OnwardSteps ==
  ASSUME Types, Places, NEW p \in Procs, pc[p] \in {"rollback", "mark"}, Onward(p, work[p])
  PROVE  /\ Places' /\ Steps(p) /\ UNCHANGED commands
         /\ \/ work[p].kind = "end" /\ Moved(p, "save", work[p])
            \/ work[p].kind # "end" /\ Moved(p, "idle", Blank)
            \/ work[p].kind # "end" /\ Moved(p, "rollback", [work[p] EXCEPT !.ids = Tail(@)])
<1> DEFINE w == work[p]
<1>1. w \in WorkOf(w.ids) /\ Place(p) /\ w.kind \in {"end", "undo", "restore"}
  BY StateTypes DEF Places, Place
<1>2. CASE w.kind = "end"
  <2>1. Go(p, "save", w)
    BY <1>2 DEF Onward
  <2>2. pc'[p] = "save" /\ work'[p] = w /\ UNCHANGED commands => Place(p)'
    BY <1>1, <1>2 DEF Place, LockedAt
  <2>3. QED
    BY <1>1, <1>2, <2>1, <2>2, GoSteps DEF Locations
<1>3. CASE w.kind # "end" /\ Leave(p)
  BY <1>3, LeaveSteps
<1>4. CASE w.kind # "end" /\ Go(p, "rollback", [w EXCEPT !.ids = Tail(@)])
  <2> DEFINE v == [w EXCEPT !.ids = Tail(@)]
             ids == Tail(w.ids)
  <2>1. v \in WorkOf(ids) /\ v.kind = w.kind /\ v.project = w.project /\ v.run = w.run
    BY <1>1 DEF WorkOf
  <2>2. Go(p, "rollback", v)
    BY <1>4
  <2> HIDE DEF v, ids
  <2>3. pc'[p] = "rollback" /\ work'[p] = v /\ UNCHANGED commands => Place(p)'
    BY <1>1, <1>4, <2>1 DEF Place, LockedAt
  <2>4. Places' /\ Steps(p) /\ Moved(p, "rollback", v) /\ UNCHANGED commands
    BY <2>1, <2>2, <2>3, GoSteps DEF Locations
  <2>5. QED
    BY <1>4, <2>4 DEF v
<1>5. QED
  BY <1>2, <1>3, <1>4 DEF Onward

LEMMA OverTypes ==
  ASSUME Types, NEW p \in Procs, work[p].kind = "end" => work[p].project \in Projects
  PROVE  Over(work[p]) \in [Projects -> Bodies \cup {None}]
  BY StateTypes DEF Over

\* An entry that was not rolled back: the file could not be written, or the
\* entry is not there.
Unrestored(p) == pc[p] = "rollback" /\ NotRestored(p, work[p])

LEMMA FailsUnrestored ==
  ASSUME NEW p, RollbackFails(p) \/ EntryGone(p)
  PROVE  Unrestored(p)
  BY DEF RollbackFails, EntryGone, Unrestored

LEMMA UndoTypes ==
  ASSUME Types, Places, NEW p \in Procs,
         \/ CaptureBefore(p) \/ RecordUndo(p) \/ Rollback(p) \/ Mark(p)
         \/ SkipUndone(p) \/ Unrestored(p) \/ MarkFails(p)
  PROVE  Types' /\ Places' /\ Steps(p)
<1> USE DEF disk, history
<1>a. /\ file \in [Projects -> Bodies] /\ ledger \subseteq Entry /\ pointers \in Map
      /\ sentinel \in [Projects -> Runs \cup {None}] /\ parked \in [Runs -> Bodies \cup {None}]
      /\ records \in Nat /\ commands \in 0..MaxCommands
      /\ pre \in [Projects -> Bodies \cup {None}] /\ over \in [Runs -> Bodies \cup {None}]
      /\ work[p] \in WorkOf(work[p].ids) /\ Place(p)
  BY StateTypes DEF Places
<1> DEFINE w == work[p]
           j == w.project
<1>1. CASE CaptureBefore(p)
  <2>1. pc[p] = "before" /\ j \in Projects /\ file[j] \in Bodies /\ w.kind = "undo"
    BY <1>1, <1>a DEF CaptureBefore, Place
  <2> DEFINE v == [w EXCEPT !.before = file[j]]
  <2>2. v \in WorkOf(w.ids) /\ v.before = file[j] /\ v.kind = w.kind /\ v.project = j /\ v.run = w.run
    BY <2>1, <1>a DEF WorkOf
  <2>3. Go(p, "redo", v)
    BY <1>1 DEF CaptureBefore
  <2> HIDE DEF v
  <2>4. pc'[p] = "redo" /\ work'[p] = v /\ UNCHANGED commands => Place(p)'
    BY <2>1, <2>2, <1>a DEF Place, LockedAt
  <2>5. Places' /\ Steps(p) /\ Moved(p, "redo", v) /\ UNCHANGED commands
    BY <2>1, <2>2, <2>3, <2>4, GoSteps DEF Locations
  <2>6. QED
    BY <1>1, <2>5, <1>a, Accept DEF CaptureBefore
<1>2. CASE RecordUndo(p) /\ ~Leave(p)
  <2>1. pc[p] = "redo" /\ j \in Projects /\ w.kind = "undo" /\ w.before \in Bodies
    BY <1>2, <1>a DEF RecordUndo, Place
  <2> DEFINE v == [w EXCEPT !.entry = records', !.seen = w.before]
  <2>2. records' \in Nat /\ ledger' \subseteq Entry
    BY <1>2, <2>1, RecordTypes DEF RecordUndo
  <2>3. ASSUME NEW n \in Nat PROVE [w EXCEPT !.entry = n, !.seen = w.before] \in WorkOf(w.ids)
    BY <2>1, <1>a DEF WorkOf
  <2>4. v \in WorkOf(w.ids)
    BY <2>2, <2>3
  <2>5. v.kind = w.kind /\ v.project = j /\ v.run = w.run
    BY <1>a DEF WorkOf
  <2>6. Go(p, "rollback", v)
    BY <1>2 DEF RecordUndo
  <2> HIDE DEF v
  <2>7. pc'[p] = "rollback" /\ work'[p] = v /\ UNCHANGED commands => Place(p)'
    BY <2>1, <2>5, <1>a DEF Place, LockedAt
  <2>8. Places' /\ Steps(p) /\ Moved(p, "rollback", v) /\ UNCHANGED commands
    BY <2>1, <2>4, <2>5, <2>6, <2>7, GoSteps DEF Locations
  <2>9. QED
    BY <1>2, <2>2, <2>8, <1>a, Accept DEF RecordUndo
<1>b. CASE RecordUndo(p) /\ Leave(p)
  <2>1. pc[p] = "redo" /\ j \in Projects /\ w.before \in Bodies
    BY <1>b, <1>a DEF RecordUndo, Place
  <2>2. records' \in Nat /\ ledger' \subseteq Entry
    BY <1>b, <1>a, <2>1, RecordTypes DEF RecordUndo
  <2>3. QED
    BY <1>b, <2>1, <2>2, <1>a, LeaveSteps, Accept DEF RecordUndo
<1>3. CASE Rollback(p)
  <2>1. pc[p] = "rollback" /\ j \in Projects /\ w.kind \in {"end", "undo", "restore"}
        /\ (w.kind = "end" => w.map \in Map /\ w.map[j] # None /\ w.ids = <<w.map[j].entry>>)
    BY <1>3, <1>a DEF Rollback, Place
  <2>2. PICK e \in Named(Head(w.ids)) :
          file' = [file EXCEPT ![e.project] = e.before] /\ Go(p, "mark", [w EXCEPT !.undoing = e, !.seen = e.before])
    BY <1>3 DEF Rollback
  <2>a. \A x : Head(<<x>>) = x
    OBVIOUS
  <2>3. e \in Entry /\ e.id = Head(w.ids) /\ e.project \in Projects /\ e.before \in Bodies
    BY <1>a DEF Named, Entry
  <2>4. file' \in [Projects -> Bodies]
    BY <2>2, <2>3, <1>a
  <2>b. pre' \in [Projects -> Bodies \cup {None}]
    BY <1>3, <2>1, OverTypes DEF Rollback
  <2>c. w.kind = "end" => e.id = w.map[j].entry
    BY <2>1, <2>3, <2>a
  <2>5. ASSUME NEW f \in Entry, w.kind = "end" => f.id = w.map[j].entry,
               Go(p, "mark", [w EXCEPT !.undoing = f, !.seen = f.before])
        PROVE  Places' /\ Steps(p) /\ UNCHANGED commands
               /\ Moved(p, "mark", [w EXCEPT !.undoing = f, !.seen = f.before])
    <3> DEFINE v == [w EXCEPT !.undoing = f, !.seen = f.before]
    <3>1. v \in WorkOf(w.ids) /\ v.kind = w.kind /\ v.project = j /\ v.run = w.run /\ v.undoing = f /\ v.map = w.map
      BY <1>a DEF WorkOf, Entry
    <3>2. Go(p, "mark", v)
      BY <2>5
    <3> HIDE DEF v
    <3>3. pc'[p] = "mark" /\ work'[p] = v /\ UNCHANGED commands => Place(p)'
      BY <2>1, <2>5, <3>1, <1>a DEF Place, LockedAt
    <3>4. pc[p] # "idle" /\ "mark" \in Locations \ {"idle"}
      BY <2>1 DEF Locations
    <3>5. Places' /\ Steps(p) /\ Moved(p, "mark", v) /\ UNCHANGED commands
      BY <3>1, <3>2, <3>3, <3>4, GoSteps
    <3>6. QED
      BY <3>5 DEF v
  <2>6. Places' /\ Steps(p) /\ UNCHANGED commands /\ Moved(p, "mark", [w EXCEPT !.undoing = e, !.seen = e.before])
    BY <2>2, <2>3, <2>5, <2>c
  <2>10. QED
    BY <1>3, <2>4, <2>b, <2>6, <1>a, Accept DEF Rollback
<1>4. CASE Mark(p)
  <2>1. pc[p] = "mark" /\ w.undoing \in Entry
    BY <1>4, <1>a DEF Mark, Place
  <2>2. [w.undoing EXCEPT !.undone = TRUE] \in Entry
    BY <2>1 DEF Entry
  <2>3. ledger' \subseteq Entry
    BY <1>4, <2>2, <1>a DEF Mark, MarkUndone
  <2>4. QED
    BY <1>4, <2>1, <2>3, <1>a, OnwardSteps, Accept DEF Mark
<1>5. pc[p] = "rollback" => Over(w) \in [Projects -> Bodies \cup {None}]
  BY <1>a, OverTypes DEF Place
<1>6. CASE SkipUndone(p)
  <2>1. CASE w.kind = "restore"
    BY <1>6, <2>1, <1>5, <1>a, LeaveSteps, Accept DEF SkipUndone
  <2>2. CASE w.kind # "restore"
    BY <1>6, <2>2, <1>5, <1>a, OnwardSteps, Accept DEF SkipUndone
  <2>3. QED
    BY <2>1, <2>2
<1>7. CASE Unrestored(p)
  <2>1. CASE w.kind = "end"
    BY <1>7, <2>1, <1>a, OnwardSteps, Accept DEF Unrestored, NotRestored
  <2>2. CASE w.kind # "end"
    BY <1>7, <2>2, <1>a, LeaveSteps, Accept DEF Unrestored, NotRestored, GiveUp
  <2>3. QED
    BY <2>1, <2>2
<1>8. CASE MarkFails(p)
  <2>1. pc[p] = "mark" /\ ledger' \subseteq Entry /\ UNCHANGED <<file, pointers, sentinel, parked, records, pre, over>>
    BY <1>8, <1>a DEF MarkFails
  <2>2. CASE w.kind = "end"
    BY <1>8, <2>1, <2>2, <1>a, OnwardSteps, Accept DEF MarkFails
  <2>3. CASE w.kind # "end"
    BY <1>8, <2>1, <2>3, <1>a, LeaveSteps, Accept DEF MarkFails, GiveUp
  <2>4. QED
    BY <2>2, <2>3
<1>9. QED
  BY <1>1, <1>2, <1>b, <1>3, <1>4, <1>6, <1>7, <1>8

LEMMA LockedTypes ==
  ASSUME Types, Places, NEW p \in Procs,
         Park(p) \/ Scope(p) \/ Compare(p) \/ PutBack(p) \/ Unpark(p) \/ Release(p)
  PROVE  Types' /\ Places' /\ Steps(p)
<1> USE DEF disk, history
<1>a. /\ file \in [Projects -> Bodies] /\ ledger \subseteq Entry /\ pointers \in Map
      /\ sentinel \in [Projects -> Runs \cup {None}] /\ parked \in [Runs -> Bodies \cup {None}]
      /\ records \in Nat /\ commands \in 0..MaxCommands
      /\ pre \in [Projects -> Bodies \cup {None}] /\ over \in [Runs -> Bodies \cup {None}]
      /\ work[p] \in WorkOf(work[p].ids) /\ Place(p)
  BY StateTypes DEF Places
<1> DEFINE w == work[p]
           j == w.project
<1>b. pc[p] \in LockedAt /\ w.kind = "locked" /\ j \in Projects /\ w.run \in Runs
  BY <1>a, FilesAssumption DEF Place, LockedAt, Park, Scope, Compare, PutBack, Unpark, Release, Runs
<1>c. pc[p] # "idle"
  BY <1>b DEF LockedAt
<1>1. CASE Park(p)
  <2>1. UNCHANGED <<file, ledger, pointers, records, pre, over>>
    BY <1>1 DEF Park
  <2>2. sentinel' \in [Projects -> Runs \cup {None}] /\ parked' \in [Runs -> Bodies \cup {None}]
    BY <1>1, <1>a, <1>b DEF Park
  <2>3. CASE Leave(p)
    BY <2>1, <2>2, <2>3, <1>a, <1>c, LeaveSteps, Accept
  <2>4. CASE Go(p, "scope", [w EXCEPT !.before = file[j]])
    <3> DEFINE v == [w EXCEPT !.before = file[j]]
    <3>1. v \in WorkOf(w.ids) /\ v.before \in Bodies /\ v.kind = w.kind /\ v.project = j /\ v.run = w.run
      BY <1>a, <1>b DEF WorkOf
    <3>2. Go(p, "scope", v)
      BY <2>4
    <3> HIDE DEF v
    <3>3. pc'[p] = "scope" /\ work'[p] = v /\ UNCHANGED commands => Place(p)'
      BY <3>1, <1>a, <1>b, <1>c DEF Place, LockedAt
    <3>4. Places' /\ Steps(p) /\ Moved(p, "scope", v) /\ UNCHANGED commands
      BY <1>c, <3>1, <3>2, <3>3, GoSteps DEF Locations
    <3>5. QED
      BY <3>4, <2>1, <2>2, <1>a, Accept
  <2>5. QED
    BY <1>1, <2>3, <2>4 DEF Park
<1>d. ASSUME NEW at \in {"running", "putback", "unpark", "release"}, Go(p, at, w),
             at \in {"running", "putback"} => w.before \in Bodies
      PROVE  Places' /\ Steps(p) /\ Moved(p, at, w) /\ UNCHANGED commands
  <2>1. pc'[p] = at /\ work'[p] = w /\ UNCHANGED commands => Place(p)'
    BY <1>d, <1>a, <1>b, <1>c DEF Place, LockedAt
  <2>2. QED
    BY <2>1, <1>a, <1>c, <1>d, GoSteps DEF Locations
<1>2. CASE Scope(p)
  <2>1. w.before \in Bodies
    BY <1>2, <1>a DEF Scope, Place
  <2>2. /\ file' \in [Projects -> Bodies] /\ sentinel' \in [Projects -> Runs \cup {None}]
        /\ over' \in [Runs -> Bodies \cup {None}]
    BY <1>2, <2>1, <1>a, <1>b DEF Scope, Bodies
  <2>3. UNCHANGED <<ledger, pointers, parked, records, pre>>
    BY <1>2 DEF Scope
  <2>4. CASE Leave(p)
    BY <2>2, <2>3, <2>4, <1>a, <1>c, LeaveSteps, Accept
  <2>5. CASE Go(p, "running", w)
    BY <2>1, <2>2, <2>3, <2>5, <1>a, <1>d, Accept
  <2>6. QED
    BY <1>2, <2>4, <2>5 DEF Scope
<1>3. CASE Compare(p)
  <2>1. w.before \in Bodies
    BY <1>3, <1>a DEF Compare, Place
  <2>2. CASE Go(p, "putback", w)
    BY <1>3, <2>1, <2>2, <1>a, <1>d, Accept DEF Compare
  <2>3. CASE Go(p, "release", w)
    BY <1>3, <2>3, <1>a, <1>d, Accept DEF Compare
  <2>4. QED
    BY <1>3, <2>2, <2>3 DEF Compare
<1>4. CASE PutBack(p)
  <2>1. w.before \in Bodies
    BY <1>4, <1>a DEF PutBack, Place
  <2>2. file' \in [Projects -> Bodies]
    BY <1>4, <2>1, <1>a DEF PutBack
  <2>3. CASE Leave(p)
    BY <1>4, <2>2, <2>3, <1>a, <1>c, LeaveSteps, Accept DEF PutBack
  <2>4. CASE Go(p, "unpark", w)
    BY <1>4, <2>2, <2>4, <1>a, <1>d, Accept DEF PutBack
  <2>5. QED
    BY <1>4, <2>3, <2>4 DEF PutBack
<1>5. CASE Unpark(p)
  <2>1. parked' \in [Runs -> Bodies \cup {None}]
    BY <1>5, <1>a DEF Unpark
  <2>2. QED
    BY <1>5, <2>1, <1>a, <1>d, Accept DEF Unpark
<1>6. CASE Release(p)
  <2>1. sentinel' \in [Projects -> Runs \cup {None}]
    BY <1>6, <1>a DEF Release
  <2>2. QED
    BY <1>6, <2>1, <1>a, <1>c, LeaveSteps, Accept DEF Release
<1>7. QED
  BY <1>1, <1>2, <1>3, <1>4, <1>5, <1>6

LEMMA DieTypes ==
  ASSUME Types, Places, NEW p \in Procs, Die(p) \/ Abort(p)
  PROVE  Types' /\ Places' /\ Steps(p)
  BY LeaveSteps, StateTypes, Accept DEF Die, Abort, GiveUp, disk

LEMMA CommandTypes ==
  ASSUME Types, Places, NEW p \in Procs, Command(p)
  PROVE  Types' /\ Places' /\ Steps(p)
<1>1. CASE \E j \in Projects :
             \/ \E body \in Texts : BeginApply(p, j, body) \/ BeginSession(p, j, body)
             \/ BeginEnd(p, j) \/ BeginLoad(p, j) \/ BeginLocked(p, j)
             \/ \E e \in ledger : BeginUndo(p, j, e) \/ BeginRestore(p, j, e)
  BY <1>1, BeginTypes
<1>2. QED
  BY <1>1, ApplyTypes, SessionTypes, UndoTypes, FailsUnrestored, LockedTypes, DieTypes DEF Command

\* A sentinel removed or a file edited by hand.
LEMMA HandTypes ==
  ASSUME Types, Places,
         \/ \E j \in Projects : RemoveSentinel(j)
         \/ \E j \in Projects, body \in Texts \cup {Missing} : Edit(j, body)
  PROVE  Types' /\ Places' /\ UNCHANGED <<pc, work, records>> /\ commands' \in Nat /\ commands <= commands'
<1>1. /\ UNCHANGED <<pc, work, ledger, pointers, parked, records, pre, over>>
      /\ commands' \in 0..MaxCommands /\ commands' \in Nat /\ commands <= commands'
      /\ file' \in [Projects -> Bodies] /\ sentinel' \in [Projects -> Runs \cup {None}]
  BY StateTypes, FilesAssumption DEF RemoveSentinel, Edit, Bodies, disk, history
<1>2. Types'
  BY <1>1 DEF Types, Held
<1>3. ASSUME NEW p \in Procs PROVE Place(p)'
  <2>1. Place(p) /\ work[p].run \in Nat
    BY StateTypes, FilesAssumption DEF Places, WorkOf
  <2>2. QED
    BY <1>1, <2>1, StateTypes, FilesAssumption DEF Place
<1>4. QED
  BY <1>1, <1>2, <1>3 DEF Places

-----------------------------------------------------------------------------
(* What a command knows after a step                                       *)

LEMMA BeginFacts ==
  ASSUME Types, NEW p \in Procs, NEW j \in Projects
  PROVE  /\ \A body \in Texts : BeginApply(p, j, body) =>
              pc'[p] = "capture" /\ work'[p].kind = "apply" /\ work'[p].project = j
         /\ \A body \in Texts : BeginSession(p, j, body) =>
              pc'[p] = "snapshot" /\ work'[p].kind = "session" /\ work'[p].project = j
         /\ BeginEnd(p, j) =>
              /\ pc'[p] = "rollback" /\ work'[p].kind = "end" /\ work'[p].project = j
              /\ work'[p].map = pointers
         /\ BeginLoad(p, j) =>
              /\ pc'[p] = "save" /\ work'[p].kind = "load" /\ work'[p].project = j
              /\ work'[p].map = pointers
         /\ BeginLocked(p, j) => pc'[p] = "park" /\ work'[p].kind = "locked" /\ work'[p].project = j
         /\ \A e \in ledger : BeginUndo(p, j, e) =>
              pc'[p] = "before" /\ work'[p].kind = "undo" /\ work'[p].project = j
         /\ \A e \in ledger : BeginRestore(p, j, e) =>
              pc'[p] = "rollback" /\ work'[p].kind = "restore" /\ work'[p].project = j
<1>1. ASSUME NEW kind, NEW at, NEW w, NEW ids, w \in WorkOf(ids), Start(p, kind, j, at, w)
      PROVE  /\ pc'[p] = at /\ work'[p].kind = kind /\ work'[p].project = j /\ work'[p].map = w.map
  BY <1>1, StateTypes DEF Start, WorkOf
<1>2. ASSUME NEW body \in Texts PROVE [Blank EXCEPT !.body = body] \in WorkOf(<<>>)
  BY BlankTypes, FilesAssumption DEF WorkOf
<1>3. ASSUME NEW ids
      PROVE  /\ [Blank EXCEPT !.map = pointers, !.ids = ids] \in WorkOf(ids)
             /\ [Blank EXCEPT !.map = pointers, !.ids = ids].map = pointers
             /\ [Blank EXCEPT !.map = pointers] \in WorkOf(<<>>)
             /\ [Blank EXCEPT !.map = pointers].map = pointers
             /\ [Blank EXCEPT !.ids = ids] \in WorkOf(ids)
  BY BlankTypes, StateTypes DEF WorkOf
<1>4. ASSUME NEW ids, NEW e \in ledger PROVE [Blank EXCEPT !.ids = ids, !.target = e.before] \in WorkOf(ids)
  BY BlankTypes, StateTypes DEF WorkOf, Entry
<1>5. ASSUME NEW body \in Texts, BeginApply(p, j, body)
      PROVE  pc'[p] = "capture" /\ work'[p].kind = "apply" /\ work'[p].project = j
  BY <1>1, <1>2, <1>5 DEF BeginApply
<1>6. ASSUME NEW body \in Texts, BeginSession(p, j, body)
      PROVE  pc'[p] = "snapshot" /\ work'[p].kind = "session" /\ work'[p].project = j
  BY <1>1, <1>2, <1>6 DEF BeginSession
<1>7. ASSUME BeginEnd(p, j)
      PROVE  pc'[p] = "rollback" /\ work'[p].kind = "end" /\ work'[p].project = j /\ work'[p].map = pointers
  <2> DEFINE ids == <<pointers[j].entry>>
             w == [Blank EXCEPT !.map = pointers, !.ids = ids]
  <2>1. w \in WorkOf(ids) /\ w.map = pointers
    BY <1>3
  <2>2. Start(p, "end", j, "rollback", w)
    BY <1>7 DEF BeginEnd
  <2> HIDE DEF w, ids
  <2>3. QED
    BY <1>1, <2>1, <2>2
<1>8. ASSUME BeginLoad(p, j)
      PROVE  pc'[p] = "save" /\ work'[p].kind = "load" /\ work'[p].project = j /\ work'[p].map = pointers
  BY <1>1, <1>3, <1>8 DEF BeginLoad
<1>9. ASSUME BeginLocked(p, j)
      PROVE  pc'[p] = "park" /\ work'[p].kind = "locked" /\ work'[p].project = j
  BY <1>1, <1>9, BlankTypes DEF BeginLocked
<1>10. ASSUME NEW e \in ledger, BeginUndo(p, j, e)
       PROVE  pc'[p] = "before" /\ work'[p].kind = "undo" /\ work'[p].project = j
  BY <1>1, <1>4, <1>10 DEF BeginUndo
<1>11. ASSUME NEW e \in ledger, BeginRestore(p, j, e)
       PROVE  pc'[p] = "rollback" /\ work'[p].kind = "restore" /\ work'[p].project = j
  BY <1>1, <1>3, <1>11 DEF BeginRestore
<1>12. QED
  BY <1>5, <1>6, <1>7, <1>8, <1>9, <1>10, <1>11

LEMMA GoFacts ==
  ASSUME Types, NEW p \in Procs, NEW at, NEW w, Go(p, at, w)
  PROVE  pc'[p] = at /\ work'[p] = w
  BY StateTypes DEF Go

\* A command that is nowhere is nothing.
LEMMA LeaveFacts ==
  ASSUME Types, NEW p \in Procs, Leave(p)
  PROVE  pc'[p] = "idle" /\ work'[p] = Blank
  BY GoFacts DEF Leave

-----------------------------------------------------------------------------
(* Locked runs                                                             *)

\* Every command has its own number.
RunsDiffer == \A p, q \in Procs : pc[p] # "idle" /\ work[p].run = work[q].run => p = q

\* The guard stands as long as its run is alive.
Guarded == \A p \in Procs : work[p].kind = "locked" => sentinel[work[p].project] = work[p].run

LEMMA StepsKeepRuns ==
  ASSUME Types, Places, RunsDiffer, NEW p \in Procs, Steps(p)
  PROVE  RunsDiffer'
<1>1. \A q \in Procs : work[q].run \in 0..commands /\ (pc[q] # "idle" => work[q].run > 0)
  BY StateTypes, BlankTypes, FilesAssumption DEF Places, Place
<1>2. commands \in Nat
  BY StateTypes, FilesAssumption
<1>3. CASE Began(p)
  BY <1>1, <1>2, <1>3 DEF Began, Steps, Others, RunsDiffer
<1>4. CASE Went(p)
  BY <1>4 DEF Went, Steps, Others, RunsDiffer
<1>5. CASE Left(p)
  BY <1>1, <1>2, <1>5, BlankTypes DEF Left, Steps, Others, RunsDiffer
<1>6. QED
  BY <1>3, <1>4, <1>5 DEF Steps

LEMMA StepsKeepGuard ==
  ASSUME Types, Guarded, NEW p \in Procs, Steps(p), UNCHANGED sentinel,
         Began(p) => work'[p].kind # "locked"
  PROVE  Guarded'
<1>1. CASE Left(p)
  BY <1>1, BlankTypes DEF Left, Steps, Others, Guarded
<1>2. CASE Went(p)
  BY <1>2 DEF Went, Steps, Others, Guarded
<1>3. QED
  BY <1>1, <1>2 DEF Steps, Others, Guarded

\* A guard that goes is not that of a run that is alive.
LEMMA ReleaseKeepsGuard ==
  ASSUME Types, Places, RunsDiffer, Guarded, NEW p \in Procs, Steps(p), Left(p),
         work[p].kind = "locked", work[p].project \in Projects,
         sentinel' = [sentinel EXCEPT ![work[p].project] = None]
  PROVE  Guarded'
<1>1. ASSUME NEW q \in Procs, work'[q].kind = "locked"
      PROVE  sentinel'[work'[q].project] = work'[q].run
  <2>1. q # p
    BY <1>1, BlankTypes DEF Left
  <2>2. work'[q] = work[q] /\ sentinel[work[q].project] = work[q].run
    BY <1>1, <2>1 DEF Steps, Others, Guarded
  <2>3. pc[p] # "idle" /\ sentinel[work[p].project] = work[p].run
    BY DEF Left, Guarded
  <2>4. work[q].project # work[p].project
    BY <2>1, <2>2, <2>3 DEF RunsDiffer
  <2>5. QED
    BY <2>2, <2>4, StateTypes
<1>2. QED
  BY <1>1 DEF Guarded

LEMMA GuardInv ==
  ASSUME Types, Places, RunsDiffer, Guarded, Next
  PROVE  RunsDiffer' /\ Guarded'
<1>1. ASSUME NEW p \in Procs, Command(p) PROVE RunsDiffer' /\ Guarded'
  <2>1. Types' /\ Places' /\ Steps(p)
    BY <1>1, CommandTypes
  <2>2. RunsDiffer'
    BY <2>1, StepsKeepRuns
  <2>a. pc[p] \in LockedAt => work[p].kind = "locked" /\ work[p].project \in Projects /\ pc[p] # "idle"
    BY DEF Places, Place, LockedAt
  <2>4. ASSUME NEW j \in Projects,
               \/ \E body \in Texts : BeginApply(p, j, body) \/ BeginSession(p, j, body)
               \/ BeginEnd(p, j) \/ BeginLoad(p, j)
               \/ \E e \in ledger : BeginUndo(p, j, e) \/ BeginRestore(p, j, e)
        PROVE  Guarded'
    <3>1. work'[p].kind # "locked"
      BY <2>4, BeginFacts
    <3>2. UNCHANGED sentinel
      BY <2>4 DEF BeginApply, BeginSession, BeginEnd, BeginLoad, BeginUndo, BeginRestore, disk
    <3>3. QED
      BY <2>1, <3>1, <3>2, StepsKeepGuard
  <2>5. ASSUME NEW j \in Projects, BeginLocked(p, j) PROVE Guarded'
    <3>1. work'[p].kind = "locked" /\ work'[p].project = j
      BY <2>5, BeginFacts
    <3>2. sentinel[j] = None /\ sentinel' = [sentinel EXCEPT ![j] = commands'] /\ pc[p] = "idle"
      BY <2>5 DEF BeginLocked, Start
    <3>3. work'[p].run = commands' /\ sentinel'[j] = commands'
      BY <2>1, <3>2, StateTypes DEF Steps, Began, Went, Left
    <3>4. ASSUME NEW q \in Procs \ {p}, work'[q].kind = "locked"
          PROVE  sentinel'[work'[q].project] = work'[q].run
      <4>1. work'[q] = work[q] /\ sentinel[work[q].project] = work[q].run
        BY <2>1, <3>4 DEF Steps, Others, Guarded
      <4>2. work[q].run \in Nat
        BY StateTypes, FilesAssumption DEF WorkOf
      <4>3. work[q].project # j
        BY <3>2, <4>1, <4>2, FilesAssumption
      <4>4. QED
        BY <3>2, <4>1, <4>3, StateTypes
    <3>5. QED
      BY <3>1, <3>3, <3>4 DEF Guarded
  <2>6. ASSUME pc[p] # "idle", UNCHANGED sentinel PROVE Guarded'
    BY <2>1, <2>6, StepsKeepGuard DEF Began
  <2>7. ASSUME pc[p] \in LockedAt, Leave(p), sentinel' = [sentinel EXCEPT ![work[p].project] = None]
        PROVE  Guarded'
    <3>1. Left(p)
      BY <2>1, <2>7, <2>a, LeaveFacts DEF Steps, Began, Went
    <3>2. QED
      BY <2>1, <2>7, <2>a, <3>1, ReleaseKeepsGuard
  <2>8. CASE Park(p)
    BY <2>2, <2>6, <2>7, <2>8 DEF Park, LockedAt
  <2>9. CASE Scope(p)
    BY <2>2, <2>6, <2>7, <2>9 DEF Scope, LockedAt
  <2>10. CASE Release(p)
    BY <2>2, <2>6, <2>7, <2>10 DEF Release, LockedAt
  <2>11. CASE \/ Capture(p) \/ Write(p) \/ RecordWrite(p)
              \/ Snapshot(p) \/ RecordSession(p) \/ LoadMap(p) \/ SaveMap(p)
              \/ CaptureBefore(p) \/ RecordUndo(p) \/ Rollback(p) \/ Mark(p)
              \/ SkipUndone(p) \/ Unrestored(p) \/ MarkFails(p)
              \/ Compare(p) \/ PutBack(p) \/ Unpark(p) \/ Die(p) \/ Abort(p)
    <3>1. pc[p] # "idle" /\ UNCHANGED sentinel
      BY <2>11 DEF disk, Capture, Write, RecordWrite, Snapshot, RecordSession, LoadMap, SaveMap, CaptureBefore,
                   RecordUndo, Rollback, Mark, SkipUndone, Unrestored, NotRestored, MarkFails, Compare, PutBack,
                   Unpark, Die, Abort
    <3>2. QED
      BY <2>2, <2>6, <3>1
  <2>12. QED
    BY <1>1, <2>2, <2>4, <2>5, <2>8, <2>9, <2>10, <2>11, FailsUnrestored DEF Command
<1>2. ASSUME NEW j \in Projects, RemoveSentinel(j) PROVE RunsDiffer' /\ Guarded'
  <2>1. /\ UNCHANGED <<pc, work>> /\ sentinel' = [sentinel EXCEPT ![j] = None]
        /\ \A q \in Procs : work[q].run # sentinel[j]
    BY <1>2 DEF RemoveSentinel
  <2>2. QED
    BY <2>1, StateTypes DEF RunsDiffer, Guarded
<1>3. ASSUME NEW j \in Projects, NEW body \in Texts \cup {Missing}, Edit(j, body) PROVE RunsDiffer' /\ Guarded'
  BY <1>3 DEF Edit, RunsDiffer, Guarded
<1>4. QED
  BY <1>1, <1>2, <1>3 DEF Next

\* No command holds a gateway body as an original, and a copy is as good.
Taken(p) ==
    LET w == work[p] IN
    /\ pc[p] \in {"write", "record", "redo", "scope", "running", "putback"} => w.before \notin Runs
    /\ w.kind = "session" /\ pc[p] \in {"capture", "write", "record", "own"} => w.seen \notin Runs
    /\ pc[p] = "mark" => w.undoing.before \notin Runs
    /\ pc[p] = "scope" => w.before = Missing \/ parked[w.run] = w.before

\* The body of a run that is alive is where the run put it, while it is there.
Bodied(p) ==
    work[p].kind = "locked" => \A j \in Projects :
        file[j] = work[p].run => j = work[p].project /\ pc[p] \in {"running", "putback", "release"}

\* Nobody has taken a gateway body for an original: the ledger has none, and
\* every body on disk is that of a run whose copy is there.
Untaken ==
    /\ \A e \in ledger : e.before \notin Runs
    /\ \A p \in Procs : Taken(p) /\ Bodied(p)
    /\ \A j \in Projects : file[j] \in Runs =>
         file[j] <= commands /\ over[file[j]] \in {Missing, parked[file[j]]}

Window == slip \cap {"captured", "swapped"} # {}

Originals == ~Window => Untaken

\* Nobody's gateway body comes to a file.
Calm == \A j \in Projects : file'[j] \in Runs => file'[j] = file[j]

LEMMA NoBody == \A b \in Texts \cup {Missing, None} : b \notin Runs
  BY FilesAssumption DEF Runs

LEMMA CalmKeeps ==
  ASSUME Types, Places, RunsDiffer, Untaken, NEW p \in Procs, Steps(p), Calm, UNCHANGED <<parked, over>>,
         \A e \in ledger' : e \in ledger \/ e.before \notin Runs, Taken(p)', Bodied(p)',
         commands' \in Nat
  PROVE  Untaken'
<1>1. ASSUME NEW q \in Procs \ {p} PROVE Taken(q)' /\ Bodied(q)'
  <2>1. pc'[q] = pc[q] /\ work'[q] = work[q] /\ Taken(q) /\ Bodied(q)
    BY DEF Steps, Others, Untaken
  <2>2. work[q].kind = "locked" => work[q].run \in Runs
    <3>1. commands \in 0..MaxCommands
      BY StateTypes
    <3>2. work[q].kind = "locked" => work[q].run \in 1..commands
      BY DEF Places, Place, LockedAt
    <3>3. QED
      BY <3>1, <3>2, FilesAssumption DEF Runs
  <2>3. Taken(q)'
    BY <2>1 DEF Taken
  <2>4. QED
    BY <2>1, <2>2, <2>3 DEF Bodied, Calm
<1>2. commands \in Nat /\ commands <= commands'
  BY StateTypes, FilesAssumption DEF Steps, Began, Went, Left
<1>3. ASSUME NEW j \in Projects, file'[j] \in Runs
      PROVE  file'[j] <= commands' /\ over'[file'[j]] \in {Missing, parked'[file'[j]]}
  <2>1. file'[j] = file[j]
    BY <1>3 DEF Calm
  <2>2. file[j] <= commands /\ over[file[j]] \in {Missing, parked[file[j]]} /\ file[j] \in Nat
    BY <1>3, <2>1 DEF Untaken, Runs
  <2>3. QED
    BY <1>2, <2>1, <2>2
<1>4. QED
  BY <1>1, <1>3 DEF Untaken

LEMMA BeginKeepsOriginals ==
  ASSUME Types, Places, RunsDiffer, Untaken, NEW p \in Procs, NEW j \in Projects,
         \/ \E body \in Texts : BeginApply(p, j, body) \/ BeginSession(p, j, body)
         \/ BeginEnd(p, j) \/ BeginLoad(p, j) \/ BeginLocked(p, j)
         \/ \E e \in ledger : BeginUndo(p, j, e) \/ BeginRestore(p, j, e)
  PROVE  Untaken'
<1>1. Types' /\ Places' /\ Steps(p)
  BY BeginTypes
<1>2. /\ UNCHANGED <<file, ledger, parked, over>>
      /\ pc[p] = "idle"
  BY DEF disk, history, Start, BeginApply, BeginSession, BeginEnd, BeginLoad, BeginLocked, BeginUndo, BeginRestore
<1>3. /\ commands' = commands + 1 /\ work'[p].run = commands'
      /\ commands \in Nat /\ commands' \in Nat
  BY <1>1, <1>2, StateTypes, FilesAssumption DEF Steps, Began, Went, Left
<1>4. \/ pc'[p] = "capture" /\ work'[p].kind = "apply"
      \/ pc'[p] \in {"snapshot", "rollback", "before", "park"}
      \/ pc'[p] = "save"
  BY BeginFacts
<1>5. Taken(p)'
  BY <1>4 DEF Taken
<1>a. commands' \in Runs
  BY <1>1, <1>3, FilesAssumption DEF Types, Runs
<1>b. \A i \in Projects : file[i] # commands'
  BY <1>3, <1>a DEF Untaken
<1>6. Bodied(p)'
  BY <1>2, <1>3, <1>b DEF Bodied
<1>7. QED
  BY <1>1, <1>2, <1>3, <1>5, <1>6, CalmKeeps DEF Calm

\* A command that holds nothing now.
LEMMA LeaveTaken ==
  ASSUME pc' \in [Procs -> Locations], NEW p \in Procs, pc'[p] = "idle" /\ work'[p] = Blank
  PROVE  Taken(p)' /\ Bodied(p)'
  BY BlankTypes DEF Taken, Bodied

\* What is recorded is no gateway body.
LEMMA RecordKeepsOriginals ==
  ASSUME Types, NEW j \in Projects, NEW before \in Bodies \ Runs, Record(j, before)
  PROVE  \A e \in ledger' : e \in ledger \/ e.before \notin Runs
  BY RecordTypes

LEMMA ApplyKeepsOriginals ==
  ASSUME Types, Places, RunsDiffer, Untaken, NEW p \in Procs, ~Window',
         Capture(p) \/ Write(p) \/ RecordWrite(p)
  PROVE  Untaken'
<1> DEFINE w == work[p]
           j == w.project
<1>a. /\ Types' /\ Places' /\ Steps(p) /\ commands' \in Nat /\ pc' \in [Procs -> Locations]
      /\ file \in [Projects -> Bodies]
      /\ w \in WorkOf(w.ids) /\ Place(p) /\ Taken(p) /\ Bodied(p)
  BY ApplyTypes, StateTypes, FilesAssumption DEF Places, Types, Untaken
<1>b. UNCHANGED <<parked, over>> /\ j \in Projects /\ pc[p] \in {"capture", "write", "record"}
      /\ w.kind \in {"apply", "session"}
  BY <1>a DEF disk, history, Place, Capture, Write, RecordWrite
<1>c. Steps(p) /\ pc'[p] # "idle" => work'[p].kind = w.kind
  BY <1>b DEF Steps, Began, Went, Left
<1>d. Bodied(p)'
  BY <1>a, <1>b, <1>c DEF Bodied, Places, Place, Blank
<1>1. CASE Capture(p)
  <2>1. file[j] \notin Runs /\ UNCHANGED <<file, ledger>>
    BY <1>1 DEF Capture, Window, Slips, disk
  <2>2. \/ pc'[p] = "write" /\ work'[p] = [w EXCEPT !.before = file[j]]
        \/ pc'[p] = "own" /\ work'[p] = w
        \/ pc'[p] = "idle" /\ work'[p] = Blank
    BY <1>1, GoFacts, LeaveFacts DEF Capture
  <2>3. pc[p] = "capture" /\ file[j] \in Bodies
    BY <1>1, <1>a, <1>b DEF Capture
  <2>4. Taken(p)'
    BY <2>1, <2>2, <2>3, <1>a, BlankTypes DEF Taken, WorkOf
  <2>5. QED
    BY <2>1, <2>4, <1>a, <1>b, <1>d, CalmKeeps DEF Calm
<1>2. CASE Write(p)
  <2>1. pc[p] = "write" /\ pc'[p] = "record" /\ work'[p] = w /\ file' = [file EXCEPT ![j] = w.body] /\ UNCHANGED ledger
    BY <1>2, GoFacts DEF Write
  <2>2. w.body \notin Runs
    BY <2>1, <1>a, NoBody DEF Place
  <2>3. Calm
    BY <2>1, <2>2, <1>a DEF Calm
  <2>4. Taken(p)'
    BY <2>1, <1>a DEF Taken
  <2>5. QED
    BY <2>1, <2>3, <2>4, <1>a, <1>b, <1>d, CalmKeeps
<1>3. CASE RecordWrite(p)
  <2>1. pc[p] = "record" /\ w.before \in Bodies \ Runs
    BY <1>3, <1>a DEF RecordWrite, Place, Taken
  <2>2. \A e \in ledger' : e \in ledger \/ e.before \notin Runs
    BY <1>3, <1>b, <2>1, RecordKeepsOriginals DEF RecordWrite
  <2>3. \/ pc'[p] = "own" /\ work'[p] = w
        \/ pc'[p] = "idle" /\ work'[p] = Blank
    BY <1>3, GoFacts, LeaveFacts DEF RecordWrite
  <2>4. Taken(p)' /\ UNCHANGED file
    BY <1>3, <2>1, <2>3, <1>a, BlankTypes DEF Taken, RecordWrite
  <2>5. QED
    BY <2>2, <2>4, <1>a, <1>b, <1>d, CalmKeeps DEF Calm
<1>4. QED
  BY <1>1, <1>2, <1>3

LEMMA SessionKeepsOriginals ==
  ASSUME Types, Places, RunsDiffer, Untaken, NEW p \in Procs, ~Window',
         Snapshot(p) \/ RecordSession(p) \/ LoadMap(p) \/ SaveMap(p)
  PROVE  Untaken'
<1> DEFINE w == work[p]
           j == w.project
<1>a. /\ Types' /\ Places' /\ Steps(p) /\ commands' \in Nat /\ pc' \in [Procs -> Locations]
      /\ file \in [Projects -> Bodies]
      /\ w \in WorkOf(w.ids) /\ Place(p) /\ Taken(p) /\ Bodied(p)
  BY SessionTypes, StateTypes, FilesAssumption DEF Places, Types, Untaken
<1>b. UNCHANGED <<file, parked, over>> /\ j \in Projects /\ pc[p] \in {"snapshot", "own", "load", "save"}
      /\ w.kind \in {"session", "end", "load"}
  BY <1>a DEF disk, history, Place, Snapshot, RecordSession, LoadMap, SaveMap
<1>c. pc'[p] # "idle" => work'[p].kind = w.kind
  BY <1>a, <1>b DEF Steps, Began, Went, Left
<1>d. Bodied(p)'
  BY <1>a, <1>b, <1>c DEF Bodied, Places, Place, Blank
<1>1. CASE Snapshot(p)
  <2>1. file[j] \notin Runs /\ UNCHANGED ledger
    BY <1>1 DEF Snapshot, Window, Slips, disk
  <2>2. pc'[p] = "capture" /\ work'[p] = [w EXCEPT !.seen = file[j]]
    BY <1>1, GoFacts DEF Snapshot
  <2>4. Taken(p)'
    BY <2>1, <2>2, <1>a DEF Taken, WorkOf
  <2>5. QED
    BY <2>1, <2>4, <1>a, <1>b, <1>d, CalmKeeps DEF Calm
<1>2. CASE RecordSession(p)
  <2>1. pc[p] = "own" /\ w.seen \in Bodies \ Runs
    BY <1>2, <1>a DEF RecordSession, Place, Taken
  <2>2. \A e \in ledger' : e \in ledger \/ e.before \notin Runs
    BY <1>2, <1>b, <2>1, RecordKeepsOriginals DEF RecordSession
  <2>3. pc'[p] = "load"
    BY <1>2, GoFacts DEF RecordSession
  <2>4. Taken(p)'
    BY <2>3 DEF Taken
  <2>5. QED
    BY <2>2, <2>4, <1>a, <1>b, <1>d, CalmKeeps DEF Calm
<1>3. CASE LoadMap(p)
  <2>1. pc'[p] = "save" /\ UNCHANGED ledger
    BY <1>3, GoFacts DEF LoadMap, disk
  <2>2. Taken(p)'
    BY <2>1 DEF Taken
  <2>3. QED
    BY <2>1, <2>2, <1>a, <1>b, <1>d, CalmKeeps DEF Calm
<1>4. CASE SaveMap(p)
  <2>1. pc'[p] = "idle" /\ UNCHANGED ledger
    BY <1>4, LeaveFacts DEF SaveMap, GiveUp
  <2>2. Taken(p)'
    BY <2>1 DEF Taken
  <2>3. QED
    BY <2>1, <2>2, <1>a, <1>b, <1>d, CalmKeeps DEF Calm
<1>5. QED
  BY <1>1, <1>2, <1>3, <1>4

LEMMA OnwardFacts ==
  ASSUME Types, Places, NEW p \in Procs, pc[p] \in {"rollback", "mark"}, Onward(p, work[p])
  PROVE  pc'[p] \in {"save", "idle", "rollback"}
  BY OnwardSteps DEF Moved

LEMMA UndoKeepsOriginals ==
  ASSUME Types, Places, RunsDiffer, Untaken, NEW p \in Procs, ~Window',
         \/ CaptureBefore(p) \/ RecordUndo(p) \/ Rollback(p) \/ Mark(p)
         \/ SkipUndone(p) \/ Unrestored(p) \/ MarkFails(p)
  PROVE  Untaken'
<1> DEFINE w == work[p]
           j == w.project
<1>a. /\ Types' /\ Places' /\ Steps(p) /\ commands' \in Nat /\ pc' \in [Procs -> Locations]
      /\ file \in [Projects -> Bodies] /\ ledger \subseteq Entry
      /\ w \in WorkOf(w.ids) /\ Place(p) /\ Taken(p) /\ Bodied(p)
  BY UndoTypes, StateTypes, FilesAssumption DEF Places, Types, Untaken
<1>b. UNCHANGED <<parked, over>> /\ j \in Projects /\ pc[p] \in {"before", "redo", "rollback", "mark"}
      /\ w.kind \in {"end", "undo", "restore"}
  BY <1>a DEF disk, history, Place, CaptureBefore, RecordUndo, Rollback, Mark, SkipUndone, Unrestored, NotRestored,
              MarkFails
<1>c. pc'[p] # "idle" => work'[p].kind = w.kind
  BY <1>a, <1>b DEF Steps, Began, Went, Left
<1>d. Bodied(p)'
  BY <1>a, <1>b, <1>c DEF Bodied, Places, Place, Blank
<1>1. CASE CaptureBefore(p)
  <2>1. file[j] \notin Runs /\ UNCHANGED <<file, ledger>>
    BY <1>1 DEF CaptureBefore, Window, Slips, disk
  <2>2. pc'[p] = "redo" /\ work'[p] = [w EXCEPT !.before = file[j]]
    BY <1>1, GoFacts DEF CaptureBefore
  <2>4. Taken(p)'
    BY <2>1, <2>2, <1>a DEF Taken, WorkOf
  <2>5. QED
    BY <2>1, <2>4, <1>a, <1>b, <1>d, CalmKeeps DEF Calm
<1>2. CASE RecordUndo(p)
  <2>1. pc[p] = "redo" /\ w.before \in Bodies \ Runs /\ UNCHANGED file
    BY <1>2, <1>a DEF RecordUndo, Place, Taken
  <2>2. \A e \in ledger' : e \in ledger \/ e.before \notin Runs
    BY <1>2, <1>b, <2>1, RecordKeepsOriginals DEF RecordUndo
  <2>3. pc'[p] \in {"idle", "rollback"}
    BY <1>2, GoFacts, LeaveFacts DEF RecordUndo
  <2>4. Taken(p)'
    BY <1>a, <1>b, <1>c, <2>3, BlankTypes DEF Taken, Places, Place
  <2>5. QED
    BY <2>1, <2>2, <2>4, <1>a, <1>b, <1>d, CalmKeeps DEF Calm
<1>3. CASE Rollback(p)
  <2>1. PICK e \in Named(Head(w.ids)) :
          file' = [file EXCEPT ![e.project] = e.before] /\ Go(p, "mark", [w EXCEPT !.undoing = e, !.seen = e.before])
    BY <1>3 DEF Rollback
  <2>2. e \in Entry /\ e.before \notin Runs
    BY <1>a DEF Named, Untaken
  <2>3. Calm
    BY <2>1, <2>2, <1>a DEF Calm, Entry
  <2>a. pc'[p] = "mark" /\ work'[p] = [w EXCEPT !.undoing = e, !.seen = e.before]
    BY <2>1, GoFacts
  <2>4. pc'[p] = "mark" /\ work'[p].undoing = e /\ UNCHANGED ledger
    BY <1>3, <2>a, <1>a DEF Rollback, WorkOf
  <2>5. Taken(p)'
    BY <1>b, <1>c, <2>2, <2>4 DEF Taken
  <2>6. QED
    BY <2>3, <2>4, <2>5, <1>a, <1>b, <1>d, CalmKeeps
<1>4. ASSUME pc'[p] \in {"save", "idle", "rollback"} PROVE Taken(p)'
  BY <1>4 DEF Taken
<1>5. CASE Mark(p)
  <2>1. pc[p] = "mark" /\ w.undoing \in Entry /\ w.undoing.before \notin Runs /\ UNCHANGED file
    BY <1>5, <1>a DEF Mark, Place, Taken
  <2>2. \A e \in ledger' : e \in ledger \/ e.before \notin Runs
    BY <1>5, <2>1 DEF Mark, MarkUndone, Entry
  <2>3. Taken(p)'
    BY <1>5, <2>1, <1>4, OnwardFacts DEF Mark
  <2>4. QED
    BY <2>1, <2>2, <2>3, <1>a, <1>b, <1>d, CalmKeeps DEF Calm
<1>6. CASE SkipUndone(p) \/ Unrestored(p)
  <2>1. pc[p] = "rollback" /\ UNCHANGED <<file, ledger>>
    BY <1>6 DEF SkipUndone, Unrestored, NotRestored, disk
  <2>2. pc'[p] \in {"save", "idle", "rollback"}
    BY <1>6, <2>1, LeaveFacts, OnwardFacts DEF SkipUndone, Unrestored, NotRestored, GiveUp
  <2>3. QED
    BY <2>1, <2>2, <1>4, <1>a, <1>b, <1>d, CalmKeeps DEF Calm
<1>7. CASE MarkFails(p)
  <2>1. pc[p] = "mark" /\ UNCHANGED file /\ ledger' \subseteq ledger
    BY <1>7 DEF MarkFails
  <2>2. pc'[p] \in {"save", "idle", "rollback"}
    BY <1>7, <2>1, LeaveFacts, OnwardFacts DEF MarkFails, GiveUp
  <2>3. QED
    BY <2>1, <2>2, <1>4, <1>a, <1>b, <1>d, CalmKeeps DEF Calm
<1>8. QED
  BY <1>1, <1>2, <1>3, <1>5, <1>6, <1>7

\* A run touches what is its own: its copy, its body and what that replaced.
LEMMA RunKeeps ==
  ASSUME Types, Places, RunsDiffer, Untaken, NEW p \in Procs, Steps(p), pc[p] # "idle", UNCHANGED <<commands, ledger>>,
         \A r \in Runs \ {work[p].run} : parked'[r] = parked[r] /\ over'[r] = over[r],
         Taken(p)', Bodied(p)',
         \A j \in Projects : file'[j] \in Runs \ {work[p].run} => file'[j] = file[j],
         \A j \in Projects : file'[j] = work[p].run =>
            over'[work[p].run] \in {Missing, parked'[work[p].run]}
  PROVE  Untaken'
<1>0. work[p].run \in Runs /\ work[p].run <= commands
  BY StateTypes, FilesAssumption DEF Places, Place, Runs
<1>1. ASSUME NEW q \in Procs \ {p} PROVE Taken(q)' /\ Bodied(q)'
  <2>1. pc'[q] = pc[q] /\ work'[q] = work[q] /\ Taken(q) /\ Bodied(q)
    BY DEF Steps, Others, Untaken
  <2>2. pc[q] \in LockedAt => work[q].run \in Runs \ {work[p].run} /\ work[q].kind = "locked"
    BY StateTypes, FilesAssumption DEF Places, Place, LockedAt, Runs, RunsDiffer
  <2>3. Taken(q)'
    BY <2>1, <2>2 DEF Taken, LockedAt
  <2>4. work[q].kind = "locked" => pc[q] \in LockedAt
    BY DEF Places, Place
  <2>5. QED
    BY <2>1, <2>2, <2>3, <2>4 DEF Bodied
<1>2. ASSUME NEW j \in Projects, file'[j] \in Runs
      PROVE  file'[j] <= commands' /\ over'[file'[j]] \in {Missing, parked'[file'[j]]}
  <2>1. CASE file'[j] = work[p].run
    BY <1>0, <2>1
  <2>2. CASE file'[j] # work[p].run
    <3>1. file'[j] = file[j] /\ file[j] \in Runs \ {work[p].run}
      BY <1>2, <2>2
    <3>2. parked'[file[j]] = parked[file[j]] /\ over'[file[j]] = over[file[j]]
      BY <3>1
    <3>3. QED
      BY <3>1, <3>2 DEF Untaken
  <2>3. QED
    BY <2>1, <2>2
<1>3. QED
  BY <1>1, <1>2 DEF Untaken

LEMMA LockedKeepsOriginals ==
  ASSUME Types, Places, RunsDiffer, Untaken, NEW p \in Procs, ~Window',
         Park(p) \/ Scope(p) \/ Compare(p) \/ PutBack(p) \/ Unpark(p) \/ Release(p)
  PROVE  Untaken'
<1> DEFINE w == work[p]
           j == w.project
<1>a. /\ Types' /\ Places' /\ Steps(p) /\ pc' \in [Procs -> Locations]
      /\ file \in [Projects -> Bodies] /\ parked \in [Runs -> Bodies \cup {None}] /\ over \in [Runs -> Bodies \cup {None}]
      /\ w \in WorkOf(w.ids) /\ Place(p) /\ Taken(p) /\ Bodied(p)
  BY LockedTypes, StateTypes DEF Places, Types, Untaken
<1>b. pc[p] \in LockedAt /\ pc[p] # "idle" /\ w.kind = "locked" /\ j \in Projects /\ w.run \in Runs
  BY <1>a, StateTypes, FilesAssumption DEF Place, LockedAt, Park, Scope, Compare, PutBack, Unpark, Release, Runs
<1>c. UNCHANGED <<commands, ledger>>
  BY DEF disk, Go, Leave, Park, Scope, Compare, PutBack, Unpark, Release
<1>d. ASSUME NEW i \in Projects, file[i] = w.run
      PROVE  over[w.run] \in {Missing, parked[w.run]} /\ i = j /\ pc[p] \in {"running", "putback", "release"}
  BY <1>b, <1>d, <1>a DEF Untaken, Bodied
<1>e. ASSUME Leave(p) PROVE Taken(p)' /\ Bodied(p)'
  BY <1>e, <1>a, LeaveFacts, LeaveTaken
<1>1. CASE Park(p)
  <2>1. /\ UNCHANGED <<file, over>> /\ \A i \in Projects : file[i] # w.run
        /\ \A r \in Runs \ {w.run} : parked'[r] = parked[r]
    BY <1>1, <1>a, <1>b, <1>d DEF Park
  <2>2. CASE Leave(p)
    BY <2>1, <2>2, <1>a, <1>b, <1>c, <1>e, RunKeeps
  <2>3. CASE Go(p, "scope", [w EXCEPT !.before = file[j]])
             /\ parked' = IF file[j] = Missing THEN parked ELSE [parked EXCEPT ![w.run] = file[j]]
    <3>1. pc'[p] = "scope" /\ work'[p].before = file[j] /\ work'[p].run = w.run /\ work'[p].kind = "locked"
      BY <2>3, <1>a, <1>b, GoFacts DEF WorkOf
    <3>2. file[j] \notin Runs
      BY <1>1 DEF Park, Window, Slips
    <3>3. file[j] = Missing \/ parked'[w.run] = file[j]
      BY <2>3, <1>a, <1>b
    <3>4. Taken(p)'
      BY <3>1, <3>2, <3>3 DEF Taken
    <3>5. Bodied(p)'
      BY <2>1, <3>1 DEF Bodied
    <3>6. QED
      BY <2>1, <3>4, <3>5, <1>a, <1>b, <1>c, RunKeeps
  <2>4. QED
    BY <1>1, <2>2, <2>3 DEF Park
<1>2. CASE Scope(p)
  <2>1. /\ pc[p] = "scope" /\ w.before \notin Runs /\ (w.before = Missing \/ parked[w.run] = w.before)
        /\ UNCHANGED parked /\ \A i \in Projects : file[i] # w.run
    BY <1>2, <1>a, <1>d DEF Scope, Taken
  <2>2. CASE /\ file' = [file EXCEPT ![j] = w.run] /\ over' = [over EXCEPT ![w.run] = file[j]]
             /\ slip' = Slips("swapped", file[j] # w.before) /\ Go(p, "running", w)
    <3>1. file[j] = w.before
      BY <2>2 DEF Window, Slips
    <3>2. pc'[p] = "running" /\ work'[p] = w
      BY <2>2, GoFacts
    <3>3. /\ over'[w.run] \in {Missing, parked[w.run]} /\ \A r \in Runs \ {w.run} : over'[r] = over[r]
          /\ \A i \in Projects \ {j} : file'[i] = file[i]
          /\ file'[j] = w.run
      BY <2>1, <2>2, <3>1, <1>a, <1>b
    <3>4. Taken(p)'
      BY <2>1, <3>2 DEF Taken
    <3>5. Bodied(p)'
      BY <2>1, <3>2, <3>3 DEF Bodied
    <3>6. QED
      BY <2>1, <3>3, <3>4, <3>5, <1>a, <1>b, <1>c, RunKeeps
  <2>3. CASE /\ file' = IF w.before = Missing THEN file ELSE [file EXCEPT ![j] = w.before]
             /\ Leave(p) /\ UNCHANGED over
    <3>1. \A i \in Projects : file'[i] \in Runs => file'[i] = file[i]
      BY <2>1, <2>3, <1>a, <1>b
    <3>2. QED
      BY <2>1, <2>3, <3>1, <1>a, <1>b, <1>c, <1>e, RunKeeps
  <2>4. CASE Leave(p) /\ UNCHANGED <<file, over>>
    BY <2>1, <2>4, <1>a, <1>b, <1>c, <1>e, RunKeeps
  <2>5. QED
    BY <1>2, <2>2, <2>3, <2>4 DEF Scope
<1>3. CASE Compare(p)
  <2>1. UNCHANGED <<file, parked, over>> /\ pc[p] = "running" /\ work'[p] = w
        /\ pc'[p] \in {"putback", "release"}
    BY <1>3, GoFacts DEF Compare, disk, history
  <2>2. Taken(p)'
    BY <2>1, <1>a DEF Taken
  <2>3. Bodied(p)'
    BY <2>1, <1>d DEF Bodied
  <2>4. QED
    BY <2>1, <2>2, <2>3, <1>a, <1>b, <1>c, <1>d, RunKeeps
<1>4. CASE PutBack(p)
  <2>1. UNCHANGED <<parked, over>> /\ pc[p] = "putback" /\ w.before \notin Runs
    BY <1>4, <1>a DEF PutBack, Taken, history
  <2>2. CASE file' = [file EXCEPT ![j] = w.before] /\ Go(p, "unpark", w)
    <3>1. pc'[p] = "unpark" /\ work'[p] = w
      BY <2>2, GoFacts
    <3>2. \A i \in Projects : file'[i] # w.run /\ (file'[i] \in Runs => file'[i] = file[i])
      BY <2>1, <2>2, <1>a, <1>b, <1>d
    <3>3. Taken(p)' /\ Bodied(p)'
      BY <3>1, <3>2 DEF Taken, Bodied
    <3>4. QED
      BY <2>1, <3>2, <3>3, <1>a, <1>b, <1>c, RunKeeps
  <2>3. CASE Leave(p) /\ UNCHANGED file
    BY <2>1, <2>3, <1>a, <1>b, <1>c, <1>d, <1>e, RunKeeps
  <2>4. QED
    BY <1>4, <2>2, <2>3 DEF PutBack
<1>5. CASE Unpark(p)
  <2>1. /\ UNCHANGED <<file, over>> /\ pc[p] = "unpark" /\ \A i \in Projects : file[i] # w.run
        /\ pc'[p] = "release" /\ work'[p] = w
        /\ \A r \in Runs \ {w.run} : parked'[r] = parked[r]
    BY <1>5, <1>a, <1>d, GoFacts DEF Unpark, history
  <2>2. Taken(p)' /\ Bodied(p)'
    BY <2>1 DEF Taken, Bodied
  <2>3. QED
    BY <2>1, <2>2, <1>a, <1>b, <1>c, RunKeeps
<1>6. CASE Release(p)
  <2>1. UNCHANGED <<file, parked, over>> /\ Leave(p)
    BY <1>6 DEF Release, history
  <2>2. QED
    BY <2>1, <1>a, <1>b, <1>c, <1>d, <1>e, RunKeeps
<1>7. QED
  BY <1>1, <1>2, <1>3, <1>4, <1>5, <1>6

LEMMA SlipsGrow == Next => slip \subseteq slip'
<1> USE DEF history, Slips, GiveUp
<1>1. ASSUME NEW p \in Procs, NEW j \in Projects,
             \/ \E body \in Texts : BeginApply(p, j, body) \/ BeginSession(p, j, body)
             \/ BeginEnd(p, j) \/ BeginLoad(p, j) \/ BeginLocked(p, j)
             \/ \E e \in ledger : BeginUndo(p, j, e) \/ BeginRestore(p, j, e)
      PROVE  slip \subseteq slip'
  BY <1>1 DEF BeginApply, BeginSession, BeginEnd, BeginLoad, BeginLocked, BeginUndo, BeginRestore
<1>2. ASSUME NEW p \in Procs,
             \/ Capture(p) \/ Write(p) \/ RecordWrite(p)
             \/ Snapshot(p) \/ RecordSession(p) \/ LoadMap(p) \/ SaveMap(p)
      PROVE  slip \subseteq slip'
  BY <1>2 DEF Capture, Write, RecordWrite, Snapshot, RecordSession, LoadMap, SaveMap
<1>3. ASSUME NEW p \in Procs,
             \/ CaptureBefore(p) \/ RecordUndo(p) \/ Rollback(p) \/ Mark(p)
             \/ SkipUndone(p) \/ Unrestored(p) \/ MarkFails(p)
      PROVE  slip \subseteq slip'
  BY <1>3 DEF CaptureBefore, RecordUndo, Rollback, Mark, SkipUndone, Unrestored, NotRestored, MarkFails
<1>4. ASSUME NEW p \in Procs, Park(p) \/ Scope(p) \/ Compare(p) \/ PutBack(p) \/ Unpark(p) \/ Release(p)
      PROVE  slip \subseteq slip'
  BY <1>4 DEF Park, Scope, Compare, PutBack, Unpark, Release
<1>5. ASSUME NEW p \in Procs, Die(p) \/ Abort(p) PROVE slip \subseteq slip'
  BY <1>5 DEF Die, Abort
<1>6. ASSUME NEW j \in Projects, RemoveSentinel(j) PROVE slip \subseteq slip'
  BY <1>6 DEF RemoveSentinel
<1>7. ASSUME NEW j \in Projects, NEW body \in Texts \cup {Missing}, Edit(j, body) PROVE slip \subseteq slip'
  BY <1>7 DEF Edit
<1>8. QED
  BY <1>1, <1>2, <1>3, <1>4, <1>5, <1>6, <1>7, FailsUnrestored DEF Next, Command

LEMMA OriginalsInv ==
  ASSUME Types, Places, RunsDiffer, Originals, Next
  PROVE  Originals'
<1> SUFFICES ASSUME ~Window' PROVE Untaken'
  BY DEF Originals
<1>1. Untaken
  BY SlipsGrow DEF Window, Originals
<1>2. ASSUME NEW p \in Procs, Die(p) \/ Abort(p) PROVE Untaken'
  <2>1. pc[p] # "idle" /\ Leave(p) /\ UNCHANGED <<file, ledger, parked, over, commands>>
    BY <1>2 DEF Die, Abort, GiveUp, disk, Leave, Go
  <2>2. Types' /\ Places' /\ Steps(p)
    BY <1>2, DieTypes
  <2>3. Taken(p)' /\ Bodied(p)'
    BY <2>1, <2>2, LeaveFacts, LeaveTaken DEF Types
  <2>4. commands' \in Nat
    BY <2>1, StateTypes, FilesAssumption
  <2>5. QED
    BY <1>1, <2>1, <2>2, <2>3, <2>4, CalmKeeps DEF Calm
<1>3. ASSUME NEW p \in Procs, Command(p) PROVE Untaken'
  <2>1. CASE \E j \in Projects :
               \/ \E body \in Texts : BeginApply(p, j, body) \/ BeginSession(p, j, body)
               \/ BeginEnd(p, j) \/ BeginLoad(p, j) \/ BeginLocked(p, j)
               \/ \E e \in ledger : BeginUndo(p, j, e) \/ BeginRestore(p, j, e)
    BY <1>1, <2>1, BeginKeepsOriginals
  <2>2. QED
    BY <1>1, <1>2, <1>3, <2>1, ApplyKeepsOriginals, SessionKeepsOriginals, UndoKeepsOriginals,
       FailsUnrestored, LockedKeepsOriginals DEF Command
<1>4. ASSUME NEW j \in Projects, RemoveSentinel(j) PROVE Untaken'
  <2>1. UNCHANGED <<file, ledger, parked, pc, work, commands, over>>
    BY <1>4 DEF RemoveSentinel, history
  <2>2. QED
    BY <1>1, <2>1 DEF Untaken, Taken, Bodied
<1>5. ASSUME NEW j \in Projects, NEW body \in Texts \cup {Missing}, Edit(j, body) PROVE Untaken'
  <2>1. /\ UNCHANGED <<ledger, parked, pc, work, over>> /\ file' = [file EXCEPT ![j] = body]
        /\ commands \in Nat /\ commands' = commands + 1 /\ body \notin Runs
    BY <1>5, StateTypes, FilesAssumption, NoBody DEF Edit, history
  <2>2. \A i \in Projects : file'[i] \in Runs => file'[i] = file[i] /\ file[i] \in Nat
    BY <2>1, StateTypes DEF Runs
  <2>3. ASSUME NEW q \in Procs PROVE Taken(q)' /\ Bodied(q)'
    <3>1. work[q].kind = "locked" => work[q].run \in Runs
      BY StateTypes, FilesAssumption DEF Places, Place, LockedAt, Runs
    <3>2. QED
      BY <1>1, <2>1, <2>2, <3>1 DEF Untaken, Taken, Bodied
  <2>4. ASSUME NEW i \in Projects, file'[i] \in Runs
        PROVE  file'[i] <= commands' /\ over'[file'[i]] \in {Missing, parked'[file'[i]]}
    <3>1. file'[i] = file[i] /\ file[i] <= commands /\ over[file[i]] \in {Missing, parked[file[i]]}
      BY <1>1, <2>2, <2>4 DEF Untaken
    <3>2. QED
      BY <2>1, <2>2, <2>4, <3>1
  <2>5. QED
    BY <1>1, <2>1, <2>3, <2>4 DEF Untaken
<1>6. QED
  BY <1>3, <1>4, <1>5 DEF Next

-----------------------------------------------------------------------------
(* Sessions                                                                *)

Session(p) == work[p].kind = "session"

Active == {"record", "own", "load", "save"}

\* The projects whose session is past its first write and not named yet.
Starting == {j \in Projects : \E p \in Procs : Session(p) /\ work[p].project = j /\ pc[p] \in Active}

\* A session past the recording of its entry, and a command that has read sessions.json.
Own(p) == Session(p) /\ pc[p] \in {"load", "save"}

HasMap(p) == pc[p] = "save" \/ work[p].kind \in {"end", "load"}

\* Entries are numbered as they are made, 0 stands for none, and an entry that
\* no pointer names yet is known to its session only.
Numbered ==
    /\ \A e \in ledger : e.id \in 1..records
    /\ \A j \in Projects : pointers[j] # None => pointers[j].entry \in 0..records
    /\ \A p \in Procs : HasMap(p) =>
         \A j \in Projects : work[p].map[j] # None => work[p].map[j].entry \in 0..records
    /\ \A p \in Procs : pc[p] = "mark" => work[p].undoing.id \in 1..records
    /\ \A p \in Procs : Own(p) => work[p].entry \in 0..records
    /\ \A p \in Procs : Own(p) /\ work[p].entry # 0 =>
         /\ \A j \in Projects : pointers[j] # None => pointers[j].entry # work[p].entry
         /\ \A q \in Procs : HasMap(q) =>
              \A j \in Projects : work[q].map[j] # None => work[q].map[j].entry # work[p].entry
         /\ \A q \in Procs : Own(q) /\ work[q].entry = work[p].entry => p = q

\* One session in a project, and no pointer before it has saved its own.
Tidy ==
    /\ \A p, q \in Procs : Session(p) /\ Session(q) /\ work[p].project = work[q].project => p = q
    /\ \A p \in Procs : Session(p) =>
         /\ pointers[work[p].project] = None
         /\ pre[work[p].project] # None => pc[p] \in Active

\* An end that has rolled its session back had an entry, and does not find the
\* toolset in effect again under it, unless another start is at work.
Ended ==
    \A p \in Procs : work[p].kind = "end" /\ pc[p] \in {"mark", "save"} =>
         LET j == work[p].project IN
         /\ work[p].map[j].entry # 0
         /\ pre[j] # None /\ pointers[j] # None =>
              \/ pointers[j].entry # work[p].map[j].entry
              \/ j \in Starting

\* A session in effect is named, or its start is still at work.
Covered == \A j \in Projects : pre[j] # None => pointers[j] # None \/ j \in Starting

Live(n) == {e \in ledger : e.id = n /\ ~e.undone}

\* What may still be rolled back under an entry is what was there before.
Restores(n, j, body) == \A e \in Live(n) : e.project = j /\ e.before = body

Restorable(p) ==
    LET w == work[p]
        j == w.project
    IN  /\ Session(p) /\ pc[p] \in Active => pre[j] \in {None, w.seen}
        /\ Own(p) => Restores(w.entry, j, w.seen)
        /\ w.kind = "end" /\ pc[p] = "rollback" =>
             \/ Live(w.map[j].entry) = {}
             \/ pointers[j] # None /\ pointers[j].entry = w.map[j].entry
        /\ w.kind = "end" /\ pc[p] = "save" => Live(w.map[j].entry) = {}

Pointed ==
    /\ \A j \in Projects : pre[j] # None /\ pointers[j] # None => Restores(pointers[j].entry, j, pre[j])
    /\ \A p \in Procs : Restorable(p)

Untidy == slip \cap {"map", "twice"} # {}
Uncovered == slip \cap {"map", "halted", "torn", "unrestored"} # {}
Unpointed == slip \cap {"unrestored", "undone", "twice", "overtaken", "map", "unmarked", "torn"} # {}

Sessions ==
    /\ Numbered
    /\ ~Untidy => Tidy
    /\ ~Uncovered => Covered /\ Ended
    /\ ~Unpointed => Pointed

\* What a step of a command means to sessions: what it comes to know, ...
Reads(p) ==
    /\ UNCHANGED pointers
    /\ HasMap(p)' => (HasMap(p) /\ work'[p].map = work[p].map) \/ work'[p].map = pointers
    /\ Own(p)' => \/ Own(p) /\ work'[p].entry = work[p].entry
                  \/ records' = records + 1 /\ work'[p].entry = records'
                  \/ work'[p].entry = 0
    /\ records' \in {records, records + 1}
    /\ \A e \in ledger' : \/ e \in ledger
                          \/ records' = records + 1 /\ e.id = records'
                          \/ pc[p] = "mark" /\ e.undone /\ e.id = work[p].undoing.id
    /\ pc'[p] = "mark" => work'[p].undoing \in ledger

\* ... and where it goes, unless it is the write of a session.
Turns(p) ==
    /\ \A j \in Projects : pre'[j] \in {pre[j], None}
    /\ Session(p) /\ pc[p] \in Active /\ pc'[p] # "idle" => pc'[p] \in Active
    /\ Session(p) /\ pc[p] \in Active /\ pc'[p] = "idle" => "halted" \in slip'
    /\ work'[p].kind = "end" /\ pc'[p] \in {"mark", "save"} =>
         \/ pc[p] \in {"mark", "save"} /\ work'[p].map = work[p].map
         \/ pre'[work'[p].project] = None /\ \E e \in ledger : e.id = work'[p].map[work'[p].project].entry
         \/ "unrestored" \in slip'

\* A session that begins alone.
Begins(p) ==
    Began(p) /\ Session(p)' => pointers[work'[p].project] = None /\ ~Unnamed(work'[p].project)

LEMMA NumberedKept ==
  ASSUME Types, Types', Numbered, NEW p \in Procs, Steps(p), Reads(p)
  PROVE  Numbered'
<1>a. /\ records \in Nat /\ records' \in Nat /\ records <= records' /\ pointers' = pointers
      /\ ledger' \subseteq Entry
  BY DEF Types, Reads
<1>b. \A q \in Procs \ {p} : /\ pc'[q] = pc[q] /\ work'[q] = work[q]
                             /\ HasMap(q)' = HasMap(q) /\ Own(q)' = Own(q)
  BY DEF Steps, Others, HasMap, Own, Session
<1>1. \A e \in ledger' : e.id \in 1..records'
  BY <1>a DEF Numbered, Reads
<1>2. \A j \in Projects : pointers'[j] # None => pointers'[j].entry \in 0..records'
  BY <1>a DEF Numbered
<1>3. \A q \in Procs : HasMap(q)' =>
         \A j \in Projects : work'[q].map[j] # None => work'[q].map[j].entry \in 0..records'
  BY <1>a, <1>b DEF Numbered, Reads
<1>4. \A q \in Procs : pc'[q] = "mark" => work'[q].undoing.id \in 1..records'
  BY <1>a, <1>b DEF Numbered, Reads
<1>5. \A q \in Procs : Own(q)' => work'[q].entry \in 0..records'
  BY <1>a, <1>b DEF Numbered, Reads
<1>6. ASSUME NEW q \in Procs, Own(q)', work'[q].entry # 0
      PROVE  /\ \A j \in Projects : pointers'[j] # None => pointers'[j].entry # work'[q].entry
             /\ \A r \in Procs : HasMap(r)' =>
                  \A j \in Projects : work'[r].map[j] # None => work'[r].map[j].entry # work'[q].entry
             /\ \A r \in Procs : Own(r)' /\ work'[r].entry = work'[q].entry => q = r
  <2>1. CASE Own(q) /\ work'[q].entry = work[q].entry
    <3>1. /\ work[q].entry \in 0..records
          /\ \A j \in Projects : pointers[j] # None => pointers[j].entry # work[q].entry
          /\ \A r \in Procs : HasMap(r) =>
               \A j \in Projects : work[r].map[j] # None => work[r].map[j].entry # work[q].entry
          /\ \A r \in Procs : Own(r) /\ work[r].entry = work[q].entry => q = r
      BY <1>6, <2>1 DEF Numbered
    <3>2. \A r \in Procs : HasMap(r)' =>
            \A j \in Projects : work'[r].map[j] # None => work'[r].map[j].entry # work'[q].entry
      BY <2>1, <3>1, <1>b DEF Reads
    <3>3. ASSUME NEW r \in Procs, Own(r)', work'[r].entry = work'[q].entry PROVE q = r
      <4>1. CASE Own(r) /\ work'[r].entry = work[r].entry
        BY <2>1, <3>1, <3>3, <4>1
      <4>2. CASE ~(Own(r) /\ work'[r].entry = work[r].entry)
        <5>1. work'[r].entry = records + 1
          BY <1>6, <3>3, <4>2, <1>b DEF Reads
        <5>2. QED
          BY <2>1, <3>1, <3>3, <5>1, <1>a
      <4>3. QED
        BY <4>1, <4>2
    <3>4. QED
      BY <2>1, <3>1, <3>2, <3>3, <1>a
  <2>2. CASE q = p /\ records' = records + 1 /\ work'[q].entry = records'
    <3>1. \A r \in Procs : HasMap(r)' =>
            \A j \in Projects : work'[r].map[j] # None => work'[r].map[j].entry \in 0..records
      BY <1>b DEF Numbered, Reads
    <3>2. \A j \in Projects : pointers'[j] # None => pointers'[j].entry \in 0..records
      BY <1>a DEF Numbered
    <3>3. ASSUME NEW r \in Procs \ {p}, Own(r)' PROVE work'[r].entry # work'[q].entry
      <4>1. work'[r].entry \in 0..records
        BY <3>3, <1>b DEF Numbered
      <4>2. QED
        BY <4>1, <2>2, <1>a
    <3>4. QED
      BY <2>2, <3>1, <3>2, <3>3, <1>a
  <2>3. QED
    BY <2>1, <2>2, <1>6, <1>b DEF Reads
<1>7. QED
  BY <1>1, <1>2, <1>3, <1>4, <1>5, <1>6 DEF Numbered

LEMMA TidyKept ==
  ASSUME Types, Types', Places, Places', Tidy, NEW p \in Procs, Steps(p), Turns(p), Begins(p),
         UNCHANGED pointers
  PROVE  Tidy'
<1>b. \A q \in Procs \ {p} : pc'[q] = pc[q] /\ work'[q] = work[q] /\ Session(q)' = Session(q)
  BY DEF Steps, Others, Session
<1>c. Session(p)' /\ ~Began(p) =>
        Session(p) /\ work'[p].project = work[p].project /\ pc'[p] # "idle"
  BY BlankTypes DEF Steps, Went, Left, Session
<1>d. \A q \in Procs : Session(q) \/ work[q].kind = "end" => pc[q] # "idle" /\ work[q].project \in Projects
  BY BlankTypes DEF Session, Places, Place
<1>e. \A q \in Procs : Session(q)' \/ work'[q].kind = "end" => pc'[q] # "idle" /\ work'[q].project \in Projects
  BY BlankTypes DEF Session, Places, Place
<1>1. ASSUME NEW q \in Procs, NEW r \in Procs, Session(q)', Session(r)', work'[q].project = work'[r].project
      PROVE  q = r
  <2>1. ASSUME NEW s \in Procs \ {p}, Session(s)', Session(p)', work'[s].project = work'[p].project PROVE FALSE
    <3>1. Session(s) /\ work[s].project = work'[p].project
      BY <2>1, <1>b
    <3>2. CASE Began(p)
      BY <2>1, <3>1, <3>2 DEF Begins, Unnamed, Session
    <3>3. CASE ~Began(p)
      BY <2>1, <3>1, <3>3, <1>c DEF Tidy
    <3>4. QED
      BY <3>2, <3>3
  <2>2. QED
    BY <2>1, <1>1, <1>b DEF Tidy
<1>2. ASSUME NEW q \in Procs, Session(q)'
      PROVE  pointers'[work'[q].project] = None /\ (pre'[work'[q].project] # None => pc'[q] \in Active)
  <2>1. CASE q # p
    <3>1. pre'[work[q].project] \in {pre[work[q].project], None}
      BY <2>1, <1>2, <1>b, <1>d DEF Turns
    <3>2. QED
      BY <2>1, <3>1, <1>2, <1>b DEF Tidy
  <2>2. CASE q = p /\ Began(p)
    <3>1. pointers[work'[p].project] = None /\ pre[work'[p].project] = None
      BY <2>2, <1>2 DEF Begins, Unnamed
    <3>2. QED
      BY <2>2, <3>1, <1>2, <1>e DEF Turns
  <2>3. CASE q = p /\ ~Began(p)
    <3>1. Session(p) /\ work'[p].project = work[p].project /\ pc'[p] # "idle"
      BY <2>3, <1>2, <1>c
    <3>2. pre'[work[p].project] # None => pre[work[p].project] # None
      BY <3>1, <1>d DEF Turns
    <3>3. QED
      BY <2>3, <3>1, <3>2 DEF Tidy, Turns
  <2>4. QED
    BY <2>1, <2>2, <2>3
<1>3. QED
  BY <1>1, <1>2 DEF Tidy

\* A session that is starting goes on to be named, or stops.
LEMMA StartingKept ==
  ASSUME NEW p \in Procs, Steps(p), Turns(p), "halted" \notin slip'
  PROVE  Starting \subseteq Starting'
<1>1. ASSUME NEW j \in Projects, NEW q \in Procs, Session(q), work[q].project = j, pc[q] \in Active
      PROVE  Session(q)' /\ work'[q].project = j /\ pc'[q] \in Active
  <2>1. CASE q # p
    BY <1>1, <2>1 DEF Steps, Others, Session
  <2>2. CASE q = p
    <3>1. pc'[p] # "idle" /\ pc'[p] \in Active /\ pc[p] # "idle"
      BY <1>1, <2>2 DEF Turns, Active
    <3>2. work'[p].kind = work[p].kind /\ work'[p].project = work[p].project
      BY <3>1 DEF Steps, Began, Went, Left
    <3>3. QED
      BY <1>1, <2>2, <3>1, <3>2 DEF Session
  <2>3. QED
    BY <2>1, <2>2
<1>2. QED
  BY <1>1 DEF Starting

LEMMA EndedKept ==
  ASSUME Types, Types', Places, Places', Numbered, Ended, NEW p \in Procs, Steps(p), Turns(p),
         UNCHANGED pointers, "halted" \notin slip', "unrestored" \notin slip'
  PROVE  Ended'
<1>1. \A q \in Procs \ {p} : pc'[q] = pc[q] /\ work'[q] = work[q]
  BY DEF Steps, Others
<1>2. \A q \in Procs : work[q].kind = "end" => work[q].project \in Projects
  BY BlankTypes DEF Places, Place
<1>3. ASSUME NEW q \in Procs, work'[q].kind = "end", pc'[q] \in {"mark", "save"}
      PROVE  /\ work'[q].map[work'[q].project].entry # 0
             /\ pre'[work'[q].project] # None /\ pointers'[work'[q].project] # None =>
                  \/ pointers'[work'[q].project].entry # work'[q].map[work'[q].project].entry
                  \/ work'[q].project \in Starting'
  <2>1. ASSUME work'[q] = work[q], pc[q] \in {"mark", "save"}
        PROVE  /\ work'[q].map[work'[q].project].entry # 0
               /\ pre'[work'[q].project] # None /\ pointers'[work'[q].project] # None =>
                    \/ pointers'[work'[q].project].entry # work'[q].map[work'[q].project].entry
                    \/ work'[q].project \in Starting'
    <3>1. pre'[work[q].project] # None => pre[work[q].project] # None
      BY <1>2, <1>3, <2>1 DEF Turns
    <3>2. work[q].project \in Starting => work[q].project \in Starting'
      BY <1>2, <1>3, <2>1, StartingKept
    <3>3. QED
      BY <3>1, <3>2, <1>3, <2>1 DEF Ended
  <2>2. CASE q # p
    BY <2>1, <2>2, <1>1, <1>3
  <2>3. CASE q = p
    <3>1. CASE pc[p] \in {"mark", "save"} /\ work'[p].map = work[p].map
      <4>1. work'[p].kind = work[p].kind /\ work'[p].project = work[p].project
        BY <2>3, <3>1, <1>3 DEF Steps, Began, Went, Left
      <4>2. pre'[work[p].project] # None => pre[work[p].project] # None
        BY <2>3, <4>1, <1>3, <1>2 DEF Turns
      <4>3. work[p].project \in Starting => work[p].project \in Starting'
        BY <2>3, <4>1, <1>2, <1>3, StartingKept
      <4>4. QED
        BY <2>3, <3>1, <4>1, <4>2, <4>3, <1>3 DEF Ended
    <3>2. CASE pre'[work'[p].project] = None /\ \E e \in ledger : e.id = work'[p].map[work'[p].project].entry
      <4>1. records \in Nat
        BY StateTypes
      <4>2. QED
        BY <2>3, <3>2, <4>1 DEF Numbered
    <3>3. QED
      BY <2>3, <3>1, <3>2, <1>3 DEF Turns
  <2>4. QED
    BY <2>2, <2>3
<1>4. QED
  BY <1>3 DEF Ended

LEMMA CoveredKept ==
  ASSUME Covered, NEW p \in Procs, Steps(p), Turns(p), UNCHANGED pointers, "halted" \notin slip'
  PROVE  Covered'
<1>1. \A j \in Projects : pre'[j] # None => pre[j] # None
  BY DEF Turns
<1>2. QED
  BY <1>1, StartingKept DEF Covered

\* An entry that is numbered is not live anew.
LEMMA LiveKept ==
  ASSUME Types, NEW p \in Procs, Reads(p)
  PROVE  \A e \in ledger' : ~e.undone /\ e.id \in 0..records => e \in ledger
  BY StateTypes DEF Reads

LEMMA PointedKept ==
  ASSUME Types, Types', Places, Numbered, Pointed, NEW p \in Procs, Steps(p), Reads(p), Restorable(p)',
         \A j \in Projects : pre'[j] \in {pre[j], None}
  PROVE  Pointed'
<1>0. /\ \A e \in ledger' : ~e.undone /\ e.id \in 0..records => e \in ledger
      /\ pointers' = pointers
  BY LiveKept DEF Reads
<1>1. ASSUME NEW j \in Projects, pre'[j] # None, pointers'[j] # None,
             NEW e \in ledger', e.id = pointers'[j].entry, ~e.undone
      PROVE  e.project = j /\ e.before = pre'[j]
  <2>1. pre'[j] = pre[j] /\ pre[j] # None
    BY <1>1
  <2>2. pointers[j].entry \in 0..records
    BY <1>0, <1>1 DEF Numbered
  <2>3. e \in ledger
    BY <1>0, <1>1, <2>2
  <2>4. QED
    BY <1>0, <1>1, <2>1, <2>3 DEF Pointed, Restores, Live
<1>2. ASSUME NEW q \in Procs \ {p} PROVE Restorable(q)'
  <2>1. pc'[q] = pc[q] /\ work'[q] = work[q] /\ Restorable(q)
    BY DEF Steps, Others, Pointed
  <2>2. Session(q) \/ work[q].kind = "end" => work[q].project \in Projects
    BY BlankTypes DEF Session, Places, Place
  <2>3. Own(q) => work[q].entry \in 0..records
    BY DEF Numbered
  <2>4. work[q].kind = "end" => work[q].map[work[q].project].entry \in 0..records
    BY <2>2 DEF Numbered, HasMap, Places, Place
  <2>5. Session(q) /\ pc[q] \in Active => pre'[work[q].project] \in {None, work[q].seen}
    BY <2>1, <2>2 DEF Restorable
  <2>6. Own(q) => \A e \in ledger' : e.id = work[q].entry /\ ~e.undone =>
                     e.project = work[q].project /\ e.before = work[q].seen
    BY <1>0, <2>1, <2>3 DEF Restorable, Restores, Live
  <2>7. ASSUME work[q].kind = "end", Live(work[q].map[work[q].project].entry) = {}
        PROVE  \A e \in ledger' : ~(e.id = work[q].map[work[q].project].entry /\ ~e.undone)
    BY <1>0, <2>4, <2>7 DEF Live
  <2>8. QED
    BY <1>0, <2>1, <2>5, <2>6, <2>7 DEF Restorable, Restores, Live, Own, Session
<1>3. QED
  BY <1>1, <1>2 DEF Pointed, Restores, Live

\* What a step means to sessions, where no window excuses it.
Means(p) ==
    /\ Reads(p) /\ Turns(p)
    /\ "twice" \notin slip' => Begins(p)
    /\ Numbered /\ Tidy /\ Pointed /\ ~Unpointed' => Restorable(p)'

\* A step of a command that is none of a session's.
LEMMA Foreign ==
  ASSUME Types, Places, NEW p \in Procs, UNCHANGED <<pointers, pre>>, work[p].kind # "session",
         work'[p].kind \notin {"session", "end", "load"}, pc'[p] # "save",
         records' \in {records, records + 1},
         \A e \in ledger' : \/ e \in ledger
                            \/ records' = records + 1 /\ e.id = records'
                            \/ pc[p] = "mark" /\ e.undone /\ e.id = work[p].undoing.id,
         pc'[p] = "mark" => work'[p].undoing \in ledger
  PROVE  Means(p)
  BY DEF Means, Reads, Turns, Begins, Restorable, HasMap, Own, Session

LEMMA BeginMeans ==
  ASSUME Types, Places, NEW p \in Procs, NEW j \in Projects,
         \/ \E body \in Texts : BeginApply(p, j, body) \/ BeginSession(p, j, body)
         \/ BeginEnd(p, j) \/ BeginLoad(p, j) \/ BeginLocked(p, j)
         \/ \E e \in ledger : BeginUndo(p, j, e) \/ BeginRestore(p, j, e)
  PROVE  Means(p)
<1>1. /\ UNCHANGED <<ledger, pointers, records, pre>> /\ pc[p] = "idle"
  BY DEF disk, history, Start, BeginApply, BeginSession, BeginEnd, BeginLoad, BeginLocked, BeginUndo, BeginRestore
<1>2. work[p].kind = "none"
  BY <1>1, BlankTypes DEF Places, Place
<1>3. CASE \/ \E body \in Texts : BeginApply(p, j, body)
           \/ BeginLocked(p, j)
           \/ \E e \in ledger : BeginUndo(p, j, e) \/ BeginRestore(p, j, e)
  <2>1. work'[p].kind \in {"apply", "locked", "undo", "restore"} /\ pc'[p] \notin {"save", "mark"}
    BY <1>3, BeginFacts
  <2>2. QED
    BY <1>1, <1>2, <2>1, Foreign
<1>4. ASSUME NEW body \in Texts, BeginSession(p, j, body) PROVE Means(p)
  <2>1. pc'[p] = "snapshot" /\ work'[p].kind = "session" /\ work'[p].project = j
    BY <1>4, BeginFacts
  <2>2. "twice" \notin slip' => pointers[j] = None /\ ~Unnamed(j)
    BY <1>4 DEF BeginSession, Slips
  <2>3. QED
    BY <1>1, <1>2, <2>1, <2>2 DEF Means, Reads, Turns, Begins, Restorable, HasMap, Own, Session, Active
<1>5. CASE BeginEnd(p, j)
  <2>1. pc'[p] = "rollback" /\ work'[p].kind = "end" /\ work'[p].project = j /\ work'[p].map = pointers
    BY <1>5, BeginFacts
  <2>2. pointers[j] # None
    BY <1>5 DEF BeginEnd
  <2>3. QED
    BY <1>1, <1>2, <2>1, <2>2 DEF Means, Reads, Turns, Begins, Restorable, HasMap, Own, Session, Active
<1>6. CASE BeginLoad(p, j)
  <2>1. pc'[p] = "save" /\ work'[p].kind = "load" /\ work'[p].project = j /\ work'[p].map = pointers
    BY <1>6, BeginFacts
  <2>2. QED
    BY <1>1, <1>2, <2>1 DEF Means, Reads, Turns, Begins, Restorable, HasMap, Own, Session, Active
<1>7. QED
  BY <1>3, <1>4, <1>5, <1>6

LEMMA CaptureMeans ==
  ASSUME Types, Places, NEW p \in Procs, Capture(p) \/ Snapshot(p)
  PROVE  Means(p)
<1> DEFINE w == work[p]
<1>a. Steps(p) /\ w \in WorkOf(w.ids) /\ Place(p) /\ UNCHANGED <<ledger, pointers, records, pre>>
  BY ApplyTypes, SessionTypes, StateTypes DEF Places, disk, Capture, Snapshot
<1>b. pc[p] \in {"capture", "snapshot"} /\ w.kind \in {"apply", "session"} /\ w.project \in Projects
  BY <1>a DEF Capture, Snapshot, Place
<1>1. CASE pc'[p] = "idle" /\ work'[p] = Blank
  BY <1>1, <1>a, <1>b, BlankTypes DEF Means, Reads, Turns, Begins, Restorable, HasMap, Own, Session, Active, Began
<1>2. CASE pc'[p] \in {"write", "capture"}
  <2>1. work'[p].kind = w.kind
    BY <1>2, <1>a, <1>b DEF Steps, Began, Went, Left
  <2>2. QED
    BY <1>2, <1>a, <1>b, <2>1 DEF Means, Reads, Turns, Begins, Restorable, HasMap, Own, Session, Active, Began
<1>3. CASE w.kind = "session" /\ pc[p] = "capture" /\ pc'[p] = "own" /\ work'[p] = w
  <2>1. Tidy => pre[w.project] = None
    BY <1>3 DEF Tidy, Session, Active
  <2>2. QED
    BY <1>3, <1>a, <1>b, <2>1 DEF Means, Reads, Turns, Begins, Restorable, HasMap, Own, Session, Active, Began
<1>4. QED
  BY <1>1, <1>2, <1>3, GoFacts, LeaveFacts DEF Capture, Snapshot

\* The record of an apply, or of what a session's `use` has written.
LEMMA RecordWriteMeans ==
  ASSUME Types, Places, NEW p \in Procs, RecordWrite(p)
  PROVE  Means(p)
<1> DEFINE w == work[p]
<1>a. Steps(p) /\ Place(p) /\ UNCHANGED <<pointers, pre>> /\ pc[p] = "record" /\ w.kind \in {"apply", "session"}
      /\ w.project \in Projects /\ w.before \in Bodies
  BY ApplyTypes DEF Places, Place, RecordWrite, history
<1>b. /\ records' \in {records, records + 1}
      /\ \A e \in ledger' : e \in ledger \/ (records' = records + 1 /\ e.id = records')
  BY <1>a, RecordTypes DEF RecordWrite
<1>1. CASE w.kind = "session"
  <2>1. pc'[p] = "own" /\ work'[p] = w
    BY <1>1, GoFacts DEF RecordWrite
  <2>2. QED
    BY <1>1, <1>a, <1>b, <2>1 DEF Means, Reads, Turns, Begins, Restorable, HasMap, Own, Session, Active, Began, Pointed
<1>2. CASE w.kind = "apply"
  <2>1. pc'[p] = "idle" /\ work'[p] = Blank
    BY <1>2, LeaveFacts DEF RecordWrite
  <2>2. QED
    BY <1>2, <1>a, <1>b, <2>1, BlankTypes, Foreign
<1>3. QED
  BY <1>1, <1>2, <1>a

\* The session's own entry is the only one under its number.
LEMMA RecordSessionMeans ==
  ASSUME Types, Places, NEW p \in Procs, RecordSession(p)
  PROVE  Means(p)
<1> DEFINE w == work[p]
<1>a. w \in WorkOf(w.ids) /\ Place(p) /\ UNCHANGED <<pointers, pre>> /\ pc[p] = "own"
      /\ w.kind = "session" /\ w.project \in Projects /\ w.seen \in Bodies
  BY StateTypes DEF Places, Place, RecordSession, history
<1>b. pc'[p] = "load"
  BY GoFacts DEF RecordSession
<1>c. Steps(p)
  BY SessionTypes
<1>d. work'[p].kind = "session" /\ work'[p].project = w.project
  BY <1>a, <1>b, <1>c DEF Steps, Began, Went, Left
<1>e. Turns(p)
  BY <1>a, <1>b, <1>d DEF Turns, Active, Session, Began
<1>f. /\ records' \in {records, records + 1}
      /\ \A e \in ledger' : e \in ledger \/ (records' = records + 1 /\ e.id = records')
  BY <1>a, RecordTypes DEF RecordSession
<1>0. Begins(p)
  BY <1>a DEF Begins, Began
<1>1. CASE UNCHANGED <<ledger, records>> /\ Go(p, "load", w)
  <2>1. work'[p] = w /\ w.entry = 0
    BY <1>1, <1>a, GoFacts DEF Place
  <2>2. Reads(p)
    BY <1>1, <1>a, <1>b, <1>d, <2>1 DEF Reads, HasMap, Own, Session
  <2>3. ASSUME Numbered, Pointed PROVE Restorable(p)'
    <3>1. pre[w.project] \in {None, w.seen}
      BY <2>3, <1>a DEF Pointed, Restorable, Session, Active
    <3>2. \A e \in ledger : e.id # 0
      BY <2>3, StateTypes DEF Numbered
    <3>3. QED
      BY <3>1, <3>2, <1>1, <1>a, <1>b, <1>d, <2>1 DEF Restorable, Restores, Live, Own, Session
  <2>4. QED
    BY <2>2, <2>3, <1>e, <1>0 DEF Means
<1>2. CASE Record(w.project, w.seen) /\ Go(p, "load", [w EXCEPT !.entry = records'])
  <2>1. work'[p] = [w EXCEPT !.entry = records']
    BY <1>2, GoFacts
  <2>2. work'[p].entry = records' /\ work'[p].seen = w.seen
    BY <2>1, <1>a DEF WorkOf
  <2>3. records' = records + 1
        /\ ledger' \subseteq ledger \cup {[id |-> records', project |-> w.project, before |-> w.seen, undone |-> FALSE]}
    BY <1>2, <1>a, RecordTypes
  <2>4. Reads(p)
    BY <1>a, <1>b, <1>d, <1>f, <2>2, <2>3 DEF Reads, HasMap, Own, Session
  <2>5. ASSUME Numbered, NEW e \in ledger', e.id = records' PROVE e.project = w.project /\ e.before = w.seen
    BY <2>3, <2>5, StateTypes DEF Numbered
  <2>6. ASSUME Numbered, Pointed PROVE Restorable(p)'
    <3>1. pre[w.project] \in {None, w.seen}
      BY <2>6, <1>a DEF Pointed, Restorable, Session, Active
    <3>2. QED
      BY <2>5, <2>6, <3>1, <1>a, <1>b, <1>d, <2>2 DEF Restorable, Restores, Live, Own, Session
  <2>7. QED
    BY <2>4, <2>6, <1>e, <1>0 DEF Means
<1>3. QED
  BY <1>1, <1>2 DEF RecordSession

LEMMA LoadMapMeans ==
  ASSUME Types, Places, NEW p \in Procs, LoadMap(p)
  PROVE  Means(p)
<1> DEFINE w == work[p]
<1>a. w \in WorkOf(w.ids) /\ UNCHANGED <<ledger, pointers, records, pre>> /\ pc[p] = "load" /\ w.kind = "session"
  BY StateTypes DEF Places, Place, LoadMap, disk, history
<1>b. pc'[p] = "save" /\ work'[p] = [w EXCEPT !.map = pointers]
  BY GoFacts DEF LoadMap
<1>c. /\ work'[p].map = pointers /\ work'[p].kind = "session" /\ work'[p].project = w.project
      /\ work'[p].entry = w.entry /\ work'[p].seen = w.seen
  BY <1>a, <1>b DEF WorkOf
<1>1. Reads(p) /\ Turns(p) /\ Begins(p)
  BY <1>a, <1>b, <1>c DEF Reads, Turns, Begins, HasMap, Own, Session, Active, Began
<1>2. ASSUME Pointed PROVE Restorable(p)'
  BY <1>2, <1>a, <1>b, <1>c DEF Pointed, Restorable, Restores, Live, Own, Session, Active
<1>3. QED
  BY <1>1, <1>2 DEF Means

\* A command that is over before it is done.
LEMMA GiveUpMeans ==
  ASSUME Types, Places, NEW p \in Procs, pc[p] # "idle", GiveUp(p), UNCHANGED <<ledger, pointers, records, pre>>
  PROVE  Means(p)
<1>1. pc'[p] = "idle" /\ work'[p] = Blank
  BY LeaveFacts DEF GiveUp
<1>2. work[p].kind = "session" /\ pc[p] \in Active => "halted" \in slip'
  BY DEF GiveUp, Slips, Active
<1>3. QED
  BY <1>1, <1>2, BlankTypes DEF Means, Reads, Turns, Begins, Restorable, HasMap, Own, Session, Began

LEMMA LockedMeans ==
  ASSUME Types, Places, NEW p \in Procs,
         Park(p) \/ Scope(p) \/ Compare(p) \/ PutBack(p) \/ Unpark(p) \/ Release(p)
  PROVE  Means(p)
<1>1. pc[p] \in LockedAt /\ UNCHANGED <<ledger, pointers, records, pre>>
  BY DEF disk, history, LockedAt, Park, Scope, Compare, PutBack, Unpark, Release
<1>2. work[p].kind = "locked" /\ Steps(p) /\ Places' /\ pc[p] # "idle"
  BY <1>1, LockedTypes DEF Places, Place, LockedAt
<1>3. CASE Went(p)
  <2>1. work'[p].kind = "locked"
    BY <1>2, <1>3 DEF Went
  <2>2. pc'[p] \in LockedAt
    BY <1>2, <2>1 DEF Places, Place
  <2>3. QED
    BY <1>1, <1>2, <2>1, <2>2, Foreign DEF LockedAt
<1>4. CASE Left(p)
  BY <1>1, <1>2, <1>4, BlankTypes, Foreign DEF Left
<1>5. QED
  BY <1>2, <1>3, <1>4 DEF Steps, Began

LEMMA UndoMeans ==
  ASSUME Types, Places, NEW p \in Procs,
         \/ CaptureBefore(p) \/ RecordUndo(p) \/ Rollback(p) \/ Mark(p)
         \/ SkipUndone(p) \/ Unrestored(p) \/ MarkFails(p)
  PROVE  Means(p)
<1> DEFINE w == work[p]
           j == w.project
           n == w.map[j].entry
<1>a. Steps(p) /\ w \in WorkOf(w.ids) /\ Place(p) /\ UNCHANGED pointers /\ pre \in [Projects -> Bodies \cup {None}]
      /\ ledger \subseteq Entry
  BY UndoTypes, StateTypes
     DEF Places, disk, history, CaptureBefore, RecordUndo, Rollback, Mark, SkipUndone, Unrestored, NotRestored,
         MarkFails
<1>b. j \in Projects /\ pc[p] \in {"before", "redo", "rollback", "mark"} /\ w.kind \in {"end", "undo", "restore"}
  BY <1>a DEF CaptureBefore, RecordUndo, Rollback, Mark, SkipUndone, Unrestored, MarkFails, Place
<1>c. pc'[p] # "idle" => work'[p].kind = w.kind
  BY <1>a, <1>b DEF Steps, Began, Went, Left
<1>d. pc'[p] = "idle" => work'[p].kind = "none"
  BY <1>a, <1>b, BlankTypes DEF Steps, Began, Went, Left
<1>e. /\ w.kind = "end" => Over(w) = [pre EXCEPT ![j] = None]
      /\ w.kind # "end" => Over(w) = pre
  BY DEF Over
<1>h. w.kind = "end" /\ pc[p] = "rollback" => Head(w.ids) = n
  <2>1. \A x : Head(<<x>>) = x
    OBVIOUS
  <2>2. QED
    BY <2>1, <1>a DEF Place
<1>1. CASE CaptureBefore(p)
  <2>1. pc'[p] = "redo" /\ w.kind = "undo" /\ UNCHANGED <<ledger, records, pre>>
    BY <1>1, <1>a, GoFacts DEF CaptureBefore, disk, Place
  <2>2. QED
    BY <2>1, <1>a, <1>c, Foreign
<1>2. CASE RecordUndo(p)
  <2>1. pc'[p] \in {"idle", "rollback"} /\ w.kind = "undo" /\ UNCHANGED pre /\ w.before \in Bodies
    BY <1>2, <1>a, GoFacts, LeaveFacts DEF RecordUndo, history, Place
  <2>2. /\ records' \in {records, records + 1}
        /\ \A e \in ledger' : e \in ledger \/ (records' = records + 1 /\ e.id = records')
    BY <1>2, <1>b, <2>1, RecordTypes DEF RecordUndo
  <2>3. QED
    BY <2>1, <2>2, <1>a, <1>c, <1>d, Foreign
<1>3. CASE Rollback(p)
  <2>1. PICK e \in Named(Head(w.ids)) : Go(p, "mark", [w EXCEPT !.undoing = e, !.seen = e.before])
    BY <1>3 DEF Rollback
  <2>2. e \in ledger /\ e \in Entry
    BY <1>a DEF Named
  <2>3. pc'[p] = "mark" /\ work'[p] = [w EXCEPT !.undoing = e, !.seen = e.before]
    BY <2>1, GoFacts
  <2>4. work'[p].undoing = e /\ work'[p].map = w.map /\ work'[p].kind = w.kind /\ work'[p].project = j
    BY <2>2, <2>3, <1>a DEF WorkOf, Entry
  <2>5. UNCHANGED <<ledger, records>> /\ pre' = Over(w)
    BY <1>3 DEF Rollback
  <2>6. CASE w.kind = "end"
    <3>1. e.id = n
      BY <1>h, <1>3, <2>1, <2>6 DEF Named, Rollback
    <3>2. QED
      BY <3>1, <2>2, <2>3, <2>4, <2>5, <2>6, <1>a, <1>b, <1>e
         DEF Means, Reads, Turns, Begins, Restorable, HasMap, Own, Session, Began
  <2>7. CASE w.kind # "end"
    BY <2>2, <2>3, <2>4, <2>5, <2>7, <1>a, <1>b, <1>c, <1>e, Foreign
  <2>8. QED
    BY <2>6, <2>7
<1>f. ASSUME pc[p] \in {"rollback", "mark"}, Onward(p, w)
      PROVE  /\ w.kind = "end" => pc'[p] = "save" /\ work'[p] = w
             /\ w.kind # "end" => pc'[p] \in {"idle", "rollback"}
  BY <1>f, OnwardSteps DEF Moved
<1>4. CASE Mark(p)
  <2>1. pc[p] = "mark" /\ w.undoing \in Entry /\ UNCHANGED <<records, pre>> /\ Onward(p, w)
        /\ ledger' = (ledger \ Named(w.undoing.id)) \cup {[w.undoing EXCEPT !.undone = TRUE]}
    BY <1>4, <1>a DEF Mark, Place, history, MarkUndone
  <2>2. \A e \in ledger' : \/ e \in ledger /\ e.id # w.undoing.id
                           \/ e.undone /\ e.id = w.undoing.id
    BY <2>1, <1>a DEF Named, Entry
  <2>3. CASE w.kind = "end"
    <3>1. pc'[p] = "save" /\ work'[p] = w /\ w.undoing.id = n
      BY <2>1, <2>3, <1>a, <1>f DEF Place
    <3>2. \A e \in ledger' : ~(e.id = n /\ ~e.undone)
      BY <2>2, <3>1
    <3>3. Reads(p) /\ Turns(p) /\ Begins(p)
      BY <2>1, <2>2, <2>3, <3>1, <1>a DEF Reads, Turns, Begins, HasMap, Own, Session, Began
    <3>4. Restorable(p)'
      BY <2>3, <3>1, <3>2 DEF Restorable, Live, Own, Session
    <3>5. QED
      BY <3>3, <3>4 DEF Means
  <2>4. CASE w.kind # "end"
    <3>1. pc'[p] \in {"idle", "rollback"}
      BY <2>1, <2>4, <1>f
    <3>2. QED
      BY <2>1, <2>2, <2>4, <3>1, <1>a, <1>b, <1>c, <1>d, Foreign
  <2>5. QED
    BY <2>3, <2>4
<1>5. CASE SkipUndone(p)
  <2>1. pc[p] = "rollback" /\ UNCHANGED <<ledger, records>> /\ pre' = Over(w)
    BY <1>5 DEF SkipUndone, disk
  <2>2. CASE w.kind = "end"
    <3>1. pc'[p] = "save" /\ work'[p] = w
      BY <1>5, <2>1, <2>2, <1>f DEF SkipUndone
    <3>0. \E e \in ledger : e.id = n
      BY <1>5, <1>h, <2>1, <2>2 DEF SkipUndone, Named
    <3>2. Reads(p) /\ Turns(p) /\ Begins(p)
      BY <3>0, <2>1, <2>2, <3>1, <1>a, <1>b, <1>e DEF Reads, Turns, Begins, HasMap, Own, Session, Began
    <3>3. Unpointed'
      BY <1>5, <2>2 DEF SkipUndone, Slips, Unpointed
    <3>4. QED
      BY <3>2, <3>3 DEF Means
  <2>3. CASE w.kind # "end"
    <3>1. pc'[p] \in {"idle", "rollback"}
      BY <1>5, <2>1, <2>3, <1>f, LeaveFacts DEF SkipUndone
    <3>2. QED
      BY <2>1, <2>3, <3>1, <1>a, <1>b, <1>c, <1>d, <1>e, Foreign
  <2>4. QED
    BY <2>2, <2>3
<1>6. CASE Unrestored(p) \/ MarkFails(p)
  <2>1. pc[p] \in {"rollback", "mark"} /\ ledger' \subseteq ledger /\ UNCHANGED <<records, pre>>
    BY <1>6 DEF Unrestored, NotRestored, MarkFails, disk
  <2>2. CASE w.kind = "end"
    <3>1. pc'[p] = "save" /\ work'[p] = w
      BY <1>6, <2>1, <2>2, <1>f DEF Unrestored, NotRestored, MarkFails
    <3>2. Unpointed' /\ (pc[p] = "rollback" => "unrestored" \in slip')
      BY <1>6, <2>2 DEF Unrestored, NotRestored, MarkFails, Unpointed
    <3>3. Reads(p) /\ Turns(p) /\ Begins(p)
      BY <2>1, <2>2, <3>1, <3>2, <1>a, <1>b DEF Reads, Turns, Begins, HasMap, Own, Session, Began
    <3>4. QED
      BY <3>2, <3>3 DEF Means
  <2>3. CASE w.kind # "end"
    <3>1. pc'[p] = "idle"
      BY <1>6, <2>3, LeaveFacts DEF Unrestored, NotRestored, MarkFails, GiveUp
    <3>2. QED
      BY <2>1, <2>3, <3>1, <1>a, <1>b, <1>c, <1>d, Foreign
  <2>4. QED
    BY <2>2, <2>3
<1>7. QED
  BY <1>1, <1>2, <1>3, <1>4, <1>5, <1>6

LEMMA MeansKeeps ==
  ASSUME Types, Types', Places, Places', Sessions, NEW p \in Procs, Steps(p), Means(p), slip \subseteq slip'
  PROVE  Sessions'
<1>1. Reads(p) /\ Turns(p) /\ UNCHANGED pointers /\ Numbered /\ Numbered'
  BY NumberedKept DEF Means, Reads, Sessions
<1>2. ASSUME ~Untidy' PROVE Tidy /\ Tidy'
  BY <1>1, <1>2, TidyKept DEF Untidy, Means, Sessions
<1>3. ASSUME ~Uncovered' PROVE Covered' /\ Ended'
  <2>1. ~Uncovered /\ "halted" \notin slip' /\ "unrestored" \notin slip'
    BY <1>3 DEF Uncovered
  <2>2. QED
    BY <1>1, <2>1, CoveredKept, EndedKept DEF Sessions
<1>4. ASSUME ~Unpointed' PROVE Pointed'
  <2>1. ~Untidy' /\ ~Unpointed
    BY <1>4 DEF Untidy, Unpointed
  <2>2. Restorable(p)' /\ \A j \in Projects : pre'[j] \in {pre[j], None}
    BY <2>1, <1>1, <1>2, <1>4 DEF Means, Sessions, Turns
  <2>3. QED
    BY <2>1, <2>2, <1>1, PointedKept DEF Sessions
<1>5. QED
  BY <1>1, <1>2, <1>3, <1>4 DEF Sessions

\* The moment a session's toolset is in effect.
LEMMA WriteKeeps ==
  ASSUME Types, Types', Places, Places', Sessions, NEW p \in Procs, Steps(p), Write(p), slip \subseteq slip'
  PROVE  Sessions'
<1> DEFINE w == work[p]
           j == w.project
<1>a. /\ UNCHANGED <<ledger, pointers, records>> /\ pc[p] = "write" /\ pc'[p] = "record" /\ work'[p] = w
      /\ w.kind \in {"apply", "session"} /\ j \in Projects
  BY GoFacts DEF Write, Places, Place
<1>b. \A q \in Procs \ {p} : pc'[q] = pc[q] /\ work'[q] = work[q] /\ Session(q)' = Session(q)
  BY DEF Steps, Others, Session
<1>c. Session(p)' = Session(p)
  BY <1>a DEF Session
<1>1. CASE w.kind = "apply"
  <2>1. UNCHANGED pre
    BY <1>1 DEF Write
  <2>2. Means(p)
    BY <1>a, <1>1, <2>1, Foreign
  <2>3. QED
    BY <2>2, MeansKeeps
<1>2. CASE w.kind = "session"
  <2>0. Session(p)
    BY <1>2 DEF Session
  <2>1. Reads(p)
    BY <1>a DEF Reads, HasMap, Own, Session
  <2>2. Numbered'
    BY <2>1, NumberedKept DEF Sessions
  <2>c. /\ \A i \in Projects : pre'[i] # None => pre[i] # None \/ i = j
        /\ j \in Starting'
        /\ Starting \subseteq Starting'
    <3>1. \A i \in Projects : pre'[i] # None => pre[i] # None \/ i = j
      BY <1>a, StateTypes DEF Write
    <3>2. Session(p)' /\ work'[p].project = j /\ pc'[p] \in Active
      BY <1>a, <1>c, <2>0 DEF Active
    <3>3. \A q \in Procs : Session(q) /\ pc[q] \in Active =>
                           Session(q)' /\ pc'[q] \in Active /\ work'[q].project = work[q].project
      BY <1>a, <1>b DEF Active
    <3>4. QED
      BY <1>a, <3>1, <3>2, <3>3 DEF Starting
  <2>3. ASSUME Tidy
        PROVE  /\ pre[j] = None /\ pointers[j] = None
               /\ \A i \in Projects \ {j} : pre'[i] = pre[i]
               /\ pre'[j] = file[j]
               /\ \A q \in Procs \ {p} : Session(q) => work[q].project # j
    <3>1. pre[j] = None /\ pointers[j] = None
      BY <1>a, <2>0, <2>3 DEF Tidy, Active
    <3>2. pre' = [pre EXCEPT ![j] = file[j]]
      BY <1>2, <3>1 DEF Write
    <3>3. QED
      BY <1>a, <2>0, <2>3, <3>1, <3>2, StateTypes DEF Tidy
  <2>4. ASSUME Tidy PROVE Tidy'
    <3>1. \A q, r \in Procs : Session(q)' /\ Session(r)' /\ work'[q].project = work'[r].project => q = r
      BY <1>a, <1>b, <1>c, <2>4 DEF Tidy
    <3>2. ASSUME NEW q \in Procs, Session(q)'
          PROVE  pointers'[work'[q].project] = None /\ (pre'[work'[q].project] # None => pc'[q] \in Active)
      <4>1. CASE q = p
        BY <1>a, <2>3, <2>4, <4>1 DEF Active
      <4>2. CASE q # p
        <5>1. work[q].project \in Projects
          BY <1>b, <3>2, <4>2, BlankTypes DEF Session, Places, Place
        <5>2. QED
          BY <1>a, <1>b, <2>3, <2>4, <3>2, <4>2, <5>1 DEF Tidy
      <4>3. QED
        BY <4>1, <4>2
    <3>3. QED
      BY <3>1, <3>2 DEF Tidy
  <2>e. ASSUME Ended PROVE Ended'
    <3>1. ASSUME NEW q \in Procs, work'[q].kind = "end", pc'[q] \in {"mark", "save"}
          PROVE  /\ work'[q].map[work'[q].project].entry # 0
                 /\ pre'[work'[q].project] # None /\ pointers'[work'[q].project] # None =>
                      \/ pointers'[work'[q].project].entry # work'[q].map[work'[q].project].entry
                      \/ work'[q].project \in Starting'
      <4>1. q # p /\ work'[q] = work[q] /\ pc'[q] = pc[q]
        BY <1>a, <1>b, <1>2, <3>1
      <4>2. work[q].project \in Projects
        BY <3>1, <4>1 DEF Places, Place
      <4>3. QED
        BY <1>a, <2>c, <2>e, <3>1, <4>1, <4>2 DEF Ended
    <3>2. QED
      BY <3>1 DEF Ended
  <2>5. ASSUME Covered PROVE Covered'
    BY <1>a, <2>c, <2>5 DEF Covered
  <2>6. ASSUME Tidy, Pointed, "overtaken" \notin slip' PROVE Pointed'
    <3>1. w.seen = file[j]
      BY <1>2, <2>6 DEF Write, Slips
    <3>2. ASSUME NEW q \in Procs PROVE Restorable(q)'
      <4>1. CASE q = p
        BY <1>a, <1>2, <2>3, <2>6, <3>1, <4>1 DEF Restorable, Own, Session
      <4>2. CASE q # p
        <5>1. Session(q) => work[q].project \in Projects \ {j}
          BY <2>3, <2>6, <4>2, BlankTypes DEF Session, Places, Place
        <5>2. Restorable(q) /\ (Session(q) => pre'[work[q].project] = pre[work[q].project])
          BY <2>3, <2>6, <5>1 DEF Pointed
        <5>3. QED
          BY <1>a, <1>b, <4>2, <5>2 DEF Restorable, Own, Session, Restores, Live
      <4>3. QED
        BY <4>1, <4>2
    <3>3. QED
      BY <1>a, <2>3, <2>6, <3>2 DEF Pointed, Restores, Live
  <2>7. ~Untidy' => Tidy
    BY DEF Sessions, Untidy
  <2>8. QED
    BY <2>2, <2>4, <2>e, <2>5, <2>6, <2>7 DEF Sessions, Untidy, Uncovered, Unpointed
<1>3. QED
  BY <1>1, <1>2, <1>a

\* The map is saved.
LEMMA SavedKeeps ==
  ASSUME Types, Types', Places, Places', Sessions, NEW p \in Procs, Steps(p), slip \subseteq slip',
         pc[p] = "save", pointers' = NewMap(work[p]), Leave(p), slip' = Slips("map", work[p].map # pointers),
         UNCHANGED <<ledger, records, pre>>
  PROVE  Sessions'
<1> DEFINE w == work[p]
           j == w.project
<1>a. /\ UNCHANGED <<ledger, records, pre>> /\ pc[p] = "save" /\ pc'[p] = "idle" /\ work'[p] = Blank
  BY LeaveFacts
<1>b. /\ j \in Projects /\ w.map \in Map /\ w.kind \in {"session", "end", "load"}
      /\ pointers' \in Map /\ \A i \in Projects \ {j} : pointers'[i] = w.map[i]
      /\ w.kind = "session" => pointers'[j] = [entry |-> w.entry, loaded |-> FALSE]
      /\ w.kind = "end" => pointers'[j] = None
      /\ w.kind = "load" => /\ w.map[j] \in Pointer
                            /\ pointers'[j] = [w.map[j] EXCEPT !.loaded = TRUE]
  BY SaveTypes
<1>0. None \notin Pointer
  BY FilesAssumption
<1>c. w.kind = "load" => pointers'[j].entry = w.map[j].entry /\ w.map[j] # None /\ pointers'[j] # None
  <2>1. \A m \in Pointer : [m EXCEPT !.loaded = TRUE] \in Pointer /\ [m EXCEPT !.loaded = TRUE].entry = m.entry
    BY DEF Pointer
  <2>2. ASSUME NEW m \in Pointer, pointers'[j] = [m EXCEPT !.loaded = TRUE]
        PROVE  pointers'[j].entry = m.entry /\ m # None /\ pointers'[j] # None
    BY <1>0, <2>1, <2>2
  <2>3. QED
    BY <1>b, <2>2
<1>d. w.kind = "session" => pointers'[j].entry = w.entry /\ pointers'[j] # None /\ Own(p)
  <2>1. w.entry \in Nat
    BY StateTypes DEF WorkOf
  <2>2. [entry |-> w.entry, loaded |-> FALSE] \in Pointer
    BY <2>1 DEF Pointer
  <2>3. QED
    BY <1>0, <1>a, <1>b, <2>2 DEF Own, Session
<1>e. \A q \in Procs \ {p} : pc'[q] = pc[q] /\ work'[q] = work[q] /\ Session(q)' = Session(q)
                             /\ HasMap(q)' = HasMap(q) /\ Own(q)' = Own(q)
  BY DEF Steps, Others, Session, HasMap, Own
<1>f. ~Session(p)' /\ ~HasMap(p)' /\ ~Own(p)' /\ work'[p].kind = "none"
  BY <1>a, BlankTypes DEF Session, HasMap, Own
<1>g. HasMap(p)
  BY <1>a DEF HasMap
<1>h. "map" \notin slip' => w.map = pointers
  BY DEF Slips
\* Every pointer there is now was in the map, or is the session's own.
<1>i. \A i \in Projects : pointers'[i] # None =>
        \/ w.map[i] # None /\ pointers'[i].entry = w.map[i].entry
        \/ Own(p) /\ pointers'[i].entry = w.entry
  BY <1>b, <1>c, <1>d
<1>1. Numbered'
  <2>0. Numbered
    BY DEF Sessions
  <2>1. \A i \in Projects : pointers'[i] # None => pointers'[i].entry \in 0..records
    BY <2>0, <1>g, <1>i DEF Numbered
  <2>2. ASSUME NEW q \in Procs \ {p}, Own(q), work[q].entry # 0, NEW i \in Projects, pointers'[i] # None
        PROVE  pointers'[i].entry # work[q].entry
    BY <2>0, <1>g, <1>i, <2>2 DEF Numbered
  <2>3. \A q \in Procs : pc'[q] = "mark" => work'[q].undoing.id \in 1..records
    BY <2>0, <1>a, <1>e DEF Numbered
  <2>4. \A q \in Procs : HasMap(q)' =>
          \A i \in Projects : work'[q].map[i] # None => work'[q].map[i].entry \in 0..records
    BY <2>0, <1>e, <1>f DEF Numbered
  <2>5. \A q \in Procs : Own(q)' => work'[q].entry \in 0..records
    BY <2>0, <1>e, <1>f DEF Numbered
  <2>6. ASSUME NEW q \in Procs, Own(q)', work'[q].entry # 0
        PROVE  /\ \A i \in Projects : pointers'[i] # None => pointers'[i].entry # work'[q].entry
               /\ \A r \in Procs : HasMap(r)' =>
                    \A i \in Projects : work'[r].map[i] # None => work'[r].map[i].entry # work'[q].entry
               /\ \A r \in Procs : Own(r)' /\ work'[r].entry = work'[q].entry => q = r
    <3>1. q # p /\ Own(q) /\ work'[q] = work[q]
      BY <1>e, <1>f, <2>6
    <3>2. QED
      BY <2>0, <1>e, <1>f, <2>2, <2>6, <3>1 DEF Numbered
  <2>7. QED
    BY <2>0, <1>a, <2>1, <2>3, <2>4, <2>5, <2>6 DEF Numbered
<1>2. ASSUME Tidy, "map" \notin slip' PROVE Tidy'
  <2>1. \A q, r \in Procs : Session(q)' /\ Session(r)' /\ work'[q].project = work'[r].project => q = r
    BY <1>2, <1>e, <1>f DEF Tidy
  <2>2. ASSUME NEW q \in Procs, Session(q)'
        PROVE  pointers'[work'[q].project] = None /\ (pre'[work'[q].project] # None => pc'[q] \in Active)
    <3>1. q # p /\ Session(q) /\ work'[q] = work[q] /\ pc'[q] = pc[q] /\ pointers[work[q].project] = None
          /\ work[q].project \in Projects
      BY <1>2, <1>e, <1>f, <2>2, BlankTypes DEF Tidy, Session, Places, Place
    <3>2. CASE work[q].project = j
      <4>1. w.kind # "session" /\ w.kind # "load"
        BY <1>2, <1>c, <1>h, <3>1, <3>2 DEF Tidy, Session
      <4>2. QED
        BY <1>a, <1>b, <1>2, <3>1, <3>2, <4>1 DEF Tidy
    <3>3. CASE work[q].project # j
      BY <1>a, <1>b, <1>h, <1>2, <3>1, <3>3 DEF Tidy
    <3>4. QED
      BY <3>2, <3>3
  <2>3. QED
    BY <2>1, <2>2 DEF Tidy
\* Who is starting elsewhere still is.
<1>s. \A i \in Projects : i \in Starting /\ ~(w.kind = "session" /\ i = j) => i \in Starting'
  BY <1>e DEF Starting, Session
<1>j. ASSUME Ended, "map" \notin slip' PROVE Ended'
  <2>1. ASSUME NEW q \in Procs, work'[q].kind = "end", pc'[q] \in {"mark", "save"}
        PROVE  /\ work'[q].map[work'[q].project].entry # 0
               /\ pre'[work'[q].project] # None /\ pointers'[work'[q].project] # None =>
                    \/ pointers'[work'[q].project].entry # work'[q].map[work'[q].project].entry
                    \/ work'[q].project \in Starting'
    <3> DEFINE i == work[q].project
    <3>1. q # p /\ work'[q] = work[q] /\ pc'[q] = pc[q] /\ i \in Projects
          /\ work[q].map[i] # None /\ HasMap(q)
      BY <1>e, <1>f, <2>1 DEF Places, Place, HasMap
    <3>2. work[q].map[i].entry # 0
      BY <1>j, <2>1, <3>1 DEF Ended
    <3>3. CASE w.kind = "session" /\ i = j
      <4>1. pointers'[i].entry = w.entry /\ Own(p)
        BY <1>d, <3>3
      <4>2. w.entry # 0 => work[q].map[i].entry # w.entry
        BY <3>1, <4>1 DEF Sessions, Numbered
      <4>3. QED
        BY <3>1, <3>2, <4>1, <4>2
    <3>4. CASE ~(w.kind = "session" /\ i = j) /\ pre[i] # None /\ pointers'[i] # None
      <4>1. pointers[i] # None /\ pointers'[i].entry = pointers[i].entry
        BY <1>b, <1>c, <1>h, <1>j, <3>1, <3>4
      <4>2. QED
        BY <1>j, <1>s, <2>1, <3>1, <3>4, <4>1 DEF Ended
    <3>5. QED
      BY <1>a, <3>1, <3>2, <3>3, <3>4
  <2>2. QED
    BY <2>1 DEF Ended
<1>3. ASSUME Covered, Ended, "map" \notin slip' PROVE Covered'
  <2>1. ASSUME NEW i \in Projects, pre'[i] # None, pointers'[i] = None
        PROVE  i \in Starting'
    <3>1. ~(w.kind = "session" /\ i = j)
      BY <1>d, <2>1
    <3>2. CASE i = j
      <4>1. w.kind = "end"
        BY <1>b, <1>c, <2>1, <3>1, <3>2
      <4>2. w.map[j] # None
        BY <4>1 DEF Places, Place
      <4>3. pre[j] # None /\ pointers[j] # None /\ pointers[j].entry = w.map[j].entry
        BY <1>a, <1>h, <1>3, <2>1, <3>2, <4>2
      <4>4. j \in Starting
        BY <1>a, <1>3, <4>1, <4>3 DEF Ended
      <4>5. QED
        BY <1>s, <3>1, <3>2, <4>4
    <3>3. CASE i # j
      <4>1. pre[i] # None /\ pointers[i] = None
        BY <1>a, <1>b, <1>h, <1>3, <2>1, <3>3
      <4>2. QED
        BY <1>3, <1>s, <3>1, <4>1 DEF Covered
    <3>4. QED
      BY <3>2, <3>3
  <2>2. QED
    BY <2>1 DEF Covered
<1>4. ASSUME Pointed, Tidy, "map" \notin slip' PROVE Pointed'
  <2>1. ASSUME NEW i \in Projects, pre[i] # None, pointers'[i] # None
        PROVE  \A e \in ledger' : e.id = pointers'[i].entry /\ ~e.undone => e.project = i /\ e.before = pre[i]
    <3>1. CASE i = j /\ w.kind = "session"
      <4>1. pre[j] \in {None, w.seen} /\ Restores(w.entry, j, w.seen)
        BY <1>a, <1>d, <1>4, <3>1 DEF Pointed, Restorable, Session, Active
      <4>2. QED
        BY <1>a, <1>d, <2>1, <3>1, <4>1 DEF Restores, Live
    <3>2. CASE ~(i = j /\ w.kind = "session")
      <4>1. pointers[i] # None /\ pointers'[i].entry = pointers[i].entry
        BY <1>b, <1>c, <1>h, <1>4, <2>1, <3>2
      <4>2. QED
        BY <1>a, <1>4, <2>1, <4>1 DEF Pointed, Restores, Live
    <3>3. QED
      BY <3>1, <3>2
  <2>2. ASSUME NEW q \in Procs PROVE Restorable(q)'
    <3>1. CASE q = p
      BY <1>f, <3>1 DEF Restorable
    <3>2. CASE q # p
      <4> DEFINE i == work[q].project
                 n == work[q].map[i].entry
      <4>0. pc'[q] = pc[q] /\ work'[q] = work[q] /\ Restorable(q)
        BY <1>e, <1>4, <3>2 DEF Pointed
      <4>1. ASSUME work[q].kind = "end", pc[q] = "rollback", Live(n) # {}
            PROVE  pointers'[i] # None /\ pointers'[i].entry = n
        <5>1. pointers[i] # None /\ pointers[i].entry = n /\ i \in Projects
          BY <4>0, <4>1 DEF Restorable, Places, Place
        <5>2. CASE i # j
          BY <1>b, <1>h, <1>4, <5>1, <5>2
        <5>3. CASE i = j
          <6>1. w.kind # "session"
            BY <1>4, <5>1, <5>3 DEF Tidy, Session
          <6>2. w.kind # "end"
            <7>1. w.kind = "end" => Live(w.map[j].entry) = {}
              BY <1>a, <1>4 DEF Pointed, Restorable
            <7>2. QED
              BY <1>h, <1>4, <4>1, <5>1, <5>3, <7>1
          <6>3. QED
            BY <1>b, <1>c, <1>h, <1>4, <5>1, <5>3, <6>1, <6>2
        <5>4. QED
          BY <5>2, <5>3
      <4>2. Live(n)' = Live(n)
        BY <1>a, <4>0 DEF Live
      <4>3. QED
        BY <1>a, <4>0, <4>1 DEF Restorable, Own, Session, Restores, Live
    <3>3. QED
      BY <3>1, <3>2
  <2>3. QED
    BY <1>a, <2>1, <2>2 DEF Pointed, Restores, Live
<1>5. QED
  BY <1>1, <1>2, <1>j, <1>3, <1>4 DEF Sessions, Untidy, Uncovered, Unpointed

\* The map is cut short: nothing is named, and what is numbered is as it was.
LEMMA TornKeeps ==
  ASSUME Types, Types', Places, Places', Sessions, NEW p \in Procs, Steps(p), slip \subseteq slip',
         pc[p] = "save", pointers' = [j \in Projects |-> None], Leave(p), "torn" \in slip',
         UNCHANGED <<ledger, records, pre>>
  PROVE  Sessions'
<1>1. pc'[p] = "idle" /\ work'[p] = Blank
  BY LeaveFacts
<1>2. \A q \in Procs \ {p} : pc'[q] = pc[q] /\ work'[q] = work[q] /\ Session(q)' = Session(q)
                             /\ HasMap(q)' = HasMap(q) /\ Own(q)' = Own(q)
  BY DEF Steps, Others, Session, HasMap, Own
<1>3. ~Session(p)' /\ ~HasMap(p)' /\ ~Own(p)'
  BY <1>1, BlankTypes DEF Session, HasMap, Own
<1>4. \A j \in Projects : pointers'[j] = None
  OBVIOUS
<1>5. Numbered'
  BY <1>1, <1>2, <1>3, <1>4 DEF Sessions, Numbered
<1>6. ASSUME Tidy PROVE Tidy'
  <2>1. \A q, r \in Procs : Session(q)' /\ Session(r)' /\ work'[q].project = work'[r].project => q = r
    BY <1>2, <1>3, <1>6 DEF Tidy
  <2>2. ASSUME NEW q \in Procs, Session(q)'
        PROVE  pointers'[work'[q].project] = None /\ (pre'[work'[q].project] # None => pc'[q] \in Active)
    <3>1. work'[q].project \in Projects
      BY <2>2, BlankTypes DEF Session, Places, Place
    <3>2. QED
      BY <1>2, <1>3, <1>4, <1>6, <2>2, <3>1 DEF Tidy
  <2>3. QED
    BY <2>1, <2>2 DEF Tidy
<1>7. QED
  BY <1>5, <1>6 DEF Sessions, Untidy, Uncovered, Unpointed

LEMMA SaveKeeps ==
  ASSUME Types, Types', Places, Places', Sessions, NEW p \in Procs, Steps(p), SaveMap(p), slip \subseteq slip'
  PROVE  Sessions'
<1>1. pc[p] = "save" /\ UNCHANGED <<ledger, records, pre>>
  BY DEF SaveMap
<1>2. CASE pointers' = NewMap(work[p]) /\ Leave(p) /\ slip' = Slips("map", work[p].map # pointers)
  BY <1>1, <1>2, SavedKeeps
<1>3. CASE UNCHANGED pointers /\ GiveUp(p)
  BY <1>1, <1>3, GiveUpMeans, MeansKeeps
<1>4. CASE pointers' = [j \in Projects |-> None] /\ Leave(p) /\ slip' = slip \cup {"torn"}
  BY <1>1, <1>4, TornKeeps
<1>5. QED
  BY <1>2, <1>3, <1>4 DEF SaveMap

-----------------------------------------------------------------------------
(* The theorems                                                            *)

Inv == Types /\ Places /\ RunsDiffer /\ Guarded /\ Originals /\ Sessions

LEMMA CommandKeepsSessions ==
  ASSUME Types, Places, Sessions, Next, NEW p \in Procs, Command(p)
  PROVE  Sessions'
<1>1. Types' /\ Places' /\ Steps(p) /\ slip \subseteq slip'
  BY CommandTypes, SlipsGrow
<1>2. ASSUME Means(p) PROVE Sessions'
  BY <1>1, <1>2, MeansKeeps
<1>3. CASE \E j \in Projects :
             \/ \E body \in Texts : BeginApply(p, j, body) \/ BeginSession(p, j, body)
             \/ BeginEnd(p, j) \/ BeginLoad(p, j) \/ BeginLocked(p, j)
             \/ \E e \in ledger : BeginUndo(p, j, e) \/ BeginRestore(p, j, e)
  BY <1>2, <1>3, BeginMeans
<1>4. CASE Capture(p) \/ Snapshot(p)
  BY <1>2, <1>4, CaptureMeans
<1>5. CASE RecordWrite(p) \/ RecordSession(p) \/ LoadMap(p)
  BY <1>2, <1>5, RecordWriteMeans, RecordSessionMeans, LoadMapMeans
<1>6. CASE \/ CaptureBefore(p) \/ RecordUndo(p) \/ Rollback(p) \/ Mark(p)
           \/ SkipUndone(p) \/ Unrestored(p) \/ MarkFails(p)
  BY <1>2, <1>6, UndoMeans
<1>7. CASE Park(p) \/ Scope(p) \/ Compare(p) \/ PutBack(p) \/ Unpark(p) \/ Release(p)
  BY <1>2, <1>7, LockedMeans
<1>8. CASE Write(p)
  BY <1>1, <1>8, WriteKeeps
<1>9. CASE SaveMap(p)
  BY <1>1, <1>9, SaveKeeps
<1>10. CASE Die(p) \/ Abort(p)
  <2>1. pc[p] # "idle" /\ GiveUp(p) /\ UNCHANGED <<ledger, pointers, records, pre>>
    BY <1>10 DEF Die, Abort, disk
  <2>2. QED
    BY <1>2, <2>1, GiveUpMeans
<1>11. QED
  BY <1>3, <1>4, <1>5, <1>6, <1>7, <1>8, <1>9, <1>10, FailsUnrestored DEF Command

LEMMA HandKeepsSessions ==
  ASSUME Sessions, UNCHANGED <<pc, work, ledger, pointers, records, pre, slip>>
  PROVE  Sessions'
<1>1. \A q \in Procs : Session(q)' = Session(q) /\ HasMap(q)' = HasMap(q) /\ Own(q)' = Own(q)
  BY DEF Session, HasMap, Own
<1>2. Numbered' = Numbered
  BY <1>1 DEF Numbered
<1>3. Tidy' = Tidy
  BY <1>1 DEF Tidy
<1>4. Covered' = Covered
  BY <1>1 DEF Covered, Starting
<1>e. Ended' = Ended
  BY <1>1 DEF Ended, Starting
<1>5. Pointed => Pointed'
  BY <1>1 DEF Pointed, Restorable, Restores, Live
<1>6. QED
  BY <1>2, <1>3, <1>4, <1>e, <1>5 DEF Sessions, Untidy, Uncovered, Unpointed

LEMMA InitInv == Init => Inv
<1> SUFFICES ASSUME Init PROVE Inv
  OBVIOUS
<1>1. \A p \in Procs : pc[p] = "idle" /\ work[p] = Blank
  BY DEF Init
<1>2. Types
  <2>1. /\ file \in [Projects -> Bodies] /\ pointers \in Map
        /\ sentinel \in [Projects -> Runs \cup {None}] /\ parked \in [Runs -> Bodies \cup {None}]
        /\ pc \in [Procs -> Locations] /\ work = [p \in Procs |-> work[p]]
        /\ pre \in [Projects -> Bodies \cup {None}] /\ over \in [Runs -> Bodies \cup {None}]
        /\ commands \in 0..MaxCommands /\ records \in Nat /\ ledger = {}
    BY FilesAssumption DEF Init, Bodies, Map, Locations
  <2>2. \A p \in Procs : Held(p)
    BY <1>1, BlankTypes DEF Held
  <2>3. QED
    BY <2>1, <2>2 DEF Types
<1>3. Places
  BY <1>1, BlankTypes DEF Places, Place, LockedAt
<1>4. RunsDiffer /\ Guarded
  BY <1>1, BlankTypes DEF RunsDiffer, Guarded
<1>5. Untaken
  <2>1. \A p \in Procs : Taken(p) /\ Bodied(p)
    BY <1>1, BlankTypes DEF Taken, Bodied
  <2>2. \A j \in Projects : file[j] \notin Runs
    BY NoBody DEF Init
  <2>3. ledger = {}
    BY DEF Init
  <2>4. QED
    BY <2>1, <2>2, <2>3 DEF Untaken
<1>6. \A p \in Procs : ~Session(p) /\ ~HasMap(p) /\ ~Own(p)
  BY <1>1, BlankTypes DEF Session, HasMap, Own
<1>7. ledger = {} /\ \A j \in Projects : pointers[j] = None /\ pre[j] = None
  BY DEF Init
<1>8. Numbered /\ Tidy /\ Covered /\ Ended
  BY <1>1, <1>6, <1>7, BlankTypes DEF Numbered, Tidy, Covered, Ended
<1>9. Pointed
  BY <1>1, <1>6, <1>7, BlankTypes DEF Pointed, Restorable
<1>10. QED
  BY <1>2, <1>3, <1>4, <1>5, <1>8, <1>9 DEF Inv, Originals, Sessions

LEMMA NextInv == Inv /\ [Next]_vars => Inv'
<1> SUFFICES ASSUME Inv, [Next]_vars PROVE Inv'
  OBVIOUS
<1>a. Types /\ Places /\ RunsDiffer /\ Guarded /\ Originals /\ Sessions
  BY DEF Inv
<1>1. CASE Next
  <2>1. Types' /\ Places'
    BY <1>1, <1>a, CommandTypes, HandTypes DEF Next
  <2>2. RunsDiffer' /\ Guarded'
    BY <1>1, <1>a, GuardInv
  <2>3. Originals'
    BY <1>1, <1>a, OriginalsInv
  <2>4. CASE \E p \in Procs : Command(p)
    BY <1>1, <1>a, <2>1, <2>2, <2>3, <2>4, CommandKeepsSessions DEF Inv
  <2>5. CASE \/ \E j \in Projects : RemoveSentinel(j)
             \/ \E j \in Projects, body \in Texts \cup {Missing} : Edit(j, body)
    <3>1. UNCHANGED <<pc, work, ledger, pointers, records, pre, slip>>
      BY <2>5 DEF RemoveSentinel, Edit, history
    <3>2. QED
      BY <1>a, <2>1, <2>2, <2>3, <3>1, HandKeepsSessions DEF Inv
  <2>6. QED
    BY <1>1, <2>4, <2>5 DEF Next
<1>2. CASE UNCHANGED vars
  <2>1. Types' /\ Places' /\ RunsDiffer' /\ Guarded'
    BY <1>2, <1>a DEF vars, Types, Held, Places, Place, RunsDiffer, Guarded
  <2>2. Untaken => Untaken'
    BY <1>2 DEF vars, Untaken, Taken, Bodied
  <2>3. Window' = Window
    BY <1>2 DEF vars, Window
  <2>4. Sessions'
    BY <1>2, <1>a, HandKeepsSessions DEF vars
  <2>5. QED
    BY <1>a, <2>1, <2>2, <2>3, <2>4 DEF Inv, Originals
<1>3. QED
  BY <1>1, <1>2

\* What is where, whose guard stands, what the ledger and the run directories
\* hold and what the pointers name, in every state.
THEOREM InvariantTheorem == Spec => []Inv
  BY InitInv, NextInv, PTL DEF Spec

\* While a locked run's gateway-only body is on disk, what it replaced is in
\* the run's directory (ScopedMcpConfig of commands/locked.rs), however many
\* runs, sessions, undos and edits share the project and whoever dies: but for
\* the two windows, in which somebody read while a body stood or the file moved
\* between the reading and the write.
THEOREM OriginalTheorem == Spec => []OriginalIsKept
<1>1. Inv => OriginalIsKept
  BY DEF Inv, Originals, Untaken, Window, OriginalIsKept
<1>2. QED
  BY <1>1, InvariantTheorem, PTL

\* What a locked run puts back when it is over never takes the body of another
\* one that is alive: the guard excludes them, and no run has another's number.
THEOREM RestoreTheorem == Spec => RestoreWidensNobody
<1>1. ASSUME Inv, NEW p \in Procs, NEW q \in Procs, pc[p] = "putback", q # p
      PROVE  ~(work[q].kind = "locked" /\ work[q].project = work[p].project)
  <2>1. work[p].kind = "locked" /\ pc[p] # "idle"
    BY <1>1 DEF Inv, Places, Place, LockedAt
  <2>2. QED
    BY <1>1, <2>1 DEF Inv, Guarded, RunsDiffer
<1>2. Inv => [\A p, q \in Procs :
        pc[p] = "putback" /\ file' # file /\ pc'[p] = "unpark" /\ q # p
          => ~(work[q].kind = "locked" /\ work[q].project = work[p].project)]_vars
  BY <1>1
<1>3. QED
  BY <1>2, InvariantTheorem, PTL DEF RestoreWidensNobody

\* A session in effect is named by sessions.json or still at its start
\* (session.rs), through every interleaving of sessions, ends and loads in any
\* number of projects and whatever write fails, but for the windows
\* ActiveHasPointer lists: the map lost or saved stale, a start that stopped
\* with its toolset in effect, an end that could not take it out.
THEOREM PointerTheorem == Spec => []ActiveHasPointer
<1>1. Inv => ActiveHasPointer
  BY DEF Inv, Sessions, Uncovered, Covered, Starting, Session, Active, ActiveHasPointer
<1>2. QED
  BY <1>1, InvariantTheorem, PTL

\* A session's end puts back what was there when its toolset came into effect,
\* whatever applies, undos, locked runs, edits, other ends, deaths and failing
\* writes came in between, but for the windows EndRestores lists: a rollback
\* that fails is one of them, and nothing else excuses a step of an end that
\* goes on to drop the pointer.
THEOREM EndTheorem == Spec => EndRestores
<1> DEFINE Safe(p) ==
        LET j == work[p].project IN
        work[p].kind = "end" /\ pc[p] = "rollback" /\ pc'[p] \in {"mark", "save"} /\ pre[j] # None
          => \/ file'[j] = pre[j]
             \/ slip' \cap {"unrestored", "undone", "twice", "overtaken", "map", "unmarked", "torn"} # {}
<1>1. ASSUME Inv, Next, NEW p \in Procs PROVE Safe(p)
  <2> DEFINE w == work[p]
             j == w.project
             n == w.map[j].entry
  <2> SUFFICES ASSUME w.kind = "end", pc[p] = "rollback", pc'[p] \in {"mark", "save"}, pre[j] # None,
                      slip' \cap {"unrestored", "undone", "twice", "overtaken", "map", "unmarked", "torn"} = {}
               PROVE  file'[j] = pre[j]
    OBVIOUS
  <2>1. /\ Types /\ Places /\ Sessions /\ j \in Projects /\ w.ids = <<n>> /\ w.map[j] # None
    BY <1>1 DEF Inv, Places, Place
  <2>2. ~Unpointed
    BY <1>1, SlipsGrow DEF Unpointed
  <2>3. Pointed
    BY <2>1, <2>2 DEF Sessions
  <2>4. Head(w.ids) = n
    <3>1. \A x : Head(<<x>>) = x
      OBVIOUS
    <3>2. QED
      BY <2>1, <3>1
  <2>5. Rollback(p) \/ SkipUndone(p) \/ Unrestored(p)
    <3>1. PICK q \in Procs : Command(q)
      <4>1. ~ \/ \E i \in Projects : RemoveSentinel(i)
              \/ \E i \in Projects, body \in Texts \cup {Missing} : Edit(i, body)
        BY DEF RemoveSentinel, Edit
      <4>2. QED
        BY <1>1, <4>1 DEF Next
    <3>2. Steps(q)
      BY <2>1, <3>1, CommandTypes
    <3>3. q = p
      BY <3>2 DEF Steps, Others
    <3>4. ~Die(p)
      BY <2>1, LeaveFacts DEF Die, GiveUp
    <3>5. QED
      BY <3>1, <3>3, <3>4, FailsUnrestored
         DEF Command, BeginApply, BeginSession, BeginEnd, BeginLoad, BeginLocked, BeginUndo,
         BeginRestore, Start, Capture, Write, RecordWrite, Abort, Snapshot, RecordSession, LoadMap, SaveMap,
         CaptureBefore, RecordUndo, Mark, MarkFails, Park, Scope, Compare, PutBack, Unpark, Release
  <2>6. CASE Rollback(p)
    <3>1. PICK e \in Named(n) : ~e.undone /\ file' = [file EXCEPT ![e.project] = e.before]
      BY <2>4, <2>6 DEF Rollback
    <3>2. e \in Live(n)
      BY <3>1 DEF Named, Live
    <3>3. pointers[j] # None /\ pointers[j].entry = n
      BY <2>3, <3>2 DEF Pointed, Restorable
    <3>4. e.project = j /\ e.before = pre[j]
      BY <2>1, <2>3, <3>2, <3>3 DEF Pointed, Restores
    <3>5. QED
      BY <2>1, <3>1, <3>4, StateTypes
  <2>7. CASE SkipUndone(p)
    BY <2>7 DEF SkipUndone, Slips
  <2>8. CASE Unrestored(p)
    BY <2>8 DEF Unrestored, NotRestored
  <2>9. QED
    BY <2>5, <2>6, <2>7, <2>8
<1>3. Inv /\ [Next]_vars => [\A p \in Procs : Safe(p)]_vars
  BY <1>1
<1>4. QED
  BY <1>3, InvariantTheorem, PTL DEF Spec, EndRestores

-----------------------------------------------------------------------------
(* The order of an undo                                                    *)

\* A set of numbers that is not empty has a least one.
LEMMA NatMin ==
  ASSUME NEW T, T \subseteq Nat, T # {}
  PROVE  \E n \in T : \A m \in T : n <= m
<1> DEFINE R == OpToRel(<, Nat)
<1>1. PICK n \in T : \A m \in T : ~(<<m, n>> \in R)
  BY NatLessThanWellFounded, WFMin
<1>2. \A m \in Nat : m < n => <<m, n>> \in R
  BY DEF OpToRel
<1> HIDE DEF R
<1>3. n \in Nat /\ \A m \in T : m \in Nat /\ ~(m < n)
  BY <1>1, <1>2
<1>4. QED
  BY <1>3

\* Induction over a set of numbers.
LEMMA Induct ==
  ASSUME NEW T, 0 \in T, \A n \in Nat : n \in T => n + 1 \in T
  PROVE  Nat \subseteq T
<1> SUFFICES ASSUME Nat \ T # {} PROVE FALSE
  OBVIOUS
<1>1. PICK n \in Nat \ T : \A m \in Nat \ T : n <= m
  BY NatMin
<1>2. n # 0 /\ n - 1 \in Nat /\ n - 1 < n
  OBVIOUS
<1>3. n - 1 \in T
  BY <1>1, <1>2
<1>4. (n - 1) + 1 = n
  BY <1>2
<1>5. QED
  BY <1>2, <1>3, <1>4

\* The numbers of a finite set can be listed from the greatest down.
LEMMA DescentExists ==
  ASSUME NEW ids \in SUBSET Nat, IsFiniteSet(ids)
  PROVE  \E order \in [1..Cardinality(ids) -> ids] :
           \A i, j \in 1..Cardinality(ids) : i < j => order[i] > order[j]
<1> DEFINE Sorted(o, n) == \A i, j \in 1..n : i < j => o[i] > o[j]
           T == {n \in Nat : \A S \in SUBSET Nat : IsFiniteSet(S) /\ Cardinality(S) = n
                   => \E o \in [1..n -> S] : Sorted(o, n)}
<1>1. 0 \in T
  <2>1. ASSUME NEW S \in SUBSET Nat, IsFiniteSet(S), Cardinality(S) = 0
        PROVE  \E o \in [1..0 -> S] : Sorted(o, 0)
    <3>1. [i \in 1..0 |-> i] \in [1..0 -> S]
      OBVIOUS
    <3>2. Sorted([i \in 1..0 |-> i], 0)
      OBVIOUS
    <3> HIDE DEF Sorted
    <3>3. QED
      BY <3>1, <3>2
  <2>2. QED
    BY <2>1
<1>2. ASSUME NEW n \in Nat, n \in T
      PROVE  n + 1 \in T
  <2>1. ASSUME NEW S \in SUBSET Nat, IsFiniteSet(S), Cardinality(S) = n + 1
        PROVE  \E o \in [1..(n + 1) -> S] : Sorted(o, n + 1)
    <3>1. S # {}
      BY <2>1, FS_EmptySet
    <3>2. PICK x \in S : \A y \in S : x <= y
      BY <3>1, NatMin
    <3>3. S \ {x} \in SUBSET Nat /\ IsFiniteSet(S \ {x}) /\ Cardinality(S \ {x}) = n
      <4>1. IsFiniteSet(S \ {x}) /\ Cardinality(S \ {x}) = Cardinality(S) - 1
        BY <2>1, FS_RemoveElement
      <4>2. QED
        BY <2>1, <4>1
    <3>4. PICK o \in [1..n -> S \ {x}] : Sorted(o, n)
      BY <1>2, <3>3
    <3> DEFINE q == [i \in 1..(n + 1) |-> IF i = n + 1 THEN x ELSE o[i]]
    <3>5. \A i \in 1..n : i # n + 1 /\ i \in 1..(n + 1) /\ o[i] \in S /\ o[i] # x
      BY <3>4
    <3>6. \A i \in 1..(n + 1) : i = n + 1 \/ i \in 1..n
      OBVIOUS
    <3>7. q \in [1..(n + 1) -> S]
      BY <3>5, <3>6
    <3>8. ASSUME NEW i \in 1..(n + 1), NEW j \in 1..(n + 1), i < j
          PROVE  q[i] > q[j]
      <4>1. i \in 1..n /\ q[i] = o[i] /\ o[i] \in S /\ o[i] # x
        BY <3>5, <3>8
      <4>2. CASE j = n + 1
        <5>1. x <= o[i] /\ x \in Nat /\ o[i] \in Nat /\ q[j] = x
          BY <3>2, <4>1, <4>2
        <5>2. QED
          BY <4>1, <5>1
      <4>3. CASE j # n + 1
        BY <3>4, <3>5, <3>6, <3>8, <4>1, <4>3
      <4>4. QED
        BY <4>2, <4>3
    <3>9. QED
      BY <3>7, <3>8
  <2>2. QED
    BY <2>1
<1> HIDE DEF T
<1>3. Nat \subseteq T
  BY <1>1, <1>2, Induct
<1>4. Cardinality(ids) \in T
  BY <1>3, FS_CardinalityType
<1>5. QED
  BY <1>4 DEF T

\* A list of numbers from the greatest down.
Descends(order, n) == \A i, j \in 1..n : i < j => order[i] > order[j]

Least(m, ids) == m \in ids /\ \A k \in ids : m <= k

\* A list that descends through a finite set of numbers, and is as long as the
\* set is large, ends with the least of them.
LEMMA DescentEnds ==
  ASSUME NEW ids, ids \subseteq Nat, IsFiniteSet(ids), NEW m, Least(m, ids),
         NEW n, n = Cardinality(ids), NEW o, o \in [1..n -> ids], Descends(o, n)
  PROVE  /\ n \in Nat \ {0} /\ o \in Seq(ids) /\ Len(o) = n /\ o # <<>> /\ o[n] = m
<1> USE DEF Descends, Least
<1>1. n \in Nat
  BY FS_CardinalityType
<1>2. n # 0
  BY FS_EmptySet
<1>3. \A i, j \in 1..n : o[i] = o[j] => i = j
  <2>1. ASSUME NEW i \in 1..n, NEW j \in 1..n, o[i] = o[j] PROVE i = j
    <3>1. o[i] \in Nat /\ o[j] \in Nat
      OBVIOUS
    <3>2. ~(i < j) /\ ~(j < i)
      BY <2>1, <3>1
    <3>3. QED
      BY <1>1, <3>2
  <2>2. QED
    BY <2>1
<1>4. ASSUME \A i \in 1..n : o[i] # m
      PROVE  FALSE
  <2> DEFINE D == ids \ {m}
             N == 1..n
  <2>1. o \in [N -> D]
    BY <1>4
  <2>2. IsFiniteSet(D) /\ Cardinality(D) = n - 1
    BY FS_RemoveElement
  <2>3. IsFiniteSet(N) /\ Cardinality(N) = n
    BY <1>1, FS_Interval
  <2>4. Cardinality(D) < Cardinality(N)
    BY <1>1, <2>2, <2>3
  <2> HIDE DEF D, N
  <2>5. \E i, j \in N : i # j /\ o[i] = o[j]
    BY <2>1, <2>2, <2>3, <2>4, FS_PigeonHole
  <2>6. QED
    BY <1>3, <2>5 DEF N
<1>5. PICK i \in 1..n : o[i] = m
  BY <1>4
<1>6. i = n
  <2>1. n \in 1..n /\ o[n] \in ids
    BY <1>1, <1>2
  <2>2. m <= o[n] /\ o[n] \in Nat /\ m \in Nat
    BY <2>1
  <2>3. ~(i < n)
    BY <1>5, <2>1, <2>2
  <2>4. QED
    BY <1>1, <2>3
<1>7. o \in Seq(ids) /\ Len(o) = n
  BY <1>1
<1>8. o # <<>>
  BY <1>2, <1>7
<1>9. QED
  BY <1>1, <1>2, <1>5, <1>6, <1>7, <1>8

\* What the ledger, or an undo about to mark its entry, says there was before.
Origins ==
    {<<e.id, e.before>> : e \in ledger}
      \cup {<<work[q].undoing.id, work[q].undoing.before>> : q \in {r \in Procs : pc[r] = "mark"}}

\* An entry has its own number, and nobody changes what it says.
Recorded ==
    /\ IsFiniteSet(ledger)
    /\ \A o \in Origins : o[1] \in 1..records
    /\ \A o, u \in Origins : o[1] = u[1] => o[2] = u[2]

UndoAt == {"before", "redo", "rollback", "mark"}

\* The last entry an undo has before it is the chosen one, and it holds what
\* the undo aims at.
Aimed(p) ==
    LET w == work[p] IN
    /\ w.ids \in Seq(Nat)
    /\ pc[p] \in UndoAt => w.ids # <<>>
    /\ w.kind = "undo" =>
         /\ pc[p] \in UndoAt
         /\ w.ids \in Seq(1..records)
         /\ \A o \in Origins : o[1] = Last(w.ids) => o[2] = w.target
         /\ pc[p] = "mark" => w.undoing.id = Head(w.ids) /\ w.seen = w.undoing.before

Aims == \A p \in Procs : Aimed(p)

\* A new entry has a new number; all else that is known was known.
Grown ==
    \/ records' = records /\ Origins' \subseteq Origins
    \/ records' = records + 1 /\ \E b : Origins' \subseteq Origins \cup {<<records', b>>}

\* A new entry is numbered anew, so no number says two things.
LEMMA GrownKeepsRecorded ==
  ASSUME Types, Recorded, Grown, IsFiniteSet(ledger')
  PROVE  Recorded'
<1>1. records \in Nat /\ \A o \in Origins : o[1] \in 1..records
  BY StateTypes DEF Recorded
<1>2. CASE records' = records /\ Origins' \subseteq Origins
  BY <1>2 DEF Recorded
<1>3. CASE records' = records + 1 /\ \E b : Origins' \subseteq Origins \cup {<<records', b>>}
  <2>1. PICK b : Origins' \subseteq Origins \cup {<<records', b>>}
    BY <1>3
  <2>2. \A o \in Origins' : o \in Origins \/ (o[1] = records' /\ o[2] = b)
    BY <2>1
  <2>3. records' \in 1..records' /\ \A n \in 1..records : n \in 1..records' /\ n # records'
    BY <1>1, <1>3
  <2>4. \A o \in Origins' : o[1] \in 1..records'
    BY <1>1, <2>2, <2>3
  <2>5. \A o, u \in Origins' : o[1] = u[1] => o[2] = u[2]
    BY <1>1, <2>2, <2>3 DEF Recorded
  <2>6. QED
    BY <2>4, <2>5 DEF Recorded
<1>4. QED
  BY <1>2, <1>3 DEF Grown

\* The ends of a list are of its members.
LEMMA LastOf ==
  ASSUME NEW S, NEW s \in Seq(S), s # <<>>
  PROVE  Last(s) \in S /\ Head(s) \in S /\ (Len(s) = 1 => Head(s) = Last(s))
  BY DEF Last

\* The rest of a list ends where the list does.
LEMMA LastOfTail ==
  ASSUME NEW S, NEW s \in Seq(S), s # <<>>, Len(s) # 1
  PROVE  Tail(s) \in Seq(S) /\ Tail(s) # <<>> /\ Last(Tail(s)) = Last(s)
<1>0. Len(s) \in Nat /\ Len(s) # 0
  OBVIOUS
<1>a. \A n \in Nat : n # 0 /\ n # 1 => n >= 2
  OBVIOUS
<1>1. Len(s) \in Nat /\ Len(s) >= 2
  BY <1>0, <1>a
<1>2. Tail(s) \in Seq(S) /\ Len(Tail(s)) = Len(s) - 1 /\ \A i \in 1..(Len(s) - 1) : Tail(s)[i] = s[i + 1]
  BY <1>1
<1>3. Len(s) - 1 \in 1..(Len(s) - 1) /\ (Len(s) - 1) + 1 = Len(s)
  BY <1>1
<1>4. QED
  BY <1>1, <1>2, <1>3 DEF Last

\* What a command aims at stays, whatever is recorded.
LEMMA AimStays ==
  ASSUME Types, Recorded, Grown, NEW p \in Procs, Aimed(p),
         work'[p].ids = work[p].ids, work'[p].kind = work[p].kind, work'[p].target = work[p].target,
         \/ pc'[p] = pc[p] /\ work'[p] = work[p]
         \/ pc'[p] # "mark" /\ pc'[p] \in UndoAt /\ pc[p] \in UndoAt
         \/ pc'[p] \notin UndoAt /\ work[p].kind # "undo"
  PROVE  Aimed(p)'
<1> DEFINE w == work[p]
<1>1. records \in Nat /\ records' \in Nat /\ 1..records \subseteq 1..records'
  BY StateTypes DEF Grown
<1>2. w.ids \in Seq(Nat) /\ (pc'[p] \in UndoAt => w.ids # <<>>)
  BY DEF Aimed
<1>3. ASSUME w.kind = "undo"
      PROVE  /\ pc'[p] \in UndoAt /\ w.ids \in Seq(1..records')
             /\ \A o \in Origins' : o[1] = Last(w.ids) => o[2] = w.target
             /\ pc'[p] = "mark" => work'[p].undoing.id = Head(w.ids) /\ work'[p].seen = work'[p].undoing.before
  <2>1. pc[p] \in UndoAt /\ w.ids # <<>> /\ w.ids \in Seq(1..records)
        /\ \A o \in Origins : o[1] = Last(w.ids) => o[2] = w.target
    BY <1>3 DEF Aimed
  <2>2. Last(w.ids) \in 1..records
    BY <2>1, LastOf
  <2>3. w.ids \in Seq(1..records')
    BY <1>1, <2>1
  <2>4. ASSUME NEW o \in Origins', o[1] = Last(w.ids) PROVE o \in Origins
    <3>1. CASE Origins' \subseteq Origins
      BY <3>1
    <3>2. CASE records' = records + 1 /\ \E b : Origins' \subseteq Origins \cup {<<records', b>>}
      <4>1. o \in Origins \/ o[1] = records'
        BY <3>2
      <4>2. records' \notin 1..records
        BY <1>1, <3>2
      <4>3. QED
        BY <2>2, <2>4, <4>1, <4>2
    <3>3. QED
      BY <3>1, <3>2 DEF Grown
  <2>5. pc'[p] \in UndoAt
    BY <1>3, <2>1
  <2>6. pc'[p] = "mark" => work'[p].undoing.id = Head(w.ids) /\ work'[p].seen = work'[p].undoing.before
    BY <1>3 DEF Aimed
  <2>7. QED
    BY <2>1, <2>3, <2>4, <2>5, <2>6
<1>4. QED
  BY <1>2, <1>3 DEF Aimed

\* One command's aim is all that can be new.
LEMMA AimsStay ==
  ASSUME Types, Recorded, Aims, Grown, NEW p \in Procs, Others(p), Aimed(p)'
  PROVE  Aims'
<1>1. ASSUME NEW q \in Procs \ {p} PROVE Aimed(q)'
  <2>1. pc'[q] = pc[q] /\ work'[q] = work[q] /\ Aimed(q)
    BY DEF Others, Aims
  <2>2. QED
    BY <2>1, AimStays
<1>2. QED
  BY <1>1 DEF Aims

\* A list over a set is one over any larger set.
LEMMA SeqIn ==
  ASSUME NEW S, NEW T, S \subseteq T, NEW s \in Seq(S)
  PROVE  s \in Seq(T)
  OBVIOUS

\* Selection is not empty, ends with the chosen change, and what the ledger says
\* of that change is what the undo aims at.
LEMMA SelectionAims ==
  ASSUME Types, Recorded, NEW j \in Projects, NEW to \in Undoable(j)
  PROVE  LET ids == Selection(j, to) IN
         /\ ids \in Seq(1..records) /\ ids # <<>> /\ Last(ids) = to.id
         /\ \A o \in Origins : o[1] = to.id => o[2] = to.before
<1> DEFINE chosen == {e \in Undoable(j) : e.id >= to.id}
           S == {e.id : e \in chosen}
           n == Cardinality(S)
           o == NewestFirst(chosen)
<1>1. records \in Nat /\ ledger \subseteq Entry
  BY StateTypes
<1>2. \A e \in ledger : <<e.id, e.before>> \in Origins
  BY DEF Origins
<1>3. \A e \in ledger : e.id \in 1..records
  BY <1>2 DEF Recorded
<1>4. to \in ledger /\ chosen \subseteq ledger
  BY DEF Undoable
<1>5. S \subseteq 1..records /\ S \in SUBSET Nat
  BY <1>3, <1>4
<1>6. IsFiniteSet(S)
  <2>1. IsFiniteSet(1..records)
    BY <1>1, FS_Interval
  <2>2. QED
    BY <1>5, <2>1, FS_Subset
<1>7. to.id \in S /\ \A k \in S : to.id <= k
  <2>1. to.id \in Nat
    BY <1>1, <1>4 DEF Entry
  <2>2. to \in chosen
    BY <2>1
  <2>3. \A e \in chosen : e.id \in Nat /\ to.id <= e.id
    BY <1>3, <1>4, <2>1
  <2>4. QED
    BY <2>2, <2>3
<1>8. o \in [1..n -> S] /\ \A i, k \in 1..n : i < k => o[i] > o[k]
  <2>1. \E order \in [1..n -> S] : \A i, k \in 1..n : i < k => order[i] > order[k]
    BY <1>5, <1>6, DescentExists
  <2>2. o = CHOOSE order \in [1..n -> S] : \A i, k \in 1..n : i < k => order[i] > order[k]
    BY DEF NewestFirst
  <2> HIDE DEF o, n, S, chosen
  <2>3. QED
    BY <2>1, <2>2
<1>9. o = Selection(j, to)
  BY DEF Selection
<1>10. n = Cardinality(S)
  OBVIOUS
<1> HIDE DEF o, n, S, chosen
<1>11. n \in Nat \ {0} /\ o \in Seq(S) /\ Len(o) = n /\ o # <<>> /\ o[n] = to.id
  <2>1. Least(to.id, S) /\ Descends(o, n) /\ o \in [1..n -> S] /\ S \subseteq Nat
    BY <1>5, <1>7, <1>8 DEF Least, Descends
  <2>2. QED
    BY ONLY <1>6, <1>10, <2>1, DescentEnds
<1>12. o \in Seq(1..records) /\ o # <<>> /\ Last(o) = to.id
  <2>1. o \in Seq(1..records)
    BY <1>5, <1>11, SeqIn
  <2>2. QED
    BY <1>11, <2>1 DEF Last
<1>13. \A u \in Origins : u[1] = to.id => u[2] = to.before
  BY <1>2, <1>4 DEF Recorded
<1>14. QED
  BY <1>9, <1>12, <1>13

\* Nothing new is known when no entry is.
LEMMA KnownStays ==
  ASSUME Types, NEW p \in Procs, Others(p), records' = records, ledger' \subseteq ledger,
         pc'[p] = "mark" => work'[p].undoing \in ledger
  PROVE  Grown
<1>1. ASSUME NEW o \in Origins' PROVE o \in Origins
  <2>1. CASE \E e \in ledger' : o = <<e.id, e.before>>
    BY <2>1 DEF Origins
  <2>2. CASE \E q \in Procs : pc'[q] = "mark" /\ o = <<work'[q].undoing.id, work'[q].undoing.before>>
    <3>1. PICK q \in Procs : pc'[q] = "mark" /\ o = <<work'[q].undoing.id, work'[q].undoing.before>>
      BY <2>2
    <3>2. CASE q = p
      BY <3>1, <3>2 DEF Origins
    <3>3. CASE q # p
      <4>1. pc[q] = "mark" /\ work'[q] = work[q]
        BY <3>1, <3>3 DEF Others
      <4>2. QED
        BY <3>1, <4>1 DEF Origins
    <3>4. QED
      BY <3>2, <3>3
  <2>3. QED
    BY <2>1, <2>2 DEF Origins
<1>2. QED
  BY <1>1 DEF Grown

\* history::record adds one entry under a new number.
LEMMA RecordGrows ==
  ASSUME Types, IsFiniteSet(ledger), NEW p \in Procs, Others(p), pc'[p] # "mark",
         NEW j \in Projects, NEW b \in Bodies, Record(j, b)
  PROVE  Grown /\ IsFiniteSet(ledger') /\ ledger' \subseteq Entry
<1> DEFINE f == [id |-> records', project |-> j, before |-> b, undone |-> FALSE]
<1>1. records' = records + 1 /\ ledger' \subseteq ledger \cup {f} /\ ledger' \subseteq Entry
  BY RecordTypes
<1>2. f.id = records' /\ f.before = b
  OBVIOUS
<1> HIDE DEF f
<1>3. IsFiniteSet(ledger')
  BY <1>1, FS_AddElement, FS_Subset
<1>4. ASSUME NEW o \in Origins' PROVE o \in Origins \cup {<<records', b>>}
  <2>1. CASE \E e \in ledger' : o = <<e.id, e.before>>
    <3>1. PICK e \in ledger' : o = <<e.id, e.before>>
      BY <2>1
    <3>2. CASE e \in ledger
      BY <3>1, <3>2 DEF Origins
    <3>3. CASE e = f
      BY <3>1, <3>3, <1>2
    <3>4. QED
      BY <1>1, <3>2, <3>3
  <2>2. CASE \E q \in Procs : pc'[q] = "mark" /\ o = <<work'[q].undoing.id, work'[q].undoing.before>>
    <3>1. PICK q \in Procs : pc'[q] = "mark" /\ o = <<work'[q].undoing.id, work'[q].undoing.before>>
      BY <2>2
    <3>2. pc[q] = "mark" /\ work'[q] = work[q]
      BY <3>1 DEF Others
    <3>3. QED
      BY <3>1, <3>2 DEF Origins
  <2>3. QED
    BY <2>1, <2>2 DEF Origins
<1>5. QED
  BY <1>1, <1>3, <1>4 DEF Grown

\* The entry that is marked says what it said.
LEMMA MarkGrows ==
  ASSUME Types, Places, IsFiniteSet(ledger), NEW p \in Procs, Others(p), pc[p] = "mark", pc'[p] # "mark",
         MarkUndone(work[p].undoing), records' = records
  PROVE  Grown /\ IsFiniteSet(ledger')
<1> DEFINE e == work[p].undoing
           f == [e EXCEPT !.undone = TRUE]
<1>1. e \in Entry /\ f.id = e.id /\ f.before = e.before
  BY DEF Places, Place, Entry
<1>2. ledger' \subseteq ledger \cup {f}
  BY DEF MarkUndone
<1>3. <<f.id, f.before>> \in Origins
  BY <1>1 DEF Origins
<1> HIDE DEF f
<1>4. IsFiniteSet(ledger')
  BY <1>2, FS_AddElement, FS_Subset
<1>5. ASSUME NEW o \in Origins' PROVE o \in Origins
  <2>1. CASE \E d \in ledger' : o = <<d.id, d.before>>
    <3>1. PICK d \in ledger' : o = <<d.id, d.before>>
      BY <2>1
    <3>2. CASE d \in ledger
      BY <3>1, <3>2 DEF Origins
    <3>3. CASE d = f
      BY <3>1, <3>3, <1>3
    <3>4. QED
      BY <1>2, <3>2, <3>3
  <2>2. CASE \E q \in Procs : pc'[q] = "mark" /\ o = <<work'[q].undoing.id, work'[q].undoing.before>>
    <3>1. PICK q \in Procs : pc'[q] = "mark" /\ o = <<work'[q].undoing.id, work'[q].undoing.before>>
      BY <2>2
    <3>2. pc[q] = "mark" /\ work'[q] = work[q]
      BY <3>1 DEF Others
    <3>3. QED
      BY <3>1, <3>2 DEF Origins
  <2>3. QED
    BY <2>1, <2>2 DEF Origins
<1>6. QED
  BY <1>4, <1>5 DEF Grown

-----------------------------------------------------------------------------
(* What each command does to the aims                                      *)

\* What a command may do to the ledger and to its own aim.
Turn(p) == Grown /\ IsFiniteSet(ledger') /\ Aimed(p)'

\* A command that undoes nothing has no aim.
LEMMA Aimless ==
  ASSUME NEW p \in Procs, Aimed(p), pc'[p] \notin UndoAt, work'[p].kind # "undo",
         work'[p].ids \in {work[p].ids, <<>>}
  PROVE  Aimed(p)'
<1>a. <<>> \in Seq(Nat)
  OBVIOUS
<1>1. work'[p].ids \in Seq(Nat)
  BY <1>a DEF Aimed
<1>2. QED
  BY <1>1 DEF Aimed

\* A command that is over aims at nothing.
LEMMA LeaveAims ==
  ASSUME Types, NEW p \in Procs, Aimed(p), Leave(p)
  PROVE  Aimed(p)' /\ pc'[p] # "mark"
<1>1. pc'[p] = "idle" /\ work'[p] = Blank
  BY LeaveFacts
<1>2. QED
  BY <1>1, Aimless, BlankTypes DEF UndoAt

\* Only an undo has an aim when it begins, and its selection is it.
LEMMA BeginTurns ==
  ASSUME Types, Places, Recorded, NEW p \in Procs, Aimed(p), NEW j \in Projects,
         \/ \E body \in Texts : BeginApply(p, j, body) \/ BeginSession(p, j, body)
         \/ BeginEnd(p, j) \/ BeginLoad(p, j) \/ BeginLocked(p, j)
         \/ \E e \in ledger : BeginUndo(p, j, e) \/ BeginRestore(p, j, e)
  PROVE  Turn(p)
<1>a. UNCHANGED <<ledger, records>> /\ Others(p) /\ IsFiniteSet(ledger)
  BY BeginTypes DEF BeginApply, BeginSession, BeginEnd, BeginLoad, BeginLocked, BeginUndo, BeginRestore,
     disk, Steps, Recorded
<1>b. pc'[p] # "mark"
  BY BeginFacts
<1>c. Grown
  BY <1>a, <1>b, KnownStays
<1>1. ASSUME NEW kind, NEW at, NEW w, NEW ids, w \in WorkOf(ids), Start(p, kind, j, at, w)
      PROVE  pc'[p] = at /\ work'[p].kind = kind /\ work'[p].ids = ids /\ work'[p].target = w.target
  BY <1>1, StateTypes DEF Start, WorkOf
<1>2. ASSUME NEW kind, NEW at, NEW w, w \in WorkOf(<<>>), Start(p, kind, j, at, w), kind # "undo", at \notin UndoAt
      PROVE  Aimed(p)'
  BY <1>1, <1>2, Aimless
<1>3. ASSUME NEW kind, NEW w, NEW n \in Nat, w \in WorkOf(<<n>>), Start(p, kind, j, "rollback", w), kind # "undo"
      PROVE  Aimed(p)'
  <2>1. pc'[p] = "rollback" /\ work'[p].kind = kind /\ work'[p].ids = <<n>>
    BY <1>1, <1>3
  <2>2. <<n>> \in Seq(Nat) /\ <<n>> # <<>>
    OBVIOUS
  <2>3. QED
    BY <1>3, <2>1, <2>2 DEF Aimed
<1>4. ASSUME NEW body \in Texts, BeginApply(p, j, body) \/ BeginSession(p, j, body) PROVE Aimed(p)'
  <2>1. [Blank EXCEPT !.body = body] \in WorkOf(<<>>)
    BY BlankTypes, FilesAssumption DEF WorkOf
  <2>2. QED
    BY <1>2, <1>4, <2>1 DEF BeginApply, BeginSession, UndoAt
<1>5. ASSUME BeginEnd(p, j) PROVE Aimed(p)'
  <2> DEFINE n == pointers[j].entry
             w == [Blank EXCEPT !.map = pointers, !.ids = <<n>>]
  <2>1. pointers \in Map /\ pointers[j] # None
    BY <1>5, StateTypes DEF BeginEnd
  <2>2. w \in WorkOf(<<n>>) /\ n \in Nat
    BY <2>1, BlankTypes DEF WorkOf, Map, Pointer
  <2>3. Start(p, "end", j, "rollback", w)
    BY <1>5 DEF BeginEnd
  <2> HIDE DEF w, n
  <2>4. QED
    BY <1>3, <2>2, <2>3
<1>6. ASSUME BeginLoad(p, j) PROVE Aimed(p)'
  <2> DEFINE w == [Blank EXCEPT !.map = pointers]
  <2>1. w \in WorkOf(<<>>)
    BY BlankTypes, StateTypes DEF WorkOf
  <2>2. Start(p, "load", j, "save", w)
    BY <1>6 DEF BeginLoad
  <2> HIDE DEF w
  <2>3. QED
    BY <1>2, <2>1, <2>2 DEF UndoAt
<1>7. ASSUME BeginLocked(p, j) PROVE Aimed(p)'
  BY <1>2, <1>7, BlankTypes DEF BeginLocked, UndoAt
<1>8. ASSUME NEW e \in ledger, BeginUndo(p, j, e) PROVE Aimed(p)'
  <2> DEFINE ids == Selection(j, e)
             w == [Blank EXCEPT !.ids = ids, !.target = e.before]
  <2>1. w \in WorkOf(ids) /\ w.target = e.before
    BY BlankTypes, StateTypes DEF WorkOf, Entry
  <2>2. Start(p, "undo", j, "before", w) /\ e \in Undoable(j)
    BY <1>8 DEF BeginUndo
  <2>3. /\ ids \in Seq(1..records) /\ ids # <<>>
        /\ \A o \in Origins : o[1] = Last(ids) => o[2] = e.before
    BY <2>2, SelectionAims
  <2> HIDE DEF w, ids
  <2>4. pc'[p] = "before" /\ work'[p].kind = "undo" /\ work'[p].ids = ids /\ work'[p].target = e.before
    BY <1>1, <2>1, <2>2
  <2>5. records' = records /\ Origins' \subseteq Origins
    <3>1. records \in Nat /\ records' # records + 1
      BY <1>a, StateTypes
    <3>2. QED
      BY <1>a, <1>c, <3>1 DEF Grown
  <2>a. 1..records \subseteq Nat
    BY StateTypes
  <2>6. ids \in Seq(Nat) /\ ids \in Seq(1..records')
    BY <2>3, <2>5, <2>a, SeqIn
  <2>7. QED
    BY <2>3, <2>4, <2>5, <2>6 DEF Aimed, UndoAt
<1>9. ASSUME NEW e \in ledger, BeginRestore(p, j, e) PROVE Aimed(p)'
  <2> DEFINE n == e.id
             w == [Blank EXCEPT !.ids = <<n>>]
  <2>1. w \in WorkOf(<<n>>) /\ n \in Nat
    BY BlankTypes, StateTypes DEF WorkOf, Entry
  <2>2. Start(p, "restore", j, "rollback", w)
    BY <1>9 DEF BeginRestore
  <2> HIDE DEF w, n
  <2>3. QED
    BY <1>3, <2>1, <2>2
<1>10. QED
  BY <1>a, <1>c, <1>4, <1>5, <1>6, <1>7, <1>8, <1>9 DEF Turn

\* The commands that leave the ledger alone.
LEMMA QuietTurns ==
  ASSUME Types, Places, Recorded, NEW p \in Procs, Aimed(p),
         \/ Capture(p) \/ Write(p) \/ Abort(p) \/ Snapshot(p) \/ LoadMap(p) \/ SaveMap(p)
         \/ Park(p) \/ Scope(p) \/ Compare(p) \/ PutBack(p) \/ Unpark(p) \/ Release(p) \/ Die(p)
  PROVE  Turn(p)
<1> DEFINE w == work[p]
<1> USE DEF disk, history
<1>a. UNCHANGED <<ledger, records>> /\ Others(p) /\ IsFiniteSet(ledger)
  BY ApplyTypes, SessionTypes, LockedTypes, DieTypes DEF Capture, Write, Abort, Snapshot, LoadMap, SaveMap,
     Park, Scope, Compare, PutBack, Unpark, Release, Die, Steps, Recorded
<1>b. Place(p) /\ w \in WorkOf(w.ids)
  BY StateTypes DEF Places
<1>1. ASSUME NEW at, at \notin UndoAt, NEW v, v.ids = w.ids, v.kind = w.kind, w.kind # "undo", Go(p, at, v)
      PROVE  Aimed(p)' /\ pc'[p] # "mark"
  <2>1. pc'[p] = at /\ work'[p] = v
    BY <1>1, GoFacts
  <2>2. QED
    BY <1>1, <2>1, Aimless DEF UndoAt
<1>2. Leave(p) => Aimed(p)' /\ pc'[p] # "mark"
  BY LeaveAims
<1>3. CASE Capture(p)
  <2>1. w.kind # "undo"
    BY <1>3, <1>b DEF Capture, Place
  <2>2. \A b : [w EXCEPT !.before = b].ids = w.ids /\ [w EXCEPT !.before = b].kind = w.kind
    BY <1>b DEF WorkOf
  <2>3. \/ Leave(p) \/ Go(p, "own", w)
        \/ Go(p, "write", [w EXCEPT !.before = file[w.project]])
    BY <1>3 DEF Capture
  <2>6. Aimed(p)' /\ pc'[p] # "mark"
    BY <1>1, <1>2, <2>1, <2>2, <2>3 DEF UndoAt
  <2>7. QED
    BY <1>a, <2>6, KnownStays DEF Turn
<1>4. CASE Write(p)
  <2>1. w.kind # "undo" /\ Go(p, "record", w)
    BY <1>4, <1>b DEF Write, Place
  <2>2. QED
    BY <1>a, <1>1, <2>1, KnownStays DEF Turn, UndoAt
<1>5. CASE Snapshot(p)
  <2>1. w.kind # "undo" /\ Go(p, "capture", [w EXCEPT !.seen = file[w.project]])
    BY <1>5, <1>b DEF Snapshot, Place
  <2>2. \A b : [w EXCEPT !.seen = b].ids = w.ids /\ [w EXCEPT !.seen = b].kind = w.kind
    BY <1>b DEF WorkOf
  <2>3. QED
    BY <1>a, <1>1, <2>1, <2>2, KnownStays DEF Turn, UndoAt
<1>6. CASE LoadMap(p)
  <2>1. w.kind # "undo" /\ Go(p, "save", [w EXCEPT !.map = pointers])
    BY <1>6, <1>b DEF LoadMap, Place
  <2>2. [w EXCEPT !.map = pointers].ids = w.ids /\ [w EXCEPT !.map = pointers].kind = w.kind
    BY <1>b DEF WorkOf
  <2>3. QED
    BY <1>a, <1>1, <2>1, <2>2, KnownStays DEF Turn, UndoAt
<1>7. CASE Abort(p) \/ SaveMap(p) \/ Release(p) \/ Die(p)
  <2>1. Leave(p)
    BY <1>7 DEF Abort, SaveMap, Release, Die, GiveUp
  <2>2. QED
    BY <1>a, <1>2, <2>1, KnownStays DEF Turn
<1>8. CASE Park(p) \/ Scope(p) \/ Compare(p) \/ PutBack(p) \/ Unpark(p)
  <2>1. w.kind # "undo"
    BY <1>8, <1>b DEF Park, Scope, Compare, PutBack, Unpark, Place, LockedAt
  <2>2. \A b : [w EXCEPT !.before = b].ids = w.ids /\ [w EXCEPT !.before = b].kind = w.kind
    BY <1>b DEF WorkOf
  <2>3. \/ Leave(p)
        \/ \E at \in {"running", "putback", "unpark", "release"} : Go(p, at, w)
        \/ Go(p, "scope", [w EXCEPT !.before = file[w.project]])
    BY <1>8 DEF Park, Scope, Compare, PutBack, Unpark
  <2>4. Aimed(p)' /\ pc'[p] # "mark"
    BY <1>1, <1>2, <2>1, <2>2, <2>3 DEF UndoAt
  <2>5. QED
    BY <1>a, <2>4, KnownStays DEF Turn
<1>9. QED
  BY <1>3, <1>4, <1>5, <1>6, <1>7, <1>8

\* apply, use and session start add an entry.
LEMMA RecordTurns ==
  ASSUME Types, Places, Recorded, NEW p \in Procs, Aimed(p), RecordWrite(p) \/ RecordSession(p)
  PROVE  Turn(p)
<1> DEFINE w == work[p]
           j == w.project
<1>a. Others(p) /\ IsFiniteSet(ledger) /\ Place(p) /\ w \in WorkOf(w.ids)
  BY ApplyTypes, SessionTypes, StateTypes DEF Steps, Recorded, Places
<1>b. j \in Projects /\ w.kind \in {"apply", "session"}
  BY <1>a DEF RecordWrite, RecordSession, Place
<1>c. ASSUME Aimed(p)', pc'[p] # "mark",
             UNCHANGED <<ledger, records>> \/ \E b \in Bodies : Record(j, b)
      PROVE  Turn(p)
  BY <1>a, <1>b, <1>c, KnownStays, RecordGrows DEF Turn
<1>d. ASSUME NEW at, at \notin UndoAt, NEW v, v.ids = w.ids, v.kind = w.kind, Go(p, at, v)
      PROVE  Aimed(p)' /\ pc'[p] # "mark"
  <2>1. pc'[p] = at /\ work'[p] = v
    BY <1>d, GoFacts
  <2>2. QED
    BY <1>b, <1>d, <2>1, Aimless DEF UndoAt
<1>1. CASE RecordWrite(p)
  <2>1. UNCHANGED <<ledger, records>> \/ \E b \in Bodies : Record(j, b)
    BY <1>1, <1>a DEF RecordWrite, Place
  <2>2. CASE Leave(p)
    BY <1>c, <2>1, <2>2, LeaveAims
  <2>3. CASE Go(p, "own", w)
    BY <1>c, <1>d, <2>1, <2>3 DEF UndoAt
  <2>4. QED
    BY <1>1, <2>2, <2>3 DEF RecordWrite
<1>2. CASE RecordSession(p)
  <2>1. UNCHANGED <<ledger, records>> \/ \E b \in Bodies : Record(j, b)
    BY <1>2, <1>a DEF RecordSession, Place
  <2>2. \A n : [w EXCEPT !.entry = n].ids = w.ids /\ [w EXCEPT !.entry = n].kind = w.kind
    BY <1>a DEF WorkOf
  <2>3. Go(p, "load", w) \/ Go(p, "load", [w EXCEPT !.entry = records'])
    BY <1>2 DEF RecordSession
  <2>4. \E v : v.ids = w.ids /\ v.kind = w.kind /\ Go(p, "load", v)
    BY <2>2, <2>3
  <2>5. QED
    BY <1>c, <1>d, <2>1, <2>4 DEF UndoAt
<1>3. QED
  BY <1>1, <1>2

\* After an entry: the end of it, or the same aim with one entry less.
LEMMA OnwardAims ==
  ASSUME Types, Places, Recorded, Grown, NEW p \in Procs, Aimed(p), pc[p] \in {"rollback", "mark"},
         (work[p].kind # "end" /\ Leave(p)) \/ Onward(p, work[p])
  PROVE  Aimed(p)' /\ pc'[p] # "mark"
<1> DEFINE w == work[p]
           ids == w.ids
<1>a. w \in WorkOf(ids) /\ ids \in Seq(Nat) /\ ids # <<>>
  BY StateTypes DEF Aimed, UndoAt
<1>1. CASE Leave(p)
  BY <1>1, LeaveAims
<1>2. CASE w.kind = "end" /\ Go(p, "save", w)
  <2>1. pc'[p] = "save" /\ work'[p] = w
    BY <1>2, GoFacts
  <2>2. QED
    BY <1>2, <2>1, Aimless DEF UndoAt
<1>3. CASE w.kind # "end" /\ Len(ids) # 1 /\ Go(p, "rollback", [w EXCEPT !.ids = Tail(@)])
  <2>1. pc'[p] = "rollback" /\ work'[p] = [w EXCEPT !.ids = Tail(@)]
    BY <1>3, GoFacts
  <2>2. work'[p].ids = Tail(ids) /\ work'[p].kind = w.kind /\ work'[p].target = w.target
    BY <1>a, <2>1 DEF WorkOf
  <2>3. Tail(ids) \in Seq(Nat) /\ Tail(ids) # <<>> /\ Last(Tail(ids)) = Last(ids)
    BY <1>3, <1>a, LastOfTail
  <2>4. ASSUME w.kind = "undo"
        PROVE  /\ Tail(ids) \in Seq(1..records')
               /\ \A o \in Origins' : o[1] = Last(ids) => o[2] = w.target
    <3>1. ids \in Seq(1..records) /\ \A o \in Origins : o[1] = Last(ids) => o[2] = w.target
      BY <2>4 DEF Aimed
    <3>2. Tail(ids) \in Seq(1..records) /\ Last(ids) \in 1..records
      BY <1>3, <1>a, <3>1, LastOfTail, LastOf
    <3>3. records \in Nat /\ 1..records \subseteq 1..records'
      BY StateTypes DEF Grown
    <3>4. Tail(ids) \in Seq(1..records')
      BY <3>2, <3>3, SeqIn
    <3>5. ASSUME NEW o \in Origins', o[1] = Last(ids) PROVE o \in Origins
      <4>1. CASE Origins' \subseteq Origins
        BY <4>1
      <4>2. CASE records' = records + 1 /\ \E b : Origins' \subseteq Origins \cup {<<records', b>>}
        <5>1. o \in Origins \/ o[1] = records'
          BY <4>2
        <5>2. records' \notin 1..records
          BY <3>3, <4>2
        <5>3. QED
          BY <3>2, <3>5, <5>1, <5>2
      <4>3. QED
        BY <4>1, <4>2 DEF Grown
    <3>6. QED
      BY <3>1, <3>4, <3>5
  <2>5. QED
    BY <2>1, <2>2, <2>3, <2>4 DEF Aimed, UndoAt
<1>4. QED
  BY <1>1, <1>2, <1>3 DEF Onward

\* undo, restore and session end, entry by entry.
LEMMA UndoTurns ==
  ASSUME Types, Places, Recorded, NEW p \in Procs, Aimed(p),
         \/ CaptureBefore(p) \/ RecordUndo(p) \/ Rollback(p) \/ Mark(p)
         \/ SkipUndone(p) \/ Unrestored(p) \/ MarkFails(p)
  PROVE  Turn(p)
<1> DEFINE w == work[p]
           ids == w.ids
<1> USE DEF disk, history
<1>a. Others(p) /\ IsFiniteSet(ledger) /\ Place(p) /\ w \in WorkOf(ids)
  BY UndoTypes, StateTypes DEF Steps, Recorded, Places
<1>1. CASE CaptureBefore(p)
  <2>1. pc[p] = "before" /\ UNCHANGED <<ledger, records>>
    BY <1>1 DEF CaptureBefore
  <2>2. pc'[p] = "redo" /\ work'[p] = [w EXCEPT !.before = file[w.project]]
    BY <1>1, GoFacts DEF CaptureBefore
  <2>3. work'[p].ids = ids /\ work'[p].kind = w.kind /\ work'[p].target = w.target
    BY <1>a, <2>2 DEF WorkOf
  <2>4. Grown
    BY <1>a, <2>1, <2>2, KnownStays
  <2>5. Aimed(p)'
    BY <2>1, <2>2, <2>3, <2>4, AimStays DEF UndoAt
  <2>6. QED
    BY <1>a, <2>1, <2>4, <2>5 DEF Turn
<1>2. CASE RecordUndo(p)
  <2>a. pc[p] = "redo" /\ w.project \in Projects /\ w.before \in Bodies
    BY <1>2, <1>a DEF RecordUndo, Place
  <2>b. CASE Record(w.project, w.before)
             /\ Go(p, "rollback", [w EXCEPT !.entry = records', !.seen = w.before])
    <3>1. pc'[p] = "rollback" /\ work'[p] = [w EXCEPT !.entry = records', !.seen = w.before]
      BY <2>b, GoFacts
    <3>2. \A n : LET v == [w EXCEPT !.entry = n, !.seen = w.before] IN
                 v.ids = ids /\ v.kind = w.kind /\ v.target = w.target
      BY <1>a DEF WorkOf
    <3>3. work'[p].ids = ids /\ work'[p].kind = w.kind /\ work'[p].target = w.target
      BY <3>1, <3>2
    <3>4. Grown /\ IsFiniteSet(ledger')
      BY <1>a, <2>a, <2>b, <3>1, RecordGrows
    <3>5. Aimed(p)'
      BY <2>a, <3>1, <3>3, <3>4, AimStays DEF UndoAt
    <3>6. QED
      BY <3>4, <3>5 DEF Turn
  <2>c. CASE UNCHANGED <<ledger, records>> /\ Leave(p)
    <3>1. Aimed(p)' /\ pc'[p] # "mark"
      BY <2>c, LeaveAims
    <3>2. QED
      BY <1>a, <2>c, <3>1, KnownStays DEF Turn
  <2>d. QED
    BY <1>2, <2>b, <2>c DEF RecordUndo
<1>3. CASE Rollback(p)
  <2>1. pc[p] = "rollback" /\ UNCHANGED <<ledger, records>>
    BY <1>3 DEF Rollback
  <2>2. PICK e \in Named(Head(ids)) : Go(p, "mark", [w EXCEPT !.undoing = e, !.seen = e.before])
    BY <1>3 DEF Rollback
  <2>3. e \in ledger /\ e.id = Head(ids)
    BY DEF Named
  <2>4. pc'[p] = "mark" /\ work'[p] = [w EXCEPT !.undoing = e, !.seen = e.before]
    BY <2>2, GoFacts
  <2>5. /\ work'[p].ids = ids /\ work'[p].kind = w.kind /\ work'[p].target = w.target
        /\ work'[p].undoing = e /\ work'[p].seen = e.before
    BY <1>a, <2>4 DEF WorkOf
  <2>6. Grown
    BY <1>a, <2>1, <2>3, <2>5, KnownStays
  <2>7. records' = records /\ Origins' \subseteq Origins
    <3>1. records \in Nat /\ records' # records + 1
      BY <2>1, StateTypes
    <3>2. QED
      BY <2>1, <2>6, <3>1 DEF Grown
  <2>8. Aimed(p)'
    BY <2>1, <2>3, <2>4, <2>5, <2>7 DEF Aimed, UndoAt
  <2>9. QED
    BY <1>a, <2>1, <2>6, <2>8 DEF Turn
<1>4. CASE Mark(p)
  <2>1. pc[p] = "mark" /\ MarkUndone(w.undoing) /\ Onward(p, w) /\ records' = records
    BY <1>4 DEF Mark
  <2>2. pc'[p] # "mark"
    BY <2>1, GoFacts, LeaveFacts DEF Onward
  <2>3. Grown /\ IsFiniteSet(ledger')
    BY <1>a, <2>1, <2>2, MarkGrows
  <2>4. QED
    BY <2>1, <2>3, OnwardAims DEF Turn
<1>5. CASE SkipUndone(p) \/ Unrestored(p)
  <2>1. pc[p] = "rollback" /\ UNCHANGED <<ledger, records>>
        /\ ((w.kind # "end" /\ Leave(p)) \/ Onward(p, w))
    BY <1>5 DEF SkipUndone, Unrestored, NotRestored, GiveUp
  <2>2. pc'[p] # "mark"
    BY <2>1, GoFacts, LeaveFacts DEF Onward
  <2>3. Grown
    BY <1>a, <2>1, <2>2, KnownStays
  <2>4. QED
    BY <1>a, <2>1, <2>3, OnwardAims DEF Turn
<1>6. CASE MarkFails(p)
  <2>1. pc[p] = "mark" /\ ledger' \subseteq ledger /\ records' = records
        /\ ((w.kind # "end" /\ Leave(p)) \/ Onward(p, w))
    BY <1>6 DEF MarkFails, GiveUp
  <2>2. pc'[p] # "mark"
    BY <2>1, GoFacts, LeaveFacts DEF Onward
  <2>3. Grown /\ IsFiniteSet(ledger')
    BY <1>a, <2>1, <2>2, KnownStays, FS_Subset
  <2>4. QED
    BY <2>1, <2>3, OnwardAims DEF Turn
<1>7. QED
  BY <1>1, <1>2, <1>3, <1>4, <1>5, <1>6

-----------------------------------------------------------------------------
(* The theorems about undo                                                 *)

\* Inv, and that every undo still aims at the change that was chosen.
UndoInv == Inv /\ Recorded /\ Aims

\* What a command does to the ledger and its own aim is all it does.
LEMMA TurnKeeps ==
  ASSUME Types, Places, Recorded, Aims, NEW p \in Procs, Command(p), Turn(p)
  PROVE  Recorded' /\ Aims'
<1>1. Others(p)
  BY CommandTypes DEF Steps
<1>2. QED
  BY <1>1, GrownKeepsRecorded, AimsStay DEF Turn

\* Every command.
LEMMA CommandTurns ==
  ASSUME Types, Places, Recorded, Aims, NEW p \in Procs, Command(p)
  PROVE  Recorded' /\ Aims'
<1>1. Aimed(p)
  BY DEF Aims
<1>2. CASE \E j \in Projects :
             \/ \E body \in Texts : BeginApply(p, j, body) \/ BeginSession(p, j, body)
             \/ BeginEnd(p, j) \/ BeginLoad(p, j) \/ BeginLocked(p, j)
             \/ \E e \in ledger : BeginUndo(p, j, e) \/ BeginRestore(p, j, e)
  BY <1>1, <1>2, BeginTurns, TurnKeeps
<1>3. CASE \/ Capture(p) \/ Write(p) \/ Abort(p) \/ Snapshot(p) \/ LoadMap(p) \/ SaveMap(p)
           \/ Park(p) \/ Scope(p) \/ Compare(p) \/ PutBack(p) \/ Unpark(p) \/ Release(p) \/ Die(p)
  BY <1>1, <1>3, QuietTurns, TurnKeeps
<1>4. CASE RecordWrite(p) \/ RecordSession(p)
  BY <1>1, <1>4, RecordTurns, TurnKeeps
<1>5. CASE \/ CaptureBefore(p) \/ RecordUndo(p) \/ Rollback(p) \/ Mark(p)
           \/ SkipUndone(p) \/ Unrestored(p) \/ MarkFails(p)
  BY <1>1, <1>5, UndoTurns, TurnKeeps
<1>6. QED
  BY <1>2, <1>3, <1>4, <1>5, FailsUnrestored DEF Command

\* UndoInv is inductive.
LEMMA NextUndoInv == UndoInv /\ [Next]_vars => UndoInv'
<1> SUFFICES ASSUME UndoInv, [Next]_vars PROVE UndoInv'
  OBVIOUS
<1>a. Inv /\ Types /\ Places /\ Recorded /\ Aims
  BY DEF UndoInv, Inv
<1>1. Inv'
  BY <1>a, NextInv
<1>2. ASSUME UNCHANGED <<pc, work, ledger, records>> PROVE Recorded' /\ Aims'
  <2>1. Origins' = Origins
    BY <1>2 DEF Origins
  <2>2. QED
    BY <1>2, <1>a, <2>1 DEF Recorded, Aims, Aimed
<1>3. CASE \E p \in Procs : Command(p)
  BY <1>a, <1>1, <1>3, CommandTurns DEF UndoInv
<1>4. CASE \/ \E j \in Projects : RemoveSentinel(j)
           \/ \E j \in Projects, body \in Texts \cup {Missing} : Edit(j, body)
  BY <1>1, <1>2, <1>4 DEF UndoInv, RemoveSentinel, Edit
<1>5. CASE UNCHANGED vars
  BY <1>1, <1>2, <1>5 DEF UndoInv, vars
<1>6. QED
  BY <1>3, <1>4, <1>5 DEF Next

\* UndoInv holds at the start.
LEMMA InitUndoInv == Init => UndoInv
<1> SUFFICES ASSUME Init PROVE UndoInv
  OBVIOUS
<1>1. Inv
  BY InitInv
<1>2. ledger = {} /\ \A p \in Procs : pc[p] = "idle" /\ work[p] = Blank
  BY DEF Init
<1>3. Origins = {}
  BY <1>2 DEF Origins
<1>4. Recorded
  BY <1>2, <1>3, FS_EmptySet DEF Recorded
<1>5. <<>> \in Seq(Nat)
  OBVIOUS
<1>6. Aims
  BY <1>2, <1>5, BlankTypes DEF Aims, Aimed, UndoAt
<1>7. QED
  BY <1>1, <1>4, <1>6 DEF UndoInv

\* Whatever the ledger, the pointers, the sentinels and the run directories
\* hold, and whatever a command carries, is of its type.
THEOREM TypesTheorem == Spec => []TypeOK
<1>1. UndoInv => TypeOK
  <2> SUFFICES ASSUME UndoInv PROVE TypeOK
    OBVIOUS
  <2>1. Types /\ Aims
    BY DEF UndoInv, Inv
  <2>2. ASSUME NEW p \in Procs PROVE work[p] \in Work
    <3>1. work[p] \in WorkOf(work[p].ids) /\ work[p].ids \in Seq(Nat)
      BY <2>1, StateTypes DEF Aims, Aimed
    <3>2. QED
      BY <3>1 DEF WorkOf, Work
  <2>3. work \in [Procs -> Work]
    BY <2>1, <2>2, StateTypes
  <2>4. QED
    BY <2>1, <2>3, StateTypes DEF TypeOK
<1>2. Spec => []UndoInv
  BY InitUndoInv, NextUndoInv, PTL DEF Spec
<1>3. QED
  BY <1>1, <1>2, PTL

\* What an undo wrote last is the file as it was before the chosen change
\* (undo_to of history.rs), however many entries it rolled back and whatever
\* was applied, recorded, pruned, activated or edited in between.  It is not
\* when another process undid an entry of the selection, or when the revert was
\* stopped before its last entry was marked: by a file or an entry that could
\* not be written, by an entry that is gone, or by a death.
THEOREM RevertTheorem == Spec => RevertReachesThePoint
<1> DEFINE Safe(p) ==
        work[p].kind = "undo" /\ pc[p] \in {"mark", "rollback"} /\ pc'[p] = "idle"
          => \/ work[p].seen = work[p].target
             \/ slip' \cap {"undone", "stopped"} # {}
<1>1. ASSUME UndoInv, Next, NEW p \in Procs PROVE Safe(p)
  <2> DEFINE w == work[p]
             ids == w.ids
  <2> SUFFICES ASSUME w.kind = "undo", pc[p] \in {"mark", "rollback"}, pc'[p] = "idle",
                      slip' \cap {"undone", "stopped"} = {}
               PROVE  w.seen = w.target
    OBVIOUS
  <2>1. Types /\ Places /\ Recorded /\ Aimed(p) /\ w \in WorkOf(ids)
    BY <1>1, StateTypes DEF UndoInv, Inv, Aims
  <2>2. /\ ids \in Seq(1..records) /\ ids # <<>> /\ Head(ids) \in 1..records
        /\ \A o \in Origins : o[1] = Last(ids) => o[2] = w.target
        /\ pc[p] = "mark" => w.undoing.id = Head(ids) /\ w.seen = w.undoing.before
    BY <2>1, LastOf DEF Aimed
  <2>3. Mark(p) \/ SkipUndone(p) \/ Unrestored(p) \/ MarkFails(p) \/ Die(p)
    <3>1. PICK q \in Procs : Command(q)
      <4>1. ~ \/ \E i \in Projects : RemoveSentinel(i)
              \/ \E i \in Projects, body \in Texts \cup {Missing} : Edit(i, body)
        BY DEF RemoveSentinel, Edit
      <4>2. QED
        BY <1>1, <4>1 DEF Next
    <3>2. Steps(q)
      BY <2>1, <3>1, CommandTypes
    <3>3. q = p
      BY <3>2 DEF Steps, Others
    <3>4. ~Rollback(p)
      <4>1. ASSUME Rollback(p) PROVE FALSE
        <5>1. PICK e \in Named(Head(ids)) : Go(p, "mark", [w EXCEPT !.undoing = e, !.seen = e.before])
          BY <4>1 DEF Rollback
        <5>2. pc'[p] = "mark"
          BY <2>1, <5>1, GoFacts
        <5>3. QED
          BY <5>2
      <4>2. QED
        BY <4>1
    <3>5. QED
      BY <3>1, <3>3, <3>4, FailsUnrestored DEF Command, Abort, BeginApply, BeginSession, BeginEnd, BeginLoad, BeginLocked, BeginUndo,
         BeginRestore, Start, Capture, Write, RecordWrite, Snapshot, RecordSession, LoadMap, SaveMap,
         CaptureBefore, RecordUndo, Park, Scope, Compare, PutBack, Unpark, Release
  <2>4. CASE Mark(p)
    <3>1. pc[p] = "mark" /\ Onward(p, w)
      BY <2>4 DEF Mark
    <3>2. Len(ids) = 1
      BY <2>1, <3>1, GoFacts DEF Onward
    <3>3. Head(ids) = Last(ids)
      BY <2>2, <3>2, LastOf
    <3>4. <<w.undoing.id, w.undoing.before>> \in Origins
      BY <3>1 DEF Origins
    <3>5. QED
      BY <2>2, <3>1, <3>3, <3>4
  <2>5. CASE SkipUndone(p)
    BY <2>5 DEF SkipUndone, Slips
  <2>6. CASE Unrestored(p) \/ MarkFails(p) \/ Die(p)
    <3>1. GiveUp(p)
      BY <2>6 DEF Unrestored, NotRestored, MarkFails, Die
    <3>2. "stopped" \in slip'
      BY <3>1 DEF GiveUp
    <3>3. QED
      BY <3>2
  <2>7. QED
    BY <2>3, <2>4, <2>5, <2>6
<1>2. UndoInv /\ [Next]_vars => [\A p \in Procs : Safe(p)]_vars
  BY <1>1
<1>3. Spec => []UndoInv
  BY InitUndoInv, NextUndoInv, PTL DEF Spec
<1>4. QED
  BY <1>2, <1>3, PTL DEF Spec, RevertReachesThePoint

===============================================================================
