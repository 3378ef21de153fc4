------------------------ MODULE ConsentFlow_proofs ------------------------
(***************************************************************************)
(* Theorems about ConsentFlow for any number of processes, layers, skills  *)
(* and contents, any number of edits and any number of commands.           *)
(***************************************************************************)
EXTENDS ConsentFlow, TLAPS

Reviewing == {"show", "shown", "patch", "reread", "grant", "store", "decide"}

-----------------------------------------------------------------------------
(* Type correctness                                                        *)

\* What a process holds, by where it is.
Fits(p, at, w) ==
    /\ at \in {"read", "captured", "checked", "written"} =>
          /\ w.layer \in Layers /\ w.before \in Text /\ w.after \in Text
          /\ w.carries => w.after.declares = w.before.declares
    /\ at = "captured" => w.snap \in Snapshot
    /\ at \in Reviewing => p \in Reviewers /\ w.snap \in Snapshot
    /\ at \in Reviewing \ {"show"} => w.displayed \in [Items -> Contents]
    /\ at \in {"patch", "reread", "grant", "store", "decide"} => w.digest \in Snapshot
    /\ at \in {"patch", "reread"} => w.consented = None
    /\ at = "reread" => w.lock = PatchedLock(w)
    /\ at \in {"noted", "locked", "asked"} => w.item \in Items
    /\ at \in {"locked", "asked"} => w.lock \in Lock

Holding == \A p \in Procs : Fits(p, pc[p], work[p])

FileTypes ==
    /\ files \in Snapshot
    /\ live \in [Items -> Contents]
    /\ entry \in Trust!Entry \cup {None}
    /\ surface \in Lock \cup {None}
    /\ previewed \subseteq Snapshot
    /\ refused \in [Items -> BOOLEAN]
    /\ slip \subseteq {"carry", "overtaken", "reread", "revoke", "load", "answer"}

TypeInv == TypeOK /\ Holding

LEMMA TypeParts ==
  TypeOK <=> FileTypes /\ pc \in [Procs -> Locations] /\ work \in [Procs -> Work]
BY DEF TypeOK, FileTypes

LEMMA BlankFits == Blank \in Work /\ \A p \in Procs : Fits(p, "idle", Blank)
<1>1. [i \in Items |-> None] \in [Items -> {"accept", "keep", "block", None}]
  OBVIOUS
<1>2. Blank \in Work
  BY <1>1 DEF Blank, Work
<1>3. QED
  BY <1>2 DEF Fits, Reviewing

\* A step that moves one process.
LEMMA ProcessMoves ==
  ASSUME TypeInv, FileTypes', NEW p \in Procs, NEW at \in Locations, NEW w \in Work, Fits(p, at, w),
         pc' = [pc EXCEPT ![p] = at], work' = [work EXCEPT ![p] = w]
  PROVE  TypeInv'
<1>1. pc' \in [Procs -> Locations] /\ work' \in [Procs -> Work]
  BY DEF TypeInv, TypeOK
<1>2. Holding'
  <2> SUFFICES ASSUME NEW q \in Procs PROVE Fits(q, pc'[q], work'[q])
    BY DEF Holding, Fits, PatchedLock, Accepted
  <2>1. CASE q = p
    BY <2>1 DEF TypeInv, TypeOK
  <2>2. CASE q # p
    BY <2>2 DEF TypeInv, TypeOK, Holding
  <2>3. QED
    BY <2>1, <2>2
<1>3. QED
  BY <1>1, <1>2, TypeParts DEF TypeInv, TypeOK, FileTypes

LEMMA ProcessLeaves ==
  ASSUME TypeInv, FileTypes', NEW p \in Procs, Leave(p)
  PROVE  TypeInv'
BY BlankFits, ProcessMoves DEF Leave, Go, Locations

\* The entry a mutation of the store leaves is an entry or none.
LEMMA GrantedEntry ==
  ASSUME NEW e \in Trust!Entry \cup {None}, NEW d \in Snapshot
  PROVE  LET new == Trust!Effect(e, [kind |-> "grant", project |-> "project", digest |-> d])
         IN  /\ new \in Trust!Entry /\ new # None /\ new.digest = d
             /\ \A i \in Items : new.answers[i] = IF e = None THEN None ELSE e.answers[i]
<1>1. [i \in Items |-> None] \in [Items -> Standing \cup {None}]
  OBVIOUS
<1>2. e # None => e.answers \in [Items -> Standing \cup {None}]
  BY DEF Trust!Entry
<1> DEFINE a == IF e = None THEN [i \in Items |-> None] ELSE e.answers
<1>3. a \in [Items -> Standing \cup {None}]
  BY <1>1, <1>2
<1> DEFINE new == Trust!Effect(e, [kind |-> "grant", project |-> "project", digest |-> d])
<1>4. new = [digest |-> d, answers |-> a]
  BY DEF Trust!Effect
<1>5. new \in Trust!Entry
  BY <1>3, <1>4 DEF Trust!Entry
<1>6. new # None
  BY <1>5, ConsentAssumption
<1>7. \A i \in Items : new.answers[i] = IF e = None THEN None ELSE e.answers[i]
  BY <1>4
<1>8. QED
  BY <1>4, <1>5, <1>6, <1>7

LEMMA RepinnedEntry ==
  ASSUME NEW e \in Trust!Entry \cup {None}, NEW d \in Snapshot
  PROVE  LET new == Trust!Effect(e, [kind |-> "repin", project |-> "project", digest |-> d])
         IN  /\ new \in Trust!Entry \cup {None}
             /\ e = None => new = None
             /\ e # None => new # None /\ new.digest = d /\ new.answers = e.answers
<1> DEFINE new == Trust!Effect(e, [kind |-> "repin", project |-> "project", digest |-> d])
<1>1. new = IF e = None THEN None ELSE [e EXCEPT !.digest = d]
  BY DEF Trust!Effect
<1>2. CASE e = None
  BY <1>1, <1>2
<1>3. CASE e # None
  <2>1. new \in Trust!Entry /\ new.digest = d /\ new.answers = e.answers
    BY <1>1, <1>3 DEF Trust!Entry
  <2>2. new # None
    BY <2>1, ConsentAssumption
  <2>3. QED
    BY <1>3, <2>1, <2>2
<1>4. QED
  BY <1>2, <1>3

LEMMA AnsweredEntry ==
  ASSUME NEW e \in Trust!Entry \cup {None}, NEW i \in Items, NEW a \in Standing \cup {None}
  PROVE  LET new == Trust!Effect(e, [kind |-> "answer", project |-> "project", item |-> i, answer |-> a])
         IN  /\ new \in Trust!Entry \cup {None}
             /\ e = None => new = None
             /\ e # None => /\ new # None /\ new.digest = e.digest /\ new.answers[i] = a
                            /\ \A j \in Items : j # i => new.answers[j] = e.answers[j]
<1> DEFINE new == Trust!Effect(e, [kind |-> "answer", project |-> "project", item |-> i, answer |-> a])
<1>1. new = IF e = None THEN None ELSE [e EXCEPT !.answers[i] = a]
  BY DEF Trust!Effect
<1>2. CASE e = None
  BY <1>1, <1>2
<1>3. CASE e # None
  <2>1. e.answers \in [Items -> Standing \cup {None}] /\ e.digest \in Snapshot
    BY <1>3 DEF Trust!Entry
  <2>2. /\ new \in Trust!Entry /\ new.digest = e.digest
        /\ new.answers = [e.answers EXCEPT ![i] = a]
    BY <1>1, <1>3, <2>1 DEF Trust!Entry
  <2>3. new # None
    BY <2>2, ConsentAssumption
  <2>4. QED
    BY <1>3, <2>1, <2>2, <2>3
<1>4. QED
  BY <1>2, <1>3

LEMMA SnapshotParts ==
  ASSUME NEW s \in Snapshot
  PROVE  /\ s = [layers |-> s.layers, lock |-> s.lock]
         /\ s.layers \in [Layers -> Text] /\ s.lock \in Lock
         /\ \A l \in Layers : s.layers[l] \in Text
BY DEF Snapshot

LEMMA Relocked ==
  ASSUME NEW s \in Snapshot, NEW lock \in Lock
  PROVE  /\ [s EXCEPT !.lock = lock] \in Snapshot
         /\ [s EXCEPT !.lock = lock] = [layers |-> s.layers, lock |-> lock]
BY DEF Snapshot

LEMMA Relayered ==
  ASSUME NEW s \in Snapshot, NEW l \in Layers, NEW text \in Text
  PROVE  /\ [s EXCEPT !.layers[l] = text] \in Snapshot
         /\ [s EXCEPT !.layers[l] = text] = [layers |-> [s.layers EXCEPT ![l] = text], lock |-> s.lock]
BY DEF Snapshot

\* What a review writes into the lock, and what it leaves as answers.
LEMMA ReviewTypes ==
  ASSUME NEW w \in Work, w.snap \in Snapshot, w.displayed \in [Items -> Contents]
  PROVE  /\ PatchedLock(w) \in Lock
         /\ Effective(w) \in Snapshot
         /\ Effective(w) = [layers |-> w.snap.layers, lock |-> PatchedLock(w)]
         /\ \A i \in Items : ApprovedPin(w, i) \in Contents \cup {Unpinned}
         /\ \A i \in Asked(w) : StandingAnswer(w, i) \in Standing \cup {None}
<1>1. w.snap.lock \in Lock
  BY SnapshotParts
<1>2. PatchedLock(w) \in Lock
  BY <1>1 DEF PatchedLock, Lock
<1>3. /\ Effective(w) \in Snapshot
      /\ Effective(w) = [layers |-> w.snap.layers, lock |-> PatchedLock(w)]
  BY <1>2, Relocked DEF Effective
<1>4. \A i \in Items : ApprovedPin(w, i) \in Contents \cup {Unpinned}
  <2> TAKE i \in Items
  <2>1. w.snap.lock[i] \in Contents \cup {Unpinned}
    BY <1>1 DEF Lock
  <2>2. w.prior # None => w.prior[i] \in Contents \cup {Unpinned}
    BY DEF Work, Lock
  <2>3. QED
    BY <2>1, <2>2 DEF ApprovedPin
<1>5. \A i \in Asked(w) : StandingAnswer(w, i) \in Standing \cup {None}
  <2> TAKE i \in Asked(w)
  <2>1. i \in Items /\ w.answers[i] \in {"accept", "keep", "block"}
    BY DEF Asked, Work
  <2>2. Keep(ApprovedPin(w, i)) \in Standing
    BY <1>4, <2>1 DEF Standing
  <2>3. QED
    BY <2>1, <2>2 DEF StandingAnswer, Standing
<1>6. QED
  BY <1>2, <1>3, <1>4, <1>5

LEMMA InitTypes == Init => TypeInv
<1> SUFFICES ASSUME Init PROVE TypeInv
  OBVIOUS
<1>1. PICK layer \in [Layers -> Text], lock \in [Items -> Contents] :
         files = [layers |-> layer, lock |-> lock]
  BY DEF Init
<1>2. files \in Snapshot /\ files.lock = lock /\ lock \in Lock
  BY <1>1 DEF Snapshot, Lock
<1>3. [i \in Items |-> None] \in [Items -> Standing \cup {None}]
  OBVIOUS
<1>4. entry \in Trust!Entry \cup {None}
  <2>1. [digest |-> files, answers |-> [i \in Items |-> None]] \in Trust!Entry
    BY <1>2, <1>3 DEF Trust!Entry
  <2>2. QED
    BY <2>1 DEF Init
<1>5. surface \in Lock \cup {None}
  BY <1>2 DEF Init
<1>6. FileTypes
  BY <1>1, <1>2, <1>4, <1>5 DEF Init, FileTypes
<1>7. pc \in [Procs -> Locations] /\ work \in [Procs -> Work]
  BY BlankFits DEF Init, Locations
<1>8. Holding
  BY BlankFits DEF Init, Holding
<1>9. QED
  BY <1>6, <1>7, <1>8, TypeParts DEF TypeInv

-----------------------------------------------------------------------------
(* One lemma for each kind of process                                      *)

LEMMA CarryTypes ==
  ASSUME TypeInv, NEW p \in Carriers, Carry(p)
  PROVE  TypeInv'
<1>a. p \in Procs /\ pc[p] \in Locations /\ work[p] \in Work /\ Fits(p, pc[p], work[p]) /\ FileTypes
  BY TypeParts DEF TypeInv, Holding, Procs, TypeOK
<1> DEFINE w == work[p]
<1>1. ASSUME NEW l \in Layers, NEW new \in Text, ReadLayer(p, l, new) PROVE TypeInv'
  <2> DEFINE v == [Blank EXCEPT !.layer = l, !.before = files.layers[l], !.after = new,
                                !.carries = (new.declares = files.layers[l].declares)]
  <2>1. files.layers[l] \in Text
    BY <1>a, SnapshotParts DEF FileTypes
  <2>2. v \in Work
    BY <2>1, BlankFits DEF Work, Blank
  <2>3. Fits(p, "read", v)
    BY <2>1 DEF Fits, Reviewing, Blank
  <2>4. FileTypes'
    BY <1>1, <1>a DEF ReadLayer, shared, history, FileTypes
  <2>5. QED
    BY <1>1, <1>a, <2>2, <2>3, <2>4, ProcessMoves DEF ReadLayer, Start, Locations
<1>2. CASE Capture(p)
  <2>1. [w EXCEPT !.snap = files] \in Work
    BY <1>a DEF Work, FileTypes
  <2>2. Fits(p, "captured", [w EXCEPT !.snap = files])
    BY <1>2, <1>a DEF Capture, Fits, Reviewing, FileTypes, Work
  <2>3. FileTypes'
    BY <1>2, <1>a DEF Capture, shared, history, FileTypes
  <2>4. QED
    BY <1>2, <1>a, <2>1, <2>2, <2>3, ProcessMoves DEF Capture, Go, Locations
<1>3. CASE CheckCaptured(p)
  <2> DEFINE v == [w EXCEPT !.snap = IF Trusts(w.snap) THEN @ ELSE None]
  <2>1. v \in Work
    BY <1>a DEF Work
  <2>2. Fits(p, "checked", v)
    BY <1>3, <1>a DEF CheckCaptured, Fits, Reviewing, Work
  <2>3. FileTypes'
    BY <1>3, <1>a DEF CheckCaptured, shared, FileTypes
  <2>4. QED
    BY <1>3, <1>a, <2>1, <2>2, <2>3, ProcessMoves DEF CheckCaptured, Go, Locations
<1>4. CASE WriteLayer(p)
  <2>1. Fits(p, "written", w) /\ w.layer \in Layers /\ w.after \in Text
    BY <1>4, <1>a DEF WriteLayer, Fits, Reviewing
  <2>2. [files EXCEPT !.layers[w.layer] = w.after] \in Snapshot
    BY <1>a, <2>1, Relayered DEF FileTypes
  <2>3. FileTypes'
    BY <1>4, <1>a, <2>2 DEF WriteLayer, history, FileTypes
  <2>4. QED
    BY <1>4, <1>a, <2>1, <2>3, ProcessMoves DEF WriteLayer, Go, Locations
<1>5. CASE AcrossWrite(p)
  <2>1. entry' \in Trust!Entry \cup {None}
    <3>1. CASE UNCHANGED entry
      BY <1>a, <3>1 DEF FileTypes
    <3>2. CASE w.snap # None /\ Repinned(Spliced(w))
      <4>1. w.snap \in Snapshot /\ w.layer \in Layers /\ w.after \in Text
        BY <1>5, <1>a, <3>2 DEF AcrossWrite, Fits, Work
      <4>2. Spliced(w) \in Snapshot
        BY <4>1, Relayered DEF Spliced
      <4>3. QED
        BY <1>a, <3>2, <4>2, RepinnedEntry DEF Repinned, FileTypes
    <3>3. QED
      BY <1>5, <3>1, <3>2 DEF AcrossWrite
  <2>2. FileTypes'
    BY <1>5, <1>a, <2>1 DEF AcrossWrite, FileTypes
  <2>3. QED
    BY <1>5, <1>a, <2>2, ProcessLeaves DEF AcrossWrite
<1>6. QED
  BY <1>1, <1>2, <1>3, <1>4, <1>5 DEF Carry

LEMMA LoadTypes ==
  ASSUME TypeInv, NEW p \in Loaders, LoadSkill(p)
  PROVE  TypeInv'
<1>a. p \in Procs /\ pc[p] \in Locations /\ work[p] \in Work /\ Fits(p, pc[p], work[p]) /\ FileTypes
  BY TypeParts DEF TypeInv, Holding, Procs, TypeOK
<1> DEFINE w == work[p]
<1>1. ASSUME NEW i \in Items, Note(p, i) PROVE TypeInv'
  <2>1. [Blank EXCEPT !.item = i] \in Work
    BY BlankFits DEF Work, Blank
  <2>2. Fits(p, "noted", [Blank EXCEPT !.item = i])
    BY DEF Fits, Reviewing, Blank
  <2>3. FileTypes'
    BY <1>1, <1>a DEF Note, shared, history, FileTypes
  <2>4. QED
    BY <1>1, <1>a, <2>1, <2>2, <2>3, ProcessMoves DEF Note, Start, Locations
<1>2. CASE LoadLock(p)
  <2>1. files.lock \in Lock
    BY <1>a, SnapshotParts DEF FileTypes
  <2>2. [w EXCEPT !.lock = files.lock] \in Work
    BY <1>a, <2>1 DEF Work
  <2>3. Fits(p, "locked", [w EXCEPT !.lock = files.lock])
    BY <1>2, <1>a, <2>1 DEF LoadLock, Fits, Reviewing, Work
  <2>4. FileTypes'
    BY <1>2, <1>a DEF LoadLock, shared, history, FileTypes
  <2>5. QED
    BY <1>2, <1>a, <2>2, <2>3, <2>4, ProcessMoves DEF LoadLock, Go, Locations
<1>3. CASE Ask(p)
  <2>1. FileTypes'
    BY <1>3, <1>a DEF Ask, shared, FileTypes
  <2>2. CASE Leave(p)
    BY <1>a, <2>1, <2>2, ProcessLeaves
  <2>3. CASE Go(p, "asked", [w EXCEPT !.refused = refused[w.item]])
    <3>1. w.item \in Items
      BY <1>3, <1>a DEF Ask, Fits
    <3>2. refused[w.item] \in BOOLEAN
      BY <1>a, <3>1 DEF FileTypes
    <3>3. [w EXCEPT !.refused = refused[w.item]] \in Work
      BY <1>a, <3>2 DEF Work
    <3>4. Fits(p, "asked", [w EXCEPT !.refused = refused[w.item]])
      BY <1>3, <1>a DEF Ask, Fits, Reviewing, Work
    <3>5. QED
      BY <1>a, <2>1, <2>3, <3>3, <3>4, ProcessMoves DEF Go, Locations
  <2>4. QED
    BY <1>3, <2>2, <2>3 DEF Ask, Serve
<1>4. CASE ServePinned(p)
  <2>1. FileTypes'
    BY <1>4, <1>a DEF ServePinned, shared, FileTypes
  <2>2. Leave(p)
    BY <1>4 DEF ServePinned, Serve
  <2>3. QED
    BY <1>a, <2>1, <2>2, ProcessLeaves
<1>5. QED
  BY <1>1, <1>2, <1>3, <1>4 DEF LoadSkill

\* What a review holds once the drifted items are answered.
Told(w, drifted, answer) ==
    [w EXCEPT !.digest = w.snap,
              !.answers = [i \in Items |-> IF i \in drifted THEN answer[i] ELSE None]]

LEMMA AnswerTypes ==
  ASSUME TypeInv, NEW p \in Reviewers, pc[p] = "shown",
         NEW drifted \in SUBSET Items, NEW answer \in [drifted -> {"accept", "keep", "block"}],
         work[p].consented # None => drifted = {}
  PROVE  LET w == work[p]
             told == Told(w, drifted, answer)
         IN  /\ told \in Work
             /\ told.snap = w.snap /\ told.digest = w.snap /\ told.displayed = w.displayed
             /\ told.consented = w.consented
             /\ w.snap \in Snapshot /\ w.displayed \in [Items -> Contents]
             /\ \A i \in Items : told.answers[i] = IF i \in drifted THEN answer[i] ELSE None
             /\ Accepted(told) \subseteq drifted
             /\ Accepted(told) # {} => Fits(p, "patch", told)
             /\ Fits(p, "grant", told)
<1> DEFINE w == work[p]
           answers == [i \in Items |-> IF i \in drifted THEN answer[i] ELSE None]
           told == Told(w, drifted, answer)
<1> USE DEF Told
<1>1. w \in Work /\ Fits(p, "shown", w)
  BY DEF TypeInv, TypeOK, Holding, Procs
<1>2. w.snap \in Snapshot /\ w.displayed \in [Items -> Contents]
  BY <1>1 DEF Fits, Reviewing
<1>3. answers \in [Items -> {"accept", "keep", "block", None}]
  OBVIOUS
<1>4. told \in Work
  BY <1>1, <1>2, <1>3 DEF Work
<1>5. /\ told.snap = w.snap /\ told.digest = w.snap /\ told.displayed = w.displayed
      /\ told.consented = w.consented /\ told.answers = answers
  BY <1>1 DEF Work
<1>6. Accepted(told) \subseteq drifted
  <2> SUFFICES ASSUME NEW i \in Items, told.answers[i] = "accept", i \notin drifted PROVE FALSE
    BY DEF Accepted
  <2>1. told.answers[i] = None
    BY <1>5
  <2>2. QED
    BY <2>1, ConsentAssumption
<1>7. Fits(p, "grant", told)
  BY <1>2, <1>5 DEF Fits, Reviewing
<1>8. Accepted(told) # {} => Fits(p, "patch", told)
  BY <1>2, <1>5, <1>6 DEF Fits, Reviewing
<1>9. QED
  BY <1>2, <1>4, <1>5, <1>6, <1>7, <1>8

\* Every answer is a choice for each drifted item.
LEMMA AnswerChoice ==
  ASSUME NEW p, Answer(p)
  PROVE  \E answer \in [Drifted(work[p].snap, work[p].displayed) -> {"accept", "keep", "block"}] :
           LET w == work[p]
               told == Told(w, Drifted(w.snap, w.displayed), answer)
           IN  /\ Go(p, IF Accepted(told) # {} THEN "patch" ELSE "grant", told)
               /\ IF w.consented # None
                  THEN UNCHANGED <<reviewed, approved>>
                  ELSE /\ reviewed' = reviewed \cup {Surface(Effective(told))}
                       /\ approved' = approved \cup AnsweredYes(told)
BY DEF Answer, Told

LEMMA ReviewerTypes ==
  ASSUME TypeInv, NEW p \in Reviewers, Review(p)
  PROVE  TypeInv'
<1>a. p \in Procs /\ pc[p] \in Locations /\ work[p] \in Work /\ Fits(p, pc[p], work[p]) /\ FileTypes
  BY TypeParts DEF TypeInv, Holding, Procs, TypeOK
<1> DEFINE w == work[p]
<1>1. ASSUME NEW consented \in {None} \cup previewed, BeginReview(p, consented) PROVE TypeInv'
  <2> DEFINE v == [Blank EXCEPT !.snap = files, !.consented = consented]
  <2>1. v \in Work
    <3>1. files \in Snapshot /\ consented \in Snapshot \cup {None}
      BY <1>a DEF FileTypes
    <3>2. QED
      BY <3>1, BlankFits DEF Work
  <2>2. Fits(p, "show", v)
    BY <1>a DEF Fits, Reviewing, Blank, FileTypes
  <2>3. FileTypes'
    BY <1>1, <1>a DEF BeginReview, shared, history, FileTypes
  <2>4. QED
    BY <1>1, <1>a, <2>1, <2>2, <2>3, ProcessMoves DEF BeginReview, Start, Locations
<1>2. CASE Show(p)
  <2> DEFINE v == [w EXCEPT !.prior = surface, !.displayed = live]
  <2>1. v \in Work
    BY <1>a DEF Work, FileTypes
  <2>2. Fits(p, "shown", v)
    BY <1>2, <1>a DEF Show, Fits, Reviewing, Work, FileTypes
  <2>3. FileTypes'
    BY <1>2, <1>a DEF Show, shared, history, FileTypes
  <2>4. QED
    BY <1>2, <1>a, <2>1, <2>2, <2>3, ProcessMoves DEF Show, Go, Locations
<1>3. CASE Answer(p)
  <2> DEFINE drifted == Drifted(w.snap, w.displayed)
  <2>1. drifted \in SUBSET Items /\ pc[p] = "shown" /\ (w.consented # None => drifted = {})
    BY <1>3 DEF Answer, Drifted
  <2>2. FileTypes'
    BY <1>3, <1>a DEF Answer, shared, FileTypes
  <2>3. PICK answer \in [drifted -> {"accept", "keep", "block"}] :
          LET told == Told(w, drifted, answer)
          IN  Go(p, IF Accepted(told) # {} THEN "patch" ELSE "grant", told)
    BY <1>3, AnswerChoice
  <2> DEFINE told == Told(w, drifted, answer)
  <2> HIDE DEF drifted
  <2>4. /\ told \in Work /\ Fits(p, "grant", told)
        /\ Accepted(told) # {} => Fits(p, "patch", told)
    BY <2>1, AnswerTypes
  <2>5. CASE Accepted(told) # {}
    <3>1. Go(p, "patch", told)
      BY <2>3, <2>5
    <3> HIDE DEF told
    <3>2. QED
      BY <1>a, <2>2, <2>4, <2>5, <3>1, ProcessMoves DEF Go, Locations
  <2>6. CASE Accepted(told) = {}
    <3>1. Go(p, "grant", told)
      BY <2>3, <2>6
    <3> HIDE DEF told
    <3>2. QED
      BY <1>a, <2>2, <2>4, <3>1, ProcessMoves DEF Go, Locations
  <2>7. QED
    BY <2>5, <2>6
<1>4. CASE Bail(p)
  <2>1. FileTypes'
    BY <1>4, <1>a DEF Bail, shared, history, FileTypes
  <2>2. QED
    BY <1>4, <1>a, <2>1, ProcessLeaves DEF Bail
<1>5. CASE Patch(p)
  <2>1. w.snap \in Snapshot /\ w.displayed \in [Items -> Contents] /\ w.consented = None
        /\ w.digest \in Snapshot /\ p \in Reviewers
    BY <1>5, <1>a DEF Patch, Fits, Reviewing
  <2>2. PatchedLock(w) \in Lock
    BY <1>a, <2>1, ReviewTypes
  <2>3. CASE Leave(p) /\ UNCHANGED files
    <3>1. FileTypes'
      BY <1>5, <1>a, <2>3 DEF Patch, history, FileTypes
    <3>2. QED
      BY <1>a, <2>3, <3>1, ProcessLeaves
  <2>4. CASE /\ Go(p, "reread", [w EXCEPT !.lock = PatchedLock(w)])
             /\ files' = [files EXCEPT !.lock = PatchedLock(w)]
    <3>1. files' \in Snapshot
      BY <1>a, <2>2, <2>4, Relocked DEF FileTypes
    <3>2. FileTypes'
      BY <1>5, <1>a, <3>1 DEF Patch, history, FileTypes
    <3> DEFINE v == [w EXCEPT !.lock = PatchedLock(w)]
    <3>3. v \in Work
      BY <1>a, <2>2 DEF Work
    <3>4. PatchedLock(v) = PatchedLock(w) /\ v.lock = PatchedLock(w)
      BY <1>a DEF PatchedLock, Accepted, Work
    <3>5. Fits(p, "reread", v)
      BY <1>a, <2>1, <3>4 DEF Fits, Reviewing, Work
    <3> HIDE DEF v
    <3>6. Go(p, "reread", v)
      BY <2>4 DEF v
    <3>7. QED
      BY <1>a, <3>2, <3>3, <3>5, <3>6, ProcessMoves DEF Go, Locations
  <2>5. QED
    BY <1>5, <2>3, <2>4 DEF Patch
<1>6. CASE Reread(p)
  <2> DEFINE v == [w EXCEPT !.digest = [w.snap EXCEPT !.lock = files.lock], !.lock = None]
  <2>1. w.snap \in Snapshot /\ w.displayed \in [Items -> Contents] /\ p \in Reviewers
    BY <1>6, <1>a DEF Reread, Fits, Reviewing
  <2>2. [w.snap EXCEPT !.lock = files.lock] \in Snapshot
    BY <1>a, <2>1, SnapshotParts, Relocked DEF FileTypes
  <2>3. v \in Work
    BY <1>a, <2>2 DEF Work
  <2>4. Fits(p, "grant", v)
    BY <1>a, <2>1, <2>2 DEF Fits, Reviewing, Work
  <2>5. FileTypes'
    BY <1>6, <1>a DEF Reread, shared, FileTypes
  <2>6. Go(p, "grant", v)
    BY <1>6 DEF Reread
  <2> HIDE DEF v
  <2>7. QED
    BY <1>a, <2>3, <2>4, <2>5, <2>6, ProcessMoves DEF Go, Locations
<1>7. CASE VerifyConsent(p)
  <2>1. FileTypes'
    BY <1>7, <1>a DEF VerifyConsent, shared, history, FileTypes
  <2>2. CASE Leave(p)
    BY <1>a, <2>1, <2>2, ProcessLeaves
  <2>3. CASE Go(p, "store", [w EXCEPT !.digest = files])
    <3> DEFINE v == [w EXCEPT !.digest = files]
    <3>1. v \in Work
      BY <1>a DEF Work, FileTypes
    <3>2. Fits(p, "store", v)
      BY <1>7, <1>a DEF VerifyConsent, Fits, Reviewing, Work, FileTypes
    <3>3. QED
      BY <1>a, <2>1, <2>3, <3>1, <3>2, ProcessMoves DEF Go, Locations
  <2>4. QED
    BY <1>7, <2>2, <2>3 DEF VerifyConsent
<1>8. CASE Grant(p)
  <2>1. w.snap \in Snapshot /\ w.displayed \in [Items -> Contents] /\ p \in Reviewers /\ w.digest \in Snapshot
    BY <1>8, <1>a DEF Grant, Fits, Reviewing
  <2>2. entry' \in Trust!Entry
    BY <1>8, <1>a, <2>1, GrantedEntry DEF Grant, FileTypes
  <2>3. surface' \in Lock
    BY <1>8, <1>a, <2>1, ReviewTypes DEF Grant
  <2>4. refused' \in [Items -> BOOLEAN]
    BY <1>8, <1>a DEF Grant, FileTypes
  <2>5. FileTypes'
    BY <1>8, <1>a, <2>2, <2>3, <2>4 DEF Grant, FileTypes
  <2>6. CASE Leave(p)
    BY <1>a, <2>5, <2>6, ProcessLeaves
  <2>7. CASE Go(p, "decide", w)
    <3>1. Fits(p, "decide", w)
      BY <2>1 DEF Fits, Reviewing
    <3>2. QED
      BY <1>a, <2>5, <2>7, <3>1, ProcessMoves DEF Go, Locations
  <2>8. QED
    BY <1>8, <2>6, <2>7 DEF Grant
<1>9. ASSUME NEW i \in Items, Decide(p, i) PROVE TypeInv'
  <2> DEFINE rest == [w EXCEPT !.answers[i] = None]
  <2>1. w.snap \in Snapshot /\ w.displayed \in [Items -> Contents] /\ p \in Reviewers /\ w.digest \in Snapshot
    BY <1>9, <1>a DEF Decide, Fits, Reviewing
  <2>2. i \in Asked(w)
    BY <1>9 DEF Decide
  <2>3. StandingAnswer(w, i) \in Standing \cup {None}
    BY <1>a, <2>1, <2>2, ReviewTypes
  <2>4. entry' \in Trust!Entry \cup {None}
    BY <1>9, <1>a, <2>3, AnsweredEntry DEF Decide, FileTypes
  <2>5. FileTypes'
    BY <1>9, <1>a, <2>4 DEF Decide, history, FileTypes
  <2>6. CASE Leave(p)
    BY <1>a, <2>5, <2>6, ProcessLeaves
  <2>7. CASE Go(p, "decide", rest)
    <3>1. rest \in Work
      BY <1>a DEF Work
    <3>2. Fits(p, "decide", rest)
      BY <1>a, <2>1 DEF Fits, Reviewing, Work
    <3>3. QED
      BY <1>a, <2>5, <2>7, <3>1, <3>2, ProcessMoves DEF Go, Locations
  <2>8. QED
    BY <1>9, <2>6, <2>7 DEF Decide
<1>10. QED
  BY <1>1, <1>2, <1>3, <1>4, <1>5, <1>6, <1>7, <1>8, <1>9 DEF Review

\* Editors and revocations touch the files and the store only.
LEMMA WorldTypes ==
  ASSUME TypeInv, Preview \/ Revoke \/ Edit
  PROVE  TypeInv'
<1>a. FileTypes
  BY TypeParts DEF TypeInv
<1>1. FileTypes'
  <2>1. CASE Preview
    BY <1>a, <2>1 DEF Preview, FileTypes
  <2>2. CASE Revoke
    <3>1. entry' = None
      BY <2>2 DEF Revoke, Trust!Effect
    <3>2. QED
      BY <1>a, <2>2, <3>1 DEF Revoke, FileTypes
  <2>3. ASSUME NEW new \in Snapshot, EditFiles(new) PROVE FileTypes'
    BY <1>a, <2>3 DEF EditFiles, history, FileTypes
  <2>4. ASSUME NEW i \in Items, NEW c \in Contents, EditSkill(i, c) PROVE FileTypes'
    BY <1>a, <2>4 DEF EditSkill, history, FileTypes
  <2>5. \A l \in Layers, text \in Text : [files EXCEPT !.layers[l] = text] \in Snapshot
    BY <1>a, Relayered DEF FileTypes
  <2>6. \A i \in Items, c \in Contents \cup {Unpinned} : [files EXCEPT !.lock[i] = c] \in Snapshot
    BY <1>a DEF FileTypes, Snapshot, Lock
  <2>7. QED
    BY <2>1, <2>2, <2>3, <2>4, <2>5, <2>6 DEF Edit
<1>2. UNCHANGED <<pc, work>>
  BY DEF Preview, Revoke, Edit, EditFiles, EditSkill
<1>3. Holding'
  BY <1>2 DEF TypeInv, Holding, Fits, PatchedLock, Accepted
<1>4. QED
  BY <1>1, <1>2, <1>3, TypeParts DEF TypeInv, TypeOK, FileTypes

LEMMA NextTypes == TypeInv /\ [Next]_vars => TypeInv'
<1> SUFFICES ASSUME TypeInv, [Next]_vars PROVE TypeInv'
  OBVIOUS
<1>1. ASSUME NEW p \in Procs, Die(p) PROVE TypeInv'
  <2>1. FileTypes'
    BY <1>1, TypeParts DEF TypeInv, Die, shared, FileTypes
  <2>2. QED
    BY <1>1, <2>1, ProcessLeaves DEF Die
<1>2. CASE UNCHANGED vars
  BY <1>2 DEF vars, TypeInv, TypeOK, Holding, Fits, PatchedLock, Accepted
<1>3. QED
  BY <1>1, <1>2, CarryTypes, ReviewerTypes, LoadTypes, WorldTypes DEF Next

\* The types hold in every reachable state, and each process holds what its
\* place in trust_carry, grant_probed or load_skill says it holds.
THEOREM TypesTheorem == Spec => []TypeOK
<1>1. TypeInv => TypeOK
  BY DEF TypeInv
<1>2. QED
  BY InitTypes, NextTypes, <1>1, PTL DEF Spec

-----------------------------------------------------------------------------
(* What the store pins was reviewed                                        *)

Overlooked == slip \cap {"carry", "reread", "revoke"} # {}

\* A process on its way to the store carries a surface that was reviewed.
WasReviewed(at, w, seen) ==
    /\ at \in {"checked", "written"} /\ w.carries /\ w.snap # None => Surface(Spliced(w)) \in seen
    /\ w.consented # None => Surface(w.consented) \in seen
    /\ at \in {"patch", "reread"} => Surface(Effective(w)) \in seen
    /\ at = "grant" /\ w.consented = None => Surface(w.digest) \in seen
    /\ at = "store" => Surface(w.digest) \in seen

InFlightWasReviewed ==
    ~Overlooked =>
        /\ \A s \in previewed : Surface(s) \in reviewed
        /\ \A p \in Procs : WasReviewed(pc[p], work[p], reviewed)

ReviewInv == TypeInv /\ TrustedWasReviewed /\ InFlightWasReviewed

\* A step after which everything reviewed before is still reviewed.
LEMMA ProcessStaysReviewed ==
  ASSUME ReviewInv, NEW p \in Procs, NEW at, NEW w,
         pc' = [pc EXCEPT ![p] = at], work' = [work EXCEPT ![p] = w],
         reviewed \subseteq reviewed', slip \subseteq slip', UNCHANGED previewed,
         ~Overlooked' => WasReviewed(at, w, reviewed')
  PROVE  InFlightWasReviewed'
<1> SUFFICES ASSUME ~Overlooked'
             PROVE  /\ \A s \in previewed' : Surface(s) \in reviewed'
                    /\ \A q \in Procs : WasReviewed(pc'[q], work'[q], reviewed')
  BY DEF InFlightWasReviewed
<1>1. ~Overlooked
  BY DEF Overlooked
<1>2. \A s \in previewed' : Surface(s) \in reviewed'
  BY <1>1 DEF ReviewInv, InFlightWasReviewed
<1>3. ASSUME NEW q \in Procs PROVE WasReviewed(pc'[q], work'[q], reviewed')
  <2>1. CASE q = p
    <3>1. pc'[q] = at /\ work'[q] = w
      BY <2>1 DEF ReviewInv, TypeInv, TypeOK
    <3>2. QED
      BY <3>1 DEF WasReviewed
  <2>2. CASE q # p
    <3>1. pc'[q] = pc[q] /\ work'[q] = work[q]
      BY <2>2 DEF ReviewInv, TypeInv, TypeOK
    <3>2. WasReviewed(pc[q], work[q], reviewed)
      BY <1>1 DEF ReviewInv, InFlightWasReviewed
    <3>3. QED
      BY <3>1, <3>2 DEF WasReviewed
  <2>3. QED
    BY <2>1, <2>2
<1>4. QED
  BY <1>2, <1>3

\* No consent, and nothing in hand.
LEMMA IdleIsReviewed == WasReviewed("idle", Blank, reviewed)
BY DEF WasReviewed, Blank

LEMMA ProcessLeavesReviewed ==
  ASSUME ReviewInv, NEW p \in Procs, Leave(p), UNCHANGED <<reviewed, previewed>>, slip \subseteq slip'
  PROVE  InFlightWasReviewed'
<1>1. WasReviewed("idle", Blank, reviewed')
  BY DEF WasReviewed, Blank
<1>2. QED
  BY <1>1, ProcessStaysReviewed DEF Leave, Go

\* The same store and no less reviewed.
LEMMA StorePins ==
  ASSUME ReviewInv, entry' = entry, reviewed \subseteq reviewed', slip \subseteq slip'
  PROVE  TrustedWasReviewed'
BY DEF ReviewInv, TrustedWasReviewed

LEMMA InitReview == Init => ReviewInv
<1> SUFFICES ASSUME Init PROVE ReviewInv
  OBVIOUS
<1>1. TypeInv
  BY InitTypes
<1>2. TrustedWasReviewed
  BY DEF Init, TrustedWasReviewed
<1>3. InFlightWasReviewed
  BY IdleIsReviewed DEF Init, InFlightWasReviewed
<1>4. QED
  BY <1>1, <1>2, <1>3 DEF ReviewInv

\* A re-pin authorizes nothing: what is declared and what is pinned are those
\* of the captured snapshot, unless the layer was not the one that was read.
LEMMA SplicedSurface ==
  ASSUME NEW w \in Work, w.snap \in Snapshot, w.layer \in Layers, w.after \in Text,
         w.after.declares = w.snap.layers[w.layer].declares
  PROVE  Surface(Spliced(w)) = Surface(w.snap)
<1>1. Spliced(w) = [layers |-> [w.snap.layers EXCEPT ![w.layer] = w.after], lock |-> w.snap.lock]
  BY Relayered DEF Spliced
<1>2. w.snap.layers \in [Layers -> Text]
  BY SnapshotParts
<1>3. [l \in Layers |-> [w.snap.layers EXCEPT ![w.layer] = w.after][l].declares]
        = [l \in Layers |-> w.snap.layers[l].declares]
  BY <1>2
<1>4. QED
  BY <1>1, <1>3 DEF Surface

LEMMA CarryReviewed ==
  ASSUME ReviewInv, NEW p \in Carriers, Carry(p)
  PROVE  ReviewInv'
<1>t. TypeInv'
  BY CarryTypes DEF ReviewInv
<1>a. p \in Procs /\ work[p] \in Work /\ Fits(p, pc[p], work[p]) /\ FileTypes
  BY TypeParts DEF ReviewInv, TypeInv, Holding, Procs, TypeOK
<1> DEFINE w == work[p]
<1>h. ~Overlooked => WasReviewed(pc[p], w, reviewed)
  BY <1>a DEF ReviewInv, InFlightWasReviewed
<1>1. ASSUME NEW l \in Layers, NEW new \in Text, ReadLayer(p, l, new) PROVE ReviewInv'
  <2> DEFINE v == [Blank EXCEPT !.layer = l, !.before = files.layers[l], !.after = new,
                                !.carries = (new.declares = files.layers[l].declares)]
  <2>1. UNCHANGED <<entry, reviewed, previewed, slip>>
    BY <1>1 DEF ReadLayer, shared, history
  <2>2. WasReviewed("read", v, reviewed')
    BY DEF WasReviewed, Blank
  <2>3. InFlightWasReviewed'
    BY <1>1, <1>a, <2>1, <2>2, ProcessStaysReviewed DEF ReadLayer, Start
  <2>4. QED
    BY <1>t, <2>1, <2>3, StorePins DEF ReviewInv
<1>2. CASE Capture(p)
  <2> DEFINE v == [w EXCEPT !.snap = files]
  <2>1. UNCHANGED <<entry, reviewed, previewed, slip>>
    BY <1>2 DEF Capture, shared, history
  <2>2. ~Overlooked' => WasReviewed("captured", v, reviewed')
    BY <1>a, <1>h, <2>1 DEF WasReviewed, Work, Overlooked
  <2>3. InFlightWasReviewed'
    BY <1>2, <1>a, <2>1, <2>2, ProcessStaysReviewed DEF Capture, Go
  <2>4. QED
    BY <1>t, <2>1, <2>3, StorePins DEF ReviewInv
<1>3. CASE CheckCaptured(p)
  <2> DEFINE v == [w EXCEPT !.snap = IF Trusts(w.snap) THEN @ ELSE None]
  <2>1. UNCHANGED <<entry, reviewed, previewed>> /\ slip \subseteq slip'
    BY <1>3 DEF CheckCaptured, shared
  <2>2. ~Overlooked' => WasReviewed("checked", v, reviewed')
    <3> SUFFICES ASSUME ~Overlooked' PROVE WasReviewed("checked", v, reviewed')
      OBVIOUS
    <3>1. ~Overlooked
      BY <2>1 DEF Overlooked
    <3>2. v.consented = w.consented /\ v.carries = w.carries /\ v.layer = w.layer /\ v.after = w.after
          /\ v.snap = IF Trusts(w.snap) THEN w.snap ELSE None
      BY <1>a DEF Work
    <3>3. ASSUME w.carries, v.snap # None PROVE Surface(Spliced(v)) \in reviewed'
      <4>1. Trusts(w.snap) /\ v.snap = w.snap
        BY <3>2, <3>3
      <4>2. w.snap \in Snapshot /\ w.layer \in Layers /\ w.after \in Text /\ w.after.declares = w.before.declares
        BY <1>3, <1>a, <3>3 DEF CheckCaptured, Fits
      <4>3. w.snap.layers[w.layer] = w.before
        BY <1>3, <3>3, <4>1 DEF CheckCaptured, Overlooked
      <4>4. v \in Work
        BY <1>a DEF Work
      <4>5. Surface(Spliced(v)) = Surface(w.snap)
        BY <3>2, <4>1, <4>2, <4>3, <4>4, SplicedSurface
      <4>6. Surface(w.snap) \in reviewed
        BY <3>1, <4>1 DEF ReviewInv, TrustedWasReviewed, Trusts, Overlooked
      <4>7. QED
        BY <2>1, <4>5, <4>6
    <3> HIDE DEF v
    <3>4. QED
      BY <1>h, <2>1, <3>1, <3>2, <3>3 DEF WasReviewed
  <2>3. InFlightWasReviewed'
    BY <1>3, <1>a, <2>1, <2>2, ProcessStaysReviewed DEF CheckCaptured, Go
  <2>4. QED
    BY <1>t, <2>1, <2>3, StorePins DEF ReviewInv
<1>4. CASE WriteLayer(p)
  <2>1. UNCHANGED <<entry, reviewed, previewed, slip>>
    BY <1>4 DEF WriteLayer, history
  <2>2. ~Overlooked' => WasReviewed("written", w, reviewed')
    BY <1>4, <1>h, <2>1 DEF WriteLayer, WasReviewed, Overlooked
  <2>3. InFlightWasReviewed'
    BY <1>4, <1>a, <2>1, <2>2, ProcessStaysReviewed DEF WriteLayer, Go
  <2>4. QED
    BY <1>t, <2>1, <2>3, StorePins DEF ReviewInv
<1>5. CASE AcrossWrite(p)
  <2>1. UNCHANGED <<reviewed, previewed>> /\ slip \subseteq slip'
    BY <1>5 DEF AcrossWrite
  <2>2. InFlightWasReviewed'
    BY <1>5, <1>a, <2>1, ProcessLeavesReviewed DEF AcrossWrite
  <2>3. TrustedWasReviewed'
    <3>1. CASE UNCHANGED entry
      BY <2>1, <3>1, StorePins
    <3>2. CASE w.carries /\ w.snap # None /\ Repinned(Spliced(w))
      <4> SUFFICES ASSUME entry' # None, ~Overlooked' PROVE Surface(entry'.digest) \in reviewed'
        BY DEF TrustedWasReviewed, Overlooked
      <4>1. ~Overlooked
        BY <2>1 DEF Overlooked
      <4>2. Surface(Spliced(w)) \in reviewed
        BY <1>5, <1>h, <3>2, <4>1 DEF AcrossWrite, WasReviewed
      <4>3. w.snap \in Snapshot /\ w.layer \in Layers /\ w.after \in Text
        BY <1>5, <1>a, <3>2 DEF AcrossWrite, Fits, Work
      <4>4. Spliced(w) \in Snapshot
        BY <4>3, Relayered DEF Spliced
      <4>5. entry'.digest = Spliced(w)
        BY <1>a, <3>2, <4>4, RepinnedEntry DEF Repinned, FileTypes
      <4>6. QED
        BY <2>1, <4>2, <4>5
    <3>3. QED
      BY <1>5, <3>1, <3>2 DEF AcrossWrite
  <2>4. QED
    BY <1>t, <2>2, <2>3 DEF ReviewInv
<1>6. QED
  BY <1>1, <1>2, <1>3, <1>4, <1>5 DEF Carry

LEMMA NothingAccepted ==
  ASSUME NEW w \in Work, w.snap \in Snapshot, Accepted(w) = {}
  PROVE  Effective(w) = w.snap
<1>1. w.snap = [layers |-> w.snap.layers, lock |-> w.snap.lock] /\ w.snap.lock \in Lock
  BY SnapshotParts
<1>2. PatchedLock(w) = w.snap.lock
  BY <1>1 DEF PatchedLock, Lock
<1>3. Effective(w) = [layers |-> w.snap.layers, lock |-> PatchedLock(w)]
  BY DEF Effective, Snapshot
<1>4. QED
  BY <1>1, <1>2, <1>3

LEMMA ReviewerReviewed ==
  ASSUME ReviewInv, NEW p \in Reviewers, Review(p)
  PROVE  ReviewInv'
<1>t. TypeInv'
  BY ReviewerTypes DEF ReviewInv
<1>a. p \in Procs /\ work[p] \in Work /\ Fits(p, pc[p], work[p]) /\ FileTypes
  BY TypeParts DEF ReviewInv, TypeInv, Holding, Procs, TypeOK
<1> DEFINE w == work[p]
<1>h. ~Overlooked => WasReviewed(pc[p], w, reviewed)
  BY <1>a DEF ReviewInv, InFlightWasReviewed
<1>1. ASSUME NEW consented \in {None} \cup previewed, BeginReview(p, consented) PROVE ReviewInv'
  <2> DEFINE v == [Blank EXCEPT !.snap = files, !.consented = consented]
  <2>1. UNCHANGED <<entry, reviewed, previewed, slip>>
    BY <1>1 DEF BeginReview, shared, history
  <2>2. ~Overlooked' => WasReviewed("show", v, reviewed')
    BY <2>1 DEF WasReviewed, Blank, ReviewInv, InFlightWasReviewed, Overlooked
  <2>3. InFlightWasReviewed'
    BY <1>1, <1>a, <2>1, <2>2, ProcessStaysReviewed DEF BeginReview, Start
  <2>4. QED
    BY <1>t, <2>1, <2>3, StorePins DEF ReviewInv
<1>2. CASE Show(p)
  <2> DEFINE v == [w EXCEPT !.prior = surface, !.displayed = live]
  <2>1. UNCHANGED <<entry, reviewed, previewed, slip>>
    BY <1>2 DEF Show, shared, history
  <2>2. ~Overlooked' => WasReviewed("shown", v, reviewed')
    BY <1>a, <1>h, <2>1 DEF WasReviewed, Work, Overlooked
  <2>3. InFlightWasReviewed'
    BY <1>2, <1>a, <2>1, <2>2, ProcessStaysReviewed DEF Show, Go
  <2>4. QED
    BY <1>t, <2>1, <2>3, StorePins DEF ReviewInv
<1>3. CASE Answer(p)
  <2> DEFINE drifted == Drifted(w.snap, w.displayed)
  <2>1. /\ drifted \in SUBSET Items /\ pc[p] = "shown" /\ (w.consented # None => drifted = {})
        /\ UNCHANGED <<entry, previewed, slip>>
    BY <1>3 DEF Answer, Drifted, shared
  <2>2. PICK answer \in [drifted -> {"accept", "keep", "block"}] :
          LET told == Told(w, drifted, answer)
          IN  /\ Go(p, IF Accepted(told) # {} THEN "patch" ELSE "grant", told)
              /\ IF w.consented # None
                 THEN UNCHANGED reviewed
                 ELSE reviewed' = reviewed \cup {Surface(Effective(told))}
    BY <1>3, AnswerChoice
  <2> DEFINE told == Told(w, drifted, answer)
  <2> HIDE DEF drifted
  <2>3. /\ told \in Work /\ told.snap = w.snap /\ told.digest = w.snap /\ told.consented = w.consented
        /\ Accepted(told) \subseteq drifted /\ w.snap \in Snapshot
    BY <2>1, AnswerTypes DEF ReviewInv
  <2>4. reviewed \subseteq reviewed' /\ (w.consented = None => Surface(Effective(told)) \in reviewed')
    BY <2>2
  <2>5. w.consented # None => Accepted(told) = {}
    BY <2>1, <2>3
  <2>6. Accepted(told) = {} => Effective(told) = told.digest
    BY <2>3, NothingAccepted
  <2>7. ~Overlooked' /\ w.consented # None => Surface(w.consented) \in reviewed'
    BY <1>h, <2>1, <2>4 DEF WasReviewed, Overlooked
  <2>8. CASE Accepted(told) # {}
    <3>1. Go(p, "patch", told)
      BY <2>2, <2>8
    <3> HIDE DEF told
    <3>2. ~Overlooked' => WasReviewed("patch", told, reviewed')
      BY <2>3, <2>4, <2>5, <2>7, <2>8 DEF WasReviewed
    <3>3. InFlightWasReviewed'
      BY <1>a, <2>1, <2>4, <3>1, <3>2, ProcessStaysReviewed DEF Go
    <3>4. QED
      BY <1>t, <2>1, <2>4, <3>3, StorePins DEF ReviewInv
  <2>9. CASE Accepted(told) = {}
    <3>1. Go(p, "grant", told)
      BY <2>2, <2>9
    <3> HIDE DEF told
    <3>2. ~Overlooked' => WasReviewed("grant", told, reviewed')
      BY <2>3, <2>4, <2>6, <2>7, <2>9 DEF WasReviewed
    <3>3. InFlightWasReviewed'
      BY <1>a, <2>1, <2>4, <3>1, <3>2, ProcessStaysReviewed DEF Go
    <3>4. QED
      BY <1>t, <2>1, <2>4, <3>3, StorePins DEF ReviewInv
  <2>10. QED
    BY <2>8, <2>9
<1>4. CASE Bail(p)
  <2>1. Leave(p) /\ UNCHANGED <<entry, reviewed, previewed, slip>>
    BY <1>4 DEF Bail, shared, history
  <2>2. QED
    BY <1>t, <1>a, <2>1, ProcessLeavesReviewed, StorePins DEF ReviewInv
<1>5. CASE Patch(p)
  <2>1. UNCHANGED <<entry, reviewed, previewed, slip>> /\ pc[p] = "patch"
    BY <1>5 DEF Patch, history
  <2>2. CASE Leave(p)
    BY <1>t, <1>a, <2>1, <2>2, ProcessLeavesReviewed, StorePins DEF ReviewInv
  <2>3. CASE Go(p, "reread", [w EXCEPT !.lock = PatchedLock(w)])
    <3> DEFINE v == [w EXCEPT !.lock = PatchedLock(w)]
    <3>1. Effective(v) = Effective(w) /\ v.consented = w.consented
      BY <1>a DEF Effective, PatchedLock, Accepted, Work
    <3>2. ~Overlooked' => WasReviewed("reread", v, reviewed')
      BY <1>h, <2>1, <3>1 DEF WasReviewed, Overlooked
    <3>3. InFlightWasReviewed'
      BY <1>a, <2>1, <2>3, <3>2, ProcessStaysReviewed DEF Go
    <3>4. QED
      BY <1>t, <2>1, <3>3, StorePins DEF ReviewInv
  <2>4. QED
    BY <1>5, <2>2, <2>3 DEF Patch
<1>6. CASE Reread(p)
  <2> DEFINE v == [w EXCEPT !.digest = [w.snap EXCEPT !.lock = files.lock], !.lock = None]
  <2>1. UNCHANGED <<entry, reviewed, previewed>> /\ slip \subseteq slip' /\ pc[p] = "reread"
    BY <1>6 DEF Reread, shared
  <2>2. v.consented = w.consented /\ v.digest = [w.snap EXCEPT !.lock = files.lock]
    BY <1>a DEF Work
  <2>3. w.lock = PatchedLock(w)
    BY <1>a, <2>1 DEF Fits
  <2>4. ~Overlooked' => files.lock = w.lock
    BY <1>6 DEF Reread, Overlooked
  <2>5. ~Overlooked' => v.digest = Effective(w)
    BY <2>2, <2>3, <2>4 DEF Effective
  <2>6. ~Overlooked' => ~Overlooked
    BY <2>1 DEF Overlooked
  <2> HIDE DEF v
  <2>7. ~Overlooked' => WasReviewed("grant", v, reviewed')
    BY <1>h, <2>1, <2>2, <2>5, <2>6 DEF WasReviewed
  <2>8. Go(p, "grant", v)
    BY <1>6 DEF Reread, v
  <2>9. InFlightWasReviewed'
    BY <1>a, <2>1, <2>7, <2>8, ProcessStaysReviewed DEF Go
  <2>10. QED
    BY <1>t, <2>1, <2>9, StorePins DEF ReviewInv
<1>7. CASE VerifyConsent(p)
  <2>1. UNCHANGED <<entry, reviewed, previewed, slip>>
    BY <1>7 DEF VerifyConsent, shared, history
  <2>2. CASE Leave(p)
    BY <1>t, <1>a, <2>1, <2>2, ProcessLeavesReviewed, StorePins DEF ReviewInv
  <2>3. CASE files = w.consented /\ w.consented # None /\ Go(p, "store", [w EXCEPT !.digest = files])
    <3> DEFINE v == [w EXCEPT !.digest = files]
    <3>1. v.consented = w.consented /\ v.digest = w.consented
      BY <1>a, <2>3 DEF Work
    <3>2. ~Overlooked' => WasReviewed("store", v, reviewed')
      BY <1>h, <2>1, <2>3, <3>1 DEF WasReviewed, Overlooked
    <3>3. InFlightWasReviewed'
      BY <1>a, <2>1, <2>3, <3>2, ProcessStaysReviewed DEF Go
    <3>4. QED
      BY <1>t, <2>1, <3>3, StorePins DEF ReviewInv
  <2>4. QED
    BY <1>7, <2>2, <2>3 DEF VerifyConsent
<1>8. CASE Grant(p)
  <2>1. UNCHANGED <<reviewed, previewed, slip>>
    BY <1>8 DEF Grant
  <2>2. w.digest \in Snapshot
    BY <1>8, <1>a DEF Grant, Fits
  <2>3. entry'.digest = w.digest
    BY <1>8, <1>a, <2>2, GrantedEntry DEF Grant, FileTypes
  <2>4. ~Overlooked => Surface(w.digest) \in reviewed
    BY <1>8, <1>h DEF Grant, WasReviewed
  <2>5. TrustedWasReviewed'
    BY <2>1, <2>3, <2>4 DEF TrustedWasReviewed, Overlooked
  <2>6. ~Overlooked' => WasReviewed("decide", w, reviewed')
    BY <1>h, <2>1 DEF WasReviewed, Overlooked
  <2>7. CASE Leave(p)
    BY <1>t, <1>a, <2>1, <2>5, <2>7, ProcessLeavesReviewed DEF ReviewInv
  <2>8. CASE Go(p, "decide", w)
    BY <1>t, <1>a, <2>1, <2>5, <2>6, <2>8, ProcessStaysReviewed DEF ReviewInv, Go
  <2>9. QED
    BY <1>8, <2>7, <2>8 DEF Grant
<1>9. ASSUME NEW i \in Items, Decide(p, i) PROVE ReviewInv'
  <2> DEFINE rest == [w EXCEPT !.answers[i] = None]
  <2>1. UNCHANGED <<reviewed, previewed, slip>>
    BY <1>9 DEF Decide, history
  <2>2. /\ w.snap \in Snapshot /\ w.displayed \in [Items -> Contents]
        /\ i \in Asked(w)
    BY <1>9, <1>a DEF Decide, Fits, Reviewing
  <2>3. StandingAnswer(w, i) \in Standing \cup {None}
    BY <1>a, <2>2, ReviewTypes
  <2>4. (entry = None => entry' = None) /\ (entry # None => entry'.digest = entry.digest)
    BY <1>9, <1>a, <2>3, AnsweredEntry DEF Decide, FileTypes
  <2>5. TrustedWasReviewed'
    BY <2>1, <2>4 DEF ReviewInv, TrustedWasReviewed
  <2>6. ~Overlooked' => WasReviewed("decide", rest, reviewed')
    BY <1>a, <1>h, <2>1 DEF WasReviewed, Overlooked, Work
  <2>7. CASE Leave(p)
    BY <1>t, <1>a, <2>1, <2>5, <2>7, ProcessLeavesReviewed DEF ReviewInv
  <2>8. CASE Go(p, "decide", rest)
    BY <1>t, <1>a, <2>1, <2>5, <2>6, <2>8, ProcessStaysReviewed DEF ReviewInv, Go
  <2>9. QED
    BY <1>9, <2>7, <2>8 DEF Decide
<1>10. QED
  BY <1>1, <1>2, <1>3, <1>4, <1>5, <1>6, <1>7, <1>8, <1>9 DEF Review

LEMMA LoadReviewed ==
  ASSUME ReviewInv, NEW p \in Loaders, LoadSkill(p)
  PROVE  ReviewInv'
<1>t. TypeInv'
  BY LoadTypes DEF ReviewInv
<1>a. p \in Procs /\ work[p] \in Work
  BY DEF ReviewInv, TypeInv, Procs, TypeOK
<1> DEFINE w == work[p]
<1>h. ~Overlooked => WasReviewed(pc[p], w, reviewed)
  BY <1>a DEF ReviewInv, InFlightWasReviewed
<1>1. UNCHANGED <<entry, reviewed, previewed>> /\ slip \subseteq slip'
  BY DEF LoadSkill, Note, LoadLock, Ask, ServePinned, shared, history
<1>2. TrustedWasReviewed'
  BY <1>1, StorePins
<1>3. ASSUME NEW i \in Items, Note(p, i) PROVE InFlightWasReviewed'
  <2>1. WasReviewed("noted", [Blank EXCEPT !.item = i], reviewed')
    BY DEF WasReviewed, Blank
  <2>2. QED
    BY <1>a, <1>1, <1>3, <2>1, ProcessStaysReviewed DEF Note, Start
<1>4. ASSUME NEW at \in {"locked", "asked"}, NEW lock, NEW over,
             Go(p, at, [w EXCEPT !.lock = lock]) \/ Go(p, at, [w EXCEPT !.refused = over])
      PROVE  InFlightWasReviewed'
  <2>1. /\ ~Overlooked' => WasReviewed(at, [w EXCEPT !.lock = lock], reviewed')
        /\ ~Overlooked' => WasReviewed(at, [w EXCEPT !.refused = over], reviewed')
    BY <1>a, <1>h, <1>1 DEF WasReviewed, Overlooked, Work
  <2>2. QED
    BY <1>a, <1>1, <1>4, <2>1, ProcessStaysReviewed DEF Go
<1>5. ASSUME Leave(p) PROVE InFlightWasReviewed'
  BY <1>a, <1>1, <1>5, ProcessLeavesReviewed
<1>6. \/ \E i \in Items : Note(p, i)
      \/ Go(p, "locked", [w EXCEPT !.lock = files.lock])
      \/ Go(p, "asked", [w EXCEPT !.refused = refused[w.item]])
      \/ Leave(p)
  BY DEF LoadSkill, LoadLock, Ask, ServePinned, Serve
<1>7. QED
  BY <1>t, <1>2, <1>3, <1>4, <1>5, <1>6 DEF ReviewInv

\* What a review was told on its command line was read with --preview before.
ConsentedWasPreviewed == \A p \in Procs : work[p].consented \in {None} \cup previewed

ConsentInv == TypeInv /\ ConsentedWasPreviewed

LEMMA ConsentStays ==
  ASSUME ConsentInv, NEW p \in Procs, NEW w, work' = [work EXCEPT ![p] = w],
         w.consented \in {None, work[p].consented} \cup previewed, UNCHANGED previewed
  PROVE  ConsentedWasPreviewed'
BY DEF ConsentInv, ConsentedWasPreviewed, TypeInv, TypeOK

LEMMA InitConsent == Init => ConsentInv
BY InitTypes DEF Init, ConsentInv, ConsentedWasPreviewed, Blank

LEMMA NextConsent == ConsentInv /\ [Next]_vars => ConsentInv'
<1> SUFFICES ASSUME ConsentInv, [Next]_vars PROVE ConsentInv'
  OBVIOUS
<1>t. TypeInv'
  BY NextTypes DEF ConsentInv
<1>a. \A p \in Procs : work[p] \in Work
  BY DEF ConsentInv, TypeInv, TypeOK
<1>b. Blank.consented = None
  BY DEF Blank
<1>1. ASSUME NEW p \in Procs, Leave(p), UNCHANGED previewed PROVE ConsentedWasPreviewed'
  BY <1>1, <1>b, ConsentStays DEF Leave, Go
<1>2. ASSUME NEW p \in Carriers, Carry(p) PROVE ConsentedWasPreviewed'
  <2>1. p \in Procs /\ UNCHANGED previewed
    BY <1>2 DEF Procs, Carry, ReadLayer, Capture, CheckCaptured, WriteLayer, AcrossWrite, shared
  <2>2. ASSUME NEW l \in Layers, NEW new \in Text, ReadLayer(p, l, new) PROVE ConsentedWasPreviewed'
    <3> DEFINE v == [Blank EXCEPT !.layer = l, !.before = files.layers[l], !.after = new,
                                  !.carries = (new.declares = files.layers[l].declares)]
    <3>1. v.consented = None
      BY DEF Blank
    <3>2. work' = [work EXCEPT ![p] = v]
      BY <2>2 DEF ReadLayer, Start
    <3> HIDE DEF v
    <3>3. QED
      BY <2>1, <3>1, <3>2, ConsentStays
  <2>3. CASE Capture(p) \/ CheckCaptured(p)
    <3>1. PICK s : work' = [work EXCEPT ![p] = [work[p] EXCEPT !.snap = s]]
      BY <2>3 DEF Capture, CheckCaptured, Go
    <3> DEFINE v == [work[p] EXCEPT !.snap = s]
    <3>2. v.consented = work[p].consented
      BY <1>a, <2>1 DEF Work
    <3> HIDE DEF v
    <3>3. QED
      BY <2>1, <3>1, <3>2, ConsentStays DEF v
  <2>4. CASE WriteLayer(p)
    BY <2>1, <2>4, ConsentStays DEF WriteLayer, Go
  <2>5. CASE AcrossWrite(p)
    BY <1>1, <2>1, <2>5 DEF AcrossWrite
  <2>6. QED
    BY <1>2, <2>2, <2>3, <2>4, <2>5 DEF Carry
<1>3. ASSUME NEW p \in Loaders, LoadSkill(p) PROVE ConsentedWasPreviewed'
  <2>1. p \in Procs /\ UNCHANGED previewed
    BY <1>3 DEF Procs, LoadSkill, Note, LoadLock, Ask, ServePinned, shared
  <2>2. PICK w : work' = [work EXCEPT ![p] = w] /\ w.consented \in {None, work[p].consented}
    BY <1>3, <1>a, <1>b, <2>1
       DEF LoadSkill, Note, LoadLock, Ask, ServePinned, Serve, Start, Go, Leave, Work, Blank
  <2>3. QED
    BY <2>1, <2>2, ConsentStays
<1>4. ASSUME NEW p \in Reviewers, Review(p) PROVE ConsentedWasPreviewed'
  <2>1. p \in Procs /\ UNCHANGED previewed
    BY <1>4 DEF Procs, Review, BeginReview, Show, Answer, Bail, Patch, Reread, VerifyConsent, Grant, Decide, shared
  <2>2. ASSUME NEW consented \in {None} \cup previewed, BeginReview(p, consented)
        PROVE  ConsentedWasPreviewed'
    <3> DEFINE v == [Blank EXCEPT !.snap = files, !.consented = consented]
    <3>1. v.consented = consented
      BY DEF Blank
    <3>2. QED
      BY <2>1, <2>2, <3>1, ConsentStays DEF BeginReview, Start
  <2>3. CASE Answer(p)
    <3> DEFINE drifted == Drifted(work[p].snap, work[p].displayed)
    <3>1. PICK answer \in [drifted -> {"accept", "keep", "block"}] :
            Go(p, IF Accepted(Told(work[p], drifted, answer)) # {} THEN "patch" ELSE "grant",
               Told(work[p], drifted, answer))
      BY <2>3, AnswerChoice
    <3> DEFINE told == Told(work[p], drifted, answer)
    <3>2. told.consented = work[p].consented
      BY <1>a, <2>1 DEF Told, Work
    <3>3. work' = [work EXCEPT ![p] = told]
      BY <3>1 DEF Go
    <3> HIDE DEF told
    <3>4. QED
      BY <2>1, <3>2, <3>3, ConsentStays
  <2>4. ASSUME Show(p) \/ Bail(p) \/ Patch(p) \/ Reread(p) \/ VerifyConsent(p) \/ Grant(p)
               \/ \E i \in Items : Decide(p, i)
        PROVE  ConsentedWasPreviewed'
    <3>1. CASE Leave(p)
      BY <2>1, <3>1, <1>1
    <3>2. ASSUME NEW at, NEW v, Go(p, at, v), v.consented = work[p].consented
          PROVE  ConsentedWasPreviewed'
      BY <2>1, <3>2, ConsentStays DEF Go
    <3>3. \A prior, displayed :
             [work[p] EXCEPT !.prior = prior, !.displayed = displayed].consented = work[p].consented
      BY <1>a, <2>1 DEF Work
    <3>4. CASE Show(p)
      <4> DEFINE v == [work[p] EXCEPT !.prior = surface, !.displayed = live]
      <4>1. v.consented = work[p].consented
        BY <3>3
      <4>2. Go(p, "shown", v)
        BY <3>4 DEF Show
      <4> HIDE DEF v
      <4>3. QED
        BY <3>2, <4>1, <4>2
    <3>5. CASE Patch(p)
      <4> DEFINE v == [work[p] EXCEPT !.lock = PatchedLock(work[p])]
      <4>1. v.consented = work[p].consented
        BY <1>a, <2>1 DEF Work
      <4>2. Leave(p) \/ Go(p, "reread", v)
        BY <3>5 DEF Patch
      <4> HIDE DEF v
      <4>3. QED
        BY <3>1, <3>2, <4>1, <4>2
    <3>6. CASE Reread(p)
      <4> DEFINE v == [work[p] EXCEPT !.digest = [work[p].snap EXCEPT !.lock = files.lock], !.lock = None]
      <4>1. v.consented = work[p].consented
        BY <1>a, <2>1 DEF Work
      <4>2. Go(p, "grant", v)
        BY <3>6 DEF Reread
      <4> HIDE DEF v
      <4>3. QED
        BY <3>2, <4>1, <4>2
    <3>7. CASE VerifyConsent(p)
      <4> DEFINE v == [work[p] EXCEPT !.digest = files]
      <4>1. v.consented = work[p].consented
        BY <1>a, <2>1 DEF Work
      <4>2. Leave(p) \/ Go(p, "store", v)
        BY <3>7 DEF VerifyConsent
      <4> HIDE DEF v
      <4>3. QED
        BY <3>1, <3>2, <4>1, <4>2
    <3>8. CASE Grant(p)
      BY <3>1, <3>2, <3>8 DEF Grant
    <3>9. ASSUME NEW i \in Items, Decide(p, i) PROVE ConsentedWasPreviewed'
      <4> DEFINE v == [work[p] EXCEPT !.answers[i] = None]
      <4>1. v.consented = work[p].consented
        BY <1>a, <2>1 DEF Work
      <4>2. Leave(p) \/ Go(p, "decide", v)
        BY <3>9 DEF Decide
      <4> HIDE DEF v
      <4>3. QED
        BY <3>1, <3>2, <4>1, <4>2
    <3>10. QED
      BY <2>4, <3>1, <3>4, <3>5, <3>6, <3>7, <3>8, <3>9 DEF Bail
  <2>5. QED
    BY <1>4, <2>2, <2>3, <2>4 DEF Review
<1>5. ASSUME NEW p \in Procs, Die(p) PROVE ConsentedWasPreviewed'
  BY <1>1, <1>5 DEF Die, shared
<1>6. CASE Preview \/ Revoke \/ Edit \/ UNCHANGED vars
  <2>1. UNCHANGED work /\ previewed \subseteq previewed'
    BY <1>6 DEF Preview, Revoke, Edit, EditFiles, EditSkill, vars
  <2>2. ASSUME NEW p \in Procs PROVE work'[p].consented \in {None} \cup previewed'
    <3>1. work[p].consented \in {None} \cup previewed
      BY DEF ConsentInv, ConsentedWasPreviewed
    <3>2. QED
      BY <2>1, <3>1
  <2>3. QED
    BY <1>t, <2>2 DEF ConsentedWasPreviewed, ConsentInv
<1>7. QED
  BY <1>t, <1>2, <1>3, <1>4, <1>5, <1>6 DEF Next, ConsentInv

LEMMA WorldReviewed ==
  ASSUME ReviewInv, ConsentedWasPreviewed, Preview \/ Revoke \/ Edit
  PROVE  ReviewInv'
<1>t. TypeInv'
  BY WorldTypes DEF ReviewInv
<1>1. CASE Preview
  <2>1. /\ UNCHANGED <<entry, pc, work, slip>>
        /\ previewed' = previewed \cup {files} /\ reviewed' = reviewed \cup {Surface(files)}
    BY <1>1 DEF Preview
  <2>2. InFlightWasReviewed'
    BY <2>1 DEF ReviewInv, InFlightWasReviewed, WasReviewed, Overlooked
  <2>3. QED
    BY <1>t, <2>1, <2>2, StorePins DEF ReviewInv
<1>2. CASE Revoke
  <2>1. entry' = None
    BY <1>2 DEF Revoke, Trust!Effect
  <2>2. ~Overlooked' => ~Overlooked /\ \A p \in Procs : ~Acting(p)
    BY <1>2 DEF Revoke, Overlooked
  <2>3. UNCHANGED <<pc, work, previewed>> /\ reviewed' = {Surface(s) : s \in previewed}
    BY <1>2 DEF Revoke
  <2>4. \A p \in Procs : ~Acting(p) => WasReviewed(pc[p], work[p], reviewed')
    BY <2>3 DEF Acting, WasReviewed, ConsentedWasPreviewed
  <2>5. InFlightWasReviewed'
    BY <2>2, <2>3, <2>4 DEF InFlightWasReviewed
  <2>6. TrustedWasReviewed'
    BY <2>1 DEF TrustedWasReviewed
  <2>7. QED
    BY <1>t, <2>5, <2>6 DEF ReviewInv
<1>3. CASE Edit
  <2>1. UNCHANGED <<entry, pc, work, slip, previewed, reviewed>>
    BY <1>3 DEF Edit, EditFiles, EditSkill, history
  <2>2. InFlightWasReviewed'
    BY <2>1 DEF ReviewInv, InFlightWasReviewed, Overlooked
  <2>3. QED
    BY <1>t, <2>1, <2>2, StorePins DEF ReviewInv
<1>4. QED
  BY <1>1, <1>2, <1>3

LEMMA NextReviewed == ConsentedWasPreviewed /\ ReviewInv /\ [Next]_vars => ReviewInv'
<1> SUFFICES ASSUME ConsentedWasPreviewed, ReviewInv, [Next]_vars PROVE ReviewInv'
  OBVIOUS
<1>t. TypeInv'
  BY NextTypes DEF ReviewInv
<1>1. ASSUME NEW p \in Procs, Die(p) PROVE ReviewInv'
  <2>1. Leave(p) /\ UNCHANGED <<entry, reviewed, previewed>> /\ slip \subseteq slip'
    BY <1>1 DEF Die, shared
  <2>2. QED
    BY <1>t, <2>1, ProcessLeavesReviewed, StorePins DEF ReviewInv
<1>2. CASE UNCHANGED vars
  BY <1>2, <1>t DEF vars, ReviewInv, TrustedWasReviewed, InFlightWasReviewed, Overlooked
<1>3. QED
  BY <1>1, <1>2, CarryReviewed, ReviewerReviewed, LoadReviewed, WorldReviewed DEF Next

\* What the store pins is a surface some human said yes to since the last
\* revocation or had read with --preview, whoever carried, granted or re-pinned
\* it, and whatever was revoked in between, unless one of the named windows was
\* entered.
THEOREM ReviewTheorem == Spec => []TrustedWasReviewed
<1>1. ReviewInv => TrustedWasReviewed
  BY DEF ReviewInv
<1>2. ConsentInv => ConsentedWasPreviewed
  BY DEF ConsentInv
<1>3. QED
  BY InitReview, NextReviewed, InitConsent, NextConsent, <1>1, <1>2, PTL DEF Spec

-----------------------------------------------------------------------------
(* A refusal holds                                                         *)

\* One review of the project at a time.  The answers of two reviews cross: the
\* first one's "accept" may be recorded after the second one's "block".
OneReviewer == \A r, q \in Reviewers : r = q

\* What a process holds about refusals: answers on their way to the store are
\* those the grant was made with, and a load goes on only without a refusal.
Heeds(at, w, refusals, spoilt) ==
    /\ at = "decide" => \A i \in Items : w.answers[i] \in {"accept", "keep"} => ~refusals[i]
    /\ at = "asked" /\ "answer" \notin spoilt => ~w.refused

AllHeed == \A p \in Procs : Heeds(pc[p], work[p], refused, slip)

RefusalInv ==
    /\ TypeInv
    /\ RefusedStaysBlocked
    /\ entry = None => \A i \in Items : ~refused[i]
    /\ AllHeed
    /\ RefusedIsNotServed

LEMMA OthersHeed ==
  ASSUME RefusalInv, NEW p \in Procs, NEW at, NEW w,
         pc' = [pc EXCEPT ![p] = at], work' = [work EXCEPT ![p] = w],
         slip \subseteq slip', UNCHANGED refused, Heeds(at, w, refused, slip')
  PROVE  AllHeed'
<1> SUFFICES ASSUME NEW q \in Procs PROVE Heeds(pc'[q], work'[q], refused', slip')
  BY DEF AllHeed
<1>1. CASE q = p
  <2>1. pc'[q] = at /\ work'[q] = w
    BY <1>1 DEF RefusalInv, TypeInv, TypeOK
  <2>2. QED
    BY <2>1
<1>2. CASE q # p
  <2>1. pc'[q] = pc[q] /\ work'[q] = work[q] /\ Heeds(pc[q], work[q], refused, slip)
    BY <1>2 DEF RefusalInv, AllHeed, TypeInv, TypeOK
  <2>2. QED
    BY <2>1 DEF Heeds
<1>3. QED
  BY <1>1, <1>2

\* Who is not recording answers owes none.
LEMMA OwedStays ==
  ASSUME TypeInv, NEW p \in Procs, NEW at, NEW w,
         pc' = [pc EXCEPT ![p] = at], work' = [work EXCEPT ![p] = w],
         pc[p] # "decide", at # "decide"
  PROVE  \A i \in Items : Owed(i)' <=> Owed(i)
<1>1. \A r \in Reviewers : r # p => pc'[r] = pc[r] /\ work'[r] = work[r]
  BY DEF TypeInv, TypeOK, Procs
<1>2. pc'[p] = at
  BY DEF TypeInv, TypeOK
<1>3. QED
  BY <1>1, <1>2 DEF Owed

\* A step that neither answers nor records an answer.
LEMMA RefusalStays ==
  ASSUME RefusalInv, TypeInv', NEW p \in Procs, NEW at, NEW w,
         pc' = [pc EXCEPT ![p] = at], work' = [work EXCEPT ![p] = w],
         slip \subseteq slip', UNCHANGED refused, RefusedIsNotServed',
         entry = None => entry' = None,
         entry # None => entry' # None /\ entry'.answers = entry.answers,
         pc[p] # "decide", at # "decide", Heeds(at, w, refused, slip')
  PROVE  RefusalInv'
<1>1. \A i \in Items : Owed(i)' <=> Owed(i)
  BY OwedStays DEF RefusalInv
<1>2. RefusedStaysBlocked'
  BY <1>1 DEF RefusalInv, RefusedStaysBlocked
<1>3. AllHeed'
  BY OthersHeed
<1>4. QED
  BY <1>2, <1>3 DEF RefusalInv

LEMMA LeavingRefusalStays ==
  ASSUME RefusalInv, TypeInv', NEW p \in Procs, Leave(p),
         slip \subseteq slip', UNCHANGED refused, RefusedIsNotServed',
         entry = None => entry' = None,
         entry # None => entry' # None /\ entry'.answers = entry.answers,
         pc[p] # "decide"
  PROVE  RefusalInv'
<1>1. Heeds("idle", Blank, refused, slip')
  BY DEF Heeds
<1>2. QED
  BY <1>1, RefusalStays DEF Leave, Go

LEMMA InitRefusal == Init => RefusalInv
<1> SUFFICES ASSUME Init PROVE RefusalInv
  OBVIOUS
<1>1. TypeInv
  BY InitTypes
<1>2. RefusedStaysBlocked /\ (entry = None => \A i \in Items : ~refused[i]) /\ RefusedIsNotServed
  BY DEF Init, RefusedStaysBlocked, RefusedIsNotServed
<1>3. AllHeed
  BY DEF Init, AllHeed, Heeds
<1>4. QED
  BY <1>1, <1>2, <1>3 DEF RefusalInv

LEMMA CarryRefusal ==
  ASSUME RefusalInv, NEW p \in Carriers, Carry(p)
  PROVE  RefusalInv'
<1>t. TypeInv'
  BY CarryTypes DEF RefusalInv
<1>a. p \in Procs /\ work[p] \in Work /\ Fits(p, pc[p], work[p]) /\ FileTypes
  BY TypeParts DEF RefusalInv, TypeInv, Holding, Procs, TypeOK
<1>1. UNCHANGED <<refused, served>> /\ slip \subseteq slip' /\ pc[p] # "decide"
  BY DEF Carry, ReadLayer, Capture, CheckCaptured, WriteLayer, AcrossWrite, shared, history
<1>2. RefusedIsNotServed'
  BY <1>1 DEF RefusalInv, RefusedIsNotServed
<1>3. /\ entry = None => entry' = None
      /\ entry # None => entry' # None /\ entry'.answers = entry.answers
  <2>1. CASE UNCHANGED entry
    BY <2>1
  <2>2. CASE pc[p] = "written" /\ work[p].snap # None /\ Repinned(Spliced(work[p]))
    <3>1. work[p].snap \in Snapshot /\ work[p].layer \in Layers /\ work[p].after \in Text
      BY <1>a, <2>2 DEF Fits, Work
    <3>2. Spliced(work[p]) \in Snapshot
      BY <3>1, Relayered DEF Spliced
    <3>3. QED
      BY <1>a, <2>2, <3>2, RepinnedEntry DEF Repinned, FileTypes
  <2>3. QED
    BY <2>1, <2>2 DEF Carry, ReadLayer, Capture, CheckCaptured, WriteLayer, AcrossWrite, shared
<1>4. PICK at \in {"read", "captured", "checked", "written", "idle"} : pc' = [pc EXCEPT ![p] = at]
  BY DEF Carry, ReadLayer, Capture, CheckCaptured, WriteLayer, AcrossWrite, Start, Go, Leave
<1>5. \E w : work' = [work EXCEPT ![p] = w]
  BY DEF Carry, ReadLayer, Capture, CheckCaptured, WriteLayer, AcrossWrite, Start, Go, Leave
<1>6. PICK w : work' = [work EXCEPT ![p] = w]
  BY <1>5
<1>7. Heeds(at, w, refused, slip')
  BY <1>4 DEF Heeds
<1>8. QED
  BY <1>t, <1>a, <1>1, <1>2, <1>3, <1>4, <1>6, <1>7, RefusalStays

\* Up to the grant a review disturbs neither answers nor refusals.
LEMMA AskingRefusal ==
  ASSUME RefusalInv, NEW p \in Reviewers,
         \/ \E consented \in {None} \cup previewed : BeginReview(p, consented)
         \/ Show(p) \/ Answer(p) \/ Bail(p) \/ Patch(p) \/ Reread(p) \/ VerifyConsent(p)
  PROVE  RefusalInv'
<1>t. TypeInv'
  BY ReviewerTypes DEF RefusalInv, Review
<1>1. UNCHANGED <<entry, refused, served>> /\ slip \subseteq slip' /\ pc[p] # "decide"
  BY DEF BeginReview, Show, Answer, Bail, Patch, Reread, VerifyConsent, shared, history
<1>2. RefusedIsNotServed'
  BY <1>1 DEF RefusalInv, RefusedIsNotServed
<1>3. PICK at \in {"idle", "show", "shown", "patch", "reread", "grant", "store"} :
         \E w : pc' = [pc EXCEPT ![p] = at] /\ work' = [work EXCEPT ![p] = w]
  BY DEF BeginReview, Show, Answer, Bail, Patch, Reread, VerifyConsent, Start, Go, Leave
<1>4. PICK w : pc' = [pc EXCEPT ![p] = at] /\ work' = [work EXCEPT ![p] = w]
  BY <1>3
<1>5. Heeds(at, w, refused, slip')
  BY <1>3 DEF Heeds
<1>6. QED
  BY <1>t, <1>1, <1>2, <1>3, <1>4, <1>5, RefusalStays DEF Procs

LEMMA GrantRefusal ==
  ASSUME OneReviewer, RefusalInv, NEW p \in Reviewers, Grant(p)
  PROVE  RefusalInv'
<1>t. TypeInv'
  BY ReviewerTypes DEF RefusalInv, Review
<1>a. p \in Procs /\ work[p] \in Work /\ Fits(p, pc[p], work[p]) /\ FileTypes
  BY TypeParts DEF RefusalInv, TypeInv, Holding, Procs, TypeOK
<1> DEFINE w == work[p]
<1>1. UNCHANGED <<served, slip>> /\ pc[p] \in {"grant", "store"}
      /\ refused' = [i \in Items |-> IF i \in Asked(w) THEN w.answers[i] = "block" ELSE refused[i]]
      /\ IF Asked(w) = {} THEN Leave(p) ELSE Go(p, "decide", w)
  BY DEF Grant
<1>2. RefusedIsNotServed'
  BY <1>1 DEF RefusalInv, RefusedIsNotServed
<1>3. w.digest \in Snapshot
  BY <1>1, <1>a DEF Fits
<1>4. /\ entry' # None
      /\ \A i \in Items : entry'.answers[i] = IF entry = None THEN None ELSE entry.answers[i]
  BY <1>a, <1>3, GrantedEntry DEF Grant, FileTypes
<1>5. \A q \in Reviewers : q = p
  BY DEF OneReviewer
<1>6. \A i \in Items : ~Owed(i)
  BY <1>1, <1>5 DEF Owed
<1>7. ASSUME NEW i \in Items, refused'[i], "answer" \notin slip'
      PROVE  entry'.answers[i] = Blocked \/ Owed(i)'
  <2>1. CASE i \in Asked(w)
    <3>1. w.answers[i] = "block" /\ Go(p, "decide", w)
      BY <1>1, <1>7, <2>1
    <3>2. pc'[p] = "decide" /\ work'[p] = w
      BY <1>a, <3>1 DEF Go, RefusalInv, TypeInv, TypeOK
    <3>3. QED
      BY <3>1, <3>2 DEF Owed
  <2>2. CASE i \notin Asked(w)
    <3>1. refused[i]
      BY <1>1, <1>7, <2>2
    <3>2. entry # None
      BY <3>1 DEF RefusalInv
    <3>3. entry.answers[i] = Blocked
      BY <1>1, <1>6, <1>7, <3>1, <3>2 DEF RefusalInv, RefusedStaysBlocked
    <3>4. QED
      BY <1>4, <3>2, <3>3
  <2>3. QED
    BY <2>1, <2>2
<1>8. RefusedStaysBlocked'
  BY <1>7 DEF RefusedStaysBlocked
<1>9. AllHeed'
  <2> SUFFICES ASSUME NEW q \in Procs PROVE Heeds(pc'[q], work'[q], refused', slip')
    BY DEF AllHeed
  <2>1. CASE q = p
    <3>1. \/ pc'[q] = "idle"
          \/ pc'[q] = "decide" /\ work'[q] = w
      BY <1>1, <1>a, <2>1 DEF Go, Leave, RefusalInv, TypeInv, TypeOK
    <3>2. \A i \in Items : w.answers[i] \in {"accept", "keep"} => i \in Asked(w)
      BY ConsentAssumption DEF Asked
    <3>3. \A i \in Items : w.answers[i] \in {"accept", "keep"} => ~refused'[i]
      BY <1>1, <3>2
    <3>4. QED
      BY <3>1, <3>3 DEF Heeds
  <2>2. CASE q # p
    <3>1. pc'[q] = pc[q] /\ work'[q] = work[q] /\ Heeds(pc[q], work[q], refused, slip)
      BY <1>1, <2>2 DEF Go, Leave, RefusalInv, AllHeed, TypeInv, TypeOK
    <3>2. pc[q] # "decide"
      BY <1>5, <2>2 DEF RefusalInv, TypeInv, Holding, Fits, Reviewing
    <3>3. QED
      BY <1>1, <3>1, <3>2 DEF Heeds
  <2>3. QED
    BY <2>1, <2>2
<1>10. QED
  BY <1>t, <1>2, <1>4, <1>8, <1>9 DEF RefusalInv

LEMMA DecideRefusal ==
  ASSUME OneReviewer, RefusalInv, NEW p \in Reviewers, NEW i \in Items, Decide(p, i)
  PROVE  RefusalInv'
<1>t. TypeInv'
  BY ReviewerTypes DEF RefusalInv, Review
<1>a. p \in Procs /\ work[p] \in Work /\ Fits(p, pc[p], work[p]) /\ FileTypes
  BY TypeParts DEF RefusalInv, TypeInv, Holding, Procs, TypeOK
<1> DEFINE w == work[p]
           rest == [w EXCEPT !.answers[i] = None]
<1>1. UNCHANGED <<refused, served, slip>> /\ pc[p] = "decide" /\ i \in Asked(w)
      /\ IF Asked(rest) = {} THEN Leave(p) ELSE Go(p, "decide", rest)
  BY DEF Decide, history
<1>2. RefusedIsNotServed'
  BY <1>1 DEF RefusalInv, RefusedIsNotServed
<1>3. w.snap \in Snapshot /\ w.displayed \in [Items -> Contents]
  BY <1>1, <1>a DEF Fits, Reviewing
<1>4. StandingAnswer(w, i) \in Standing \cup {None}
  BY <1>1, <1>a, <1>3, ReviewTypes
<1>5. /\ entry = None => entry' = None
      /\ entry # None => /\ entry' # None /\ entry'.answers[i] = StandingAnswer(w, i)
                         /\ \A j \in Items : j # i => entry'.answers[j] = entry.answers[j]
  BY <1>a, <1>4, AnsweredEntry DEF Decide, FileTypes
<1>6. \A j \in Items : j # i => rest.answers[j] = w.answers[j]
  BY <1>a DEF Work
<1>7. rest.answers[i] = None
  BY <1>a DEF Work
<1>8. Heeds("decide", w, refused, slip)
  BY <1>1, <1>a DEF RefusalInv, AllHeed
<1>9. ASSUME NEW j \in Items, refused[j], entry' # None, "answer" \notin slip
      PROVE  entry'.answers[j] = Blocked \/ Owed(j)'
  <2>1. entry # None /\ (entry.answers[j] = Blocked \/ Owed(j))
    BY <1>5, <1>9 DEF RefusalInv, RefusedStaysBlocked
  <2>2. CASE j = i
    <3>1. w.answers[i] = "block"
      BY <1>1, <1>8, <1>9, <1>a, <2>2 DEF Heeds, Asked, Work
    <3>2. StandingAnswer(w, i) = Blocked
      BY <3>1 DEF StandingAnswer
    <3>3. QED
      BY <1>5, <2>1, <2>2, <3>2
  <2>3. CASE j # i /\ entry.answers[j] = Blocked
    BY <1>5, <2>1, <2>3
  <2>4. CASE j # i /\ Owed(j)
    <3>1. w.answers[j] \in {"keep", "block"}
      BY <2>4 DEF Owed, OneReviewer
    <3>2. rest.answers[j] \in {"keep", "block"} /\ Asked(rest) # {}
      BY <1>6, <2>4, <3>1, ConsentAssumption DEF Asked
    <3>3. pc'[p] = "decide" /\ work'[p] = rest
      BY <1>1, <1>a, <3>2 DEF Go, RefusalInv, TypeInv, TypeOK
    <3>4. QED
      BY <3>2, <3>3 DEF Owed
  <2>5. QED
    BY <2>1, <2>2, <2>3, <2>4
<1>10. RefusedStaysBlocked'
  BY <1>1, <1>9 DEF RefusedStaysBlocked
<1>11. AllHeed'
  <2>1. Heeds("decide", rest, refused, slip')
    <3>1. \A j \in Items : rest.answers[j] \in {"accept", "keep"} => w.answers[j] \in {"accept", "keep"}
      BY <1>6, <1>7, ConsentAssumption
    <3>2. QED
      BY <1>8, <3>1 DEF Heeds
  <2>2. Heeds("idle", Blank, refused, slip')
    BY DEF Heeds
  <2>3. CASE Leave(p)
    BY <1>1, <1>a, <2>2, <2>3, OthersHeed DEF Leave, Go
  <2>4. CASE Go(p, "decide", rest)
    BY <1>1, <1>a, <2>1, <2>4, OthersHeed DEF Go
  <2>5. QED
    BY <1>1, <2>3, <2>4
<1>12. QED
  BY <1>t, <1>1, <1>2, <1>5, <1>10, <1>11 DEF RefusalInv

LEMMA LoadRefusal ==
  ASSUME RefusalInv, NEW p \in Loaders, LoadSkill(p)
  PROVE  RefusalInv'
<1>t. TypeInv'
  BY LoadTypes DEF RefusalInv
<1>a. p \in Procs /\ work[p] \in Work /\ Fits(p, pc[p], work[p]) /\ FileTypes
  BY TypeParts DEF RefusalInv, TypeInv, Holding, Procs, TypeOK
<1> DEFINE w == work[p]
<1>1. UNCHANGED <<entry, refused>> /\ slip \subseteq slip' /\ pc[p] # "decide"
  BY DEF LoadSkill, Note, LoadLock, Ask, ServePinned, shared, history
<1>2. ASSUME NEW i \in Items, Note(p, i) PROVE RefusalInv'
  <2>1. Heeds("noted", [Blank EXCEPT !.item = i], refused, slip')
    BY DEF Heeds
  <2>2. RefusedIsNotServed'
    BY <1>2 DEF Note, history, RefusalInv, RefusedIsNotServed
  <2>3. QED
    BY <1>t, <1>a, <1>1, <1>2, <2>1, <2>2, RefusalStays DEF Note, Start
<1>3. CASE LoadLock(p)
  <2>1. Heeds("locked", [w EXCEPT !.lock = files.lock], refused, slip')
    BY DEF Heeds
  <2>2. RefusedIsNotServed'
    BY <1>3 DEF LoadLock, history, RefusalInv, RefusedIsNotServed
  <2>3. QED
    BY <1>t, <1>a, <1>1, <1>3, <2>1, <2>2, RefusalStays DEF LoadLock, Go
<1>4. CASE Ask(p)
  <2> DEFINE i == w.item
  <2>1. i \in Items
    BY <1>4, <1>a DEF Ask, Fits
  <2>2. "answer" \notin slip' /\ StandingFor(i) # Blocked => ~refused[i]
    <3> SUFFICES ASSUME "answer" \notin slip', refused[i] PROVE StandingFor(i) = Blocked
      OBVIOUS
    <3>1. ~Owed(i) /\ "answer" \notin slip
      BY <1>4 DEF Ask
    <3>2. entry # None
      BY <2>1 DEF RefusalInv
    <3>3. entry.answers[i] = Blocked
      BY <2>1, <3>1, <3>2 DEF RefusalInv, RefusedStaysBlocked
    <3>4. QED
      BY <3>2, <3>3 DEF StandingFor
  <2>3. CASE Leave(p) /\ UNCHANGED served
    <3>1. RefusedIsNotServed'
      BY <1>1, <2>3 DEF RefusalInv, RefusedIsNotServed
    <3>2. QED
      BY <1>t, <1>a, <1>1, <2>3, <3>1, LeavingRefusalStays
  <2>4. CASE StandingFor(i) # Blocked /\ Serve(p, StandingFor(i).pin, TRUE, refused[i])
    <3>1. served'.refused = refused[i] /\ Leave(p)
      BY <2>4 DEF Serve
    <3>2. RefusedIsNotServed'
      BY <2>2, <2>4, <3>1 DEF RefusedIsNotServed
    <3>3. QED
      BY <1>t, <1>a, <1>1, <3>1, <3>2, LeavingRefusalStays
  <2>5. CASE StandingFor(i) = None /\ Go(p, "asked", [w EXCEPT !.refused = refused[i]]) /\ UNCHANGED served
    <3>1. None # Blocked
      BY ConsentAssumption DEF Standing
    <3>2. [w EXCEPT !.refused = refused[i]].refused = refused[i]
      BY <1>a DEF Work
    <3>3. Heeds("asked", [w EXCEPT !.refused = refused[i]], refused, slip')
      BY <2>2, <2>5, <3>1, <3>2 DEF Heeds
    <3>4. RefusedIsNotServed'
      BY <1>1, <2>5 DEF RefusalInv, RefusedIsNotServed
    <3>5. QED
      BY <1>t, <1>a, <1>1, <2>5, <3>3, <3>4, RefusalStays DEF Go
  <2>6. QED
    BY <1>4, <2>3, <2>4, <2>5 DEF Ask
<1>5. CASE ServePinned(p)
  <2>1. Leave(p) /\ UNCHANGED slip /\ (UNCHANGED served \/ served'.refused = w.refused)
    BY <1>5 DEF ServePinned, Serve
  <2>2. "answer" \notin slip => ~w.refused
    BY <1>5, <1>a DEF ServePinned, RefusalInv, AllHeed, Heeds
  <2>3. RefusedIsNotServed'
    BY <2>1, <2>2 DEF RefusalInv, RefusedIsNotServed
  <2>4. QED
    BY <1>t, <1>a, <1>1, <2>1, <2>3, LeavingRefusalStays
<1>6. QED
  BY <1>2, <1>3, <1>4, <1>5 DEF LoadSkill

LEMMA NextRefusal == OneReviewer /\ RefusalInv /\ [Next]_vars => RefusalInv'
<1> SUFFICES ASSUME OneReviewer, RefusalInv, [Next]_vars PROVE RefusalInv'
  OBVIOUS
<1>t. TypeInv'
  BY NextTypes DEF RefusalInv
<1>1. ASSUME NEW p \in Reviewers, Review(p) PROVE RefusalInv'
  BY <1>1, AskingRefusal, GrantRefusal, DecideRefusal DEF Review
<1>2. CASE Preview \/ Edit
  <2>1. UNCHANGED <<entry, pc, work, refused, served, slip>>
    BY <1>2 DEF Preview, Edit, EditFiles, EditSkill, history
  <2>2. RefusedStaysBlocked' /\ AllHeed' /\ RefusedIsNotServed'
    BY <2>1 DEF RefusalInv, RefusedStaysBlocked, AllHeed, RefusedIsNotServed, Owed
  <2>3. QED
    BY <1>t, <2>1, <2>2 DEF RefusalInv
<1>3. CASE Revoke
  <2>1. entry' = None
    BY <1>3 DEF Revoke, Trust!Effect
  <2>2. /\ UNCHANGED <<pc, work, served>> /\ slip \subseteq slip'
        /\ \A i \in Items : ~refused'[i]
    BY <1>3 DEF Revoke
  <2>3. RefusedStaysBlocked' /\ RefusedIsNotServed'
    BY <2>1, <2>2 DEF RefusalInv, RefusedStaysBlocked, RefusedIsNotServed
  <2>4. AllHeed'
    BY <2>2 DEF RefusalInv, AllHeed, Heeds
  <2>5. QED
    BY <1>t, <2>2, <2>3, <2>4 DEF RefusalInv
<1>4. ASSUME NEW p \in Procs, Die(p) PROVE RefusalInv'
  <2>1. UNCHANGED <<entry, refused, served>> /\ slip \subseteq slip' /\ Leave(p)
    BY <1>4 DEF Die, shared
  <2>2. RefusedIsNotServed'
    BY <2>1 DEF RefusalInv, RefusedIsNotServed
  <2>3. "answer" \notin slip' => \A i \in Items : Owed(i) => Owed(i)'
    <3> SUFFICES ASSUME "answer" \notin slip', NEW i \in Items, Owed(i) PROVE Owed(i)'
      OBVIOUS
    <3>1. PICK r \in Reviewers : pc[r] = "decide" /\ work[r].answers[i] \in {"keep", "block"}
      BY DEF Owed
    <3>2. r # p
      BY <1>4, <3>1 DEF Die
    <3>3. pc'[r] = pc[r] /\ work'[r] = work[r]
      BY <2>1, <3>2 DEF Leave, Go, RefusalInv, TypeInv, TypeOK, Procs
    <3>4. QED
      BY <3>1, <3>3 DEF Owed
  <2>4. RefusedStaysBlocked'
    BY <2>1, <2>3 DEF RefusalInv, RefusedStaysBlocked
  <2>5. Heeds("idle", Blank, refused, slip')
    BY DEF Heeds
  <2>6. AllHeed'
    BY <2>1, <2>5, OthersHeed DEF Leave, Go
  <2>7. QED
    BY <1>t, <2>1, <2>2, <2>4, <2>6 DEF RefusalInv
<1>5. CASE UNCHANGED vars
  <2>1. RefusedStaysBlocked' /\ AllHeed' /\ RefusedIsNotServed'
    BY <1>5 DEF vars, RefusalInv, RefusedStaysBlocked, AllHeed, RefusedIsNotServed, Owed
  <2>2. QED
    BY <1>5, <1>t, <2>1 DEF vars, RefusalInv
<1>6. QED
  BY <1>1, <1>2, <1>3, <1>4, <1>5, CarryRefusal, LoadRefusal DEF Next

\* With one review at a time, no skill is served by a load that asked after a
\* human's last answer about it was "block".
THEOREM RefusalTheorem == OneReviewer /\ Spec => []RefusedIsNotServed
<1> SUFFICES ASSUME OneReviewer PROVE Spec => []RefusedIsNotServed
  OBVIOUS
<1>1. RefusalInv => RefusedIsNotServed
  BY DEF RefusalInv
<1>2. RefusalInv /\ [Next]_vars => RefusalInv'
  BY OneReviewer, NextRefusal
<1>3. QED
  BY InitRefusal, <1>1, <1>2, PTL DEF Spec

\* With one review at a time, the store says "blocked" of every refused skill,
\* but for the answers the review is about to record.
THEOREM BlockedTheorem == OneReviewer /\ Spec => []RefusedStaysBlocked
<1> SUFFICES ASSUME OneReviewer PROVE Spec => []RefusedStaysBlocked
  OBVIOUS
<1>1. RefusalInv => RefusedStaysBlocked
  BY DEF RefusalInv
<1>2. RefusalInv /\ [Next]_vars => RefusalInv'
  BY OneReviewer, NextRefusal
<1>3. QED
  BY InitRefusal, <1>1, <1>2, PTL DEF Spec

-----------------------------------------------------------------------------
(* What is served by a pin was approved                                    *)

Spoiling == {"reread", "answer", "revoke", "overtaken"}

PinApproved(lock, i, yes) == lock[i] # Unpinned => <<i, lock[i]>> \in yes

AllPinsApproved(lock, yes) == \A i \in Items : PinApproved(lock, i, yes)

\* What is not asked, or accepted, is pinned as somebody approved it.
UnrefusedApproved(w, lock, yes) ==
    \A i \in Items : w.answers[i] \in {None, "accept"} => PinApproved(lock, i, yes)

KeptApproved(w, yes) ==
    \A i \in Items : w.answers[i] = "keep" => <<i, ApprovedPin(w, i)>> \in yes

\* What a process holds about approvals: yes, what was approved; spoilt, the
\* windows that were entered; e, the store's entry.
Approves(at, w, yes, spoilt, e) ==
    /\ w.consented # None => AllPinsApproved(w.consented.lock, yes)
    /\ at \in {"patch", "reread"} => UnrefusedApproved(w, PatchedLock(w), yes)
    /\ at \in {"patch", "reread", "grant", "store", "decide"} => KeptApproved(w, yes)
    /\ at = "grant" /\ w.consented # None => \A i \in Items : w.answers[i] = None
    /\ at = "grant" /\ w.consented = None /\ spoilt \cap Spoiling = {} =>
          UnrefusedApproved(w, w.digest.lock, yes)
    /\ at = "store" => AllPinsApproved(w.digest.lock, yes)
    /\ at = "decide" /\ spoilt \cap Spoiling = {} /\ e # None =>
          \A i \in Items : w.answers[i] = "accept" => PinApproved(e.digest.lock, i, yes)
    /\ at \in {"noted", "locked"} /\ spoilt \cap Spoiling = {} => e # None
    /\ at = "asked" /\ spoilt \cap Spoiling = {} /\ "load" \notin spoilt =>
          PinApproved(w.lock, w.item, yes)

AllApprove == \A p \in Procs : Approves(pc[p], work[p], approved, slip, entry)

\* Standing "keep" answers keep an approved content; what stands without an
\* answer is pinned as approved.
StoreApproved ==
    entry # None =>
        /\ \A i \in Items : entry.answers[i] \notin {None, Blocked} =>
              <<i, entry.answers[i].pin>> \in approved
        /\ slip \cap Spoiling = {} =>
              \A i \in Items : entry.answers[i] = None /\ ~Owed(i) =>
                 PinApproved(entry.digest.lock, i, approved)

PreviewApproved == \A s \in previewed : AllPinsApproved(s.lock, approved)

ApprovalInv == TypeInv /\ StoreApproved /\ PreviewApproved /\ AllApprove /\ ServedWasApproved

\* The entry keeps its pins and its answers, or a window was entered.
Kept ==
    /\ entry = None => entry' = None
    /\ entry # None =>
          /\ entry' # None
          /\ entry'.answers = entry.answers
          /\ slip' \cap Spoiling = {} => entry'.digest.lock = entry.digest.lock

LEMMA OthersApprove ==
  ASSUME ApprovalInv, NEW p \in Procs, NEW at, NEW w,
         pc' = [pc EXCEPT ![p] = at], work' = [work EXCEPT ![p] = w],
         approved \subseteq approved', slip \subseteq slip', Kept,
         Approves(at, w, approved', slip', entry')
  PROVE  AllApprove'
<1> SUFFICES ASSUME NEW q \in Procs
             PROVE  Approves(pc'[q], work'[q], approved', slip', entry')
  BY DEF AllApprove
<1>1. CASE q = p
  <2>1. pc'[q] = at /\ work'[q] = w
    BY <1>1 DEF ApprovalInv, TypeInv, TypeOK
  <2>2. QED
    BY <2>1
<1>2. CASE q # p
  <2>1. /\ pc'[q] = pc[q] /\ work'[q] = work[q]
        /\ Approves(pc[q], work[q], approved, slip, entry)
    BY <1>2 DEF ApprovalInv, AllApprove, TypeInv, TypeOK
  <2>2. slip' \cap Spoiling = {} => slip \cap Spoiling = {}
    OBVIOUS
  <2>3. QED
    BY <2>1, <2>2 DEF Approves, Kept, PinApproved, AllPinsApproved, UnrefusedApproved, KeptApproved
<1>3. QED
  BY <1>1, <1>2

\* A step that records nothing in the store but, perhaps, a re-pin.
LEMMA ApprovalStays ==
  ASSUME ApprovalInv, TypeInv', NEW p \in Procs, NEW at, NEW w,
         pc' = [pc EXCEPT ![p] = at], work' = [work EXCEPT ![p] = w],
         approved \subseteq approved', slip \subseteq slip', Kept,
         UNCHANGED previewed, ServedWasApproved',
         pc[p] # "decide", at # "decide",
         Approves(at, w, approved', slip', entry')
  PROVE  ApprovalInv'
<1>1. \A i \in Items : Owed(i)' <=> Owed(i)
  BY OwedStays DEF ApprovalInv
<1>2. StoreApproved'
  <2>1. slip' \cap Spoiling = {} => slip \cap Spoiling = {}
    OBVIOUS
  <2>2. QED
    BY <1>1, <2>1 DEF ApprovalInv, StoreApproved, Kept, PinApproved
<1>3. PreviewApproved'
  BY DEF ApprovalInv, PreviewApproved, AllPinsApproved, PinApproved
<1>4. AllApprove'
  BY OthersApprove
<1>5. QED
  BY <1>2, <1>3, <1>4 DEF ApprovalInv

LEMMA LeavingApprovalStays ==
  ASSUME ApprovalInv, TypeInv', NEW p \in Procs, Leave(p),
         approved \subseteq approved', slip \subseteq slip', Kept,
         UNCHANGED previewed, ServedWasApproved', pc[p] # "decide"
  PROVE  ApprovalInv'
<1>1. Approves("idle", Blank, approved', slip', entry')
  BY DEF Approves, Blank
<1>2. QED
  BY <1>1, ApprovalStays DEF Leave, Go

\* Nothing served, nothing lost.
LEMMA ServedStays ==
  ASSUME ServedWasApproved, UNCHANGED served, approved \subseteq approved', slip \subseteq slip'
  PROVE  ServedWasApproved'
BY DEF ServedWasApproved

LEMMA InitApproval == Init => ApprovalInv
<1> SUFFICES ASSUME Init PROVE ApprovalInv
  OBVIOUS
<1>1. TypeInv
  BY InitTypes
<1>2. ASSUME entry # None PROVE /\ AllPinsApproved(entry.digest.lock, approved)
                                /\ \A i \in Items : entry.answers[i] = None
  <2>1. entry = [digest |-> files, answers |-> [i \in Items |-> None]] /\ approved = Pins(files)
    BY <1>2 DEF Init
  <2>2. QED
    BY <2>1 DEF AllPinsApproved, PinApproved, Pins
<1>3. StoreApproved
  BY <1>2 DEF StoreApproved, AllPinsApproved
<1>4. PreviewApproved /\ ServedWasApproved
  BY DEF Init, PreviewApproved, ServedWasApproved
<1>5. AllApprove
  BY DEF Init, AllApprove, Approves, Blank
<1>6. QED
  BY <1>1, <1>3, <1>4, <1>5 DEF ApprovalInv

LEMMA CarryApproval ==
  ASSUME ApprovalInv, NEW p \in Carriers, Carry(p)
  PROVE  ApprovalInv'
<1>t. TypeInv'
  BY CarryTypes DEF ApprovalInv
<1>a. p \in Procs /\ work[p] \in Work /\ Fits(p, pc[p], work[p]) /\ FileTypes
  BY TypeParts DEF ApprovalInv, TypeInv, Holding, Procs, TypeOK
<1>1. UNCHANGED <<approved, served, previewed>> /\ slip \subseteq slip' /\ pc[p] # "decide"
  BY DEF Carry, ReadLayer, Capture, CheckCaptured, WriteLayer, AcrossWrite, shared, history
<1>2. ServedWasApproved'
  BY <1>1, ServedStays DEF ApprovalInv
<1>3. Kept
  <2>1. CASE UNCHANGED entry
    BY <2>1 DEF Kept
  <2>2. CASE /\ pc[p] = "written" /\ work[p].snap # None /\ Repinned(Spliced(work[p]))
             /\ slip' = IF entry # None /\ entry.digest # work[p].snap
                        THEN slip \cup {"overtaken"} ELSE slip
    <3>1. work[p].snap \in Snapshot /\ work[p].layer \in Layers /\ work[p].after \in Text
      BY <1>a, <2>2 DEF Fits, Work
    <3> DEFINE spliced == [layers |-> [work[p].snap.layers EXCEPT ![work[p].layer] = work[p].after],
                           lock |-> work[p].snap.lock]
    <3>a. Spliced(work[p]) \in Snapshot /\ Spliced(work[p]) = spliced
      BY <3>1, Relayered DEF Spliced
    <3>2. Spliced(work[p]) \in Snapshot /\ Spliced(work[p]).lock = work[p].snap.lock
      BY <3>a
    <3>3. /\ entry = None => entry' = None
          /\ entry # None => entry' # None /\ entry'.digest = Spliced(work[p]) /\ entry'.answers = entry.answers
      BY <1>a, <2>2, <3>2, RepinnedEntry DEF Repinned, FileTypes
    <3>4. entry # None /\ slip' \cap Spoiling = {} => entry.digest = work[p].snap
      BY <2>2 DEF Spoiling
    <3>5. QED
      BY <3>2, <3>3, <3>4 DEF Kept
  <2>3. QED
    BY <2>1, <2>2 DEF Carry, ReadLayer, Capture, CheckCaptured, WriteLayer, AcrossWrite, shared
<1>4. Approves(pc[p], work[p], approved, slip, entry)
  BY <1>a DEF ApprovalInv, AllApprove
<1>5. PICK at \in {"read", "captured", "checked", "written", "idle"} :
         \E w : /\ pc' = [pc EXCEPT ![p] = at] /\ work' = [work EXCEPT ![p] = w]
                /\ w.consented \in {None, work[p].consented}
  <2>1. ASSUME NEW l \in Layers, NEW new \in Text, ReadLayer(p, l, new)
        PROVE  \E w : /\ pc' = [pc EXCEPT ![p] = "read"] /\ work' = [work EXCEPT ![p] = w]
                      /\ w.consented = None
    <3> DEFINE v == [Blank EXCEPT !.layer = l, !.before = files.layers[l], !.after = new,
                                  !.carries = (new.declares = files.layers[l].declares)]
    <3>1. pc' = [pc EXCEPT ![p] = "read"] /\ work' = [work EXCEPT ![p] = v]
      BY <2>1 DEF ReadLayer, Start
    <3>2. v.consented = None
      BY DEF Blank
    <3> HIDE DEF v
    <3>3. QED
      BY <3>1, <3>2
  <2>2. \A s : [work[p] EXCEPT !.snap = s].consented = work[p].consented
    BY <1>a DEF Work
  <2>3. Blank.consented = None
    BY DEF Blank
  <2>4. QED
    BY <2>1, <2>2, <2>3 DEF Carry, Capture, CheckCaptured, WriteLayer, AcrossWrite, Go, Leave
<1>6. PICK w : /\ pc' = [pc EXCEPT ![p] = at] /\ work' = [work EXCEPT ![p] = w]
               /\ w.consented \in {None, work[p].consented}
  BY <1>5
<1>7. Approves(at, w, approved', slip', entry')
  BY <1>1, <1>4, <1>5, <1>6 DEF Approves
<1>8. QED
  BY <1>t, <1>a, <1>1, <1>2, <1>3, <1>5, <1>6, <1>7, ApprovalStays

\* Answering: what is answered yes, or left as it was shown, is now approved.
LEMMA AnswerApproves ==
  ASSUME ApprovalInv, NEW p \in Reviewers, Answer(p)
  PROVE  ApprovalInv'
<1>t. TypeInv'
  BY ReviewerTypes DEF ApprovalInv, Review
<1>a. p \in Procs /\ work[p] \in Work
  BY DEF ApprovalInv, TypeInv, Procs, TypeOK
<1> DEFINE w == work[p]
           drifted == Drifted(w.snap, w.displayed)
<1>1. /\ drifted \in SUBSET Items /\ pc[p] = "shown" /\ (w.consented # None => drifted = {})
      /\ UNCHANGED <<entry, previewed, slip, served>>
  BY DEF Answer, Drifted, shared
<1>2. PICK answer \in [drifted -> {"accept", "keep", "block"}] :
        LET told == Told(w, drifted, answer)
        IN  /\ Go(p, IF Accepted(told) # {} THEN "patch" ELSE "grant", told)
            /\ IF w.consented # None
               THEN UNCHANGED approved
               ELSE approved' = approved \cup AnsweredYes(told)
  BY AnswerChoice
<1> DEFINE told == Told(w, drifted, answer)
<1> HIDE DEF drifted
<1>3. /\ told \in Work /\ told.snap = w.snap /\ told.digest = w.snap /\ told.displayed = w.displayed
      /\ told.consented = w.consented
      /\ \A i \in Items : told.answers[i] = IF i \in drifted THEN answer[i] ELSE None
      /\ Accepted(told) \subseteq drifted /\ w.snap \in Snapshot
  BY <1>1, AnswerTypes DEF ApprovalInv
<1>4. PICK at \in {"patch", "grant"} : /\ Go(p, at, told)
                                       /\ at = "patch" <=> Accepted(told) # {}
  <2>1. CASE Accepted(told) # {}
    <3>1. Go(p, "patch", told)
      BY <1>2, <2>1
    <3>2. QED
      BY <2>1, <3>1
  <2>2. CASE Accepted(told) = {}
    <3>1. Go(p, "grant", told)
      BY <1>2, <2>2
    <3>2. QED
      BY <2>2, <3>1
  <2>3. QED
    BY <2>1, <2>2
<1>5. /\ approved \subseteq approved'
      /\ w.consented = None => approved' = approved \cup AnsweredYes(told)
  BY <1>2
<1>6. w.consented # None => \A i \in Items : told.answers[i] = None
  BY <1>1, <1>3
<1> HIDE DEF told
<1>7. ASSUME w.consented = None
      PROVE  UnrefusedApproved(told, PatchedLock(told), approved') /\ KeptApproved(told, approved')
  <2>1. AnsweredYes(told) \subseteq approved'
    BY <1>5, <1>7
  <2>2. KeptApproved(told, approved')
    BY <2>1 DEF KeptApproved, AnsweredYes
  <2>3. ASSUME NEW i \in Items, told.answers[i] = "accept"
        PROVE  <<i, PatchedLock(told)[i]>> \in approved'
    <3>1. i \in Accepted(told)
      BY <2>3 DEF Accepted
    <3>2. PatchedLock(told)[i] = told.displayed[i]
      BY <3>1 DEF PatchedLock
    <3>3. QED
      BY <2>1, <3>1, <3>2 DEF AnsweredYes
  <2>4. ASSUME NEW i \in Items, told.answers[i] = None, PatchedLock(told)[i] # Unpinned
        PROVE  <<i, PatchedLock(told)[i]>> \in approved'
    <3>1. i \notin Accepted(told)
      BY <2>4, ConsentAssumption DEF Accepted
    <3>2. PatchedLock(told)[i] = told.snap.lock[i]
      BY <3>1 DEF PatchedLock
    <3>3. <<i, told.snap.lock[i]>> \in Pins(told.snap)
      BY <2>4, <3>2 DEF Pins
    <3>4. <<i, told.snap.lock[i]>>[1] = i
      OBVIOUS
    <3>5. <<i, told.snap.lock[i]>> \in AnsweredYes(told)
      BY <2>4, <3>3, <3>4 DEF AnsweredYes
    <3>6. QED
      BY <2>1, <3>2, <3>5
  <2>5. UnrefusedApproved(told, PatchedLock(told), approved')
    BY <2>3, <2>4 DEF UnrefusedApproved, PinApproved
  <2>6. QED
    BY <2>2, <2>5
<1>8. ASSUME at = "grant" PROVE told.digest.lock = PatchedLock(told)
  <2>1. Effective(told) = told.snap
    BY <1>3, <1>4, <1>8, NothingAccepted
  <2>2. Effective(told).lock = PatchedLock(told)
    BY <1>3 DEF Effective, Snapshot
  <2>3. QED
    BY <1>3, <2>1, <2>2
<1>9. w.consented # None => AllPinsApproved(w.consented.lock, approved')
  BY <1>1, <1>5, <1>a DEF ApprovalInv, AllApprove, Approves, AllPinsApproved, PinApproved
<1>10. w.consented # None => KeptApproved(told, approved') /\ at = "grant"
  <2>1. None # "keep"
    BY ConsentAssumption
  <2>2. w.consented # None => Accepted(told) = {}
    BY <1>6, ConsentAssumption DEF Accepted
  <2>3. QED
    BY <1>4, <1>6, <2>1, <2>2 DEF KeptApproved
<1>11. Approves(at, told, approved', slip', entry')
  BY <1>3, <1>6, <1>7, <1>8, <1>9, <1>10 DEF Approves
<1>12. Kept
  BY <1>1 DEF Kept
<1>13. ServedWasApproved'
  BY <1>1, <1>5, ServedStays DEF ApprovalInv
<1>14. pc' = [pc EXCEPT ![p] = at] /\ work' = [work EXCEPT ![p] = told] /\ slip \subseteq slip'
       /\ pc[p] # "decide" /\ at # "decide"
  BY <1>1, <1>4 DEF Go
<1>15. QED
  BY <1>t, <1>a, <1>1, <1>5, <1>11, <1>12, <1>13, <1>14, ApprovalStays

LEMMA AskingApproval ==
  ASSUME ApprovalInv, NEW p \in Reviewers,
         \/ \E consented \in {None} \cup previewed : BeginReview(p, consented)
         \/ Show(p) \/ Answer(p) \/ Bail(p) \/ Patch(p) \/ Reread(p) \/ VerifyConsent(p)
  PROVE  ApprovalInv'
<1>t. TypeInv'
  BY ReviewerTypes DEF ApprovalInv, Review
<1>a. p \in Procs /\ work[p] \in Work /\ Fits(p, pc[p], work[p]) /\ FileTypes
  BY TypeParts DEF ApprovalInv, TypeInv, Holding, Procs, TypeOK
<1> DEFINE w == work[p]
<1>h. Approves(pc[p], w, approved, slip, entry)
  BY <1>a DEF ApprovalInv, AllApprove
<1>1. CASE Answer(p)
  BY <1>1, AnswerApproves
<1>2. ASSUME \/ \E consented \in {None} \cup previewed : BeginReview(p, consented)
             \/ Show(p) \/ Bail(p) \/ Patch(p) \/ Reread(p) \/ VerifyConsent(p)
      PROVE  /\ UNCHANGED <<entry, approved, served, previewed>> /\ slip \subseteq slip' /\ pc[p] # "decide"
             /\ Kept /\ ServedWasApproved'
  <2>1. UNCHANGED <<entry, approved, served, previewed>> /\ slip \subseteq slip' /\ pc[p] # "decide"
    BY <1>2 DEF BeginReview, Show, Bail, Patch, Reread, VerifyConsent, shared, history
  <2>2. QED
    BY <2>1, ServedStays DEF Kept, ApprovalInv
<1>3. ASSUME NEW consented \in {None} \cup previewed, BeginReview(p, consented) PROVE ApprovalInv'
  <2> DEFINE v == [Blank EXCEPT !.snap = files, !.consented = consented]
  <2>1. v.consented = consented
    BY DEF Blank
  <2>2. Approves("show", v, approved', slip', entry')
    BY <1>2, <1>3, <2>1 DEF Approves, ApprovalInv, PreviewApproved
  <2>3. QED
    BY <1>t, <1>a, <1>2, <1>3, <2>2, ApprovalStays DEF BeginReview, Start
<1>4. CASE Show(p)
  <2> DEFINE v == [w EXCEPT !.prior = surface, !.displayed = live]
  <2>1. v.consented = w.consented
    BY <1>a DEF Work
  <2>2. Approves("shown", v, approved', slip', entry')
    BY <1>2, <1>4, <1>h, <2>1 DEF Approves
  <2>3. QED
    BY <1>t, <1>a, <1>2, <1>4, <2>2, ApprovalStays DEF Show, Go
<1>5. ASSUME Leave(p), Bail(p) \/ Patch(p) \/ VerifyConsent(p) PROVE ApprovalInv'
  BY <1>t, <1>a, <1>2, <1>5, LeavingApprovalStays
<1>6. ASSUME Patch(p), Go(p, "reread", [w EXCEPT !.lock = PatchedLock(w)]) PROVE ApprovalInv'
  <2> DEFINE v == [w EXCEPT !.lock = PatchedLock(w)]
  <2>1. /\ PatchedLock(v) = PatchedLock(w) /\ v.consented = w.consented /\ v.answers = w.answers
        /\ \A i : ApprovedPin(v, i) = ApprovedPin(w, i)
    BY <1>a DEF PatchedLock, Accepted, ApprovedPin, Work
  <2>2. pc[p] = "patch"
    BY <1>6 DEF Patch
  <2>3. Approves("reread", v, approved', slip', entry')
    BY <1>2, <1>6, <1>h, <2>1, <2>2 DEF Approves, UnrefusedApproved, KeptApproved
  <2>4. QED
    BY <1>t, <1>a, <1>2, <1>6, <2>3, ApprovalStays DEF Go
<1>7. CASE Reread(p)
  <2> DEFINE v == [w EXCEPT !.digest = [w.snap EXCEPT !.lock = files.lock], !.lock = None]
  <2>1. pc[p] = "reread" /\ w.consented = None /\ w.lock = PatchedLock(w) /\ w.snap \in Snapshot
    BY <1>7, <1>a DEF Reread, Fits, Reviewing
  <2>2. /\ v.consented = w.consented /\ v.answers = w.answers
        /\ v.digest = [w.snap EXCEPT !.lock = files.lock]
        /\ \A i : ApprovedPin(v, i) = ApprovedPin(w, i)
    BY <1>a DEF ApprovedPin, Work
  <2>3. v.digest.lock = files.lock
    BY <2>1, <2>2 DEF Snapshot
  <2>4. slip' \cap Spoiling = {} => files.lock = PatchedLock(w)
    BY <1>7, <2>1 DEF Reread, Spoiling
  <2> HIDE DEF v
  <2>5. Approves("grant", v, approved', slip', entry')
    BY <1>2, <1>7, <1>h, <2>1, <2>2, <2>3, <2>4 DEF Approves, UnrefusedApproved, KeptApproved
  <2>6. Go(p, "grant", v)
    BY <1>7 DEF Reread, v
  <2>7. QED
    BY <1>t, <1>a, <1>2, <1>7, <2>5, <2>6, ApprovalStays DEF Go
<1>8. ASSUME VerifyConsent(p), files = w.consented, Go(p, "store", [w EXCEPT !.digest = files])
      PROVE  ApprovalInv'
  <2> DEFINE v == [w EXCEPT !.digest = files]
  <2>1. pc[p] = "grant" /\ w.consented # None
    BY <1>8 DEF VerifyConsent
  <2>2. /\ v.consented = w.consented /\ v.answers = w.answers /\ v.digest = w.consented
        /\ \A i : ApprovedPin(v, i) = ApprovedPin(w, i)
    BY <1>a, <1>8 DEF ApprovedPin, Work
  <2>3. Approves("store", v, approved', slip', entry')
    BY <1>2, <1>8, <1>h, <2>1, <2>2 DEF Approves, KeptApproved
  <2>4. QED
    BY <1>t, <1>a, <1>2, <1>8, <2>3, ApprovalStays DEF Go
<1>9. QED
  BY <1>1, <1>3, <1>4, <1>5, <1>6, <1>7, <1>8 DEF Bail, Patch, VerifyConsent

LEMMA GrantApproval ==
  ASSUME OneReviewer, ApprovalInv, NEW p \in Reviewers, Grant(p)
  PROVE  ApprovalInv'
<1>t. TypeInv'
  BY ReviewerTypes DEF ApprovalInv, Review
<1>a. p \in Procs /\ work[p] \in Work /\ Fits(p, pc[p], work[p]) /\ FileTypes
  BY TypeParts DEF ApprovalInv, TypeInv, Holding, Procs, TypeOK
<1> DEFINE w == work[p]
<1>h. Approves(pc[p], w, approved, slip, entry)
  BY <1>a DEF ApprovalInv, AllApprove
<1>1. /\ UNCHANGED <<served, slip, approved, previewed>>
      /\ (pc[p] = "grant" /\ w.consented = None) \/ pc[p] = "store"
      /\ IF Asked(w) = {} THEN Leave(p) ELSE Go(p, "decide", w)
  BY DEF Grant
<1>2. w.digest \in Snapshot
  BY <1>1, <1>a DEF Fits
<1>3. /\ entry' # None /\ entry'.digest = w.digest
      /\ \A i \in Items : entry'.answers[i] = IF entry = None THEN None ELSE entry.answers[i]
  BY <1>a, <1>2, GrantedEntry DEF Grant, FileTypes
<1>4. slip \cap Spoiling = {} => UnrefusedApproved(w, w.digest.lock, approved)
  BY <1>1, <1>h DEF Approves, UnrefusedApproved, AllPinsApproved
<1>5. ASSUME slip \cap Spoiling = {}, NEW i \in Items, ~Owed(i)'
      PROVE  PinApproved(w.digest.lock, i, approved)
  <2>1. CASE w.answers[i] \in {None, "accept"}
    BY <1>4, <1>5, <2>1 DEF UnrefusedApproved
  <2>2. CASE w.answers[i] \in {"keep", "block"}
    <3>1. Asked(w) # {}
      BY <2>2, ConsentAssumption DEF Asked
    <3>2. pc'[p] = "decide" /\ work'[p] = w
      BY <1>1, <1>a, <3>1 DEF Go, ApprovalInv, TypeInv, TypeOK
    <3>3. QED
      BY <1>5, <2>2, <3>2 DEF Owed
  <2>3. QED
    BY <1>a, <2>1, <2>2 DEF Work
<1>6. StoreApproved'
  <2>1. \A i \in Items : entry'.answers[i] \notin {None, Blocked} =>
           <<i, entry'.answers[i].pin>> \in approved
    BY <1>3 DEF ApprovalInv, StoreApproved
  <2>2. QED
    BY <1>1, <1>3, <1>5, <2>1 DEF StoreApproved
<1>7. PreviewApproved'
  BY <1>1 DEF ApprovalInv, PreviewApproved
<1>8. ServedWasApproved'
  BY <1>1, ServedStays DEF ApprovalInv
<1>9. AllApprove'
  <2> SUFFICES ASSUME NEW q \in Procs
               PROVE  Approves(pc'[q], work'[q], approved, slip, entry')
    BY <1>1 DEF AllApprove
  <2>1. CASE q = p
    <3>1. \/ pc'[q] = "idle" /\ work'[q] = Blank
          \/ pc'[q] = "decide" /\ work'[q] = w
      BY <1>1, <1>a, <2>1 DEF Go, Leave, ApprovalInv, TypeInv, TypeOK
    <3>2. Approves("decide", w, approved, slip, entry')
      BY <1>1, <1>3, <1>4, <1>h DEF Approves, UnrefusedApproved
    <3>3. Approves("idle", Blank, approved, slip, entry')
      BY DEF Approves, Blank
    <3>4. QED
      BY <3>1, <3>2, <3>3
  <2>2. CASE q # p
    <3>1. pc'[q] = pc[q] /\ work'[q] = work[q] /\ Approves(pc[q], work[q], approved, slip, entry)
      BY <1>1, <2>2 DEF Go, Leave, ApprovalInv, AllApprove, TypeInv, TypeOK
    <3>2. pc[q] # "decide"
      BY <1>1, <2>2 DEF ApprovalInv, TypeInv, Holding, Fits, Reviewing, OneReviewer
    <3>3. QED
      BY <1>3, <3>1, <3>2 DEF Approves
  <2>3. QED
    BY <2>1, <2>2
<1>10. QED
  BY <1>t, <1>6, <1>7, <1>8, <1>9 DEF ApprovalInv

LEMMA DecideApproval ==
  ASSUME ApprovalInv, NEW p \in Reviewers, NEW i \in Items, Decide(p, i)
  PROVE  ApprovalInv'
<1>t. TypeInv'
  BY ReviewerTypes DEF ApprovalInv, Review
<1>a. p \in Procs /\ work[p] \in Work /\ Fits(p, pc[p], work[p]) /\ FileTypes
  BY TypeParts DEF ApprovalInv, TypeInv, Holding, Procs, TypeOK
<1> DEFINE w == work[p]
           rest == [w EXCEPT !.answers[i] = None]
<1>h. Approves("decide", w, approved, slip, entry)
  BY <1>a DEF Decide, ApprovalInv, AllApprove
<1>1. UNCHANGED <<approved, previewed, served, slip>> /\ pc[p] = "decide" /\ i \in Asked(w)
      /\ IF Asked(rest) = {} THEN Leave(p) ELSE Go(p, "decide", rest)
  BY DEF Decide, history
<1>2. w.snap \in Snapshot /\ w.displayed \in [Items -> Contents]
  BY <1>1, <1>a DEF Fits, Reviewing
<1>3. StandingAnswer(w, i) \in Standing \cup {None}
  BY <1>1, <1>a, <1>2, ReviewTypes
<1>4. /\ entry = None => entry' = None
      /\ entry # None => /\ entry' # None /\ entry'.digest = entry.digest
                         /\ entry'.answers[i] = StandingAnswer(w, i)
                         /\ \A j \in Items : j # i => entry'.answers[j] = entry.answers[j]
  BY <1>a, <1>3, AnsweredEntry DEF Decide, FileTypes
<1>5. /\ \A j \in Items : j # i => rest.answers[j] = w.answers[j]
      /\ rest.answers[i] = None /\ rest.consented = w.consented
      /\ \A j : ApprovedPin(rest, j) = ApprovedPin(w, j)
  BY <1>a DEF Work, ApprovedPin
<1>6. w.answers[i] \in {"accept", "keep", "block"}
  BY <1>1, <1>a DEF Asked, Work
\* Another answer that was owed before is owed after.
<1>7. ASSUME NEW j \in Items, j # i, Owed(j) PROVE Owed(j)'
  <2>1. PICK r \in Reviewers : pc[r] = "decide" /\ work[r].answers[j] \in {"keep", "block"}
    BY <1>7 DEF Owed
  <2>2. CASE r = p
    <3>1. rest.answers[j] \in {"keep", "block"} /\ Asked(rest) # {}
      BY <1>5, <1>7, <2>1, <2>2, ConsentAssumption DEF Asked
    <3>2. pc'[p] = "decide" /\ work'[p] = rest
      BY <1>1, <1>a, <3>1 DEF Go, ApprovalInv, TypeInv, TypeOK
    <3>3. QED
      BY <3>1, <3>2 DEF Owed
  <2>3. CASE r # p
    <3>1. pc'[r] = pc[r] /\ work'[r] = work[r]
      BY <1>1, <2>3 DEF Go, Leave, ApprovalInv, TypeInv, TypeOK, Procs
    <3>2. QED
      BY <2>1, <3>1 DEF Owed
  <2>4. QED
    BY <2>2, <2>3
<1>8. ASSUME entry # None, entry'.answers[i] \notin {None, Blocked}
      PROVE  <<i, entry'.answers[i].pin>> \in approved
  <2>1. w.answers[i] = "keep"
    BY <1>4, <1>6, <1>8 DEF StandingAnswer
  <2>2. entry'.answers[i] = Keep(ApprovedPin(w, i))
    BY <1>4, <1>8, <2>1 DEF StandingAnswer
  <2>3. QED
    BY <1>h, <2>1, <2>2 DEF Approves, KeptApproved, Keep
<1>9. ASSUME entry # None, slip \cap Spoiling = {}, entry'.answers[i] = None
      PROVE  PinApproved(entry.digest.lock, i, approved)
  <2>1. Keep(ApprovedPin(w, i)) \in Standing /\ Blocked \in Standing
    BY <1>1, <1>2, <1>a, ReviewTypes DEF Standing, Asked
  <2>2. w.answers[i] = "accept"
    BY <1>4, <1>6, <1>9, <2>1, ConsentAssumption DEF StandingAnswer
  <2>3. QED
    BY <1>9, <1>h, <2>2 DEF Approves
<1>10. StoreApproved'
  <2> SUFFICES ASSUME entry' # None, NEW j \in Items
               PROVE  /\ entry'.answers[j] \notin {None, Blocked} => <<j, entry'.answers[j].pin>> \in approved
                      /\ slip \cap Spoiling = {} /\ entry'.answers[j] = None /\ ~Owed(j)' =>
                            PinApproved(entry'.digest.lock, j, approved)
    BY <1>1 DEF StoreApproved
  <2>1. CASE j = i
    BY <1>4, <1>8, <1>9, <2>1
  <2>2. CASE j # i
    BY <1>4, <1>7, <2>2 DEF ApprovalInv, StoreApproved
  <2>3. QED
    BY <2>1, <2>2
<1>11. PreviewApproved'
  BY <1>1 DEF ApprovalInv, PreviewApproved
<1>12. ServedWasApproved'
  BY <1>1, ServedStays DEF ApprovalInv
<1>13. AllApprove'
  <2> SUFFICES ASSUME NEW q \in Procs
               PROVE  Approves(pc'[q], work'[q], approved, slip, entry')
    BY <1>1 DEF AllApprove
  <2>1. CASE q = p
    <3>1. \/ pc'[q] = "idle" /\ work'[q] = Blank
          \/ pc'[q] = "decide" /\ work'[q] = rest
      BY <1>1, <1>a, <2>1 DEF Go, Leave, ApprovalInv, TypeInv, TypeOK
    <3>2. \A j \in Items : rest.answers[j] \in {"accept", "keep"} => rest.answers[j] = w.answers[j]
      BY <1>5, ConsentAssumption
    <3>3. Approves("decide", rest, approved, slip, entry')
      BY <1>4, <1>5, <1>h, <3>2 DEF Approves, KeptApproved
    <3>4. Approves("idle", Blank, approved, slip, entry')
      BY DEF Approves, Blank
    <3>5. QED
      BY <3>1, <3>3, <3>4
  <2>2. CASE q # p
    <3>1. pc'[q] = pc[q] /\ work'[q] = work[q] /\ Approves(pc[q], work[q], approved, slip, entry)
      BY <1>1, <2>2 DEF Go, Leave, ApprovalInv, AllApprove, TypeInv, TypeOK
    <3>2. QED
      BY <1>4, <3>1 DEF Approves
  <2>3. QED
    BY <2>1, <2>2
<1>14. QED
  BY <1>t, <1>10, <1>11, <1>12, <1>13 DEF ApprovalInv

LEMMA LoadApproval ==
  ASSUME ApprovalInv, NEW p \in Loaders, LoadSkill(p)
  PROVE  ApprovalInv'
<1>t. TypeInv'
  BY LoadTypes DEF ApprovalInv
<1>a. p \in Procs /\ work[p] \in Work /\ Fits(p, pc[p], work[p]) /\ FileTypes
  BY TypeParts DEF ApprovalInv, TypeInv, Holding, Procs, TypeOK
<1> DEFINE w == work[p]
<1>h. Approves(pc[p], w, approved, slip, entry)
  BY <1>a DEF ApprovalInv, AllApprove
<1>1. UNCHANGED <<entry, approved, previewed>> /\ slip \subseteq slip' /\ pc[p] # "decide" /\ Kept
  BY DEF LoadSkill, Note, LoadLock, Ask, ServePinned, shared, history, Kept
<1>2. ASSUME NEW i \in Items, Note(p, i) PROVE ApprovalInv'
  <2>1. entry # None
    BY <1>2 DEF Note, Trusts
  <2>2. Approves("noted", [Blank EXCEPT !.item = i], approved', slip', entry')
    BY <1>1, <2>1 DEF Approves, Blank
  <2>3. ServedWasApproved'
    BY <1>1, <1>2, ServedStays DEF Note, history, ApprovalInv
  <2>4. QED
    BY <1>t, <1>a, <1>1, <1>2, <2>2, <2>3, ApprovalStays DEF Note, Start
<1>3. CASE LoadLock(p)
  <2> DEFINE v == [w EXCEPT !.lock = files.lock]
  <2>1. v.consented = w.consented /\ pc[p] = "noted"
    BY <1>3, <1>a DEF LoadLock, Work
  <2>2. UNCHANGED slip
    BY <1>3 DEF LoadLock, history
  <2>3. Approves("locked", v, approved', slip', entry')
    BY <1>1, <1>h, <2>1, <2>2 DEF Approves
  <2>4. ServedWasApproved'
    BY <1>1, <1>3, ServedStays DEF LoadLock, history, ApprovalInv
  <2>5. QED
    BY <1>t, <1>a, <1>1, <1>3, <2>3, <2>4, ApprovalStays DEF LoadLock, Go
<1>4. CASE Ask(p)
  <2> DEFINE i == w.item
             v == [w EXCEPT !.refused = refused[i]]
  <2>1. i \in Items /\ pc[p] = "locked"
    BY <1>4, <1>a DEF Ask, Fits
  <2>2. ASSUME slip' \cap Spoiling = {}, "load" \notin slip'
        PROVE  entry # None /\ ~Owed(i) /\ entry.digest.lock = w.lock /\ slip \cap Spoiling = {}
    <3>1. ~Owed(i) /\ ~Regranted(p) /\ slip \cap Spoiling = {}
      BY <1>4, <2>2 DEF Ask, Spoiling
    <3>2. entry # None
      BY <1>h, <2>1, <3>1 DEF Approves
    <3>3. QED
      BY <3>1, <3>2 DEF Regranted
  <2>3. CASE Leave(p) /\ UNCHANGED served
    <3>1. ServedWasApproved'
      BY <1>1, <2>3, ServedStays DEF ApprovalInv
    <3>2. QED
      BY <1>t, <1>a, <1>1, <2>3, <3>1, LeavingApprovalStays
  <2>4. CASE StandingFor(i) \notin {None, Blocked} /\ Serve(p, StandingFor(i).pin, TRUE, refused[i])
    <3>1. Leave(p) /\ served'.item = i /\ served'.content = StandingFor(i).pin
      BY <2>4 DEF Serve
    <3>2. entry # None /\ StandingFor(i) = entry.answers[i]
      BY <2>4 DEF StandingFor
    <3>3. <<i, StandingFor(i).pin>> \in approved
      BY <2>1, <2>4, <3>2 DEF ApprovalInv, StoreApproved
    <3>4. ServedWasApproved'
      BY <1>1, <3>1, <3>3 DEF ServedWasApproved
    <3>5. QED
      BY <1>t, <1>a, <1>1, <3>1, <3>4, LeavingApprovalStays
  <2>5. CASE StandingFor(i) = None /\ Go(p, "asked", v) /\ UNCHANGED served
    <3>1. v.consented = w.consented /\ v.lock = w.lock /\ v.item = i
      BY <1>a DEF Work
    <3>2. ASSUME slip' \cap Spoiling = {}, "load" \notin slip' PROVE PinApproved(w.lock, i, approved)
      <4>1. entry # None /\ ~Owed(i) /\ entry.digest.lock = w.lock /\ slip \cap Spoiling = {}
        BY <2>2, <3>2
      <4>2. entry.answers[i] = None
        BY <2>5, <4>1 DEF StandingFor
      <4>3. QED
        BY <2>1, <4>1, <4>2 DEF ApprovalInv, StoreApproved
    <3> HIDE DEF v
    <3>3. Approves("asked", v, approved', slip', entry')
      BY <1>1, <1>h, <3>1, <3>2 DEF Approves
    <3>4. ServedWasApproved'
      BY <1>1, <2>5, ServedStays DEF ApprovalInv
    <3>5. QED
      BY <1>t, <1>a, <1>1, <2>5, <3>3, <3>4, ApprovalStays DEF Go
  <2>6. QED
    BY <1>4, <2>3, <2>4, <2>5 DEF Ask
<1>5. CASE ServePinned(p)
  <2>1. Leave(p) /\ UNCHANGED slip /\ pc[p] = "asked"
    BY <1>5 DEF ServePinned, Serve
  <2>2. \/ UNCHANGED served
        \/ ~served'.pinned
        \/ /\ served'.item = w.item /\ served'.content = w.lock[w.item]
           /\ w.lock[w.item] # Unpinned
    BY <1>5 DEF ServePinned, Serve
  <2>3. ServedWasApproved'
    BY <1>1, <1>h, <2>1, <2>2 DEF ApprovalInv, ServedWasApproved, Approves, PinApproved, Spoiling
  <2>4. QED
    BY <1>t, <1>a, <1>1, <2>1, <2>3, LeavingApprovalStays
<1>6. QED
  BY <1>2, <1>3, <1>4, <1>5 DEF LoadSkill

LEMMA NextApproval == OneReviewer /\ ApprovalInv /\ [Next]_vars => ApprovalInv'
<1> SUFFICES ASSUME OneReviewer, ApprovalInv, [Next]_vars PROVE ApprovalInv'
  OBVIOUS
<1>t. TypeInv'
  BY NextTypes DEF ApprovalInv
<1>1. ASSUME NEW p \in Reviewers, Review(p) PROVE ApprovalInv'
  BY <1>1, AskingApproval, GrantApproval, DecideApproval DEF Review
<1>2. CASE Preview
  <2>1. /\ UNCHANGED <<entry, pc, work, served, slip>>
        /\ previewed' = previewed \cup {files} /\ approved' = approved \cup Pins(files)
    BY <1>2 DEF Preview
  <2>2. PreviewApproved'
    BY <2>1 DEF ApprovalInv, PreviewApproved, AllPinsApproved, PinApproved, Pins
  <2>3. StoreApproved'
    BY <2>1 DEF ApprovalInv, StoreApproved, PinApproved, Owed
  <2>4. AllApprove'
    BY <2>1 DEF ApprovalInv, AllApprove, Approves, PinApproved, AllPinsApproved, UnrefusedApproved, KeptApproved
  <2>5. ServedWasApproved'
    BY <2>1, ServedStays DEF ApprovalInv
  <2>6. QED
    BY <1>t, <2>2, <2>3, <2>4, <2>5 DEF ApprovalInv
<1>3. CASE Revoke
  <2>1. entry' = None
    BY <1>3 DEF Revoke, Trust!Effect
  <2>2. UNCHANGED <<pc, work, served, approved, previewed>> /\ slip \subseteq slip'
    BY <1>3 DEF Revoke
  <2>3. \A p \in Procs : pc[p] \in {"noted", "locked"} => slip' \cap Spoiling # {}
    BY <1>3 DEF Revoke, Acting, Spoiling
  <2>4. ASSUME NEW p \in Procs PROVE Approves(pc[p], work[p], approved, slip', None)
    <3>1. Approves(pc[p], work[p], approved, slip, entry)
      BY DEF ApprovalInv, AllApprove
    <3>2. slip' \cap Spoiling = {} => slip \cap Spoiling = {}
      BY <2>2
    <3>3. QED
      BY <2>2, <2>3, <3>1, <3>2 DEF Approves
  <2>5. AllApprove'
    BY <2>1, <2>2, <2>4 DEF AllApprove
  <2>6. StoreApproved' /\ PreviewApproved'
    BY <2>1, <2>2 DEF ApprovalInv, StoreApproved, PreviewApproved
  <2>7. ServedWasApproved'
    BY <2>2, ServedStays DEF ApprovalInv
  <2>8. QED
    BY <1>t, <2>5, <2>6, <2>7 DEF ApprovalInv
<1>4. CASE Edit
  <2>1. UNCHANGED <<entry, pc, work, served, approved, previewed, slip>>
    BY <1>4 DEF Edit, EditFiles, EditSkill, history
  <2>2. QED
    BY <1>t, <2>1 DEF ApprovalInv, StoreApproved, PreviewApproved, AllApprove, ServedWasApproved, Owed
<1>5. ASSUME NEW p \in Procs, Die(p) PROVE ApprovalInv'
  <2>1. /\ UNCHANGED <<entry, approved, previewed, served>> /\ slip \subseteq slip' /\ Leave(p)
        /\ Kept
    BY <1>5 DEF Die, shared, Kept
  <2>2. ServedWasApproved'
    BY <2>1, ServedStays DEF ApprovalInv
  <2>3. slip' \cap Spoiling = {} => \A i \in Items : Owed(i) => Owed(i)'
    <3> SUFFICES ASSUME slip' \cap Spoiling = {}, NEW i \in Items, Owed(i) PROVE Owed(i)'
      OBVIOUS
    <3>1. PICK r \in Reviewers : pc[r] = "decide" /\ work[r].answers[i] \in {"keep", "block"}
      BY DEF Owed
    <3>2. r # p
      BY <1>5, <3>1 DEF Die, Spoiling
    <3>3. pc'[r] = pc[r] /\ work'[r] = work[r]
      BY <2>1, <3>2 DEF Leave, Go, ApprovalInv, TypeInv, TypeOK, Procs
    <3>4. QED
      BY <3>1, <3>3 DEF Owed
  <2>4. StoreApproved'
    <3>1. slip' \cap Spoiling = {} => slip \cap Spoiling = {}
      BY <2>1
    <3>2. QED
      BY <2>1, <2>3, <3>1 DEF ApprovalInv, StoreApproved
  <2>5. Approves("idle", Blank, approved', slip', entry')
    BY DEF Approves, Blank
  <2>6. AllApprove'
    BY <2>1, <2>5, OthersApprove DEF Leave, Go
  <2>7. PreviewApproved'
    BY <2>1 DEF ApprovalInv, PreviewApproved
  <2>8. QED
    BY <1>t, <2>2, <2>4, <2>6, <2>7 DEF ApprovalInv
<1>6. CASE UNCHANGED vars
  BY <1>6, <1>t DEF vars, ApprovalInv, StoreApproved, PreviewApproved, AllApprove, ServedWasApproved, Owed
<1>7. QED
  BY <1>1, <1>2, <1>3, <1>4, <1>5, <1>6, CarryApproval, LoadApproval DEF Next

\* With one review at a time, what an agent is given by a pin is a content that
\* some human said yes to, unless one of the named windows was entered.
THEOREM ApprovalTheorem == OneReviewer /\ Spec => []ServedWasApproved
<1> SUFFICES ASSUME OneReviewer PROVE Spec => []ServedWasApproved
  OBVIOUS
<1>1. ApprovalInv => ServedWasApproved
  BY DEF ApprovalInv
<1>2. ApprovalInv /\ [Next]_vars => ApprovalInv'
  BY NextApproval
<1>3. QED
  BY InitApproval, <1>1, <1>2, PTL DEF Spec
=============================================================================
