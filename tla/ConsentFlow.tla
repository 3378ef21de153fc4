---------------------------- MODULE ConsentFlow ----------------------------
(***************************************************************************)
(* How consent to one project is given, carried and used.  Three kinds of  *)
(* agentstack process share the project's files and its trust entry:       *)
(*                                                                         *)
(*   review  grant_probed of commands/trust.rs: show a snapshot, ask about *)
(*           drifted items, re-pin the accepted ones, grant, and record    *)
(*           the standing answers;                                         *)
(*   carry   a command that rewrites a manifest layer without authorizing  *)
(*           anything new, and re-pins trust over its own write            *)
(*           (trust_carry.rs and its five callers);                        *)
(*   load    agentstack_load of mcp_server.rs: serve one skill.            *)
(*                                                                         *)
(* Every step below is one read or one write of a file or of the store     *)
(* (whose mutations are serial: TrustLedger).  Between any two of them the *)
(* project may be edited, the trust revoked, or the process die.           *)
(*                                                                         *)
(* A consent digest is the snapshot it was computed from.  Of a manifest   *)
(* layer the model keeps what it declares and what it merely prefers; of   *)
(* the lock, the content it pins for each skill; of a skill, its content.  *)
(***************************************************************************)
EXTENDS Naturals, FiniteSets

CONSTANTS
    Reviewers, Carriers, Loaders,  \* processes, by what they do
    Layers,        \* manifest layers: agentstack.toml, agentstack.local.toml
    Declarations,  \* what a layer may declare
    Preferences,   \* what else it may say
    Items,         \* skills the project names
    Inline,        \* those whose content is in the project, not in the library
    Contents,      \* what a skill may contain (its checksum)
    Unpinned,      \* no entry in the lock
    None,          \* no entry, no snapshot, no answer, nothing
    MaxEdits,      \* bound: changes made by somebody else
    MaxCommands,   \* bound: commands started
    MaxEvents      \* bound: both together

Procs == Reviewers \cup Carriers \cup Loaders

Text == [declares: Declarations, prefers: Preferences]

Lock == [Items -> Contents \cup {Unpinned}]

\* The files the consent digest covers, and the digest: equal files are equal digests.
Snapshot == [layers: [Layers -> Text], lock: Lock]

Blocked == [answer |-> "block", pin |-> None]

Keep(pin) == [answer |-> "keep", pin |-> pin]

Standing == {Blocked} \cup {Keep(c) : c \in Contents \cup {Unpinned}}

\* The store's entry for this project, as TrustStore keeps it.
Trust == INSTANCE TrustEntries WITH
    Projects <- {"project"}, Digests <- Snapshot, Answers <- Standing,
    NoAnswer <- None, NoEntry <- None, NoEvent <- None

ASSUME ConsentAssumption ==
    /\ Inline \subseteq Items
    /\ Unpinned \notin Contents
    /\ None \notin {"accept", "keep", "block"} \cup Contents \cup {Unpinned}
    /\ None \notin Snapshot \cup Standing \cup Text \cup Trust!Entry
    /\ MaxEdits \in Nat /\ MaxCommands \in Nat /\ MaxEvents \in Nat

VARIABLES
    files,     \* the project's manifest layers and lock
    live,      \* the content of each skill on disk
    entry,     \* the project's trust entry, or None
    surface,   \* the pins of the surface recorded with the entry
    previewed, \* the digests somebody read with --preview; nothing takes one back
    pc,        \* where each process is
    work,      \* what it holds
    edits, commands,
    \* history, which no step of the code reads:
    reviewed,  \* surfaces a human said yes to since the last revocation, or read with --preview
    approved,  \* contents a human said yes to
    refused,   \* the human's last answer about the item was "block"
    served,    \* what an agent was last given, or None
    slip       \* windows somebody's step fell into

vars == <<files, live, entry, surface, previewed, pc, work, edits, commands,
          reviewed, approved, refused, served, slip>>

shared == <<files, live, entry, surface, previewed>>
history == <<reviewed, approved, refused, served, slip>>

\* What a human consents to: what is declared and what is pinned.
Surface(s) == [declares |-> [l \in Layers |-> s.layers[l].declares], lock |-> s.lock]

\* TrustState::Trusted for a digest, against the store as it is now.
Trusts(s) == entry # None /\ entry.digest = s

MayStart == commands < MaxCommands /\ edits + commands < MaxEvents

MayEdit == edits < MaxEdits /\ edits + commands < MaxEvents

Blank == [layer |-> None, before |-> None, after |-> None, carries |-> FALSE,
          snap |-> None, consented |-> None, prior |-> None, displayed |-> None,
          answers |-> [i \in Items |-> None], digest |-> None, item |-> None, lock |-> None, refused |-> FALSE]

Start(p, at, w) ==
    /\ MayStart
    /\ commands' = commands + 1
    /\ pc' = [pc EXCEPT ![p] = at]
    /\ work' = [work EXCEPT ![p] = w]

Go(p, at, w) ==
    /\ pc' = [pc EXCEPT ![p] = at]
    /\ work' = [work EXCEPT ![p] = w]
    /\ UNCHANGED commands

Leave(p) == Go(p, "idle", Blank)

Pins(s) == {<<i, s.lock[i]>> : i \in {j \in Items : s.lock[j] # Unpinned}}

\* A project as it was set up: pinned, and not trusted yet or trusted by a
\* review that found nothing drifted.
Init ==
    /\ \E layer \in [Layers -> Text], lock \in [Items -> Contents] :
           files = [layers |-> layer, lock |-> lock]
    /\ live = files.lock
    /\ previewed = {}
    /\ pc = [p \in Procs |-> "idle"]
    /\ work = [p \in Procs |-> Blank]
    /\ edits = 0
    /\ commands = 0
    /\ \/ /\ entry = None
          /\ surface = None
          /\ reviewed = {}
          /\ approved = {}
       \/ /\ entry = [digest |-> files, answers |-> [i \in Items |-> None]]
          /\ surface = files.lock
          /\ reviewed = {Surface(files)}
          /\ approved = Pins(files)
    /\ refused = [i \in Items |-> FALSE]
    /\ served = None
    /\ slip = {}

-----------------------------------------------------------------------------
(* Carrying trust over one's own write.  Every caller reads the layer,     *)
(* computes its new text, and only then captures the trust state.          *)

\* A preference changes; or, in the refresh of owned servers, what the layer
\* declares moves too, and then the caller does not ask for the carry.
ReadLayer(p, l, new) ==
    /\ pc[p] = "idle"
    /\ new # files.layers[l]
    /\ Start(p, "read",
             [Blank EXCEPT !.layer = l, !.before = files.layers[l], !.after = new,
                           !.carries = (new.declares = files.layers[l].declares)])
    /\ UNCHANGED <<shared, edits, history>>

Capture(p) ==
    /\ pc[p] = "read"
    /\ Go(p, "captured", [work[p] EXCEPT !.snap = files])
    /\ UNCHANGED <<shared, edits, history>>

\* Valid only if the store pins exactly the captured bytes.  They need not be
\* the bytes the new text was made from.
CheckCaptured(p) ==
    LET w == work[p]
        valid == Trusts(w.snap)
    IN  /\ pc[p] = "captured"
        /\ Go(p, "checked", [w EXCEPT !.snap = IF valid THEN @ ELSE None])
        /\ slip' = IF valid /\ w.carries /\ w.snap.layers[w.layer] # w.before
                   THEN slip \cup {"carry"} ELSE slip
        /\ UNCHANGED <<shared, edits, reviewed, approved, refused, served>>

WriteLayer(p) ==
    /\ pc[p] = "checked"
    /\ files' = [files EXCEPT !.layers[work[p].layer] = work[p].after]
    /\ Go(p, "written", work[p])
    /\ UNCHANGED <<live, entry, surface, previewed, edits, history>>

Spliced(w) == [w.snap EXCEPT !.layers[w.layer] = w.after]

Repinned(digest) ==
    entry' = Trust!Effect(entry, [kind |-> "repin", project |-> "project", digest |-> digest])

\* Mutant: the digest is that of the files as they are now.
AcrossWriteFromDisk(p) ==
    /\ pc[p] = "written"
    /\ Leave(p)
    /\ IF work[p].carries /\ work[p].snap # None THEN Repinned(files) ELSE UNCHANGED entry
    /\ UNCHANGED <<files, live, surface, previewed, edits, history>>

\* across_write: the captured snapshot with the written text spliced in, over
\* whatever the store pins by now.
AcrossWrite(p) ==
    /\ pc[p] = "written"
    /\ Leave(p)
    /\ \/ /\ work[p].carries /\ work[p].snap # None
          /\ Repinned(Spliced(work[p]))
          /\ slip' = IF entry # None /\ entry.digest # work[p].snap
                     THEN slip \cup {"overtaken"} ELSE slip
       \/ ~(work[p].carries /\ work[p].snap # None) /\ UNCHANGED <<entry, slip>>
    /\ UNCHANGED <<files, live, surface, previewed, edits, reviewed, approved, refused, served>>

-----------------------------------------------------------------------------
(* Reviewing                                                               *)

\* A skill the review lists as drifted from the lock it shows.
Drifted(s, content) == {i \in Items : s.lock[i] \notin {Unpinned, content[i]}}

\* Skills that block any grant: in the project and not pinned.
Ungoverned(s) == {i \in Inline : s.lock[i] = Unpinned}

\* trust --preview: somebody reads the listed surface and means to consent to it.
Preview ==
    /\ MayStart
    /\ commands' = commands + 1
    /\ Drifted(files, live) = {}
    /\ Ungoverned(files) = {}
    /\ previewed' = previewed \cup {files}
    /\ reviewed' = reviewed \cup {Surface(files)}
    /\ approved' = approved \cup Pins(files)
    /\ UNCHANGED <<files, live, entry, surface, pc, work, edits, refused, served, slip>>

\* trust, or trust --yes --consented <digest>.
BeginReview(p, consented) ==
    /\ pc[p] = "idle"
    /\ Start(p, "show", [Blank EXCEPT !.snap = files, !.consented = consented])
    /\ UNCHANGED <<shared, edits, history>>

\* The walk: the pins of the last consent, and each skill's content as hashed
\* for the diff.
Show(p) ==
    /\ pc[p] = "show"
    /\ Ungoverned(work[p].snap) = {}
    /\ Go(p, "shown", [work[p] EXCEPT !.prior = surface, !.displayed = live])
    /\ UNCHANGED <<shared, edits, history>>

\* Mutant: an entry without recorded pins leaves nothing to keep.
ApprovedPinOrNone(w, i) == IF w.prior # None THEN w.prior[i] ELSE None

\* What a diff is taken against, and what "keep the approved version" keeps.
ApprovedPin(w, i) ==
    IF w.prior # None /\ w.prior[i] # Unpinned THEN w.prior[i] ELSE w.snap.lock[i]

Accepted(w) == {i \in Items : w.answers[i] = "accept"}

\* The lock of the snapshot, re-pinned for the accepted items only.
PatchedLock(w) ==
    [i \in Items |-> IF i \in Accepted(w) THEN w.displayed[i] ELSE w.snap.lock[i]]

Effective(w) == [w.snap EXCEPT !.lock = PatchedLock(w)]

\* The contents an approving human has said yes to, answer by answer.
AnsweredYes(w) ==
    {<<i, w.displayed[i]>> : i \in Accepted(w)}
    \cup {<<i, ApprovedPin(w, i)>> : i \in {j \in Items : w.answers[j] = "keep"}}
    \cup {pin \in Pins(w.snap) : w.answers[pin[1]] = None}

\* Every drifted item is answered and the whole confirmed, or the review ends
\* with nothing done.  A review bound to a digest asks nothing, so for it a
\* drifted item is a blocker.
Answer(p) ==
    LET w == work[p]
        drifted == Drifted(w.snap, w.displayed)
    IN  /\ pc[p] = "shown"
        /\ w.consented # None => drifted = {}
        /\ \E answer \in [drifted -> {"accept", "keep", "block"}] :
             LET told == [w EXCEPT !.digest = w.snap, !.answers =
                              [i \in Items |-> IF i \in drifted THEN answer[i] ELSE None]]
             IN  /\ Go(p, IF Accepted(told) # {} THEN "patch" ELSE "grant", told)
                 /\ IF w.consented # None
                    THEN UNCHANGED <<reviewed, approved>>
                    ELSE /\ reviewed' = reviewed \cup {Surface(Effective(told))}
                         /\ approved' = approved \cup AnsweredYes(told)
        /\ UNCHANGED <<shared, edits, refused, served, slip>>

\* A drifted item is not answered, the confirmation is declined, or the
\* content store no longer has what a diff needs.
Bail(p) ==
    /\ pc[p] \in {"show", "shown"}
    /\ Leave(p)
    /\ UNCHANGED <<shared, edits, history>>

\* refuse_undisplayed for each accepted item, then the patched lock is written.
Patch(p) ==
    LET w == work[p]
        unchanged == \A i \in Accepted(w) : live[i] = w.displayed[i]
    IN  /\ pc[p] = "patch"
        /\ \/ ~unchanged /\ Leave(p) /\ UNCHANGED files
           \/ unchanged /\ Go(p, "reread", [w EXCEPT !.lock = PatchedLock(w)])
              /\ files' = [files EXCEPT !.lock = PatchedLock(w)]
        /\ UNCHANGED <<live, entry, surface, previewed, edits, history>>

\* The lock bytes of the digest to be granted are read back from the disk.
Reread(p) ==
    LET w == work[p] IN
    /\ pc[p] = "reread"
    /\ Go(p, "grant", [w EXCEPT !.digest = [w.snap EXCEPT !.lock = files.lock], !.lock = None])
    /\ slip' = IF files.lock # w.lock THEN slip \cup {"reread"} ELSE slip
    /\ UNCHANGED <<shared, edits, reviewed, approved, refused, served>>

\* trust_with_consent looks at the files once more and grants what it saw.
VerifyConsent(p) ==
    /\ pc[p] = "grant"
    /\ work[p].consented # None
    /\ \/ files # work[p].consented /\ Leave(p)
       \/ files = work[p].consented /\ Go(p, "store", [work[p] EXCEPT !.digest = files])
    /\ UNCHANGED <<shared, edits, history>>

Asked(w) == {i \in Items : w.answers[i] # None}

\* Mutant: a re-grant starts a new entry.
GrantAnew(p) ==
    LET w == work[p] IN
    /\ \/ pc[p] = "grant" /\ w.consented = None
       \/ pc[p] = "store"
    /\ entry' = [digest |-> w.digest, answers |-> [i \in Items |-> None]]
    /\ surface' = PatchedLock(w)
    /\ refused' = [i \in Items |-> IF i \in Asked(w) THEN w.answers[i] = "block" ELSE refused[i]]
    /\ IF Asked(w) = {} THEN Leave(p) ELSE Go(p, "decide", w)
    /\ UNCHANGED <<files, live, previewed, edits, reviewed, approved, served, slip>>

\* The grant, with the pins of the surface just reviewed.
Grant(p) ==
    LET w == work[p] IN
    /\ \/ pc[p] = "grant" /\ w.consented = None
       \/ pc[p] = "store"
    /\ entry' = Trust!Effect(entry, [kind |-> "grant", project |-> "project", digest |-> w.digest])
    /\ surface' = PatchedLock(w)
    /\ refused' = [i \in Items |-> IF i \in Asked(w) THEN w.answers[i] = "block" ELSE refused[i]]
    /\ IF Asked(w) = {} THEN Leave(p) ELSE Go(p, "decide", w)
    /\ UNCHANGED <<files, live, previewed, edits, reviewed, approved, served, slip>>

\* The standing answer an answer leaves: accepting one clears it.
StandingAnswer(w, i) ==
    CASE w.answers[i] = "accept" -> None
      [] w.answers[i] = "keep"   -> Keep(ApprovedPin(w, i))
      [] w.answers[i] = "block"  -> Blocked

\* set_decision, item by item, each under the store lock by itself.
Decide(p, i) ==
    LET w == work[p]
        rest == [w EXCEPT !.answers[i] = None]
    IN  /\ pc[p] = "decide"
        /\ i \in Asked(w)
        /\ entry' = Trust!Effect(entry, [kind |-> "answer", project |-> "project", item |-> i,
                                         answer |-> StandingAnswer(w, i)])
        /\ IF Asked(rest) = {} THEN Leave(p) ELSE Go(p, "decide", rest)
        /\ UNCHANGED <<files, live, surface, previewed, edits, history>>

\* A process that has read trust or heard an answer, and has yet to act on it.
Acting(p) ==
    pc[p] \in {"checked", "written", "patch", "reread", "grant", "store", "decide",
               "noted", "locked", "asked"}

\* The entry goes.  A digest read with --preview is only a digest: what was
\* consented to before the revocation may still be granted after it.
Revoke ==
    /\ entry # None
    /\ MayStart
    /\ commands' = commands + 1
    /\ entry' = Trust!Effect(entry, [kind |-> "revoke", project |-> "project"])
    /\ surface' = None
    /\ reviewed' = {Surface(s) : s \in previewed}
    /\ refused' = [i \in Items |-> FALSE]
    /\ slip' = IF \E p \in Procs : Acting(p) THEN slip \cup {"revoke"} ELSE slip
    /\ UNCHANGED <<files, live, previewed, pc, work, edits, approved, served>>

-----------------------------------------------------------------------------
(* Loading a skill                                                         *)

\* The trust note of the request: the project reads Trusted as of now.
Note(p, i) ==
    /\ pc[p] = "idle"
    /\ Trusts(files)
    /\ Start(p, "noted", [Blank EXCEPT !.item = i])
    /\ UNCHANGED <<shared, edits, history>>

\* The lock that is served from is loaded later, and not looked at again.
LoadLock(p) ==
    /\ pc[p] = "noted"
    /\ Go(p, "locked", [work[p] EXCEPT !.lock = files.lock])
    /\ UNCHANGED <<shared, edits, history>>

StandingFor(i) == IF entry = None THEN None ELSE entry.answers[i]

\* What an agent is given: whether by a pin, and whether the answers had
\* been asked when a refusal already stood.
Serve(p, content, pinned, over) ==
    /\ served' = [item |-> work[p].item, content |-> content, pinned |-> pinned, refused |-> over]
    /\ Leave(p)

\* Some human's answer about the item is granted but not yet recorded.
Owed(i) == \E r \in Reviewers : pc[r] = "decide" /\ work[r].answers[i] \in {"keep", "block"}

\* The answers belong to a grant of another lock than the one the load holds.
Regranted(p) == entry # None /\ entry.digest.lock # work[p].lock

\* Mutant: the answers are not consulted, as before the fix of the load path.
AskIgnored(p) ==
    /\ pc[p] = "locked"
    /\ Go(p, "asked", [work[p] EXCEPT !.refused = refused[work[p].item]])
    /\ UNCHANGED <<shared, edits, history>>

\* decision_for: blocked refuses, keep-pinned serves the approved copy.
Ask(p) ==
    LET i == work[p].item
        standing == StandingFor(i)
    IN  /\ pc[p] = "locked"
        /\ \/ standing = Blocked /\ Leave(p) /\ UNCHANGED served
           \/ standing \notin {None, Blocked} /\ Serve(p, standing.pin, TRUE, refused[i])
           \/ standing = None /\ Go(p, "asked", [work[p] EXCEPT !.refused = refused[i]])
              /\ UNCHANGED served
        /\ slip' = slip \cup (IF Owed(i) THEN {"answer"} ELSE {}) \cup (IF Regranted(p) THEN {"load"} ELSE {})
        /\ UNCHANGED <<shared, edits, reviewed, approved, refused>>

\* Mutant: the live directory is read, not the content store.
ServeLive(p) ==
    /\ pc[p] = "asked"
    /\ Serve(p, live[work[p].item], work[p].lock[work[p].item] # Unpinned, work[p].refused)
    /\ UNCHANGED <<shared, edits, reviewed, approved, refused, slip>>

\* classify_skill and what follows: an unpinned library skill is served live;
\* a pinned one from the content store by its pin, also when the library has
\* moved ahead; a drifted or unpinned skill of the project is refused.
ServePinned(p) ==
    LET i == work[p].item
        pin == work[p].lock[i]
    IN  /\ pc[p] = "asked"
        /\ \/ pin = Unpinned /\ i \notin Inline /\ Serve(p, live[i], FALSE, work[p].refused)
           \/ pin # Unpinned /\ (i \in Inline => live[i] = pin) /\ Serve(p, pin, TRUE, work[p].refused)
           \/ i \in Inline /\ live[i] # pin /\ Leave(p) /\ UNCHANGED served
        /\ UNCHANGED <<shared, edits, reviewed, approved, refused, slip>>

-----------------------------------------------------------------------------
(* The rest of the world                                                   *)

\* Any process dies anywhere.  After a grant, the answers it owed are lost.
Die(p) ==
    /\ pc[p] # "idle"
    /\ Leave(p)
    /\ slip' = IF \E i \in Items : pc[p] = "decide" /\ work[p].answers[i] \in {"keep", "block"}
               THEN slip \cup {"answer"} ELSE slip
    /\ UNCHANGED <<shared, edits, reviewed, approved, refused, served>>

\* An editor, a git pull, a lock --write, a lib sync.
EditFiles(new) ==
    /\ MayEdit
    /\ new # files
    /\ edits' = edits + 1
    /\ files' = new
    /\ UNCHANGED <<live, entry, surface, previewed, pc, work, commands, history>>

EditSkill(i, c) ==
    /\ MayEdit
    /\ c # live[i]
    /\ edits' = edits + 1
    /\ live' = [live EXCEPT ![i] = c]
    /\ UNCHANGED <<files, entry, surface, previewed, pc, work, commands, history>>

Edit ==
    \/ \E l \in Layers, text \in Text : EditFiles([files EXCEPT !.layers[l] = text])
    \/ \E i \in Items, c \in Contents \cup {Unpinned} : EditFiles([files EXCEPT !.lock[i] = c])
    \/ \E i \in Items, c \in Contents : EditSkill(i, c)

Carry(p) ==
    \/ \E l \in Layers, new \in Text : ReadLayer(p, l, new)
    \/ Capture(p) \/ CheckCaptured(p) \/ WriteLayer(p) \/ AcrossWrite(p)

Review(p) ==
    \/ \E consented \in {None} \cup previewed : BeginReview(p, consented)
    \/ Show(p) \/ Answer(p) \/ Bail(p) \/ Patch(p) \/ Reread(p) \/ VerifyConsent(p) \/ Grant(p)
    \/ \E i \in Items : Decide(p, i)

LoadSkill(p) ==
    \/ \E i \in Items : Note(p, i)
    \/ LoadLock(p) \/ Ask(p) \/ ServePinned(p)

Next ==
    \/ \E p \in Carriers : Carry(p)
    \/ \E p \in Reviewers : Review(p)
    \/ \E p \in Loaders : LoadSkill(p)
    \/ \E p \in Procs : Die(p)
    \/ Preview \/ Revoke \/ Edit

Spec == Init /\ [][Next]_vars

-----------------------------------------------------------------------------
(* Properties                                                              *)

Locations == {"idle", "read", "captured", "checked", "written",
              "show", "shown", "patch", "reread", "grant", "store", "decide",
              "noted", "locked", "asked"}

Work ==
    [layer: Layers \cup {None}, before: Text \cup {None}, after: Text \cup {None},
     carries: BOOLEAN, snap: Snapshot \cup {None}, consented: Snapshot \cup {None},
     prior: Lock \cup {None}, displayed: [Items -> Contents] \cup {None},
     answers: [Items -> {"accept", "keep", "block", None}], digest: Snapshot \cup {None},
     item: Items \cup {None}, lock: Lock \cup {None}, refused: BOOLEAN]

TypeOK ==
    /\ files \in Snapshot
    /\ live \in [Items -> Contents]
    /\ entry \in Trust!Entry \cup {None}
    /\ surface \in Lock \cup {None}
    /\ previewed \subseteq Snapshot
    /\ pc \in [Procs -> Locations]
    /\ work \in [Procs -> Work]
    /\ refused \in [Items -> BOOLEAN]
    /\ slip \subseteq {"carry", "overtaken", "reread", "revoke", "load", "answer"}

\* What the store pins is a surface that a human said yes to since the last
\* revocation, or had read with --preview, at any time: trust --consented grants
\* such a digest also when the trust was revoked in between.  Nothing else
\* outlives a revocation: re-pins authorize nothing, a grant pins what was
\* displayed and accepted.  Three windows are exceptions: a carry captured other bytes than
\* it had read, the lock moved before it was read back, and a revocation that
\* overtakes a process in flight.
TrustedWasReviewed ==
    entry # None /\ slip \cap {"carry", "reread", "revoke"} = {}
      => Surface(entry.digest) \in reviewed

\* A pinned skill reaches an agent only with a content some human said yes to:
\* by the pin of a reviewed lock, or as the approved copy.  The windows: the
\* lock moved before it was read back, the load holds another lock than the
\* store pins, an answer was not yet recorded, a revocation came in between,
\* and a re-pin set the store back to what it pinned before a newer grant.
ServedWasApproved ==
    slip \cap {"reread", "load", "answer", "revoke", "overtaken"} = {}
      => (served # None /\ served.pinned => <<served.item, served.content>> \in approved)

\* A skill whose last answer was "block" reaches no agent, whatever is granted,
\* re-granted or re-pinned later, until a human answers otherwise or revokes.
RefusedIsNotServed ==
    "answer" \notin slip /\ served # None => ~served.refused

\* And the store says so, except between the grant and the record of its answers.
RefusedStaysBlocked ==
    "answer" \notin slip
      => \A i \in Items :
           refused[i] /\ entry # None => entry.answers[i] = Blocked \/ Owed(i)
=============================================================================
