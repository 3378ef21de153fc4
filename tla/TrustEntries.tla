---------------------------- MODULE TrustEntries ----------------------------
(***************************************************************************)
(* What one mutation of the trust store means, entry by entry: the data of *)
(* crates/trust/src/lib.rs with neither files nor processes.  A project's  *)
(* entry pins one consent digest and carries the standing answers a human  *)
(* gave about single items; an absent entry is NoEntry.                    *)
(*                                                                         *)
(* The reviewed surface and the time stamp of an entry are display data    *)
(* that no decision reads; they are left out.                              *)
(***************************************************************************)
EXTENDS Naturals

CONSTANTS
    Projects,      \* canonical project directories: the keys of trust.json
    Digests,       \* consent digests
    Items,         \* items a re-gate question can be about
    Answers,       \* what a human may answer: keep-pinned, blocked
    NoAnswer,      \* no standing answer for an item
    NoEntry,       \* the project has no entry
    NoEvent        \* no line of the mutation log

ASSUME NoEntryAssumption ==
    NoEntry \notin [digest: Digests, answers: [Items -> Answers \cup {NoAnswer}]]

ASSUME NoAnswerAssumption == NoAnswer \notin Answers

Entry == [digest: Digests, answers: [Items -> Answers \cup {NoAnswer}]]

Store == [Projects -> Entry \cup {NoEntry}]

EmptyStore == [p \in Projects |-> NoEntry]

-----------------------------------------------------------------------------
(* The four calls that lead to a write of the store.  trust_reviewed and   *)
(* trust_with_consent both end in store_entry: "grant".                    *)

Call ==
    [kind: {"grant", "repin"}, project: Projects, digest: Digests]
    \cup [kind: {"revoke"}, project: Projects]
    \cup [kind: {"answer"}, project: Projects, item: Items,
          answer: Answers \cup {NoAnswer}]

\* The entry a closure leaves behind when it found `entry`.
Effect(entry, call) ==
    CASE call.kind = "grant" ->
            [digest  |-> call.digest,
             answers |-> IF entry = NoEntry THEN [i \in Items |-> NoAnswer]
                                            ELSE entry.answers]
      [] call.kind = "revoke" -> NoEntry
      [] call.kind = "repin"  ->
            IF entry = NoEntry THEN NoEntry
            ELSE [entry EXCEPT !.digest = call.digest]
      [] call.kind = "answer" ->
            IF entry = NoEntry THEN NoEntry
            ELSE [entry EXCEPT !.answers[call.item] = call.answer]

\* Whether the closure saves at all: a grant always, the others only over an
\* existing entry, an answer only when it changes one.
Writes(entry, call) ==
    \/ call.kind = "grant"
    \/ entry # NoEntry /\ call.kind \in {"repin", "revoke"}
    \/ entry # NoEntry /\ call.kind = "answer" /\ Effect(entry, call) # entry

\* The line record_mutation appends after the save.
TrustMutation ==
    [action: {"grant", "regrant", "repin", "revoke", "decide", "undecide"},
     project: Projects, digest: Digests]

ASSUME NoEventAssumption == NoEvent \notin TrustMutation

\* Mutant: a re-pin logs the digest the entry stood on before it.
EventBeforeRepin(entry, call) ==
    [action  |-> CASE call.kind = "grant"  -> IF entry = NoEntry THEN "grant" ELSE "regrant"
                   [] call.kind = "answer" -> IF call.answer = NoAnswer THEN "undecide" ELSE "decide"
                   [] OTHER                -> call.kind,
     project |-> call.project,
     digest  |-> IF call.kind = "grant" THEN call.digest ELSE entry.digest]

Event(entry, call) ==
    [action  |-> CASE call.kind = "grant"  -> IF entry = NoEntry THEN "grant" ELSE "regrant"
                   [] call.kind = "answer" -> IF call.answer = NoAnswer THEN "undecide" ELSE "decide"
                   [] OTHER                -> call.kind,
     project |-> call.project,
     digest  |-> IF call.kind \in {"grant", "repin"} THEN call.digest ELSE entry.digest]

\* The whole map a closure hands to save.
Applied(map, call) == [map EXCEPT ![call.project] = Effect(@, call)]
=============================================================================
