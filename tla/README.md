# AgentStack in TLA+

A verification project for the AgentStack repository: TLA+ modules for the parts of the
program whose correctness depends on order (processes, threads, requests, crashes, retries), TLC
configurations that model-check them on small instances, and theorems that TLAPS proves for
every instance. `PROJECT.json` maps each definition to the source lines it stands for and
lists runs, mutants, findings, hazards and theorems.

AgentStack is a command-line tool. Most of its state is in files under `~/.agentstack` and in
project directories, and most of its concurrency is between *processes* that share those files;
the workflow runner, the execution relay and the MCP server are concurrent inside one process as well.

## 1. Inventory

The last column names the module; a dash means that the part is not modelled (section 5).

| part (source) | state it keeps | operations | what is hard | what makes it correct | module |
|---|---|---|---|---|---|
| Trust store (`crates/trust`) | `trust.json`: one consent digest and standing answers per project; `audit/trust.jsonl`; the sentinel `trust.lock.d` | grant, re-pin, revoke, answer | several processes, death with the lock held, stale sentinels, best-effort log | mutations are serial; nothing revoked comes back; the log lists them in store order; every call returns | `TrustStore` |
| Trust carry and review (`trust_carry.rs`, `commands/trust.rs`, `commands/delivery.rs`) | a captured trust state, the manifest being edited, the answers of a review | capture, write, re-pin; show, ask, grant, answer | an edit or a revocation in between; a death between two locked sections | only what was reviewed is pinned; a refusal holds; only approved bytes are served | `ConsentFlow` |
| Gateway and MCP server (`mcp_server.rs`, `gateway.rs`, `trust_anchor.rs`, `codemode/endpoint.rs`) | the gateway built for a project, its fence and anchor; the toolset lease; the dispatch barrier | call, search, open and close a lease, refresh, build, swap, verify | requests served at once while the lease changes and the user edits, trusts, revokes | a call is served under the lease and the consent it was verified against; nobody waits in a circle | `Gateway` |
| Lease registry (`lease_registry.rs`), run registry (`runs.rs`) | a file per lease, with a lock directory; one file of runs under a mutex of one process | register, unregister, prune; insert, remove, list, kill | dead holders, reused process ids, a guard that other processes do not see | what is told as live is; what is live is told | `Registries` |
| Sessions (`session.rs`), history and undo (`history.rs`), locked launch (`commands/locked.rs`) | `sessions.json`; the ledger with its backups; a sentinel and a parked configuration | start, end, record; record, prune, undo, restore; park, swap, put back | four writers of one file that know nothing of each other; deaths in between | what must come back comes back; a restore gives nobody more than it had | `ProjectFiles` |
| Execution (`execution.rs`, `crates/egress` relay and spool, `crates/runtime`) | connection slots, call budget, bounded queue, networks and containers, run log | admit, refuse, give back; spool, write; create, run, tear down | concurrent refusals, overload, failure at any step, destructor order | budgets are exact; accepted events are written; the log is closed once; nothing stays behind; it returns | `Execution` |
| Workflow engine (`crates/workflow`) | promises, resolvers, spawn count | `step(results)` | a ceiling across batches and refusals; failures that leave promises open | every answer goes to the call that asked, and no call is granted beyond the ceiling | `WorkflowEngine` |
| Workflow drive loop (`commands/workflow.rs`) | the run's event log, children in flight, results, deadline | begin, resume, step, announce, collect, drain, end | a watchdog and a pool beside the loop; failing appends; deadline against completion | announced before launched, one outcome per step, and every session ends | `WorkflowDrive` |
| Workflow replay (`commands/workflow_replay.rs`) | the journal's step index | load, align, feed, refuse | a process that died anywhere; outcomes out of request order | settled steps do not rerun; a refusal leaves the journal alone; what was journaled whole resumes | `WorkflowDrive` |
| Worker pool (`Dispatch`, `PoolGuard`) | queue, condition variable, flag, project lock | enqueue, take, run, report, shut down | lost wake-ups, exclusive children, shutdown against sleep | queue order; swaps run alone; every child reports; the pool retires | `WorkflowPool` |
| CONNECT proxy (`egress/proxy.rs`) | a connection | decide, tunnel | – | each connection is decided by itself | – |
| Policy (`crates/policy`) | none | compile, decide | precedence of rules | the decision is the most specific rule's | – |
| Manifest, adapters, rendering (`crates/core`, `crates/adapters`) | none but the files written | parse, render | formats | round trips | – |
| Command line, doctor, reports | none | parse, print | – | – | – |

How they interact. Every command that serves or launches something reads the trust store; only a review and a
carry write it. The MCP server builds its gateway behind the trust store, records its lease in the registry, and hands skills out
by the standing answers of the review. A code-mode execution reaches the same gateway through the relay.
A workflow run pins a script, freezes a grant and drives the engine; the engine asks for children; the loop
announces each in the log, then queues it; a worker of the pool runs the child as a complete
locked launch of its own (trust, lock, grant again) and reports over a channel; the loop records the outcome
and feeds it to the engine. The event log is a file, so a later process can replay it. The watchdog is
a thread of the same process that shares nothing with the loop but the log and the exit. A locked launch, a session, an
apply and an undo all write the same harness configuration of a project, and meet nowhere but in that file.

## 2. Modules

| module | models | role |
|---|---|---|
| `TrustEntries` | what one mutation does to one entry, and the line it logs | data, shared by the next two and by `ConsentFlow` |
| `TrustLedger` | the store as callers see it: atomic mutations, a log in order | abstract specification |
| `TrustStore` | `with_store_lock` and the closures under it, one file-system operation per step | implements `TrustLedger` |
| `ConsentFlow` | review, carry and skill load over one project's files and its trust entry | relies on the mutations being atomic, which `TrustLedger` states |
| `Gateway` | one MCP connection bound to a project, and the code-mode endpoint beside it | |
| `Registries` | lease files and run file over one table of process ids | two registries, one environment |
| `ProjectFiles` | apply, session, undo, restore and locked run on one configuration per project | four parts composed over the file they share |
| `Execution` | one `tools_execute` run with relay, spool and container topology | three parts composed by the main thread that owns them |
| `WorkflowEngine` | `WorkflowRun::step` with the `agent()` bridge and the prelude's helpers | a function, used by the next |
| `WorkflowPromise` | what a run's log promises its reader over all sessions | abstract specification |
| `WorkflowDrive` | drive loop, evidence, replay, watchdog, crashes | implements `WorkflowPromise` |
| `WorkflowChildren` | what the loop counts on from its pool | abstract specification |
| `WorkflowPool` | queue mutex, condition variable, flag, project lock, workers, `PoolGuard` | implements `WorkflowChildren` |
| `*_proofs` | | theorems (section 4) |
| `MC*` | constants and symmetry | instances for TLC |

Many properties below name *windows*: places where the code reads something, is overtaken, and acts on what it read. The
model records in a history variable (`slip`, `cause`, `lapsed`, `overtaken`, `torn`) that a step fell into one, and the property excepts exactly
those. A window is part of the result: each is a real interleaving, or a real failure, of the code, and without its exception the property is false:
TLC finds it violated, within the run's bounds or, for those named in section 3, with more commands than the run has.

### Trust store

`store`, `lockDir` and `log` are the three files. A process is idle or inside one call of
`with_store_lock`; `pc` says at which operation: `create_dir`, `metadata`, `remove_dir` of a stale sentinel, load,
save, append of the mutation line, `remove_dir` on drop. `mem` is its loaded map. Between any two operations
another process runs, or this one dies: destructors do not run, the sentinel stays. `save` replaces the file by
one rename (`core/util/atomic.rs`), so it happens or fails as a whole. A sentinel is `stale` when older than 30 s. The model lets
one age only when nobody is inside the closure (`Age`): the code relies on a healthy writer finishing in milliseconds.

Two facts about the environment are chosen per behaviour (`env`): whether it lasts long enough for an abandoned sentinel to
grow stale, and whether `remove_dir` may fail. The configuration takes the two separately. With both, a
waiter that sees a stale sentinel it cannot remove retries without looking at its deadline (the
`continue` at `trust/src/lib.rs:633` comes before the check), so the call would not return.

### Consent

`ConsentFlow` has three kinds of process on one project. A *review* (`grant_probed`) takes a snapshot, shows it, asks about items
whose content drifted from the lock, patches the lock for the accepted ones, reads it back, grants, and records the standing answers
one by one. A *carry* (`trust_carry.rs` and its callers) reads a manifest layer, captures whether the project is trusted, writes
its edit, and re-pins if the capture said so. A *load* (`agentstack_load`) checks trust, reads the lock, asks for the standing answer, and
serves. Each read or write of a file or of the store is a step; edits, revocations and deaths happen between any two.

A revocation removes the entry and nothing else (`Revoke`). The digests somebody read with `--preview` (`previewed`) stay good: `trust --consented` of one grants again after a revocation.

A consent digest is the snapshot it is computed from, taken in one step: the code reads its few files back to back and the model does
not split that. Of a layer the model keeps what it declares and what it merely prefers, because a carry is allowed to change the second and not the first.
Instructions and package members take the same path as skills and are not modelled again. `use_profile` delivery of skills to a harness is left out.

### Gateway

`Gateway` is one connection of the MCP server with a project bound to it by trust, and the requests it serves at once. The locks are
those of the code: the dispatch barrier (`readers`, `writer`), shared by calls to upstream servers and held alone by all else; the
project's mutex (`owner`) inside it. The user edits, trusts and revokes in another process, so each read of the disk
or of the store is a step of its own: the digest and the store in `refresh_trust` (`ReadDigest`, `Check`), the manifest, the digest, the store and the
lock in `Gateway::build` (`LoadManifest`, `ReadAnchor`, `CheckAnchor`, `InstallBuilt`), the bytes and the store in `TrustAnchor::verify`.

`at` is the place of a request, `phase` what the refresh it is in is for: synchronizing a modern client with the default toolset, opening the default
lease, taking a snapshot, or one of three rebuilds after a change of lease. A `project` is what `AutoProject` holds; a gateway is the manifest
its servers come from, the lock they were checked against, the consent it verifies and the toolset that fences it. An edit by the user replaces manifest
and lock together, since a digest covers both.
`tools/list` behaves as a search without its last rebuild. Whether a native session is active, which refuses a lease, is a choice at each opening. A
modern client has no lease tools: the server refuses them to it before anything else. A script takes the endpoint's address
once and goes on using that gateway.
Left out: eager mode, an explicit `--manifest-dir`, the fence of an ambient session, frozen gateways, the clients of upstream servers with their slot mutex,
tool policy, the tools cache and the `tools_changed` flag.

### Registries

`os` is the table of process ids, which come back with a new start time. A lease record names both; a run record names the pid only.
`leases` is the directory, `lockDir` its lock with the same stale break as the trust store's; `held` is the lease a server has in memory. For runs, a launcher's
threads load, change and save the one file under their process's mutex; `report runs` and `kill` are other processes that load,
prune and save without it. `kill` signals, waits its grace period, signals again and saves what it loaded before.

### Project files

One configuration file per project and four writers. `apply` writes and then records what was there; a session does the same with an entry of its own and
a pointer; `undo` rolls back its selection newest first, after recording itself; `restore` does one entry; a locked run claims a sentinel, parks the original,
swaps in a gateway-only body, and puts the original back if the body is still there. `slip` collects the windows.

Every write may fail where it stands. An activation may fail before or after its first file (`Abort`); a ledger entry of `apply`, `use` or a session is best effort, that of an undo is not (`RecordUndo`);
`sessions.json` is written in place, so the write may fail or leave the file cut short, which the next reader takes for an empty map (`SaveMap`); an entry may be gone, its file not writable, or the entry itself not
writable afterwards (`EntryGone`, `RollbackFails`, `MarkFails`): a revert and a restore end with that error, and a session's end goes on to drop its pointer (`NotRestored`). A configuration itself is replaced by a rename and never torn. Materialized skills
and the active toolsets that a session also records are left out: they follow the file.

### Execution

`execute_plan` from `begin` to `returned`, with a failure possible at each setup step and the destructors that then run in reverse order of declaration.
An error return after the guest's run leaves without further writes to the log than the closing one; the `ExecutionLimitHit` line is not modelled. Three subtleties of
the code are kept: connections that had been accepted may take calls after the count for the report was read (outcome `overcount`: a refused
request is counted for an instant); the follower may still hand lines over after the closing record is written; and an error in the teardown leaves the internal network.

### Workflow

A script is abstracted to the order of its calls: which calls wait for which (`after`), what the
root promise awaits, what a refused call turns into (`null` in `parallel`, a dropped item in `pipeline`,
a rejection where it is awaited bare). A request is the call with the results its prompt is built from, so two requests
are equal exactly when their digests would be. A result is the number of the session whose child produced it, or `Null`.

`WorkflowDrive` has one action per place where the loop does something visible. `pc`:

- `append` — evidence about to be written, event by event (`todo`); children join the queue behind the last announcement
  of their batch, as the code does, and not before;
- `step` — the engine runs; `StepEngine` has one disjunct per branch of the loop's `match`;
- `collect`, `await` — `collect_completions` with one, all or no completions to block for;
- `drain` — `drain_outstanding`; `join` — `PoolGuard`'s drop.

`Resume` loads the journal, gates it (`Resumable`) and replays it batch by batch (`BatchReplayed`, `BatchRefused`).
The watchdog times out, records its outcome beside the running loop, and exits; a crash may come at any step.
Sessions follow one another: the command documents that a resume assumes the first session is dead.
At the join the pool either hears of its retirement (`Exit`) or a worker that has nothing to do misses it (`NotificationMissed`) and the loop is `stuck` in the join, with what is still queued running on; then only the watchdog ends the process.

`WorkflowPool` refines the single `StartChild`/`FinishChild` of `WorkflowDrive` into lock operations. A condition
variable's wait releases the mutex and sleeps in one step, which orders it with those who hold the mutex and nobody
else: `PoolGuard` stores its flag and notifies without it.

## 3. Runs

Every property has a mutant in `PROJECT.json`: a plausible bug in one definition with which TLC finds that property violated.

**`trust_store`** (passes). Two processes, three calls, one death, two projects, two digests, one item.
- `OneWriter`: from load to release nobody else is in the closure.
- `LogReplaysToStore`: if no line was lost, the last line about a project says what is pinned for it, and a project without a line has no pin: replaying the mutation log gives exactly the pinned digests.
- `ImplementsLedger`: the locked file store is the atomic ledger. Every save writes the *whole* map, so this fails as soon
  as one process saves an old copy of another's project.
- `EveryCallReturns`: whoever dies with the lock, each call of a live process gets the lock or gives up.

Two processes and one death give every pair of interleavings of two closures plus a dead holder; three calls allow
grant, revoke, grant on one entry while another call changes the other.

**`trust_stale`** (violation of `NoResurrection`: an entry appears only by a grant of that very project). Three processes. One dies with the lock; the two others both see the
sentinel stale; the first removes it and takes the lock; the second's `remove_dir` then removes the *new* sentinel. Two
closures overlap, and a revoked entry comes back. Two processes are not enough for this (the passing run includes
aging), which is why it has a run of its own.

**`consent_flow`** (passes). One process of each kind, one manifest layer with two declarations and two preferences, a skill of the project and one of the
library with two contents each, two edits by others, three commands, deaths.
- `TrustedWasReviewed`: what the store pins is a surface some human said yes to since the last revocation, or had read with `--preview` at any time: such a digest is granted after a revocation too. Windows: a carry captured other bytes than it had read
  (`carry`), the lock moved before a review read it back (`reread`), a revocation overtook a process in flight (`revoke`).
- `ServedWasApproved`: a pinned skill is served only with an approved content. Further windows: the load holds another lock than the store pins (`load`), an answer was
  not yet recorded (`answer`), an older re-pin was saved over a newer grant (`overtaken`).
- `RefusedIsNotServed`, `RefusedStaysBlocked`: a refusal holds across grants and re-pins until a human answers otherwise or revokes, but for the time between
  a grant and the record of its answers, and for a process that dies in that time (`answer`).

Three commands are a review, a carry and a load in any order, or two reviews and a load: every pair the windows are about. `overtaken` needs a
fourth (a trace with it exists at four); the theorem of section 4 covers every bound.

**`gateway`** (passes). Three requests, a manifest with two toolsets and a default beside one that declares none, two changes by the user, a trust store that at first names these bytes, others or none; requests are symmetric.
- `CallKeepsItsAuthority`: when a call is forwarded, the consent its gateway verifies held at an instant after the call was dispatched; unless the build was `torn`, the manifest
  and the lock are those the consent is about; and the gateway's fence is the toolset leased now. Two windows for the last part: a rebuild for a lease
  that finds no trust keeps the old fence (`lapsed`), and a default lease opens on the shared side of the barrier (`overtaken`).
- `TrustIsFollowed`: when nothing changed since a request read the trust, it gets a gateway of the trusted bytes, or the empty one where fence or trust ask for it.
- `NobodyIsWedged`: while a request is under way, some request waits for nobody (`CanGo`), and its step is enabled. A request has no loop, so each returns if the locks are granted to somebody; the
  standard library's `RwLock` promises no order among waiters, so nothing stronger is claimed.

Three requests are two calls and one that changes the lease between them. Two changes are an edit and a new grant (a refresh in between withdraws the gateway as a revocation would, and it comes back anchored to other bytes than it was fenced for), or an edit and its reversal around a read. Each of the
exceptions of `CallKeepsItsAuthority` (`lapsed`, `overtaken`, `torn`, scripts) is needed within these bounds: without it the run finds a violation. The theorems of section 4 cover any number of changes.

**`registries`** (passes). Two process ids, three births (so that an id comes back), one launcher with two threads, one process that lists and kills, three operations.
- `LeasesAreTold`: a record that reads live belongs to a lease that is open, opening or closing, and an open recorded lease has its record. Exception: `forgotten`, leases
  replaced by another, or closed while the registry could not be locked.
- `RunsAreTold`: threads of one process lose no record of each other, and no record outlives the wait for its harness. Windows: another process between load and save
  (`overlapped`), a save that failed (`unsaved`), a launcher that died (`orphaned`).

**`project_files`** (passes). Two processes, two projects, a ledger of three entries, three commands, of which one may be an edit by hand, deaths.
- `ActiveHasPointer`: a session in effect is named by `sessions.json`, or its start is still at work, also where two sessions start at once or one has no entry of its own. Windows: a stale map saved over it (`map`); a start that died,
  or failed, with its toolset in effect (`halted`); `sessions.json` cut short (`torn`); an end whose undo failed and that dropped the pointer all the same (`unrestored`).
- `EndRestores`: a session's end puts back what was there before. Windows: its entry was never recorded, is gone or could not be rolled back (`unrestored`) or was undone by others (`undone`); two starts (`twice`); an edit between snapshot and activation (`overtaken`); a stale map that brought back the pointer of an earlier session
  (`map`), whose entry an earlier end had rolled back and could not mark (`unmarked`) or whose pointer was lost while that end was at work (`torn`).
- `RevertReachesThePoint`: an undo of several entries ends at the content before the chosen change. Windows: another process undid one of them (`undone`); it was stopped before its last entry was marked (`stopped`): by a file or an entry that could not be written, by an entry that was pruned, for the
  undo's own record takes a place in the ledger, or by a death.
- `RestoreWidensNobody`: putting one run's original back never takes the gateway-only body from another live locked run.
- `OriginalIsKept`: while a gateway-only body is on disk, what it replaced is in the run's directory. Windows: the file moved between reading and
  writing, a body was taken for an original.

A ledger of three holds a revert of two and its own entry, and not a revert of three: both sides of the limit. Within three commands the run needs all four windows of `ActiveHasPointer`, `unrestored`, `twice` and `overtaken` of `EndRestores`, and both windows of the two properties that have two. The other
windows of `EndRestores` came out of the proof (section 4), which holds for any number of commands; without its exception each is violated by a longer run: `undone` with four commands, `unmarked` and `torn` with five, `map` with six and a third process.

**`execution`** (passes). Three connections for two slots, two requests for a budget of one, two log lines into a spool of one.
- `BudgetHolds`: at most `max_calls` calls reach the gateway, a call is refused only when all were granted, no charge is lost.
- `SlotsAccounted`: every slot is held by a live connection, and at most `MAX_CONNECTIONS` are served.
- `AcceptedAreWritten`: what the spool accepted is written in order, all of it before the return.
- `ClosesTheRun`: the log is opened first and closed exactly once on every exit.
- `NothingLeftBehind`: containers and networks remain only for one of the named causes (a removal that failed, a sidecar started and then not connected, a guest that could not be removed, an error in the teardown).
- `Returns`: no destructor waits for something a later one frees.

**`workflow_drive`** (passes). Six scripts (waves, a pipeline, a chain whose last call is refused at the ceiling, a call
nobody awaits, an undeclared role, a stalled root) over two items and two stages; two sessions; failing appends; children that
complete or fail in any order; the deadline, the watchdog and a crash at any step.
- `ChildrenAreAccounted`: the count the loop blocks on equals the children it can still hear from (`OutstandingIsExact`); a running child has been announced,
  with the request it really was, in this session, and none runs while its batch is still being announced (`AnnouncedBeforeLaunch`); none of the outcomes the code calls an engine defect is recorded (`NoBreach`).
- `ScriptSawTheLog`: what a script was given for a call is what the log records for it, across resumes.
- `RefusalsAreClean`: a refused resume leaves the journal as it found it (the watchdog may still add its line), and a journal whose batches did not overlap is refused only if a session died between two announcements of a batch.
- `KeepsPromise`: refinement of `WorkflowPromise`: announced before settled, settled at most once and never announced again, and nothing owed by a run recorded done or failed.
- `SessionEnds`: every session ends if its children do and its pool retires. The second is not granted: `workflow_pool_retire` shows that the notification may be missed, and then the session is left in the join with every child done. It still ends if the watchdog is
  running; what can hang is a session that has retired its watchdog, which it does once its outcome is in the log or its engine has failed.

Bounds: `Ceiling = 3` with four calls makes the refusal happen; `MaxConcurrent = 2` with three children in flight makes the queue
matter; `ResidentCap = 2` counts results in place of bytes and is exceeded by the third; two sessions are one interruption and one resume, after which the
journal is of the same kind as before.

**`workflow_resume`** (violation of `WholeBatchesResume`). A pipeline starts a second stage while the first is
still out. Interrupted at that moment, its journal holds an unsettled step followed by later announcements; replay, which
works batch by batch, refuses it as torn or doctored. So a run whose every batch was recorded whole may be impossible to resume.

**`workflow_wedge`** (violation of `SessionEnds`, under `HangSpec`). On an engine failure the loop retires the watchdog and *then* waits for its
children. One child that hangs now keeps the process for ever.

**`workflow_pool`** (passes). Three workers, four children, two of them exclusive. `SwapAlone`, `ImplementsChildren` and `EveryChildReports`: three workers
allow one to be asleep, one to hold the mutex and one to hold the project; four children allow two of each kind to wait behind each other.

**`workflow_pool_retire`** (violation of `PoolRetires`). A worker has read the flag as unset and is about to wait; the flag is stored and
all waiters are notified; the worker then sleeps and the join never returns. Two workers and one child suffice.

Deadlock checking is off everywhere: a store with no more calls to make, a finished run, an answered connection and a retired pool may stop. Where a circle of waiting is what could go
wrong, a property says so (`NobodyIsWedged`, `Returns`, `SessionEnds`, `EveryChildReports`).

### Fairness

- `TrustStore`: a process inside `with_store_lock` keeps taking its steps, and its clock goes on (`Deadline`). Nothing obliges a call to begin, a process
  to die or a sentinel to age.
- `Execution`: the main thread is scheduled; an aborted task is dropped by the runtime; the writer thread takes lines and ends when the last sender is gone. Nothing is said of connections,
  the sidecar's log or the guest beyond what the main thread itself waits for with a time limit.
- `WorkflowDrive`: the drive thread is scheduled whenever it is not blocked, a free worker takes a queued child, the clock passes the deadline and the
  watchdog thread runs. No fairness for `Begin`, `Resume` or `Crash`. `HangSpec` says nothing of children (a child is a coding agent and may run for ever);
  `FairSpec` adds that each comes back. Weak fairness of the drive thread is written with `Unblocked`, which is its
  enabling condition spelled out, because evaluating `ENABLED` of an engine step is far too slow.
- `WorkflowPool`: drive thread and workers are scheduled; no fairness for queuing another child, for leaving, nor for spurious wake-ups.
- The other modules state safety only and assume no fairness.

## 4. Theorems

All for arbitrary constants: any number of processes, projects, connections, workers or children, and any bound.

`TrustStore_proofs`

- `TypeCorrect` — `Spec => []TypeOK`. Inductive: `TypeOK` and `Busy`, which ties a process's place to what it holds (a mutation while inside the lock, a line while recording, nothing to write unless `Writes`).
- `MutualExclusion` — `OneWriter`, under the hypothesis `NoStaleSentinel`: where sentinels may grow stale, no process dies and no removal fails. The run `trust_stale` shows that without the hypothesis the statement is false.
  Inductive: `Sentinel` (inside the closure means the sentinel stands and is fresh), `OneWriter`, and `LoadedIsCurrent` (at the save, the loaded map is still the stored one).
  Mutual exclusion alone is not inductive: it needs that nobody is about to break a sentinel.
- `StoreIsLedger` — `ImplementsLedger`, same hypothesis. `Save` maps to `Mutate`, for which `LoadedIsCurrent` is exactly what is needed; `RecordMutation` and a death while recording map to `Record` and `Lose`; every other step stutters.
- `RevokedStaysRevoked` — `NoResurrection`, from the same invariant: a save differs from the store in its own project only.
- `LogTheorem` — `LogReplaysToStore`, same hypothesis, for a log of any length. Inductive: `ReplayInv`: what the log's last line about a project says is what is pinned, but for the one project whose process has saved and not yet appended its line
  (`OneWriter` makes it one). It is stated by last lines and not as a fold over the log, so that appending a line is a step of logic and not an induction over data.

`ConsentFlow_proofs`

- `TypesTheorem` — `TypeOK`. Inductive: `TypeInv`, which adds `Holding`: what a review, a carry and a load hold at each place is there and fits the place.
- `ReviewTheorem` — `TrustedWasReviewed`, for any number of reviews, carries and loads at once. Inductive: `ReviewInv`, which adds `InFlightWasReviewed`: a captured snapshot that is
  going to be re-pinned has a reviewed surface, and so has the digest on its way to a grant.
- `RefusalTheorem`, `BlockedTheorem` — `RefusedIsNotServed` and `RefusedStaysBlocked`, under `OneReviewer`: there is at most one review. Inductive: `RefusalInv`, which adds `Heeds`: the answers on their way to the store
  are those the grant was made with, and a load goes on only without a refusal.
- `ApprovalTheorem` — `ServedWasApproved`, under `OneReviewer`. Inductive: `ApprovalInv`, which adds that every pin of the store (`StoreApproved`) and of what a process holds (`Approves`) was approved.

`OneReviewer` is needed: with two reviews of one project at once the answers of one are recorded after the grant of the other, and a refusal disappears (twelve states suffice). A review is an
interactive command, and nothing in the code keeps two from running.

`Execution_proofs`

- `BudgetTheorem`, `SlotsTheorem` — `BudgetHolds` and `SlotsAccounted`, for any number of connections, any budget and any number of slots. Inductive: `RelayInv`: the counter is what was granted plus what is
  about to be given back, an open refusal means a spent budget, and slots are counted over the live connections. It counts sets of connections, so the lemma
  `Moved` says how moving one connection changes a count.
- `CleanupTheorem` — `NothingLeftBehind`. Inductive: `DaemonInv`, which says at each place of `execute_plan` what exists with the daemon and which destructor owns it.
- `ClosingTheorem` — `ClosesTheRun`. Inductive: `LogInv`: not closed before the report, at most one closing record, and closed in time at every exit.
- `DeliveryTheorem` — `AcceptedAreWritten`, for any number of lines, any capacity of the spool and any point at which the run fails. Inductive: `LinesInv`: the lines in the log followed by those in the channel are an initial segment of what was accepted, without a gap, and the
  channel stays open as long as somebody holds a sender; the writer's join, which comes last, therefore finds it empty.
- `JoinTheorem` — `JoinIsServed`: when the spool's destructor joins the writer, no sender is left but that of a follower already aborted, so the join waits for nothing a later destructor frees. The safety half of `Returns`. Inductive: `Handed`, which says at each place of the main thread who still holds a sender.
- `TypesTheorem` — `TypeOK`, from `DaemonInv`, `RelayInv` and `LinesInv` together, and from what no other invariant says: the places of the threads (`Places`) and the bound on the lines (`Numbered`).

`Registries_proofs`

- `LeasesTheorem` — `LeasesAreTold`, for any number of servers, crashes and reused pids. Inductive: `LeaseInv`. An instance is made up once (`Instances`), so that nobody else's call removes a record; a record of an
  open lease names its process's start time or none (`Written`), so that pruning never judges it stale; a record of a dead process has a start time nobody gets again. The lock plays no part: no step under it relies on being alone.
- `RunsTheorem` — `RunsAreTold`, for any number of launchers, threads and commands. Inductive: `RunInv`. As long as nothing slipped, what a thread has loaded is what is there (`Loaded`), and what a command has loaded is too, but for records of the dead (`Known`):
  a save that finds anybody else between load and save is itself the slip. A harness has its pid until its thread has waited for it (`Harnessed`), so pid and start time agree.
- `TypesTheorem` — `TypeOK`, from both.

`ProjectFiles_proofs`

- `OriginalTheorem` — `OriginalIsKept`. Inductive: `Untaken`: as long as nobody read while a gateway-only body stood, nothing that any command or the ledger holds as an original is one (`Taken`), the body of a live run is where
  that run put it and nowhere once it has put the original back (`Bodied`), and what a body replaced is in its run's directory.
- `RestoreTheorem` — `RestoreWidensNobody`, from `Guarded` (the sentinel holds the number of the run that is alive) and `RunsDiffer`.
- `PointerTheorem` — `ActiveHasPointer`. Inductive: `Numbered` (an entry is made once, and known to its session only until its pointer is saved), `Ended` (an end that has rolled its session back had an entry, and does not meet the
  toolset in effect again under it, unless another start is at work) and `Covered`, the property itself. Without `Numbered` an end could take the pointer of the next session for its own; with 0 for "no entry" it holds in every state, and an end whose session has none never gets as far as `Ended`.
- `EndTheorem` — `EndRestores`. Inductive: `Numbered`, `Tidy` (one session in a project, and no pointer before it has saved its own; two starts at once are its window) and `Pointed`: what may still be rolled back under the entry a pointer names is what was there before the session in effect, and an end that is still to roll back either finds
  its entry gone or undone, or is about the session that is in effect. A rollback that fails (`Unrestored`) is excused by its window at that step; everything after it, with the toolset still in effect and no pointer to it, is inside the windows.

- `RevertTheorem` — `RevertReachesThePoint`. Inductive: `UndoInv`, which adds `Recorded` (an entry's number says one content for ever, in the ledger and in the hands of whoever is about to mark it: a new entry has a new number, and marking, or failing to mark, changes nothing else) and `Aimed`
  (the last entry an undo has before it is the chosen one, and what the ledger says of that number is what the undo aims at). That a selection ends with the chosen change is a lemma on finite sets (`DescentExists`, `DescentEnds`).
- `TypesTheorem` — `TypeOK`, from the same invariant.

All six hold for any number of processes, projects, commands and ledger entries; the run needs a bound on each.

`Gateway_proofs`

- `TypesTheorem` — `TypeOK`. Inductive with `Locked`: where a request stands says which locks it has (`Standing`).
- `AuthorityTheorem` — `CallKeepsItsAuthority`. Inductive for the consent: `Builds` and `Sound` (a gateway that was built while nothing changed has the bytes it was anchored to) and `Verifies` (where the store now names the anchor of a
  call that is past its bytes, the consent has held since the dispatch: trust is only ever given to the bytes on disk). Inductive for the lease: `Fenced`. Whoever changed the lease owes a rebuild (`Owes`), and the barrier or the mutex keeps everybody
  else out until it is paid; when nobody owes and no rebuild lapsed, the fence is the lease. A default lease opened on the shared side leaves behind exactly the calls that are marked `overtaken` (`Overtakes`), and the next rebuild may end a lapse without them.
- `WedgeTheorem` — `SomebodyCanGo`, the half of `NobodyIsWedged` that does not speak of `ENABLED`: while a request is under way, one of them waits neither for the barrier nor for the mutex. From `Locked`: whoever has the mutex has the barrier, and whoever has either has nothing left to wait for but the mutex.
- `ReturnTheorem` — `OnlyForward`: a request only ever moves forward through the places of its handler. So it takes a bounded number of steps, and with `WedgeTheorem` all requests return if somebody who can go does.
- `FollowTheorem` — `TrustIsFollowed`. Inductive: `Reads`, `Follows` and `Held`: what a request read stays true as long as nothing changed, and a gateway that is empty and anchored is of a manifest that declares toolsets.

They hold for any number of requests, manifests and toolsets and any number of changes by the user; the run has three requests, two manifests, two toolsets and two changes.

`WorkflowPool_proofs`

- `TypeCorrect` — the types, together with `Holding`: a worker has a child exactly between its look at the queue and its report.
- `SwapsRunAlone` — `SwapAlone`. Inductive: `ProjectLock`, which says who holds the project lock and in which way; the property itself says nothing of the lock.
- `PoolImplementsChildren` — `ImplementsChildren`. Inductive: `OnePlace`, a child is queued once, with one worker, or reported. `SlotFree` counts: a worker without a child leaves fewer children taken than there are workers, so a take is a `Start` of the abstract pool.
- `WakeTheorem` — `NobodyOversleeps`: while the pool is not shut down and a worker sleeps, there are no more children queued than workers on their way to the queue and notifications due. A push notifies one worker after it has let go of the mutex, so between the two a child has nobody; the count says that nobody is forgotten.
- `WorkTheorem` — `PoolCanGo`: while a child is queued or taken, some worker can go on or is about to be told. The safety half of `EveryChildReports`; the shutdown, where the run `workflow_pool_retire` shows a lost wake-up, is outside `NobodyOversleeps`.

`WorkflowDrive_proofs`, for every script the parameters allow, any number of items, stages, sessions and workers, any ceiling and any cap on resident results

- `Invariant` — the inductive invariant `DriveInv`. Its parts, and what each is for:
  - `Sane`: what the engine is between two steps. An issued id stands for one call, a call was issued once, nothing is settled that was not issued, and the count never passes the ceiling;
  - `Placement` and `Complete`: a request is in one place at a time (about to be announced, held back for its batch, queued, on a worker, reported, about to be fed), the engine awaits it wherever it is, the loop's count is what is out, and while the loop is to go on nothing the engine awaits is nowhere;
  - `Evidence`: what the log says of a request at each of these places. The announcement in it is this session's, and the outcome about to be fed is the one recorded;
  - `Replaying`: while a journal is replayed the pool is quiet, and what the replay holds is what the journal says;
  - `Owing`, `Matched` and `Recorded`: an announced step without an outcome is on its way or held by the replay; every step the replay has let go was granted again, to the call it was recorded for; a call is one step with one outcome at most;
  - `Ends` and `Control`: what each place of the loop and each line about to be written presuppose.
- `TypesHold`, `ChildrenHold`, `ScriptHolds` — `TypeOK`, `ChildrenAreAccounted` and `ScriptSawTheLog`, parts of it or consequences.
- `LockstepHolds` — `LockstepResumes`: a resume of a journal whose batches did not overlap is refused only if a session died between two announcements of a batch. Inductive: `LockInv`. Outcomes come back in any order, and a replay feeds them batch by batch in the order
  of the journal, so it is not obvious that the engine it drives asks for the same things in the same batches. The invariant says so: a journal in lockstep stands for a chain of engines, one per batch (`Chain`), each of which is the one before, fed what the journal recalls (`Recalls`) of what that one awaits.
  - `Replayable`: such a chain explains every batch the journal holds, unless a batch is being announced;
  - `Following`: a session that writes is at the last engine of the chain or between it and the next (`AtBatch`, `AfterBatch`), or can ask for nothing more (`Spent`);
  - `Retracing`: a session that replays is at an engine of the chain, and holds the steps of the later ones;
  - `Exhausted`: a loop that drains holds no step the engine did not ask for.

  That feeding in one go or in several comes to the same engine is `FeedOn`; that a journal recalls one list and no other is `RecallsAgree`; that a replayed batch is never found divergent is `NeverDivergent`. Without `InLockstep` there is no chain, for a batch begins before the outcomes of the last are all recalled: that is what the run `workflow_resume` shows.
- `RefusalHolds`, `RefusalsHold` — `RefusalAppendsNothing`, and with `LockstepHolds` all of `RefusalsAreClean`.
- `FuelTheorem`, `AdvanceTheorem` — `Fuelled` and `StepsAdvance`, the safety half of `SessionEnds`: the loop steps the engine to start it or with results to feed it, and every step of a started engine tells the script of calls it had not heard of, and takes back none. A session therefore
  takes at most one step more than the ceiling has calls; what is left to liveness is that it gets from one to the next. `Fuelled` adds that a wait that is over has received something, which holds because an engine that only awaits has a child out (`Complete`, `Placement`).
- `PromiseKept` — `KeepsPromise`: the drive loop implements `WorkflowPromise`. Each append maps to a step of the promise or a stutter: `ToldIs` says what `Told` makes of a log in which each call is one step with one outcome at most (`WellKept`, which `Recorded` gives before and after the step), an
  announcement then takes a call from silent to announced or leaves it, an outcome from announced to settled, and the line that ends a run recorded done or failed finds nothing announced, by `Owing` and `Concluding`.

The engine is a fold over the calls of the script, and what it grants comes back in an order chosen among all orders of a finite set. The induction this needs cannot be taken from the library, whose theorems have an operator as a parameter; it is by the least element of a set of numbers (`NatMin`, `Induct`),
where the set is the one of the numbers for which the claim holds. `FoldExists` shows with it that a fold over positions is a function that satisfies its own recurrence (`Iterates`), `OrderExists` that an order exists. `ProjectFiles_proofs` uses the same two lemmas.

The assumptions are those the modules name: values that stand for "nothing" are distinct from those they stand beside; the sets of workers and of connections are finite; bounds are natural
numbers and a call budget is positive; `Nobody` is neither worker nor child; a launcher is no command.

Model-checked only: liveness under fairness (`EveryCallReturns`, `SessionEnds`, `EveryChildReports`, `Returns`) and the half of `NobodyIsWedged` that says that a request that waits for nobody has a step: TLAPS reaches neither fairness nor `ENABLED`. The safety halves of these are proved:
`WedgeTheorem` and `ReturnTheorem`, `AdvanceTheorem`, `WakeTheorem` and `WorkTheorem`, `JoinTheorem`; `EveryCallReturns` has none, for a call's retries are bounded by the clock alone. Every other invariant and action property of the passing runs is proved.

## 5. Not modelled

Whole parts:

- Policy, manifest, adapters, rendering, command line, doctor and reports: parsing, formatting and pure decisions, with no state but the files written. They are most of the repository's lines, and the reason why the map
  covers a small share of them: nothing in them depends on order. The rules of the policy could be an operator checked against a reference definition.
- The CONNECT proxy: it decides each connection by itself and keeps nothing between two of them.

In the modelled parts:

- Trust store: unreadable or unparsable files (load then yields an empty map; listed as a hazard), the surface's text and time stamps, the creation of the home directory.
- Workflow: admission and grants of children (each child is a launch of its own), identity digests of a resume (equal by construction of the model), the engine's interpreter limits, args, schema validation and taint marks. The journal's file format: an append either happens or fails.
  Two sessions resuming one run at the same time, which the command documents as outside its assumptions.
- Consent, gateway, project files, execution: what section 2 says of each.
- Locked launch: the gates before it are pure decisions over files; launches that inject their configuration touch no shared file. `run --lockdown` starts the topology of `Execution` without its relay.

Met while modelling, and without a run of its own:

- Workflow: the wall-clock and resident-byte exits (`workflow.rs:719`, `742`) leave children in flight that finish inside the pool's join and that nobody records, although the comment at 686-687 says that the loop must never
  exit without recording those steps; the next resume reruns them.
- Trust store: `remove_dir` of a stale sentinel that fails is retried without a look at the deadline (`trust/src/lib.rs:625-633`).
- Review: a revocation takes back no digest that was previewed: `trust --consented` of one from before grants again, as long as the bytes are the same (`lib.rs:468-515`). The lock is read back from the disk at `trust.rs:2931`, under a comment (2926-2930) that says "never from a disk re-read": the window `reread`. Two reviews at once cross their answers. A re-pin of older bytes may be saved over a newer grant.
- Sessions: a start leaves two ledger entries, where `session.rs:432` speaks of one undoable entry; `sessions.json` is loaded, changed and saved whole without a lock, by `record_load` too; two starts in one project at once both take the other's files for the original.
  An end ignores that its undo failed, drops the pointer and reports success with nothing restored (`session.rs:504`, `533`); the toolset stays, and only `undo` can still take it out. A start that fails after the first file was written, in the activation (424-430) or in the save of the pointer (468),
  returns the error with the toolset in effect and no pointer. A `sessions.json` cut short reads as empty (138-143), and the next save makes that final for every project.
- History: an undo of several entries at a full ledger prunes an entry of its own selection and gives up in the middle, and so does one whose next file cannot be written or whose entry cannot be marked (`history.rs:357-361`): the configuration is then at neither of the two contents the user knows; entries that another process undid meanwhile are skipped, so the result may not be the point asked for; the ledger may take the gateway-only body of a locked run for an original.
- Registries: a lease that is replaced, or closed while the registry is locked, keeps its record, which reads live; a `kill` saves the list it loaded before its grace period.
- Execution: `RunLog::append` is best effort in the recorder; the model's lines always arrive, so `AcceptedAreWritten` and `ClosesTheRun` speak of what is handed to it. The setup steps before the relay are one action that may fail, not fourteen: that each is wrapped in `setup!` is visible in the code and not in the model. A sidecar started and then not connected is left behind, although `lockdown.rs:97-98` says that what was created is cleaned up.
- Gateway, lease: a lease that is closed or changed while the project is untrusted leaves the old fence in `profile` (`mcp_server.rs:975-997` returns without setting it); when trust is back, the closed toolset is served with no lease open.
- Gateway, build: the manifest is parsed before the digest is anchored and the lock is read after it (`gateway.rs:453-471`, `574`), so an edit in between serves what the anchor does not name; if trust is withdrawn between the refresh and the build, the gateway has no `trust_gate` and its calls are not verified until the next refresh,
  although `gateway.rs:341-344` says that there is none only where trust never gated; an empty fenced gateway is anchored to the digest read again at its end.
- Gateway, barrier: `mcp_server.rs:428-431` and `438-440` say that no swap of a gateway and no opening of a lease happens on the shared side, but a call's own `snapshot` refreshes, rebuilds and opens the default lease there. A code-mode script goes on using the gateway it was given after the lease is closed, while the note of `lease_open` (1664) says that calls are fenced.
  `tools_changed` is not set when trust empties or rebuilds the surface.

## 6. Plan

Done: the trust store and its ledger; the workflow runner with engine, replay and pool; consent; both registries; sessions, history and locked runs over the files they share; execution; the gateway.

Next, what would add most:

1. The trust store with a file that cannot be read: `load` yields an empty map and the next save drops every other project.
2. The eager gateway with its upstream clients: slot mutex, respawn, and a call verified before it waits for its slot.
3. The policy's compilation as operators, checked against "the most specific rule decides" over bounded rule sets.
