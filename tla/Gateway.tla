-------------------------------- MODULE Gateway --------------------------------
(***************************************************************************)
(* One connection of the MCP server to a project that is bound to it by    *)
(* trust (mcp_server.rs): the requests it serves at once, the toolset      *)
(* lease, the gateway that is built, emptied and swapped as the lease and  *)
(* the trust of the project change, and the code-mode endpoint that shares *)
(* it (gateway.rs, trust_anchor.rs, codemode/endpoint.rs).                 *)
(*                                                                         *)
(* Three locks: the dispatch barrier (calls to upstream servers share it,  *)
(* everything else takes it alone), the project's mutex inside it, and no  *)
(* lock at all against the user, who edits, trusts and revokes in another  *)
(* process.  So each read of the project or of the trust store is a step.  *)
(***************************************************************************)
EXTENDS Naturals, FiniteSets

CONSTANTS
    Requests,       \* requests of one connection, and calls of a code-mode script
    Digests,        \* what manifest and lock may hold, by the digest trust gives them
    Toolsets,
    Declares,       \* the toolsets a manifest declares
    Default,        \* its resolved default toolset, or None
    None,
    MaxChanges      \* bound: edits, grants and revocations

ASSUME GatewayAssumption ==
    /\ Declares \in [Digests -> SUBSET Toolsets]
    /\ \A d \in Digests : Default[d] \in Declares[d] \cup {None}
    /\ None \notin Requests \cup Digests \cup Toolsets
    /\ MaxChanges \in Nat

VARIABLES
    era,               \* the protocol era of the client: legacy or modern
    files, trusted,    \* the project on disk, the digest the trust store records
    changes,
    readers, writer,   \* DispatchBarrier: who shares it, who has it alone
    owner,             \* who has the project's mutex
    project,           \* AutoProject
    endpoint,          \* the gateway endpoint.json leads to
    lease, decided,    \* the lease's toolset; automatic_lease_decided
    req,               \* each request
    lapsed             \* history: the last rebuild for a lease found no trust

user == <<files, trusted, changes>>
barrier == <<readers, writer>>
vars == <<era, user, barrier, owner, project, endpoint, lease, decided, req, lapsed>>

-----------------------------------------------------------------------------
(* Data                                                                    *)

\* A gateway: the manifest its servers come from, the lock it checked them
\* against, the consent it verifies (trust_gate), the toolset that fences it.
\* History: torn, when the project or its trust changed after the trust was
\* read and before the build was done.
Empty == [def |-> None, pins |-> None, anchor |-> None, fence |-> None, torn |-> FALSE]

\* A fence that names a toolset the manifest has not serves nothing.
Serves(gateway) ==
    /\ gateway.def # None
    /\ gateway.fence # None => gateway.fence \in Declares[gateway.def]

Arriving ==
    [at |-> "new", kind |-> "none", want |-> None, phase |-> "none", digest |-> None,
     fence |-> None, before |-> None, gate |-> Empty, trust |-> FALSE,
     \* history: nothing changed since the trust was read; the consent of the
     \* gateway held since the dispatch; a default lease opened beside this call
     quiet |-> FALSE, held |-> FALSE, overtaken |-> FALSE]

Kinds == {"call", "search", "open", "close", "script"}
\* What a refresh of the trust is for, where it leads to a rebuild anyway.
Rebuilds == {"rebuild", "rebuild-modern", "rebuild-default"}
Building == {"build", "fenced", "load", "anchor", "store", "pins"}

Init ==
    /\ era \in {"legacy", "modern"}
    /\ files \in Digests
    /\ trusted \in Digests \cup {None}
    /\ changes = 0
    /\ readers = {}
    /\ writer = None
    /\ owner = None
    /\ project = [trust |-> FALSE, gateway |-> Empty, anchor |-> None, profile |-> None,
                  built |-> FALSE]
    /\ endpoint = Empty
    /\ lease = None
    /\ decided = FALSE
    /\ req = [r \in Requests |-> Arriving]
    /\ lapsed = FALSE

Consented(digest) == files = digest /\ trusted = digest

At(r, place) == req[r].at = place

-----------------------------------------------------------------------------
(* The user, in other processes: edits, grants, revocations.               *)

Change(newFiles, newTrusted) ==
    /\ changes < MaxChanges
    /\ changes' = changes + 1
    /\ files' = newFiles
    /\ trusted' = newTrusted
    /\ req' = [r \in Requests |->
         [req[r] EXCEPT !.quiet = FALSE,
                        !.gate.torn = @ \/ req[r].at \in Building,
                        !.held = @ \/ (/\ req[r].at \in {"verify", "verify-store"}
                                       /\ newFiles = newTrusted
                                       /\ newFiles = req[r].gate.anchor)]]
    /\ UNCHANGED <<era, barrier, owner, project, endpoint, lease, decided, lapsed>>

Edit == \E d \in Digests \ {files} : Change(d, trusted)
Trust == files # trusted /\ Change(files, files)
Revoke == trusted # None /\ Change(files, None)

-----------------------------------------------------------------------------
(* A request arrives and takes its side of the barrier.                    *)

\* Modern requests first derive the default toolset anew; the lease tools are
\* refused to them before anything else, so they send none.
Arrive(r) ==
    /\ At(r, "new")
    /\ \E kind \in {"call", "search", "open", "close"}, want \in Toolsets \cup {None} :
         /\ (kind = "open") = (want # None)
         /\ era = "modern" => kind \notin {"open", "close"}
         /\ req' = [req EXCEPT ![r].kind = kind, ![r].want = want,
                               ![r].at = IF era = "modern" THEN "sync" ELSE "enter"]
    /\ UNCHANGED <<era, user, barrier, owner, project, endpoint, lease, decided, lapsed>>

\* A script took the address from endpoint.json: its calls go through that
\* gateway for as long as the process lives, past the barrier and the mutex.
ArriveByScript(r) ==
    /\ At(r, "new")
    /\ endpoint # Empty
    /\ req' = [req EXCEPT ![r].kind = "script", ![r].gate = endpoint, ![r].at = "verify",
                          ![r].held = Consented(endpoint.anchor)]
    /\ UNCHANGED <<era, user, barrier, owner, project, endpoint, lease, decided, lapsed>>

\* Mutant: the exclusive side does not wait for the calls in flight.
EnterAloneAtOnce(r) ==
    /\ At(r, "sync") \/ (At(r, "enter") /\ req[r].kind # "call")
    /\ writer = None
    /\ writer' = r
    /\ req' = [req EXCEPT ![r].at = "lock", ![r].before = lease,
                          ![r].phase = IF At(r, "sync") THEN "modern" ELSE "request"]
    /\ UNCHANGED <<era, user, readers, owner, project, endpoint, lease, decided, lapsed>>

\* call_tool and list_tools on the exclusive side, and the synchronization of
\* a modern request; `before` is read before anything can open a lease.
EnterAlone(r) ==
    /\ At(r, "sync") \/ (At(r, "enter") /\ req[r].kind # "call")
    /\ readers = {} /\ writer = None
    /\ writer' = r
    /\ req' = [req EXCEPT ![r].at = "lock", ![r].before = lease,
                          ![r].phase = IF At(r, "sync") THEN "modern" ELSE "request"]
    /\ UNCHANGED <<era, user, readers, owner, project, endpoint, lease, decided, lapsed>>

\* An upstream call shares the barrier with others.
EnterShared(r) ==
    /\ At(r, "enter") /\ req[r].kind = "call"
    /\ writer = None
    /\ readers' = readers \cup {r}
    /\ req' = [req EXCEPT ![r].at = "lock", ![r].phase = "request"]
    /\ UNCHANGED <<era, user, writer, owner, project, endpoint, lease, decided, lapsed>>

\* sync_modern_default, snapshot or rebuild_after_lease take the mutex and
\* first refresh the trust; a request opens the default toolset before that,
\* unless it changes the lease itself, one is open, or the connection has
\* decided.
Lock(r) ==
    /\ At(r, "lock")
    /\ owner = None
    /\ owner' = r
    /\ req' = [req EXCEPT ![r].at = "check", ![r].digest = files, ![r].quiet = TRUE,
                  ![r].phase = IF @ # "request" THEN @
                               ELSE IF \/ req[r].kind \in {"open", "close"}
                                       \/ decided \/ lease # None
                                    THEN "snapshot" ELSE "default"]
    /\ decided' = (decided \/ req[r].phase = "rebuild")
    /\ UNCHANGED <<era, user, barrier, project, endpoint, lease, lapsed>>

\* Mutant: the guard of the synchronization outlives it.
LeaveSyncKeepingGuard(r) ==
    /\ owner' = None
    /\ UNCHANGED writer
    /\ req' = [req EXCEPT ![r].at = "enter", ![r].phase = "none", ![r].fence = None,
                          ![r].before = None, ![r].quiet = FALSE]

\* The guards go out of scope; a modern request then takes its own side.
LeaveSync(r) ==
    /\ owner' = None
    /\ writer' = None
    /\ req' = [req EXCEPT ![r].at = "enter", ![r].phase = "none", ![r].fence = None,
                          ![r].before = None, ![r].quiet = FALSE]

Leave(r) ==
    /\ readers' = readers \ {r}
    /\ writer' = IF writer = r THEN None ELSE writer
    /\ req' = [req EXCEPT ![r] = [Arriving EXCEPT !.at = "done"]]

-----------------------------------------------------------------------------
(* refresh_trust_with: the digest, the store, and what to do about them.   *)

ReadDigest(r) ==
    /\ At(r, "digest")
    /\ req' = [req EXCEPT ![r].digest = files, ![r].at = "check", ![r].quiet = TRUE]
    /\ UNCHANGED <<era, user, barrier, owner, project, endpoint, lease, decided, lapsed>>

\* No trust: nothing is served, and a rebuild for a lease ends here too, with
\* the fence of the gateway before it left in `profile`.
Withdraw(r) ==
    /\ project' = [project EXCEPT !.trust = FALSE, !.gateway = Empty, !.anchor = None,
                                  !.built = TRUE]
    /\ endpoint' = Empty
    /\ req' = [req EXCEPT ![r].at = "next", ![r].digest = None, ![r].fence = None]
    /\ lapsed' = (lapsed \/ req[r].phase \in Rebuilds)

\* Mutant: trust that is back rebuilds nothing, only trust in other bytes does.
RefreshOverAnchor(r) ==
    LET forLease == req[r].phase \in Rebuilds
        stale == project.built /\ project.anchor \notin {None, req[r].digest}
    IN  /\ project' = [project EXCEPT !.trust = TRUE]
        /\ IF forLease \/ stale
             THEN /\ endpoint' = Empty
                  /\ req' = [req EXCEPT ![r].at = "build", ![r].digest = None,
                                        ![r].fence = IF forLease THEN @ ELSE project.profile,
                                        ![r].gate = [Empty EXCEPT !.torn = ~req[r].quiet]]
             ELSE /\ req' = [req EXCEPT ![r].at = "next", ![r].digest = None]
                  /\ UNCHANGED endpoint
        /\ lapsed' = (lapsed /\ ~forLease)

\* Trust in other bytes than the gateway's, or trust that is back, rebuilds it
\* behind the fence it had; a rebuild for a lease has its own fence.
Refresh(r) ==
    LET forLease == req[r].phase \in Rebuilds
        stale == project.built /\ project.anchor # req[r].digest
    IN  /\ project' = [project EXCEPT !.trust = TRUE]
        /\ IF forLease \/ stale
             THEN /\ endpoint' = Empty
                  /\ req' = [req EXCEPT ![r].at = "build", ![r].digest = None,
                                        ![r].fence = IF forLease THEN @ ELSE project.profile,
                                        ![r].gate = [Empty EXCEPT !.torn = ~req[r].quiet]]
             ELSE /\ req' = [req EXCEPT ![r].at = "next", ![r].digest = None]
                  /\ UNCHANGED endpoint
        /\ lapsed' = (lapsed /\ ~forLease)

Check(r) ==
    /\ At(r, "check")
    /\ IF trusted = req[r].digest THEN Refresh(r) ELSE Withdraw(r)
    /\ UNCHANGED <<era, user, barrier, owner, lease, decided>>

-----------------------------------------------------------------------------
(* AutoProject::activate and Gateway::build, one read of the disk a step.  *)

\* With no lease, a project that declares toolsets gets an empty gateway.
ChooseFence(r) ==
    /\ At(r, "build") /\ req[r].fence = None
    /\ req' = [req EXCEPT ![r].at = IF Declares[files] # {} THEN "fenced" ELSE "load"]
    /\ UNCHANGED <<era, user, barrier, owner, project, endpoint, lease, decided, lapsed>>

Install(r, gateway, anchor) ==
    /\ project' = [project EXCEPT !.gateway = gateway, !.anchor = anchor,
                                  !.profile = req[r].fence, !.built = TRUE]
    /\ endpoint' = IF Serves(gateway) THEN gateway ELSE Empty
    /\ req' = [req EXCEPT ![r].at = "next", ![r].gate = Empty, ![r].fence = None]
    /\ UNCHANGED <<era, user, barrier, owner, lease, decided, lapsed>>

\* The empty gateway has no anchor of its own, so its digest is read again.
InstallFenced(r) ==
    /\ At(r, "fenced")
    /\ Install(r, [Empty EXCEPT !.torn = req[r].gate.torn], files)

LoadManifest(r) ==
    /\ At(r, "load") \/ (At(r, "build") /\ req[r].fence # None)
    /\ req' = [req EXCEPT ![r].gate.def = files, ![r].gate.fence = req[r].fence,
                          ![r].at = "anchor"]
    /\ UNCHANGED <<era, user, barrier, owner, project, endpoint, lease, decided, lapsed>>

ReadAnchor(r) ==
    /\ At(r, "anchor")
    /\ req' = [req EXCEPT ![r].digest = files, ![r].at = "store"]
    /\ UNCHANGED <<era, user, barrier, owner, project, endpoint, lease, decided, lapsed>>

\* The anchor exists only for a project that is trusted right now.
CheckAnchor(r) ==
    /\ At(r, "store")
    /\ req' = [req EXCEPT ![r].at = "pins", ![r].digest = None,
                          ![r].gate.anchor = IF trusted = req[r].digest THEN trusted ELSE None]
    /\ UNCHANGED <<era, user, barrier, owner, project, endpoint, lease, decided, lapsed>>

\* The lock is loaded for the pins, the gateway swapped, the endpoint started.
InstallBuilt(r) ==
    /\ At(r, "pins")
    /\ LET gateway == [req[r].gate EXCEPT !.pins = files]
       IN  Install(r, gateway, gateway.anchor)

-----------------------------------------------------------------------------
(* What follows a refresh, by what it was for.                             *)

\* sync_modern_default, trusted: the lease is the manifest's default, or the
\* one that is open is closed and the default opened in its place.
Derive(r) ==
    /\ At(r, "next") /\ req[r].phase = "modern"
    /\ IF ~project.trust \/ lease = Default[files]
         THEN LeaveSync(r) /\ UNCHANGED <<lease, decided>>
         ELSE /\ lease' = None
              /\ IF Default[files] # None
                   THEN /\ req' = [req EXCEPT ![r].at = "open", ![r].fence = Default[files]]
                        /\ UNCHANGED decided
                   ELSE /\ decided' = TRUE
                        /\ req' = [req EXCEPT ![r].at = "digest", ![r].fence = None,
                                              ![r].phase = "rebuild-modern"]
              /\ UNCHANGED <<owner, writer>>
    /\ UNCHANGED <<era, user, readers, project, endpoint, lapsed>>

\* maybe_open_default_lease: without trust the decision is left to a later
\* request.
Decide(r) ==
    /\ At(r, "next") /\ req[r].phase = "default"
    /\ LET opens == project.trust /\ Default[files] # None
       IN  /\ decided' = (decided \/ (project.trust /\ ~opens))
           /\ req' = [req EXCEPT ![r].at = IF opens THEN "open" ELSE "digest",
                                 ![r].fence = IF opens THEN Default[files] ELSE @,
                                 ![r].phase = IF opens THEN @ ELSE "snapshot"]
    /\ UNCHANGED <<era, user, barrier, owner, project, endpoint, lease, lapsed>>

\* lease_open for a default toolset: refused when the manifest, read again,
\* no longer has it or a native session is active.
OpenDefault(r) ==
    /\ At(r, "open")
    /\ \E native \in BOOLEAN :
         LET fence == IF ~native /\ req[r].fence \in Declares[files] THEN req[r].fence ELSE None
             modern == req[r].phase = "modern"
         IN  /\ lease' = fence
             /\ req' = [q \in Requests |->
                  IF q = r
                  THEN [req[q] EXCEPT !.at = "digest", !.fence = fence,
                          !.phase = CASE modern -> "rebuild-modern"
                                      [] ~modern /\ fence # None -> "rebuild-default"
                                      [] OTHER  -> "snapshot"]
                  ELSE [req[q] EXCEPT !.overtaken = @ \/ (q \in readers /\ fence # None)]]
    /\ decided' = TRUE
    /\ UNCHANGED <<era, user, barrier, owner, project, endpoint, lapsed>>

Rebuilt(r) ==
    /\ At(r, "next") /\ req[r].phase \in Rebuilds
    /\ CASE req[r].phase = "rebuild" -> owner' = None /\ Leave(r)
         [] req[r].phase = "rebuild-modern" -> LeaveSync(r) /\ UNCHANGED readers
         [] req[r].phase = "rebuild-default" ->
              /\ req' = [req EXCEPT ![r].at = "digest", ![r].phase = "snapshot"]
              /\ UNCHANGED <<owner, barrier>>
    /\ UNCHANGED <<era, user, project, endpoint, lease, decided, lapsed>>

\* snapshot: ensure_gateway, then this request's own handle to the gateway.
Snapshot(r) ==
    /\ At(r, "next") /\ req[r].phase = "snapshot"
    /\ IF project.built
         THEN /\ owner' = None
              /\ req' = [req EXCEPT ![r].at = "dispatch", ![r].phase = "none",
                                    ![r].gate = project.gateway,
                                    ![r].trust = project.trust]
         ELSE /\ req' = [req EXCEPT ![r].at = "build", ![r].fence = None,
                                    ![r].gate = [Empty EXCEPT !.torn = ~req[r].quiet]]
              /\ UNCHANGED owner
    /\ UNCHANGED <<era, user, barrier, project, endpoint, lease, decided, lapsed>>

-----------------------------------------------------------------------------
(* dispatch_tool_with_lease and try_call.                                  *)

\* rebuild_after_lease, when the lease is another than before.
AfterLease(r, newLease) ==
    IF req[r].before = newLease \/ req[r].kind \in {"call", "script"}
    THEN Leave(r)
    ELSE /\ req' = [req EXCEPT ![r].at = "lock", ![r].phase = "rebuild", ![r].fence = newLease,
                               ![r].gate = Empty]
         /\ UNCHANGED barrier

\* lease_open, refused without trust, by a native session or for a toolset
\* the manifest has not; over an open lease it replaces it.
Open(r) ==
    /\ At(r, "dispatch") /\ req[r].kind = "open"
    /\ \E native \in BOOLEAN :
         /\ lease' = IF req[r].trust /\ ~native /\ req[r].want \in Declares[files]
                     THEN req[r].want ELSE lease
         /\ AfterLease(r, lease')
    /\ UNCHANGED <<era, user, owner, project, endpoint, decided, lapsed>>

Close(r) ==
    /\ At(r, "dispatch") /\ req[r].kind = "close"
    /\ lease' = None
    /\ AfterLease(r, None)
    /\ UNCHANGED <<era, user, owner, project, endpoint, decided, lapsed>>

\* A call for a server the gateway has not is refused; a search of a gateway
\* that is empty finds nothing.  Without an anchor nothing is verified.
Dispatch(r) ==
    /\ At(r, "dispatch") /\ req[r].kind \in {"call", "search"}
    /\ CASE ~Serves(req[r].gate) -> AfterLease(r, lease)
         [] Serves(req[r].gate) ->
              /\ req' = [req EXCEPT ![r].at = "verify", ![r].quiet = FALSE,
                                    ![r].trust = FALSE, ![r].held = Consented(req[r].gate.anchor)]
              /\ UNCHANGED barrier
    /\ UNCHANGED <<era, user, owner, project, endpoint, lease, decided, lapsed>>

\* TrustAnchor::verify: the bytes first, then the store.  Without an anchor
\* nothing is verified.
VerifyDigest(r) ==
    /\ At(r, "verify")
    /\ IF req[r].gate.anchor \in {None, files}
         THEN req' = [req EXCEPT ![r].at = "verify-store"] /\ UNCHANGED barrier
         ELSE AfterLease(r, lease)
    /\ UNCHANGED <<era, user, owner, project, endpoint, lease, decided, lapsed>>

\* Mutant: the same bytes are taken for the same yes.
VerifyBytesOnly(r) ==
    /\ At(r, "verify-store")
    /\ req' = [req EXCEPT ![r].at = "forwarded"] /\ UNCHANGED barrier
    /\ UNCHANGED <<era, user, owner, project, endpoint, lease, decided, lapsed>>

VerifyStore(r) ==
    /\ At(r, "verify-store")
    /\ IF req[r].gate.anchor \in {None, trusted}
         THEN req' = [req EXCEPT ![r].at = "forwarded"] /\ UNCHANGED barrier
         ELSE AfterLease(r, lease)
    /\ UNCHANGED <<era, user, owner, project, endpoint, lease, decided, lapsed>>

\* The upstream answered, or its timeout did.
Answer(r) ==
    /\ At(r, "forwarded")
    /\ AfterLease(r, lease)
    /\ UNCHANGED <<era, user, owner, project, endpoint, lease, decided, lapsed>>

-----------------------------------------------------------------------------

Serve(r) ==
    \/ EnterAlone(r) \/ EnterShared(r) \/ Lock(r)
    \/ ReadDigest(r) \/ Check(r)
    \/ ChooseFence(r) \/ InstallFenced(r) \/ LoadManifest(r) \/ ReadAnchor(r)
    \/ CheckAnchor(r) \/ InstallBuilt(r)
    \/ Derive(r) \/ Decide(r) \/ OpenDefault(r) \/ Rebuilt(r) \/ Snapshot(r)
    \/ Open(r) \/ Close(r) \/ Dispatch(r) \/ VerifyDigest(r) \/ VerifyStore(r) \/ Answer(r)

User == Edit \/ Trust \/ Revoke

Next == User \/ \E r \in Requests : Arrive(r) \/ ArriveByScript(r) \/ Serve(r)

Spec == Init /\ [][Next]_vars

-----------------------------------------------------------------------------
(* Properties                                                              *)

Gateways ==
    [def : Digests \cup {None}, pins : Digests \cup {None}, anchor : Digests \cup {None},
     fence : Toolsets \cup {None}, torn : BOOLEAN]

\* Types, and what the locks promise: the barrier is shared or held alone, the
\* mutex is taken inside it, and an endpoint always has something to serve.
TypeOK ==
    /\ era \in {"legacy", "modern"}
    /\ files \in Digests /\ trusted \in Digests \cup {None} /\ changes \in 0..MaxChanges
    /\ readers \subseteq {r \in Requests : req[r].kind = "call"}
    /\ writer \in Requests \cup {None}
    /\ writer # None => readers = {}
    /\ owner \in readers \cup {writer, None}
    /\ project \in [trust : BOOLEAN, gateway : Gateways, anchor : Digests \cup {None},
                    profile : Toolsets \cup {None}, built : BOOLEAN]
    /\ endpoint = Empty \/ (endpoint \in Gateways /\ Serves(endpoint))
    /\ lease \in Toolsets \cup {None} /\ decided \in BOOLEAN /\ lapsed \in BOOLEAN
    /\ \A r \in Requests :
         /\ req[r].kind \in Kinds \cup {"none"}
         /\ req[r].gate \in Gateways
         /\ req[r].at \in {"digest", "check", "next", "open"} \cup Building => owner = r

\* What a call is served under is its gateway's: the toolset the connection
\* has leased, and none of a project with toolsets when it has leased none.
UnderTheLease(r) ==
    LET gate == req[r].gate
    IN  /\ gate.fence = lease
        /\ gate.fence = None /\ ~gate.torn => Declares[gate.def] = {}

\* And a manifest, and a lock, that the user consented to: the consent held at
\* an instant after the call was dispatched.
UnderConsent(r) ==
    LET gate == req[r].gate
    IN  /\ gate.anchor # None => req[r].held
        /\ ~gate.torn => gate.anchor # None /\ gate.def = gate.anchor /\ gate.pins = gate.anchor

\* DispatchBarrier: "keeps a served call and the authority it was served under
\* from coming apart".  Two windows: a rebuild for a lease that finds no trust
\* keeps the old fence, and a default lease opens on the shared side.
CallKeepsItsAuthority ==
    \A r \in Requests :
      At(r, "forwarded")
        => /\ UnderConsent(r)
           /\ req[r].kind # "script" /\ ~lapsed /\ ~req[r].overtaken => UnderTheLease(r)

\* refresh_trust: "recovery must not wait for a lease transition", nor does a
\* withdrawal: when nothing changed since the request read the trust, it gets
\* a gateway of the trusted bytes, or the empty one where the fence or the
\* trust asks for it.
TrustIsFollowed ==
    \A r \in Requests :
      At(r, "dispatch") /\ req[r].quiet
        => LET gate == req[r].gate
           IN  /\ req[r].trust = (trusted = files)
               /\ ~req[r].trust => gate = Empty
               /\ req[r].trust /\ ~gate.torn
                    => IF gate = Empty THEN Declares[files] # {} ELSE gate.anchor = files

\* Who waits for nobody: the barrier asks for the other side, the mutex for its
\* owner, and nothing else does.
CanGo(r) ==
    \/ At(r, "sync") /\ readers = {} /\ writer = None
    \/ At(r, "enter") /\ writer = None /\ (req[r].kind # "call" => readers = {})
    \/ At(r, "lock") /\ owner = None
    \/ req[r].at \notin {"new", "sync", "enter", "lock", "done"}

\* While a request is under way, somebody waits for nobody: there is no circle
\* of the barrier, the mutex and an upstream.
SomebodyCanGo == (\E r \in Requests : req[r].at \notin {"new", "done"}) => \E r \in Requests : CanGo(r)

\* And whoever waits for nobody has a step.  A request has no loop, so each
\* returns.
NobodyIsWedged ==
    (\E r \in Requests : req[r].at \notin {"new", "done"})
      => \E r \in Requests : CanGo(r) /\ ENABLED Serve(r)
=============================================================================
