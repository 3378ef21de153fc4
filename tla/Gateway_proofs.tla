---------------------------- MODULE Gateway_proofs ----------------------------
(***************************************************************************)
(* Theorems about one connection of the MCP server, for any number of      *)
(* requests, digests and toolsets, and any number of changes by the user.  *)
(***************************************************************************)
EXTENDS Gateway, TLAPS

-----------------------------------------------------------------------------
(* The inductive invariant                                                 *)

Outside == {"new", "sync", "enter", "done"}
\* The request has its own handle to a gateway and neither lock nor mutex left
\* to wait for.
Inflight == {"dispatch", "verify", "verify-store", "forwarded"}
Owning == {"digest", "check", "next", "open"} \cup Building
Places == Outside \cup {"lock"} \cup Owning \cup Inflight
\* What only the exclusive side does.
ForModern == {"modern", "rebuild", "rebuild-modern"}
Phases == {"none", "request", "default", "snapshot"} \cup ForModern \cup Rebuilds

Records ==
    [at : Places, kind : Kinds \cup {"none"}, want : Toolsets \cup {None}, phase : Phases,
     digest : Digests \cup {None}, fence : Toolsets \cup {None},
     before : Toolsets \cup {None}, gate : Gateways, trust : BOOLEAN, quiet : BOOLEAN,
     held : BOOLEAN, overtaken : BOOLEAN]

Typed ==
    /\ files \in Digests /\ trusted \in Digests \cup {None} /\ changes \in 0..MaxChanges
    /\ era \in {"legacy", "modern"}
    /\ readers \subseteq Requests /\ writer \in Requests \cup {None}
    /\ owner \in Requests \cup {None}
    /\ project \in [trust : BOOLEAN, gateway : Gateways, anchor : Digests \cup {None},
                    profile : Toolsets \cup {None}, built : BOOLEAN]
    /\ endpoint \in Gateways
    /\ lease \in Toolsets \cup {None} /\ decided \in BOOLEAN /\ lapsed \in BOOLEAN
    /\ req \in [Requests -> Records]

\* Where a request stands says which locks it has.
Standing(r) ==
    /\ owner = r <=> req[r].at \in Owning
    /\ (r \in readers \/ writer = r) <=> (req[r].at \notin Outside /\ req[r].kind # "script")
    /\ r \in readers => req[r].kind = "call" /\ req[r].phase \notin ForModern
    /\ req[r].at = "lock" => req[r].phase \in {"request", "modern", "rebuild"}
    /\ req[r].at \in Owning => req[r].phase \notin {"none", "request"}
    /\ req[r].at \in Outside \cup Inflight => req[r].phase = "none"
    /\ req[r].kind = "script" => req[r].at \in Inflight
    /\ req[r].at = "open" => req[r].phase \in {"modern", "default"}
    /\ req[r].kind \in {"open", "close"}
         => /\ req[r].at # "sync"
            /\ req[r].phase \in {"none", "request", "snapshot", "rebuild"}

Locked ==
    /\ writer # None => readers = {}
    /\ \A r \in Requests : Standing(r)

\* A gateway that was built while nothing changed has what it was built from.
Sound(g) ==
    g.def # None /\ ~g.torn
      => /\ g.anchor = g.def /\ g.pins = g.def
         /\ g.fence = None => Declares[g.def] = {}

\* A request that builds a gateway, from the trust it found.
Builds(r) ==
    LET gate == req[r].gate
        fence == req[r].fence
    IN  /\ project.trust
        /\ ~gate.torn => files = trusted
        /\ req[r].quiet => ~gate.torn
        /\ req[r].at \in {"fenced", "load"} => fence = None
        /\ req[r].at = "fenced" /\ ~gate.torn => Declares[files] # {}
        /\ req[r].at = "load" /\ ~gate.torn => Declares[files] = {}
        /\ req[r].at \in {"anchor", "store", "pins"}
             => /\ gate.def # None
                /\ gate.fence = fence
                /\ ~gate.torn => gate.def = files /\ (fence = None => Declares[files] = {})
        /\ req[r].at = "store" => req[r].digest # None /\ (~gate.torn => req[r].digest = files)
        /\ req[r].at = "pins" /\ ~gate.torn => gate.anchor = files

\* What a request knows of the trust, until it gives it up for its verification.
Reads(r) ==
    /\ req[r].at = "check" => req[r].digest # None /\ (req[r].quiet => req[r].digest = files)
    /\ req[r].at = "next"
         => /\ ~project.built => project.trust
            /\ req[r].quiet => /\ project.trust = (trusted = files)
                               /\ project.trust /\ project.built => project.anchor = files

Follows(r) ==
    LET gate == req[r].gate
    IN  req[r].at = "dispatch" /\ req[r].quiet
          => /\ req[r].trust = (trusted = files)
             /\ ~req[r].trust => gate = Empty
             /\ req[r].trust /\ ~gate.torn
                  => IF gate = Empty THEN Declares[files] # {} ELSE gate.anchor = files

\* The verification of a call against the consent.
Verifies(r) ==
    LET gate == req[r].gate
    IN  /\ req[r].at \in Inflight => Sound(gate)
        /\ req[r].at \in Inflight \ {"dispatch"} => gate.def # None
        /\ gate.anchor # None
             => /\ req[r].at \in {"verify", "verify-store"} /\ Consented(gate.anchor) => req[r].held
                /\ req[r].at = "verify-store" /\ trusted = gate.anchor => req[r].held
                /\ req[r].at = "forwarded" => req[r].held

Held ==
    /\ ~project.trust => project.gateway = Empty /\ project.anchor = None
    /\ project.gateway.def = None => project.gateway = [Empty EXCEPT !.torn = project.gateway.torn]
    /\ project.gateway.def # None => /\ project.anchor = project.gateway.anchor
                                     /\ project.gateway.fence = project.profile
    /\ project.gateway = Empty /\ project.anchor # None => Declares[project.anchor] # {}
    /\ ~project.built => /\ project.profile = None
                         /\ project.gateway = Empty
                         /\ project.anchor = None
    /\ Sound(project.gateway)
    /\ endpoint = Empty \/ (Serves(endpoint) /\ Sound(endpoint))

\* The request has changed the lease and not yet rebuilt the gateway for it.
Owes(r) ==
    \/ req[r].phase \in Rebuilds /\ req[r].at \in {"lock", "digest", "check"} \cup Building
    \/ req[r].at = "open" /\ req[r].phase = "modern"

Leased(r) ==
    /\ Owes(r) /\ req[r].phase \in Rebuilds => req[r].fence = lease
    /\ req[r].at \in Building /\ req[r].phase \notin Rebuilds => req[r].fence = project.profile
    /\ req[r].at \in Owning /\ req[r].phase = "default" => lease = None
    /\ req[r].kind \in {"open", "close"} /\ req[r].at \notin Outside /\ req[r].phase # "rebuild"
         => req[r].before = lease
    /\ req[r].at \in Inflight /\ req[r].kind # "script" /\ ~req[r].overtaken /\ ~lapsed
         => req[r].gate.def = None \/ req[r].gate.fence = lease

\* A default lease leaves those behind who have their gateway already.
Overtakes(r) ==
    owner = r /\ req[r].phase = "rebuild-default"
      => \A q \in readers : req[q].at \in Inflight => req[q].overtaken

Fenced ==
    /\ ~lapsed /\ (\A r \in Requests : ~Owes(r)) => project.profile = lease
    /\ \A r \in Requests : Leased(r) /\ Overtakes(r)

Inv ==
    /\ Typed /\ Locked /\ Held /\ Fenced
    /\ \A r \in Requests :
         /\ req[r].at \in Building => Builds(r)
         /\ Reads(r) /\ Follows(r) /\ Verifies(r)

-----------------------------------------------------------------------------
(* Steps that leave the project, its gateway and the lease alone           *)

Own(r) ==
    /\ req[r].at \in Building => Builds(r)
    /\ Reads(r) /\ Follows(r) /\ Verifies(r)

\* Who has which lock changes for r alone.
LocksOf(r) ==
    /\ readers' \subseteq Requests /\ writer' \in Requests \cup {None}
    /\ owner' \in Requests \cup {None}
    /\ writer' # None => readers' = {}
    /\ \A q \in Requests \ {r} : /\ q \in readers' <=> q \in readers
                                 /\ writer' = q <=> writer = q
                                 /\ owner' = q <=> owner = q

\* A step of r: of the requests it changes only its own.
OfRequest(r) ==
    /\ req' \in [Requests -> Records]
    /\ \A q \in Requests \ {r} : req'[q] = req[q]

LEMMA NoRequest == None \notin Requests /\ None \notin Digests /\ None \notin Toolsets
BY GatewayAssumption

\* Who has the mutex stands where it is needed, and nobody else does.
LEMMA OthersOwn ==
  ASSUME Inv, NEW r \in Requests, NEW q \in Requests, q # r,
         req'[q] = req[q], LocksOf(r), UNCHANGED <<files, trusted>>,
         project' = project \/ owner = r
  PROVE  Standing(q)' /\ Own(q)'
<1>1. Standing(q) /\ Own(q)
  BY DEF Inv, Locked, Own
<1>2. Standing(q)'
  BY <1>1 DEF Standing, LocksOf
<1>3. req[q].at \in Owning => project' = project
  BY <1>1 DEF Standing
<1>4. req[q].at \in Building => Builds(q)'
  BY <1>1, <1>3 DEF Own, Builds, Owning
<1>5. Reads(q)'
  BY <1>1, <1>3 DEF Own, Reads, Owning
<1>6. Follows(q)' /\ Verifies(q)'
  BY <1>1 DEF Own, Follows, Verifies, Consented
<1>7. QED
  BY <1>2, <1>4, <1>5, <1>6 DEF Own

LEMMA LocalStep ==
  ASSUME Inv, NEW r \in Requests, OfRequest(r), LocksOf(r),
         UNCHANGED <<era, user, project, endpoint, lease, lapsed>>, decided' \in BOOLEAN,
         Standing(r)', Own(r)', Leased(r)',
         Owes(r) /\ ~lapsed => Owes(r)' \/ project.profile = lease,
         owner' = r /\ req'[r].phase = "rebuild-default"
           => owner = r /\ req[r].phase = "rebuild-default",
         r \in readers' /\ req'[r].at \in Inflight
           => \/ owner' = None
              \/ /\ r \in readers /\ req[r].at \in Inflight
                 /\ req'[r].overtaken = req[r].overtaken
  PROVE  Inv'
<1> USE NoRequest
<1>1. \A q \in Requests \ {r} : Standing(q)' /\ Own(q)'
  BY OthersOwn DEF OfRequest, user
<1>2. Typed'
  BY DEF Inv, Typed, OfRequest, LocksOf, user
<1>3. Locked'
  BY <1>1 DEF Locked, LocksOf
<1>4. Held'
  BY DEF Inv, Held
<1>5. ASSUME NEW q \in Requests \ {r} PROVE Leased(q)'
  <2>1. Leased(q) /\ req'[q] = req[q]
    BY DEF Inv, Fenced, OfRequest
  <2>2. Owes(q)' <=> Owes(q)
    BY <2>1 DEF Owes
  <2>3. QED
    BY <2>1, <2>2 DEF Leased
<1>6. \A q \in Requests : Overtakes(q)'
  <2> SUFFICES ASSUME NEW q \in Requests, owner' = q, req'[q].phase = "rebuild-default",
                      NEW p \in readers', req'[p].at \in Inflight
               PROVE  req'[p].overtaken
    BY DEF Overtakes
  <2>1. owner = q /\ req[q].phase = "rebuild-default" /\ owner' # None
    BY DEF OfRequest, LocksOf
  <2>2. p \in readers /\ req[p].at \in Inflight /\ req'[p].overtaken = req[p].overtaken
    BY <2>1 DEF OfRequest, LocksOf
  <2>3. Overtakes(q)
    BY DEF Inv, Fenced
  <2>4. QED
    BY <2>1, <2>2, <2>3 DEF Overtakes
<1>7. ~lapsed' /\ (\A q \in Requests : ~Owes(q)') => project'.profile = lease'
  <2>1. \A q \in Requests \ {r} : Owes(q)' <=> Owes(q)
    BY DEF Owes, OfRequest
  <2>2. QED
    BY <2>1 DEF Inv, Fenced
<1>8. Fenced'
  BY <1>5, <1>6, <1>7 DEF Fenced
<1>9. QED
  BY <1>1, <1>2, <1>3, <1>4, <1>8 DEF Inv, Own

\* Whoever is inside the barrier, with the mutex free or its own, is the only
\* one who may owe a rebuild.
LEMMA NobodyOwes ==
  ASSUME Inv, NEW r \in Requests, r \in readers \/ writer = r, owner \in {r, None}
  PROVE  /\ \A q \in Requests \ {r} : ~Owes(q)
         /\ ~Owes(r) /\ ~lapsed => project.profile = lease
<1> USE NoRequest
<1>1. ASSUME NEW q \in Requests \ {r}, Owes(q)
      PROVE  FALSE
  <2>1. Standing(q) /\ (writer # None => readers = {})
    BY DEF Inv, Locked
  <2>2. req[q].at = "lock" \/ req[q].at \in Owning
    BY <1>1 DEF Owes, Owning
  <2>3. CASE req[q].at \in Owning
    BY <2>1, <2>3 DEF Standing
  <2>4. CASE req[q].at = "lock"
    <3>1. req[q].phase = "rebuild"
      BY <1>1, <2>1, <2>4 DEF Owes, Standing, Rebuilds, Building
    <3>2. q \in readers \/ writer = q
      BY <2>1, <2>4 DEF Standing, Outside, Inflight
    <3>3. QED
      BY <2>1, <3>1, <3>2 DEF Standing, ForModern
  <2>5. QED
    BY <2>2, <2>3, <2>4
<1>2. QED
  BY <1>1 DEF Inv, Fenced

\* The exclusive side may change the lease: nobody else is served meanwhile.
LEMMA LeaseStep ==
  ASSUME Inv, NEW r \in Requests, OfRequest(r), LocksOf(r), writer = r, readers' = {},
         UNCHANGED <<era, user, project, endpoint, lapsed>>,
         decided' \in BOOLEAN, lease' \in Toolsets \cup {None},
         Standing(r)', Own(r)', Leased(r)', Owes(r)' \/ lapsed \/ project.profile = lease'
  PROVE  Inv'
<1> USE NoRequest
<1>1. \A q \in Requests \ {r} : Standing(q)' /\ Own(q)'
  BY OthersOwn DEF OfRequest, user
<1>2. Typed'
  BY DEF Inv, Typed, OfRequest, LocksOf, user
<1>3. Locked'
  BY <1>1 DEF Locked, LocksOf
<1>4. Held'
  BY DEF Inv, Held
<1>5. ASSUME NEW q \in Requests \ {r}
      PROVE  Leased(q)'
  <2>1. Standing(q) /\ req'[q] = req[q] /\ readers = {}
    BY DEF Inv, Locked, OfRequest
  <2>2. req[q].at \in Outside \/ (req[q].kind = "script" /\ req[q].at \in Inflight)
    BY <2>1 DEF Standing
  <2>3. QED
    BY <2>1, <2>2 DEF Leased, Owes, Outside, Inflight, Owning, Building
<1>6. Fenced'
  BY <1>5 DEF Fenced, Overtakes
<1>7. QED
  BY <1>1, <1>2, <1>3, <1>4, <1>6 DEF Inv, Own

\* Who has the mutex may change the project.  A rebuild that ends the lapse of
\* an earlier one finds nobody in flight that the lease has not overtaken.
LEMMA ProjectStep ==
  ASSUME Inv, NEW r \in Requests, OfRequest(r), owner = r,
         UNCHANGED <<era, user, barrier, owner, lease, decided>>,
         project' \in [trust : BOOLEAN, gateway : Gateways, anchor : Digests \cup {None},
                       profile : Toolsets \cup {None}, built : BOOLEAN],
         endpoint' \in Gateways, lapsed' \in BOOLEAN, Held',
         Standing(r)', Own(r)', Leased(r)', req'[r].phase = req[r].phase,
         req'[r].at \in Owning,
         Owes(r)' \/ lapsed' \/ project'.profile = lease,
         lapsed' \/ ~lapsed \/ writer = r \/ req[r].phase = "rebuild-default"
  PROVE  Inv'
<1> USE NoRequest
<1>1. \A q \in Requests \ {r} : Standing(q)' /\ Own(q)'
  <2>1. LocksOf(r)
    BY DEF Inv, Typed, Locked, LocksOf, barrier
  <2>2. QED
    BY <2>1, OthersOwn DEF OfRequest, user
<1>2. Typed'
  BY DEF Inv, Typed, OfRequest, user, barrier
<1>3. Locked'
  BY <1>1 DEF Inv, Locked, barrier
<1>4. \A q \in Requests : Overtakes(q)'
  <2>1. \A q \in Requests : Overtakes(q) /\ readers \subseteq Requests
    BY DEF Inv, Fenced, Typed
  <2>2. req'[r].at \notin Inflight
    BY DEF Owning, Building, Inflight
  <2>3. QED
    BY <2>1, <2>2 DEF Overtakes, OfRequest, barrier
<1>5. ASSUME NEW q \in Requests \ {r}
      PROVE  Leased(q)'
  <2>1. Standing(q) /\ Leased(q) /\ Overtakes(r) /\ req'[q] = req[q]
    BY DEF Inv, Locked, Fenced, OfRequest
  <2>2. req[q].at \notin Owning
    BY <2>1 DEF Standing
  <2>3. ~lapsed' /\ req[q].at \in Inflight /\ req[q].kind # "script" /\ ~req[q].overtaken => ~lapsed
    <3> SUFFICES ASSUME ~lapsed', req[q].at \in Inflight, req[q].kind # "script", lapsed
                 PROVE  req[q].overtaken
      BY DEF Inv, Typed
    <3>1. q \in readers /\ writer # r
      BY <2>1 DEF Standing, Inv, Locked, Outside, Inflight
    <3>2. QED
      BY <2>1, <3>1 DEF Overtakes
  <2>4. QED
    BY <2>1, <2>2, <2>3 DEF Leased, Owes, Owning
<1>6. Fenced'
  BY <1>4, <1>5 DEF Fenced
<1>7. QED
  BY <1>1, <1>2, <1>3, <1>6 DEF Inv, Own

\* A record of which one field is replaced by a value of its type is a record.
LEMMA Retyped ==
  ASSUME NEW t \in Records
  PROVE  /\ \A v \in Places : [t EXCEPT !.at = v] \in Records
         /\ \A v \in Kinds \cup {"none"} : [t EXCEPT !.kind = v] \in Records
         /\ \A v \in Phases : [t EXCEPT !.phase = v] \in Records
         /\ \A v \in Digests \cup {None} : [t EXCEPT !.digest = v] \in Records
         /\ \A v \in Gateways : [t EXCEPT !.gate = v] \in Records
         /\ \A v \in Toolsets \cup {None} :
              /\ [t EXCEPT !.want = v] \in Records /\ [t EXCEPT !.fence = v] \in Records
              /\ [t EXCEPT !.before = v] \in Records
         /\ \A v \in BOOLEAN :
              /\ [t EXCEPT !.trust = v] \in Records /\ [t EXCEPT !.quiet = v] \in Records
              /\ [t EXCEPT !.held = v] \in Records /\ [t EXCEPT !.overtaken = v] \in Records
BY DEF Records

LEMMA Fields ==
  ASSUME Typed, NEW r \in Requests
  PROVE  /\ req[r] \in Records
         /\ req[r].at \in Places /\ req[r].kind \in Kinds \cup {"none"}
         /\ req[r].want \in Toolsets \cup {None} /\ req[r].phase \in Phases
         /\ req[r].digest \in Digests \cup {None} /\ req[r].fence \in Toolsets \cup {None}
         /\ req[r].before \in Toolsets \cup {None} /\ req[r].gate \in Gateways
         /\ req[r].trust \in BOOLEAN /\ req[r].quiet \in BOOLEAN
         /\ req[r].held \in BOOLEAN /\ req[r].overtaken \in BOOLEAN
BY DEF Typed, Records

\* The digest is read: from here on the request knows when the user moves.
LEMMA ReadDigestKeeps ==
  ASSUME Inv, NEW r \in Requests, ReadDigest(r)
  PROVE  Inv'
<1> USE NoRequest
<1>t. Typed /\ Standing(r) /\ Own(r) /\ Leased(r) /\ Held /\ (writer # None => readers = {})
  BY DEF Inv, Locked, Own, Fenced
<1>u. req \in [Requests -> Records] /\ files \in Digests
  BY <1>t DEF Typed
<1>a. /\ req[r].at = "digest"
      /\ req' = [req EXCEPT ![r].digest = files, ![r].at = "check", ![r].quiet = TRUE]
      /\ UNCHANGED <<era, files, trusted, changes, readers, writer, owner, project, endpoint,
                     lease, decided, lapsed>>
  BY <1>u DEF ReadDigest, At, user, barrier
<1>b. /\ req'[r].digest = files
      /\ req'[r].at = "check"
      /\ req'[r].quiet = TRUE
      /\ req'[r].kind = req[r].kind /\ req'[r].want = req[r].want
      /\ req'[r].phase = req[r].phase /\ req'[r].fence = req[r].fence
      /\ req'[r].before = req[r].before /\ req'[r].gate = req[r].gate
      /\ req'[r].trust = req[r].trust /\ req'[r].held = req[r].held
      /\ req'[r].overtaken = req[r].overtaken
  BY <1>u, <1>a DEF Records
<1>1. OfRequest(r)
  <2>1. files \in Digests /\ "check" \in Places
    BY <1>t, <1>a DEF Typed, Places, Phases, Kinds, Outside, Inflight, Owning, Building, ForModern,
       Rebuilds
  <2>2. [req[r] EXCEPT !.digest = files, !.at = "check", !.quiet = TRUE] \in Records
    BY <1>u, <2>1, Retyped
  <2>3. req' = [req EXCEPT ![r] = [req[r] EXCEPT !.digest = files, !.at = "check", !.quiet = TRUE]]
    BY <1>a
  <2>4. QED
    BY <1>u, <2>2, <2>3 DEF OfRequest
<1>2. LocksOf(r)
  BY <1>t, <1>a, <1>b DEF LocksOf, Typed, Standing, Outside, Inflight, Owning, Building, ForModern,
     Rebuilds
<1>3. Standing(r)'
  BY <1>t, <1>a, <1>b DEF Standing, Kinds, Outside, Inflight, Owning, Building, ForModern, Rebuilds
<1>4. Own(r)'
  <2>1. req'[r].at \in Building => Builds(r)'
    BY <1>t, <1>u, <1>a, <1>b DEF Own, Builds, Building
  <2>2. Reads(r)'
    BY <1>t, <1>u, <1>a, <1>b DEF Own, Reads
  <2>3. Follows(r)'
    BY <1>t, <1>u, <1>a, <1>b DEF Own, Follows
  <2>4. Verifies(r)'
    BY <1>t, <1>u, <1>a, <1>b DEF Own, Verifies, Inflight
  <2>5. QED
    BY <2>1, <2>2, <2>3, <2>4 DEF Own
<1>5. Leased(r)'
  BY <1>t, <1>a, <1>b DEF Leased, Owes, Standing, Outside, Inflight, Owning, Building, ForModern,
     Rebuilds
<1>6. QED
  <2>1. decided' \in BOOLEAN
    BY <1>t, <1>a DEF Typed
  <2>2. Owes(r) /\ ~lapsed => Owes(r)' \/ project.profile = lease
    BY <1>t, <1>a, <1>b DEF Owes, Standing, Outside, Inflight, Owning, Building, ForModern, Rebuilds
  <2>3. owner' = r /\ req'[r].phase = "rebuild-default"
          => owner = r /\ req[r].phase = "rebuild-default"
    BY <1>t, <1>a, <1>b DEF Standing, Outside, Inflight, Owning, Building, ForModern, Rebuilds
  <2>4. r \in readers' /\ req'[r].at \in Inflight
          => \/ owner' = None
             \/ r \in readers /\ req[r].at \in Inflight /\ req'[r].overtaken = req[r].overtaken
    BY <1>t, <1>a, <1>b DEF Standing, Outside, Inflight, Owning, Building, ForModern, Rebuilds
  <2>5. QED
    BY <1>1, <1>2, <1>3, <1>4, <1>5, <1>a, <2>1, <2>2, <2>3, <2>4, LocalStep DEF user

\* Without a lease, the manifest says whether anything may be served.
LEMMA ChooseFenceKeeps ==
  ASSUME Inv, NEW r \in Requests, ChooseFence(r)
  PROVE  Inv'
<1> USE NoRequest
<1>t. Typed /\ Standing(r) /\ Own(r) /\ Leased(r) /\ Held /\ (writer # None => readers = {})
  BY DEF Inv, Locked, Own, Fenced
<1>u. req \in [Requests -> Records] /\ files \in Digests
  BY <1>t DEF Typed
<1>a. PICK place \in {"fenced", "load"} :
      /\ req[r].at = "build" /\ req[r].fence = None
      /\ place = "fenced" <=> Declares[files] # {}
      /\ req' = [req EXCEPT ![r].at = place]
      /\ UNCHANGED <<era, files, trusted, changes, readers, writer, owner, project, endpoint,
                     lease, decided, lapsed>>
  BY <1>u DEF ChooseFence, At, user, barrier
<1>b. /\ req'[r].at = place
      /\ req'[r].kind = req[r].kind /\ req'[r].want = req[r].want
      /\ req'[r].phase = req[r].phase /\ req'[r].digest = req[r].digest
      /\ req'[r].fence = req[r].fence /\ req'[r].before = req[r].before
      /\ req'[r].gate = req[r].gate /\ req'[r].trust = req[r].trust
      /\ req'[r].quiet = req[r].quiet /\ req'[r].held = req[r].held
      /\ req'[r].overtaken = req[r].overtaken
  BY <1>u, <1>a DEF Records
<1>1. OfRequest(r)
  <2>1. place \in Places
    BY <1>t, <1>a DEF Typed, Places, Phases, Kinds, Outside, Inflight, Owning, Building, ForModern,
       Rebuilds
  <2>2. [req[r] EXCEPT !.at = place] \in Records
    BY <1>u, <2>1, Retyped
  <2>3. req' = [req EXCEPT ![r] = [req[r] EXCEPT !.at = place]]
    BY <1>a
  <2>4. QED
    BY <1>u, <2>2, <2>3 DEF OfRequest
<1>2. LocksOf(r)
  BY <1>t, <1>a, <1>b DEF LocksOf, Typed, Standing, Outside, Inflight, Owning, Building, ForModern,
     Rebuilds
<1>3. Standing(r)'
  BY <1>t, <1>a, <1>b DEF Standing, Kinds, Outside, Inflight, Owning, Building, ForModern, Rebuilds
<1>4. Own(r)'
  <2>1. req'[r].at \in Building => Builds(r)'
    BY <1>t, <1>u, <1>a, <1>b DEF Own, Builds, Building
  <2>2. Reads(r)'
    BY <1>t, <1>u, <1>a, <1>b DEF Own, Reads
  <2>3. Follows(r)'
    BY <1>t, <1>u, <1>a, <1>b DEF Own, Follows
  <2>4. Verifies(r)'
    BY <1>t, <1>u, <1>a, <1>b DEF Own, Verifies, Inflight
  <2>5. QED
    BY <2>1, <2>2, <2>3, <2>4 DEF Own
<1>5. Leased(r)'
  BY <1>t, <1>a, <1>b DEF Leased, Owes, Standing, Outside, Inflight, Owning, Building, ForModern,
     Rebuilds
<1>6. QED
  <2>1. decided' \in BOOLEAN
    BY <1>t, <1>a DEF Typed
  <2>2. Owes(r) /\ ~lapsed => Owes(r)' \/ project.profile = lease
    BY <1>t, <1>a, <1>b DEF Owes, Standing, Outside, Inflight, Owning, Building, ForModern, Rebuilds
  <2>3. owner' = r /\ req'[r].phase = "rebuild-default"
          => owner = r /\ req[r].phase = "rebuild-default"
    BY <1>t, <1>a, <1>b DEF Standing, Outside, Inflight, Owning, Building, ForModern, Rebuilds
  <2>4. r \in readers' /\ req'[r].at \in Inflight
          => \/ owner' = None
             \/ r \in readers /\ req[r].at \in Inflight /\ req'[r].overtaken = req[r].overtaken
    BY <1>t, <1>a, <1>b DEF Standing, Outside, Inflight, Owning, Building, ForModern, Rebuilds
  <2>5. QED
    BY <1>1, <1>2, <1>3, <1>4, <1>5, <1>a, <2>1, <2>2, <2>3, <2>4, LocalStep DEF user

\* The manifest is read, for the servers and the fence.
LEMMA LoadManifestKeeps ==
  ASSUME Inv, NEW r \in Requests, LoadManifest(r)
  PROVE  Inv'
<1> USE NoRequest
<1>t. Typed /\ Standing(r) /\ Own(r) /\ Leased(r) /\ Held /\ (writer # None => readers = {})
  BY DEF Inv, Locked, Own, Fenced
<1>u. req \in [Requests -> Records] /\ files \in Digests
  BY <1>t DEF Typed
<1>a. /\ req[r].at = "load" \/ (req[r].at = "build" /\ req[r].fence # None)
      /\ req' = [req EXCEPT ![r].gate = [req[r].gate EXCEPT !.def = files, !.fence = req[r].fence],
                          ![r].at = "anchor"]
      /\ UNCHANGED <<era, files, trusted, changes, readers, writer, owner, project, endpoint,
                     lease, decided, lapsed>>
  BY <1>u DEF LoadManifest, At, user, barrier
<1>b. /\ req'[r].gate = [req[r].gate EXCEPT !.def = files, !.fence = req[r].fence]
      /\ req'[r].at = "anchor"
      /\ req'[r].kind = req[r].kind /\ req'[r].want = req[r].want
      /\ req'[r].phase = req[r].phase /\ req'[r].digest = req[r].digest
      /\ req'[r].fence = req[r].fence /\ req'[r].before = req[r].before
      /\ req'[r].trust = req[r].trust /\ req'[r].quiet = req[r].quiet
      /\ req'[r].held = req[r].held /\ req'[r].overtaken = req[r].overtaken
      /\ req'[r].gate.def = files /\ req'[r].gate.fence = req[r].fence /\ req'[r].gate.torn = req[r].gate.torn
  BY <1>u, <1>a DEF Records, Gateways
<1>1. OfRequest(r)
  <2>1. "anchor" \in Places /\ files \in Digests
    BY <1>t, <1>a DEF Typed, Places, Phases, Kinds, Outside, Inflight, Owning, Building, ForModern,
       Rebuilds
  <2>g. [req[r].gate EXCEPT !.def = files, !.fence = req[r].fence] \in Gateways
    BY <1>t, <2>1, Fields DEF Gateways
  <2>2. [req[r] EXCEPT !.gate = [req[r].gate EXCEPT !.def = files, !.fence = req[r].fence],
                         !.at = "anchor"] \in Records
    BY <1>u, <2>1, <2>g, Retyped
  <2>3. req' = [req EXCEPT ![r] = [req[r] EXCEPT !.gate = [req[r].gate EXCEPT !.def = files, !.fence = req[r].fence],
                         !.at = "anchor"]]
    BY <1>a
  <2>4. QED
    BY <1>u, <2>2, <2>3 DEF OfRequest
<1>2. LocksOf(r)
  BY <1>t, <1>a, <1>b DEF LocksOf, Typed, Standing, Outside, Inflight, Owning, Building, ForModern,
     Rebuilds
<1>3. Standing(r)'
  BY <1>t, <1>a, <1>b DEF Standing, Kinds, Outside, Inflight, Owning, Building, ForModern, Rebuilds
<1>4. Own(r)'
  <2>1. req'[r].at \in Building => Builds(r)'
    BY <1>t, <1>u, <1>a, <1>b DEF Own, Builds, Building
  <2>2. Reads(r)'
    BY <1>t, <1>u, <1>a, <1>b DEF Own, Reads
  <2>3. Follows(r)'
    BY <1>t, <1>u, <1>a, <1>b DEF Own, Follows
  <2>4. Verifies(r)'
    BY <1>t, <1>u, <1>a, <1>b DEF Own, Verifies, Inflight
  <2>5. QED
    BY <2>1, <2>2, <2>3, <2>4 DEF Own
<1>5. Leased(r)'
  BY <1>t, <1>a, <1>b DEF Leased, Owes, Standing, Outside, Inflight, Owning, Building, ForModern,
     Rebuilds
<1>6. QED
  <2>1. decided' \in BOOLEAN
    BY <1>t, <1>a DEF Typed
  <2>2. Owes(r) /\ ~lapsed => Owes(r)' \/ project.profile = lease
    BY <1>t, <1>a, <1>b DEF Owes, Standing, Outside, Inflight, Owning, Building, ForModern, Rebuilds
  <2>3. owner' = r /\ req'[r].phase = "rebuild-default"
          => owner = r /\ req[r].phase = "rebuild-default"
    BY <1>t, <1>a, <1>b DEF Standing, Outside, Inflight, Owning, Building, ForModern, Rebuilds
  <2>4. r \in readers' /\ req'[r].at \in Inflight
          => \/ owner' = None
             \/ r \in readers /\ req[r].at \in Inflight /\ req'[r].overtaken = req[r].overtaken
    BY <1>t, <1>a, <1>b DEF Standing, Outside, Inflight, Owning, Building, ForModern, Rebuilds
  <2>5. QED
    BY <1>1, <1>2, <1>3, <1>4, <1>5, <1>a, <2>1, <2>2, <2>3, <2>4, LocalStep DEF user

\* The bytes are digested for the anchor.
LEMMA ReadAnchorKeeps ==
  ASSUME Inv, NEW r \in Requests, ReadAnchor(r)
  PROVE  Inv'
<1> USE NoRequest
<1>t. Typed /\ Standing(r) /\ Own(r) /\ Leased(r) /\ Held /\ (writer # None => readers = {})
  BY DEF Inv, Locked, Own, Fenced
<1>u. req \in [Requests -> Records] /\ files \in Digests
  BY <1>t DEF Typed
<1>a. /\ req[r].at = "anchor"
      /\ req' = [req EXCEPT ![r].digest = files, ![r].at = "store"]
      /\ UNCHANGED <<era, files, trusted, changes, readers, writer, owner, project, endpoint,
                     lease, decided, lapsed>>
  BY <1>u DEF ReadAnchor, At, user, barrier
<1>b. /\ req'[r].digest = files
      /\ req'[r].at = "store"
      /\ req'[r].kind = req[r].kind /\ req'[r].want = req[r].want
      /\ req'[r].phase = req[r].phase /\ req'[r].fence = req[r].fence
      /\ req'[r].before = req[r].before /\ req'[r].gate = req[r].gate
      /\ req'[r].trust = req[r].trust /\ req'[r].quiet = req[r].quiet
      /\ req'[r].held = req[r].held /\ req'[r].overtaken = req[r].overtaken
  BY <1>u, <1>a DEF Records
<1>1. OfRequest(r)
  <2>1. files \in Digests /\ "store" \in Places
    BY <1>t, <1>a DEF Typed, Places, Phases, Kinds, Outside, Inflight, Owning, Building, ForModern,
       Rebuilds
  <2>2. [req[r] EXCEPT !.digest = files, !.at = "store"] \in Records
    BY <1>u, <2>1, Retyped
  <2>3. req' = [req EXCEPT ![r] = [req[r] EXCEPT !.digest = files, !.at = "store"]]
    BY <1>a
  <2>4. QED
    BY <1>u, <2>2, <2>3 DEF OfRequest
<1>2. LocksOf(r)
  BY <1>t, <1>a, <1>b DEF LocksOf, Typed, Standing, Outside, Inflight, Owning, Building, ForModern,
     Rebuilds
<1>3. Standing(r)'
  BY <1>t, <1>a, <1>b DEF Standing, Kinds, Outside, Inflight, Owning, Building, ForModern, Rebuilds
<1>4. Own(r)'
  <2>1. req'[r].at \in Building => Builds(r)'
    BY <1>t, <1>u, <1>a, <1>b DEF Own, Builds, Building
  <2>2. Reads(r)'
    BY <1>t, <1>u, <1>a, <1>b DEF Own, Reads
  <2>3. Follows(r)'
    BY <1>t, <1>u, <1>a, <1>b DEF Own, Follows
  <2>4. Verifies(r)'
    BY <1>t, <1>u, <1>a, <1>b DEF Own, Verifies, Inflight
  <2>5. QED
    BY <2>1, <2>2, <2>3, <2>4 DEF Own
<1>5. Leased(r)'
  BY <1>t, <1>a, <1>b DEF Leased, Owes, Standing, Outside, Inflight, Owning, Building, ForModern,
     Rebuilds
<1>6. QED
  <2>1. decided' \in BOOLEAN
    BY <1>t, <1>a DEF Typed
  <2>2. Owes(r) /\ ~lapsed => Owes(r)' \/ project.profile = lease
    BY <1>t, <1>a, <1>b DEF Owes, Standing, Outside, Inflight, Owning, Building, ForModern, Rebuilds
  <2>3. owner' = r /\ req'[r].phase = "rebuild-default"
          => owner = r /\ req[r].phase = "rebuild-default"
    BY <1>t, <1>a, <1>b DEF Standing, Outside, Inflight, Owning, Building, ForModern, Rebuilds
  <2>4. r \in readers' /\ req'[r].at \in Inflight
          => \/ owner' = None
             \/ r \in readers /\ req[r].at \in Inflight /\ req'[r].overtaken = req[r].overtaken
    BY <1>t, <1>a, <1>b DEF Standing, Outside, Inflight, Owning, Building, ForModern, Rebuilds
  <2>5. QED
    BY <1>1, <1>2, <1>3, <1>4, <1>5, <1>a, <2>1, <2>2, <2>3, <2>4, LocalStep DEF user

\* The store is asked for them.
LEMMA CheckAnchorKeeps ==
  ASSUME Inv, NEW r \in Requests, CheckAnchor(r)
  PROVE  Inv'
<1> USE NoRequest
<1>t. Typed /\ Standing(r) /\ Own(r) /\ Leased(r) /\ Held /\ (writer # None => readers = {})
  BY DEF Inv, Locked, Own, Fenced
<1>u. req \in [Requests -> Records] /\ files \in Digests
  BY <1>t DEF Typed
<1>a. PICK found \in {None, trusted} :
      /\ req[r].at = "store"
      /\ trusted = req[r].digest => found = trusted
      /\ req' = [req EXCEPT ![r].at = "pins",
                          ![r].digest = None,
                          ![r].gate = [req[r].gate EXCEPT !.anchor = found]]
      /\ UNCHANGED <<era, files, trusted, changes, readers, writer, owner, project, endpoint,
                     lease, decided, lapsed>>
  BY <1>u DEF CheckAnchor, At, user, barrier
<1>b. /\ req'[r].at = "pins"
      /\ req'[r].digest = None
      /\ req'[r].gate = [req[r].gate EXCEPT !.anchor = found]
      /\ req'[r].kind = req[r].kind /\ req'[r].want = req[r].want
      /\ req'[r].phase = req[r].phase /\ req'[r].fence = req[r].fence
      /\ req'[r].before = req[r].before /\ req'[r].trust = req[r].trust
      /\ req'[r].quiet = req[r].quiet /\ req'[r].held = req[r].held
      /\ req'[r].overtaken = req[r].overtaken
      /\ req'[r].gate.anchor = found /\ req'[r].gate.def = req[r].gate.def
      /\ req'[r].gate.fence = req[r].gate.fence /\ req'[r].gate.torn = req[r].gate.torn
  BY <1>u, <1>a DEF Records, Gateways
<1>1. OfRequest(r)
  <2>1. "pins" \in Places /\ found \in Digests \cup {None}
    BY <1>t, <1>a DEF Typed, Places, Phases, Kinds, Outside, Inflight, Owning, Building, ForModern,
       Rebuilds
  <2>g. [req[r].gate EXCEPT !.anchor = found] \in Gateways
    BY <1>t, <2>1, Fields DEF Gateways
  <2>2. [req[r] EXCEPT !.at = "pins",
                         !.digest = None,
                         !.gate = [req[r].gate EXCEPT !.anchor = found]] \in Records
    BY <1>u, <2>1, <2>g, Retyped
  <2>3. req' = [req EXCEPT ![r] = [req[r] EXCEPT !.at = "pins",
                         !.digest = None,
                         !.gate = [req[r].gate EXCEPT !.anchor = found]]]
    BY <1>a
  <2>4. QED
    BY <1>u, <2>2, <2>3 DEF OfRequest
<1>2. LocksOf(r)
  BY <1>t, <1>a, <1>b DEF LocksOf, Typed, Standing, Outside, Inflight, Owning, Building, ForModern,
     Rebuilds
<1>3. Standing(r)'
  BY <1>t, <1>a, <1>b DEF Standing, Kinds, Outside, Inflight, Owning, Building, ForModern, Rebuilds
<1>4. Own(r)'
  <2>1. req'[r].at \in Building => Builds(r)'
    BY <1>t, <1>u, <1>a, <1>b DEF Own, Builds, Building
  <2>2. Reads(r)'
    BY <1>t, <1>u, <1>a, <1>b DEF Own, Reads
  <2>3. Follows(r)'
    BY <1>t, <1>u, <1>a, <1>b DEF Own, Follows
  <2>4. Verifies(r)'
    BY <1>t, <1>u, <1>a, <1>b DEF Own, Verifies, Inflight
  <2>5. QED
    BY <2>1, <2>2, <2>3, <2>4 DEF Own
<1>5. Leased(r)'
  BY <1>t, <1>a, <1>b DEF Leased, Owes, Standing, Outside, Inflight, Owning, Building, ForModern,
     Rebuilds
<1>6. QED
  <2>1. decided' \in BOOLEAN
    BY <1>t, <1>a DEF Typed
  <2>2. Owes(r) /\ ~lapsed => Owes(r)' \/ project.profile = lease
    BY <1>t, <1>a, <1>b DEF Owes, Standing, Outside, Inflight, Owning, Building, ForModern, Rebuilds
  <2>3. owner' = r /\ req'[r].phase = "rebuild-default"
          => owner = r /\ req[r].phase = "rebuild-default"
    BY <1>t, <1>a, <1>b DEF Standing, Outside, Inflight, Owning, Building, ForModern, Rebuilds
  <2>4. r \in readers' /\ req'[r].at \in Inflight
          => \/ owner' = None
             \/ r \in readers /\ req[r].at \in Inflight /\ req'[r].overtaken = req[r].overtaken
    BY <1>t, <1>a, <1>b DEF Standing, Outside, Inflight, Owning, Building, ForModern, Rebuilds
  <2>5. QED
    BY <1>1, <1>2, <1>3, <1>4, <1>5, <1>a, <2>1, <2>2, <2>3, <2>4, LocalStep DEF user

\* A script comes with the gateway it was given.
LEMMA ArriveByScriptKeeps ==
  ASSUME Inv, NEW r \in Requests, ArriveByScript(r)
  PROVE  Inv'
<1> USE NoRequest
<1>t. Typed /\ Standing(r) /\ Own(r) /\ Leased(r) /\ Held /\ (writer # None => readers = {})
  BY DEF Inv, Locked, Own, Fenced
<1>u. req \in [Requests -> Records] /\ files \in Digests
  BY <1>t DEF Typed
<1>a. /\ req[r].at = "new" /\ endpoint # Empty
      /\ req' = [req EXCEPT ![r].kind = "script",
                          ![r].gate = endpoint,
                          ![r].at = "verify",
                          ![r].held = Consented(endpoint.anchor)]
      /\ UNCHANGED <<era, files, trusted, changes, readers, writer, owner, project, endpoint,
                     lease, decided, lapsed>>
  BY <1>u DEF ArriveByScript, At, user, barrier
<1>b. /\ req'[r].kind = "script"
      /\ req'[r].gate = endpoint
      /\ req'[r].at = "verify"
      /\ req'[r].held = Consented(endpoint.anchor)
      /\ req'[r].want = req[r].want /\ req'[r].phase = req[r].phase
      /\ req'[r].digest = req[r].digest /\ req'[r].fence = req[r].fence
      /\ req'[r].before = req[r].before /\ req'[r].trust = req[r].trust
      /\ req'[r].quiet = req[r].quiet /\ req'[r].overtaken = req[r].overtaken
  BY <1>u, <1>a DEF Records
<1>1. OfRequest(r)
  <2>1. "verify" \in Places /\ "script" \in Kinds /\ endpoint \in Gateways /\ Consented(endpoint.anchor) \in BOOLEAN
    BY <1>t, <1>a DEF Typed, Places, Phases, Kinds, Outside, Inflight, Owning, Building, ForModern,
       Rebuilds, Consented
  <2>2. [req[r] EXCEPT !.kind = "script",
                         !.gate = endpoint,
                         !.at = "verify",
                         !.held = Consented(endpoint.anchor)] \in Records
    BY <1>u, <2>1, Retyped
  <2>3. req' = [req EXCEPT ![r] = [req[r] EXCEPT !.kind = "script",
                         !.gate = endpoint,
                         !.at = "verify",
                         !.held = Consented(endpoint.anchor)]]
    BY <1>a
  <2>4. QED
    BY <1>u, <2>2, <2>3 DEF OfRequest
<1>2. LocksOf(r)
  BY <1>t, <1>a, <1>b DEF LocksOf, Typed, Standing, Outside, Inflight, Owning, Building, ForModern,
     Rebuilds
<1>3. Standing(r)'
  BY <1>t, <1>a, <1>b DEF Standing, Kinds, Outside, Inflight, Owning, Building, ForModern, Rebuilds
<1>4. Own(r)'
  <2>1. req'[r].at \in Building => Builds(r)'
    BY <1>t, <1>u, <1>a, <1>b DEF Own, Builds, Building
  <2>2. Reads(r)'
    BY <1>t, <1>u, <1>a, <1>b DEF Own, Reads
  <2>3. Follows(r)'
    BY <1>t, <1>u, <1>a, <1>b DEF Own, Follows
  <2>4. Verifies(r)'
    <3>1. Sound(endpoint) /\ endpoint.def # None
      BY <1>t, <1>a DEF Held, Serves, Empty
    <3>2. Sound(req'[r].gate)
      BY <1>b, <3>1
    <3>3. QED
      BY <1>a, <1>b, <3>1, <3>2 DEF Verifies, Consented, Sound
  <2>5. QED
    BY <2>1, <2>2, <2>3, <2>4 DEF Own
<1>5. Leased(r)'
  BY <1>t, <1>a, <1>b DEF Leased, Owes, Standing, Outside, Inflight, Owning, Building, ForModern,
     Rebuilds
<1>6. QED
  <2>1. decided' \in BOOLEAN
    BY <1>t, <1>a DEF Typed
  <2>2. Owes(r) /\ ~lapsed => Owes(r)' \/ project.profile = lease
    BY <1>t, <1>a, <1>b DEF Owes, Standing, Outside, Inflight, Owning, Building, ForModern, Rebuilds
  <2>3. owner' = r /\ req'[r].phase = "rebuild-default"
          => owner = r /\ req[r].phase = "rebuild-default"
    BY <1>t, <1>a, <1>b DEF Standing, Outside, Inflight, Owning, Building, ForModern, Rebuilds
  <2>4. r \in readers' /\ req'[r].at \in Inflight
          => \/ owner' = None
             \/ r \in readers /\ req[r].at \in Inflight /\ req'[r].overtaken = req[r].overtaken
    BY <1>t, <1>a, <1>b DEF Standing, Outside, Inflight, Owning, Building, ForModern, Rebuilds
  <2>5. QED
    BY <1>1, <1>2, <1>3, <1>4, <1>5, <1>a, <2>1, <2>2, <2>3, <2>4, LocalStep DEF user

\* The exclusive side.
LEMMA EnterAloneKeeps ==
  ASSUME Inv, NEW r \in Requests, EnterAlone(r)
  PROVE  Inv'
<1> USE NoRequest
<1>t. Typed /\ Standing(r) /\ Own(r) /\ Leased(r) /\ Held /\ (writer # None => readers = {})
  BY DEF Inv, Locked, Own, Fenced
<1>u. req \in [Requests -> Records] /\ files \in Digests
  BY <1>t DEF Typed
<1>a. PICK phase \in {"modern", "request"} :
      /\ req[r].at = "sync" \/ (req[r].at = "enter" /\ req[r].kind # "call")
      /\ readers = {} /\ writer = None
      /\ phase = "modern" <=> req[r].at = "sync"
      /\ req' = [req EXCEPT ![r].at = "lock", ![r].before = lease, ![r].phase = phase]
      /\ writer' = r
      /\ UNCHANGED <<era, files, trusted, changes, readers, owner, project, endpoint, lease,
                     decided, lapsed>>
  BY <1>u DEF EnterAlone, At, user, barrier
<1>b. /\ req'[r].at = "lock"
      /\ req'[r].before = lease
      /\ req'[r].phase = phase
      /\ req'[r].kind = req[r].kind /\ req'[r].want = req[r].want
      /\ req'[r].digest = req[r].digest /\ req'[r].fence = req[r].fence
      /\ req'[r].gate = req[r].gate /\ req'[r].trust = req[r].trust
      /\ req'[r].quiet = req[r].quiet /\ req'[r].held = req[r].held
      /\ req'[r].overtaken = req[r].overtaken
  BY <1>u, <1>a DEF Records
<1>1. OfRequest(r)
  <2>1. "lock" \in Places /\ lease \in Toolsets \cup {None} /\ phase \in Phases
    BY <1>t, <1>a DEF Typed, Places, Phases, Kinds, Outside, Inflight, Owning, Building, ForModern,
       Rebuilds
  <2>2. [req[r] EXCEPT !.at = "lock", !.before = lease, !.phase = phase] \in Records
    BY <1>u, <2>1, Retyped
  <2>3. req' = [req EXCEPT ![r] = [req[r] EXCEPT !.at = "lock", !.before = lease, !.phase = phase]]
    BY <1>a
  <2>4. QED
    BY <1>u, <2>2, <2>3 DEF OfRequest
<1>2. LocksOf(r)
  BY <1>t, <1>a, <1>b DEF LocksOf, Typed, Standing, Outside, Inflight, Owning, Building, ForModern,
     Rebuilds
<1>3. Standing(r)'
  BY <1>t, <1>a, <1>b DEF Standing, Kinds, Outside, Inflight, Owning, Building, ForModern, Rebuilds
<1>4. Own(r)'
  <2>1. req'[r].at \in Building => Builds(r)'
    BY <1>t, <1>u, <1>a, <1>b DEF Own, Builds, Building
  <2>2. Reads(r)'
    BY <1>t, <1>u, <1>a, <1>b DEF Own, Reads
  <2>3. Follows(r)'
    BY <1>t, <1>u, <1>a, <1>b DEF Own, Follows
  <2>4. Verifies(r)'
    BY <1>t, <1>u, <1>a, <1>b DEF Own, Verifies, Inflight
  <2>5. QED
    BY <2>1, <2>2, <2>3, <2>4 DEF Own
<1>5. Leased(r)'
  BY <1>t, <1>a, <1>b DEF Leased, Owes, Standing, Outside, Inflight, Owning, Building, ForModern,
     Rebuilds
<1>6. QED
  <2>1. decided' \in BOOLEAN
    BY <1>t, <1>a DEF Typed
  <2>2. Owes(r) /\ ~lapsed => Owes(r)' \/ project.profile = lease
    BY <1>t, <1>a, <1>b DEF Owes, Standing, Outside, Inflight, Owning, Building, ForModern, Rebuilds
  <2>3. owner' = r /\ req'[r].phase = "rebuild-default"
          => owner = r /\ req[r].phase = "rebuild-default"
    BY <1>t, <1>a, <1>b DEF Standing, Outside, Inflight, Owning, Building, ForModern, Rebuilds
  <2>4. r \in readers' /\ req'[r].at \in Inflight
          => \/ owner' = None
             \/ r \in readers /\ req[r].at \in Inflight /\ req'[r].overtaken = req[r].overtaken
    BY <1>t, <1>a, <1>b DEF Standing, Outside, Inflight, Owning, Building, ForModern, Rebuilds
  <2>5. QED
    BY <1>1, <1>2, <1>3, <1>4, <1>5, <1>a, <2>1, <2>2, <2>3, <2>4, LocalStep DEF user

\* The shared side.
LEMMA EnterSharedKeeps ==
  ASSUME Inv, NEW r \in Requests, EnterShared(r)
  PROVE  Inv'
<1> USE NoRequest
<1>t. Typed /\ Standing(r) /\ Own(r) /\ Leased(r) /\ Held /\ (writer # None => readers = {})
  BY DEF Inv, Locked, Own, Fenced
<1>u. req \in [Requests -> Records] /\ files \in Digests
  BY <1>t DEF Typed
<1>a. /\ req[r].at = "enter" /\ req[r].kind = "call" /\ writer = None
      /\ req' = [req EXCEPT ![r].at = "lock", ![r].phase = "request"]
      /\ readers' = readers \cup {r}
      /\ UNCHANGED <<era, files, trusted, changes, writer, owner, project, endpoint, lease,
                     decided, lapsed>>
  BY <1>u DEF EnterShared, At, user, barrier
<1>b. /\ req'[r].at = "lock"
      /\ req'[r].phase = "request"
      /\ req'[r].kind = req[r].kind /\ req'[r].want = req[r].want
      /\ req'[r].digest = req[r].digest /\ req'[r].fence = req[r].fence
      /\ req'[r].before = req[r].before /\ req'[r].gate = req[r].gate
      /\ req'[r].trust = req[r].trust /\ req'[r].quiet = req[r].quiet
      /\ req'[r].held = req[r].held /\ req'[r].overtaken = req[r].overtaken
  BY <1>u, <1>a DEF Records
<1>1. OfRequest(r)
  <2>1. "lock" \in Places /\ "request" \in Phases
    BY <1>t, <1>a DEF Typed, Places, Phases, Kinds, Outside, Inflight, Owning, Building, ForModern,
       Rebuilds
  <2>2. [req[r] EXCEPT !.at = "lock", !.phase = "request"] \in Records
    BY <1>u, <2>1, Retyped
  <2>3. req' = [req EXCEPT ![r] = [req[r] EXCEPT !.at = "lock", !.phase = "request"]]
    BY <1>a
  <2>4. QED
    BY <1>u, <2>2, <2>3 DEF OfRequest
<1>2. LocksOf(r)
  BY <1>t, <1>a, <1>b DEF LocksOf, Typed, Standing, Outside, Inflight, Owning, Building, ForModern,
     Rebuilds
<1>3. Standing(r)'
  BY <1>t, <1>a, <1>b DEF Standing, Kinds, Outside, Inflight, Owning, Building, ForModern, Rebuilds
<1>4. Own(r)'
  <2>1. req'[r].at \in Building => Builds(r)'
    BY <1>t, <1>u, <1>a, <1>b DEF Own, Builds, Building
  <2>2. Reads(r)'
    BY <1>t, <1>u, <1>a, <1>b DEF Own, Reads
  <2>3. Follows(r)'
    BY <1>t, <1>u, <1>a, <1>b DEF Own, Follows
  <2>4. Verifies(r)'
    BY <1>t, <1>u, <1>a, <1>b DEF Own, Verifies, Inflight
  <2>5. QED
    BY <2>1, <2>2, <2>3, <2>4 DEF Own
<1>5. Leased(r)'
  BY <1>t, <1>a, <1>b DEF Leased, Owes, Standing, Outside, Inflight, Owning, Building, ForModern,
     Rebuilds
<1>6. QED
  <2>1. decided' \in BOOLEAN
    BY <1>t, <1>a DEF Typed
  <2>2. Owes(r) /\ ~lapsed => Owes(r)' \/ project.profile = lease
    BY <1>t, <1>a, <1>b DEF Owes, Standing, Outside, Inflight, Owning, Building, ForModern, Rebuilds
  <2>3. owner' = r /\ req'[r].phase = "rebuild-default"
          => owner = r /\ req[r].phase = "rebuild-default"
    BY <1>t, <1>a, <1>b DEF Standing, Outside, Inflight, Owning, Building, ForModern, Rebuilds
  <2>4. r \in readers' /\ req'[r].at \in Inflight
          => \/ owner' = None
             \/ r \in readers /\ req[r].at \in Inflight /\ req'[r].overtaken = req[r].overtaken
    BY <1>t, <1>a, <1>b DEF Standing, Outside, Inflight, Owning, Building, ForModern, Rebuilds
  <2>5. QED
    BY <1>1, <1>2, <1>3, <1>4, <1>5, <1>a, <2>1, <2>2, <2>3, <2>4, LocalStep DEF user

\* The mutex, and the first refresh under it.
LEMMA LockKeeps ==
  ASSUME Inv, NEW r \in Requests, Lock(r)
  PROVE  Inv'
<1> USE NoRequest
<1>t. Typed /\ Standing(r) /\ Own(r) /\ Leased(r) /\ Held /\ (writer # None => readers = {})
  BY DEF Inv, Locked, Own, Fenced
<1>u. req \in [Requests -> Records] /\ files \in Digests
  BY <1>t DEF Typed
<1>a. PICK phase \in {"default", "snapshot", req[r].phase} :
      /\ req[r].at = "lock" /\ owner = None
      /\ req[r].phase # "request" => phase = req[r].phase
      /\ req[r].phase = "request" => phase \in {"default", "snapshot"}
      /\ req[r].phase = "request" /\ phase = "default" => lease = None /\ req[r].kind \notin {"open", "close"}
      /\ req' = [req EXCEPT ![r].at = "check",
                          ![r].digest = files,
                          ![r].quiet = TRUE,
                          ![r].phase = phase]
      /\ owner' = r
      /\ decided' \in BOOLEAN
      /\ UNCHANGED <<era, files, trusted, changes, readers, writer, project, endpoint, lease, lapsed>>
  BY <1>u DEF Lock, At, user, barrier
<1>b. /\ req'[r].at = "check"
      /\ req'[r].digest = files
      /\ req'[r].quiet = TRUE
      /\ req'[r].phase = phase
      /\ req'[r].kind = req[r].kind /\ req'[r].want = req[r].want
      /\ req'[r].fence = req[r].fence /\ req'[r].before = req[r].before
      /\ req'[r].gate = req[r].gate /\ req'[r].trust = req[r].trust
      /\ req'[r].held = req[r].held /\ req'[r].overtaken = req[r].overtaken
  BY <1>u, <1>a DEF Records
<1>1. OfRequest(r)
  <2>1. "check" \in Places /\ files \in Digests /\ phase \in Phases
    BY <1>t, <1>a, Fields DEF Typed, Places, Phases, Kinds, Outside, Inflight, Owning, Building,
       ForModern, Rebuilds
  <2>2. [req[r] EXCEPT !.at = "check", !.digest = files, !.quiet = TRUE, !.phase = phase] \in Records
    BY <1>u, <2>1, Retyped
  <2>3. req' = [req EXCEPT ![r] = [req[r] EXCEPT !.at = "check", !.digest = files, !.quiet = TRUE, !.phase = phase]]
    BY <1>a
  <2>4. QED
    BY <1>u, <2>2, <2>3 DEF OfRequest
<1>2. LocksOf(r)
  BY <1>t, <1>a, <1>b DEF LocksOf, Typed, Standing, Outside, Inflight, Owning, Building, ForModern,
     Rebuilds
<1>3. Standing(r)'
  BY <1>t, <1>a, <1>b DEF Standing, Kinds, Outside, Inflight, Owning, Building, ForModern, Rebuilds
<1>4. Own(r)'
  <2>1. req'[r].at \in Building => Builds(r)'
    BY <1>t, <1>u, <1>a, <1>b DEF Own, Builds, Building
  <2>2. Reads(r)'
    BY <1>t, <1>u, <1>a, <1>b DEF Own, Reads
  <2>3. Follows(r)'
    BY <1>t, <1>u, <1>a, <1>b DEF Own, Follows
  <2>4. Verifies(r)'
    BY <1>t, <1>u, <1>a, <1>b DEF Own, Verifies, Inflight
  <2>5. QED
    BY <2>1, <2>2, <2>3, <2>4 DEF Own
<1>5. Leased(r)'
  BY <1>t, <1>a, <1>b DEF Leased, Owes, Standing, Outside, Inflight, Owning, Building, ForModern,
     Rebuilds
<1>6. QED
  <2>1. decided' \in BOOLEAN
    BY <1>t, <1>a DEF Typed
  <2>2. Owes(r) /\ ~lapsed => Owes(r)' \/ project.profile = lease
    BY <1>t, <1>a, <1>b DEF Owes, Standing, Outside, Inflight, Owning, Building, ForModern, Rebuilds
  <2>3. owner' = r /\ req'[r].phase = "rebuild-default"
          => owner = r /\ req[r].phase = "rebuild-default"
    BY <1>t, <1>a, <1>b DEF Standing, Outside, Inflight, Owning, Building, ForModern, Rebuilds
  <2>4. r \in readers' /\ req'[r].at \in Inflight
          => \/ owner' = None
             \/ r \in readers /\ req[r].at \in Inflight /\ req'[r].overtaken = req[r].overtaken
    BY <1>t, <1>a, <1>b DEF Standing, Outside, Inflight, Owning, Building, ForModern, Rebuilds
  <2>5. QED
    BY <1>1, <1>2, <1>3, <1>4, <1>5, <1>a, <2>1, <2>2, <2>3, <2>4, LocalStep DEF user

\* A request opens the default toolset only where nothing is leased.
LEMMA DecideKeeps ==
  ASSUME Inv, NEW r \in Requests, Decide(r)
  PROVE  Inv'
<1> USE NoRequest
<1>t. Typed /\ Standing(r) /\ Own(r) /\ Leased(r) /\ Held /\ (writer # None => readers = {})
  BY DEF Inv, Locked, Own, Fenced
<1>u. req \in [Requests -> Records] /\ files \in Digests
  BY <1>t DEF Typed
<1>a. PICK place \in {"open", "digest"}, fence \in Toolsets \cup {None}, phase \in {"default",
          "snapshot"} :
      /\ req[r].at = "next" /\ req[r].phase = "default"
      /\ place = "open" <=> phase = "default"
      /\ req' = [req EXCEPT ![r].at = place, ![r].fence = fence, ![r].phase = phase]
      /\ decided' \in BOOLEAN
      /\ UNCHANGED <<era, files, trusted, changes, readers, writer, owner, project, endpoint,
                     lease, lapsed>>
  <2>1. Default[files] \in Toolsets \cup {None} /\ req[r].fence \in Toolsets \cup {None}
    BY <1>t, <1>u, Fields, GatewayAssumption
  <2>2. CASE project.trust /\ Default[files] # None
    <3>1. /\ req' = [req EXCEPT ![r].at = "open", ![r].fence = Default[files], ![r].phase = "default"]
          /\ decided' \in BOOLEAN
      BY <1>t, <1>u, <2>2 DEF Decide, At, Typed
    <3>2. QED
      BY <1>u, <2>1, <3>1 DEF Decide, At, barrier, user
  <2>3. CASE ~(project.trust /\ Default[files] # None)
    <3>1. /\ req' = [req EXCEPT ![r].at = "digest", ![r].fence = req[r].fence, ![r].phase = "snapshot"]
          /\ decided' \in BOOLEAN
      BY <1>t, <1>u, <2>3 DEF Decide, At, Typed
    <3>2. QED
      BY <1>u, <2>1, <3>1 DEF Decide, At, barrier, user
  <2>4. QED
    BY <2>2, <2>3
<1>b. /\ req'[r].at = place
      /\ req'[r].fence = fence
      /\ req'[r].phase = phase
      /\ req'[r].kind = req[r].kind /\ req'[r].want = req[r].want
      /\ req'[r].digest = req[r].digest /\ req'[r].before = req[r].before
      /\ req'[r].gate = req[r].gate /\ req'[r].trust = req[r].trust
      /\ req'[r].quiet = req[r].quiet /\ req'[r].held = req[r].held
      /\ req'[r].overtaken = req[r].overtaken
  BY <1>u, <1>a DEF Records
<1>1. OfRequest(r)
  <2>1. place \in Places /\ phase \in Phases
    BY <1>t, <1>a DEF Typed, Places, Phases, Kinds, Outside, Inflight, Owning, Building, ForModern,
       Rebuilds
  <2>2. [req[r] EXCEPT !.at = place, !.fence = fence, !.phase = phase] \in Records
    BY <1>u, <2>1, Retyped
  <2>3. req' = [req EXCEPT ![r] = [req[r] EXCEPT !.at = place, !.fence = fence, !.phase = phase]]
    BY <1>a
  <2>4. QED
    BY <1>u, <2>2, <2>3 DEF OfRequest
<1>2. LocksOf(r)
  BY <1>t, <1>a, <1>b DEF LocksOf, Typed, Standing, Outside, Inflight, Owning, Building, ForModern,
     Rebuilds
<1>3. Standing(r)'
  BY <1>t, <1>a, <1>b DEF Standing, Kinds, Outside, Inflight, Owning, Building, ForModern, Rebuilds
<1>4. Own(r)'
  <2>1. req'[r].at \in Building => Builds(r)'
    BY <1>t, <1>u, <1>a, <1>b DEF Own, Builds, Building
  <2>2. Reads(r)'
    BY <1>t, <1>u, <1>a, <1>b DEF Own, Reads
  <2>3. Follows(r)'
    BY <1>t, <1>u, <1>a, <1>b DEF Own, Follows
  <2>4. Verifies(r)'
    BY <1>t, <1>u, <1>a, <1>b DEF Own, Verifies, Inflight
  <2>5. QED
    BY <2>1, <2>2, <2>3, <2>4 DEF Own
<1>5. Leased(r)'
  BY <1>t, <1>a, <1>b DEF Leased, Owes, Standing, Outside, Inflight, Owning, Building, ForModern,
     Rebuilds
<1>6. QED
  <2>1. decided' \in BOOLEAN
    BY <1>t, <1>a DEF Typed
  <2>2. Owes(r) /\ ~lapsed => Owes(r)' \/ project.profile = lease
    BY <1>t, <1>a, <1>b DEF Owes, Standing, Outside, Inflight, Owning, Building, ForModern, Rebuilds
  <2>3. owner' = r /\ req'[r].phase = "rebuild-default"
          => owner = r /\ req[r].phase = "rebuild-default"
    BY <1>t, <1>a, <1>b DEF Standing, Outside, Inflight, Owning, Building, ForModern, Rebuilds
  <2>4. r \in readers' /\ req'[r].at \in Inflight
          => \/ owner' = None
             \/ r \in readers /\ req[r].at \in Inflight /\ req'[r].overtaken = req[r].overtaken
    BY <1>t, <1>a, <1>b DEF Standing, Outside, Inflight, Owning, Building, ForModern, Rebuilds
  <2>5. QED
    BY <1>1, <1>2, <1>3, <1>4, <1>5, <1>a, <2>1, <2>2, <2>3, <2>4, LocalStep DEF user

\* A request arrives.
LEMMA ArriveKeeps ==
  ASSUME Inv, NEW r \in Requests, Arrive(r)
  PROVE  Inv'
<1> USE NoRequest
<1>t. Typed /\ Standing(r) /\ Own(r) /\ Leased(r) /\ Held /\ (writer # None => readers = {})
  BY DEF Inv, Locked, Own, Fenced
<1>u. req \in [Requests -> Records] /\ files \in Digests
  BY <1>t DEF Typed
<1> DEFINE place == IF era = "modern" THEN "sync" ELSE "enter"
<1>p. PICK kind \in {"call", "search", "open", "close"}, want \in Toolsets \cup {None} :
      /\ era = "modern" => kind \notin {"open", "close"}
      /\ req' = [req EXCEPT ![r].kind = kind, ![r].want = want, ![r].at = place]
  BY DEF Arrive
<1>q. place \in {"sync", "enter"} /\ (place = "sync" => kind \notin {"open", "close"})
  BY <1>p
<1> HIDE DEF place
<1>a. /\ req[r].at = "new"
      /\ place \in {"sync", "enter"}
      /\ place = "sync" => kind \notin {"open", "close"}
      /\ req' = [req EXCEPT ![r].kind = kind, ![r].want = want, ![r].at = place]
      /\ UNCHANGED <<era, files, trusted, changes, readers, writer, owner, project, endpoint,
                     lease, decided, lapsed>>
  BY <1>p, <1>q DEF Arrive, At, user, barrier
<1>b. /\ req'[r].kind = kind
      /\ req'[r].want = want
      /\ req'[r].at = place
      /\ req'[r].phase = req[r].phase /\ req'[r].digest = req[r].digest
      /\ req'[r].fence = req[r].fence /\ req'[r].before = req[r].before
      /\ req'[r].gate = req[r].gate /\ req'[r].trust = req[r].trust
      /\ req'[r].quiet = req[r].quiet /\ req'[r].held = req[r].held
      /\ req'[r].overtaken = req[r].overtaken
  BY <1>u, <1>a DEF Records
<1>1. OfRequest(r)
  <2>1. kind \in Kinds /\ place \in Places
    BY <1>t, <1>a DEF Typed, Places, Phases, Kinds, Outside, Inflight, Owning, Building, ForModern,
       Rebuilds
  <2>2. [req[r] EXCEPT !.kind = kind, !.want = want, !.at = place] \in Records
    BY <1>u, <2>1, Retyped
  <2>3. req' = [req EXCEPT ![r] = [req[r] EXCEPT !.kind = kind, !.want = want, !.at = place]]
    BY <1>a
  <2>4. QED
    BY <1>u, <2>2, <2>3 DEF OfRequest
<1>2. LocksOf(r)
  BY <1>t, <1>a, <1>b DEF LocksOf, Typed, Standing, Outside, Inflight, Owning, Building, ForModern,
     Rebuilds
<1>3. Standing(r)'
  BY <1>t, <1>a, <1>b DEF Standing, Kinds, Outside, Inflight, Owning, Building, ForModern, Rebuilds
<1>4. Own(r)'
  <2>1. req'[r].at \in Building => Builds(r)'
    BY <1>t, <1>u, <1>a, <1>b DEF Own, Builds, Building
  <2>2. Reads(r)'
    BY <1>t, <1>u, <1>a, <1>b DEF Own, Reads
  <2>3. Follows(r)'
    BY <1>t, <1>u, <1>a, <1>b DEF Own, Follows
  <2>4. Verifies(r)'
    BY <1>t, <1>u, <1>a, <1>b DEF Own, Verifies, Inflight
  <2>5. QED
    BY <2>1, <2>2, <2>3, <2>4 DEF Own
<1>5. Leased(r)'
  BY <1>t, <1>a, <1>b DEF Leased, Owes, Standing, Outside, Inflight, Owning, Building, ForModern,
     Rebuilds
<1>6. QED
  <2>1. decided' \in BOOLEAN
    BY <1>t, <1>a DEF Typed
  <2>2. Owes(r) /\ ~lapsed => Owes(r)' \/ project.profile = lease
    BY <1>t, <1>a, <1>b DEF Owes, Standing, Outside, Inflight, Owning, Building, ForModern, Rebuilds
  <2>3. owner' = r /\ req'[r].phase = "rebuild-default"
          => owner = r /\ req[r].phase = "rebuild-default"
    BY <1>t, <1>a, <1>b DEF Standing, Outside, Inflight, Owning, Building, ForModern, Rebuilds
  <2>4. r \in readers' /\ req'[r].at \in Inflight
          => \/ owner' = None
             \/ r \in readers /\ req[r].at \in Inflight /\ req'[r].overtaken = req[r].overtaken
    BY <1>t, <1>a, <1>b DEF Standing, Outside, Inflight, Owning, Building, ForModern, Rebuilds
  <2>5. QED
    BY <1>1, <1>2, <1>3, <1>4, <1>5, <1>a, <2>1, <2>2, <2>3, <2>4, LocalStep DEF user

\* The gateway serves the call: its verification begins.
LEMMA ServedKeeps ==
  ASSUME Inv, NEW r \in Requests, req[r].at = "dispatch", Serves(req[r].gate),
         req' = [req EXCEPT ![r].at = "verify",
                             ![r].quiet = FALSE,
                             ![r].trust = FALSE,
                             ![r].held = Consented(req[r].gate.anchor)],
         UNCHANGED <<era, files, trusted, changes, readers, writer, owner, project, endpoint,
                     lease, decided, lapsed>>
  PROVE  Inv'
<1> USE NoRequest
<1>t. Typed /\ Standing(r) /\ Own(r) /\ Leased(r) /\ Held /\ (writer # None => readers = {})
  BY DEF Inv, Locked, Own, Fenced
<1>u. req \in [Requests -> Records] /\ files \in Digests
  BY <1>t DEF Typed
<1>b. /\ req'[r].at = "verify"
      /\ req'[r].quiet = FALSE
      /\ req'[r].trust = FALSE
      /\ req'[r].held = Consented(req[r].gate.anchor)
      /\ req'[r].kind = req[r].kind /\ req'[r].want = req[r].want
      /\ req'[r].phase = req[r].phase /\ req'[r].digest = req[r].digest
      /\ req'[r].fence = req[r].fence /\ req'[r].before = req[r].before
      /\ req'[r].gate = req[r].gate /\ req'[r].overtaken = req[r].overtaken
  BY <1>u DEF Records
<1>1. OfRequest(r)
  <2>1. "verify" \in Places /\ Consented(req[r].gate.anchor) \in BOOLEAN
    BY <1>t DEF Typed, Places, Phases, Kinds, Outside, Inflight, Owning, Building, ForModern,
       Rebuilds, Consented
  <2>2. [req[r] EXCEPT !.at = "verify",
                         !.quiet = FALSE,
                         !.trust = FALSE,
                         !.held = Consented(req[r].gate.anchor)] \in Records
    BY <1>u, <2>1, Retyped
  <2>3. req' = [req EXCEPT ![r] = [req[r] EXCEPT !.at = "verify",
                         !.quiet = FALSE,
                         !.trust = FALSE,
                         !.held = Consented(req[r].gate.anchor)]]
    OBVIOUS
  <2>4. QED
    BY <1>u, <2>2, <2>3 DEF OfRequest
<1>2. LocksOf(r)
  BY <1>t, <1>b DEF LocksOf, Typed, Standing, Outside, Inflight, Owning, Building, ForModern, Rebuilds
<1>3. Standing(r)'
  BY <1>t, <1>b DEF Standing, Kinds, Outside, Inflight, Owning, Building, ForModern, Rebuilds
<1>4. Own(r)'
  <2>1. req'[r].at \in Building => Builds(r)'
    BY <1>t, <1>u, <1>b DEF Own, Builds, Building
  <2>2. Reads(r)'
    BY <1>t, <1>u, <1>b DEF Own, Reads
  <2>3. Follows(r)'
    BY <1>t, <1>u, <1>b DEF Own, Follows
  <2>4. Verifies(r)'
    BY <1>t, <1>u, <1>b DEF Own, Verifies, Inflight, Serves, Consented
  <2>5. QED
    BY <2>1, <2>2, <2>3, <2>4 DEF Own
<1>5. Leased(r)'
  BY <1>t, <1>b DEF Leased, Owes, Standing, Outside, Inflight, Owning, Building, ForModern, Rebuilds
<1>6. QED
  <2>1. decided' \in BOOLEAN
    BY <1>t DEF Typed
  <2>2. Owes(r) /\ ~lapsed => Owes(r)' \/ project.profile = lease
    BY <1>t, <1>b DEF Owes, Standing, Outside, Inflight, Owning, Building, ForModern, Rebuilds
  <2>3. owner' = r /\ req'[r].phase = "rebuild-default"
          => owner = r /\ req[r].phase = "rebuild-default"
    BY <1>t, <1>b DEF Standing, Outside, Inflight, Owning, Building, ForModern, Rebuilds
  <2>4. r \in readers' /\ req'[r].at \in Inflight
          => \/ owner' = None
             \/ r \in readers /\ req[r].at \in Inflight /\ req'[r].overtaken = req[r].overtaken
    BY <1>t, <1>b DEF Standing, Outside, Inflight, Owning, Building, ForModern, Rebuilds
  <2>5. QED
    BY <1>1, <1>2, <1>3, <1>4, <1>5, <2>1, <2>2, <2>3, <2>4, LocalStep DEF user

\* The bytes are those of the anchor.
LEMMA SameBytesKeeps ==
  ASSUME Inv, NEW r \in Requests, req[r].at = "verify", req[r].gate.anchor \in {None, files},
         req' = [req EXCEPT ![r].at = "verify-store"],
         UNCHANGED <<era, files, trusted, changes, readers, writer, owner, project, endpoint,
                     lease, decided, lapsed>>
  PROVE  Inv'
<1> USE NoRequest
<1>t. Typed /\ Standing(r) /\ Own(r) /\ Leased(r) /\ Held /\ (writer # None => readers = {})
  BY DEF Inv, Locked, Own, Fenced
<1>u. req \in [Requests -> Records] /\ files \in Digests
  BY <1>t DEF Typed
<1>b. /\ req'[r].at = "verify-store"
      /\ req'[r].kind = req[r].kind /\ req'[r].want = req[r].want
      /\ req'[r].phase = req[r].phase /\ req'[r].digest = req[r].digest
      /\ req'[r].fence = req[r].fence /\ req'[r].before = req[r].before
      /\ req'[r].gate = req[r].gate /\ req'[r].trust = req[r].trust
      /\ req'[r].quiet = req[r].quiet /\ req'[r].held = req[r].held
      /\ req'[r].overtaken = req[r].overtaken
  BY <1>u DEF Records
<1>1. OfRequest(r)
  <2>1. "verify-store" \in Places
    BY <1>t DEF Typed, Places, Phases, Kinds, Outside, Inflight, Owning, Building, ForModern, Rebuilds
  <2>2. [req[r] EXCEPT !.at = "verify-store"] \in Records
    BY <1>u, <2>1, Retyped
  <2>3. req' = [req EXCEPT ![r] = [req[r] EXCEPT !.at = "verify-store"]]
    OBVIOUS
  <2>4. QED
    BY <1>u, <2>2, <2>3 DEF OfRequest
<1>2. LocksOf(r)
  BY <1>t, <1>b DEF LocksOf, Typed, Standing, Outside, Inflight, Owning, Building, ForModern, Rebuilds
<1>3. Standing(r)'
  BY <1>t, <1>b DEF Standing, Kinds, Outside, Inflight, Owning, Building, ForModern, Rebuilds
<1>4. Own(r)'
  <2>1. req'[r].at \in Building => Builds(r)'
    BY <1>t, <1>u, <1>b DEF Own, Builds, Building
  <2>2. Reads(r)'
    BY <1>t, <1>u, <1>b DEF Own, Reads
  <2>3. Follows(r)'
    BY <1>t, <1>u, <1>b DEF Own, Follows
  <2>4. Verifies(r)'
    BY <1>t, <1>u, <1>b DEF Own, Verifies, Inflight, Consented
  <2>5. QED
    BY <2>1, <2>2, <2>3, <2>4 DEF Own
<1>5. Leased(r)'
  BY <1>t, <1>b DEF Leased, Owes, Standing, Outside, Inflight, Owning, Building, ForModern, Rebuilds
<1>6. QED
  <2>1. decided' \in BOOLEAN
    BY <1>t DEF Typed
  <2>2. Owes(r) /\ ~lapsed => Owes(r)' \/ project.profile = lease
    BY <1>t, <1>b DEF Owes, Standing, Outside, Inflight, Owning, Building, ForModern, Rebuilds
  <2>3. owner' = r /\ req'[r].phase = "rebuild-default"
          => owner = r /\ req[r].phase = "rebuild-default"
    BY <1>t, <1>b DEF Standing, Outside, Inflight, Owning, Building, ForModern, Rebuilds
  <2>4. r \in readers' /\ req'[r].at \in Inflight
          => \/ owner' = None
             \/ r \in readers /\ req[r].at \in Inflight /\ req'[r].overtaken = req[r].overtaken
    BY <1>t, <1>b DEF Standing, Outside, Inflight, Owning, Building, ForModern, Rebuilds
  <2>5. QED
    BY <1>1, <1>2, <1>3, <1>4, <1>5, <2>1, <2>2, <2>3, <2>4, LocalStep DEF user

\* The store still says yes to them.
LEMMA ForwardedKeeps ==
  ASSUME Inv, NEW r \in Requests, req[r].at = "verify-store", req[r].gate.anchor \in {None, trusted},
         req' = [req EXCEPT ![r].at = "forwarded"],
         UNCHANGED <<era, files, trusted, changes, readers, writer, owner, project, endpoint,
                     lease, decided, lapsed>>
  PROVE  Inv'
<1> USE NoRequest
<1>t. Typed /\ Standing(r) /\ Own(r) /\ Leased(r) /\ Held /\ (writer # None => readers = {})
  BY DEF Inv, Locked, Own, Fenced
<1>u. req \in [Requests -> Records] /\ files \in Digests
  BY <1>t DEF Typed
<1>b. /\ req'[r].at = "forwarded"
      /\ req'[r].kind = req[r].kind /\ req'[r].want = req[r].want
      /\ req'[r].phase = req[r].phase /\ req'[r].digest = req[r].digest
      /\ req'[r].fence = req[r].fence /\ req'[r].before = req[r].before
      /\ req'[r].gate = req[r].gate /\ req'[r].trust = req[r].trust
      /\ req'[r].quiet = req[r].quiet /\ req'[r].held = req[r].held
      /\ req'[r].overtaken = req[r].overtaken
  BY <1>u DEF Records
<1>1. OfRequest(r)
  <2>1. "forwarded" \in Places
    BY <1>t DEF Typed, Places, Phases, Kinds, Outside, Inflight, Owning, Building, ForModern, Rebuilds
  <2>2. [req[r] EXCEPT !.at = "forwarded"] \in Records
    BY <1>u, <2>1, Retyped
  <2>3. req' = [req EXCEPT ![r] = [req[r] EXCEPT !.at = "forwarded"]]
    OBVIOUS
  <2>4. QED
    BY <1>u, <2>2, <2>3 DEF OfRequest
<1>2. LocksOf(r)
  BY <1>t, <1>b DEF LocksOf, Typed, Standing, Outside, Inflight, Owning, Building, ForModern, Rebuilds
<1>3. Standing(r)'
  BY <1>t, <1>b DEF Standing, Kinds, Outside, Inflight, Owning, Building, ForModern, Rebuilds
<1>4. Own(r)'
  <2>1. req'[r].at \in Building => Builds(r)'
    BY <1>t, <1>u, <1>b DEF Own, Builds, Building
  <2>2. Reads(r)'
    BY <1>t, <1>u, <1>b DEF Own, Reads
  <2>3. Follows(r)'
    BY <1>t, <1>u, <1>b DEF Own, Follows
  <2>4. Verifies(r)'
    BY <1>t, <1>u, <1>b DEF Own, Verifies, Inflight, Consented
  <2>5. QED
    BY <2>1, <2>2, <2>3, <2>4 DEF Own
<1>5. Leased(r)'
  BY <1>t, <1>b DEF Leased, Owes, Standing, Outside, Inflight, Owning, Building, ForModern, Rebuilds
<1>6. QED
  <2>1. decided' \in BOOLEAN
    BY <1>t DEF Typed
  <2>2. Owes(r) /\ ~lapsed => Owes(r)' \/ project.profile = lease
    BY <1>t, <1>b DEF Owes, Standing, Outside, Inflight, Owning, Building, ForModern, Rebuilds
  <2>3. owner' = r /\ req'[r].phase = "rebuild-default"
          => owner = r /\ req[r].phase = "rebuild-default"
    BY <1>t, <1>b DEF Standing, Outside, Inflight, Owning, Building, ForModern, Rebuilds
  <2>4. r \in readers' /\ req'[r].at \in Inflight
          => \/ owner' = None
             \/ r \in readers /\ req[r].at \in Inflight /\ req'[r].overtaken = req[r].overtaken
    BY <1>t, <1>b DEF Standing, Outside, Inflight, Owning, Building, ForModern, Rebuilds
  <2>5. QED
    BY <1>1, <1>2, <1>3, <1>4, <1>5, <2>1, <2>2, <2>3, <2>4, LocalStep DEF user

\* The request gets its own handle to the gateway.
LEMMA HandleKeeps ==
  ASSUME Inv, NEW r \in Requests, req[r].at = "next", req[r].phase = "snapshot", project.built,
         req' = [req EXCEPT ![r].at = "dispatch",
                             ![r].phase = "none",
                             ![r].gate = project.gateway,
                             ![r].trust = project.trust],
         owner' = None,
         UNCHANGED <<era, files, trusted, changes, readers, writer, project, endpoint, lease,
                     decided, lapsed>>
  PROVE  Inv'
<1> USE NoRequest
<1>t. Typed /\ Standing(r) /\ Own(r) /\ Leased(r) /\ Held /\ (writer # None => readers = {})
  BY DEF Inv, Locked, Own, Fenced
<1>u. req \in [Requests -> Records] /\ files \in Digests
  BY <1>t DEF Typed
<1>b. /\ req'[r].at = "dispatch"
      /\ req'[r].phase = "none"
      /\ req'[r].gate = project.gateway
      /\ req'[r].trust = project.trust
      /\ req'[r].kind = req[r].kind /\ req'[r].want = req[r].want
      /\ req'[r].digest = req[r].digest /\ req'[r].fence = req[r].fence
      /\ req'[r].before = req[r].before /\ req'[r].quiet = req[r].quiet
      /\ req'[r].held = req[r].held /\ req'[r].overtaken = req[r].overtaken
  BY <1>u DEF Records
<1>n. ~lapsed => project.profile = lease
  BY <1>t, NobodyOwes DEF Standing, Owes, Outside, Inflight, Owning, Building, ForModern, Rebuilds
<1>1. OfRequest(r)
  <2>1. "dispatch" \in Places /\ "none" \in Phases /\ project.gateway \in Gateways /\ project.trust \in BOOLEAN
    BY <1>t DEF Typed, Places, Phases, Kinds, Outside, Inflight, Owning, Building, ForModern, Rebuilds
  <2>2. [req[r] EXCEPT !.at = "dispatch",
                         !.phase = "none",
                         !.gate = project.gateway,
                         !.trust = project.trust] \in Records
    BY <1>u, <2>1, Retyped
  <2>3. req' = [req EXCEPT ![r] = [req[r] EXCEPT !.at = "dispatch",
                         !.phase = "none",
                         !.gate = project.gateway,
                         !.trust = project.trust]]
    OBVIOUS
  <2>4. QED
    BY <1>u, <2>2, <2>3 DEF OfRequest
<1>2. LocksOf(r)
  BY <1>t, <1>b DEF LocksOf, Typed, Standing, Outside, Inflight, Owning, Building, ForModern, Rebuilds
<1>3. Standing(r)'
  BY <1>t, <1>b DEF Standing, Kinds, Outside, Inflight, Owning, Building, ForModern, Rebuilds
<1>4. Own(r)'
  <2>1. req'[r].at \in Building => Builds(r)'
    BY <1>t, <1>u, <1>b DEF Own, Builds, Building
  <2>2. Reads(r)'
    BY <1>t, <1>u, <1>b DEF Own, Reads
  <2>3. Follows(r)'
    BY <1>t, <1>u, <1>b DEF Own, Follows, Reads, Held, Empty, Gateways, Typed
  <2>4. Verifies(r)'
    BY <1>t, <1>u, <1>b DEF Own, Verifies, Inflight, Held
  <2>5. QED
    BY <2>1, <2>2, <2>3, <2>4 DEF Own
<1>5. Leased(r)'
  <2>1. ~Owes(r)' /\ req'[r].at \notin Building \cup Owning
    BY <1>b DEF Owes, Building, Owning, Rebuilds
  <2>2. req'[r].kind \in {"open", "close"} => req'[r].before = lease
    BY <1>t, <1>b DEF Leased, Outside, Inflight
  <2>3. ~lapsed => req'[r].gate.def = None \/ req'[r].gate.fence = lease
    BY <1>t, <1>n, <1>b DEF Held
  <2>4. QED
    BY <2>1, <2>2, <2>3 DEF Leased
<1>6. QED
  <2>1. decided' \in BOOLEAN
    BY <1>t DEF Typed
  <2>2. Owes(r) /\ ~lapsed => Owes(r)' \/ project.profile = lease
    BY <1>t, <1>b DEF Owes, Standing, Outside, Inflight, Owning, Building, ForModern, Rebuilds
  <2>3. owner' = r /\ req'[r].phase = "rebuild-default"
          => owner = r /\ req[r].phase = "rebuild-default"
    BY <1>t, <1>b DEF Standing, Outside, Inflight, Owning, Building, ForModern, Rebuilds
  <2>4. r \in readers' /\ req'[r].at \in Inflight
          => \/ owner' = None
             \/ r \in readers /\ req[r].at \in Inflight /\ req'[r].overtaken = req[r].overtaken
    BY <1>t, <1>b DEF Standing, Outside, Inflight, Owning, Building, ForModern, Rebuilds
  <2>5. QED
    BY <1>1, <1>2, <1>3, <1>4, <1>5, <2>1, <2>2, <2>3, <2>4, LocalStep DEF user

\* The first request that gets this far builds the gateway.
LEMMA FirstBuildKeeps ==
  ASSUME Inv, NEW r \in Requests, req[r].at = "next", req[r].phase = "snapshot", ~project.built,
         req' = [req EXCEPT ![r].at = "build",
                             ![r].fence = None,
                             ![r].gate = [Empty EXCEPT !.torn = ~req[r].quiet]],
         UNCHANGED <<era, files, trusted, changes, readers, writer, owner, project, endpoint,
                     lease, decided, lapsed>>
  PROVE  Inv'
<1> USE NoRequest
<1>t. Typed /\ Standing(r) /\ Own(r) /\ Leased(r) /\ Held /\ (writer # None => readers = {})
  BY DEF Inv, Locked, Own, Fenced
<1>u. req \in [Requests -> Records] /\ files \in Digests
  BY <1>t DEF Typed
<1>b. /\ req'[r].at = "build"
      /\ req'[r].fence = None
      /\ req'[r].gate = [Empty EXCEPT !.torn = ~req[r].quiet]
      /\ req'[r].kind = req[r].kind /\ req'[r].want = req[r].want
      /\ req'[r].phase = req[r].phase /\ req'[r].digest = req[r].digest
      /\ req'[r].before = req[r].before /\ req'[r].trust = req[r].trust
      /\ req'[r].quiet = req[r].quiet /\ req'[r].held = req[r].held
      /\ req'[r].overtaken = req[r].overtaken
      /\ req'[r].gate.torn = ~req[r].quiet
  BY <1>u DEF Records, Gateways, Empty
<1>1. OfRequest(r)
  <2>1. "build" \in Places
    BY <1>t DEF Typed, Places, Phases, Kinds, Outside, Inflight, Owning, Building, ForModern, Rebuilds
  <2>g. [Empty EXCEPT !.torn = ~req[r].quiet] \in Gateways
    BY <1>t, <2>1, Fields DEF Gateways, Empty
  <2>2. [req[r] EXCEPT !.at = "build",
                         !.fence = None,
                         !.gate = [Empty EXCEPT !.torn = ~req[r].quiet]] \in Records
    BY <1>u, <2>1, <2>g, Retyped
  <2>3. req' = [req EXCEPT ![r] = [req[r] EXCEPT !.at = "build",
                         !.fence = None,
                         !.gate = [Empty EXCEPT !.torn = ~req[r].quiet]]]
    OBVIOUS
  <2>4. QED
    BY <1>u, <2>2, <2>3 DEF OfRequest
<1>2. LocksOf(r)
  BY <1>t, <1>b DEF LocksOf, Typed, Standing, Outside, Inflight, Owning, Building, ForModern, Rebuilds
<1>3. Standing(r)'
  BY <1>t, <1>b DEF Standing, Kinds, Outside, Inflight, Owning, Building, ForModern, Rebuilds
<1>4. Own(r)'
  <2>1. req'[r].at \in Building => Builds(r)'
    BY <1>t, <1>u, <1>b DEF Own, Builds, Building, Reads
  <2>2. Reads(r)'
    BY <1>t, <1>u, <1>b DEF Own, Reads
  <2>3. Follows(r)'
    BY <1>t, <1>u, <1>b DEF Own, Follows
  <2>4. Verifies(r)'
    BY <1>t, <1>u, <1>b DEF Own, Verifies, Inflight
  <2>5. QED
    BY <2>1, <2>2, <2>3, <2>4 DEF Own
<1>5. Leased(r)'
  BY <1>t, <1>b DEF Leased, Owes, Standing, Outside, Inflight, Owning, Building, ForModern,
     Rebuilds, Held
<1>6. QED
  <2>1. decided' \in BOOLEAN
    BY <1>t DEF Typed
  <2>2. Owes(r) /\ ~lapsed => Owes(r)' \/ project.profile = lease
    BY <1>t, <1>b DEF Owes, Standing, Outside, Inflight, Owning, Building, ForModern, Rebuilds
  <2>3. owner' = r /\ req'[r].phase = "rebuild-default"
          => owner = r /\ req[r].phase = "rebuild-default"
    BY <1>t, <1>b DEF Standing, Outside, Inflight, Owning, Building, ForModern, Rebuilds
  <2>4. r \in readers' /\ req'[r].at \in Inflight
          => \/ owner' = None
             \/ r \in readers /\ req[r].at \in Inflight /\ req'[r].overtaken = req[r].overtaken
    BY <1>t, <1>b DEF Standing, Outside, Inflight, Owning, Building, ForModern, Rebuilds
  <2>5. QED
    BY <1>1, <1>2, <1>3, <1>4, <1>5, <2>1, <2>2, <2>3, <2>4, LocalStep DEF user

\* After the rebuild for the default toolset comes the request itself.
LEMMA DefaultRebuiltKeeps ==
  ASSUME Inv, NEW r \in Requests, req[r].at = "next", req[r].phase = "rebuild-default",
         req' = [req EXCEPT ![r].at = "digest", ![r].phase = "snapshot"],
         UNCHANGED <<era, files, trusted, changes, readers, writer, owner, project, endpoint,
                     lease, decided, lapsed>>
  PROVE  Inv'
<1> USE NoRequest
<1>t. Typed /\ Standing(r) /\ Own(r) /\ Leased(r) /\ Held /\ (writer # None => readers = {})
  BY DEF Inv, Locked, Own, Fenced
<1>u. req \in [Requests -> Records] /\ files \in Digests
  BY <1>t DEF Typed
<1>b. /\ req'[r].at = "digest"
      /\ req'[r].phase = "snapshot"
      /\ req'[r].kind = req[r].kind /\ req'[r].want = req[r].want
      /\ req'[r].digest = req[r].digest /\ req'[r].fence = req[r].fence
      /\ req'[r].before = req[r].before /\ req'[r].gate = req[r].gate
      /\ req'[r].trust = req[r].trust /\ req'[r].quiet = req[r].quiet
      /\ req'[r].held = req[r].held /\ req'[r].overtaken = req[r].overtaken
  BY <1>u DEF Records
<1>1. OfRequest(r)
  <2>1. "digest" \in Places /\ "snapshot" \in Phases
    BY <1>t DEF Typed, Places, Phases, Kinds, Outside, Inflight, Owning, Building, ForModern, Rebuilds
  <2>2. [req[r] EXCEPT !.at = "digest", !.phase = "snapshot"] \in Records
    BY <1>u, <2>1, Retyped
  <2>3. req' = [req EXCEPT ![r] = [req[r] EXCEPT !.at = "digest", !.phase = "snapshot"]]
    OBVIOUS
  <2>4. QED
    BY <1>u, <2>2, <2>3 DEF OfRequest
<1>2. LocksOf(r)
  BY <1>t, <1>b DEF LocksOf, Typed, Standing, Outside, Inflight, Owning, Building, ForModern, Rebuilds
<1>3. Standing(r)'
  BY <1>t, <1>b DEF Standing, Kinds, Outside, Inflight, Owning, Building, ForModern, Rebuilds
<1>4. Own(r)'
  <2>1. req'[r].at \in Building => Builds(r)'
    BY <1>t, <1>u, <1>b DEF Own, Builds, Building
  <2>2. Reads(r)'
    BY <1>t, <1>u, <1>b DEF Own, Reads
  <2>3. Follows(r)'
    BY <1>t, <1>u, <1>b DEF Own, Follows
  <2>4. Verifies(r)'
    BY <1>t, <1>u, <1>b DEF Own, Verifies, Inflight
  <2>5. QED
    BY <2>1, <2>2, <2>3, <2>4 DEF Own
<1>5. Leased(r)'
  BY <1>t, <1>b DEF Leased, Owes, Standing, Outside, Inflight, Owning, Building, ForModern, Rebuilds
<1>6. QED
  <2>1. decided' \in BOOLEAN
    BY <1>t DEF Typed
  <2>2. Owes(r) /\ ~lapsed => Owes(r)' \/ project.profile = lease
    BY <1>t, <1>b DEF Owes, Standing, Outside, Inflight, Owning, Building, ForModern, Rebuilds
  <2>3. owner' = r /\ req'[r].phase = "rebuild-default"
          => owner = r /\ req[r].phase = "rebuild-default"
    BY <1>t, <1>b DEF Standing, Outside, Inflight, Owning, Building, ForModern, Rebuilds
  <2>4. r \in readers' /\ req'[r].at \in Inflight
          => \/ owner' = None
             \/ r \in readers /\ req[r].at \in Inflight /\ req'[r].overtaken = req[r].overtaken
    BY <1>t, <1>b DEF Standing, Outside, Inflight, Owning, Building, ForModern, Rebuilds
  <2>5. QED
    BY <1>1, <1>2, <1>3, <1>4, <1>5, <2>1, <2>2, <2>3, <2>4, LocalStep DEF user

\* The lease is another than before: its gateway is built before the barrier is left.
LEMMA OwedKeeps ==
  ASSUME Inv, NEW r \in Requests, req[r].at \in Inflight, req[r].kind \notin {"call", "script"},
         req' = [req EXCEPT ![r].at = "lock",
                             ![r].phase = "rebuild",
                             ![r].fence = lease,
                             ![r].gate = Empty],
         UNCHANGED <<era, files, trusted, changes, readers, writer, owner, project, endpoint,
                     lease, decided, lapsed>>
  PROVE  Inv'
<1> USE NoRequest
<1>t. Typed /\ Standing(r) /\ Own(r) /\ Leased(r) /\ Held /\ (writer # None => readers = {})
  BY DEF Inv, Locked, Own, Fenced
<1>u. req \in [Requests -> Records] /\ files \in Digests
  BY <1>t DEF Typed
<1>b. /\ req'[r].at = "lock"
      /\ req'[r].phase = "rebuild"
      /\ req'[r].fence = lease
      /\ req'[r].gate = Empty
      /\ req'[r].kind = req[r].kind /\ req'[r].want = req[r].want
      /\ req'[r].digest = req[r].digest /\ req'[r].before = req[r].before
      /\ req'[r].trust = req[r].trust /\ req'[r].quiet = req[r].quiet
      /\ req'[r].held = req[r].held /\ req'[r].overtaken = req[r].overtaken
  BY <1>u DEF Records
<1>1. OfRequest(r)
  <2>1. "lock" \in Places /\ "rebuild" \in Phases /\ lease \in Toolsets \cup {None} /\ Empty \in Gateways
    BY <1>t DEF Typed, Places, Phases, Kinds, Outside, Inflight, Owning, Building, ForModern,
       Rebuilds, Empty, Gateways
  <2>2. [req[r] EXCEPT !.at = "lock", !.phase = "rebuild", !.fence = lease, !.gate = Empty] \in Records
    BY <1>u, <2>1, Retyped
  <2>3. req' = [req EXCEPT ![r] = [req[r] EXCEPT !.at = "lock", !.phase = "rebuild", !.fence = lease, !.gate = Empty]]
    OBVIOUS
  <2>4. QED
    BY <1>u, <2>2, <2>3 DEF OfRequest
<1>2. LocksOf(r)
  BY <1>t, <1>b DEF LocksOf, Typed, Standing, Outside, Inflight, Owning, Building, ForModern, Rebuilds
<1>3. Standing(r)'
  BY <1>t, <1>b DEF Standing, Kinds, Outside, Inflight, Owning, Building, ForModern, Rebuilds
<1>4. Own(r)'
  <2>1. req'[r].at \in Building => Builds(r)'
    BY <1>t, <1>u, <1>b DEF Own, Builds, Building
  <2>2. Reads(r)'
    BY <1>t, <1>u, <1>b DEF Own, Reads
  <2>3. Follows(r)'
    BY <1>t, <1>u, <1>b DEF Own, Follows
  <2>4. Verifies(r)'
    BY <1>t, <1>u, <1>b DEF Own, Verifies, Inflight, Empty
  <2>5. QED
    BY <2>1, <2>2, <2>3, <2>4 DEF Own
<1>5. Leased(r)'
  BY <1>t, <1>b DEF Leased, Owes, Standing, Outside, Inflight, Owning, Building, ForModern, Rebuilds
<1>6. QED
  <2>1. decided' \in BOOLEAN
    BY <1>t DEF Typed
  <2>2. Owes(r) /\ ~lapsed => Owes(r)' \/ project.profile = lease
    BY <1>t, <1>b DEF Owes, Standing, Outside, Inflight, Owning, Building, ForModern, Rebuilds
  <2>3. owner' = r /\ req'[r].phase = "rebuild-default"
          => owner = r /\ req[r].phase = "rebuild-default"
    BY <1>t, <1>b DEF Standing, Outside, Inflight, Owning, Building, ForModern, Rebuilds
  <2>4. r \in readers' /\ req'[r].at \in Inflight
          => \/ owner' = None
             \/ r \in readers /\ req[r].at \in Inflight /\ req'[r].overtaken = req[r].overtaken
    BY <1>t, <1>b DEF Standing, Outside, Inflight, Owning, Building, ForModern, Rebuilds
  <2>5. QED
    BY <1>1, <1>2, <1>3, <1>4, <1>5, <2>1, <2>2, <2>3, <2>4, LocalStep DEF user

\* A request leaves the barrier, and with it everything it held.
LEMMA LeaveKeeps ==
  ASSUME Inv, NEW r \in Requests, Leave(r), req[r].at \in Inflight \/ owner = r, ~Owes(r),
         owner' = (IF owner = r THEN None ELSE owner),
         UNCHANGED <<era, user, project, endpoint, lease, lapsed>>, decided' \in BOOLEAN
  PROVE  Inv'
<1> USE NoRequest
<1>t. Typed /\ Standing(r) /\ (writer # None => readers = {})
  BY DEF Inv, Locked
<1>u. req \in [Requests -> Records]
  BY <1>t DEF Typed
<1>a. req' = [req EXCEPT ![r] = [Arriving EXCEPT !.at = "done"]]
  BY DEF Leave
<1>b. /\ req'[r].at = "done" /\ req'[r].kind = "none" /\ req'[r].phase = "none"
      /\ req'[r].gate.anchor = None
  BY <1>u, <1>a DEF Arriving, Empty
<1>1. OfRequest(r)
  <2>1. Empty \in Gateways /\ "done" \in Places /\ "none" \in Phases
    BY DEF Empty, Gateways, Places, Outside, Phases
  <2>2. [Arriving EXCEPT !.at = "done"] \in Records
    BY <2>1 DEF Arriving, Records
  <2>3. QED
    BY <1>u, <1>a, <2>2 DEF OfRequest
<1>2. LocksOf(r)
  BY <1>t DEF Leave, LocksOf, Typed
<1>3. Standing(r)'
  BY <1>t, <1>b DEF Leave, Standing, Outside, Inflight, Owning, Building
<1>4. Own(r)'
  BY <1>b DEF Own, Reads, Follows, Verifies, Building, Inflight
<1>5. Leased(r)'
  BY <1>b DEF Leased, Owes, Outside, Inflight, Owning, Building, Rebuilds
<1>6. QED
  BY <1>1, <1>2, <1>3, <1>4, <1>5, <1>b, LocalStep DEF Inflight

\* The guards of the synchronization go out of scope.
LEMMA LeaveSyncKeeps ==
  ASSUME Inv, NEW r \in Requests, LeaveSync(r), owner = r, req[r].at = "next",
         req[r].phase \in {"modern", "rebuild-modern"},
         UNCHANGED <<era, user, readers, project, endpoint, lease, decided, lapsed>>
  PROVE  Inv'
<1> USE NoRequest
<1>t. Typed /\ Standing(r) /\ Own(r) /\ (writer # None => readers = {})
  BY DEF Inv, Locked, Own
<1>u. req \in [Requests -> Records]
  BY <1>t DEF Typed
<1>a. req' = [req EXCEPT ![r].at = "enter", ![r].phase = "none", ![r].fence = None,
                          ![r].before = None, ![r].quiet = FALSE]
  BY DEF LeaveSync
<1>c. req'[r] = [req[r] EXCEPT !.at = "enter", !.phase = "none", !.fence = None,
                               !.before = None, !.quiet = FALSE]
  BY <1>u, <1>a
<1>b. /\ req'[r].at = "enter" /\ req'[r].phase = "none" /\ req'[r].kind = req[r].kind
      /\ req'[r].gate = req[r].gate
  <2>1. req[r] \in Records
    BY <1>u
  <2>2. QED
    BY <1>c, <2>1 DEF Records
<1>1. OfRequest(r)
  <2>1. "enter" \in Places /\ "none" \in Phases
    BY DEF Places, Outside, Phases
  <2>2. [req[r] EXCEPT !.at = "enter", !.phase = "none", !.fence = None, !.before = None,
                       !.quiet = FALSE] \in Records
    BY <1>u, <2>1, Retyped
  <2>3. req' = [req EXCEPT ![r] = [req[r] EXCEPT !.at = "enter", !.phase = "none", !.fence = None,
                                                 !.before = None, !.quiet = FALSE]]
    BY <1>a
  <2>4. QED
    BY <1>u, <2>2, <2>3 DEF OfRequest
<1>w. writer = r /\ r \notin readers
  BY <1>t DEF Standing, Outside, Inflight, ForModern
<1>2. LocksOf(r)
  BY <1>t, <1>w DEF LeaveSync, LocksOf, Typed
<1>3. Standing(r)'
  BY <1>t, <1>b, <1>w DEF LeaveSync, Standing, Outside, Inflight, Owning, Building, ForModern
<1>4. Own(r)'
  BY <1>t, <1>b DEF Own, Reads, Follows, Verifies, Building, Inflight
<1>5. Leased(r)'
  BY <1>b DEF Leased, Owes, Outside, Inflight, Owning, Building, Rebuilds
<1>6. ~Owes(r)
  BY DEF Owes, Building
<1>7. decided' \in BOOLEAN
  BY <1>t DEF Typed
<1>8. QED
  BY <1>1, <1>2, <1>3, <1>4, <1>5, <1>6, <1>7, <1>b, LocalStep DEF Inflight, LeaveSync

\* The end of a request that leaves the lease alone.
LEMMA AfterLeaseKeeps ==
  ASSUME Inv, NEW r \in Requests, req[r].at \in Inflight, AfterLease(r, lease),
         UNCHANGED <<era, user, owner, project, endpoint, lease, decided, lapsed>>
  PROVE  Inv'
<1>1. Standing(r) /\ decided \in BOOLEAN
  BY DEF Inv, Locked, Typed
<1>2. owner # r /\ ~Owes(r)
  BY <1>1 DEF Standing, Owes, Inflight, Owning, Building
<1>3. CASE Leave(r)
  BY <1>1, <1>2, <1>3, LeaveKeeps
<1>4. CASE req[r].kind \notin {"call", "script"} /\ ~Leave(r)
  <2>1. /\ req' = [req EXCEPT ![r].at = "lock", ![r].phase = "rebuild", ![r].fence = lease,
                              ![r].gate = Empty]
        /\ UNCHANGED barrier
    BY <1>4 DEF AfterLease
  <2>2. QED
    BY <1>4, <2>1, OwedKeeps DEF barrier, user
<1>5. QED
  BY <1>3, <1>4 DEF AfterLease

LEMMA DispatchKeeps ==
  ASSUME Inv, NEW r \in Requests, Dispatch(r)
  PROVE  Inv'
<1>1. req[r].at = "dispatch" /\ req[r].at \in Inflight
  BY DEF Dispatch, At, Inflight
<1>2. CASE Serves(req[r].gate)
  BY <1>1, <1>2, ServedKeeps DEF Dispatch, barrier, user
<1>3. CASE ~Serves(req[r].gate)
  BY <1>1, <1>3, AfterLeaseKeeps DEF Dispatch
<1>4. QED
  BY <1>2, <1>3

LEMMA VerifyDigestKeeps ==
  ASSUME Inv, NEW r \in Requests, VerifyDigest(r)
  PROVE  Inv'
<1>1. req[r].at = "verify" /\ req[r].at \in Inflight
  BY DEF VerifyDigest, At, Inflight
<1>2. CASE req[r].gate.anchor \in {None, files}
  BY <1>1, <1>2, SameBytesKeeps DEF VerifyDigest, barrier, user
<1>3. CASE req[r].gate.anchor \notin {None, files}
  BY <1>1, <1>3, AfterLeaseKeeps DEF VerifyDigest
<1>4. QED
  BY <1>2, <1>3

LEMMA VerifyStoreKeeps ==
  ASSUME Inv, NEW r \in Requests, VerifyStore(r)
  PROVE  Inv'
<1>1. req[r].at = "verify-store" /\ req[r].at \in Inflight
  BY DEF VerifyStore, At, Inflight
<1>2. CASE req[r].gate.anchor \in {None, trusted}
  BY <1>1, <1>2, ForwardedKeeps DEF VerifyStore, barrier, user
<1>3. CASE req[r].gate.anchor \notin {None, trusted}
  BY <1>1, <1>3, AfterLeaseKeeps DEF VerifyStore
<1>4. QED
  BY <1>2, <1>3

LEMMA AnswerKeeps ==
  ASSUME Inv, NEW r \in Requests, Answer(r)
  PROVE  Inv'
BY AfterLeaseKeeps DEF Answer, At, Inflight

LEMMA SnapshotKeeps ==
  ASSUME Inv, NEW r \in Requests, Snapshot(r)
  PROVE  Inv'
<1>1. req[r].at = "next" /\ req[r].phase = "snapshot"
  BY DEF Snapshot, At
<1>2. CASE project.built
  BY <1>1, <1>2, HandleKeeps DEF Snapshot, barrier, user
<1>3. CASE ~project.built
  BY <1>1, <1>3, FirstBuildKeeps DEF Snapshot, barrier, user
<1>4. QED
  BY <1>2, <1>3

LEMMA RebuiltKeeps ==
  ASSUME Inv, NEW r \in Requests, Rebuilt(r)
  PROVE  Inv'
<1>1. req[r].at = "next" /\ req[r].phase \in Rebuilds /\ Standing(r) /\ decided \in BOOLEAN
  BY DEF Rebuilt, At, Inv, Locked, Typed
<1>2. owner = r /\ ~Owes(r)
  BY <1>1 DEF Standing, Owes, Owning, Building
<1>3. CASE req[r].phase = "rebuild"
  BY <1>1, <1>2, <1>3, LeaveKeeps DEF Rebuilt
<1>4. CASE req[r].phase = "rebuild-modern"
  BY <1>1, <1>2, <1>4, LeaveSyncKeeps DEF Rebuilt
<1>5. CASE req[r].phase = "rebuild-default"
  BY <1>1, <1>5, DefaultRebuiltKeeps DEF Rebuilt, barrier, user
<1>6. QED
  BY <1>1, <1>3, <1>4, <1>5 DEF Rebuilds

-----------------------------------------------------------------------------
(* The lease                                                               *)

\* A lease that a request opened or closed, and the debt that comes with it.
LEMMA ExchangeKeeps ==
  ASSUME Inv, NEW r \in Requests, NEW new \in Toolsets \cup {None}, lease' = new,
         req[r].at = "dispatch", req[r].kind \in {"open", "close"}, AfterLease(r, new),
         UNCHANGED <<era, user, owner, project, endpoint, decided, lapsed>>
  PROVE  Inv'
<1> USE NoRequest
<1>t. Typed /\ Standing(r) /\ Own(r) /\ Leased(r) /\ (writer # None => readers = {})
  BY DEF Inv, Locked, Own, Fenced
<1>u. req \in [Requests -> Records]
  BY <1>t DEF Typed
<1>1. req[r].before = lease
  BY <1>t DEF Leased, Standing, Outside, Inflight
<1>2. CASE new = lease
  BY <1>2, AfterLeaseKeeps DEF Inflight
<1>3. CASE new # lease
  <2>a. /\ req' = [req EXCEPT ![r].at = "lock", ![r].phase = "rebuild", ![r].fence = new,
                              ![r].gate = Empty]
        /\ UNCHANGED barrier
    BY <1>1, <1>3 DEF AfterLease
  <2>w. writer = r /\ readers = {}
    BY <1>t DEF Standing, Outside, Inflight
  <2>b. /\ req'[r].at = "lock" /\ req'[r].phase = "rebuild" /\ req'[r].fence = new
        /\ req'[r].kind = req[r].kind /\ req'[r].gate = Empty
    BY <1>u, <2>a DEF Records
  <2>1. OfRequest(r)
    <3>1. "lock" \in Places /\ "rebuild" \in Phases /\ Empty \in Gateways
      BY DEF Places, Phases, Rebuilds, Empty, Gateways
    <3>2. [req[r] EXCEPT !.at = "lock", !.phase = "rebuild", !.fence = new, !.gate = Empty] \in Records
      BY <1>u, <3>1, Retyped
    <3>3. req' = [req EXCEPT ![r] = [req[r] EXCEPT !.at = "lock", !.phase = "rebuild",
                                                   !.fence = new, !.gate = Empty]]
      BY <2>a
    <3>4. QED
      BY <1>u, <3>2, <3>3 DEF OfRequest
  <2>2. LocksOf(r)
    BY <1>t, <2>a, <2>w DEF LocksOf, Typed, barrier
  <2>3. Standing(r)'
    BY <1>t, <2>a, <2>b, <2>w DEF Standing, Outside, Inflight, Owning, Building, barrier
  <2>4. Own(r)'
    BY <2>b DEF Own, Reads, Follows, Verifies, Building, Inflight, Empty
  <2>5. Leased(r)' /\ Owes(r)'
    BY <2>b DEF Leased, Owes, Outside, Inflight, Owning, Building, Rebuilds
  <2>6. decided' \in BOOLEAN
    BY <1>t DEF Typed
  <2>7. QED
    BY <2>1, <2>2, <2>3, <2>4, <2>5, <2>6, <2>a, <2>w, LeaseStep DEF barrier
<1>4. QED
  BY <1>2, <1>3

LEMMA OpenKeeps ==
  ASSUME Inv, NEW r \in Requests, Open(r)
  PROVE  Inv'
<1>1. Typed /\ req[r].want \in Toolsets \cup {None}
  BY Fields DEF Inv
<1>2. lease' \in Toolsets \cup {None} /\ AfterLease(r, lease')
  BY <1>1 DEF Open, Typed
<1>3. QED
  BY <1>2, ExchangeKeeps DEF Open, At

LEMMA CloseKeeps ==
  ASSUME Inv, NEW r \in Requests, Close(r)
  PROVE  Inv'
BY ExchangeKeeps DEF Close, At

\* The synchronization closes a lease that is not the default any more.
LEMMA DeriveKeeps ==
  ASSUME Inv, NEW r \in Requests, Derive(r)
  PROVE  Inv'
<1> USE NoRequest
<1>t. Typed /\ Standing(r) /\ Own(r) /\ Leased(r) /\ (writer # None => readers = {})
  BY DEF Inv, Locked, Own, Fenced
<1>u. req \in [Requests -> Records] /\ files \in Digests /\ req[r].at = "next" /\ req[r].phase = "modern"
  BY <1>t DEF Typed, Derive, At
<1>w. owner = r /\ writer = r /\ readers = {}
  BY <1>t, <1>u DEF Standing, Outside, Inflight, Owning, ForModern
<1>1. CASE LeaveSync(r) /\ UNCHANGED <<lease, decided>>
  BY <1>1, <1>u, <1>w, LeaveSyncKeeps DEF Derive
<1>2. CASE /\ lease' = None
           /\ Default[files] # None
           /\ req' = [req EXCEPT ![r].at = "open", ![r].fence = Default[files]]
           /\ UNCHANGED <<decided, owner, writer>>
  <2>a. req'[r] = [req[r] EXCEPT !.at = "open", !.fence = Default[files]]
    BY <1>2, <1>u
  <2>b. /\ req'[r].at = "open" /\ req'[r].phase = req[r].phase /\ req'[r].kind = req[r].kind
        /\ req'[r].gate = req[r].gate
    BY <1>u, <2>a DEF Records
  <2>1. OfRequest(r)
    <3>1. "open" \in Places /\ Default[files] \in Toolsets \cup {None}
      BY <1>u, GatewayAssumption DEF Places, Owning
    <3>2. [req[r] EXCEPT !.at = "open", !.fence = Default[files]] \in Records
      BY <1>u, <3>1, Retyped
    <3>3. req' = [req EXCEPT ![r] = [req[r] EXCEPT !.at = "open", !.fence = Default[files]]]
      BY <1>2
    <3>4. QED
      BY <1>u, <3>2, <3>3 DEF OfRequest
  <2>2. LocksOf(r) /\ decided' \in BOOLEAN
    BY <1>t, <1>2, <1>w DEF LocksOf, Typed, Derive
  <2>3. Standing(r)'
    BY <1>t, <1>2, <1>u, <1>w, <2>b DEF Standing, Outside, Inflight, Owning, Building, ForModern, Derive
  <2>4. Own(r)'
    BY <1>t, <2>b DEF Own, Reads, Follows, Verifies, Building, Inflight
  <2>5. Leased(r)' /\ Owes(r)'
    BY <1>t, <1>u, <2>b DEF Leased, Owes, Standing, Outside, Inflight, Owning, Building, Rebuilds
  <2>6. QED
    BY <1>2, <1>w, <2>1, <2>2, <2>3, <2>4, <2>5, LeaseStep DEF Derive
<1>3. CASE /\ lease' = None
           /\ decided' = TRUE
           /\ req' = [req EXCEPT ![r].at = "digest", ![r].fence = None, ![r].phase = "rebuild-modern"]
           /\ UNCHANGED <<owner, writer>>
  <2>a. req'[r] = [req[r] EXCEPT !.at = "digest", !.fence = None, !.phase = "rebuild-modern"]
    BY <1>3, <1>u
  <2>b. /\ req'[r].at = "digest" /\ req'[r].phase = "rebuild-modern" /\ req'[r].fence = None
        /\ req'[r].kind = req[r].kind /\ req'[r].gate = req[r].gate
    BY <1>u, <2>a DEF Records
  <2>1. OfRequest(r)
    <3>1. "digest" \in Places /\ "rebuild-modern" \in Phases
      BY DEF Places, Owning, Phases, Rebuilds
    <3>2. [req[r] EXCEPT !.at = "digest", !.fence = None, !.phase = "rebuild-modern"] \in Records
      BY <1>u, <3>1, Retyped
    <3>3. req' = [req EXCEPT ![r] = [req[r] EXCEPT !.at = "digest", !.fence = None,
                                                   !.phase = "rebuild-modern"]]
      BY <1>3
    <3>4. QED
      BY <1>u, <3>2, <3>3 DEF OfRequest
  <2>2. LocksOf(r)
    BY <1>t, <1>3, <1>w DEF LocksOf, Typed, Derive
  <2>3. Standing(r)'
    BY <1>t, <1>3, <1>u, <1>w, <2>b DEF Standing, Outside, Inflight, Owning, Building, ForModern, Derive
  <2>4. Own(r)'
    BY <1>t, <2>b DEF Own, Reads, Follows, Verifies, Building, Inflight
  <2>5. Leased(r)' /\ Owes(r)'
    BY <1>t, <1>3, <1>u, <2>b DEF Leased, Owes, Standing, Outside, Inflight, Owning, Building, Rebuilds
  <2>6. QED
    BY <1>3, <1>w, <2>1, <2>2, <2>3, <2>4, <2>5, LeaseStep DEF Derive
<1>4. QED
  BY <1>1, <1>2, <1>3 DEF Derive

\* A default lease opens, or the manifest has not the toolset any more.
LEMMA OpenDefaultKeeps ==
  ASSUME Inv, NEW r \in Requests, OpenDefault(r)
  PROVE  Inv'
<1> USE NoRequest
<1>t. Typed /\ Standing(r) /\ Own(r) /\ Leased(r) /\ (writer # None => readers = {})
  BY DEF Inv, Locked, Own, Fenced
<1>u. req \in [Requests -> Records] /\ req[r].at = "open"
  BY <1>t DEF Typed, OpenDefault, At
<1>o. owner = r /\ (r \in readers \/ writer = r)
  BY <1>t, <1>u DEF Standing, Outside, Inflight, Owning
<1>a. PICK fence \in Toolsets \cup {None},
           phase \in {"rebuild-modern", "rebuild-default", "snapshot"} :
      /\ phase = "rebuild-modern" <=> req[r].phase = "modern"
      /\ phase = "rebuild-default" => fence # None
      /\ phase = "snapshot" => fence = None
      /\ lease' = fence
      /\ req' = [q \in Requests |->
                  IF q = r THEN [req[q] EXCEPT !.at = "digest", !.fence = fence, !.phase = phase]
                  ELSE [req[q] EXCEPT !.overtaken = @ \/ (q \in readers /\ fence # None)]]
  <2>1. req[r].fence \in Toolsets \cup {None}
    BY <1>t, Fields
  <2>2. PICK native \in BOOLEAN :
          LET fence == IF ~native /\ req[r].fence \in Declares[files] THEN req[r].fence ELSE None
              modern == req[r].phase = "modern"
          IN  /\ lease' = fence
              /\ req' = [q \in Requests |->
                   IF q = r
                   THEN [req[q] EXCEPT !.at = "digest", !.fence = fence,
                           !.phase = CASE modern -> "rebuild-modern"
                                       [] ~modern /\ fence # None -> "rebuild-default"
                                       [] OTHER  -> "snapshot"]
                   ELSE [req[q] EXCEPT !.overtaken = @ \/ (q \in readers /\ fence # None)]]
    BY DEF OpenDefault
  <2> DEFINE fence == IF ~native /\ req[r].fence \in Declares[files] THEN req[r].fence ELSE None
             phase == CASE req[r].phase = "modern" -> "rebuild-modern"
                        [] req[r].phase # "modern" /\ fence # None -> "rebuild-default"
                        [] OTHER -> "snapshot"
  <2>3. lease' = fence /\ fence \in Toolsets \cup {None}
    BY <2>1, <2>2
  <2>4. req' = [q \in Requests |->
                  IF q = r THEN [req[q] EXCEPT !.at = "digest", !.fence = fence, !.phase = phase]
                  ELSE [req[q] EXCEPT !.overtaken = @ \/ (q \in readers /\ fence # None)]]
    BY <2>2
  <2> HIDE DEF fence
  <2>5. /\ phase \in {"rebuild-modern", "rebuild-default", "snapshot"}
        /\ phase = "rebuild-modern" <=> req[r].phase = "modern"
        /\ phase = "rebuild-default" => fence # None
        /\ phase = "snapshot" => fence = None
    OBVIOUS
  <2> HIDE DEF phase
  <2>6. QED
    BY <2>3, <2>4, <2>5
<1>c. req'[r] = [req[r] EXCEPT !.at = "digest", !.fence = fence, !.phase = phase]
  BY <1>u, <1>a
<1>b. /\ req'[r].at = "digest" /\ req'[r].phase = phase /\ req'[r].fence = fence
      /\ req'[r].kind = req[r].kind /\ req'[r].gate = req[r].gate /\ req'[r].before = req[r].before
  BY <1>t, <1>c, Fields DEF Records
<1>r. req'[r] \in Records
  <2>1. "digest" \in Places /\ phase \in Phases
    BY <1>a DEF Places, Owning, Phases, Rebuilds
  <2>2. QED
    BY <1>u, <1>a, <1>c, <2>1, Retyped
<1>d. UNCHANGED <<era, user, barrier, owner, project, endpoint, lapsed>> /\ decided' = TRUE
  BY DEF OpenDefault
<1>2. LocksOf(r)
  BY <1>t, <1>d DEF LocksOf, Typed, barrier
<1>4. Own(r)'
  BY <1>t, <1>b DEF Own, Reads, Follows, Verifies, Building, Inflight
<1>q. ASSUME NEW q \in Requests \ {r}
      PROVE  req'[q] = [req[q] EXCEPT !.overtaken = req[q].overtaken \/ (q \in readers /\ fence # None)]
  BY <1>u, <1>a, <1>q
<1>5. ASSUME readers = {} \/ fence = None
      PROVE  OfRequest(r)
  <2>1. ASSUME NEW q \in Requests \ {r}
        PROVE  req'[q] = req[q]
    <3>1. req'[q] = [req[q] EXCEPT !.overtaken = req[q].overtaken]
      <4>1. req[q].overtaken \in BOOLEAN
        BY <1>t, Fields
      <4>2. (req[q].overtaken \/ (q \in readers /\ fence # None)) = req[q].overtaken
        BY <4>1, <1>5
      <4>3. QED
        BY <1>q, <4>2
    <3>2. [req[q] EXCEPT !.overtaken = req[q].overtaken] = req[q]
      BY <1>u DEF Records
    <3>3. QED
      BY <3>1, <3>2
  <2>2. QED
    BY <1>u, <1>a, <1>r, <2>1 DEF OfRequest
<1>6. CASE req[r].phase = "modern"
  <2>1. writer = r /\ readers = {}
    BY <1>6, <1>t, <1>o DEF Standing, ForModern
  <2>2. Standing(r)'
    BY <1>t, <1>6, <1>a, <1>b, <1>d, <1>u, <2>1 DEF Standing, Outside, Inflight, Owning, Building,
       ForModern, barrier
  <2>3. Leased(r)' /\ Owes(r)'
    BY <1>t, <1>6, <1>a, <1>b DEF Leased, Owes, Standing, Outside, Inflight, Owning, Building, Rebuilds
  <2>4. OfRequest(r)
    BY <1>5, <2>1
  <2>5. QED
    BY <1>2, <1>4, <1>a, <1>d, <2>1, <2>2, <2>3, <2>4, LeaseStep DEF barrier
<1>7. CASE req[r].phase # "modern"
  <2>1. /\ req[r].phase = "default" /\ lease = None /\ ~Owes(r)
        /\ phase \in {"rebuild-default", "snapshot"}
        /\ req[r].kind \notin {"open", "close"}
    BY <1>t, <1>u, <1>7, <1>a DEF Standing, Leased, Owes, Owning, Building, Rebuilds
  <2>2. Standing(r)'
    BY <1>t, <1>a, <1>b, <1>d, <1>u, <2>1 DEF Standing, Outside, Inflight, Owning, Building,
       ForModern, barrier
  <2>3. Leased(r)'
    BY <1>t, <1>a, <1>b, <2>1 DEF Leased, Owes, Standing, Outside, Inflight, Owning, Building, Rebuilds
  <2>4. CASE fence = None
    <3>1. OfRequest(r) /\ phase = "snapshot" /\ lease' = lease
      BY <1>5, <1>a, <2>1, <2>4
    <3>2. QED
      BY <1>2, <1>4, <1>b, <1>d, <2>1, <2>2, <2>3, <3>1, LocalStep DEF Inflight
  <2>5. CASE fence # None
    <3>1. ASSUME NEW q \in Requests \ {r}
          PROVE  /\ req'[q] \in Records
                 /\ req'[q].at = req[q].at /\ req'[q].kind = req[q].kind /\ req'[q].phase = req[q].phase
                 /\ req'[q].digest = req[q].digest /\ req'[q].fence = req[q].fence
                 /\ req'[q].before = req[q].before /\ req'[q].gate = req[q].gate
                 /\ req'[q].trust = req[q].trust /\ req'[q].quiet = req[q].quiet
                 /\ req'[q].held = req[q].held
                 /\ req'[q].overtaken = (req[q].overtaken \/ q \in readers)
      <4> DEFINE late == req[q].overtaken \/ q \in readers
      <4>1. req'[q] = [req[q] EXCEPT !.overtaken = late]
        BY <1>q, <2>5
      <4>2. late \in BOOLEAN /\ late = (req[q].overtaken \/ q \in readers)
        OBVIOUS
      <4> HIDE DEF late
      <4>3. req'[q] \in Records
        <5>1. req[q] \in Records
          BY <1>u
        <5>2. [req[q] EXCEPT !.overtaken = late] \in Records
          BY <4>2, <5>1, Retyped
        <5>3. QED
          BY <4>1, <5>2
      <4>4. QED
        BY <1>u, <4>1, <4>2, <4>3 DEF Records
    <3>2. req' \in [Requests -> Records]
      BY <1>a, <1>r, <3>1
    <3>3. Typed'
      <4>1. lease' \in Toolsets \cup {None} /\ decided' \in BOOLEAN /\ lapsed' \in BOOLEAN
        BY <1>t, <1>a, <1>d DEF Typed
      <4>2. /\ UNCHANGED <<era, files, trusted, changes, readers, writer>>
            /\ UNCHANGED <<owner, project, endpoint>>
        BY <1>d DEF user, barrier
      <4>3. QED
        BY <1>t, <3>2, <4>1, <4>2 DEF Typed
    <3>4. ASSUME NEW q \in Requests \ {r}
          PROVE  Standing(q)' /\ Own(q)' /\ Leased(q)'
      <4>1. Standing(q) /\ Own(q) /\ Leased(q)
        BY DEF Inv, Locked, Fenced, Own
      <4>2. Standing(q)'
        BY <4>1, <3>1, <1>d DEF Standing, barrier
      <4>3. Own(q)'
        <5>1. req'[q].at \in Building => Builds(q)'
          BY <4>1, <3>1, <1>d DEF Own, Builds, user
        <5>2. Reads(q)'
          BY <4>1, <3>1, <1>d DEF Own, Reads, user
        <5>3. Follows(q)'
          BY <4>1, <3>1, <1>d DEF Own, Follows, user
        <5>4. Verifies(q)'
          BY <4>1, <3>1, <1>d DEF Own, Verifies, Consented, user
        <5>5. QED
          BY <5>1, <5>2, <5>3, <5>4 DEF Own
      <4>4. ~Owes(q) /\ req[q].at \notin Owning
        BY <1>o, <4>1, NobodyOwes DEF Standing
      <4>5. writer # q
        BY <1>o, <1>t
      <4>6. Leased(q)'
        <5>1. ~Owes(q)'
          BY <4>4, <3>1 DEF Owes
        <5>2. req'[q].at \notin Building /\ req'[q].at \notin Owning
          BY <4>4, <3>1 DEF Owning
        <5>3. req'[q].at \notin Outside /\ req'[q].kind # "script" => q \in readers
          BY <4>1, <4>5, <3>1 DEF Standing
        <5>4. req'[q].kind \in {"open", "close"} => req'[q].at \in Outside
          BY <4>1, <5>3, <3>1 DEF Standing
        <5>5. req'[q].at \in Inflight /\ req'[q].kind # "script" => req'[q].overtaken
          BY <5>3, <3>1 DEF Inflight, Outside
        <5>6. QED
          BY <5>1, <5>2, <5>4, <5>5 DEF Leased
      <4>7. QED
        BY <4>2, <4>3, <4>6
    <3>5. Locked'
      BY <1>t, <1>d, <2>2, <3>4 DEF Locked, barrier
    <3>6. Held'
      BY <1>d DEF Inv, Held
    <3>7. \A q \in Requests : Overtakes(q)'
      <4>1. readers \subseteq Requests
        BY <1>t DEF Typed
      <4>2. req'[r].at \notin Inflight
        BY <1>b DEF Inflight
      <4>3. QED
        BY <1>d, <1>o, <3>1, <4>1, <4>2 DEF Overtakes, barrier
    <3>8. Owes(r)'
      BY <1>a, <1>b, <2>1, <2>5 DEF Owes, Rebuilds
    <3>9. Fenced'
      BY <2>3, <3>4, <3>7, <3>8 DEF Fenced
    <3>10. QED
      BY <1>4, <3>3, <3>4, <3>5, <3>6, <3>9 DEF Inv, Own
  <2>6. QED
    BY <2>4, <2>5
<1>8. QED
  BY <1>6, <1>7

-----------------------------------------------------------------------------
(* The trust, and the gateway that is built                                *)

\* Without trust nothing is served; a rebuild for a lease ends here.
LEMMA WithdrawKeeps ==
  ASSUME Inv, NEW r \in Requests, req[r].at = "check", trusted # req[r].digest, Withdraw(r),
         UNCHANGED <<era, user, barrier, owner, lease, decided>>
  PROVE  Inv'
<1> USE NoRequest
<1>t. Typed /\ Standing(r) /\ Own(r) /\ Leased(r) /\ (writer # None => readers = {})
  BY DEF Inv, Locked, Own, Fenced
<1>u. req \in [Requests -> Records] /\ lapsed \in BOOLEAN
  BY <1>t DEF Typed
<1>a. req' = [req EXCEPT ![r].at = "next", ![r].digest = None, ![r].fence = None]
  BY DEF Withdraw
<1>c. req'[r] = [req[r] EXCEPT !.at = "next", !.digest = None, !.fence = None]
  BY <1>u, <1>a
<1>b. /\ req'[r].at = "next" /\ req'[r].phase = req[r].phase /\ req'[r].kind = req[r].kind
      /\ req'[r].gate = req[r].gate /\ req'[r].quiet = req[r].quiet /\ req'[r].before = req[r].before
  <2>1. req'[r].at = "next" /\ req'[r].phase = req[r].phase /\ req'[r].kind = req[r].kind
    BY <1>u, <1>c DEF Records
  <2>2. req'[r].gate = req[r].gate /\ req'[r].quiet = req[r].quiet /\ req'[r].before = req[r].before
    BY <1>u, <1>c DEF Records
  <2>3. QED
    BY <2>1, <2>2
<1>p. /\ project'.trust = FALSE /\ project'.gateway = Empty /\ project'.anchor = None /\ project'.built = TRUE
      /\ project'.profile = project.profile
      /\ project' \in [trust : BOOLEAN, gateway : Gateways, anchor : Digests \cup {None},
                       profile : Toolsets \cup {None}, built : BOOLEAN]
  BY <1>t DEF Withdraw, Typed, Empty, Gateways
<1>1. OfRequest(r)
  <2>1. "next" \in Places
    BY DEF Places, Owning
  <2>2. [req[r] EXCEPT !.at = "next", !.digest = None, !.fence = None] \in Records
    BY <1>u, <2>1, Retyped
  <2>3. req' = [req EXCEPT ![r] = [req[r] EXCEPT !.at = "next", !.digest = None, !.fence = None]]
    BY <1>a
  <2>4. QED
    BY <1>u, <2>2, <2>3 DEF OfRequest
<1>o. owner = r /\ (r \in readers \/ writer = r)
  BY <1>t DEF Standing, Outside, Inflight, Owning
<1>2. Held'
  BY <1>p DEF Withdraw, Held, Empty, Sound
<1>3. Standing(r)'
  BY <1>t, <1>b DEF Standing, Outside, Inflight, Owning, Building, ForModern, barrier
<1>4. Own(r)'
  BY <1>t, <1>b, <1>p DEF Own, Reads, Follows, Verifies, Building, Inflight, user
<1>5. Leased(r)'
  BY <1>t, <1>b DEF Leased, Owes, Outside, Inflight, Owning, Building, Rebuilds
<1>6. lapsed' \in BOOLEAN /\ (lapsed => lapsed')
  BY <1>u DEF Withdraw
<1>7. lapsed' \/ project'.profile = lease
  <2>1. Owes(r) => lapsed'
    BY DEF Owes, Withdraw
  <2>2. QED
    BY <1>6, <1>o, <1>p, <2>1, NobodyOwes
<1>8. endpoint' \in Gateways
  BY DEF Withdraw, Empty, Gateways
<1>9. req'[r].at \in Owning
  BY <1>b DEF Owning
<1>10. QED
  BY <1>1, <1>2, <1>3, <1>4, <1>5, <1>6, <1>7, <1>8, <1>9, <1>b, <1>o, <1>p, ProjectStep

\* Trust is there: the gateway is kept when its anchor is the digest, or rebuilt.
LEMMA RefreshKeeps ==
  ASSUME Inv, NEW r \in Requests, req[r].at = "check", trusted = req[r].digest, Refresh(r),
         UNCHANGED <<era, user, barrier, owner, lease, decided>>
  PROVE  Inv'
<1> USE NoRequest
<1>t. Typed /\ Standing(r) /\ Own(r) /\ Leased(r) /\ Held /\ (writer # None => readers = {})
  BY DEF Inv, Locked, Own, Fenced
<1>u. req \in [Requests -> Records] /\ lapsed \in BOOLEAN /\ files \in Digests
  BY <1>t DEF Typed
<1>o. owner = r /\ (r \in readers \/ writer = r)
  BY <1>t DEF Standing, Outside, Inflight, Owning
<1>q. req[r].quiet => trusted = files
  BY <1>t DEF Own, Reads
<1>p. /\ project' = [project EXCEPT !.trust = TRUE]
      /\ project'.trust = TRUE /\ project'.gateway = project.gateway /\ project'.anchor = project.anchor
      /\ project'.built = project.built /\ project'.profile = project.profile
      /\ project' \in [trust : BOOLEAN, gateway : Gateways, anchor : Digests \cup {None},
                       profile : Toolsets \cup {None}, built : BOOLEAN]
  BY <1>t DEF Refresh, Typed
<1>l. lapsed' = (lapsed /\ req[r].phase \notin Rebuilds) /\ lapsed' \in BOOLEAN
  BY <1>u DEF Refresh
<1>m. lapsed' \/ ~lapsed \/ writer = r \/ req[r].phase = "rebuild-default"
  BY <1>t, <1>l, <1>o DEF Standing, Rebuilds, ForModern
<1>e. endpoint' \in Gateways /\ (endpoint' = Empty \/ endpoint' = endpoint)
  <2>1. endpoint' = Empty \/ endpoint' = endpoint
    BY DEF Refresh
  <2>2. endpoint \in Gateways /\ Empty \in Gateways
    BY <1>t DEF Typed, Empty, Gateways
  <2>3. QED
    BY <2>1, <2>2
<1>h. Held'
  BY <1>t, <1>p, <1>e DEF Held, Sound, Serves
<1>f. Owes(r) \/ lapsed \/ project.profile = lease
  BY <1>o, NobodyOwes
<1>1. CASE \/ req[r].phase \in Rebuilds
           \/ project.built /\ project.anchor # req[r].digest
  <2> DEFINE fence == IF req[r].phase \in Rebuilds THEN req[r].fence ELSE project.profile
             gate == [Empty EXCEPT !.torn = ~req[r].quiet]
  <2>a. req' = [req EXCEPT ![r].at = "build", ![r].digest = None, ![r].fence = fence, ![r].gate = gate]
    BY <1>1 DEF Refresh
  <2>g. gate \in Gateways /\ gate.torn = ~req[r].quiet
    BY <1>t, Fields DEF Empty, Gateways
  <2>f. fence \in Toolsets \cup {None}
    BY <1>t, Fields DEF Typed
  <2>k. /\ req[r].phase \in Rebuilds => fence = lease
        /\ req[r].phase \notin Rebuilds => fence = project.profile
    BY <1>t DEF Leased, Owes
  <2> HIDE DEF fence, gate
  <2>c. req'[r] = [req[r] EXCEPT !.at = "build", !.digest = None, !.fence = fence, !.gate = gate]
    BY <1>u, <2>a
  <2>b. /\ req'[r].at = "build" /\ req'[r].phase = req[r].phase /\ req'[r].kind = req[r].kind
        /\ req'[r].fence = fence /\ req'[r].gate = gate
        /\ req'[r].quiet = req[r].quiet /\ req'[r].before = req[r].before
    <3>1. req'[r].at = "build" /\ req'[r].phase = req[r].phase /\ req'[r].kind = req[r].kind
      BY <1>u, <2>c DEF Records
    <3>2. req'[r].fence = fence /\ req'[r].gate = gate
      BY <1>u, <2>c DEF Records
    <3>3. req'[r].quiet = req[r].quiet /\ req'[r].before = req[r].before
      BY <1>u, <2>c DEF Records
    <3>4. QED
      BY <3>1, <3>2, <3>3
  <2>1. OfRequest(r)
    <3>1. "build" \in Places
      BY DEF Places, Owning, Building
    <3>2. [req[r] EXCEPT !.at = "build", !.digest = None, !.fence = fence, !.gate = gate] \in Records
      BY <1>u, <2>f, <2>g, <3>1, Retyped
    <3>3. req' = [req EXCEPT ![r] = [req[r] EXCEPT !.at = "build", !.digest = None,
                                                   !.fence = fence, !.gate = gate]]
      BY <2>a
    <3>4. QED
      BY <1>u, <3>2, <3>3 DEF OfRequest
  <2>2. Standing(r)'
    BY <1>t, <2>b DEF Standing, Outside, Inflight, Owning, Building, ForModern, barrier
  <2>3. Own(r)'
    <3>1. Builds(r)'
      BY <1>p, <1>q, <2>b, <2>g DEF Builds, user
    <3>2. QED
      BY <3>1, <2>b DEF Own, Reads, Follows, Verifies, Inflight
  <2>4. Leased(r)'
    BY <1>t, <1>p, <2>b, <2>k DEF Leased, Owes, Outside, Inflight, Owning, Building
  <2>5. Owes(r)' \/ lapsed' \/ project'.profile = lease
    <3>1. req[r].phase \in Rebuilds => Owes(r)'
      BY <2>b DEF Owes, Building
    <3>2. req[r].phase \notin Rebuilds => ~Owes(r) /\ lapsed' = lapsed
      BY <1>l, <1>u DEF Owes
    <3>3. QED
      BY <1>f, <1>p, <3>1, <3>2
  <2>6. req'[r].at \in Owning
    BY <2>b DEF Owning, Building
  <2>7. QED
    BY <1>e, <1>h, <1>l, <1>m, <1>o, <1>p, <2>1, <2>2, <2>3, <2>4, <2>5, <2>6, <2>b, ProjectStep
<1>2. CASE req[r].phase \notin Rebuilds /\ ~(project.built /\ project.anchor # req[r].digest)
  <2>a. req' = [req EXCEPT ![r].at = "next", ![r].digest = None]
    BY <1>2 DEF Refresh
  <2>c. req'[r] = [req[r] EXCEPT !.at = "next", !.digest = None]
    BY <1>u, <2>a
  <2>b. /\ req'[r].at = "next" /\ req'[r].phase = req[r].phase /\ req'[r].kind = req[r].kind
        /\ req'[r].gate = req[r].gate /\ req'[r].fence = req[r].fence
        /\ req'[r].quiet = req[r].quiet /\ req'[r].before = req[r].before
    <3>1. req'[r].at = "next" /\ req'[r].phase = req[r].phase /\ req'[r].kind = req[r].kind
      BY <1>u, <2>c DEF Records
    <3>2. req'[r].gate = req[r].gate /\ req'[r].fence = req[r].fence
      BY <1>u, <2>c DEF Records
    <3>3. req'[r].quiet = req[r].quiet /\ req'[r].before = req[r].before
      BY <1>u, <2>c DEF Records
    <3>4. QED
      BY <3>1, <3>2, <3>3
  <2>1. OfRequest(r)
    <3>1. "next" \in Places
      BY DEF Places, Owning
    <3>2. [req[r] EXCEPT !.at = "next", !.digest = None] \in Records
      BY <1>u, <3>1, Retyped
    <3>3. req' = [req EXCEPT ![r] = [req[r] EXCEPT !.at = "next", !.digest = None]]
      BY <2>a
    <3>4. QED
      BY <1>u, <3>2, <3>3 DEF OfRequest
  <2>2. Standing(r)'
    BY <1>t, <2>b DEF Standing, Outside, Inflight, Owning, Building, ForModern, barrier
  <2>3. Own(r)'
    <3>1. req'[r].at \notin Building
      BY <2>b DEF Building
    <3>2. Reads(r)'
      BY <1>2, <1>p, <1>q, <2>b DEF Reads, user
    <3>3. QED
      BY <3>1, <3>2, <2>b DEF Own, Follows, Verifies, Inflight
  <2>4. Leased(r)'
    BY <1>t, <2>b DEF Leased, Owes, Outside, Inflight, Owning, Building, Rebuilds
  <2>5. lapsed' \/ project'.profile = lease
    <3>1. ~Owes(r) /\ lapsed' = lapsed
      BY <1>2, <1>l, <1>u DEF Owes
    <3>2. QED
      BY <1>f, <1>p, <3>1
  <2>6. req'[r].at \in Owning
    BY <2>b DEF Owning
  <2>7. QED
    BY <1>e, <1>h, <1>l, <1>m, <1>o, <1>p, <2>1, <2>2, <2>3, <2>4, <2>5, <2>6, <2>b, ProjectStep
<1>3. QED
  BY <1>1, <1>2

LEMMA CheckKeeps ==
  ASSUME Inv, NEW r \in Requests, Check(r)
  PROVE  Inv'
BY WithdrawKeeps, RefreshKeeps DEF Check, At

\* The gateway that is built is swapped in, with the fence it was built for.
LEMMA InstallKeeps ==
  ASSUME Inv, NEW r \in Requests, NEW gateway \in Gateways, NEW anchor \in Digests \cup {None},
         req[r].at \in {"fenced", "pins"}, Install(r, gateway, anchor), UNCHANGED user,
         gateway.def # None => /\ gateway.anchor = anchor
                               /\ gateway.fence = req[r].fence,
         gateway.def = None => gateway = [Empty EXCEPT !.torn = gateway.torn],
         gateway = Empty /\ anchor # None => Declares[anchor] # {},
         Sound(gateway),
         req[r].quiet => anchor = files
  PROVE  Inv'
<1> USE NoRequest
<1>t. Typed /\ Standing(r) /\ Own(r) /\ Leased(r) /\ Held /\ (writer # None => readers = {})
  BY DEF Inv, Locked, Own, Fenced
<1>u. /\ req \in [Requests -> Records] /\ lapsed \in BOOLEAN /\ files \in Digests
      /\ req[r].at \in Building /\ req[r].fence \in Toolsets \cup {None}
  BY <1>t, Fields DEF Typed, Building
<1>o. owner = r /\ (r \in readers \/ writer = r)
  BY <1>t, <1>u DEF Standing, Outside, Inflight, Owning, Building
<1>p. /\ project'.trust = project.trust /\ project'.gateway = gateway /\ project'.anchor = anchor
      /\ project'.built = TRUE /\ project'.profile = req[r].fence
      /\ project' \in [trust : BOOLEAN, gateway : Gateways, anchor : Digests \cup {None},
                       profile : Toolsets \cup {None}, built : BOOLEAN]
  BY <1>t, <1>u DEF Install, Typed
<1>g. project.trust /\ (req[r].quiet => files = trusted)
  BY <1>t, <1>u DEF Own, Builds
<1>e. /\ endpoint' = IF Serves(gateway) THEN gateway ELSE Empty
      /\ endpoint' \in Gateways
  BY DEF Install, Empty, Gateways
<1>h. Held'
  BY <1>p, <1>g, <1>e DEF Held, Serves, Sound
<1>a. req' = [req EXCEPT ![r].at = "next", ![r].gate = Empty, ![r].fence = None]
  BY DEF Install
<1>c. req'[r] = [req[r] EXCEPT !.at = "next", !.gate = Empty, !.fence = None]
  BY <1>u, <1>a
<1>b. /\ req'[r].at = "next" /\ req'[r].phase = req[r].phase /\ req'[r].kind = req[r].kind
      /\ req'[r].gate = Empty /\ req'[r].quiet = req[r].quiet /\ req'[r].before = req[r].before
  <2>1. req'[r].at = "next" /\ req'[r].phase = req[r].phase /\ req'[r].kind = req[r].kind
    BY <1>u, <1>c DEF Records
  <2>2. req'[r].gate = Empty /\ req'[r].quiet = req[r].quiet /\ req'[r].before = req[r].before
    BY <1>u, <1>c DEF Records
  <2>3. QED
    BY <2>1, <2>2
<1>1. OfRequest(r)
  <2>1. "next" \in Places /\ Empty \in Gateways
    BY DEF Places, Owning, Empty, Gateways
  <2>2. [req[r] EXCEPT !.at = "next", !.gate = Empty, !.fence = None] \in Records
    BY <1>u, <2>1, Retyped
  <2>3. req' = [req EXCEPT ![r] = [req[r] EXCEPT !.at = "next", !.gate = Empty, !.fence = None]]
    BY <1>a
  <2>4. QED
    BY <1>u, <2>2, <2>3 DEF OfRequest
<1>3. Standing(r)'
  BY <1>t, <1>u, <1>b DEF Install, Standing, Outside, Inflight, Owning, Building, ForModern, barrier
<1>4. Own(r)'
  <2>1. Reads(r)'
    BY <1>p, <1>g, <1>b DEF Reads, user
  <2>2. QED
    BY <2>1, <1>b DEF Own, Follows, Verifies, Building, Inflight
<1>5. Leased(r)'
  BY <1>t, <1>u, <1>b DEF Install, Leased, Owes, Outside, Inflight, Owning, Building, Rebuilds
<1>6. lapsed' \/ project'.profile = lease
  <2>1. CASE req[r].phase \in Rebuilds
    BY <1>t, <1>u, <1>p, <2>1 DEF Leased, Owes
  <2>2. CASE req[r].phase \notin Rebuilds
    <3>1. ~Owes(r) /\ req[r].fence = project.profile /\ lapsed' = lapsed
      BY <1>t, <1>u, <2>2 DEF Leased, Owes, Building, Install
    <3>2. QED
      BY <1>o, <1>p, <3>1, NobodyOwes
  <2>3. QED
    BY <2>1, <2>2
<1>7. req'[r].at \in Owning
  BY <1>b DEF Owning
<1>8. QED
  BY <1>1, <1>3, <1>4, <1>5, <1>6, <1>7, <1>b, <1>e, <1>h, <1>o, <1>p, <1>u, ProjectStep DEF Install

LEMMA InstallFencedKeeps ==
  ASSUME Inv, NEW r \in Requests, InstallFenced(r)
  PROVE  Inv'
<1> USE NoRequest
<1>1. req[r].at = "fenced" /\ UNCHANGED user
  BY DEF InstallFenced, Install, At
<1>2. Typed /\ Builds(r) /\ files \in Digests
  BY <1>1 DEF Inv, Building, Typed
<1> DEFINE gateway == [Empty EXCEPT !.torn = req[r].gate.torn]
<1>3. /\ gateway \in Gateways /\ gateway.def = None /\ gateway.torn = req[r].gate.torn
      /\ gateway = [Empty EXCEPT !.torn = gateway.torn]
  BY <1>2, Fields DEF Gateways, Empty
<1>4. gateway = Empty => ~req[r].gate.torn
  BY <1>3 DEF Empty
<1>5. Install(r, gateway, files)
  BY DEF InstallFenced
<1> HIDE DEF gateway
<1>6. gateway = Empty => Declares[files] # {}
  BY <1>1, <1>2, <1>4 DEF Builds
<1>7. Sound(gateway)
  BY <1>3 DEF Sound
<1>8. QED
  BY <1>1, <1>2, <1>3, <1>5, <1>6, <1>7, InstallKeeps

LEMMA InstallBuiltKeeps ==
  ASSUME Inv, NEW r \in Requests, InstallBuilt(r)
  PROVE  Inv'
<1> USE NoRequest
<1>1. req[r].at = "pins" /\ UNCHANGED user
  BY DEF InstallBuilt, Install, At
<1>2. Typed /\ Builds(r) /\ files \in Digests /\ req[r].gate \in Gateways
  BY <1>1, Fields DEF Inv, Building, Typed
<1> DEFINE gateway == [req[r].gate EXCEPT !.pins = files]
<1>3. /\ gateway \in Gateways /\ gateway.def = req[r].gate.def /\ gateway.torn = req[r].gate.torn
      /\ gateway.pins = files /\ gateway.fence = req[r].gate.fence /\ gateway.anchor = req[r].gate.anchor
      /\ gateway.anchor \in Digests \cup {None}
  BY <1>2 DEF Gateways
<1>4. Install(r, gateway, gateway.anchor)
  BY DEF InstallBuilt
<1> HIDE DEF gateway
<1>5. gateway.def # None /\ gateway.fence = req[r].fence /\ (req[r].quiet => gateway.anchor = files)
  BY <1>1, <1>2, <1>3 DEF Builds
<1>6. gateway # Empty
  BY <1>5 DEF Empty
<1>7. Sound(gateway)
  BY <1>1, <1>2, <1>3 DEF Sound, Builds
<1>8. QED
  BY <1>1, <1>3, <1>4, <1>5, <1>6, <1>7, InstallKeeps

-----------------------------------------------------------------------------
(* The user                                                                *)

LEMMA ChangeKeeps ==
  ASSUME Inv, NEW newFiles \in Digests, NEW newTrusted \in {trusted, newFiles, None},
         Change(newFiles, newTrusted)
  PROVE  Inv'
<1> USE NoRequest
<1>t. Typed
  BY DEF Inv
<1>u. req \in [Requests -> Records] /\ changes \in Nat /\ MaxChanges \in Nat
  BY <1>t, GatewayAssumption DEF Typed
<1>c. /\ files' = newFiles /\ trusted' = newTrusted
      /\ changes' = changes + 1 /\ changes < MaxChanges
      /\ UNCHANGED <<era, readers, writer, owner, project, endpoint, lease, decided, lapsed>>
  BY DEF Change, barrier
<1>1. ASSUME NEW r \in Requests
      PROVE  /\ req'[r] \in Records
             /\ req'[r].at = req[r].at /\ req'[r].kind = req[r].kind /\ req'[r].phase = req[r].phase
             /\ req'[r].digest = req[r].digest /\ req'[r].fence = req[r].fence
             /\ req'[r].before = req[r].before /\ req'[r].overtaken = req[r].overtaken
             /\ req'[r].quiet = FALSE
             /\ req'[r].gate.torn = (req[r].gate.torn \/ req[r].at \in Building)
             /\ req'[r].gate.def = req[r].gate.def /\ req'[r].gate.anchor = req[r].gate.anchor
             /\ req'[r].gate.pins = req[r].gate.pins /\ req'[r].gate.fence = req[r].gate.fence
             /\ req'[r].held = (req[r].held \/ (/\ req[r].at \in {"verify", "verify-store"}
                                                /\ newFiles = newTrusted
                                                /\ newFiles = req[r].gate.anchor))
  <2> DEFINE torn == req[r].gate.torn \/ req[r].at \in Building
             gate == [req[r].gate EXCEPT !.torn = torn]
             held == req[r].held \/ (/\ req[r].at \in {"verify", "verify-store"}
                                     /\ newFiles = newTrusted
                                     /\ newFiles = req[r].gate.anchor)
  <2>1. req'[r] = [req[r] EXCEPT !.quiet = FALSE, !.gate.torn = torn, !.held = held]
    BY <1>u DEF Change
  <2>2. [req[r] EXCEPT !.quiet = FALSE, !.gate.torn = torn, !.held = held]
          = [req[r] EXCEPT !.quiet = FALSE, !.gate = gate, !.held = held]
    BY <1>u DEF Records
  <2>3. torn \in BOOLEAN /\ held \in BOOLEAN
    OBVIOUS
  <2>d. /\ torn = (req[r].gate.torn \/ req[r].at \in Building)
        /\ held = (req[r].held \/ (/\ req[r].at \in {"verify", "verify-store"}
                                   /\ newFiles = newTrusted
                                   /\ newFiles = req[r].gate.anchor))
    OBVIOUS
  <2> HIDE DEF torn, held
  <2>4. /\ gate \in Gateways /\ gate.torn = torn /\ gate.def = req[r].gate.def
        /\ gate.anchor = req[r].gate.anchor /\ gate.pins = req[r].gate.pins
        /\ gate.fence = req[r].gate.fence
    BY <1>t, <2>3, Fields DEF Gateways
  <2> HIDE DEF gate
  <2>5. req'[r] = [req[r] EXCEPT !.quiet = FALSE, !.gate = gate, !.held = held]
    BY <2>1, <2>2
  <2>6. req'[r] \in Records
    <3>1. req[r] \in Records /\ FALSE \in BOOLEAN
      BY <1>u
    <3>2. [req[r] EXCEPT !.quiet = FALSE] \in Records
      BY <3>1, Retyped
    <3>3. [[req[r] EXCEPT !.quiet = FALSE] EXCEPT !.gate = gate] \in Records
      BY <2>4, <3>2, Retyped
    <3>4. [[[req[r] EXCEPT !.quiet = FALSE] EXCEPT !.gate = gate] EXCEPT !.held = held] \in Records
      BY <2>3, <3>3, Retyped
    <3>5. QED
      BY <2>5, <3>4
  <2>7. req'[r].at = req[r].at /\ req'[r].kind = req[r].kind /\ req'[r].phase = req[r].phase
    BY <1>u, <2>5 DEF Records
  <2>8. /\ req'[r].digest = req[r].digest /\ req'[r].fence = req[r].fence
        /\ req'[r].before = req[r].before /\ req'[r].overtaken = req[r].overtaken
    BY <1>u, <2>5 DEF Records
  <2>9. req'[r].quiet = FALSE /\ req'[r].gate = gate /\ req'[r].held = held
    BY <1>u, <2>5 DEF Records
  <2>10. QED
    BY <2>4, <2>6, <2>7, <2>8, <2>9, <2>d
<1>2. req' \in [Requests -> Records]
  BY <1>1 DEF Change
<1>3. Typed'
  BY <1>t, <1>u, <1>2, <1>c DEF Typed
<1>4. ASSUME NEW r \in Requests
      PROVE  Standing(r)' /\ Own(r)' /\ Leased(r)' /\ Overtakes(r)'
  <2>1. Standing(r) /\ Own(r) /\ Leased(r) /\ Overtakes(r)
    BY DEF Inv, Locked, Fenced, Own
  <2>2. Standing(r)'
    BY <2>1, <1>1, <1>c DEF Standing
  <2>3. req'[r].at \in Building => Builds(r)'
    BY <2>1, <1>1, <1>c DEF Own, Builds
  <2>4. Reads(r)' /\ Follows(r)'
    BY <2>1, <1>1, <1>c DEF Own, Reads, Follows
  <2>5. Verifies(r)'
    <3>1. req[r].at \in Inflight => Sound(req[r].gate)'
      BY <2>1, <1>1 DEF Own, Verifies, Sound, Inflight, Building
    <3>2. /\ trusted' = newTrusted /\ files' = newFiles
          /\ req[r].at = "verify-store" /\ newTrusted = req[r].gate.anchor /\ newTrusted # None
               => req[r].held \/ newFiles = newTrusted
      BY <2>1, <1>c DEF Own, Verifies
    <3>3. QED
      BY <2>1, <1>1, <3>1, <3>2 DEF Own, Verifies, Consented
  <2>6. Leased(r)'
    BY <2>1, <1>1, <1>c DEF Leased, Owes
  <2>7. Overtakes(r)'
    <3>1. readers \subseteq Requests
      BY <1>t DEF Typed
    <3>2. QED
      BY <2>1, <1>1, <1>c, <3>1 DEF Overtakes
  <2>8. QED
    BY <2>2, <2>3, <2>4, <2>5, <2>6, <2>7 DEF Own
<1>5. Locked'
  BY <1>4, <1>c DEF Inv, Locked
<1>6. Held'
  BY <1>c DEF Inv, Held
<1>7. Fenced'
  <2>1. \A r \in Requests : Owes(r)' <=> Owes(r)
    BY <1>1 DEF Owes
  <2>2. QED
    BY <1>4, <1>c, <2>1 DEF Inv, Fenced
<1>8. QED
  BY <1>3, <1>4, <1>5, <1>6, <1>7 DEF Inv, Own

-----------------------------------------------------------------------------
(* The theorems                                                            *)

LEMMA InitInv == Init => Inv
<1> SUFFICES ASSUME Init PROVE Inv
  OBVIOUS
<1> USE NoRequest
<1>1. Empty \in Gateways
  BY DEF Empty, Gateways
<1>2. Arriving \in Records
  BY <1>1 DEF Arriving, Records, Places, Outside, Phases
<1>3. \A r \in Requests : req[r] = Arriving
  BY DEF Init
<1>4. /\ Arriving.at = "new" /\ Arriving.kind = "none" /\ Arriving.phase = "none"
      /\ Arriving.gate.anchor = None
  BY DEF Arriving, Empty
<1>5. Typed
  <2>1. changes \in 0..MaxChanges
    BY GatewayAssumption DEF Init
  <2>2. req \in [Requests -> Records]
    BY <1>2 DEF Init
  <2>3. project \in [trust : BOOLEAN, gateway : Gateways, anchor : Digests \cup {None},
                     profile : Toolsets \cup {None}, built : BOOLEAN]
    BY <1>1 DEF Init
  <2>4. QED
    BY <1>1, <2>1, <2>2, <2>3 DEF Init, Typed
<1>6. Locked
  BY <1>3, <1>4 DEF Init, Locked, Standing, Outside, Inflight, Owning, Building
<1>7. Held
  BY DEF Init, Held, Sound, Empty
<1>8. \A r \in Requests : Own(r)
  BY <1>3, <1>4 DEF Own, Reads, Follows, Verifies, Building, Inflight
<1>9. Fenced
  <2>1. \A r \in Requests : Leased(r)
    BY <1>3, <1>4 DEF Leased, Owes, Outside, Inflight, Owning, Building, Rebuilds
  <2>2. QED
    BY <2>1, <1>3, <1>4 DEF Init, Fenced, Overtakes
<1>10. QED
  BY <1>5, <1>6, <1>7, <1>8, <1>9 DEF Inv, Own

LEMMA NextInv == Inv /\ [Next]_vars => Inv'
<1> SUFFICES ASSUME Inv, [Next]_vars PROVE Inv'
  OBVIOUS
<1>u. files \in Digests /\ trusted \in Digests \cup {None}
  BY DEF Inv, Typed
<1>1. CASE Edit
  BY <1>1, <1>u, ChangeKeeps DEF Edit
<1>2. CASE Trust
  BY <1>2, <1>u, ChangeKeeps DEF Trust
<1>3. CASE Revoke
  BY <1>3, <1>u, ChangeKeeps DEF Revoke
<1>4. CASE \E r \in Requests : Arrive(r) \/ ArriveByScript(r)
  BY <1>4, ArriveKeeps, ArriveByScriptKeeps
<1>5. CASE \E r \in Requests : EnterAlone(r) \/ EnterShared(r) \/ Lock(r) \/ ReadDigest(r) \/ Check(r)
  BY <1>5, EnterAloneKeeps, EnterSharedKeeps, LockKeeps, ReadDigestKeeps, CheckKeeps
<1>6. CASE \E r \in Requests : \/ ChooseFence(r) \/ InstallFenced(r) \/ LoadManifest(r)
                               \/ ReadAnchor(r) \/ CheckAnchor(r) \/ InstallBuilt(r)
  BY <1>6, ChooseFenceKeeps, InstallFencedKeeps, LoadManifestKeeps, ReadAnchorKeeps,
     CheckAnchorKeeps, InstallBuiltKeeps
<1>7. CASE \E r \in Requests : Derive(r) \/ Decide(r) \/ OpenDefault(r) \/ Rebuilt(r) \/ Snapshot(r)
  BY <1>7, DeriveKeeps, DecideKeeps, OpenDefaultKeeps, RebuiltKeeps, SnapshotKeeps
<1>8. CASE \E r \in Requests : \/ Open(r) \/ Close(r) \/ Dispatch(r)
                               \/ VerifyDigest(r) \/ VerifyStore(r) \/ Answer(r)
  BY <1>8, OpenKeeps, CloseKeeps, DispatchKeeps, VerifyDigestKeeps, VerifyStoreKeeps, AnswerKeeps
<1>9. CASE UNCHANGED vars
  <2>1. UNCHANGED <<era, files, trusted, changes, readers, writer, owner, project, endpoint, lease,
                    decided, req, lapsed>>
    BY <1>9 DEF vars, user, barrier
  <2>2. Typed' /\ Locked' /\ Held'
    BY <2>1 DEF Inv, Typed, Locked, Standing, Held
  <2>3. Fenced'
    BY <2>1 DEF Inv, Fenced, Leased, Owes, Overtakes
  <2>4. ASSUME NEW r \in Requests
        PROVE  (req'[r].at \in Building => Builds(r)') /\ Reads(r)' /\ Follows(r)' /\ Verifies(r)'
    BY <2>1 DEF Inv, Builds, Reads, Follows, Verifies, Consented
  <2>5. QED
    BY <2>2, <2>3, <2>4 DEF Inv
<1>10. QED
  BY <1>1, <1>2, <1>3, <1>4, <1>5, <1>6, <1>7, <1>8, <1>9 DEF Next, User, Serve

LEMMA Invariance == Spec => []Inv
BY InitInv, NextInv, PTL DEF Spec

\* The types, and what the locks promise: the barrier is shared or held alone,
\* and whoever has the mutex has the barrier too (DispatchBarrier, AutoProject).
THEOREM TypesTheorem == Spec => []TypeOK
<1>1. Inv => TypeOK
  <2> SUFFICES ASSUME Inv PROVE TypeOK
    OBVIOUS
  <2>1. Typed /\ Locked /\ Held
    BY DEF Inv
  <2>2. \A r \in Requests : Standing(r)
    BY <2>1 DEF Locked
  <2>3. readers \subseteq {r \in Requests : req[r].kind = "call"}
    BY <2>1, <2>2 DEF Typed, Standing
  <2>4. owner \in readers \cup {writer, None}
    BY <2>1, <2>2 DEF Typed, Standing, Outside, Inflight, Owning, Building
  <2>5. endpoint = Empty \/ (endpoint \in Gateways /\ Serves(endpoint))
    BY <2>1 DEF Typed, Held
  <2>6. \A r \in Requests :
          /\ req[r].kind \in Kinds \cup {"none"}
          /\ req[r].gate \in Gateways
          /\ req[r].at \in {"digest", "check", "next", "open"} \cup Building => owner = r
    BY <2>1, <2>2, Fields DEF Standing, Owning
  <2>7. QED
    BY <2>1, <2>3, <2>4, <2>5, <2>6 DEF TypeOK, Typed, Locked
<1>2. QED
  BY <1>1, Invariance, PTL

\* A call is forwarded under a manifest and a lock the user consented to, at an
\* instant after its dispatch, and under the toolset that is leased
\* (TrustAnchor::verify, dispatch_tool_with_lease), except in the named windows.
THEOREM AuthorityTheorem == Spec => []CallKeepsItsAuthority
<1>1. Inv => CallKeepsItsAuthority
  <2> SUFFICES ASSUME Inv, NEW r \in Requests, req[r].at = "forwarded"
               PROVE  /\ UnderConsent(r)
                      /\ req[r].kind # "script" /\ ~lapsed /\ ~req[r].overtaken => UnderTheLease(r)
    BY DEF CallKeepsItsAuthority, At
  <2>1. Typed /\ Verifies(r) /\ Leased(r)
    BY DEF Inv, Fenced
  <2>2. req[r].gate.def # None /\ Sound(req[r].gate) /\ (req[r].gate.anchor # None => req[r].held)
    BY <2>1 DEF Verifies, Inflight
  <2>3. UnderConsent(r)
    BY <2>2 DEF UnderConsent, Sound
  <2>4. req[r].kind # "script" /\ ~lapsed /\ ~req[r].overtaken => UnderTheLease(r)
    BY <2>1, <2>2 DEF UnderTheLease, Sound, Leased, Inflight
  <2>5. QED
    BY <2>3, <2>4
<1>2. QED
  BY <1>1, Invariance, PTL

\* While nothing changes, a request gets the gateway of the trusted bytes, or
\* the empty one (refresh_trust_with, Gateway::build).
THEOREM FollowTheorem == Spec => []TrustIsFollowed
<1>1. Inv => TrustIsFollowed
  BY DEF Inv, TrustIsFollowed, Follows, At
<1>2. QED
  BY <1>1, Invariance, PTL

-----------------------------------------------------------------------------
(* Nobody waits in a circle, and a request has no loop                     *)

\* While a request is under way some request waits for nobody: not for the
\* barrier, not for the mutex (DispatchBarrier, AutoProject's mutex).
THEOREM WedgeTheorem == Spec => []SomebodyCanGo
<1>1. Inv => SomebodyCanGo
  <2> SUFFICES ASSUME Inv, NEW r \in Requests, req[r].at \notin {"new", "done"},
                      \A q \in Requests : ~CanGo(q)
               PROVE  FALSE
    BY DEF SomebodyCanGo
  <2> USE NoRequest
  <2>1. Typed /\ \A q \in Requests : Standing(q) /\ req[q].at \in Places
    BY Fields DEF Inv, Locked
  <2>2. owner = None
    BY <2>1 DEF Typed, Standing, CanGo, Owning, Building
  <2>3. \A q \in Requests : req[q].at \in Outside
    BY <2>1, <2>2 DEF Standing, CanGo, At, Places, Outside, Owning, Building, Inflight
  <2>4. readers = {} /\ writer = None
    BY <2>1, <2>3 DEF Typed, Standing
  <2>5. QED
    BY <2>3, <2>4 DEF CanGo, At, Outside
<1>2. QED
  BY <1>1, Invariance, PTL


\* How far a request is from its end: what it is about, and where in that.
Stage(at, phase) ==
    IF at = "sync" THEN 10
    ELSE IF phase = "modern" THEN 9
    ELSE IF phase = "rebuild-modern" THEN 8
    ELSE IF at = "enter" THEN 7
    ELSE IF phase = "request" THEN 6
    ELSE IF phase = "default" THEN 5
    ELSE IF phase = "rebuild-default" THEN 4
    ELSE IF phase = "snapshot" THEN 3
    ELSE IF at \in Inflight THEN 2
    ELSE IF phase = "rebuild" THEN 1 ELSE 0

Place(at, built) ==
    IF at = "lock" THEN 12
    ELSE IF at = "digest" THEN 11
    ELSE IF at = "check" THEN 10
    ELSE IF at = "next" /\ ~built THEN 9
    ELSE IF at = "build" THEN 8
    ELSE IF at \in {"fenced", "load"} THEN 7
    ELSE IF at = "anchor" THEN 6
    ELSE IF at = "store" THEN 5
    ELSE IF at \in {"pins", "dispatch"} THEN 4
    ELSE IF at \in {"next", "verify"} THEN 3
    ELSE IF at \in {"open", "verify-store"} THEN 2
    ELSE IF at = "forwarded" THEN 1 ELSE 0

Rank(r) == 13 * Stage(req[r].at, req[r].phase) + Place(req[r].at, project.built)

Falls(r) == Rank(r)' < Rank(r)

LEMMA RankFalls ==
  ASSUME NEW at, NEW at2, NEW phase, NEW phase2, NEW built, NEW built2,
         \/ Stage(at2, phase2) < Stage(at, phase)
         \/ Stage(at2, phase2) = Stage(at, phase) /\ Place(at2, built2) < Place(at, built)
  PROVE  13 * Stage(at2, phase2) + Place(at2, built2) < 13 * Stage(at, phase) + Place(at, built)
<1>1. Stage(at, phase) \in 0..10 /\ Stage(at2, phase2) \in 0..10
  BY DEF Stage
<1>2. Place(at, built) \in 0..12 /\ Place(at2, built2) \in 0..12
  BY DEF Place
<1>3. QED
  BY <1>1, <1>2

\* The next stage, or the next place of the same one.
Advances(at, phase, built, at2, phase2, built2) ==
    \/ Stage(at2, phase2) < Stage(at, phase)
    \/ Stage(at2, phase2) = Stage(at, phase) /\ Place(at2, built2) < Place(at, built)

Advance(r) == Advances(req[r].at, req[r].phase, project.built,
                       req'[r].at, req'[r].phase, project'.built)

LEMMA AdvanceFalls ==
  ASSUME NEW r \in Requests, Advance(r)
  PROVE  Falls(r)
BY RankFalls DEF Advance, Advances, Falls, Rank

LEMMA EntryFalls ==
  ASSUME Inv, NEW r \in Requests, EnterAlone(r) \/ EnterShared(r) \/ Lock(r)
  PROVE  Advance(r)
<1>1. req \in [Requests -> Records] /\ Standing(r)
  BY DEF Inv, Typed, Locked
<1>2. CASE EnterAlone(r) \/ EnterShared(r)
  <2>1. /\ req[r].at \in {"sync", "enter"} /\ req'[r].at = "lock"
        /\ req'[r].phase = IF req[r].at = "sync" THEN "modern" ELSE "request"
    BY <1>1, <1>2 DEF EnterAlone, EnterShared, At, Records
  <2>2. req[r].phase = "none"
    BY <1>1, <2>1 DEF Standing, Outside
  <2>3. QED
    BY <2>1, <2>2 DEF Advance, Advances, Stage
<1>3. CASE Lock(r)
  <2>1. /\ req[r].at = "lock" /\ req'[r].at = "check"
        /\ req[r].phase # "request" => req'[r].phase = req[r].phase
        /\ req[r].phase = "request" => req'[r].phase \in {"snapshot", "default"}
    BY <1>1, <1>3 DEF Lock, At, Records
  <2>2. req[r].phase \in {"request", "modern", "rebuild"}
    BY <1>1, <2>1 DEF Standing
  <2>3. QED
    BY <2>1, <2>2 DEF Advance, Advances, Stage, Place, Inflight
<1>4. QED
  BY <1>2, <1>3

LEMMA RefreshFalls ==
  ASSUME Inv, NEW r \in Requests,
         \/ ReadDigest(r) \/ Check(r) \/ ChooseFence(r) \/ InstallFenced(r)
         \/ LoadManifest(r) \/ ReadAnchor(r) \/ CheckAnchor(r) \/ InstallBuilt(r)
  PROVE  Advance(r)
<1>1. req \in [Requests -> Records]
  BY DEF Inv, Typed
<1>2. project \in [trust : BOOLEAN, gateway : Gateways, anchor : Digests \cup {None},
                   profile : Toolsets \cup {None}, built : BOOLEAN]
  BY DEF Inv, Typed
<1>3. ASSUME ReadDigest(r) \/ ChooseFence(r) \/ LoadManifest(r) \/ ReadAnchor(r) \/ CheckAnchor(r)
      PROVE  Advance(r)
  <2>1. /\ req'[r].phase = req[r].phase
        /\ \/ req[r].at = "digest" /\ req'[r].at = "check"
           \/ req[r].at = "build" /\ req'[r].at \in {"fenced", "load"}
           \/ req[r].at \in {"build", "load"} /\ req'[r].at = "anchor"
           \/ req[r].at = "anchor" /\ req'[r].at = "store"
           \/ req[r].at = "store" /\ req'[r].at = "pins"
    BY <1>1, <1>3 DEF ReadDigest, ChooseFence, LoadManifest, ReadAnchor, CheckAnchor, At, Records
  <2>2. QED
    BY <2>1 DEF Advance, Advances, Stage, Place, Inflight
<1>4. ASSUME Check(r)
      PROVE  Advance(r)
  <2>1. /\ req'[r].phase = req[r].phase
        /\ req[r].at = "check" /\ req'[r].at \in {"next", "build"}
    BY <1>1, <1>4 DEF Check, Refresh, Withdraw, At, Records
  <2>2. QED
    BY <2>1 DEF Advance, Advances, Stage, Place, Inflight
<1>5. ASSUME InstallFenced(r) \/ InstallBuilt(r)
      PROVE  Advance(r)
  <2>1. /\ req'[r].phase = req[r].phase
        /\ req[r].at \in {"fenced", "pins"} /\ req'[r].at = "next"
    BY <1>1, <1>5 DEF InstallFenced, InstallBuilt, Install, At, Records
  <2>2. project'.built
    BY <1>2, <1>5 DEF InstallFenced, InstallBuilt, Install
  <2>3. QED
    BY <2>1, <2>2 DEF Advance, Advances, Stage, Place, Inflight
<1>6. QED
  BY <1>3, <1>4, <1>5

LEMMA FollowingFalls ==
  ASSUME Inv, NEW r \in Requests,
         Derive(r) \/ Decide(r) \/ OpenDefault(r) \/ Rebuilt(r) \/ Snapshot(r)
  PROVE  Advance(r)
<1>1. req \in [Requests -> Records] /\ Standing(r)
  BY DEF Inv, Typed, Locked
<1>2. ASSUME Derive(r)
      PROVE  Advance(r)
  <2>1. /\ req[r].at = "next" /\ req[r].phase = "modern"
        /\ \/ req'[r].at = "enter" /\ req'[r].phase = "none"
           \/ req'[r].at = "open" /\ req'[r].phase = "modern"
           \/ req'[r].at = "digest" /\ req'[r].phase = "rebuild-modern"
    BY <1>1, <1>2 DEF Derive, LeaveSync, At, Records
  <2>2. QED
    BY <2>1 DEF Advance, Advances, Stage, Place
<1>3. ASSUME Decide(r)
      PROVE  Advance(r)
  <2>1. /\ req[r].at = "next" /\ req[r].phase = "default"
        /\ \/ req'[r].at = "open" /\ req'[r].phase = "default"
           \/ req'[r].at = "digest" /\ req'[r].phase = "snapshot"
    BY <1>1, <1>3 DEF Decide, At, Records
  <2>2. QED
    BY <2>1 DEF Advance, Advances, Stage, Place
<1>4. ASSUME OpenDefault(r)
      PROVE  Advance(r)
  <2>1. /\ req[r].at = "open" /\ req'[r].at = "digest"
        /\ req[r].phase = "modern" => req'[r].phase = "rebuild-modern"
        /\ req[r].phase # "modern" => req'[r].phase \in {"rebuild-default", "snapshot"}
    <3>1. PICK native \in BOOLEAN :
            LET fence == IF ~native /\ req[r].fence \in Declares[files]
                         THEN req[r].fence ELSE None
                modern == req[r].phase = "modern"
            IN  req'[r] = [req[r] EXCEPT !.at = "digest", !.fence = fence,
                             !.phase = CASE modern -> "rebuild-modern"
                                         [] ~modern /\ fence # None -> "rebuild-default"
                                         [] OTHER  -> "snapshot"]
      BY <1>4 DEF OpenDefault
    <3> DEFINE fence == IF ~native /\ req[r].fence \in Declares[files] THEN req[r].fence ELSE None
    <3>2. /\ req'[r].at = "digest"
          /\ req'[r].phase = CASE req[r].phase = "modern" -> "rebuild-modern"
                               [] req[r].phase # "modern" /\ fence # None -> "rebuild-default"
                               [] OTHER  -> "snapshot"
      BY <1>1, <3>1 DEF Records
    <3> HIDE DEF fence
    <3>3. req[r].at = "open"
      BY <1>4 DEF OpenDefault, At
    <3>4. CASE req[r].phase = "modern"
      BY <3>2, <3>3, <3>4
    <3>5. CASE req[r].phase # "modern" /\ fence # None
      BY <3>2, <3>3, <3>5
    <3>6. CASE req[r].phase # "modern" /\ fence = None
      BY <3>2, <3>3, <3>6
    <3>7. QED
      BY <3>4, <3>5, <3>6
  <2>2. req[r].phase \in {"modern", "default"}
    BY <1>1, <2>1 DEF Standing
  <2>3. QED
    BY <2>1, <2>2 DEF Advance, Advances, Stage
<1>5. ASSUME Rebuilt(r)
      PROVE  Advance(r)
  <2>1. /\ req[r].at = "next" /\ req[r].phase \in Rebuilds
        /\ req[r].phase = "rebuild" => req'[r].at = "done" /\ req'[r].phase = "none"
        /\ req[r].phase = "rebuild-modern" => req'[r].at = "enter" /\ req'[r].phase = "none"
        /\ req[r].phase = "rebuild-default" => req'[r].at = "digest" /\ req'[r].phase = "snapshot"
    <3>1. req[r].at = "next" /\ req[r].phase \in Rebuilds
      BY <1>5 DEF Rebuilt, At
    <3>2. CASE req[r].phase = "rebuild"
      BY <1>1, <1>5, <3>1, <3>2 DEF Rebuilt, Leave, Arriving
    <3>3. CASE req[r].phase = "rebuild-modern"
      BY <1>1, <1>5, <3>1, <3>3 DEF Rebuilt, LeaveSync, Records
    <3>4. CASE req[r].phase = "rebuild-default"
      BY <1>1, <1>5, <3>1, <3>4 DEF Rebuilt, Records
    <3>5. QED
      BY <3>1, <3>2, <3>3, <3>4 DEF Rebuilds
  <2>2. QED
    BY <2>1 DEF Advance, Advances, Stage, Rebuilds, Inflight
<1>6. ASSUME Snapshot(r)
      PROVE  Advance(r)
  <2>1. /\ req[r].at = "next" /\ req[r].phase = "snapshot"
        /\ \/ req'[r].at = "dispatch" /\ req'[r].phase = "none"
           \/ ~project.built /\ req'[r].at = "build" /\ req'[r].phase = "snapshot"
    BY <1>1, <1>6 DEF Snapshot, At, Records
  <2>2. QED
    BY <2>1 DEF Advance, Advances, Stage, Place, Inflight
<1>7. QED
  BY <1>2, <1>3, <1>4, <1>5, <1>6

LEMMA DispatchFalls ==
  ASSUME Inv, NEW r \in Requests,
         Open(r) \/ Close(r) \/ Dispatch(r) \/ VerifyDigest(r) \/ VerifyStore(r) \/ Answer(r)
  PROVE  Advance(r)
<1>1. req \in [Requests -> Records] /\ Standing(r)
  BY DEF Inv, Typed, Locked
<1>2. /\ req[r].at \in Inflight
      /\ \/ req'[r].at = "done" /\ req'[r].phase = "none"
         \/ req'[r].at = "lock" /\ req'[r].phase = "rebuild"
         \/ /\ req'[r].phase = req[r].phase
            /\ \/ req[r].at = "dispatch" /\ req'[r].at = "verify"
               \/ req[r].at = "verify" /\ req'[r].at = "verify-store"
               \/ req[r].at = "verify-store" /\ req'[r].at = "forwarded"
  <2> DEFINE Ends == \/ req'[r].at = "done" /\ req'[r].phase = "none"
                     \/ req'[r].at = "lock" /\ req'[r].phase = "rebuild"
  <2>1. ASSUME NEW newLease, AfterLease(r, newLease)
        PROVE  Ends
    BY <1>1, <2>1 DEF AfterLease, Leave, Arriving, Records
  <2>2. ASSUME Open(r) \/ Close(r) \/ Answer(r)
        PROVE  req[r].at \in Inflight /\ Ends
    BY <2>1, <2>2 DEF Open, Close, Answer, At, Inflight
  <2>3. ASSUME Dispatch(r)
        PROVE  /\ req[r].at = "dispatch"
               /\ Ends \/ (req'[r].at = "verify" /\ req'[r].phase = req[r].phase)
    <3>1. CASE Serves(req[r].gate)
      BY <1>1, <2>3, <3>1 DEF Dispatch, At, Records
    <3>2. CASE ~Serves(req[r].gate)
      BY <2>1, <2>3, <3>2 DEF Dispatch, At
    <3>3. QED
      BY <3>1, <3>2
  <2>4. ASSUME VerifyDigest(r)
        PROVE  /\ req[r].at = "verify"
               /\ Ends \/ (req'[r].at = "verify-store" /\ req'[r].phase = req[r].phase)
    BY <1>1, <2>1, <2>4 DEF VerifyDigest, At, Records
  <2>5. ASSUME VerifyStore(r)
        PROVE  /\ req[r].at = "verify-store"
               /\ Ends \/ (req'[r].at = "forwarded" /\ req'[r].phase = req[r].phase)
    BY <1>1, <2>1, <2>5 DEF VerifyStore, At, Records
  <2>6. QED
    BY <2>2, <2>3, <2>4, <2>5 DEF Inflight
<1>3. req[r].phase = "none"
  BY <1>1, <1>2 DEF Standing
<1>4. QED
  BY <1>2, <1>3 DEF Advance, Advances, Stage, Place, Inflight

LEMMA ServeFalls ==
  ASSUME Inv, NEW r \in Requests, Serve(r)
  PROVE  Falls(r)
<1>1. Advance(r)
  BY EntryFalls, RefreshFalls, FollowingFalls, DispatchFalls DEF Serve
<1>2. QED
  BY <1>1, AdvanceFalls

\* Nobody sends a request back: where it stands is its own business, and the
\* project, once built, stays so.
LEMMA OthersStay ==
  ASSUME Inv, NEW r \in Requests,
         \/ User
         \/ \E q \in Requests : Arrive(q) /\ q # r
         \/ \E q \in Requests : ArriveByScript(q) /\ q # r
         \/ \E q \in Requests : Serve(q) /\ q # r
  PROVE  /\ req'[r].at = req[r].at /\ req'[r].phase = req[r].phase
         /\ project.built => project'.built
<1>1. req \in [Requests -> Records]
  BY DEF Inv, Typed
<1>2. project \in [trust : BOOLEAN, gateway : Gateways, anchor : Digests \cup {None},
                   profile : Toolsets \cup {None}, built : BOOLEAN]
  BY DEF Inv, Typed
<1>3. CASE User
  <2>1. ASSUME NEW newFiles, NEW newTrusted, Change(newFiles, newTrusted)
        PROVE  req'[r].at = req[r].at /\ req'[r].phase = req[r].phase /\ project' = project
    <3>1. project' = project
      BY <2>1 DEF Change
    <3>2. \E torn, held : req'[r] = [req[r] EXCEPT !.quiet = FALSE, !.gate.torn = torn, !.held = held]
      BY <2>1 DEF Change
    <3>3. QED
      BY <1>1, <3>1, <3>2 DEF Records
  <2>2. QED
    BY <1>3, <2>1 DEF User, Edit, Trust, Revoke
<1>4. ASSUME NEW q \in Requests, q # r, Arrive(q) \/ ArriveByScript(q)
      PROVE  req'[r] = req[r] /\ project' = project
  BY <1>1, <1>4 DEF Arrive, ArriveByScript
<1>5. ASSUME NEW q \in Requests, q # r,
             \/ EnterAlone(q) \/ EnterShared(q) \/ Lock(q) \/ ReadDigest(q) \/ ChooseFence(q)
             \/ LoadManifest(q) \/ ReadAnchor(q) \/ CheckAnchor(q) \/ Decide(q) \/ Snapshot(q)
      PROVE  req'[r] = req[r] /\ project' = project
  BY <1>1, <1>5 DEF EnterAlone, EnterShared, Lock, ReadDigest, ChooseFence, LoadManifest, ReadAnchor,
     CheckAnchor, Decide, Snapshot
<1>6. ASSUME NEW q \in Requests, q # r, Derive(q) \/ Rebuilt(q)
      PROVE  req'[r] = req[r] /\ project' = project
  <2>1. CASE Derive(q)
    BY <1>1, <1>6, <2>1 DEF Derive, LeaveSync
  <2>2. CASE Rebuilt(q)
    <3>1. req[q].phase \in Rebuilds
      BY <2>2 DEF Rebuilt
    <3>2. CASE req[q].phase = "rebuild"
      BY <1>1, <1>6, <2>2, <3>2 DEF Rebuilt, Leave
    <3>3. CASE req[q].phase = "rebuild-modern"
      BY <1>1, <1>6, <2>2, <3>3 DEF Rebuilt, LeaveSync
    <3>4. CASE req[q].phase = "rebuild-default"
      BY <1>1, <1>6, <2>2, <3>4 DEF Rebuilt
    <3>5. QED
      BY <3>1, <3>2, <3>3, <3>4 DEF Rebuilds
  <2>3. QED
    BY <1>6, <2>1, <2>2
<1>7. ASSUME NEW q \in Requests, q # r,
             \/ Open(q) \/ Close(q) \/ Dispatch(q) \/ VerifyDigest(q) \/ VerifyStore(q) \/ Answer(q)
      PROVE  req'[r] = req[r] /\ project' = project
  <2>1. ASSUME NEW newLease, AfterLease(q, newLease)
        PROVE  req'[r] = req[r]
    BY <1>1, <1>7, <2>1 DEF AfterLease, Leave
  <2>2. CASE Open(q) \/ Close(q) \/ Answer(q)
    BY <2>1, <2>2 DEF Open, Close, Answer
  <2>3. CASE Dispatch(q)
    <3>1. CASE Serves(req[q].gate)
      BY <1>1, <1>7, <2>3, <3>1 DEF Dispatch
    <3>2. CASE ~Serves(req[q].gate)
      BY <2>1, <2>3, <3>2 DEF Dispatch
    <3>3. QED
      BY <3>1, <3>2
  <2>4. CASE VerifyDigest(q) \/ VerifyStore(q)
    BY <1>1, <1>7, <2>1, <2>4 DEF VerifyDigest, VerifyStore
  <2>5. QED
    BY <1>7, <2>2, <2>3, <2>4
<1>8. ASSUME NEW q \in Requests, q # r, OpenDefault(q)
      PROVE  req'[r].at = req[r].at /\ req'[r].phase = req[r].phase /\ project' = project
  <2>1. project' = project
    BY <1>8 DEF OpenDefault
  <2>2. \E overtaken : req'[r] = [req[r] EXCEPT !.overtaken = overtaken]
    BY <1>8 DEF OpenDefault
  <2>3. QED
    BY <1>1, <2>1, <2>2 DEF Records
<1>9. ASSUME NEW q \in Requests, q # r, Check(q) \/ InstallFenced(q) \/ InstallBuilt(q)
      PROVE  req'[r] = req[r] /\ (project.built => project'.built)
  BY <1>1, <1>2, <1>9 DEF Check, Refresh, Withdraw, InstallFenced, InstallBuilt, Install
<1>10. QED
  BY <1>3, <1>4, <1>5, <1>6, <1>7, <1>8, <1>9 DEF Serve

\* Every step of a request takes it nearer to its end, and nobody's step takes
\* it back (the whole of one dispatch in mcp_server.rs): no request takes more
\* steps of its own than the rank it arrives with, under 143.
OnlyForward ==
    \A r \in Requests :
      req[r].at # "new" => /\ Rank(r) \in 0..142 /\ Rank(r)' \in 0..142
                           /\ Rank(r)' <= Rank(r)
                           /\ Serve(r) => Rank(r)' < Rank(r)

\* With WedgeTheorem: while requests are under way one of them has a step, and
\* there are only so many.
THEOREM ReturnTheorem == Spec => [][OnlyForward]_vars
<1>1. Inv /\ [Next]_vars => [OnlyForward]_vars
  <2> SUFFICES ASSUME Inv, Next, NEW r \in Requests, req[r].at # "new"
               PROVE  /\ Rank(r) \in 0..142 /\ Rank(r)' \in 0..142
                      /\ Rank(r)' <= Rank(r)
                      /\ Serve(r) => Rank(r)' < Rank(r)
    BY DEF OnlyForward
  <2>1. Rank(r) \in 0..142 /\ Rank(r)' \in 0..142
    <3>1. Stage(req[r].at, req[r].phase) \in 0..10 /\ Stage(req'[r].at, req'[r].phase) \in 0..10
      BY DEF Stage
    <3>2. Place(req[r].at, project.built) \in 0..12 /\ Place(req'[r].at, project'.built) \in 0..12
      BY DEF Place
    <3>3. QED
      BY <3>1, <3>2 DEF Rank
  <2>2. Serve(r) => Rank(r)' < Rank(r)
    BY ServeFalls DEF Falls
  <2>3. ~Arrive(r) /\ ~ArriveByScript(r)
    BY DEF Arrive, ArriveByScript, At
  <2>4. ~Serve(r) => Rank(r)' <= Rank(r)
    <3> SUFFICES ASSUME ~Serve(r)
                 PROVE  Rank(r)' <= Rank(r)
      OBVIOUS
    <3>1. /\ req'[r].at = req[r].at /\ req'[r].phase = req[r].phase
          /\ project.built => project'.built
      BY <2>3, OthersStay DEF Next
    <3>2. Stage(req'[r].at, req'[r].phase) = Stage(req[r].at, req[r].phase)
      BY <3>1
    <3>3. Place(req'[r].at, project'.built) <= Place(req[r].at, project.built)
      BY <3>1 DEF Place
    <3>4. Stage(req[r].at, req[r].phase) \in 0..10
      BY DEF Stage
    <3>5. Place(req[r].at, project.built) \in 0..12 /\ Place(req'[r].at, project'.built) \in 0..12
      BY DEF Place
    <3>6. QED
      BY <3>2, <3>3, <3>4, <3>5 DEF Rank
  <2>5. QED
    BY <2>1, <2>2, <2>4
<1>2. QED
  BY <1>1, Invariance, PTL DEF Spec
=============================================================================
