-------------------------- MODULE Execution_proofs --------------------------
(***************************************************************************)
(* Theorems about one tools_execute run, for any number of connections,    *)
(* any budget and any number of slots.                                     *)
(***************************************************************************)
EXTENDS Execution, FiniteSetTheorems, TLAPS

States == {"none", "bounced", "open", "over", "spawned", "called"}

Live == States \ {"none"}

Serving == States \ {"none", "bounced"}

With(S) == {c \in Conns : conn[c] \in S}

-----------------------------------------------------------------------------
(* The relay                                                               *)

RelayTypes ==
    /\ conn \in [Conns -> States]
    /\ connections \in Int
    /\ calls \in Int
    /\ taken \in Nat
    /\ dispatched \in Nat
    /\ frames \in Nat

\* What is charged: the calls granted, which stay charged, and the refusals
\* that are about to be given back.  Of those granted, some are not yet made.
Budget ==
    /\ calls = taken + Cardinality(With({"over"}))
    /\ taken <= MaxCalls
    /\ With({"over"}) # {} => taken = MaxCalls
    /\ dispatched + Cardinality(With({"spawned"})) <= taken

Slots ==
    /\ connections = Cardinality(With(Live))
    /\ Cardinality(With(Serving)) <= MaxConnections

RelayInv == RelayTypes /\ Budget /\ Slots

LEMMA Counts ==
  ASSUME NEW S
  PROVE  IsFiniteSet(With(S)) /\ Cardinality(With(S)) \in Nat
BY ExecutionAssumption, FS_Subset, FS_CardinalityType DEF With

\* How moving one connection changes the number of those in the states S.
LEMMA Moved ==
  ASSUME RelayTypes, NEW c \in Conns, NEW to \in States, conn' = [conn EXCEPT ![c] = to], NEW S
  PROVE  Cardinality(With(S)')
           = Cardinality(With(S)) + (IF to \in S THEN 1 ELSE 0) - (IF conn[c] \in S THEN 1 ELSE 0)
<1>1. IsFiniteSet(With(S)) /\ Cardinality(With(S)) \in Nat
  BY Counts
<1>2. CASE to \in S /\ conn[c] \notin S
  <2>1. With(S)' = With(S) \cup {c} /\ c \notin With(S)
    BY <1>2 DEF With, RelayTypes
  <2>2. Cardinality(With(S) \cup {c}) = Cardinality(With(S)) + 1
    BY <1>1, <2>1, FS_AddElement
  <2>3. QED
    BY <1>1, <1>2, <2>1, <2>2
<1>3. CASE to \notin S /\ conn[c] \in S
  <2>1. With(S)' = With(S) \ {c} /\ c \in With(S)
    BY <1>3 DEF With, RelayTypes
  <2>2. Cardinality(With(S) \ {c}) = Cardinality(With(S)) - 1
    BY <1>1, <2>1, FS_RemoveElement
  <2>3. QED
    BY <1>1, <1>3, <2>1, <2>2
<1>4. CASE to \in S /\ conn[c] \in S
  <2>1. With(S)' = With(S)
    BY <1>4 DEF With, RelayTypes
  <2>2. QED
    BY <1>1, <1>4, <2>1
<1>5. CASE to \notin S /\ conn[c] \notin S
  <2>1. With(S)' = With(S)
    BY <1>5 DEF With, RelayTypes
  <2>2. QED
    BY <1>1, <1>5, <2>1
<1>6. QED
  BY <1>2, <1>3, <1>4, <1>5

\* A connection that is served holds a slot.
LEMMA ServingHoldSlots == Cardinality(With(Serving)) <= Cardinality(With(Live))
<1>1. With(Serving) \subseteq With(Live)
  BY DEF With, Serving, Live
<1>2. QED
  BY <1>1, Counts, FS_Subset

LEMMA OverEmpty == With({"over"}) = {} <=> Cardinality(With({"over"})) = 0
BY Counts, FS_EmptySet

LEMMA InitRelay == Init => RelayInv
<1> SUFFICES ASSUME Init PROVE RelayInv
  OBVIOUS
<1>1. \A c \in Conns : conn[c] = "none"
  BY DEF Init
<1>2. With({"over"}) = {} /\ With({"spawned"}) = {} /\ With(Live) = {} /\ With(Serving) = {}
  BY <1>1 DEF With, Live, Serving
<1>3. /\ Cardinality(With({"over"})) = 0 /\ Cardinality(With({"spawned"})) = 0
      /\ Cardinality(With(Live)) = 0 /\ Cardinality(With(Serving)) = 0
  BY <1>2, FS_EmptySet
<1>4. RelayTypes
  BY DEF Init, RelayTypes, States
<1>5. Budget
  BY <1>2, <1>3, ExecutionAssumption DEF Init, Budget
<1>6. Slots
  BY <1>2, <1>3, ExecutionAssumption DEF Init, Slots
<1>7. QED
  BY <1>4, <1>5, <1>6 DEF RelayInv

\* Only a connection's own steps touch what the relay counts.
LEMMA OthersLeaveRelay ==
  ASSUME Next, \A c \in Conns : ~Connection(c)
  PROVE  UNCHANGED <<conn, connections, calls, taken, dispatched, frames>>
BY DEF Next, Main, relaying, spooling, daemon, Begin, StartRelay, StartSpool, CreateNets, StartSidecar,
       UndoTopology, Follow, AwaitReady, StartGuest, Wait, Teardown, DropLockdown, Report,
       DropHandle, JoinWriter, DropRelay, Forward, SidecarLogEnds, AbortTakesEffect, WriteLine, WriterEnds

\* Each step of a connection keeps the relay's books.
LEMMA ConnectionKeepsRelay ==
  ASSUME RelayInv, NEW c \in Conns, Connection(c)
  PROVE  RelayInv'
<1> USE ExecutionAssumption DEF RelayInv, RelayTypes
<1>c. \A S : Cardinality(With(S)) \in Nat
  BY Counts
<1>d. \A S : Cardinality(With(S)') \in Nat
  BY FS_Subset, FS_CardinalityType DEF With
<1>1. CASE Accept(c)
  <2>1. PICK to \in {"bounced", "open"} : /\ conn' = [conn EXCEPT ![c] = to]
                                          /\ to = "open" => connections < MaxConnections
    <3>1. CASE connections >= MaxConnections
      BY <1>1, <3>1 DEF Accept
    <3>2. CASE ~(connections >= MaxConnections)
      <4>1. conn' = [conn EXCEPT ![c] = "open"]
        BY <1>1, <3>2 DEF Accept
      <4>2. connections < MaxConnections
        BY <3>2
      <4>3. QED
        BY <4>1, <4>2
    <3>3. QED
      BY <3>1, <3>2
  <2>2. conn[c] = "none" /\ connections' = connections + 1 /\ UNCHANGED <<calls, taken, dispatched, frames>>
    BY <1>1 DEF Accept
  <2>3. to \in States
    BY <2>1 DEF States
  <2>m. \A S : Cardinality(With(S)') = Cardinality(With(S)) + (IF to \in S THEN 1 ELSE 0)
                                                           - (IF conn[c] \in S THEN 1 ELSE 0)
    BY <2>1, <2>3, Moved
  <2>4. RelayTypes'
    BY <2>1, <2>2, <2>3
  <2>5. /\ Cardinality(With({"over"})') = Cardinality(With({"over"}))
        /\ Cardinality(With({"spawned"})') = Cardinality(With({"spawned"}))
    BY <1>c, <2>1, <2>2, <2>m
  <2>6. Budget'
    <3>1. With({"over"})' # {} => With({"over"}) # {}
      BY <2>1, <2>2 DEF With
    <3>2. QED
      BY <1>c, <2>2, <2>5, <3>1 DEF Budget
  <2>7. Cardinality(With(Live)') = Cardinality(With(Live)) + 1
    BY <1>c, <2>1, <2>2, <2>m DEF Live, States
  <2>8. Cardinality(With(Serving)') = Cardinality(With(Serving)) + (IF to = "open" THEN 1 ELSE 0)
    BY <1>c, <2>1, <2>2, <2>m DEF Serving, States
  <2>9. Slots'
    BY <1>c, <2>1, <2>2, <2>7, <2>8, ServingHoldSlots DEF Slots
  <2>10. QED
    BY <2>4, <2>6, <2>9
<1>2. CASE Close(c)
  <2>1. conn[c] \in {"open", "bounced", "spawned", "called"}
    BY <1>2 DEF Close
  <2>2. /\ conn' = [conn EXCEPT ![c] = "none"]
        /\ connections' = connections - 1
        /\ UNCHANGED <<calls, taken, dispatched, frames>>
    BY <1>2 DEF Close
  <2>3. "none" \in States
    BY DEF States
  <2>m. \A S : Cardinality(With(S)') = Cardinality(With(S)) + (IF "none" \in S THEN 1 ELSE 0)
                                                           - (IF conn[c] \in S THEN 1 ELSE 0)
    BY <2>2, <2>3, Moved
  <2>4. RelayTypes'
    BY <2>2, <2>3
  <2>5. /\ Cardinality(With({"over"})') = Cardinality(With({"over"}))
        /\ Cardinality(With({"spawned"})') <= Cardinality(With({"spawned"}))
    BY <1>c, <2>1, <2>m
  <2>6. Budget'
    <3>1. Cardinality(With({"spawned"})') \in Nat
      BY <1>d
    <3>2. With({"over"})' # {} => With({"over"}) # {}
      BY <2>1, <2>2 DEF With
    <3>3. QED
      BY <1>c, <2>2, <2>5, <3>1, <3>2 DEF Budget
  <2>7. Cardinality(With(Live)') = Cardinality(With(Live)) - 1
    BY <1>c, <2>1, <2>m DEF Live, States
  <2>8. Cardinality(With(Serving)') <= Cardinality(With(Serving))
    BY <1>c, <2>1, <2>m DEF Serving, States
  <2>9. Cardinality(With(Serving)') \in Int
    BY <1>c, <2>1, <2>m DEF Serving, States
  <2>10. Slots'
    BY <1>c, <2>2, <2>7, <2>8, <2>9 DEF Slots
  <2>11. QED
    BY <2>4, <2>6, <2>10
<1>3. CASE Take(c)
  <2>1. conn[c] = "open" /\ calls' = calls + 1 /\ frames' = frames + 1 /\ UNCHANGED <<connections, dispatched>>
    BY <1>3 DEF Take
  <2>2. "spawned" \in States /\ "over" \in States
    BY DEF States
  <2>3. CASE calls < MaxCalls /\ taken' = taken + 1 /\ conn' = [conn EXCEPT ![c] = "spawned"]
    <3>m. \A S : Cardinality(With(S)') = Cardinality(With(S)) + (IF "spawned" \in S THEN 1 ELSE 0)
                                                             - (IF conn[c] \in S THEN 1 ELSE 0)
      BY <2>2, <2>3, Moved
    <3>1. RelayTypes'
      BY <2>1, <2>2, <2>3
    <3>2. /\ Cardinality(With({"over"})') = Cardinality(With({"over"}))
          /\ Cardinality(With({"spawned"})') = Cardinality(With({"spawned"})) + 1
          /\ Cardinality(With(Live)') = Cardinality(With(Live))
          /\ Cardinality(With(Serving)') = Cardinality(With(Serving))
      BY <1>c, <2>1, <3>m DEF Live, Serving, States
    <3>3. With({"over"}) = {}
      BY <1>c, <2>3 DEF Budget
    <3>4. With({"over"})' = {}
      BY <2>1, <2>3, <3>3 DEF With
    <3>5. taken + 1 <= MaxCalls
      BY <1>c, <2>3 DEF Budget
    <3>6. Budget'
      BY <1>c, <2>1, <2>3, <3>2, <3>4, <3>5 DEF Budget
    <3>7. Slots'
      BY <2>1, <3>2 DEF Slots
    <3>8. QED
      BY <3>1, <3>6, <3>7
  <2>4. CASE calls >= MaxCalls /\ taken' = taken /\ conn' = [conn EXCEPT ![c] = "over"]
    <3>m. \A S : Cardinality(With(S)') = Cardinality(With(S)) + (IF "over" \in S THEN 1 ELSE 0)
                                                             - (IF conn[c] \in S THEN 1 ELSE 0)
      BY <2>2, <2>4, Moved
    <3>1. RelayTypes'
      BY <2>1, <2>2, <2>4
    <3>2. /\ Cardinality(With({"over"})') = Cardinality(With({"over"})) + 1
          /\ Cardinality(With({"spawned"})') = Cardinality(With({"spawned"}))
          /\ Cardinality(With(Live)') = Cardinality(With(Live))
          /\ Cardinality(With(Serving)') = Cardinality(With(Serving))
      BY <1>c, <2>1, <3>m DEF Live, Serving, States
    <3>3. taken = MaxCalls
      <4>1. CASE With({"over"}) # {}
        BY <4>1 DEF Budget
      <4>2. CASE With({"over"}) = {}
        BY <4>2, <2>4, OverEmpty DEF Budget
      <4>3. QED
        BY <4>1, <4>2
    <3>4. Budget'
      BY <1>c, <2>1, <2>4, <3>2, <3>3 DEF Budget
    <3>5. Slots'
      BY <2>1, <3>2 DEF Slots
    <3>6. QED
      BY <3>1, <3>4, <3>5
  <2>5. QED
    BY <1>3, <2>3, <2>4 DEF Take
<1>4. CASE GiveBack(c)
  <2>1. /\ conn[c] = "over" /\ calls' = calls - 1 /\ conn' = [conn EXCEPT ![c] = "open"]
        /\ UNCHANGED <<connections, taken, dispatched, frames>>
    BY <1>4 DEF GiveBack
  <2>2. "open" \in States
    BY DEF States
  <2>m. \A S : Cardinality(With(S)') = Cardinality(With(S)) + (IF "open" \in S THEN 1 ELSE 0)
                                                           - (IF conn[c] \in S THEN 1 ELSE 0)
    BY <2>1, <2>2, Moved
  <2>3. RelayTypes'
    BY <2>1, <2>2
  <2>4. /\ Cardinality(With({"over"})') = Cardinality(With({"over"})) - 1
        /\ Cardinality(With({"spawned"})') = Cardinality(With({"spawned"}))
        /\ Cardinality(With(Live)') = Cardinality(With(Live))
        /\ Cardinality(With(Serving)') = Cardinality(With(Serving))
    BY <1>c, <2>1, <2>m DEF Live, Serving, States
  <2>5. taken = MaxCalls
    BY <2>1 DEF Budget, With
  <2>6. Budget' /\ Slots'
    BY <1>c, <2>1, <2>4, <2>5 DEF Budget, Slots
  <2>7. QED
    BY <2>3, <2>6
<1>5. CASE Dispatch(c)
  <2>1. /\ conn[c] = "spawned" /\ dispatched' = dispatched + 1 /\ conn' = [conn EXCEPT ![c] = "called"]
        /\ UNCHANGED <<connections, calls, taken, frames>>
    BY <1>5 DEF Dispatch
  <2>2. "called" \in States
    BY DEF States
  <2>m. \A S : Cardinality(With(S)') = Cardinality(With(S)) + (IF "called" \in S THEN 1 ELSE 0)
                                                           - (IF conn[c] \in S THEN 1 ELSE 0)
    BY <2>1, <2>2, Moved
  <2>3. RelayTypes'
    BY <2>1, <2>2
  <2>4. /\ Cardinality(With({"over"})') = Cardinality(With({"over"}))
        /\ Cardinality(With({"spawned"})') = Cardinality(With({"spawned"})) - 1
        /\ Cardinality(With(Live)') = Cardinality(With(Live))
        /\ Cardinality(With(Serving)') = Cardinality(With(Serving))
    BY <1>c, <2>1, <2>m DEF Live, Serving, States
  <2>5. With({"over"})' # {} => With({"over"}) # {}
    BY <2>1 DEF With
  <2>6. Budget' /\ Slots'
    BY <1>c, <2>1, <2>4, <2>5 DEF Budget, Slots
  <2>7. QED
    BY <2>3, <2>6
<1>6. CASE Respond(c)
  <2>1. /\ conn[c] = "called" /\ conn' = [conn EXCEPT ![c] = "open"]
        /\ UNCHANGED <<connections, calls, taken, dispatched, frames>>
    BY <1>6 DEF Respond
  <2>2. "open" \in States
    BY DEF States
  <2>m. \A S : Cardinality(With(S)') = Cardinality(With(S)) + (IF "open" \in S THEN 1 ELSE 0)
                                                           - (IF conn[c] \in S THEN 1 ELSE 0)
    BY <2>1, <2>2, Moved
  <2>3. RelayTypes'
    BY <2>1, <2>2
  <2>4. /\ Cardinality(With({"over"})') = Cardinality(With({"over"}))
        /\ Cardinality(With({"spawned"})') = Cardinality(With({"spawned"}))
        /\ Cardinality(With(Live)') = Cardinality(With(Live))
        /\ Cardinality(With(Serving)') = Cardinality(With(Serving))
    BY <1>c, <2>1, <2>m DEF Live, Serving, States
  <2>5. With({"over"})' # {} => With({"over"}) # {}
    BY <2>1 DEF With
  <2>6. Budget' /\ Slots'
    BY <1>c, <2>1, <2>4, <2>5 DEF Budget, Slots
  <2>7. QED
    BY <2>3, <2>6
<1>7. QED
  BY <1>1, <1>2, <1>3, <1>4, <1>5, <1>6 DEF Connection

LEMMA NextRelay == RelayInv /\ [Next]_vars => RelayInv'
<1> SUFFICES ASSUME RelayInv, [Next]_vars PROVE RelayInv'
  OBVIOUS
<1>1. CASE \E c \in Conns : Connection(c)
  BY <1>1, ConnectionKeepsRelay
<1>2. CASE UNCHANGED <<conn, connections, calls, taken, dispatched, frames>>
  BY <1>2 DEF RelayInv, RelayTypes, Budget, Slots, With
<1>3. CASE UNCHANGED vars
  BY <1>2, <1>3 DEF vars, relaying
<1>4. QED
  BY <1>1, <1>2, <1>3, OthersLeaveRelay

LEMMA RelayInvariant == Spec => []RelayInv
BY InitRelay, NextRelay, PTL DEF Spec

LEMMA InIsWith == \A s : In(s) = With({s})
BY DEF In, With

\* For any number of concurrent connections the gateway is called at most
\* max_calls times, and a request is refused only when every call of the budget
\* has been granted: the counter is the granted calls and the refusals in flight.
THEOREM BudgetTheorem == Spec => []BudgetHolds
<1>1. RelayInv => BudgetHolds
  <2>1. RelayInv => dispatched <= MaxCalls
    BY Counts, ExecutionAssumption DEF RelayInv, RelayTypes, Budget
  <2>2. RelayInv => (In("over") # {} => taken = MaxCalls)
    BY InIsWith DEF RelayInv, Budget
  <2>3. RelayInv => calls = taken + Cardinality(In("over"))
    BY InIsWith DEF RelayInv, Budget
  <2>4. QED
    BY <2>1, <2>2, <2>3 DEF BudgetHolds
<1>2. QED
  BY <1>1, RelayInvariant, PTL

\* The slots held are the live connections, and the limit on those served holds.
THEOREM SlotsTheorem == Spec => []SlotsAccounted
<1>1. RelayInv => SlotsAccounted
  <2>1. ASSUME RelayInv PROVE SlotsAccounted
    <3>1. Conns \ In("none") = With(Live)
      BY <2>1 DEF RelayInv, RelayTypes, In, With, Live
    <3>2. Conns \ (In("none") \cup In("bounced")) = With(Serving)
      BY <2>1 DEF RelayInv, RelayTypes, In, With, Serving
    <3>3. QED
      BY <2>1, <3>1, <3>2 DEF RelayInv, Slots, SlotsAccounted
  <2>2. QED
    BY <2>1
<1>2. QED
  BY <1>1, RelayInvariant, PTL

-----------------------------------------------------------------------------
(* What the daemon is left with                                            *)

\* Between its start and the destructor that removes it, a Lockdown owns the
\* sidecar and the two networks.
Owned == {"follow", "ready", "guest", "wait", "teardown", "lockdown"}

Building == Owned \cup {"sidecar", "undo"}

DaemonTypes ==
    /\ nets \subseteq {"internal", "egress"}
    /\ sidecar \in {"none", "created", "running", "attached"}
    /\ guest \in {"none", "running", "exited"}

\* Whatever exists is still owned by a later step, or something went wrong.
Accounted ==
    /\ sidecar # "none" => pc \in Owned \/ cause \cap {"sidecar", "removal"} # {}
    /\ sidecar = "attached" => pc \in Owned \/ "removal" \in cause
    /\ guest # "none" => pc \in {"wait", "teardown"} \/ cause \cap {"guest", "teardown"} # {}
    /\ guest = "running" => pc \in {"wait", "teardown"} \/ "teardown" \in cause
    /\ "egress" \in nets => pc \in Building \/ cause \cap {"sidecar", "removal"} # {}
    /\ "internal" \in nets => pc \in Building \/ cause \cap {"removal", "teardown"} # {}

DaemonInv == DaemonTypes /\ Accounted

LEMMA InitDaemon == Init => DaemonInv
BY DEF Init, DaemonInv, DaemonTypes, Accounted

\* What a best-effort removal leaves: what it was not told to remove, or what
\* the daemon refused to remove.
LEMMA Removal ==
  ASSUME NEW free, RemoveNets(free), NEW n \in nets'
  PROVE  n \in nets /\ (n \in free => "removal" \in cause')
BY DEF RemoveNets

LEMMA NextDaemon == DaemonInv /\ [Next]_vars => DaemonInv'
<1> SUFFICES ASSUME DaemonInv, [Next]_vars PROVE DaemonInv'
  OBVIOUS
<1> USE DEF DaemonInv, DaemonTypes, Accounted, Owned, Building
<1>1. CASE Begin \/ StartRelay \/ StartSpool \/ Follow \/ AwaitReady
  BY <1>1 DEF Begin, StartRelay, StartSpool, Follow, AwaitReady, Go, Fail, daemon
<1>2. CASE Report \/ DropHandle \/ JoinWriter \/ DropRelay
  <2>1. guest' = guest \/ ("teardown" \in cause /\ guest' = "none")
    BY <1>2 DEF Report, DropHandle, JoinWriter, DropRelay, Go, Fail, daemon
  <2>2. pc \notin Building /\ UNCHANGED <<nets, sidecar, cause>>
    BY <1>2 DEF Report, DropHandle, JoinWriter, DropRelay, Go, Fail, daemon
  <2>3. QED
    BY <2>1, <2>2
<1>3. CASE CreateNets
  BY <1>3 DEF CreateNets, Fail
<1>4. CASE StartSidecar
  BY <1>4 DEF StartSidecar
<1>5. CASE UndoTopology
  <2> DEFINE free == {n \in {"internal", "egress"} : ~InUse(n)}
  <2>1. pc = "undo" /\ pc' = "drops" /\ UNCHANGED <<sidecar, guest>> /\ RemoveNets(free)
    BY <1>5 DEF UndoTopology, Fail
  <2>2. cause \subseteq cause' /\ nets' \subseteq {"internal", "egress"}
    BY <2>1 DEF RemoveNets
  <2>3. "egress" \in nets' => cause' \cap {"sidecar", "removal"} # {}
    <3>1. CASE InUse("egress")
      BY <2>1, <2>2, <3>1 DEF InUse
    <3>2. CASE ~InUse("egress")
      BY <2>1, <3>2, Removal
    <3>3. QED
      BY <3>1, <3>2
  <2>4. "internal" \in nets' => cause' \cap {"removal", "teardown"} # {}
    <3>1. CASE InUse("internal")
      BY <2>1, <2>2, <3>1 DEF InUse
    <3>2. CASE ~InUse("internal")
      BY <2>1, <3>2, Removal
    <3>3. QED
      BY <3>1, <3>2
  <2>5. QED
    BY <2>1, <2>2, <2>3, <2>4
<1>6. CASE StartGuest
  BY <1>6 DEF StartGuest
<1>7. CASE Wait
  BY <1>7 DEF Wait
<1>8. CASE Teardown
  BY <1>8 DEF Teardown
<1>9. CASE DropLockdown
  <2> DEFINE free == {"egress"} \cup (IF guest = "running" THEN {} ELSE {"internal"})
  <2>1. pc = "lockdown" /\ pc' \in {"drops", "report"} /\ UNCHANGED guest
    BY <1>9 DEF DropLockdown
  <2>2. CASE sidecar' = "none" /\ RemoveNets(free)
    <3>1. cause \subseteq cause' /\ nets' \subseteq {"internal", "egress"}
      BY <2>2 DEF RemoveNets
    <3>2. "egress" \in nets' => "removal" \in cause'
      BY <2>2, Removal
    <3>3. "internal" \in nets' => guest = "running" \/ "removal" \in cause'
      BY <2>2, Removal
    <3>4. QED
      BY <2>1, <2>2, <3>1, <3>2, <3>3
  <2>3. CASE UNCHANGED <<sidecar, nets>> /\ cause' = cause \cup {"removal"}
    BY <2>1, <2>3
  <2>4. QED
    BY <1>9, <2>2, <2>3 DEF DropLockdown
<1>10. CASE \E c \in Conns : Connection(c)
  BY <1>10 DEF Connection, Accept, Close, Take, GiveBack, Dispatch, Respond, daemon
<1>11. CASE Forward \/ SidecarLogEnds \/ AbortTakesEffect \/ WriteLine \/ WriterEnds
  BY <1>11 DEF Forward, SidecarLogEnds, AbortTakesEffect, WriteLine, WriterEnds, daemon
<1>12. CASE UNCHANGED vars
  BY <1>12 DEF vars, daemon
<1>13. QED
  BY <1>1, <1>2, <1>3, <1>4, <1>5, <1>6, <1>7, <1>8, <1>9, <1>10, <1>11, <1>12 DEF Next, Main

\* A returned execution leaves nothing with the daemon, unless a removal was
\* refused or a container was left as far as it got.
THEOREM CleanupTheorem == Spec => []NothingLeftBehind
<1>1. DaemonInv => NothingLeftBehind
  BY DEF DaemonInv, Accounted, Owned, Building, NothingLeftBehind
<1>2. QED
  BY <1>1, InitDaemon, NextDaemon, PTL DEF Spec

-----------------------------------------------------------------------------
(* The run log                                                             *)

Records == {Started, Finished} \cup {[event |-> "line", line |-> n] : n \in Nat}

LogTypes ==
    /\ log \in Seq(Records)
    /\ queue \in Seq(Nat)
    /\ lines \in Nat

AtMostOneEnd ==
    \A i, j \in 1..Len(log) : log[i] = Finished /\ log[j] = Finished => i = j

Ending == {"drops", "join", "relaydrop", "returned"}

\* The run is open until its end is decided; from the lockdown's destructor
\* on, the code tells the two cases apart by whether it has been closed.
ClosedInTime ==
    /\ pc \in Ending => Closed
    /\ Closed => pc \in Ending \cup {"lockdown"}

LogInv ==
    /\ LogTypes
    /\ pc # "begin" => Len(log) >= 1 /\ log[1] = Started
    /\ pc = "begin" => queue = <<>> /\ spool = "none" /\ follower = "none" /\ log = <<>>
    /\ spool = "up" \/ queue # <<>> \/ follower \in {"on", "aborted"} => pc # "begin"
    /\ AtMostOneEnd
    /\ ClosedInTime

LEMMA Distinct == Started # Finished /\ \A n : Line(n) # Finished
BY DEF Started, Finished, Line

LEMMA InitLog == Init => LogInv
<1> SUFFICES ASSUME Init PROVE LogInv
  OBVIOUS
<1>1. log \in Seq(Records) /\ queue \in Seq(Nat) /\ Len(log) = 0
  BY DEF Init
<1>2. ~Closed /\ AtMostOneEnd
  BY <1>1 DEF Closed, AtMostOneEnd
<1>3. QED
  BY <1>1, <1>2 DEF Init, LogInv, LogTypes, ClosedInTime, Ending

\* Appending anything but the end neither closes the run nor opens it again.
LEMMA AppendOther ==
  ASSUME LogTypes, NEW e \in Records, e # Finished, log' = Append(log, e)
  PROVE  /\ log' \in Seq(Records)
         /\ Closed' <=> Closed
         /\ AtMostOneEnd => AtMostOneEnd'
         /\ Len(log) >= 1 => Len(log') >= 1 /\ log'[1] = log[1]
<1>1. /\ log' \in Seq(Records) /\ Len(log') = Len(log) + 1 /\ log'[Len(log) + 1] = e
      /\ \A i \in 1..Len(log) : log'[i] = log[i]
  BY DEF LogTypes
<1>2. Len(log) \in Nat
  BY DEF LogTypes
<1>3. \A i \in 1..Len(log') : log'[i] = Finished => i \in 1..Len(log) /\ log[i] = Finished
  BY <1>1, <1>2
<1>4. QED
  BY <1>1, <1>2, <1>3 DEF Closed, AtMostOneEnd

\* And the end, appended to an open run, is the only one.
LEMMA AppendEnd ==
  ASSUME LogTypes, ~Closed, log' = Append(log, Finished)
  PROVE  /\ log' \in Seq(Records)
         /\ Closed'
         /\ AtMostOneEnd'
         /\ Len(log) >= 1 => Len(log') >= 1 /\ log'[1] = log[1]
<1>1. /\ log' \in Seq(Records) /\ Len(log') = Len(log) + 1 /\ log'[Len(log) + 1] = Finished
      /\ \A i \in 1..Len(log) : log'[i] = log[i]
  BY DEF LogTypes, Records
<1>2. Len(log) \in Nat
  BY DEF LogTypes
<1>3. \A i \in 1..Len(log') : log'[i] = Finished => i = Len(log) + 1
  BY <1>1, <1>2 DEF Closed
<1>4. QED
  BY <1>1, <1>2, <1>3 DEF Closed, AtMostOneEnd

\* The steps of execute_plan that leave the log alone.
LEMMA LogUntouched ==
  ASSUME LogInv, UNCHANGED <<log, queue, lines>>, ClosedInTime',
         pc # "begin", pc' # "begin"
  PROVE  LogInv'
BY DEF LogInv, LogTypes, AtMostOneEnd, Closed

LEMMA NextLog == LogInv /\ [Next]_vars => LogInv'
<1> SUFFICES ASSUME LogInv, [Next]_vars PROVE LogInv'
  OBVIOUS
<1>t. LogTypes /\ ClosedInTime /\ AtMostOneEnd
  BY DEF LogInv
<1>1. CASE Begin
  <2>1. pc' = "relay" /\ log' = Append(log, Started) /\ UNCHANGED <<queue, lines>> /\ log = <<>> /\ pc = "begin"
    BY <1>1 DEF Begin, Go, spooling, LogInv
  <2>2. Started \in Records
    BY DEF Records
  <2>3. log' \in Seq(Records) /\ (Closed' <=> Closed) /\ AtMostOneEnd'
    BY <1>t, <2>1, <2>2, AppendOther, Distinct
  <2>4. Len(log') >= 1 /\ log'[1] = Started
    BY <2>1
  <2>5. ~Closed
    BY <2>1, <1>t DEF ClosedInTime, Ending
  <2>6. QED
    BY <2>1, <2>3, <2>4, <2>5, <1>t DEF LogInv, LogTypes, ClosedInTime, Ending
<1>2. ASSUME pc \notin Ending \cup {"lockdown", "begin"}, pc' \in {"drops", "lockdown"},
             log' = Append(log, Finished), UNCHANGED <<queue, lines>>
      PROVE  LogInv'
  <2>1. ~Closed
    BY <1>2, <1>t DEF ClosedInTime
  <2>2. log' \in Seq(Records) /\ Closed' /\ AtMostOneEnd'
    BY <1>2, <1>t, <2>1, AppendEnd
  <2>3. Len(log') >= 1 /\ log'[1] = Started
    BY <1>2, <1>t, <2>1, AppendEnd DEF LogInv
  <2>4. QED
    BY <1>2, <2>2, <2>3, <1>t DEF LogInv, LogTypes, ClosedInTime, Ending
<1>3. CASE StartRelay \/ StartSpool \/ CreateNets \/ UndoTopology \/ StartGuest \/ Report
  <2>1. /\ pc \notin Ending \cup {"lockdown", "begin"}
        /\ UNCHANGED <<queue, lines>>
        /\ \/ pc' \in {"drops", "lockdown"} /\ log' = Append(log, Finished)
           \/ pc' \in {"spool", "topology", "sidecar", "undo", "wait"} /\ UNCHANGED log
    BY <1>3 DEF StartRelay, StartSpool, CreateNets, UndoTopology, StartGuest, Report, Fail, spooling, Ending
  <2>2. CASE pc' \in {"drops", "lockdown"} /\ log' = Append(log, Finished)
    BY <1>2, <2>1, <2>2
  <2>3. CASE pc' \in {"spool", "topology", "sidecar", "undo", "wait"} /\ UNCHANGED log
    <3>1. ClosedInTime'
      BY <1>t, <2>1, <2>3 DEF ClosedInTime, Closed, Ending
    <3>2. QED
      BY <2>1, <2>3, <3>1, LogUntouched DEF Ending
  <2>4. QED
    BY <2>1, <2>2, <2>3
<1>4. CASE StartSidecar \/ Follow \/ AwaitReady \/ Wait \/ Teardown \/ DropLockdown
  <2>1. /\ pc \notin Ending \cup {"begin"}
        /\ UNCHANGED <<queue, lines, log>>
        /\ pc' \in {"follow", "undo", "ready", "guest", "lockdown", "teardown", "drops", "report"}
        /\ pc = "lockdown" <=> pc' \in {"drops", "report"}
        /\ pc = "lockdown" => pc' = IF Closed THEN "drops" ELSE "report"
    BY <1>4 DEF StartSidecar, Follow, AwaitReady, Wait, Teardown, DropLockdown, Go, spooling, Ending
  <2>2. Closed' <=> Closed
    BY <2>1 DEF Closed
  <2>3. ClosedInTime'
    BY <1>t, <2>1, <2>2 DEF ClosedInTime, Ending
  <2>4. QED
    BY <2>1, <2>3, LogUntouched
<1>5. CASE DropHandle \/ JoinWriter \/ DropRelay
  <2>1. pc \in Ending /\ pc' \in Ending /\ UNCHANGED <<queue, lines, log>>
    BY <1>5 DEF DropHandle, JoinWriter, DropRelay, Go, spooling, Ending
  <2>2. ClosedInTime'
    BY <1>t, <2>1 DEF ClosedInTime, Closed
  <2>3. QED
    BY <2>1, <2>2, LogUntouched DEF Ending
<1>6. CASE Forward
  <2>1. pc # "begin" /\ pc' = pc /\ UNCHANGED log
    BY <1>6 DEF Forward, LogInv
  <2>2. queue' \in Seq(Nat) /\ lines' \in Nat
    <3>1. lines' \in Nat
      BY <1>6, <1>t DEF Forward, LogTypes
    <3>2. queue' = Append(queue, lines') \/ queue' = queue
      BY <1>6 DEF Forward
    <3>3. queue \in Seq(Nat)
      BY <1>t DEF LogTypes
    <3>4. Append(queue, lines') \in Seq(Nat)
      BY <3>1, <3>3
    <3>5. QED
      BY <3>1, <3>2, <3>3, <3>4
  <2>3. ClosedInTime' /\ AtMostOneEnd'
    BY <1>t, <2>1 DEF ClosedInTime, Closed, AtMostOneEnd
  <2>4. QED
    BY <2>1, <2>2, <2>3, <1>t DEF LogInv, LogTypes
<1>7. CASE WriteLine
  <2>1. pc # "begin" /\ pc' = pc /\ UNCHANGED lines /\ log' = Append(log, Line(Head(queue))) /\ queue' = Tail(queue)
    BY <1>7 DEF WriteLine, LogInv
  <2>2. Head(queue) \in Nat /\ queue' \in Seq(Nat)
    BY <1>7, <1>t, <2>1 DEF WriteLine, LogTypes
  <2>3. Line(Head(queue)) \in Records
    BY <2>2 DEF Records, Line
  <2>4. log' \in Seq(Records) /\ (Closed' <=> Closed) /\ AtMostOneEnd'
    BY <1>t, <2>1, <2>3, AppendOther, Distinct
  <2>5. Len(log') >= 1 /\ log'[1] = Started
    BY <1>t, <2>1, <2>3, AppendOther, Distinct DEF LogInv
  <2>6. QED
    BY <1>t, <2>1, <2>2, <2>4, <2>5 DEF LogInv, LogTypes, ClosedInTime
<1>8. CASE SidecarLogEnds \/ AbortTakesEffect \/ WriterEnds
  <2>1. UNCHANGED <<pc, log, queue, lines>> /\ pc # "begin"
    BY <1>8 DEF SidecarLogEnds, AbortTakesEffect, WriterEnds, LogInv
  <2>2. ClosedInTime'
    BY <1>t, <2>1 DEF ClosedInTime, Closed
  <2>3. QED
    BY <2>1, <2>2, LogUntouched
<1>9. CASE (\E c \in Conns : Connection(c)) \/ UNCHANGED vars
  <2>1. UNCHANGED <<pc, log, queue, lines, spool, follower>>
    BY <1>9 DEF Connection, Accept, Close, Take, GiveBack, Dispatch, Respond, spooling, vars
  <2>2. QED
    BY <2>1 DEF LogInv, LogTypes, AtMostOneEnd, ClosedInTime, Closed
<1>10. QED
  BY <1>1, <1>3, <1>4, <1>5, <1>6, <1>7, <1>8, <1>9 DEF Next, Main

\* Every execution that returns has started once and ended once on record,
\* whichever setup step, container or teardown failed.
THEOREM ClosingTheorem == Spec => []ClosesTheRun
<1>1. LogInv => ClosesTheRun
  <2>1. ASSUME LogInv, pc = "returned" PROVE ClosesTheRun
    <3>1. Closed /\ AtMostOneEnd /\ log[1] = Started
      BY <2>1 DEF LogInv, ClosedInTime, Ending
    <3>2. PICK i \in 1..Len(log) : log[i] = Finished
      BY <3>1 DEF Closed
    <3>3. \A j \in 1..Len(log) : log[j] = Finished <=> j = i
      BY <3>1, <3>2 DEF AtMostOneEnd
    <3>4. QED
      BY <3>1, <3>3 DEF ClosesTheRun
  <2>2. QED
    BY <2>1 DEF ClosesTheRun
<1>2. QED
  BY <1>1, InitLog, NextLog, PTL DEF Spec

-----------------------------------------------------------------------------
(* The lines of the sidecar                                                *)

Setup == {"begin", "relay", "spool"}

Gathered == {"relaydrop", "returned"}

LinesTypes ==
    /\ LogTypes
    /\ accepted \in Seq(Nat)
    /\ owners \subseteq {"main", "sink", "follower"}
    /\ spool \in {"none", "up", "done"}
    /\ follower \in {"none", "on", "aborted", "gone"}

\* A line is in the log or in the queue, in the order it was accepted.
Delivered ==
    /\ Cardinality(LinesLogged) + Len(queue) = Len(accepted)
    /\ \A i \in LinesLogged : log[i].line = accepted[Place(i)]
    /\ \A k \in 1..Len(queue) : queue[k] = accepted[Cardinality(LinesLogged) + k]

\* Who may still send holds a sender; the writer ends when nobody does, and
\* the main thread lets its own go only on the way out.
Senders ==
    /\ pc \in Setup => spool = "none"
    /\ spool = "none" => pc \in Setup \cup Ending /\ owners = {} /\ queue = <<>> /\ follower = "none"
    /\ spool = "done" => owners = {} /\ queue = <<>>
    /\ follower \in {"on", "aborted"} => "follower" \in owners
    /\ spool # "none" => "main" \in owners \/ pc \in Ending \ {"drops"}
    /\ pc \in Gathered => spool # "up"

LinesInv == LinesTypes /\ Delivered /\ Senders

\* The lines of the log are finitely many.
LEMMA Counted ==
  ASSUME LogTypes
  PROVE  IsFiniteSet(LinesLogged) /\ Cardinality(LinesLogged) \in Nat
<1>1. LinesLogged \subseteq 1..Len(log) /\ Len(log) \in Nat
  BY DEF LinesLogged, LogTypes
<1>2. IsFiniteSet(1..Len(log))
  BY <1>1, FS_Interval
<1>3. QED
  BY <1>1, <1>2, FS_Subset, FS_CardinalityType

\* What is appended to the log stands after the lines that were there.
LEMMA LoggedAppended ==
  ASSUME LogTypes, NEW e \in Records, log' = Append(log, e)
  PROVE  /\ e.event # "line" => LinesLogged' = LinesLogged
         /\ e.event = "line" =>
              /\ LinesLogged' = LinesLogged \cup {Len(log) + 1}
              /\ Cardinality(LinesLogged)' = Cardinality(LinesLogged) + 1
              /\ \A n : n = Len(log) + 1 => Place(n)' = Cardinality(LinesLogged) + 1
         /\ \A i \in LinesLogged : log'[i] = log[i] /\ Place(i)' = Place(i)
         /\ log'[Len(log) + 1] = e
         /\ Len(log) + 1 \notin LinesLogged
<1>1. /\ Len(log) \in Nat /\ Len(log') = Len(log) + 1 /\ log'[Len(log) + 1] = e
      /\ \A i \in 1..Len(log) : log'[i] = log[i]
  BY DEF LogTypes
<1>2. \A i \in LinesLogged : i \in 1..Len(log) /\ log'[i] = log[i]
  BY <1>1 DEF LinesLogged
<1>3. Len(log) + 1 \notin LinesLogged
  BY <1>1, <1>2
<1>4. e.event # "line" => LinesLogged' = LinesLogged
  BY <1>1 DEF LinesLogged
<1>5. e.event = "line" => LinesLogged' = LinesLogged \cup {Len(log) + 1}
  BY <1>1 DEF LinesLogged
<1>6. \A i \in LinesLogged : {j \in LinesLogged' : j <= i} = {j \in LinesLogged : j <= i}
  BY <1>1, <1>2, <1>4, <1>5
<1>7. \A i \in LinesLogged : Place(i)' = Place(i)
  BY <1>6 DEF Place
<1>8. ASSUME e.event = "line"
      PROVE  /\ Cardinality(LinesLogged)' = Cardinality(LinesLogged) + 1
             /\ \A n : n = Len(log) + 1 => Place(n)' = Cardinality(LinesLogged) + 1
  <2>1. Cardinality(LinesLogged \cup {Len(log) + 1}) = Cardinality(LinesLogged) + 1
    BY <1>3, Counted, FS_AddElement
  <2>2. ASSUME NEW n, n = Len(log) + 1
        PROVE  Place(n)' = Cardinality(LinesLogged')
    <3>1. {j \in LinesLogged' : j <= n} = LinesLogged'
      BY <1>1, <1>2, <1>5, <1>8, <2>2
    <3>2. QED
      BY <3>1 DEF Place
  <2>3. QED
    BY <2>1, <2>2, <1>5, <1>8
<1>9. QED
  BY <1>1, <1>2, <1>3, <1>4, <1>5, <1>7, <1>8

\* What Delivered says does not depend on the rest of the state.
LEMMA DeliveredKept ==
  ASSUME LogTypes, Delivered, UNCHANGED <<queue, accepted>>,
         log' = log \/ \E e \in {Started, Finished} : log' = Append(log, e)
  PROVE  Delivered'
<1>1. CASE log' = log
  <2>1. LinesLogged' = LinesLogged
    BY <1>1 DEF LinesLogged
  <2>2. \A i \in LinesLogged : Place(i)' = Place(i)
    BY <2>1 DEF Place
  <2>3. QED
    BY <1>1, <2>1, <2>2 DEF Delivered
<1>2. CASE \E e \in {Started, Finished} : log' = Append(log, e)
  <2>1. PICK e \in {Started, Finished} : log' = Append(log, e)
    BY <1>2
  <2>2. e \in Records /\ e.event # "line"
    BY DEF Records, Started, Finished
  <2>3. LinesLogged' = LinesLogged /\ \A i \in LinesLogged : log'[i] = log[i] /\ Place(i)' = Place(i)
    BY <2>1, <2>2, LoggedAppended
  <2>4. QED
    BY <2>3 DEF Delivered
<1>3. QED
  BY <1>1, <1>2

\* Nothing is accepted before the run begins.
LEMMA InitLines == Init => LinesInv
<1> SUFFICES ASSUME Init PROVE LinesInv
  OBVIOUS
<1>1. log = <<>> /\ queue = <<>> /\ accepted = <<>> /\ spool = "none" /\ owners = {} /\ follower = "none"
      /\ pc = "begin" /\ lines = 0
  BY DEF Init
<1>2. LinesLogged = {} /\ Cardinality({}) = 0
  BY <1>1, FS_EmptySet DEF LinesLogged
<1>3. Len(queue) = 0 /\ Len(accepted) = 0
  BY <1>1
<1>4. Delivered
  BY <1>2, <1>3 DEF Delivered
<1>5. LinesTypes
  BY <1>1 DEF LinesTypes, LogTypes
<1>6. QED
  BY <1>1, <1>4, <1>5 DEF LinesInv, Senders, Setup, Ending, Gathered

\* The main thread, which appends the start and the end of the run.
LEMMA MainKeepsLines ==
  ASSUME LinesInv, LogTypes', Main
  PROVE  LinesInv'
<1>1. UNCHANGED <<queue, accepted>> /\ (log' = log \/ \E e \in {Started, Finished} : log' = Append(log, e))
  BY DEF Main, Begin, StartRelay, StartSpool, CreateNets, StartSidecar, UndoTopology, Follow, AwaitReady,
         StartGuest, Wait, Teardown, DropLockdown, Report, DropHandle, JoinWriter, DropRelay, Go, Fail, spooling
<1>2. Delivered'
  BY <1>1, DeliveredKept DEF LinesInv, LinesTypes
<1>3. LinesTypes' /\ Senders'
  <2> USE DEF LinesInv, LinesTypes, Senders, Setup, Gathered, Ending
  <2>1. CASE Begin \/ StartRelay \/ AwaitReady \/ StartGuest \/ Wait \/ Teardown \/ StartSidecar
    BY <1>1, <2>1 DEF Begin, StartRelay, AwaitReady, StartGuest, Wait, Teardown, StartSidecar, Go, Fail, spooling
  <2>2. CASE StartSpool
    BY <1>1, <2>2 DEF StartSpool, Fail
  <2>3. CASE CreateNets \/ UndoTopology
    BY <1>1, <2>3 DEF CreateNets, UndoTopology, Fail
  <2>4. CASE Follow
    BY <1>1, <2>4 DEF Follow, Go
  <2>5. CASE DropLockdown
    BY <1>1, <2>5 DEF DropLockdown
  <2>6. CASE Report \/ DropHandle
    BY <1>1, <2>6 DEF Report, DropHandle, Go, Fail, spooling
  <2>7. CASE JoinWriter \/ DropRelay
    BY <1>1, <2>7 DEF JoinWriter, DropRelay, Go, spooling
  <2>8. QED
    BY <2>1, <2>2, <2>3, <2>4, <2>5, <2>6, <2>7 DEF Main
<1>4. QED
  BY <1>2, <1>3 DEF LinesInv

\* The follower hands a line to the spool, which takes or sheds it.
LEMMA ForwardKeepsLines ==
  ASSUME LinesInv, LogTypes', Forward
  PROVE  LinesInv'
<1>1. /\ LogTypes /\ accepted \in Seq(Nat) /\ lines' \in Nat /\ queue \in Seq(Nat)
      /\ UNCHANGED <<pc, log, spool, owners, follower>>
  BY DEF LinesInv, LinesTypes, LogTypes, Forward
<1>2. Senders'
  BY <1>1 DEF Forward, LinesInv, Senders
<1>3. CASE UNCHANGED <<queue, accepted>>
  <2>1. Delivered'
    BY <1>1, <1>3, DeliveredKept DEF LinesInv
  <2>2. QED
    BY <1>1, <1>2, <1>3, <2>1 DEF LinesInv, LinesTypes
<1>4. CASE queue' = Append(queue, lines') /\ accepted' = Append(accepted, lines')
  <2>1. LinesLogged' = LinesLogged
    BY <1>1 DEF LinesLogged
  <2>2. \A i \in LinesLogged : Place(i)' = Place(i)
    BY <2>1 DEF Place
  <2>3. \A i \in LinesLogged : Place(i) \in 1..Cardinality(LinesLogged)
    <3>1. TAKE i \in LinesLogged
    <3>2. /\ {j \in LinesLogged : j <= i} \subseteq LinesLogged /\ IsFiniteSet(LinesLogged)
          /\ i \in {j \in LinesLogged : j <= i}
      BY <1>1, Counted DEF LinesLogged, LogTypes
    <3>3. IsFiniteSet({j \in LinesLogged : j <= i}) /\ Place(i) <= Cardinality(LinesLogged) /\ Place(i) \in Nat
      BY <3>2, FS_Subset, FS_CardinalityType DEF Place
    <3>4. Place(i) # 0
      BY <3>2, <3>3, FS_EmptySet DEF Place
    <3>5. QED
      BY <1>1, <3>3, <3>4, Counted
  <2>4. /\ Cardinality(LinesLogged) \in Nat
        /\ Cardinality(LinesLogged) + Len(queue) = Len(accepted)
        /\ \A i \in LinesLogged : log[i].line = accepted[Place(i)]
        /\ \A k \in 1..Len(queue) : queue[k] = accepted[Cardinality(LinesLogged) + k]
    BY <1>1, Counted DEF LinesInv, Delivered
  <2>5. /\ queue' \in Seq(Nat) /\ accepted' \in Seq(Nat)
        /\ Len(queue) \in Nat /\ Len(accepted) \in Nat
        /\ Len(queue') = Len(queue) + 1 /\ Len(accepted') = Len(accepted) + 1
        /\ \A k \in 1..Len(queue) : queue'[k] = queue[k]
        /\ \A k \in 1..Len(accepted) : accepted'[k] = accepted[k]
        /\ queue'[Len(queue) + 1] = lines' /\ accepted'[Len(accepted) + 1] = lines'
    BY <1>1, <1>4
  <2>6. \A i \in LinesLogged : log[i].line = accepted'[Place(i)]
    <3>1. TAKE i \in LinesLogged
    <3>2. Place(i) \in 1..Len(accepted)
      BY <2>3, <2>4, <2>5
    <3>3. QED
      BY <3>2, <2>4, <2>5
  <2>7. \A k \in 1..Len(queue') : queue'[k] = accepted'[Cardinality(LinesLogged) + k]
    <3>1. TAKE k \in 1..Len(queue')
    <3>2. CASE k \in 1..Len(queue)
      <4>n. /\ Cardinality(LinesLogged) \in Nat /\ Len(queue) \in Nat
            /\ Cardinality(LinesLogged) + Len(queue) = Len(accepted)
        BY <2>4, <2>5
      <4>1. Cardinality(LinesLogged) + k \in 1..Len(accepted)
        BY ONLY <3>2, <4>n
      <4>2. queue'[k] = queue[k]
        BY <3>2, <2>5
      <4>3. queue[k] = accepted[Cardinality(LinesLogged) + k]
        BY <3>2, <2>4
      <4>4. accepted'[Cardinality(LinesLogged) + k] = accepted[Cardinality(LinesLogged) + k]
        BY <4>1, <2>5
      <4>5. QED
        BY <4>2, <4>3, <4>4
    <3>3. CASE k = Len(queue) + 1
      <4>1. Cardinality(LinesLogged) + k = Len(accepted) + 1
        BY <3>3, <2>4, <2>5
      <4>2. QED
        BY <3>3, <4>1, <2>5
    <3>4. QED
      BY <3>1, <3>2, <3>3, <2>5
  <2>8. Cardinality(LinesLogged) + Len(queue') = Len(accepted')
    BY <2>4, <2>5
  <2>9. Delivered'
    BY <1>1, <2>1, <2>2, <2>6, <2>7, <2>8 DEF Delivered
  <2>10. QED
    BY <1>1, <1>2, <2>5, <2>9 DEF LinesInv, LinesTypes
<1>5. QED
  BY <1>3, <1>4 DEF Forward

\* The writer moves the first line of the queue to the log.
LEMMA WriteKeepsLines ==
  ASSUME LinesInv, LogTypes', WriteLine
  PROVE  LinesInv'
<1> DEFINE e == Line(Head(queue))
<1>1. /\ LogTypes /\ accepted \in Seq(Nat) /\ queue \in Seq(Nat) /\ queue # <<>> /\ Head(queue) \in Nat
      /\ UNCHANGED <<pc, spool, owners, follower, accepted>>
      /\ log' = Append(log, e) /\ queue' = Tail(queue) /\ spool = "up"
  BY DEF LinesInv, LinesTypes, LogTypes, WriteLine
<1>2. e \in Records /\ e.event = "line" /\ e.line = queue[1]
  BY <1>1 DEF Records, Line
<1> HIDE DEF e
<1>3. /\ LinesLogged' = LinesLogged \cup {Len(log) + 1}
      /\ Cardinality(LinesLogged)' = Cardinality(LinesLogged) + 1
      /\ \A n : n = Len(log) + 1 => Place(n)' = Cardinality(LinesLogged) + 1
      /\ \A i \in LinesLogged : log'[i] = log[i] /\ Place(i)' = Place(i)
      /\ log'[Len(log) + 1] = e
      /\ Len(log) + 1 \notin LinesLogged
  BY <1>1, <1>2, LoggedAppended
<1>4. /\ Cardinality(LinesLogged) \in Nat
      /\ Cardinality(LinesLogged) + Len(queue) = Len(accepted)
      /\ \A i \in LinesLogged : log[i].line = accepted[Place(i)]
      /\ \A k \in 1..Len(queue) : queue[k] = accepted[Cardinality(LinesLogged) + k]
  BY <1>1, Counted DEF LinesInv, Delivered
<1>5. /\ queue' \in Seq(Nat) /\ Len(queue) \in Nat /\ Len(queue) >= 1 /\ Len(queue') = Len(queue) - 1
      /\ \A k \in 1..(Len(queue) - 1) : queue'[k] = queue[k + 1]
  BY <1>1
<1>6. \A i \in LinesLogged' : log'[i].line = accepted[Place(i)']
  <2>1. TAKE i \in LinesLogged'
  <2>2. CASE i \in LinesLogged
    BY <2>2, <1>3, <1>4
  <2>3. CASE i = Len(log) + 1
    <3>1. log'[i] = e /\ Place(i)' = Cardinality(LinesLogged) + 1
      BY <2>3, <1>3
    <3>2. queue[1] = accepted[Cardinality(LinesLogged) + 1]
      BY <1>4, <1>5
    <3>3. QED
      BY <3>1, <3>2, <1>2
  <2>4. QED
    BY <2>1, <2>2, <2>3, <1>3
<1>7. \A k \in 1..Len(queue') : queue'[k] = accepted[Cardinality(LinesLogged)' + k]
  <2>1. TAKE k \in 1..Len(queue')
  <2>2. k \in 1..(Len(queue) - 1) /\ k + 1 \in 1..Len(queue) /\ k \in Int
    BY <2>1, <1>5
  <2>3. Cardinality(LinesLogged) + (k + 1) = Cardinality(LinesLogged)' + k
    BY <2>2, <1>3, <1>4
  <2>4. QED
    BY <2>2, <2>3, <1>4, <1>5
<1>8. Cardinality(LinesLogged)' + Len(queue') = Len(accepted)
  BY <1>3, <1>4, <1>5
<1>9. Delivered'
  BY <1>1, <1>6, <1>7, <1>8 DEF Delivered
<1>10. LinesTypes' /\ Senders'
  BY <1>1 DEF LinesInv, LinesTypes, Senders
<1>11. QED
  BY <1>9, <1>10 DEF LinesInv

\* Every step keeps the lines in order.
LEMMA NextLines == LinesInv /\ LogInv' /\ [Next]_vars => LinesInv'
<1> SUFFICES ASSUME LinesInv, LogInv', [Next]_vars PROVE LinesInv'
  OBVIOUS
<1>1. LogTypes'
  BY DEF LogInv
<1>2. CASE Main
  BY <1>1, <1>2, MainKeepsLines
<1>3. CASE Forward
  BY <1>1, <1>3, ForwardKeepsLines
<1>4. CASE WriteLine
  BY <1>1, <1>4, WriteKeepsLines
<1>5. CASE SidecarLogEnds \/ AbortTakesEffect \/ WriterEnds \/ (\E c \in Conns : Connection(c)) \/ UNCHANGED vars
  <2>1. UNCHANGED <<pc, log, queue, accepted>>
    BY <1>5 DEF SidecarLogEnds, AbortTakesEffect, WriterEnds, Connection, Accept, Close, Take, GiveBack,
                Dispatch, Respond, spooling, vars
  <2>2. Delivered'
    BY <2>1, DeliveredKept DEF LinesInv, LinesTypes
  <2>3. CASE SidecarLogEnds \/ AbortTakesEffect
    BY <1>1, <2>1, <2>2, <2>3 DEF LinesInv, LinesTypes, Senders, SidecarLogEnds, AbortTakesEffect
  <2>4. CASE WriterEnds
    BY <1>1, <2>1, <2>2, <2>4 DEF LinesInv, LinesTypes, Senders, WriterEnds
  <2>5. CASE (\E c \in Conns : Connection(c)) \/ UNCHANGED vars
    <3>1. UNCHANGED <<spool, owners, follower>>
      BY <2>5 DEF Connection, Accept, Close, Take, GiveBack, Dispatch, Respond, spooling, vars
    <3>2. QED
      BY <1>1, <2>1, <2>2, <3>1 DEF LinesInv, LinesTypes, Senders
  <2>6. QED
    BY <1>5, <2>3, <2>4, <2>5
<1>6. QED
  BY <1>2, <1>3, <1>4, <1>5 DEF Next

\* The lines are in order in every run.
LEMMA LinesInvariant == Spec => []LinesInv
<1>1. Spec => []LogInv
  BY InitLog, NextLog, PTL DEF Spec
<1>2. QED
  BY <1>1, InitLines, NextLines, PTL DEF Spec

\* Every line the spool accepted is in the log in its order or still queued,
\* and none is queued when execute_plan returns.
THEOREM DeliveryTheorem == Spec => []AcceptedAreWritten
<1>1. LinesInv => AcceptedAreWritten
  BY DEF LinesInv, LinesTypes, Delivered, Senders, Gathered, Ending, AcceptedAreWritten
<1>2. QED
  BY <1>1, LinesInvariant, PTL

-----------------------------------------------------------------------------
(* Types                                                                   *)

\* Lines are numbered as they come, up to the bound.
Numbered ==
    /\ lines \in 0..MaxLines
    /\ queue \in Seq(1..MaxLines)
    /\ accepted \in Seq(1..MaxLines)
    /\ log \in Seq(Events)

\* The part of the types no other invariant here states.
Places ==
    /\ pc \in {"begin", "relay", "spool", "topology", "sidecar", "undo", "follow", "ready", "guest",
               "wait", "teardown", "lockdown", "report", "drops", "join", "relaydrop", "returned"}
    /\ outcome \in Outcomes
    /\ relay \in {"none", "up", "down"}
    /\ cause \subseteq {"sidecar", "removal", "guest", "teardown"}

\* The beginning is well typed.
LEMMA InitPlaces == Init => Numbered /\ Places
BY ExecutionAssumption DEF Init, Numbered, Places, Outcomes

\* Every step keeps the main thread, its verdict and its causes well typed.
LEMMA NextPlaces == Places /\ [Next]_vars => Places'
<1> SUFFICES ASSUME Places, [Next]_vars PROVE Places'
  OBVIOUS
<1> USE DEF Places, Outcomes
<1>1. CASE Begin \/ StartRelay \/ StartSpool \/ CreateNets \/ StartSidecar \/ Follow \/ AwaitReady
  BY <1>1 DEF Begin, StartRelay, StartSpool, CreateNets, StartSidecar, Follow, AwaitReady, Go, Fail, relaying
<1>2. CASE UndoTopology
  BY <1>2 DEF UndoTopology, RemoveNets, Fail, relaying
<1>3. CASE StartGuest \/ Wait \/ Teardown
  BY <1>3 DEF StartGuest, Wait, Teardown, relaying
<1>4. CASE DropLockdown
  <2>1. cause' \subseteq cause \cup {"removal"}
    BY <1>4 DEF DropLockdown, RemoveNets
  <2>2. pc' \in {"drops", "report"} /\ UNCHANGED <<outcome, relay>>
    BY <1>4 DEF DropLockdown, relaying
  <2>3. QED
    BY <2>1, <2>2
<1>5. CASE Report \/ DropHandle \/ JoinWriter \/ DropRelay
  BY <1>5 DEF Report, DropHandle, JoinWriter, DropRelay, Go, Fail, relaying
<1>6. CASE (\E c \in Conns : Connection(c)) \/ Forward \/ SidecarLogEnds \/ AbortTakesEffect
           \/ WriteLine \/ WriterEnds \/ UNCHANGED vars
  <2>1. UNCHANGED <<pc, outcome, relay, cause>>
    BY <1>6 DEF Connection, Accept, Close, Take, GiveBack, Dispatch, Respond, Forward, SidecarLogEnds,
                AbortTakesEffect, WriteLine, WriterEnds, relaying, vars
  <2>2. QED
    BY <2>1
<1>7. QED
  BY <1>1, <1>2, <1>3, <1>4, <1>5, <1>6 DEF Next, Main

\* What is taken from a list, and what is left of it, was in it.
LEMMA Taken ==
  ASSUME NEW S, NEW s \in Seq(S), s # <<>>
  PROVE  Head(s) \in S /\ Tail(s) \in Seq(S)
OBVIOUS

\* Every step keeps the lines numbered up to the bound.
LEMMA NextNumbered == Numbered /\ [Next]_vars => Numbered'
<1> SUFFICES ASSUME Numbered, [Next]_vars PROVE Numbered'
  OBVIOUS
<1>1. Started \in Events /\ Finished \in Events /\ \A n \in 1..MaxLines : Line(n) \in Events
  BY DEF Events
<1>2. CASE Main
  <2>1. UNCHANGED <<queue, accepted, lines>> /\ (log' = log \/ \E e \in {Started, Finished} : log' = Append(log, e))
    BY <1>2 DEF Main, Begin, StartRelay, StartSpool, CreateNets, StartSidecar, UndoTopology, Follow, AwaitReady,
         StartGuest, Wait, Teardown, DropLockdown, Report, DropHandle, JoinWriter, DropRelay, Go, Fail, spooling
  <2>2. log' \in Seq(Events)
    <3>1. log \in Seq(Events)
      BY DEF Numbered
    <3>2. \A e \in {Started, Finished} : Append(log, e) \in Seq(Events)
      BY <1>1, <3>1
    <3>3. QED
      BY <2>1, <3>1, <3>2
  <2>3. QED
    BY <2>1, <2>2 DEF Numbered
<1>3. CASE Forward
  <2>1. lines' \in 1..MaxLines /\ UNCHANGED log
    BY <1>3, ExecutionAssumption DEF Forward, Numbered
  <2>2. /\ queue' = queue \/ queue' = Append(queue, lines')
        /\ accepted' = accepted \/ accepted' = Append(accepted, lines')
    BY <1>3 DEF Forward
  <2>3. Append(queue, lines') \in Seq(1..MaxLines) /\ Append(accepted, lines') \in Seq(1..MaxLines)
    BY <2>1 DEF Numbered
  <2>4. lines' \in 0..MaxLines
    BY <2>1, ExecutionAssumption
  <2>5. QED
    BY <2>1, <2>2, <2>3, <2>4 DEF Numbered
<1>4. CASE WriteLine
  <2>1. queue \in Seq(1..MaxLines) /\ queue # <<>> /\ log' = Append(log, Line(Head(queue))) /\ queue' = Tail(queue)
        /\ UNCHANGED <<lines, accepted>>
    BY <1>4 DEF WriteLine, Numbered
  <2>2. Head(queue) \in 1..MaxLines /\ Tail(queue) \in Seq(1..MaxLines)
    BY <2>1, Taken
  <2>3. Line(Head(queue)) \in Events
    BY <1>1, <2>2
  <2>4. log' \in Seq(Events)
    BY <2>1, <2>3 DEF Numbered
  <2>5. QED
    BY <2>1, <2>2, <2>4 DEF Numbered
<1>5. CASE (\E c \in Conns : Connection(c)) \/ SidecarLogEnds \/ AbortTakesEffect \/ WriterEnds \/ UNCHANGED vars
  <2>1. UNCHANGED <<lines, queue, accepted, log>>
    BY <1>5 DEF Connection, Accept, Close, Take, GiveBack, Dispatch, Respond, SidecarLogEnds,
                AbortTakesEffect, WriterEnds, spooling, vars
  <2>2. QED
    BY <2>1 DEF Numbered
<1>6. QED
  BY <1>2, <1>3, <1>4, <1>5 DEF Next

\* The counters of the relay never go below zero, whatever connections end and
\* charges are given back; lines, slots, networks and verdicts keep their types.
THEOREM TypesTheorem == Spec => []TypeOK
<1>1. Spec => [](Numbered /\ Places)
  BY InitPlaces, NextPlaces, NextNumbered, PTL DEF Spec
<1>2. Spec => []DaemonInv
  BY InitDaemon, NextDaemon, PTL DEF Spec
<1>3. Numbered /\ Places /\ RelayInv /\ DaemonInv /\ LinesInv => TypeOK
  <2> SUFFICES ASSUME Numbered, Places, RelayInv, DaemonInv, LinesInv PROVE TypeOK
    OBVIOUS
  <2>1. connections \in Nat /\ calls \in Nat
    BY Counts DEF RelayInv, RelayTypes, Budget, Slots
  <2>2. QED
    BY <2>1 DEF TypeOK, Numbered, Places, RelayInv, RelayTypes, States, DaemonInv, DaemonTypes,
                LinesInv, LinesTypes, Events
<1>4. QED
  BY <1>1, <1>2, <1>3, RelayInvariant, LinesInvariant, PTL

-----------------------------------------------------------------------------
(* The way out                                                             *)

\* The spool's join, the one place where the main thread waits for another
\* thread without a time limit, ends: no sender is left but that of a follower
\* that has been aborted, so lines are still to be written, or the follower is
\* about to go, or the writer is about to end.
JoinIsServed ==
    pc = "join" /\ spool = "up" => queue # <<>> \/ follower = "aborted" \/ owners = {}

\* Who holds a sender where the main thread is: it hands the sink on to the
\* follower or lets it go on every path, and aborts the follower on its way.
Handed ==
    /\ owners \subseteq {"main", "sink", "follower"}
    /\ "main" \in owners => pc \notin {"join", "relaydrop", "returned"}
    /\ "sink" \in owners => pc \in {"topology", "sidecar", "undo", "follow"}
    /\ "follower" \in owners => follower \in {"on", "aborted"}
    /\ follower = "on" => pc \in {"ready", "guest", "wait", "teardown", "lockdown"}

\* Each step hands the senders on.
LEMMA NextHanded == Handed /\ [Next]_vars => Handed'
<1> SUFFICES ASSUME Handed, [Next]_vars PROVE Handed'
  OBVIOUS
<1> USE DEF Handed, relaying, spooling, daemon, Go, Fail
<1>1. CASE Begin \/ StartRelay \/ StartSidecar
  BY <1>1 DEF Begin, StartRelay, StartSidecar
<1>2. CASE StartSpool
  BY <1>2 DEF StartSpool
<1>3. CASE CreateNets
  BY <1>3 DEF CreateNets
<1>4. CASE UndoTopology
  BY <1>4 DEF UndoTopology
<1>5. CASE Follow
  BY <1>5 DEF Follow
<1>6. CASE AwaitReady \/ StartGuest \/ Wait \/ Teardown \/ Report
  BY <1>6 DEF AwaitReady, StartGuest, Wait, Teardown, Report
<1>7. CASE DropLockdown
  <2>1. /\ pc = "lockdown" /\ owners' = owners /\ pc' \in {"drops", "report"}
        /\ follower' = IF follower = "on" THEN "aborted" ELSE follower
    BY <1>7 DEF DropLockdown
  <2>2. QED
    BY <2>1
<1>8. CASE DropHandle \/ JoinWriter \/ DropRelay
  BY <1>8 DEF DropHandle, JoinWriter, DropRelay
<1>9. CASE \E c \in Conns : Connection(c)
  BY <1>9 DEF Connection, Accept, Close, Take, GiveBack, Dispatch, Respond
<1>10. CASE Forward \/ WriteLine \/ WriterEnds
  BY <1>10 DEF Forward, WriteLine, WriterEnds
<1>11. CASE SidecarLogEnds \/ AbortTakesEffect
  BY <1>11 DEF SidecarLogEnds, AbortTakesEffect
<1>12. CASE UNCHANGED vars
  BY <1>12 DEF vars
<1>13. QED
  BY <1>1, <1>2, <1>3, <1>4, <1>5, <1>6, <1>7, <1>8, <1>9, <1>10, <1>11, <1>12 DEF Next, Main

\* However far the setup got and however the guest ended, the spool's join
\* waits for nothing that a later destructor would free.
THEOREM JoinTheorem == Spec => []JoinIsServed
<1>1. Init => Handed
  BY DEF Init, Handed
<1>2. Handed => JoinIsServed
  BY DEF Handed, JoinIsServed
<1>3. QED
  BY <1>1, <1>2, NextHanded, PTL DEF Spec
=============================================================================
