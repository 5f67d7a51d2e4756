---------------------------- MODULE SchedulerProofs ----------------------------
(***************************************************************************)
(* Proofs about the scheduler's bookkeeping (Scheduler): for any set of    *)
(* VMs, agents and VM actors, and whatever messages arrive in whatever     *)
(* order, the correlated maps stay consistent.                             *)
(***************************************************************************)
EXTENDS Scheduler, TLAPS

\* An actor is mapped to the VM it was spawned for, or to none.
ActorMapped ==
    /\ \A a \in VmActor : actorMap[a] \in {VmOf[a], None}
    /\ \A v \in VM : \A a \in discovered[v] : VmOf[a] = v

\* The inductive invariant.  PlacementHasIntent makes the placement of a create
\* the VM's first, TodoUnplaced that of a reconciliation; OneEntryPerAgent needs
\* both, and PendingCacheCoherent needs TodoUnplaced where a failed send puts an
\* empty entry list back.
SchedInv ==
    /\ SchedTypeOK
    /\ PlacementHasIntent
    /\ OneEntryPerAgent
    /\ TodoUnplaced
    /\ PendingCacheCoherent
    /\ IndexWithinStatus
    /\ DiscoveredActorMapped
    /\ ActorMapped

\* One VM's part of OneEntryPerAgent.
NoDuplicate(entries) ==
    \A d, e \in entries :
        (d.agent = e.agent \/ (d.lifecycle = "Pending" /\ e.lifecycle = "Pending"))
            => d = e

\* New entries.
LEMMA EntryFacts ==
    ASSUME NEW x \in Agent
    PROVE  /\ PendingOn(x) \in Entry
           /\ RunningOn(x) \in Entry
           /\ RunningOn(x).agent = x
           /\ RunningOn(x).lifecycle = "Running"
  BY DEF PendingOn, RunningOn, Entry

\* A confirmation replaces the agent's entry.
LEMMA ConfirmedFacts ==
    ASSUME NEW x \in Agent, NEW entries, entries \subseteq Entry
    PROVE  /\ Confirmed(entries, x) \subseteq Entry
           /\ NoDuplicate(entries) => NoDuplicate(Confirmed(entries, x))
<1> DEFINE r == RunningOn(x)
<1>1. r \in Entry /\ r.agent = x /\ r.lifecycle = "Running"
  BY EntryFacts
<1>2. Confirmed(entries, x) = {e \in entries : e.agent # x} \cup {r}
  BY DEF Confirmed
<1> HIDE DEF r
<1> QED BY <1>1, <1>2 DEF NoDuplicate

\* The scheduler starts empty.
LEMMA SchedInitInv == SchedInit => SchedInv
  BY DEF SchedInit, SchedInv, SchedTypeOK, PlacementHasIntent, OneEntryPerAgent,
         TodoUnplaced, PendingCacheCoherent, IndexWithinStatus, DiscoveredActorMapped,
         ActorMapped

\* A step of one of the handlers, whatever usage an agent reports.
HandlerStep ==
    \/ ClientNext
    \/ \E a \in VmActor : \/ \E manifest \in Size \cup {None} : VmUpdated(a, manifest)
                          \/ VmLost(a)
    \/ \E x \in Agent :
           \/ AgentLost(x)
           \/ \E vms \in SUBSET VM, used \in Nat : AgentUpdatedFull(x, vms, used)
           \/ \E added, removed \in SUBSET VM, used \in Nat :
                  /\ added \cap removed = {}
                  /\ AgentUpdatedDelta(x, added, removed, used)
    \/ ReconcileNext

\* Every handler keeps the invariant.
LEMMA HandlerInv ==
    ASSUME SchedInv, HandlerStep \/ UNCHANGED schedVars
    PROVE  SchedInv'
<1> USE DEF SchedInv
<1>1. ASSUME NEW v \in VM, NEW size \in Size, CreateVMRejected(v, size)
      PROVE  SchedInv'
  <2>1. SchedTypeOK'
    BY <1>1
       DEF CreateVMRejected, intentVars, SchedTypeOK
  <2>2. PlacementHasIntent'
    BY <1>1
       DEF CreateVMRejected, intentVars, PlacementHasIntent
  <2>3. OneEntryPerAgent'
    BY <1>1
       DEF CreateVMRejected, intentVars, OneEntryPerAgent
  <2>4. TodoUnplaced'
    BY <1>1
       DEF CreateVMRejected, intentVars, TodoUnplaced
  <2>5. PendingCacheCoherent'
    BY <1>1 DEF CreateVMRejected, intentVars, PendingCacheCoherent, pending_resources
  <2>6. IndexWithinStatus'
    BY <1>1
       DEF CreateVMRejected, intentVars, IndexWithinStatus
  <2>7. DiscoveredActorMapped'
    BY <1>1
       DEF CreateVMRejected, intentVars, DiscoveredActorMapped
  <2>8. ActorMapped'
    BY <1>1
       DEF CreateVMRejected, intentVars, ActorMapped
  <2> QED BY <2>1, <2>2, <2>3, <2>4, <2>5, <2>6, <2>7, <2>8 DEF SchedInv
<1>2. ASSUME NEW v \in VM, NEW size \in Size, NEW x \in Agent,
             NEW reply \in {a \in VmActor : VmOf[a] = v} \cup {None}, CreateVM(v, size, x, reply)
      PROVE  SchedInv'
  <2>1. SchedTypeOK'
    <3>1. placements' \in [VM -> SUBSET Entry]
      BY <1>2, EntryFacts DEF CreateVM, SchedTypeOK
    <3>2. actorMap' \in [VmActor -> VM \cup {None}]
      BY <1>2 DEF CreateVM, SchedTypeOK
    <3> QED BY <1>2, <3>1, <3>2 DEF CreateVM, SchedTypeOK
  <2>2. PlacementHasIntent'
    BY <1>2, SchedSizeAssumption, VmOfAssumption, SchedNoneAssumption
       DEF CreateVM, PendingOn, PlacementHasIntent, SchedTypeOK, TodoUnplaced,
           Idle
  <2>3. OneEntryPerAgent'
    BY <1>2
       DEF CreateVM, PendingOn, OneEntryPerAgent, SchedTypeOK, PlacementHasIntent,
           TodoUnplaced
  <2>4. TodoUnplaced'
    BY <1>2
       DEF CreateVM, PendingOn, TodoUnplaced
  <2>5. PendingCacheCoherent'
    BY <1>2
       DEF CreateVM, PendingOn, PendingCacheCoherent
  <2>6. IndexWithinStatus'
    BY <1>2
       DEF CreateVM, PendingOn, IndexWithinStatus
  <2>7. DiscoveredActorMapped'
    <3> SUFFICES ASSUME NEW w \in VM, NEW a \in discovered[w]
                 PROVE  actorMap'[a] = w
      BY <1>2 DEF CreateVM, DiscoveredActorMapped
    <3>1. a \in VmActor /\ actorMap[a] = w
      BY DEF SchedTypeOK, DiscoveredActorMapped
    <3>2. VmOf[a] = w
      BY <3>1 DEF ActorMapped
    <3>3. reply \in VmActor => VmOf[reply] = v
      BY VmOfAssumption
    <3> QED BY <1>2, <3>1, <3>2, <3>3 DEF CreateVM, SchedTypeOK
  <2>8. ActorMapped'
    <3>1. reply \in VmActor => VmOf[reply] = v
      BY VmOfAssumption
    <3> QED BY <1>2, <3>1 DEF CreateVM, SchedTypeOK, ActorMapped
  <2> QED BY <2>1, <2>2, <2>3, <2>4, <2>5, <2>6, <2>7, <2>8 DEF SchedInv
<1>3. ASSUME NEW v \in VM, NEW size \in Size, NEW x \in Agent, CreateVMRolledBack(v, size, x)
      PROVE  SchedInv'
  <2>1. SchedTypeOK'
    BY <1>3
       DEF CreateVMRolledBack, SchedTypeOK
  <2>2. PlacementHasIntent'
    BY <1>3
       DEF CreateVMRolledBack, PlacementHasIntent
  <2>3. OneEntryPerAgent'
    BY <1>3
       DEF CreateVMRolledBack, OneEntryPerAgent
  <2>4. TodoUnplaced'
    BY <1>3
       DEF CreateVMRolledBack, TodoUnplaced
  <2>5. PendingCacheCoherent'
    BY <1>3
       DEF CreateVMRolledBack, PendingCacheCoherent
  <2>6. IndexWithinStatus'
    BY <1>3
       DEF CreateVMRolledBack, IndexWithinStatus
  <2>7. DiscoveredActorMapped'
    BY <1>3
       DEF CreateVMRolledBack, DiscoveredActorMapped
  <2>8. ActorMapped'
    BY <1>3
       DEF CreateVMRolledBack, ActorMapped
  <2> QED BY <2>1, <2>2, <2>3, <2>4, <2>5, <2>6, <2>7, <2>8 DEF SchedInv
<1>4. ASSUME NEW v \in VM, DeleteVM(v) \/ ShutdownVM(v)
      PROVE  SchedInv'
  <2>1. SchedTypeOK'
    BY <1>4
       DEF DeleteVM, remove_vm_intent, ShutdownVM, SchedTypeOK
  <2>2. PlacementHasIntent'
    BY <1>4
       DEF DeleteVM, remove_vm_intent, ShutdownVM, PlacementHasIntent, SchedTypeOK
  <2>3. OneEntryPerAgent'
    BY <1>4
       DEF DeleteVM, remove_vm_intent, ShutdownVM, OneEntryPerAgent, SchedTypeOK
  <2>4. TodoUnplaced'
    BY <1>4
       DEF DeleteVM, remove_vm_intent, ShutdownVM, TodoUnplaced, SchedTypeOK, Idle
  <2>5. PendingCacheCoherent'
    BY <1>4
       DEF DeleteVM, remove_vm_intent, ShutdownVM, PendingCacheCoherent
  <2>6. IndexWithinStatus'
    BY <1>4
       DEF DeleteVM, remove_vm_intent, ShutdownVM, IndexWithinStatus
  <2>7. DiscoveredActorMapped'
    BY <1>4
       DEF DeleteVM, remove_vm_intent, ShutdownVM, DiscoveredActorMapped,
           SchedTypeOK
  <2>8. ActorMapped'
    BY <1>4
       DEF DeleteVM, remove_vm_intent, ShutdownVM, ActorMapped, SchedTypeOK
  <2> QED BY <2>1, <2>2, <2>3, <2>4, <2>5, <2>6, <2>7, <2>8 DEF SchedInv
<1>5. ASSUME NEW a \in VmActor, NEW manifest \in Size \cup {None}, VmUpdated(a, manifest)
      PROVE  SchedInv'
  <2>1. SchedTypeOK'
    <3>1. VmOf[a] \in VM
      BY VmOfAssumption
    <3>2. placements' \in [VM -> SUBSET Entry]
      BY <1>5, <3>1, EntryFacts DEF VmUpdated, reconcile_discovered_vm, SchedTypeOK
    <3>3. /\ manifests' \in [VM -> Size \cup {None}]
          /\ actorMap' \in [VmActor -> VM \cup {None}]
          /\ discovered' \in [VM -> SUBSET VmActor]
      BY <1>5, <3>1 DEF VmUpdated, SchedTypeOK
    <3> QED BY <1>5, <3>2, <3>3 DEF VmUpdated, SchedTypeOK
  <2>2. PlacementHasIntent'
    BY <1>5
       DEF VmUpdated, reconcile_discovered_vm, RunningOn, PlacementHasIntent,
           SchedTypeOK
  <2>3. OneEntryPerAgent'
    <3>1. CASE manifest = None
      BY <1>5, <3>1, SchedSizeAssumption DEF VmUpdated, OneEntryPerAgent
    <3>2. CASE manifest # None
      <4> DEFINE v == VmOf[a]
                 reporting == {x \in Agent : v \in index[x]}
                 kept == {e \in placements[v] : e.agent \notin reporting}
                 new == {RunningOn(x) : x \in reporting}
      <4>1. placements' = [placements EXCEPT ![v] = kept \cup new]
        BY <1>5, <3>2 DEF VmUpdated, reconcile_discovered_vm
      <4>2. \A e \in new : e.agent \in reporting /\ e.lifecycle = "Running"
                           /\ e = RunningOn(e.agent)
        BY EntryFacts
      <4>3. \A e \in kept : e \in placements[v] /\ e.agent \notin reporting
        OBVIOUS
      <4>4. v \in VM /\ placements \in [VM -> SUBSET Entry]
        BY VmOfAssumption DEF SchedTypeOK
      <4> HIDE DEF v, reporting, kept, new
      <4>5. ASSUME NEW d \in kept \cup new, NEW e \in kept \cup new,
                   d.agent = e.agent \/ (d.lifecycle = "Pending" /\ e.lifecycle = "Pending")
            PROVE  d = e
        BY <4>2, <4>3, <4>4, <4>5 DEF OneEntryPerAgent
      <4> QED BY <4>1, <4>4, <4>5 DEF OneEntryPerAgent
    <3> QED BY <3>1, <3>2
  <2>4. TodoUnplaced'
    BY <1>5
       DEF VmUpdated, reconcile_discovered_vm, RunningOn, TodoUnplaced,
           SchedTypeOK, Idle
  <2>5. PendingCacheCoherent'
    <3>1. CASE manifest = None
      BY <1>5, <3>1 DEF VmUpdated, PendingCacheCoherent
    <3>2. CASE manifest # None
      BY <1>5, <3>2 DEF VmUpdated, PendingCacheCoherent
    <3> QED BY <3>1, <3>2
  <2>6. IndexWithinStatus'
    BY <1>5
       DEF VmUpdated, reconcile_discovered_vm, RunningOn, IndexWithinStatus
  <2>7. DiscoveredActorMapped'
    <3>1. /\ VmOf[a] \in VM
          /\ actorMap' = [actorMap EXCEPT ![a] = VmOf[a]]
          /\ discovered' = [discovered EXCEPT ![VmOf[a]] = discovered[VmOf[a]] \cup {a}]
      BY <1>5, VmOfAssumption DEF VmUpdated
    <3>2. ASSUME NEW w \in VM, NEW c \in discovered'[w]
          PROVE  actorMap'[c] = w
      <4>1. CASE c = a
        <5>1. a \in discovered[w] => w = VmOf[a]
          BY DEF DiscoveredActorMapped, ActorMapped
        <5> QED BY <3>1, <3>2, <4>1, <5>1 DEF SchedTypeOK
      <4>2. CASE c # a
        BY <3>1, <3>2, <4>2 DEF SchedTypeOK, DiscoveredActorMapped
      <4> QED BY <4>1, <4>2
    <3> QED BY <3>2 DEF DiscoveredActorMapped
  <2>8. ActorMapped'
    BY <1>5
       DEF VmUpdated, reconcile_discovered_vm, RunningOn, ActorMapped
  <2> QED BY <2>1, <2>2, <2>3, <2>4, <2>5, <2>6, <2>7, <2>8 DEF SchedInv
<1>6. ASSUME NEW a \in VmActor, VmLost(a)
      PROVE  SchedInv'
  <2>1. SchedTypeOK'
    BY <1>6
       DEF VmLost, cleanup_vm_actor, SchedTypeOK
  <2>2. PlacementHasIntent'
    BY <1>6
       DEF VmLost, cleanup_vm_actor, PlacementHasIntent
  <2>3. OneEntryPerAgent'
    BY <1>6
       DEF VmLost, cleanup_vm_actor, OneEntryPerAgent
  <2>4. TodoUnplaced'
    BY <1>6
       DEF VmLost, cleanup_vm_actor, TodoUnplaced
  <2>5. PendingCacheCoherent'
    BY <1>6
       DEF VmLost, cleanup_vm_actor, PendingCacheCoherent
  <2>6. IndexWithinStatus'
    BY <1>6
       DEF VmLost, cleanup_vm_actor, IndexWithinStatus
  <2>7. DiscoveredActorMapped'
    BY <1>6
       DEF VmLost, cleanup_vm_actor, DiscoveredActorMapped
  <2>8. ActorMapped'
    BY <1>6
       DEF VmLost, cleanup_vm_actor, ActorMapped
  <2> QED BY <2>1, <2>2, <2>3, <2>4, <2>5, <2>6, <2>7, <2>8 DEF SchedInv
<1>7. ASSUME NEW x \in Agent, AgentLost(x)
      PROVE  SchedInv'
  <2>1. SchedTypeOK'
    BY <1>7
       DEF AgentLost, cleanup_agent_actor, remove_agent_placements, SchedTypeOK
  <2>2. PlacementHasIntent'
    BY <1>7
       DEF AgentLost, cleanup_agent_actor, remove_agent_placements,
           PlacementHasIntent
  <2>3. OneEntryPerAgent'
    BY <1>7
       DEF AgentLost, cleanup_agent_actor, remove_agent_placements,
           OneEntryPerAgent
  <2>4. TodoUnplaced'
    BY <1>7
       DEF AgentLost, cleanup_agent_actor, remove_agent_placements, TodoUnplaced,
           SchedTypeOK
  <2>5. PendingCacheCoherent'
    BY <1>7
       DEF AgentLost, cleanup_agent_actor, remove_agent_placements,
           PendingCacheCoherent
  <2>6. IndexWithinStatus'
    BY <1>7
       DEF AgentLost, cleanup_agent_actor, remove_agent_placements,
           IndexWithinStatus, SchedTypeOK
  <2>7. DiscoveredActorMapped'
    BY <1>7
       DEF AgentLost, cleanup_agent_actor, remove_agent_placements,
           DiscoveredActorMapped
  <2>8. ActorMapped'
    BY <1>7
       DEF AgentLost, cleanup_agent_actor, remove_agent_placements, ActorMapped
  <2> QED BY <2>1, <2>2, <2>3, <2>4, <2>5, <2>6, <2>7, <2>8 DEF SchedInv
<1>8. ASSUME NEW x \in Agent, NEW vms \in SUBSET VM, NEW used \in Nat,
             AgentUpdatedFull(x, vms, used)
      PROVE  SchedInv'
  <2>1. SchedTypeOK'
    <3>1. \A v \in VM : placements[v] \subseteq Entry
      BY DEF SchedTypeOK
    <3>2. placements' \in [VM -> SUBSET Entry]
      BY <1>8, <3>1, ConfirmedFacts DEF AgentUpdatedFull, reconcile_agent_placements
    <3>3. [vms |-> vms, used |-> used] \in AgentStatus
      BY DEF AgentStatus
    <3> QED BY <1>8, <3>2, <3>3 DEF AgentUpdatedFull, SchedTypeOK
  <2>2. PlacementHasIntent'
    BY <1>8
       DEF AgentUpdatedFull, reconcile_agent_placements, Confirmed, RunningOn,
           PlacementHasIntent
  <2>3. OneEntryPerAgent'
    <3> SUFFICES ASSUME NEW v \in VM
                 PROVE  NoDuplicate(placements'[v])
      BY DEF OneEntryPerAgent, NoDuplicate
    <3>1. placements[v] \subseteq Entry /\ NoDuplicate(placements[v])
      BY DEF SchedTypeOK, OneEntryPerAgent, NoDuplicate
    <3>2. NoDuplicate(Confirmed(placements[v], x))
      BY <3>1, ConfirmedFacts
    <3>3. \/ placements'[v] = Confirmed(placements[v], x)
          \/ placements'[v] \subseteq placements[v]
      BY <1>8 DEF AgentUpdatedFull, reconcile_agent_placements
    <3> QED BY <3>1, <3>2, <3>3 DEF NoDuplicate
  <2>4. TodoUnplaced'
    BY <1>8
       DEF AgentUpdatedFull, reconcile_agent_placements, Confirmed, RunningOn,
           TodoUnplaced, SchedTypeOK, Idle
  <2>5. PendingCacheCoherent'
    BY <1>8
       DEF AgentUpdatedFull, reconcile_agent_placements, Confirmed, RunningOn,
           PendingCacheCoherent
  <2>6. IndexWithinStatus'
    <3>1. /\ agentCache'[x] = [vms |-> vms, used |-> used]
          /\ index'[x] = vms
          /\ \A y \in Agent \ {x} : agentCache'[y] = agentCache[y] /\ index'[y] = index[y]
      BY <1>8 DEF AgentUpdatedFull, SchedTypeOK
    <3>2. agentCache'[x] # None /\ agentCache'[x].vms = vms
      BY <3>1, SchedNoneAssumption DEF AgentStatus
    <3> QED BY <3>1, <3>2 DEF IndexWithinStatus
  <2>7. DiscoveredActorMapped'
    BY <1>8
       DEF AgentUpdatedFull, reconcile_agent_placements, Confirmed, RunningOn,
           DiscoveredActorMapped
  <2>8. ActorMapped'
    BY <1>8
       DEF AgentUpdatedFull, reconcile_agent_placements, Confirmed, RunningOn,
           ActorMapped
  <2> QED BY <2>1, <2>2, <2>3, <2>4, <2>5, <2>6, <2>7, <2>8 DEF SchedInv
<1>9. ASSUME NEW x \in Agent, NEW added \in SUBSET VM, NEW removed \in SUBSET VM,
             NEW used \in Nat, added \cap removed = {}, AgentUpdatedDelta(x, added, removed, used)
      PROVE  SchedInv'
  <2>1. SchedTypeOK'
    <3>1. \A v \in VM : placements[v] \subseteq Entry
      BY DEF SchedTypeOK
    <3>2. placements' \in [VM -> SUBSET Entry]
      BY <1>9, <3>1, ConfirmedFacts DEF AgentUpdatedDelta, reconcile_agent_delta
    <3>3. agentCache[x].vms \subseteq VM
      BY <1>9 DEF AgentUpdatedDelta, SchedTypeOK, AgentStatus
    <3>4. [vms |-> (agentCache[x].vms \ removed) \cup added, used |-> used] \in AgentStatus
      BY <3>3 DEF AgentStatus
    <3>5. agentCache' \in [Agent -> AgentStatus \cup {None}]
      BY <1>9, <3>4 DEF AgentUpdatedDelta, SchedTypeOK
    <3>6. index' \in [Agent -> SUBSET VM]
      BY <1>9 DEF AgentUpdatedDelta, SchedTypeOK
    <3> QED BY <1>9, <3>2, <3>5, <3>6 DEF AgentUpdatedDelta, SchedTypeOK
  <2>2. PlacementHasIntent'
    BY <1>9
       DEF AgentUpdatedDelta, reconcile_agent_delta, Confirmed, RunningOn,
           PlacementHasIntent
  <2>3. OneEntryPerAgent'
    <3> SUFFICES ASSUME NEW v \in VM
                 PROVE  NoDuplicate(placements'[v])
      BY DEF OneEntryPerAgent, NoDuplicate
    <3>1. placements[v] \subseteq Entry /\ NoDuplicate(placements[v])
      BY DEF SchedTypeOK, OneEntryPerAgent, NoDuplicate
    <3>2. NoDuplicate(Confirmed(placements[v], x))
      BY <3>1, ConfirmedFacts
    <3>3. \/ placements'[v] \subseteq Confirmed(placements[v], x)
          \/ placements'[v] \subseteq placements[v]
      BY <1>9 DEF AgentUpdatedDelta, reconcile_agent_delta
    <3> QED BY <3>1, <3>2, <3>3 DEF NoDuplicate
  <2>4. TodoUnplaced'
    BY <1>9
       DEF AgentUpdatedDelta, reconcile_agent_delta, Confirmed, RunningOn,
           TodoUnplaced, SchedTypeOK, Idle
  <2>5. PendingCacheCoherent'
    BY <1>9
       DEF AgentUpdatedDelta, reconcile_agent_delta, Confirmed, RunningOn,
           PendingCacheCoherent
  <2>6. IndexWithinStatus'
    <3>1. /\ agentCache'[x] = [vms |-> (agentCache[x].vms \ removed) \cup added,
                              used |-> used]
          /\ index'[x] = (index[x] \cup added) \ removed
          /\ \A y \in Agent \ {x} : agentCache'[y] = agentCache[y] /\ index'[y] = index[y]
      BY <1>9 DEF AgentUpdatedDelta, SchedTypeOK
    <3>2. index[x] \subseteq agentCache[x].vms
      BY <1>9 DEF AgentUpdatedDelta, IndexWithinStatus
    <3>3. agentCache'[x].vms = (agentCache[x].vms \ removed) \cup added
      BY <3>1
    <3>4. index'[x] \subseteq agentCache'[x].vms
      BY <3>1, <3>2, <3>3
    <3>5. agentCache'[x] # None
      <4>1. agentCache' \in [Agent -> AgentStatus \cup {None}]
        BY <2>1 DEF SchedTypeOK
      <4>2. agentCache[x].vms \subseteq VM
        BY <1>9 DEF AgentUpdatedDelta, SchedTypeOK, AgentStatus
      <4>3. agentCache'[x] \in AgentStatus
        BY <3>1, <4>2 DEF AgentStatus
      <4> QED BY <4>3, SchedNoneAssumption
    <3> QED BY <3>1, <3>4, <3>5 DEF IndexWithinStatus
  <2>7. DiscoveredActorMapped'
    BY <1>9
       DEF AgentUpdatedDelta, reconcile_agent_delta, Confirmed, RunningOn,
           DiscoveredActorMapped
  <2>8. ActorMapped'
    BY <1>9
       DEF AgentUpdatedDelta, reconcile_agent_delta, Confirmed, RunningOn,
           ActorMapped
  <2> QED BY <2>1, <2>2, <2>3, <2>4, <2>5, <2>6, <2>7, <2>8 DEF SchedInv
<1>10. ASSUME ReconcileStart
      PROVE  SchedInv'
  <2>1. SchedTypeOK'
    BY <1>10
       DEF ReconcileStart, cleanup_unresolved_vm_cache, SchedTypeOK
  <2>2. PlacementHasIntent'
    BY <1>10
       DEF ReconcileStart, cleanup_unresolved_vm_cache, PlacementHasIntent
  <2>3. OneEntryPerAgent'
    BY <1>10
       DEF ReconcileStart, cleanup_unresolved_vm_cache, OneEntryPerAgent
  <2>4. TodoUnplaced'
    BY <1>10
       DEF ReconcileStart, cleanup_unresolved_vm_cache, TodoUnplaced
  <2>5. PendingCacheCoherent'
    BY <1>10
       DEF ReconcileStart, cleanup_unresolved_vm_cache, PendingCacheCoherent
  <2>6. IndexWithinStatus'
    BY <1>10
       DEF ReconcileStart, cleanup_unresolved_vm_cache, IndexWithinStatus
  <2>7. DiscoveredActorMapped'
    BY <1>10
       DEF ReconcileStart, cleanup_unresolved_vm_cache, DiscoveredActorMapped
  <2>8. ActorMapped'
    BY <1>10
       DEF ReconcileStart, cleanup_unresolved_vm_cache, ActorMapped
  <2> QED BY <2>1, <2>2, <2>3, <2>4, <2>5, <2>6, <2>7, <2>8 DEF SchedInv
<1>11. ASSUME NEW v \in VM, ReconcileSkips(v)
      PROVE  SchedInv'
  <2>1. SchedTypeOK'
    BY <1>11
       DEF ReconcileSkips, intentVars, SchedTypeOK
  <2>2. PlacementHasIntent'
    BY <1>11
       DEF ReconcileSkips, intentVars, PlacementHasIntent
  <2>3. OneEntryPerAgent'
    BY <1>11
       DEF ReconcileSkips, intentVars, OneEntryPerAgent
  <2>4. TodoUnplaced'
    BY <1>11
       DEF ReconcileSkips, intentVars, TodoUnplaced
  <2>5. PendingCacheCoherent'
    BY <1>11 DEF ReconcileSkips, intentVars, PendingCacheCoherent, pending_resources
  <2>6. IndexWithinStatus'
    BY <1>11
       DEF ReconcileSkips, intentVars, IndexWithinStatus
  <2>7. DiscoveredActorMapped'
    BY <1>11
       DEF ReconcileSkips, intentVars, DiscoveredActorMapped
  <2>8. ActorMapped'
    BY <1>11
       DEF ReconcileSkips, intentVars, ActorMapped
  <2> QED BY <2>1, <2>2, <2>3, <2>4, <2>5, <2>6, <2>7, <2>8 DEF SchedInv
<1>12. ASSUME NEW v \in VM, NEW x \in Agent, ReconcileDispatches(v, x)
      PROVE  SchedInv'
  <2>1. SchedTypeOK'
    <3>1. placements' \in [VM -> SUBSET Entry]
      BY <1>12, EntryFacts DEF ReconcileDispatches, SchedTypeOK
    <3> QED BY <1>12, <3>1 DEF ReconcileDispatches, SchedTypeOK
  <2>2. PlacementHasIntent'
    BY <1>12
       DEF ReconcileDispatches, PendingOn, PlacementHasIntent, SchedTypeOK,
           TodoUnplaced, Idle
  <2>3. OneEntryPerAgent'
    BY <1>12
       DEF ReconcileDispatches, PendingOn, OneEntryPerAgent, SchedTypeOK,
           PlacementHasIntent, TodoUnplaced
  <2>4. TodoUnplaced'
    BY <1>12
       DEF ReconcileDispatches, PendingOn, TodoUnplaced
  <2>5. PendingCacheCoherent'
    BY <1>12
       DEF ReconcileDispatches, PendingOn, PendingCacheCoherent
  <2>6. IndexWithinStatus'
    BY <1>12
       DEF ReconcileDispatches, PendingOn, IndexWithinStatus
  <2>7. DiscoveredActorMapped'
    BY <1>12
       DEF ReconcileDispatches, PendingOn, DiscoveredActorMapped
  <2>8. ActorMapped'
    BY <1>12
       DEF ReconcileDispatches, PendingOn, ActorMapped
  <2> QED BY <2>1, <2>2, <2>3, <2>4, <2>5, <2>6, <2>7, <2>8 DEF SchedInv
<1>13. ASSUME NEW v \in VM, NEW x \in Agent, ReconcileSendFails(v, x)
      PROVE  SchedInv'
  <2>1. SchedTypeOK'
    BY <1>13
       DEF ReconcileSendFails, SchedTypeOK
  <2>2. PlacementHasIntent'
    BY <1>13
       DEF ReconcileSendFails, PlacementHasIntent
  <2>3. OneEntryPerAgent'
    BY <1>13
       DEF ReconcileSendFails, OneEntryPerAgent
  <2>4. TodoUnplaced'
    BY <1>13
       DEF ReconcileSendFails, TodoUnplaced
  <2>5. PendingCacheCoherent'
    <3>1. placements' = placements
      BY <1>13 DEF ReconcileSendFails, SchedTypeOK, TodoUnplaced
    <3> QED BY <1>13, <3>1
            DEF ReconcileSendFails, PendingCacheCoherent, pending_resources
  <2>6. IndexWithinStatus'
    BY <1>13
       DEF ReconcileSendFails, IndexWithinStatus
  <2>7. DiscoveredActorMapped'
    BY <1>13
       DEF ReconcileSendFails, DiscoveredActorMapped
  <2>8. ActorMapped'
    BY <1>13
       DEF ReconcileSendFails, ActorMapped
  <2> QED BY <2>1, <2>2, <2>3, <2>4, <2>5, <2>6, <2>7, <2>8 DEF SchedInv
<1>14. ASSUME NEW v \in VM, NEW e \in placements[v], Expire(v, e)
      PROVE  SchedInv'
  <2>1. SchedTypeOK'
    <3>1. e \in Entry
      BY DEF SchedTypeOK
    <3>2. [e EXCEPT !.expired = TRUE] \in Entry
      BY <3>1 DEF Entry
    <3> QED BY <1>14, <3>2 DEF Expire, SchedTypeOK
  <2>2. PlacementHasIntent'
    BY <1>14
       DEF Expire, PlacementHasIntent
  <2>3. OneEntryPerAgent'
    <3> DEFINE old == [e EXCEPT !.expired = TRUE]
    <3>1. e \in Entry /\ old.agent = e.agent /\ old.lifecycle = e.lifecycle
      BY DEF SchedTypeOK, Entry
    <3>2. placements' = [placements EXCEPT ![v] = (placements[v] \ {e}) \cup {old}]
      BY <1>14 DEF Expire
    <3> HIDE DEF old
    <3> QED BY <3>1, <3>2 DEF SchedTypeOK, OneEntryPerAgent
  <2>4. TodoUnplaced'
    BY <1>14
       DEF Expire, TodoUnplaced
  <2>5. PendingCacheCoherent'
    <3> DEFINE old == [e EXCEPT !.expired = TRUE]
    <3>1. e \in Entry /\ old.agent = e.agent /\ old.lifecycle = e.lifecycle
      BY DEF SchedTypeOK, Entry
    <3>2. placements' = [placements EXCEPT ![v] = (placements[v] \ {e}) \cup {old}]
      BY <1>14 DEF Expire
    <3> HIDE DEF old
    <3>3. \A x \in Agent : PendingVMs(manifests, placements', x)
                             = PendingVMs(manifests, placements, x)
      BY <3>1, <3>2 DEF SchedTypeOK, PendingVMs
    <3>4. pending_resources_by_agent(manifests, placements')
              = pending_resources_by_agent(manifests, placements)
      BY <3>3 DEF pending_resources_by_agent
    <3> QED BY <1>14, <3>4 DEF Expire, PendingCacheCoherent
  <2>6. IndexWithinStatus'
    BY <1>14
       DEF Expire, IndexWithinStatus
  <2>7. DiscoveredActorMapped'
    BY <1>14
       DEF Expire, DiscoveredActorMapped
  <2>8. ActorMapped'
    BY <1>14
       DEF Expire, ActorMapped
  <2> QED BY <2>1, <2>2, <2>3, <2>4, <2>5, <2>6, <2>7, <2>8 DEF SchedInv
<1>15. CASE UNCHANGED schedVars
  BY <1>15 DEF schedVars, intentVars, SchedTypeOK, PlacementHasIntent, OneEntryPerAgent,
             TodoUnplaced, PendingCacheCoherent, IndexWithinStatus, DiscoveredActorMapped,
             ActorMapped
<1> QED
  <2> HIDE DEF SchedInv
  <2> QED BY <1>1, <1>2, <1>3, <1>4, <1>5, <1>6, <1>7, <1>8,
             <1>9, <1>10, <1>11, <1>12, <1>13, <1>14, <1>15
          DEF HandlerStep, ClientNext, ReconcileNext

\* So does every step of the specification, in which the reported usage is bounded.
LEMMA SchedNextInv ==
    ASSUME SchedInv, [SchedNext]_schedVars
    PROVE  SchedInv'
<1>1. 0 .. MaxUsed \subseteq Nat
  BY MaxUsedAssumption
<1>2. SchedNext => HandlerStep
  BY <1>1 DEF SchedNext, DiscoveryNext, HandlerStep
<1> QED BY <1>2, HandlerInv

-----------------------------------------------------------------------------
\* The maps of the scheduler stay consistent, whatever messages arrive.
THEOREM SchedInvariance == SchedSpec => []SchedInv
  BY SchedInitInv, SchedNextInv, PTL DEF SchedSpec

\* The scheduler's maps keep their types under every handler.
THEOREM SchedTypeCorrect == SchedSpec => []SchedTypeOK
<1>1. SchedInv => SchedTypeOK
  BY DEF SchedInv
<1> QED BY <1>1, SchedInvariance, PTL

\* No handler leaves or puts back a placement for a VM without a manifest:
\* remove_vm_intent, rollback_failed_create and the reconcile functions of cache.rs.
THEOREM PlacementIntent == SchedSpec => []PlacementHasIntent
<1>1. SchedInv => PlacementHasIntent
  BY DEF SchedInv
<1> QED BY <1>1, SchedInvariance, PTL

\* A VM has one entry per agent and one outstanding create, whatever the order of
\* creates, confirmations, losses and reconciliations.
THEOREM SingleEntry == SchedSpec => []OneEntryPerAgent
<1>1. SchedInv => OneEntryPerAgent
  BY DEF SchedInv
<1> QED BY <1>1, SchedInvariance, PTL

\* invalidate_pending_resources is called by every handler that changes what the
\* cached totals were computed from.
THEOREM CoherentTotals == SchedSpec => []PendingCacheCoherent
<1>1. SchedInv => PendingCacheCoherent
  BY DEF SchedInv
<1> QED BY <1>1, SchedInvariance, PTL

\* agent_vm_index never claims more than the agent's cached status.
THEOREM IndexSound == SchedSpec => []IndexWithinStatus
<1>1. SchedInv => IndexWithinStatus
  BY DEF SchedInv
<1> QED BY <1>1, SchedInvariance, PTL

\* Every discovered VM actor is mapped to its VM, so cleanup_vm_actor finds it.
THEOREM ActorsMapped == SchedSpec => []DiscoveredActorMapped
<1>1. SchedInv => DiscoveredActorMapped
  BY DEF SchedInv
<1> QED BY <1>1, SchedInvariance, PTL
=============================================================================
