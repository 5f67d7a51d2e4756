------------------------------- MODULE Scheduler -------------------------------
(***************************************************************************)
(* The scheduler actor (actors/scheduler_actor.rs and its modules): VM     *)
(* intent, placements, discovered VM actors, cached agent status, the      *)
(* lazily computed pending-resource totals, and the handlers that change   *)
(* them.  The messages a handler receives are its parameters: SchedSpec    *)
(* accepts them in any order and with any content an agent or a VM actor   *)
(* can send, and Cluster gives them their senders.                         *)
(*                                                                         *)
(* One handler runs at a time.  The periodic reconciliation loops over the *)
(* VMs without a placement and schedules them one by one: it is one step   *)
(* to start and one step per VM, and no other handler runs while `todo` is *)
(* not empty.                                                              *)
(*                                                                         *)
(* Abstractions.                                                           *)
(*  - vCPUs and memory are checked and summed alike: one resource.         *)
(*  - A manifest is the size it asks for, and has no affinity rules.       *)
(*  - A Vec of placements is the set of its entries: no handler reads the  *)
(*    order, and OneEntryPerAgent shows that no push meets an equal entry. *)
(*  - An entry is `expired` when its age has passed the timeout that       *)
(*    applies to its lifecycle (120 s Pending, 30 s Running).              *)
(*  - vm_data_cache keeps the discovered actors only: its None             *)
(*    placeholders are read by nothing but their own removal.              *)
(***************************************************************************)
EXTENDS Integers, FiniteSets, FiniteSetsExt

CONSTANTS
    VM,         \* VM identifiers
    Agent,      \* agent actors
    VmActor,    \* VM actors, every incarnation that may ever run
    VmOf,       \* the VM an actor was spawned for
    Size,       \* sizes a manifest may ask for
    Capacity,   \* what an agent can hold
    None        \* no manifest, no cached status, no total, no VM

ASSUME SchedSizeAssumption == Size \subseteq Nat \ {0} /\ None \notin Size
ASSUME VmOfAssumption == VmOf \in [VmActor -> VM] /\ None \notin VM \cup VmActor
ASSUME CapacityAssumption == Capacity \in [Agent -> Nat \ {0}]
ASSUME ActorKindAssumption == Agent \cap VmActor = {}

VARIABLES
    manifests,      \* vm_manifests
    placements,     \* vm_placements
    discovered,     \* vm_data_cache: the actor refs that are Some
    actorMap,       \* vm_actorid_ulid_map
    agentCache,     \* agent_data_cache: reported VMs and usage
    index,          \* agent_vm_index
    pendingCache,   \* pending_resources_cache
    todo            \* VMs the running reconciliation still has to schedule

intentVars == <<manifests, placements, discovered, actorMap>>
schedVars == <<intentVars, agentCache, index, pendingCache, todo>>

Entry == [agent : Agent, lifecycle : {"Pending", "Running"}, expired : BOOLEAN]
PendingOn(x) == [agent |-> x, lifecycle |-> "Pending", expired |-> FALSE]
RunningOn(x) == [agent |-> x, lifecycle |-> "Running", expired |-> FALSE]
AgentStatus == [vms : SUBSET VM, used : Nat]

ASSUME SchedNoneAssumption == None \notin AgentStatus

Idle == todo = {}

-----------------------------------------------------------------------------
(* scheduling.rs: pending resources and the choice of an agent.            *)

\* The total an agent has reserved: a VM has at most one Pending entry.
PendingVMs(man, pl, x) ==
    {v \in VM : man[v] # None /\ \E e \in pl[v] : e.agent = x /\ e.lifecycle = "Pending"}

pending_resources_by_agent(man, pl) ==
    [x \in Agent |-> MapThenSumSet(LAMBDA v : man[v], PendingVMs(man, pl, x))]

\* Computed when there is no cached value, and the cached value otherwise.
pending_resources ==
    IF pendingCache = None
    THEN pending_resources_by_agent(manifests, placements)
    ELSE pendingCache

has_capacity(max, used, requested) == used + requested <= max

\* The agents that share the best score: those with room for the request that
\* keep the largest part of their capacity free.
schedule_agent(size) ==
    LET used(x)     == agentCache[x].used + pending_resources[x]
        headroom(x) == Capacity[x] - (used(x) + size)
        fitting     == {x \in Agent : /\ agentCache[x] # None
                                      /\ has_capacity(Capacity[x], used(x), size)}
    IN  {x \in fitting : \A y \in fitting :
            headroom(x) * Capacity[y] >= headroom(y) * Capacity[x]}

-----------------------------------------------------------------------------
(* cache.rs: what status, discovery and loss do to the placements.         *)

\* Mutant: the Pending entry stays beside the confirmed one.
ConfirmedBeside(entries, x) == entries \cup {RunningOn(x)}

Confirmed(entries, x) == {e \in entries : e.agent # x} \cup {RunningOn(x)}

\* Mutant: VMs without intent gain a placement too.
reconcile_agent_delta_unknown(man, pl, x, added, removed) ==
    [v \in VM |->
        LET seen == IF v \in added THEN Confirmed(pl[v], x) ELSE pl[v]
        IN  IF v \in removed
            THEN {e \in seen : e.agent # x \/ e.lifecycle = "Pending"}
            ELSE seen]

reconcile_agent_delta(man, pl, x, added, removed) ==
    [v \in VM |->
        LET seen == IF v \in added /\ man[v] # None THEN Confirmed(pl[v], x) ELSE pl[v]
        IN  IF v \in removed
            THEN {e \in seen : e.agent # x \/ e.lifecycle = "Pending"}
            ELSE seen]

\* Known, reported VMs gain or refresh a placement; others expire by age.
reconcile_agent_placements(man, pl, x, observed) ==
    [v \in VM |->
        IF v \in observed
        THEN IF man[v] # None \/ \E e \in pl[v] : e.agent = x
             THEN Confirmed(pl[v], x)
             ELSE pl[v]
        ELSE {e \in pl[v] : e.agent # x \/ ~e.expired}]

reconcile_discovered_vm(pl, v) ==
    LET reporting == {x \in Agent : v \in index[x]}
    IN  [pl EXCEPT ![v] = {e \in pl[v] : e.agent \notin reporting}
                              \cup {RunningOn(x) : x \in reporting}]

\* Mutant: Pending entries are removed whatever their age.
cleanup_unresolved_vm_cache_eager(pl) ==
    [v \in VM |-> {e \in pl[v] : e.lifecycle # "Pending" \/ discovered[v] # {}}]

\* Mutant: Pending entries never expire.
cleanup_unresolved_vm_cache_never(pl) == pl

\* Pending entries of VMs without a discovered actor expire.
cleanup_unresolved_vm_cache(pl) ==
    [v \in VM |-> {e \in pl[v] : \/ e.lifecycle # "Pending"
                                 \/ discovered[v] # {}
                                 \/ ~e.expired}]

\* Mutant: confirmed placements on the departed agent stay.
remove_agent_placements_keeps_running(pl, x, reachable) ==
    [v \in VM |-> {e \in pl[v] : e.agent # x \/ v \in reachable \/ e.lifecycle = "Running"}]

remove_agent_placements(pl, x, reachable) ==
    [v \in VM |-> {e \in pl[v] : e.agent # x \/ v \in reachable}]

remove_vm_intent(v) ==
    /\ manifests' = [manifests EXCEPT ![v] = None]
    /\ placements' = [placements EXCEPT ![v] = {}]
    /\ discovered' = [discovered EXCEPT ![v] = {}]
    /\ actorMap' = [a \in VmActor |-> IF actorMap[a] = v THEN None ELSE actorMap[a]]
    /\ index' = [x \in Agent |-> index[x] \ {v}]
    /\ pendingCache' = None

\* Mutant: the departed agent's index stays.
cleanup_agent_actor_keeps_index(x) ==
    LET reachable == {v \in index[x] : discovered[v] # {}}
    IN  /\ agentCache' = [agentCache EXCEPT ![x] = None]
        /\ pendingCache' = None
        /\ placements' = remove_agent_placements(placements, x, reachable)
        /\ UNCHANGED <<manifests, discovered, actorMap, index>>

\* Mutant: the VMs of the departed agent lose their intent.
cleanup_agent_actor_drops_intent(x) ==
    /\ agentCache' = [agentCache EXCEPT ![x] = None]
    /\ index' = [index EXCEPT ![x] = {}]
    /\ pendingCache' = None
    /\ placements' = remove_agent_placements(placements, x, {})
    /\ manifests' = [v \in VM |-> IF v \in index[x] THEN None ELSE manifests[v]]
    /\ UNCHANGED <<discovered, actorMap>>

\* A placement on the departed agent stays while the agent's last status lists
\* the VM and an actor of the VM is discovered.
cleanup_agent_actor(x) ==
    LET reachable == {v \in index[x] : discovered[v] # {}}
    IN  /\ agentCache' = [agentCache EXCEPT ![x] = None]
        /\ index' = [index EXCEPT ![x] = {}]
        /\ pendingCache' = None
        /\ placements' = remove_agent_placements(placements, x, reachable)
        /\ UNCHANGED <<manifests, discovered, actorMap>>

\* Running placements of a VM without another discovered actor go, unless an
\* agent's status still lists the VM.
cleanup_vm_actor(a) ==
    LET v == actorMap[a]
    IN  /\ actorMap' = [actorMap EXCEPT ![a] = None]
        /\ discovered' = [w \in VM |-> discovered[w] \ {a}]
        /\ pendingCache' = None
        /\ placements' =
               IF v = None \/ discovered'[v] # {} THEN placements
               ELSE [placements EXCEPT ![v] =
                        {e \in placements[v] : \/ e.lifecycle = "Pending"
                                               \/ v \in index[e.agent]}]
        /\ UNCHANGED <<manifests, agentCache, index>>

-----------------------------------------------------------------------------
(* handlers.rs: the requests of clients.                                   *)

\* A create for a VM with a manifest only replies.  No agent has room: the
\* request fails, after the pending totals were computed.
CreateVMRejected(v, size) ==
    /\ Idle
    /\ manifests[v] = None
    /\ schedule_agent(size) = {}
    /\ pendingCache' = pending_resources
    /\ UNCHANGED <<intentVars, agentCache, index, todo>>

\* The agent's reply names the actor (reply = an actor); the request failed and
\* an actor is registered under the VM's name (reply = None).
CreateVM(v, size, x, reply) ==
    /\ Idle
    /\ manifests[v] = None
    /\ x \in schedule_agent(size)
    /\ manifests' = [manifests EXCEPT ![v] = size]
    /\ placements' = [placements EXCEPT ![v] = placements[v] \cup {PendingOn(x)}]
    /\ actorMap' = IF reply \in VmActor THEN [actorMap EXCEPT ![reply] = v] ELSE actorMap
    /\ pendingCache' = None
    /\ UNCHANGED <<discovered, agentCache, index, todo>>

\* The request failed and the lookup found no actor: rollback_failed_create takes
\* everything back (the failed reply names no actor).
CreateVMRolledBack(v, size, x) ==
    /\ Idle
    /\ manifests[v] = None
    /\ x \in schedule_agent(size)
    /\ placements' = [placements EXCEPT ![v] = {}]
    /\ discovered' = [discovered EXCEPT ![v] = {}]
    /\ pendingCache' = None
    /\ UNCHANGED <<manifests, actorMap, agentCache, index, todo>>

\* The VM's actor was found and told; without one the request only fails.
DeleteVM(v) ==
    /\ Idle
    /\ remove_vm_intent(v)
    /\ UNCHANGED <<agentCache, todo>>

ShutdownVM(v) ==
    /\ Idle
    /\ remove_vm_intent(v)
    /\ UNCHANGED <<agentCache, todo>>

-----------------------------------------------------------------------------
(* discovery.rs: updates and losses.                                       *)

\* Mutant: the pending totals are not invalidated.
VmUpdatedKeepsTotals(a, manifest) ==
    LET v == VmOf[a]
    IN  /\ Idle
        /\ actorMap' = [actorMap EXCEPT ![a] = v]
        /\ \/ /\ manifest # None
              /\ manifests' = [manifests EXCEPT ![v] = manifest]
              /\ placements' = reconcile_discovered_vm(placements, v)
           \/ /\ manifest = None
              /\ UNCHANGED <<manifests, placements>>
        /\ discovered' = [discovered EXCEPT ![v] = discovered[v] \cup {a}]
        /\ UNCHANGED <<agentCache, index, pendingCache, todo>>

\* Mutant: an actor of a VM without intent is not adopted.
VmUpdatedKnownOnly(a, manifest) ==
    LET v == VmOf[a]
    IN  /\ Idle
        /\ actorMap' = [actorMap EXCEPT ![a] = v]
        /\ \/ /\ manifest # None /\ manifests[v] # None
              /\ manifests' = [manifests EXCEPT ![v] = manifest]
              /\ placements' = reconcile_discovered_vm(placements, v)
              /\ pendingCache' = None
           \/ /\ manifest = None \/ manifests[v] = None
              /\ UNCHANGED <<manifests, placements, pendingCache>>
        /\ discovered' = [discovered EXCEPT ![v] = discovered[v] \cup {a}]
        /\ UNCHANGED <<agentCache, index, todo>>

\* The manifest is the actor's own; a migration receiver has none yet.
VmUpdated(a, manifest) ==
    LET v == VmOf[a]
    IN  /\ Idle
        /\ actorMap' = [actorMap EXCEPT ![a] = v]
        /\ \/ /\ manifest # None
              /\ manifests' = [manifests EXCEPT ![v] = manifest]
              /\ placements' = reconcile_discovered_vm(placements, v)
              /\ pendingCache' = None
           \/ /\ manifest = None
              /\ UNCHANGED <<manifests, placements, pendingCache>>
        /\ discovered' = [discovered EXCEPT ![v] = discovered[v] \cup {a}]
        /\ UNCHANGED <<agentCache, index, todo>>

VmLost(a) ==
    /\ Idle
    /\ cleanup_vm_actor(a)
    /\ UNCHANGED todo

AgentLost(x) ==
    /\ Idle
    /\ cleanup_agent_actor(x)
    /\ UNCHANGED todo

\* An accepted full snapshot: the first, or one with a newer revision.
AgentUpdatedFull(x, vms, used) ==
    /\ Idle
    /\ agentCache' = [agentCache EXCEPT ![x] = [vms |-> vms, used |-> used]]
    /\ index' = [index EXCEPT ![x] = vms]
    /\ placements' = reconcile_agent_placements(manifests, placements, x, vms)
    /\ pendingCache' = None
    /\ UNCHANGED <<manifests, discovered, actorMap, todo>>

\* Mutant: the reported usage is taken for a difference.
AgentUpdatedDeltaSubtracts(x, added, removed, used) ==
    /\ Idle
    /\ agentCache[x] # None
    /\ agentCache' = [agentCache EXCEPT ![x] =
            [vms |-> (agentCache[x].vms \ removed) \cup added,
             used |-> agentCache[x].used - used]]
    /\ index' = [index EXCEPT ![x] = (index[x] \cup added) \ removed]
    /\ placements' = reconcile_agent_delta(manifests, placements, x, added, removed)
    /\ pendingCache' = None
    /\ UNCHANGED <<manifests, discovered, actorMap, todo>>

\* An accepted delta, for an agent with a cached status.
AgentUpdatedDelta(x, added, removed, used) ==
    /\ Idle
    /\ agentCache[x] # None
    /\ agentCache' = [agentCache EXCEPT ![x] =
            [vms |-> (agentCache[x].vms \ removed) \cup added, used |-> used]]
    /\ index' = [index EXCEPT ![x] = (index[x] \cup added) \ removed]
    /\ placements' = reconcile_agent_delta(manifests, placements, x, added, removed)
    /\ pendingCache' = None
    /\ UNCHANGED <<manifests, discovered, actorMap, todo>>

-----------------------------------------------------------------------------
(* ReconcileVmPlacements.                                                  *)

ReconcileStart ==
    /\ Idle
    /\ placements' = cleanup_unresolved_vm_cache(placements)
    /\ pendingCache' = None
    /\ todo' = {v \in VM : manifests[v] # None /\ placements'[v] = {}}
    /\ UNCHANGED <<manifests, discovered, actorMap, agentCache, index>>

\* No agent has room for v.
ReconcileSkips(v) ==
    /\ v \in todo
    /\ schedule_agent(manifests[v]) = {}
    /\ pendingCache' = pending_resources
    /\ todo' = todo \ {v}
    /\ UNCHANGED <<intentVars, agentCache, index>>

\* Mutant: the totals computed for this VM serve the next one too.
ReconcileDispatchesKeepsTotals(v, x) ==
    /\ v \in todo
    /\ x \in schedule_agent(manifests[v])
    /\ placements' = [placements EXCEPT ![v] = placements[v] \cup {PendingOn(x)}]
    /\ pendingCache' = pending_resources
    /\ todo' = todo \ {v}
    /\ UNCHANGED <<manifests, discovered, actorMap, agentCache, index>>

ReconcileDispatches(v, x) ==
    /\ v \in todo
    /\ x \in schedule_agent(manifests[v])
    /\ placements' = [placements EXCEPT ![v] = placements[v] \cup {PendingOn(x)}]
    /\ pendingCache' = None
    /\ todo' = todo \ {v}
    /\ UNCHANGED <<manifests, discovered, actorMap, agentCache, index>>

\* The tell to the agent fails at once.
ReconcileSendFails(v, x) ==
    /\ v \in todo
    /\ x \in schedule_agent(manifests[v])
    /\ placements' = [placements EXCEPT ![v] = {}]
    /\ discovered' = [discovered EXCEPT ![v] = {}]
    /\ pendingCache' = pending_resources
    /\ todo' = todo \ {v}
    /\ UNCHANGED <<manifests, actorMap, agentCache, index>>

\* Time passes for a placement.
Expire(v, e) ==
    /\ e \in placements[v]
    /\ ~e.expired
    /\ placements' = [placements EXCEPT ![v] =
                         (placements[v] \ {e}) \cup {[e EXCEPT !.expired = TRUE]}]
    /\ UNCHANGED <<manifests, discovered, actorMap, agentCache, index, pendingCache,
                   todo>>

-----------------------------------------------------------------------------
SchedInit ==
    /\ manifests = [v \in VM |-> None]
    /\ placements = [v \in VM |-> {}]
    /\ discovered = [v \in VM |-> {}]
    /\ actorMap = [a \in VmActor |-> None]
    /\ agentCache = [x \in Agent |-> None]
    /\ index = [x \in Agent |-> {}]
    /\ pendingCache = None
    /\ todo = {}

CONSTANT MaxUsed    \* bound: the usage an agent may report
ASSUME MaxUsedAssumption == MaxUsed \in Nat

ClientNext ==
    \E v \in VM :
        \/ \E size \in Size : CreateVMRejected(v, size)
        \/ \E size \in Size, x \in Agent :
               \/ \E reply \in {a \in VmActor : VmOf[a] = v} \cup {None} :
                      CreateVM(v, size, x, reply)
               \/ CreateVMRolledBack(v, size, x)
        \/ DeleteVM(v)
        \/ ShutdownVM(v)

DiscoveryNext ==
    \/ \E a \in VmActor : \/ \E manifest \in Size \cup {None} : VmUpdated(a, manifest)
                          \/ VmLost(a)
    \/ \E x \in Agent :
           \/ AgentLost(x)
           \/ \E vms \in SUBSET VM, used \in 0 .. MaxUsed : AgentUpdatedFull(x, vms, used)
           \/ \E added, removed \in SUBSET VM, used \in 0 .. MaxUsed :
                  /\ added \cap removed = {}
                  /\ AgentUpdatedDelta(x, added, removed, used)

ReconcileNext ==
    \/ ReconcileStart
    \/ \E v \in VM :
           \/ ReconcileSkips(v)
           \/ \E x \in Agent : ReconcileDispatches(v, x) \/ ReconcileSendFails(v, x)
           \/ \E e \in placements[v] : Expire(v, e)

SchedNext == ClientNext \/ DiscoveryNext \/ ReconcileNext

SchedSpec == SchedInit /\ [][SchedNext]_schedVars

-----------------------------------------------------------------------------
(* Properties.                                                             *)

SchedTypeOK ==
    /\ manifests \in [VM -> Size \cup {None}]
    /\ placements \in [VM -> SUBSET Entry]
    /\ discovered \in [VM -> SUBSET VmActor]
    /\ actorMap \in [VmActor -> VM \cup {None}]
    /\ agentCache \in [Agent -> AgentStatus \cup {None}]
    /\ index \in [Agent -> SUBSET VM]
    /\ todo \subseteq VM

\* A placement never outlives the intent it belongs to (scheduler_actor.rs:134,
\* "correlated maps must be updated together"): after a delete, a shutdown or a
\* rolled-back create, no status, discovery or reconciliation puts a placement
\* back for a VM without a manifest.
PlacementHasIntent == \A v \in VM : placements[v] # {} => manifests[v] # None

\* A VM has at most one entry per agent, so that "the entry of this agent" in
\* reconcile_agent_delta is well defined, and at most one Pending entry: the
\* scheduler never has two creates of one VM outstanding.
OneEntryPerAgent ==
    \A v \in VM : \A d, e \in placements[v] :
        (d.agent = e.agent \/ (d.lifecycle = "Pending" /\ e.lifecycle = "Pending"))
            => d = e

\* The lazily computed totals are never stale (scheduler_actor.rs:153,
\* "Invalidated whenever status or placement state that affects capacity
\* changes"): whichever handlers ran since the totals were computed, cached
\* totals are what the current manifests and placements add up to.
PendingCacheCoherent ==
    pendingCache # None
        => pendingCache = pending_resources_by_agent(manifests, placements)

\* While the reconciliation loop runs, the VMs it still has to schedule have
\* intent and no placement: scheduling one of them never touches another.
TodoUnplaced == \A v \in todo : manifests[v] # None /\ placements[v] = {}

\* The membership index never claims a VM the agent's cached status does not
\* list, and claims nothing for an agent without a cached status
\* (scheduler_actor.rs:156-157): the two are updated by different code in
\* AgentUpdated, remove_vm_intent and cleanup_agent_actor.
IndexWithinStatus ==
    \A x \in Agent :
        IF agentCache[x] = None THEN index[x] = {} ELSE index[x] \subseteq agentCache[x].vms

\* A discovered actor is always mapped to its VM, so that its loss, whenever it
\* is noticed, reaches the placements of that VM (cleanup_vm_actor returns early
\* for an actor without a mapping).
DiscoveredActorMapped ==
    \A v \in VM : \A a \in discovered[v] : actorMap[a] = v
=============================================================================
