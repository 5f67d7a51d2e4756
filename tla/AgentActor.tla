------------------------------ MODULE AgentActor ------------------------------
(***************************************************************************)
(* The agent actor of one host (actors/agent_actor.rs): the VMs it runs,   *)
(* the membership revision and the bounded change history from which it    *)
(* answers GetAgentStatus, and the VM actors it has spawned and linked.    *)
(*                                                                         *)
(* A handler holds the actor exclusively until it returns, also while it   *)
(* awaits a reply, so each handler is one action.  The handlers are built  *)
(* from operators on the record of agent fields (insert_vm, remove_vm),    *)
(* as in the code.                                                         *)
(*                                                                         *)
(* Abstractions: the two accounted resources (vCPUs, memory bytes) are     *)
(* kept by the same assignments and are one number, `used`; a manifest is  *)
(* the size it accounts for.                                               *)
(***************************************************************************)
EXTENDS Integers, Sequences, FiniteSets, FiniteSetsExt

CONSTANTS
    VM,             \* VM identifiers (Ulid)
    Size,           \* resource sizes a manifest may ask for
    HistoryLimit,   \* STATUS_CHANGE_HISTORY_LIMIT
    NoVM,           \* absence of an entry in `vms`
    ActorId,        \* VM actor ids; bounds the actors that exist at a time
    MaxRevision     \* bound: membership changes in a behaviour

ASSUME SizeAssumption == Size \subseteq Nat
ASSUME HistoryLimitAssumption == HistoryLimit \in Nat \ {0}
ASSUME MaxRevisionAssumption == MaxRevision \in Nat

VARIABLES
    agent,      \* fields of the AgentActor struct, and the ghost field log
    running,    \* VM actors that run
    actorVm,    \* the VM each actor was spawned for
    stopping,   \* running VM actors told to stop, or killed
    linkDied,   \* link-death signals the agent has not handled yet
    replaced    \* ghost: an insert has replaced the entry of a running actor

agentVars == <<agent, running, actorVm, stopping, linkDied, replaced>>

VMCacheData == [actor_ref : ActorId, size : Size]
MembershipChange == [revision : Nat, vmid : VM, added : BOOLEAN]

ASSUME NoVMAssumption == NoVM \notin VMCacheData

Members(ag) == {v \in VM : ag.vms[v] # NoVM}

-----------------------------------------------------------------------------
(* Accounting and the change history.                                      *)

saturating_sub(a, b) == IF a >= b THEN a - b ELSE 0

\* Mutant: the history is never trimmed.
PushTrimmedNever(h, change) == Append(h, change)

\* push_back, then pop_front while the history is over its limit: a push makes
\* it at most one too long.
PushTrimmed(h, change) ==
    LET pushed == Append(h, change)
    IN  IF Len(pushed) > HistoryLimit THEN Tail(pushed) ELSE pushed

\* `log` is a ghost: log[r] is the membership the agent had at revision r.
record_membership_change(ag, v, added, members) ==
    LET rev == ag.membership_revision + 1
    IN  [vms |-> ag.vms,
         used |-> ag.used,
         membership_revision |-> rev,
         status_history |->
             PushTrimmed(ag.status_history,
                         [revision |-> rev, vmid |-> v, added |-> added]),
         log |-> [r \in 0 .. rev |-> IF r = rev THEN members ELSE ag.log[r]]]

\* Mutant: a replaced entry's size stays accounted.
insert_vm_keeps_previous(ag, v, data) ==
    LET inserted == [ag EXCEPT !.vms = [ag.vms EXCEPT ![v] = data],
                               !.used = ag.used + data.size]
    IN  IF ag.vms[v] = NoVM
        THEN record_membership_change(inserted, v, TRUE, Members(ag) \cup {v})
        ELSE inserted

\* Replacing an entry adjusts the usage and leaves the revision alone.
insert_vm(ag, v, data) ==
    LET previous == ag.vms[v]
        freed    == IF previous = NoVM THEN ag.used
                    ELSE saturating_sub(ag.used, previous.size)
        inserted == [ag EXCEPT !.vms = [ag.vms EXCEPT ![v] = data],
                               !.used = freed + data.size]
    IN  IF previous = NoVM
        THEN record_membership_change(inserted, v, TRUE, Members(ag) \cup {v})
        ELSE inserted

remove_vm(ag, v) ==
    IF ag.vms[v] = NoVM THEN ag
    ELSE record_membership_change(
             [ag EXCEPT !.vms = [ag.vms EXCEPT ![v] = NoVM],
                        !.used = saturating_sub(ag.used, ag.vms[v].size)],
             v, FALSE, Members(ag) \ {v})

-----------------------------------------------------------------------------
(* GetAgentStatus.                                                         *)

\* Mutant: every change after `since`, superseded ones too.
LatestChangesAll(h, since) ==
    {h[i] : i \in {j \in 1 .. Len(h) : h[j].revision > since}}

\* The last change the history holds for each VM after revision `since`.
LatestChanges(h, since) ==
    {h[i] : i \in {j \in 1 .. Len(h) :
                      /\ h[j].revision > since
                      /\ \A k \in 1 .. Len(h) : k > j => h[k].vmid # h[j].vmid}}

\* Mutant: off by one, a delta that starts one change after the asked revision.
NeedsFullOffByOne(ag, since, initial) ==
    \/ initial
    \/ since > ag.membership_revision
    \/ /\ ag.status_history # <<>>
       /\ since + 2 < ag.status_history[1].revision

NeedsFull(ag, since, initial) ==
    \/ initial
    \/ since > ag.membership_revision
    \/ /\ ag.status_history # <<>>
       /\ since + 1 < ag.status_history[1].revision

\* Field `since` is a ghost: a Delta does not carry the revision it starts from.
FullUpdate(ag) ==
    [kind |-> "Full", revision |-> ag.membership_revision, since |-> 0,
     vms |-> Members(ag), added |-> {}, removed |-> {}, used |-> ag.used]

DeltaUpdate(ag, since) ==
    LET latest == LatestChanges(ag.status_history, since)
    IN  [kind |-> "Delta", revision |-> ag.membership_revision, since |-> since,
         vms |-> {},
         added |-> {c.vmid : c \in {d \in latest : d.added}},
         removed |-> {c.vmid : c \in {d \in latest : ~d.added}},
         used |-> ag.used]

GetAgentStatus(ag, since, initial) ==
    IF NeedsFull(ag, since, initial) THEN FullUpdate(ag) ELSE DeltaUpdate(ag, since)

-----------------------------------------------------------------------------
(* The handlers.                                                           *)

AgentInit ==
    /\ agent = [vms |-> [v \in VM |-> NoVM], used |-> 0,
                membership_revision |-> 0, status_history |-> <<>>,
                log |-> [r \in 0 .. 0 |-> {}]]
    /\ running = {}
    /\ actorVm = [a \in ActorId |-> NoVM]
    /\ stopping = {}
    /\ linkDied = {}
    /\ replaced = FALSE

WithinBounds == agent'.membership_revision <= MaxRevision

\* spawn_link of VM actor a for v, under an id nothing refers to any more;
\* registering its names has no modelled effect.
SpawnLinked(v, a) ==
    /\ a \notin running \cup linkDied
    /\ \A w \in Members(agent) : agent.vms[w].actor_ref # a
    /\ running' = running \cup {a}
    /\ actorVm' = [actorVm EXCEPT ![a] = v]

CreateVM(v, size, a) ==
    /\ agent.vms[v] = NoVM
    /\ SpawnLinked(v, a)
    /\ agent' = insert_vm(agent, v, [actor_ref |-> a, size |-> size])
    /\ WithinBounds
    /\ UNCHANGED <<stopping, linkDied, replaced>>

\* A create for a VM the agent already has returns the existing entry.
CreateVMExisting(v) ==
    /\ agent.vms[v] # NoVM
    /\ UNCHANGED agentVars

\* The receiver is spawned and inserted whether or not the VM is already here.
\* When the receiver reports an error the entry is removed and the actor killed:
\* its death is signalled like any other.
MigrateVMReceive(v, size, a, ok) ==
    LET inserted == insert_vm(agent, v, [actor_ref |-> a, size |-> size])
    IN  /\ SpawnLinked(v, a)
        /\ agent' = IF ok THEN inserted ELSE remove_vm(inserted, v)
        /\ WithinBounds
        /\ stopping' = IF ok THEN stopping ELSE stopping \cup {a}
        /\ replaced' = (replaced \/ agent.vms[v] # NoVM)
        /\ UNCHANGED linkDied

\* The entry goes first; then the actor is told to stop, or killed.
DeleteVM(v) ==
    /\ agent.vms[v] # NoVM
    /\ agent' = remove_vm(agent, v)
    /\ WithinBounds
    /\ stopping' = stopping \cup (running \cap {agent.vms[v].actor_ref})
    /\ UNCHANGED <<running, actorVm, linkDied, replaced>>

DeleteVMMissing(v) ==
    /\ agent.vms[v] = NoVM
    /\ UNCHANGED agentVars

\* A shutdown reaches an actor registered under the VM's name and leaves the
\* agent's entry to the link-death handler.  The scheduler's DeleteVM and
\* ShutdownVM tell the VM actor directly, with the same effect on this host.
ShutdownVM(v) ==
    /\ \E a \in running :
           /\ actorVm[a] = v
           /\ stopping' = stopping \cup {a}
    /\ UNCHANGED <<agent, running, actorVm, linkDied, replaced>>

\* The VM actor ends: told to stop, failed to start, its process exited.
VmActorDies(a) ==
    /\ a \in running
    /\ running' = running \ {a}
    /\ stopping' = stopping \ {a}
    /\ linkDied' = linkDied \cup {a}
    /\ UNCHANGED <<agent, actorVm, replaced>>

\* Mutants: the dead actor's entry is looked up by VM, or stays.
DeadEntryByVm(ag, a) == {v \in VM : ag.vms[v] # NoVM /\ actorVm[a] = v}
DeadEntryNever(ag, a) == {}

\* Removes the entry that still refers to this very actor, if there is one.
DeadEntry(ag, a) ==
    {v \in VM : ag.vms[v] # NoVM /\ ag.vms[v].actor_ref = a}

AgentLinkDied(a) ==
    /\ a \in linkDied
    /\ linkDied' = linkDied \ {a}
    /\ actorVm' = [actorVm EXCEPT ![a] = NoVM]
    /\ \/ /\ DeadEntry(agent, a) = {}
          /\ UNCHANGED agent
       \/ \E v \in DeadEntry(agent, a) : agent' = remove_vm(agent, v)
    /\ WithinBounds
    /\ UNCHANGED <<running, stopping, replaced>>

AgentNext ==
    \/ \E v \in VM, size \in Size, a \in ActorId : CreateVM(v, size, a)
    \/ \E v \in VM : CreateVMExisting(v)
    \/ \E v \in VM, size \in Size, a \in ActorId, ok \in BOOLEAN :
           MigrateVMReceive(v, size, a, ok)
    \/ \E v \in VM : DeleteVM(v)
    \/ \E v \in VM : DeleteVMMissing(v)
    \/ \E v \in VM : ShutdownVM(v)
    \/ \E a \in ActorId : VmActorDies(a)
    \/ \E a \in ActorId : AgentLinkDied(a)

AgentSpec == AgentInit /\ [][AgentNext]_agentVars

-----------------------------------------------------------------------------
(* Properties of the agent.                                                *)

AgentTypeOK ==
    /\ agent \in [vms : [VM -> VMCacheData \cup {NoVM}],
                  used : Nat,
                  membership_revision : Nat,
                  status_history : Seq(MembershipChange),
                  log : [0 .. agent.membership_revision -> SUBSET VM]]
    /\ agent.membership_revision <= MaxRevision
    /\ Len(agent.status_history) <= HistoryLimit
    /\ running \subseteq ActorId
    /\ actorVm \in [ActorId -> VM \cup {NoVM}]
    /\ stopping \subseteq running
    /\ linkDied \subseteq ActorId
    /\ replaced \in BOOLEAN

\* The accounting of insert_vm and remove_vm: after any sequence of creates,
\* deletes, replacing migrations, failed migrations and deaths the accounted
\* usage is the sum over the VMs the agent lists.
UsageIsSumOfMembers ==
    agent.used = MapThenSumSet(LAMBDA v : agent.vms[v].size, Members(agent))

\* on_link_died compares actor ids, not VM ids: an entry always refers to an
\* actor that runs or whose death is still to be handled, so a late death of a
\* previous incarnation never takes the new entry with it, and no entry stays
\* behind for an actor nobody will ever report dead.
EntryActorAccountedFor ==
    \A v \in Members(agent) :
        /\ agent.vms[v].actor_ref \in running \cup linkDied
        /\ actorVm[agent.vms[v].actor_ref] = v

\* A VM actor that runs without an entry in `vms` has been told to stop, unless
\* a migration has replaced its entry (agent_actor.rs:212-224 inserts without
\* looking for a VM that is already there).
UnlistedActorIsStopping ==
    ~replaced => \A a \in running :
                     \/ a \in stopping
                     \/ /\ agent.vms[actorVm[a]] # NoVM
                        /\ agent.vms[actorVm[a]].actor_ref = a
=============================================================================
