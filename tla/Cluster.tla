-------------------------------- MODULE Cluster --------------------------------
(***************************************************************************)
(* The scheduler (Scheduler) with the agents and VM actors it manages: the *)
(* agents' VMs, the updater tasks and links the scheduler has for agents   *)
(* and VM actors, its mailbox, and the create requests in flight.  Every   *)
(* message that Scheduler takes as a parameter has its sender here.        *)
(*                                                                         *)
(* Client requests and discoveries are handled when they arrive; updates   *)
(* and notices of loss wait in the mailbox in the order in which they were *)
(* sent.                                                                   *)
(*                                                                         *)
(* Abstractions beyond Scheduler's.                                        *)
(*  - An agent's change history is long enough for every delta (StatusSync *)
(*    is about the limit): a delta has the VMs that changed since the last *)
(*    poll.                                                                *)
(*  - The stop message of an updater and the death of a link lead to the   *)
(*    same clean-up: the first of the two is the notice, and the second    *)
(*    finds nothing left to clean.                                         *)
(*  - A VM actor's death and the agent's handling of it are one step: the  *)
(*    actor is `stopping` for as long as it likes (AgentActor has both).   *)
(*  - Two equal create requests in flight are one: the agent answers the   *)
(*    second as idempotent.                                                *)
(*  - There is no migration.                                               *)
(***************************************************************************)
EXTENDS Scheduler, Sequences

CONSTANTS
    MailboxBound,   \* bound: a teller waits while the mailbox is full
    FaultKind,      \* the kinds of fault that may happen, of those in AnyFault
    MaxCrashes,     \* bound: crashes of agents and VM actors in a behaviour
    MaxFaults,      \* bound: faults in a behaviour
    MaxFailures     \* bound: crashes and faults in a behaviour

ASSUME ClusterBoundAssumption ==
    MailboxBound \in Nat /\ MaxCrashes \in Nat /\ MaxFaults \in Nat
                         /\ MaxFailures \in Nat

VARIABLES
    alive,      \* agents that run
    status,     \* the life of each VM actor
    host,       \* the agent each VM actor was spawned on
    sizeOf,     \* the manifest each VM actor was spawned with
    revision,   \* membership_revision of each agent
    changed,    \* VMs whose membership changed since the last poll
    watch,      \* the updater task and the link of each agent and VM actor
    cacheRev,   \* status_revision of the cached status
    mailbox,    \* the scheduler's mailbox
    inflight,   \* create requests on their way to an agent
    crashes,    \* crashes so far
    faults,     \* faults so far
    deleted,    \* ghost: VMs deleted or shut down since their last create
    clean       \* ghost: no fault, and no deleted VM got its manifest back

agentSide == <<alive, status, host, sizeOf, revision, changed, crashes>>
ghosts == <<deleted, clean>>
vars == <<schedVars, agentSide, watch, cacheRev, mailbox, inflight, faults, ghosts>>

CreateRequest == [agent : Agent, vm : VM, size : Size]

Live(a) == status[a] \in {"running", "stopping"}
Hosted(x) == {a \in VmActor : Live(a) /\ host[a] = x}
HostedVMs(x) == {VmOf[a] : a \in Hosted(x)}
UsedOn(x) == MapThenSumSet(LAMBDA a : sizeOf[a], Hosted(x))

\* The registry finds the VM's actors until they are dead.
Registered(v) == {a \in VmActor : VmOf[a] = v /\ Live(a)}

\* A request, its reply, a lookup or a message fails; an actor that can be reached is
\* taken for dead; a create is not confirmed in time; a client creates a VM under the
\* identifier of a deleted one; the scheduler restarts.
AnyFault == {"request", "agent loss", "VM loss", "late", "reuse", "restart"}

Failure == crashes + faults < MaxFailures
Fault(kind) ==
    /\ kind \in FaultKind /\ Failure
    /\ faults < MaxFaults /\ faults' = faults + 1
    /\ clean' = FALSE
Crash == Failure /\ crashes < MaxCrashes /\ crashes' = crashes + 1
NoFault == UNCHANGED <<faults, clean>>

Tell(m) == Len(mailbox) < MailboxBound /\ mailbox' = Append(mailbox, m)
Mail(type, id) == [type |-> type, id |-> id]

-----------------------------------------------------------------------------
(* Agents and VM actors.                                                   *)

Unborn(v) == {a \in VmActor : VmOf[a] = v /\ status[a] = "unborn"}

\* The agent's side of a create: insert_vm changes revision and membership.
Spawn(x, v, size, a) ==
    /\ Unborn(v) # {}
    /\ a = CHOOSE b \in Unborn(v) : TRUE
    /\ status' = [status EXCEPT ![a] = "running"]
    /\ host' = [host EXCEPT ![a] = x]
    /\ sizeOf' = [sizeOf EXCEPT ![a] = size]
    /\ revision' = [revision EXCEPT ![x] = @ + 1]
    /\ changed' = [changed EXCEPT ![x] = @ \cup {v}]
    /\ UNCHANGED <<alive, crashes>>

\* What the agent does with a create request, and the actor it answers with.
AgentCreates(x, v, size, a) ==
    \/ v \notin HostedVMs(x) /\ Spawn(x, v, size, a)
    \/ a \in Hosted(x) /\ VmOf[a] = v /\ UNCHANGED agentSide

AgentHandlesCreate(req, a) ==
    /\ req \in inflight
    /\ req.agent \in alive
    /\ AgentCreates(req.agent, req.vm, req.size, a)
    /\ inflight' = inflight \ {req}
    /\ UNCHANGED <<schedVars, watch, cacheRev, mailbox, faults, ghosts>>

\* A request to a dead agent is lost; losing one to a live agent is a fault.
RequestLost(req) ==
    /\ req \in inflight
    /\ inflight' = inflight \ {req}
    /\ IF req.agent \in alive THEN Fault("request") ELSE NoFault
    /\ UNCHANGED <<schedVars, agentSide, watch, cacheRev, mailbox, deleted>>

\* Told to stop, failed to start, or its process exited.
VmActorDies(a) ==
    /\ Live(a)
    /\ status' = [status EXCEPT ![a] = "dead"]
    /\ revision' = [revision EXCEPT ![host[a]] = @ + 1]
    /\ changed' = [changed EXCEPT ![host[a]] = @ \cup {VmOf[a]}]
    /\ IF status[a] = "stopping" THEN UNCHANGED crashes ELSE Crash
    /\ UNCHANGED <<schedVars, alive, host, sizeOf, watch, cacheRev, mailbox, inflight,
                   faults, ghosts>>

\* The VM actors of an agent end with it.
AgentDies(x) ==
    /\ x \in alive
    /\ alive' = alive \ {x}
    /\ status' = [a \in VmActor |-> IF a \in Hosted(x) THEN "dead" ELSE status[a]]
    /\ Crash
    /\ UNCHANGED <<schedVars, host, sizeOf, revision, changed, watch, cacheRev, mailbox,
                   inflight, faults, ghosts>>

-----------------------------------------------------------------------------
(* Clients.                                                                *)

\* The agent handles the request and its reply arrives.
ClientCreates(v, size, x, a) ==
    /\ x \in alive
    /\ CreateVM(v, size, x, a)
    /\ AgentCreates(x, v, size, a)
    /\ IF v \in deleted THEN Fault("reuse") ELSE NoFault
    /\ deleted' = deleted \ {v}
    /\ UNCHANGED <<watch, cacheRev, mailbox, inflight>>

ClientRejected(v, size) ==
    /\ CreateVMRejected(v, size)
    /\ UNCHANGED <<agentSide, watch, cacheRev, mailbox, inflight, faults, ghosts>>

\* The request failed, and an actor of the VM is registered: the reply was lost,
\* or the request was and an earlier actor still runs.
ClientCreateKept(v, size, x, a) ==
    /\ CreateVM(v, size, x, None)
    /\ \/ x \in alive /\ AgentCreates(x, v, size, a)
       \/ a \in Registered(v) /\ UNCHANGED agentSide
    /\ Fault("request")
    /\ deleted' = deleted \ {v}
    /\ UNCHANGED <<watch, cacheRev, mailbox, inflight>>

\* The request failed and no actor was found.  By a fault, the request is late or
\* the lookup failed.
ClientCreateRolledBack(v, size, x) ==
    /\ CreateVMRolledBack(v, size, x)
    /\ \/ Registered(v) = {} /\ NoFault /\ UNCHANGED inflight
       \/ /\ Fault("request")
          /\ \/ UNCHANGED inflight
             \/ inflight' = inflight \cup {[agent |-> x, vm |-> v, size |-> size]}
    /\ UNCHANGED <<agentSide, watch, cacheRev, mailbox, deleted>>

\* The first actor the registry finds is told.
ClientStops(v, a) ==
    /\ a \in Registered(v)
    /\ DeleteVM(v) \/ ShutdownVM(v)
    /\ status' = [status EXCEPT ![a] = "stopping"]
    /\ deleted' = deleted \cup {v}
    /\ UNCHANGED <<alive, host, sizeOf, revision, changed, crashes, watch, cacheRev,
                   mailbox, inflight, faults, clean>>

-----------------------------------------------------------------------------
(* Discovery, polling and loss.                                            *)

\* "first": the updater has yet to report; "steady": it has; "lost": the notice of
\* the actor's loss is in the mailbox.
Phase == {"none", "first", "steady", "lost"}

Reachable(id) == id \in alive \cup {a \in VmActor : Live(a)}

\* An actor with a running updater is left alone.  Linking fails when it is gone.
Discover(id) ==
    /\ Idle
    /\ watch[id] \in {"none", "lost"}
    /\ watch' = [watch EXCEPT ![id] = IF Reachable(id) THEN "first" ELSE "none"]
    /\ UNCHANGED <<schedVars, agentSide, cacheRev, mailbox, inflight, faults, ghosts>>

AgentActorDiscovered(x) == Discover(x)

VmActorDiscovered(a) == status[a] # "unborn" /\ Discover(a)

\* The first report is a full one, the others are deltas; a report without a
\* change is ignored.
AgentUpdaterPolls(x) ==
    LET full == watch[x] = "first"
    IN  /\ watch[x] \in {"first", "steady"}
        /\ x \in alive
        /\ full \/ changed[x] # {}
        /\ Tell([type |-> "AgentUpdated", id |-> x, full |-> full,
                 revision |-> revision[x], used |-> UsedOn(x),
                 added |-> IF full THEN HostedVMs(x) ELSE changed[x] \cap HostedVMs(x),
                 removed |-> IF full THEN {} ELSE changed[x] \ HostedVMs(x)])
        /\ watch' = [watch EXCEPT ![x] = "steady"]
        /\ changed' = [changed EXCEPT ![x] = {}]
        /\ UNCHANGED <<schedVars, alive, status, host, sizeOf, revision, crashes, cacheRev,
                       inflight, faults, ghosts>>

VmUpdaterAnswers(a) ==
    /\ watch[a] = "first"
    /\ Live(a)
    /\ Tell(Mail("VmUpdated", a))
    /\ watch' = [watch EXCEPT ![a] = "steady"]
    /\ UNCHANGED <<schedVars, agentSide, cacheRev, inflight, faults, ghosts>>

\* A last report of the actor, already on its way, may be told after the notice.
Overtakes(m) ==
    /\ mailbox # <<>>
    /\ Len(mailbox) < MailboxBound
    /\ mailbox[Len(mailbox)].id = m.id
    /\ mailbox' = SubSeq(mailbox, 1, Len(mailbox) - 1) \o <<m, mailbox[Len(mailbox)]>>

\* The updater gave up after six failed requests, or the swarm reports the link
\* dead.  An actor that can be reached is lost by a fault.
Lose(id) ==
    /\ watch[id] \in {"first", "steady"}
    /\ \/ id \in Agent /\ Reachable(id) /\ Fault("agent loss")
       \/ id \in VmActor /\ Reachable(id) /\ Fault("VM loss")
       \/ ~Reachable(id) /\ NoFault
    /\ Tell(Mail("Lost", id)) \/ Overtakes(Mail("Lost", id))
    /\ watch' = [watch EXCEPT ![id] = "lost"]
    /\ UNCHANGED <<schedVars, agentSide, cacheRev, inflight, deleted>>

-----------------------------------------------------------------------------
(* The scheduler's mailbox.                                                *)

Receive(type) ==
    /\ Idle
    /\ mailbox # <<>>
    /\ Head(mailbox).type = type
    /\ mailbox' = Tail(mailbox)

\* A VM that was deleted gets its manifest back.
HandleVmUpdated ==
    /\ Receive("VmUpdated")
    /\ VmUpdated(Head(mailbox).id, sizeOf[Head(mailbox).id])
    /\ clean' = (clean /\ VmOf[Head(mailbox).id] \notin deleted)
    /\ UNCHANGED <<agentSide, watch, cacheRev, inflight, faults, deleted>>

HandleAgentUpdated ==
    LET m     == Head(mailbox)
        x     == m.id
        known == agentCache[x] # None
        newer == ~known \/ m.revision > cacheRev[x]
    IN  /\ Receive("AgentUpdated")
        /\ \/ /\ newer /\ m.full
              /\ AgentUpdatedFull(x, m.added, m.used)
              /\ cacheRev' = [cacheRev EXCEPT ![x] = m.revision]
           \/ /\ newer /\ ~m.full /\ known
              /\ AgentUpdatedDelta(x, m.added, m.removed, m.used)
              /\ cacheRev' = [cacheRev EXCEPT ![x] = m.revision]
           \/ /\ ~newer \/ (~m.full /\ ~known)
              /\ UNCHANGED <<schedVars, cacheRev>>
        /\ UNCHANGED <<agentSide, watch, inflight, faults, ghosts>>

\* Both clean-ups abort the task.  A second notice of one loss finds no link.
HandleVmLost ==
    LET a == Head(mailbox).id
    IN  /\ Receive("Lost")
        /\ a \in VmActor
        /\ VmLost(a)
        /\ watch' = [watch EXCEPT ![a] = "none"]
        /\ UNCHANGED <<agentSide, cacheRev, inflight, faults, ghosts>>

HandleAgentLost ==
    LET x == Head(mailbox).id
    IN  /\ Receive("Lost")
        /\ x \in Agent
        /\ AgentLost(x)
        /\ watch' = [watch EXCEPT ![x] = "none"]
        /\ cacheRev' = [cacheRev EXCEPT ![x] = 0]
        /\ UNCHANGED <<agentSide, inflight, faults, ghosts>>

-----------------------------------------------------------------------------
(* Reconciliation and time.                                                *)

outside == <<agentSide, watch, cacheRev, mailbox>>

\* Sending to an agent that runs fails by a fault.
Reconciles ==
    /\ \/ ReconcileStart /\ NoFault /\ UNCHANGED inflight
       \/ \E v \in VM : ReconcileSkips(v) /\ NoFault /\ UNCHANGED inflight
       \/ \E v \in VM, x \in Agent :
              /\ ReconcileSendFails(v, x)
              /\ IF x \in alive THEN Fault("request") ELSE NoFault
              /\ UNCHANGED inflight
       \/ \E v \in VM, x \in Agent :
              /\ ReconcileDispatches(v, x)
              /\ inflight' = inflight \cup {[agent |-> x, vm |-> v, size |-> manifests[v]]}
              /\ NoFault
    /\ UNCHANGED <<outside, deleted>>

\* A create that the scheduler has not seen confirmed within two minutes although
\* its request is on its way, its actor runs or a status that lists the VM is in
\* the mailbox: a fault.
LateCreate(v, e) ==
    /\ e.lifecycle = "Pending"
    /\ \/ \E req \in inflight : req.vm = v /\ req.agent = e.agent
       \/ v \in HostedVMs(e.agent)
       \/ \E i \in 1 .. Len(mailbox) :
              /\ mailbox[i].type = "AgentUpdated"
              /\ mailbox[i].id = e.agent
              /\ v \in mailbox[i].added

TimePasses(v, e) ==
    /\ Expire(v, e)
    /\ IF LateCreate(v, e) THEN Fault("late") ELSE NoFault
    /\ UNCHANGED <<outside, inflight, deleted>>

-----------------------------------------------------------------------------
(* The scheduler's process.                                                *)

\* The scheduler dies with its mailbox, tasks and links, and starts again with
\* empty maps: nothing is persisted.  The agents go on (on_link_died returns
\* Continue); a VM actor that was linked may stop, as the runtime's default for
\* the loss of a peer has it, or miss the loss and go on.
SchedulerRestarts ==
    /\ Fault("restart")
    /\ manifests' = [v \in VM |-> None]
    /\ placements' = [v \in VM |-> {}]
    /\ discovered' = [v \in VM |-> {}]
    /\ actorMap' = [a \in VmActor |-> None]
    /\ agentCache' = [x \in Agent |-> None]
    /\ index' = [x \in Agent |-> {}]
    /\ pendingCache' = None
    /\ todo' = {}
    /\ \E stops \in SUBSET {a \in VmActor : Live(a) /\ watch[a] # "none"} :
          status' = [a \in VmActor |-> IF a \in stops THEN "stopping" ELSE status[a]]
    /\ watch' = [id \in Agent \cup VmActor |-> "none"]
    /\ cacheRev' = [x \in Agent |-> 0]
    /\ mailbox' = <<>>
    /\ UNCHANGED <<alive, host, sizeOf, revision, changed, crashes, inflight, deleted>>

-----------------------------------------------------------------------------
ClusterInit ==
    /\ SchedInit
    /\ alive = Agent
    /\ status = [a \in VmActor |-> "unborn"]
    /\ host = [a \in VmActor |-> None]
    /\ sizeOf = [a \in VmActor |-> None]
    /\ revision = [x \in Agent |-> 0]
    /\ changed = [x \in Agent |-> {}]
    /\ watch = [id \in Agent \cup VmActor |-> "none"]
    /\ cacheRev = [x \in Agent |-> 0]
    /\ mailbox = <<>>
    /\ inflight = {}
    /\ crashes = 0
    /\ faults = 0
    /\ deleted = {}
    /\ clean = TRUE

AgentSideNext ==
    \/ \E req \in inflight : RequestLost(req) \/ \E a \in VmActor : AgentHandlesCreate(req, a)
    \/ \E a \in VmActor : VmActorDies(a)
    \/ \E x \in Agent : AgentDies(x)

ClientsNext ==
    \E v \in VM :
        \/ \E a \in VmActor : ClientStops(v, a)
        \/ \E size \in Size :
               \/ ClientRejected(v, size)
               \/ \E x \in Agent :
                      \/ ClientCreateRolledBack(v, size, x)
                      \/ \E a \in VmActor : \/ ClientCreates(v, size, x, a)
                                            \/ ClientCreateKept(v, size, x, a)

UpdatersNext ==
    \/ \E x \in Agent : AgentActorDiscovered(x) \/ AgentUpdaterPolls(x)
    \/ \E a \in VmActor : VmActorDiscovered(a) \/ VmUpdaterAnswers(a)
    \/ \E id \in Agent \cup VmActor : Lose(id)

HandlesMail == HandleVmUpdated \/ HandleAgentUpdated \/ HandleVmLost \/ HandleAgentLost

ClusterNext ==
    \/ AgentSideNext
    \/ ClientsNext
    \/ UpdatersNext
    \/ HandlesMail
    \/ Reconciles
    \/ \E v \in VM : \E e \in placements[v] : TimePasses(v, e)
    \/ SchedulerRestarts

ClusterSpec == ClusterInit /\ [][ClusterNext]_vars

\* Agents handle requests, stopping actors stop, updaters report and notice losses,
\* the finder finds, the scheduler handles its mail in order, between the
\* reconciliations that are part of it, and time passes.
Discovers ==
    \/ \E x \in Agent : AgentActorDiscovered(x)
    \/ \E a \in VmActor : VmActorDiscovered(a)

UpdatersRun ==
    \/ \E x \in Agent : AgentUpdaterPolls(x)
    \/ \E a \in VmActor : VmUpdaterAnswers(a)
    \/ \E id \in Agent \cup VmActor : ~Reachable(id) /\ Lose(id)

ClusterFairness ==
    /\ WF_vars(\E req \in inflight : \/ req.agent \notin alive /\ RequestLost(req)
                                    \/ \E a \in VmActor : AgentHandlesCreate(req, a))
    /\ WF_vars(\E a \in VmActor : status[a] = "stopping" /\ VmActorDies(a))
    /\ WF_vars(UpdatersRun)
    /\ SF_vars(Discovers)
    /\ SF_vars(HandlesMail)
    /\ WF_vars(Reconciles)
    /\ WF_vars(\E v \in VM : \E e \in placements[v] : ~LateCreate(v, e) /\ TimePasses(v, e))

ClusterFairSpec == ClusterSpec /\ ClusterFairness

-----------------------------------------------------------------------------
(* Properties.                                                             *)

RunningOf(v) == {a \in VmActor : VmOf[a] = v /\ status[a] = "running"}
RunningSizeOn(x) ==
    MapThenSumSet(LAMBDA a : sizeOf[a], {a \in Hosted(x) : status[a] = "running"})

ClusterTypeOK ==
    /\ SchedTypeOK
    /\ alive \subseteq Agent
    /\ status \in [VmActor -> {"unborn", "running", "stopping", "dead"}]
    /\ host \in [VmActor -> Agent \cup {None}]
    /\ sizeOf \in [VmActor -> Size \cup {None}]
    /\ changed \in [Agent -> SUBSET VM]
    /\ watch \in [Agent \cup VmActor -> Phase]
    /\ Len(mailbox) <= MailboxBound
    /\ inflight \subseteq CreateRequest
    /\ crashes \in 0 .. MaxCrashes
    /\ faults \in 0 .. MaxFaults

\* A VM never runs twice: whatever order status, discovery, stop messages, link
\* deaths, expiries and reconciliations arrive in, the scheduler recreates a VM
\* only when no actor of it runs and no create of it is on its way, as long as
\* no request is lost or late and no live actor is taken for dead.
CleanSingleCopy == clean => \A v \in VM : Cardinality(RunningOf(v)) <= 1

\* The VMs that run on an agent fit it: between a reservation, the agent's
\* create, its status and the confirmation, a VM's size is always counted by
\* the reservation or by the cached usage (scheduling.rs:111).
CleanWithinCapacity == clean => \A x \in Agent : RunningSizeOn(x) <= Capacity[x]

\* An agent or a VM actor that is gone and that nobody watches is still cached: its
\* last report was told after the notice of its loss (discovery.rs:49-53, 135-143).
GhostCached ==
    \/ \E x \in Agent : x \notin alive /\ agentCache[x] # None /\ watch[x] = "none"
    \/ \E v \in VM : \E a \in discovered[v] : ~Live(a) /\ watch[a] = "none"

\* A confirmed placement whose age has passed the timeout stays although the
\* agent's latest status omits the VM.
StalePlacement(v) ==
    \E e \in placements[v] :
        /\ e.lifecycle = "Running" /\ e.expired
        /\ agentCache[e.agent] # None /\ v \notin agentCache[e.agent].vms

\* Every VM the scheduler wants to run ends up running: after the last crash and
\* the last fault, unless a ghost is cached (which keeps a Pending placement from
\* expiring, cache.rs:79), a placement is stale (see AbsentPlacementExpires), no
\* agent is left or the bound on incarnations is reached.
IntentRealised ==
    <>[](\A v \in VM : \/ manifests[v] = None
                       \/ RunningOf(v) # {}
                       \/ GhostCached
                       \/ StalePlacement(v)
                       \/ alive = {}
                       \/ Unborn(v) = {})

\* A VM that runs is known to the scheduler in the end, whatever became of the
\* request that created it, unless a client has deleted it since its last create:
\* the rollback of a create whose request arrived late (handlers.rs:134-151)
\* leaves an actor that discovery adopts.  (A delete tells one actor,
\* handlers.rs:207-211: of two copies the other runs on, and its one VmUpdated
\* may have been handled already.)
RunningAdopted ==
    <>[](\A a \in VmActor :
            status[a] = "running" =>
                manifests[VmOf[a]] # None \/ VmOf[a] \in deleted)

\* What cache.rs says of confirmed placements: "Previously observed VMs are expired
\* promptly when repeated status updates omit them."
AbsentPlacementExpires == \A v \in VM : StalePlacement(v) ~> ~StalePlacement(v)

\* What cache.rs says of remove_vm_intent: "so reconciliation cannot recreate a VM
\* after an explicit stop or delete request".
DeletedStaysDeleted == \A v \in deleted : manifests[v] = None

\* What scheduling.rs says of placement: "RAM is not overprovisioned".
RamNotOvercommitted == \A x \in Agent : UsedOn(x) <= Capacity[x]
=============================================================================
