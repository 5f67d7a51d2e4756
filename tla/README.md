# Odorobo: TLA+ models, checks and proofs

This directory models Odorobo, a cluster manager for Cloud Hypervisor virtual
machines written in Rust on kameo actors: what its actors promise each other, and
what they do to the host they run on, checked with TLC on small instances and, for
the parts that matter most, proved with TLAPS for every value of the parameters.

Paths below are relative to `src/odorobo/src/`.

## 1. Inventory

| Component | Source | State it keeps | Operations that change it |
|---|---|---|---|
| Scheduler actor | `actors/scheduler_actor.rs`, `scheduler_actor/{handlers,cache,discovery,scheduling}.rs` | intent (`vm_manifests`), placements, discovered VM actors, actor-to-VM map, cached agent status, membership index, cached pending totals, keepalive tasks, links | CreateVM, DeleteVM, ShutdownVM, VmActorDiscovered, AgentActorDiscovered, VmUpdated, VmUpdaterStopped, AgentUpdated, AgentUpdaterStopped, ReconcileVmPlacements, link death |
| Updater tasks | `scheduler_actor/discovery.rs` | revision to ask from, failure counter | poll once a second, forward, give up after six failures |
| Agent actor | `actors/agent_actor.rs`, `messages/agent.rs` | VMs, usage, membership revision, bounded change history | CreateVM, MigrateVMReceive, DeleteVM, ShutdownVM, link death; GetAgentStatus reads |
| VM actor | `ch_driver/actor.rs` | VM instance, migration state, console spool, manifest | start, stop, MigrateVMReceive, PrepMigration, MigrationFinished, console |
| VM instance | `ch_driver/instance.rs`, `ch_driver/provisioning/hooks/` | child process, runtime directory and socket, applied config | spawn, boot, migrate, destroy, purge |
| Networking actor, DHCP actor | `networking/actor_linux.rs` | bridge, address and NAT rule of the host, the dnsmasq process, taps | start and stop of both, AttachTap, DetachTap |
| Transforms, manifest | `ch_driver/transform/`, `ch_driver/manifest.rs`, `manifest.rs` | none (pure data), storage attachments | transform, teardown, validate, conversion |
| HTTP API, `odoroboctl` | `http_api/`, `actors/http_actor.rs` | none | forward requests to the scheduler |
| Lock file, start-up | `utils/lockfile.rs`, `main.rs`, `config.rs` | a file, the termination flag | create, write, remove; signals, the drop of the runtime |

**Interactions.** Clients reach the scheduler through the HTTP API. The scheduler
asks an agent to create a VM; the agent spawns and links a VM actor, and the VM
actor runs a Cloud Hypervisor process. The scheduler finds agents and VM actors
through the swarm's registry every five seconds, links them, and starts one
polling task for each; the tasks send the scheduler messages. Deletes and
shutdowns go from the scheduler straight to the VM actor; the agent learns of them
from the actor's death.

**What is hard.** Each actor handles one message at a time, but nothing orders the
messages of different senders: a status answer can be handled after the link death
of its agent, an updater's stop message after its successor has started, the death
of a VM actor after the VM was created again. Requests and replies get lost, links
break while both ends live, deltas are cut from a bounded history, reservations
must hold from a create until the agent's status accounts for it, and placements
expire by age. The scheduler keeps all of its state in memory and may be restarted.

On a host, starting and destroying a VM are long sequences of awaited calls, each of
which may fail, with early returns in the middle. Everything a VM has is named after
its id, so an actor that stops late shares directory, socket and storage with its
successor; tasks outlive the actor that started them. The lock file and the network
set-up outlive processes that are killed anywhere. `PROJECT.json` lists these hazards
line by line.

## 2. Modules

| Module | Models | Extends |
|---|---|---|
| `AgentActor` | the agent actor: accounting, change history, `GetAgentStatus`, all handlers; the VM actors' lives and deaths as far as the agent sees them | |
| `MembershipView` | abstract specification: the scheduler's view of an agent is none, or exactly the membership at one revision the agent has reached, and only moves forward | |
| `StatusSync` | the agent, the scheduler's updater task for it, the scheduler's mailbox and its cached status; implements `MembershipView` | `AgentActor` |
| `Scheduler` | the scheduler's correlated maps and every handler that changes them | |
| `Cluster` | the scheduler with its mailbox, the finder, the updater tasks and links, the agents, the VM actors and the create requests in flight, under crashes and network faults | `Scheduler` |
| `Placement` | the choice of an agent as a function: capacities of both resources, affinity rules, scores and their comparison | |
| `VmHost` | one VM on one host: the VM actors spawned for it, the VMM processes they drive, their tasks, and what these share | |
| `VmConfig` | pure functions: validation of a manifest, its conversion, the transform chain and its teardown, tap names, the parsing of `rbd device list` | |
| `Console` | the bounded console history and the task that fills it | |
| `HostProcess` | the odorobo processes of one host over time: lock file, start-up, termination, network actor, DHCP actor, and what they leave in the kernel | |
| `StatusSyncProofs` | theorems and proofs about the status protocol and the agent actor | `StatusSync`, `SumProofs` |
| `SchedulerProofs`, `VmHostProofs`, `HostProofs` | theorems and proofs about `Scheduler`, `VmHost`, `HostProcess` | that module |
| `ClusterProofs` | theorems and proofs about the cluster: types, no VM runs twice, what runs on an agent fits it | `Cluster`, `SchedulerProofs`, `SumProofs` |
| `PlacementProofs` | theorems and proofs about the choice of an agent | `Placement`, `SumProofs` |
| `VmConfigProofs` | theorems and proofs about the functions of `VmConfig` and the console history | `VmConfig`, `Console`, `SumProofs` |
| `SumProofs` | facts about sums over finite sets, folds over lists and recursive functions on indices | |
| `MC*` | symmetry sets, constant values and bounded inputs for TLC | |

### How they correspond to the code

*A handler is one action.* kameo gives a handler the actor exclusively until it
returns, awaits included, so what can interleave is messages, tasks and other
actors. The one loop that matters, `ReconcileVmPlacements`, is one step to start
and one step per VM (`todo`), because each iteration's decision depends on the
reservation of the previous one.

*State.* `agent` in `AgentActor` is the record of the struct's fields, plus the
ghost `log` (`log[r]` is the membership at revision `r`). `Scheduler` has one
variable per map of `SchedulerActor`. vCPUs and memory are accounted by the same
statements and are one number. A manifest is the size it asks for. The order of a
placement vector is never read, so it is a set; `OneEntryPerAgent` shows that a push
never meets an equal entry. The ages of entries are a flag `expired`, which `Expire`
may set at any time. A `None` placeholder in `vm_data_cache` is read by nothing but
its own removal and is left out.

*Environment.* `StatusSync` lets requests fail for as long as the network likes (a
failed request changes only the failure counter, so it is a stutter), the updater
give up at any moment, and the link break while the agent lives. An aborted task
either loses the answer in its hands or still delivers it. `Scheduler` accepts any
message content an agent or a VM actor can send, in any order: what holds there
does not depend on who sends what.

*`Cluster`* gives those messages their senders, and so can say what `Scheduler`
cannot: how what the scheduler believes relates to what runs. `watch` is the updater
task and the link of an actor. The stop message of an updater and the death of a link
lead to the same clean-up, so the first of them is one message, `Lost`. A report and a
link death come from two tasks of the swarm: the notice may be enqueued before a
report that was made earlier (`Overtakes`). Network faults (a lost or late request, a
lost reply, a failed lookup or send, a live actor taken for dead, a create not
confirmed within two minutes) and crashes have a budget each and one together
(`MaxFailures`), and the kinds of faults can be chosen (`FaultKind`); a create that reuses
the identifier of a deleted VM counts as a fault, and so does a restart of the scheduler
(`SchedulerRestarts`): all of its maps, its mailbox, its tasks and its links are gone,
the agents and most VM actors go on, and a VM actor that was linked may stop, because
`VMActor` has no `on_link_died` of its own. The ghost `clean` says that none of the
faults has happened and that no deleted VM got its manifest back.

*`VmHost`.* `on_start`, a handler and `on_stop` exclude each other in one actor, but
every await in them lets other actors, the VMM and the tasks act. So each await on the
VMM, the network actor or a command is a step: `inst[a].pc` walks through
`VMActor::on_start` and `VMInstance::spawn`, rests at `"run"`, and walks through
`destroy`. An API call goes to whichever process owns the socket name (`sock`), which
need not be the caller's child. The watcher, the migration receiver, the task that
tells `PrepMigration` and the console loop are fields of the actor, and the receiver
survives it. The VMM, the guest and the runtime's default on a lost link are external:
a new VMM takes the socket name over or exits, a VM can be created once, booting makes
the tap, powering off ends the process. `Fault` is a call that could have succeeded and
fails. The ghost `excuse` records why something was left behind, and `alone` says that
no second actor of the VM was alive at the same time and that nothing was left before.

*`VmConfig`, `Placement`.* Pure functions: a behaviour is one input (`input`, `request`)
that does not change, and the properties compare the functions with what they are for. In
the runs each input of a bounded set is an initial state of its own, so that a
counterexample is the input; in the theorems the sets are arbitrary. A URI is the record of
what the code distinguishes (does it parse, its scheme, is it complete, its target); a tap
name is a sequence of characters because the property is about which characters survive; a
score is an exact fraction, and `0/0` is the one value that compares as neither better nor
worse. Two scores are the same (`SameScore`) when neither is better, not when they are the
same pair of numbers: agents of different sizes may have equal headrooms.

*`Console`.* `ReadChunk` is one round of the reading task: a read of any chunk and the
whole of `push`, which holds the lock of the buffer. The loop that trims the ring is a
function from the number of rounds to the buffer. The ghost `output` is all that was read.

*`HostProcess`.* Each process has two threads of control: main, which creates and
writes the lock file, waits for the termination flag and drops the runtime and then the
guard; and the actors, which run until the runtime is dropped, without an `on_stop`. The
network actor's start is a step per call that changes the kernel, and the NAT rule is
fetched and applied in two. A restart is another process. Main's loop is left for one of
two reasons: the flag is set (`LeaveMainloop`), or `inner_main` has finished
(`InnerMainReturns`), which a failed registration makes it do while the agent is up.

## 3. Runs

| Run | Bounds | Shows |
|---|---|---|
| `sync` | 2 VMs, history 2; with a scheduler: 2 actor ids, size 1, 3 changes, mailbox 2, 1 loss unless an entry was replaced; an agent alone: 3 actor ids, sizes 1 and 2, 5 changes | the cached membership is the agent's at the cached revision; the cached usage is current when the revision is, unless a migration replaced an entry; the inductive invariant of the proof; refinement of `MembershipView`; the copy of a live agent catches up once changes and losses stop. Of the agent, also alone: usage is the sum over the listed VMs; an entry always refers to an actor that runs or whose death is still to be handled; an unlisted actor has been told to stop, unless a migration replaced its entry |
| `sync_departed` | 1 VM, 1 change, no loss of a live agent | expected violation, see section 6 |
| `scheduler` | 2 VMs with one actor each, 2 agents of capacity 2, usage 0 or 1 | intent, placements, pending totals, index and actor map stay consistent; over every bounded request and pair of agents, equal headrooms of different sizes among them, a VM is placed exactly when an agent can take it, and the order of the agents decides between equal scores only |
| `cluster` | 1 VM with 2 incarnations, 2 agents, mailbox 1, 1 failure: a crash, or an agent that lives is taken for dead | the VM never runs twice before such a loss; wanted VMs run in the end, and running VMs are adopted unless deleted, also when two copies run |
| `cluster_capacity` | 2 VMs with 3 incarnations, 1 agent with room for one, mailbox 1, 1 crash | running VMs fit the agent through creates, confirmations, restarts and deletes |
| `cluster_faults` | 1 VM with 2 incarnations, 1 agent, mailbox 2, 1 crash, 1 fault or restart of the scheduler | intent is realised and running VMs are adopted, unless deleted, after a fault or a restart too |
| `cluster_stale` | as `cluster_faults` | expected violation, see section 6 |
| `cluster_deleted` | as `cluster_faults`, no fault | expected violation, see section 6 |
| `cluster_ram` | 2 VMs, 1 agent with room for one, no fault | expected violation, see section 6 |
| `vm_host` | 2 actors of one VM, the first possibly a migration receiver, 2 disks, 1 fault; bounded manifests, ids and tables; 10 bytes of console output in chunks of 1 to 4, a spool of 3 | a VMM, directory or disk is left behind only for a cause that is named; a started VM is complete; an actor does not outlive its VMM; the pure functions of `VmConfig` and `Console` |
| `vm_host_rbd` | as `vm_host`; the violation is in an initial state | expected violation, see section 6 |
| `host_process` | 2 processes, of which the second may skip the lock file, both network modes, with and without DHCP | the lock excludes and is stale only for a named cause; the network set-up is exact after any history; a signal ends the process; dnsmasq does not outlast a dead network actor |

**Why the bounds are enough.** The history limit is 1 or 2 where the code has 256:
what matters is that a poll can come before, at and after the point where the
history no longer reaches back, which three changes over a history of two give; the
theorems cover all of this run's safety properties for every value of the bounds, so
its size goes to the liveness property. In half of the behaviours the agent is alone, as
before a scheduler starts, with the larger bounds that its accounting needs: a migration
can replace an entry by one of another size, and a third actor is another VM's. A
mailbox of two holds an update behind a link death, or a stop message behind an
update, which are the orders that hurt; with more losses only repetitions are
added. Three actor ids allow an old incarnation, its successor and another VM's
actor to exist at once. Two agents and two VMs let a VM have a Pending entry on one
agent beside a Running one on the other, and one reconciliation schedule both VMs
against each other for the last free unit. In `Cluster`, two agents let a VM be
recreated elsewhere, two incarnations let it be recreated once, one crash gives the
scheduler something to recover from, and the second VM of `cluster_capacity` takes the
unit that the first one leaves. A mailbox of one makes every message as stale as can
be but holds no two at once; that is what the mailbox of two in `cluster_faults` is
for, where a notice, a report and the restart of an updater meet. Two copies of a VM need
two agents and a fault, which `cluster` has: `FaultKind` restricts its faults to the one
that makes copies, the loss of an agent that can be reached (that of a VM actor is in
`cluster_faults`), and `MaxFailures` to one crash or loss; as agents can be renamed, it is
`x1` that fails if an agent does (`X2Lasts`). A larger instance (two agents,
any fault, mailbox of two, a crash and a fault) is beyond five minutes of TLC. Beside a
scheduler, a behaviour of `sync` has a replaced entry or a lost connection and not both.

In `vm_host` two actors are what it takes for an old one to meet its successor in every
phase of both; two disks let a transform or a release stop half way; one fault is every
single failure, and the early returns make a second one matter only to what the first
one left. The manifests vary one group of fields at a time around a valid one, with
counts on both sides of the integer limit and every combination of two disks' URIs; VM
ids differ in their last four characters only; a table of mapped images has up to three
rows, each with or without a namespace that is named like an image and with or without a
snapshot; the chunks of console output are shorter
than, equal to and longer than the spool of three. In `scheduler` the limits of the
integers are so small that sums saturate. In `host_process` a second process is a
restart, a rival or, without the lock file, a neighbour. The theorems remove the bounds
of the safety properties of `sync`, `scheduler`, `cluster`, `vm_host` and
`host_process`, except for what section 5 lists. They are stated of the specifications
without fairness (`AgentSpec`, `Spec`, `SchedSpec`, `ClusterSpec`, `VmSpec`, `HostSpec`,
`PlacementSpec`, `VmConfigSpec`, `ConsoleSpec`), which the specifications of the runs imply.

`CHECK_DEADLOCK FALSE` is set where the bounded counters let a behaviour end.

**Fairness** (`Fairness` in `StatusSync`). The discovery loop ticks every five seconds and never
ends, so `AgentActorDiscovered` is weakly fair; an updater polls every second and
its requests to a live agent are answered when the network works, so polls and tells
are weakly fair; the scheduler's mailbox is always drained; six failed requests to a
dead agent always come. Nothing is assumed of the agent's own changes, of link
deaths or of giving up on a live agent.

`ClusterFairness` assumes the same of the cluster: requests in flight to a live agent
are handled, actors told to stop stop, updaters report and notice the loss of what is
gone, reconciliations run (every five seconds) and time passes (weak fairness).
Discovery and the scheduler's mail are strongly fair: a reconciliation, which the
model starts at any time, disables them while it runs, but it is a message of the
same first-in first-out mailbox and returns. Clients, crashes and faults are not fair.

`VmFairness`: the runtime polls a task that is ready, so an actor that has a step to
take, or the task that watches its child, takes one. Nothing is assumed of the agent's
callers, of the VMM, of the guest or of the sender of a migration. `HostFairness`: main
is a thread of its own that looks at the termination flag again and again and then runs
its drops to the end, and the runtime polls the network and DHCP actors; nobody has to
send a signal, and no start has to succeed.

## 4. Properties

* `UsageIsSumOfMembers`, `EntryActorAccountedFor`, `UnlistedActorIsStopping`: the
  agent (`insert_vm`, `remove_vm`, `on_link_died`).
* `CacheIsAgentPast`, `UsageCurrentAtRevision`, `ViewSpec`, `EventuallyInSync`: the
  status protocol. They are about the membership, and about the usage as long as no
  migration has replaced an entry: after that the cached usage may stay old (section 6).
* `PlacementHasIntent`, `OneEntryPerAgent`, `PendingCacheCoherent`,
  `IndexWithinStatus`: the scheduler. "Correlated maps must be updated together"
  (`scheduler_actor.rs:134`) is what they make precise, with `DiscoveredActorMapped`, a part
  of the inductive invariant that is proved (`ActorsMapped`) and not among the runs' properties.
* `CleanSingleCopy`, `CleanWithinCapacity`: what the scheduler does to the cluster
  while no network fault happens; crashes are allowed.
* `IntentRealised`, `RunningAdopted`: where the cluster ends up after the last crash
  and fault. `IntentRealised` excepts two states that the code does not leave: a ghost
  (an actor that is gone, is watched by nobody and is still cached, so that a Pending
  placement of its VM never expires, `cache.rs:79`), and a stale placement
  (`cluster_stale`). Both are reachable in `cluster_faults`, without either exception TLC
  refutes the property there, and section 6 describes both. `RunningAdopted` excepts VMs
  that a client has deleted: `DeleteVM` tells
  one actor (`handlers.rs:207`), so of two copies, which a partition makes, the other
  runs on, and the only message with its manifest may have been handled before.
  Without the exception TLC refutes it in `cluster`. "Adopted" is having a
  manifest and no more: after a delete of one of two copies and a create under the same
  id, the old copy is known by the new manifest only.

* `PlacesWheneverPossible`, `ChoiceIndependentOfOrder`: the choice of an agent, against
  exact arithmetic. The second holds because `Deserialize` of a manifest far away keeps
  out the request of nothing, which would divide 0 by 0; its mutant drops that check.
* `LeakedVmmHasCause`, `MappedIsOwned`, `DestroyLeavesNothing`: what a VM leaves on its
  host. The causes in the first are the ways the code has of leaving a VMM behind: the
  console could not be attached at start, the `before_stop` hook or the shutdown of the
  VM failed, or `shutdown_vmm` itself did. Every other failed start kills its child.
* `RunningVmIsComplete`, `DeadVmmStopsActor`: an actor that counts as started has all of
  the VM, and does not stay when the VMM has ended, also when another actor's call or
  the receiver of a migration has ended it.
* `ReleaseFindsWhatWasResolved`, `ConvertedConfigInLimits`, `TapNamesFitAndDiffer`,
  `RbdReuseIsExactIfUnshadowed`, `HistoryIsTheTail`: the pure functions on the way of a
  manifest to a VM and back, and the console history. `ConvertedConfigInLimits` does not
  say that the VMM takes the configuration: one with a kernel and a firmware is in the
  limits and refused (section 6). `RbdReuseIsExactIfUnshadowed`
  compares the parsed table with what is really mapped, an image in no namespace and at
  no snapshot, for an image whose pool and name nothing else that is mapped shares; without
  that condition it is `RbdReuseIsExact`, which the code violates (section 6).
* `LockExcludes`, `StaleLockHasCause`, `NetworkUpIsExact`: "Only 1 instance of odorobo
  should run", and what processes that end anywhere leave to the next one.
* `TermEndsProcess`, `DeadNetworkStopsDhcp`: the liveness of `HostProcess`.

Every property of a passing run has a mutant in `PROJECT.json`: a plausible bug in a
modelled function under which TLC finds the property violated.

## 5. Proofs

`StatusSyncProofs` (assumptions: the sizes are natural numbers, the history limit is
at least one, the bounds are natural numbers, `NoVM` and `None` are not values of
the types they mark the absence of):

* `Invariance`, and from it `TypeCorrect`, `ProtocolCorrect`, `CacheCorrect`. The
  copy being the agent's past is not inductive: whether applying a delta gives the
  right membership depends on how it was cut and on what the cache holds when it is
  handled. The invariant `ProtocolInv` says, in this order: the history is the
  gapless tail of the changes (`HistoryIsTail`); a VM without a later change in it has
  the membership it has now, and the last change of a VM tells its membership
  (`HistoryExplainsLog`); therefore an update takes the membership at *any* revision
  between the one it starts from and its own to the membership at its own
  (`GoodUpdate`), which is what makes it harmless that the cache may be further
  along; and no delta in the mailbox, in the task's hands or still to be asked for can
  meet a cache older than its start (`NoGap`), because an initial request gives a
  full snapshot and a cleanup leaves no cache at all.
* `Refinement`: `Spec => ViewSpec`, every step is a step of `MembershipView` or a
  stutter.

`SchedulerProofs` (assumptions: the sizes and capacities are positive, an actor
belongs to one VM, agents and VM actors are different):

* `SchedInvariance`, and from it a theorem per property. `SchedInv` adds to the
  checked invariants `TodoUnplaced` (what the reconciliation loop still has to
  schedule has intent and no placement, so a failed send restores exactly what was
  there) and `ActorMapped`. `PlacementHasIntent` is what makes a create's entry the
  first one, and so `OneEntryPerAgent` inductive.

`StatusSyncProofs`, about the agent actor (the same assumptions):

* `AgentInvariance`, and from it `AgentTypeCorrect`, `EntriesAccountedFor` and
  `NoStrayActor`. An entry may be cleared or overwritten by a handler that was meant for
  another actor of the same VM only if two entries could refer to one actor;
  `ActorsApart` excludes it: an actor is spawned for one VM and is either alive or waiting
  to be reported dead.
* `UsageCurrent`: the cached usage agrees with the agent's at equal revisions. Each
  update in flight and each answer in an updater's hands has to agree as well
  (`UsageInFlight`), and a step of the agent that changes its usage and not its revision
  is the replacement of an entry by a migration, which is the exception of the property.
* `UsageIsSum`: the inductive form `SumOK` is that the listed VMs are finitely many and
  their sizes add up to the usage. An entry's size is then part of the sum, so the
  saturating subtraction of `insert_vm` and `remove_vm` never saturates.

`SumProofs` states what is needed of `MapThenSumSet`: its equation, its type, what adding
and removing an element does, that equal functions have equal sums, that a part of a set and
two sets that cover it bound its sum, that a one-to-one renaming keeps it. The induction theorems
of the library cannot be used (they take an operator), so each fact is shown on a minimal
counterexample, which the well-foundedness of the strict subsets of a finite set gives. In the
same way it states that a fold over the indices of a list exists for every step function
(`FoldExists`: a fold up to an index extends to the next one), that so does a recursive function
on indices (`RecExists`), and that a set of indices with 0 and closed under successors has them
all (`IndexInduction`, from the least element of a set of naturals). TLA+ defines such functions
by `CHOOSE`, so without existence nothing follows from their equations.

`VmHostProofs` (assumptions: the numbers of actors and of faults are natural numbers):

* `VmInvariance`, and from it `VmTypeCorrect`, `LeakCause`, `MappedOwned` and
  `RunningComplete`. `VmInv` says of each actor which messages its mailbox may hold in which
  phase of a migration (`MailOK`), that it has no process before it spawns one (`FreshOK`),
  and what it may rely on in each phase of its start and stop if it has the VM for
  itself (`AloneOK`: no other process can answer on the socket, storage is what it has mapped
  itself, what it could not stop is recorded). A step is reduced to the actor that
  takes it: the others keep their part because they are not alone, or because nothing they
  rely on has changed (`StepOK`).
* `DestroyClean`: an action property from the same invariant; the only step into `"gone"`
  without a recorded failure is the purge at the end of `destroy`.

`HostProofs` (assumptions: what skips the lock file are sets of processes, `Nobody` is not
a process):

* `HostInvariance`, and from it `HostTypeCorrect`, `LockExclusion`, `StaleLockCause` and
  `NetworkExact`. Exclusion is not inductive: a guard that is dropped removes the file
  whoever created it. `LockOwned` says that a process past the lock that did not skip it
  owns the file, and that guards belong to such processes only. For the NAT
  rule, which is fetched and applied in two steps, `RuleAddedOnce` says that the ruleset a
  process has decided on is still current when it applies its batch, unless a process without
  the lock file has started.

`ClusterProofs` (assumptions: those of `SchedulerProofs`, and that the bounds are natural
numbers):

* `ClusterTypes` and `ClusterTypeCorrect`: the scheduler's part of every step of the cluster
  is a handler of `Scheduler` applied to a message that its sender can send, so the lemmas of
  `SchedulerProofs` carry over.
* `SingleCopy`: while `clean` holds, no VM runs twice. The property depends on everything
  between the scheduler and the agents; `CleanOK` says
  * a VM that was never created has left no trace (`FreshVM`), and a deleted one has no
    intent and only actors that are told to stop (`DeletedVM`);
  * a VM has at most one claim, which is a running actor or a create request on its way to a
    running agent (`SingleClaim`);
  * a running agent that is watched sends one full report, its first, and nothing is placed on
    it before that is handled (`WatchedAgent`);
  * every claim on a running agent has a placement there that no message in the mailbox takes
    back wrongly (`Accounted`): a report that drops a VM that runs there, or that a later report
    adds, is about an earlier actor, and nothing before it confirms the entry it would take
    back (`DropsStale`, `AddsAfterDrop`); a requested VM is on no report yet
    (`RequestUnseen`); and an expired Pending entry has no claim (`ExpiredUnclaimed`).

  A reconciliation schedules a VM without a placement, which therefore has no claim. Most
  steps are quiet (`QuietStep`): they add no claim, no report and no entry, and keep `CleanOK`
  by one lemma; the handlers that do have a lemma each. TLC checked `CleanInv` on instances
  larger than the runs' before it was proved (two agents with two incarnations, a mailbox of
  three and two crashes; three incarnations on one agent; two VMs).

`ClusterProofs`, about capacity (the same assumptions):

* `WithinCapacity`: while `clean` holds, the VMs that run on an agent fit it. The scheduler
  adds up two things that it learns at different times: the usage an agent last reported, and
  the reservations it has not seen confirmed. `CapacityOK`, on top of `CleanOK`, says that they
  never miss a VM:
  * every actor and every request of a VM has the size of its manifest (`SizesAgree`), and a
    deleted VM has no claim on a running agent (`DeletedIdle`);
  * a VM that runs is reported at most once: while its report is to come or on its way, it is
    not in the index and nothing later in the mailbox is about it (`ReportedOnce`);
  * the usage of a report counts what runs and has not changed since the report was made
    (`ReportsCount`), so that the cached usage counts what runs and is in the index
    (`CacheCounts`);
  * the claims on a running agent fit it (`Fits`).

  By `Accounted` a claim that is not in the index has a Pending placement, so every claim is
  counted by the cached usage or by the reservations (`ClaimsCounted`), and an agent that
  `schedule_agent` chooses has room for one more (`ChosenHasRoom`). An agent sums over
  its actors and the scheduler over its manifests; the two sums agree because of `SingleClaim`
  (`RunningCounted`). The theorem is about actors that run: one that is told to stop loses its
  reservation at once (`cluster_ram`, section 6). TLC checked the invariant on instances with
  two agents and two sizes, with three incarnations on one agent, and with two VMs.

`PlacementProofs` (assumptions: the ranges of the integers contain 0; sizes are natural
numbers and weights integers of any size; twice an agent's number of vCPUs is less than
`u32::MAX` and its memory less than `u64::MAX`, so that the capacity itself does not saturate -
the requests, the usage and the totals still may):

* `PlacedExactlyWhenPossible`, for any number of agents in any order: `best_agent` is a fold
  over the agents, and after the first `k` of them (`BestAfter`) it holds one that can take the
  request, or no agent when none of them can, and none of them is better. A sum that saturates is
  above every capacity, so `has_capacity` decides as exact arithmetic would
  (`UnacceptableRejected`, `AcceptableScored`). The request asks for something, which `validate`
  makes sure of, so the denominator of a score is positive; an affinity total that saturates at
  `i64::MIN` is as low as that of `REJECTED`, and then the headroom, which is not negative, decides
  (`AcceptableBeatsRejected`).
* `OrderDecidesTiesOnly`, for any two sequences of the same agents: "not worse" is transitive on
  scores with positive denominators (cross multiplication), so the best of one sequence is not
  beaten by the best of the other.
* `PlacementExact` and `OrderIrrelevant` are the properties the `scheduler` run checks, from these.
  The attempt to prove the second with equality of records failed for a good reason: two agents may
  have equal headrooms written as different fractions, which the run's agents did not have. The
  property now compares scores by value, and the run has such agents.

`VmConfigProofs` (assumptions: the numbers of a manifest are natural numbers, its disks a list;
ids are sequences over the alphabet of the model, and a VM id has at least four characters, where
a ULID has 26; the sets of ids are finite; a chunk is a
sequence of bytes; the spool holds at least one byte):

* `ConversionInLimits`: validation and the checked conversions leave no manifest without a payload
  or with a number out of range, and the default firmware is not added to a kernel.
* `ReleaseExact`, for any number of disks: what `resolve` attached for a disk is what `release`
  finds for it, because the transform keeps the URI in the `id` of a disk whose path it rewrites;
  a disk after the first that fails is not touched.
* `TapNames`: the suffix of the sanitized id is the sanitized suffix, the parts have fixed places in
  the name, and nothing is cut at its end. The names of a finite set of pairs are then as many as
  the pairs of kept suffixes.
* `RbdReuse`: a printed row has five columns or, with a namespace, six, and `rbd_lines_list` reads
  pool, image and device off both (`MatchesAreNamed`). So the lines that match are those of the
  rows with the pool and the name, which are the image's own if nothing else has them.
* `HistoryTail`, for any spool and any chunks. `ConsoleIInv` says that the buffer has its count
  right and holds the last bytes of the output (`Spools`), no more than fit. A round of the loop
  keeps the first part and ends the loop or pops a chunk (`TrimOnceSpools`), so after one round more
  than there are chunks the loop has ended (`TrimSpools`); in particular the branch that resets the
  count of an empty ring is never taken. Cutting the chunk and what was there before it to the
  size of the spool loses none of the last bytes (`LastOfCutBack`, `LastOfCutFront`).

**Only model-checked.**

* Liveness is out of the prover's reach: `EventuallyInSync`, `IntentRealised`,
  `RunningAdopted`, `DeadVmmStopsActor`, `TermEndsProcess`, `DeadNetworkStopsDhcp`.

## 6. Findings

`sync_departed`: a full status update that is handled after the link death of its
agent is taken for the first snapshot of a new agent (`discovery.rs:298`). The dead
agent is in `agent_data_cache` again, with its VMs in the index, and neither an
updater nor a link is left to remove it; new VMs can be scheduled to it.
`handlers.rs:24` says "Losing an agent removes its placements" and `cache.rs:229`
"removes all cache state owned by a departed agent".

`cluster_stale`: a full status that omits a VM keeps its Running placement when the
placement is younger than 30 s (`cache.rs:402`). Nothing looks at it again: the
following answers are deltas without a change and are ignored (`discovery.rs:326`). The
placement stays, so the VM, which is gone, is never recreated. `cache.rs:18` says
"Previously observed VMs are expired promptly when repeated status updates omit them."

`cluster_deleted`: a `VmUpdated` that is in the mailbox when a delete is handled gives
the VM its manifest back (`discovery.rs:265`), and reconciliation recreates it.
`cache.rs:153` says "so reconciliation cannot recreate a VM after an explicit stop or
delete request".

`cluster_ram`: a delete takes the reservation back although the VM still runs; if the
agent's status does not list it yet, its memory is counted nowhere and is given to the
next VM. `scheduling.rs:111` says "RAM is not overprovisioned. Pending placements
reserve their requested resources until agent status confirms them".

`vm_host_rbd`: `rbd_lines_list` keeps pool and image of a mapped row and drops namespace
and snapshot (`rbd.rs:67-75`). With `pool/ns/image` or `pool/image@snap` mapped, `map`
takes `pool/image` for mapped and does not map it (`rbd.rs:105`), and the fallback of
`resolve`, taken on a host without the udev rule, gives the VM the device of the other
image (`rbd.rs:193-205`). `rbd.rs:100` says "Maps the RBD image to a kernel block device.
If already mapped, this is a no-op."

**Behaviours the models show that no run reports.** They are steps of the models and
exceptions of the properties, where a reader should know of them:

* `ch_driver/manifest.rs:76-80` says "Direct kernel boot must not set a firmware, or Cloud
  Hypervisor rejects the config". Only the default firmware is left out for a kernel
  (`manifest.rs:74`): a manifest that names both is valid, is converted with both and passes
  the path check, so that its create fails at the VMM. `MCManifest` has such manifests, and
  `ConvertedConfigInLimits` holds of them.
* `docs/networking.md:32` gives `vmtap-7mhwt-vnet`, 16 characters, as the tap of VM
  `01KPB9AMVWXC2D1PF4W6E7MHWT` on `devnet`. The code keeps four characters of the VM id and
  four of the network id, which with the prefix are Linux's 15 (`networking.rs:94`), and its
  test at `networking.rs:163` asserts `vmtap-mhwt-vnet`: the documentation is wrong, and
  `TapNamesFitAndDiffer` states what the code does. The same test keeps `net://` in the
  device id, which the documentation says is removed.
* A migration received for a VM that the agent already lists changes the agent's usage and
  not its revision (`agent_actor.rs:70`), and the scheduler ignores every status of a revision
  it has (`discovery.rs:326`). It places VMs by the old usage until the membership changes,
  although `scheduler_actor.rs:139` calls the cache the "Latest status snapshot for each known
  agent, used for scheduling decisions". TLC finds it in a few steps without the exception
  `replaced` of `UsageCurrentAtRevision`, with one VM of two sizes.
* A `VmUpdated` that a VM actor has sent before it died can be handled after the notice of
  its loss, and caches the actor again, which nobody watches any more. As long as an actor
  of a VM is cached, no Pending placement of the VM expires (`cache.rs:79`); a VM that dies
  before its agent has reported it leaves such a placement, and is waited for forever.
  `cache.rs:56` says "Pending entries expire after two minutes. The five-second discovery
  loop triggers this maintenance." (`GhostCached`)
* A VM with `boot.start = false` has no tap, so `DetachTap` in its `before_stop` hook
  fails and `destroy` returns early: VMM, directory and storage stay. The comment at
  `ch_driver/instance.rs:433` is "Gracefully shutdown the VM and VMM, then clean up
  runtime state." (`BeforeStop`; the cause `"hook"` of `LeakedVmmHasCause`.)
* A create whose transform fails half way keeps the disks it has mapped:
  `vm_config` is set afterwards (`instance.rs:535`), and `on_stop` does not run after a
  failed `on_start`. `prep_config` sets it before, which is what `MappedIsOwned` needs.
* The receiver of a migration shuts the VMM down after it has received the VM
  (`instance.rs:229`); the watcher then stops the actor (`ReceiverShutsDown`).
* A VM actor whose entry a migration has replaced is neither told to stop nor found again by
  the agent (`agent_actor.rs:212`); the exception `replaced` of `UnlistedActorIsStopping`.
* An agent that is cut off from the scheduler keeps its VMs running while they are placed
  on another agent (`cache.rs:201`); nothing fences the first copy. `DeleteVM` then tells
  one of the copies (`handlers.rs:207`) and the other runs on, without a manifest if the
  client does not create the VM again; it is registered, so a second delete finds it.
  `CleanSingleCopy` is about the time before any such fault, and `RunningAdopted` excepts
  deleted VMs.
* Two networks of a VM whose ids end in the same four characters get one tap name
  (`TapNamesFitAndDiffer` says exactly when).
* A bridge that exists and is down is used as it is (`actor_linux.rs:370`), so `HostProcess`
  has no state for "up".
* `VMActor` has no `on_link_died`: what the runtime does by default when a linked
  scheduler is lost stops it (`LinkDied`, `SchedulerRestarts`).

## 7. Not modelled

Formatting, logging, HTTP, the encodings of netlink and nftables messages and of
command lines (I/O); the registry and the swarm of kameo and libp2p beyond what the
scheduler sees of them; the stubs (`ip_management_actor.rs`, `storage_actor.rs`,
`serial_terminal_websocket_actor.rs`); `odoroboctl` and the HTTP handlers, which forward
a request each; the reading of the configuration; the live console broadcast.

Of the VM instance: pause, resume, `send_migration`, `acpi_power_button`, loading, saving
and deleting a stored configuration and `call_request` have no caller in the actors that
changes a VM. `schedule_agents` and the parsing of an iSCSI device path are not called.

## 8. Plan

1. Larger instances of `Cluster`: two agents with a mailbox of two, a crash and a fault.
2. `Cluster` and `VmHost` together: the VM actor's start as several steps under the
   scheduler's retries.
