-------------------------------- MODULE VmHost --------------------------------
(***************************************************************************)
(* One VM on one host: the VM actors spawned for it one after the other    *)
(* (ch_driver/actor.rs), the VMM process each of them starts and drives    *)
(* through the API socket (ch_driver/instance.rs), and what they share     *)
(* because every path is derived from the VM's id: the runtime directory,  *)
(* the socket name in it, and the mapped storage.                          *)
(*                                                                         *)
(* An API call goes to whichever process owns the socket name, which need  *)
(* not be the caller's own child.  Every await on the VMM, the network     *)
(* actor or a command is a step of its own.                                *)
(*                                                                         *)
(* Abstractions: the VM's taps are one tap (a loop over them stops at the  *)
(* first error); the ping attempts are one ping that may be retried and    *)
(* may time out; a manifest is the choice of `boot` and whether it         *)
(* converts, and it names at least one network.                            *)
(***************************************************************************)
EXTENDS Integers, Sequences, FiniteSets

CONSTANTS
    Receivers,      \* the actors among them that may be migration receivers
    MaxActors,      \* bound: VM actors spawned for the VM in a behaviour
    Disk,           \* disks of the VM's manifest
    MaxFaults       \* bound: calls to the outside that fail for their own reasons

ASSUME MaxActorsAssumption == MaxActors \in Nat
ASSUME MaxFaultsAssumption == MaxFaults \in Nat

Actor == 1 .. MaxActors     \* numbered in the order they are spawned
NoActor == 0

VARIABLES
    inst,       \* the VM actors: VMActor, its VMInstance and its tasks
    vmm,        \* the VMM process each of them started
    dir,        \* the runtime directory exists
    sock,       \* whose process the API socket in it leads to
    mapped,     \* storage mapped on the host
    listed,     \* the actor in the agent's entry for the VM
    asking,     \* the actor whose reply the agent's handler awaits
    faults      \* such failures so far (bounded by MaxFaults)

agentVars == <<listed, asking>>
vmVars == <<inst, vmm, dir, sock, mapped, listed, asking, faults>>

Starting == {"spawn", "ping", "transform", "create", "boot", "after_boot",
             "attach"}
Stopping == {"info", "hook", "shutdown", "vmm", "purge"}
Settled == {"gone", "failed"}
Alive == Starting \cup {"run"} \cup Stopping

\* Why something may be left behind (ghost): the call that failed.
Excuse == {"start", "console", "hook", "shutdown", "vmm", "purge"}

Message == {"Migrate", "Prep", "Finished", "Delete", "Stop"}

Instance == [pc : {"unborn", "run"} \cup Starting \cup Stopping \cup Settled,
             kind : {"create", "receive"},
             boot : BOOLEAN,            \* desired.boot.start
             mailbox : Seq(Message),
             config : BOOLEAN,          \* vm_config is Some
             seen : {"created", "running"}, \* VmInfo.state read by destroy
             watched : BOOLEAN,         \* the watcher task waits for the child
             migrating : BOOLEAN,       \* migration_state is Some
             receiver : {"none", "waiting", "received", "done"},
             prep : BOOLEAN,            \* the task telling PrepMigration
             console : {"none", "retry", "attached"},
             excuse : SUBSET Excuse,    \* ghost
             alone : BOOLEAN]           \* ghost: no other actor, no leftovers

Vmm == [proc : {"none", "starting", "up", "exited", "crashed"},
        vm : {"none", "created", "running"},
        tap : {"none", "free", "attached", "up"}]

Unborn == [pc |-> "unborn", kind |-> "create", boot |-> FALSE,
           mailbox |-> <<>>, config |-> FALSE, seen |-> "created",
           watched |-> FALSE, migrating |-> FALSE, receiver |-> "none",
           prep |-> FALSE, console |-> "none", excuse |-> {}, alone |-> FALSE]

NoVmm == [proc |-> "none", vm |-> "none", tap |-> "none"]

VmInit ==
    /\ inst = [a \in Actor |-> Unborn]
    /\ vmm = [a \in Actor |-> NoVmm]
    /\ dir = FALSE
    /\ sock = NoActor
    /\ mapped = {}
    /\ listed = NoActor
    /\ asking = NoActor
    /\ faults = 0

-----------------------------------------------------------------------------
(* The VMM process and the API socket (external).                          *)

\* A call that could succeed fails for reasons of its own; one that cannot
\* succeed fails anyway.  Bound: such failures happen while one actor is alive.
Fault ==
    /\ faults < MaxFaults
    /\ Cardinality({a \in Actor : inst[a].pc \in Alive}) <= 1
    /\ faults' = faults + 1
Fails(possible) == IF possible THEN Fault ELSE UNCHANGED faults

Running(a) == vmm[a].proc \in {"starting", "up"}

\* A connection to the socket name reaches the process of actor o.
Reaches(o) == sock = o /\ vmm[o].proc = "up"
Answers == \E o \in Actor : Reaches(o)
\* It answers, and its VM is in one of these states.
Holds(o, states) == Reaches(o) /\ vmm[o].vm \in states
AnswersWith(states) == \E o \in Actor : Holds(o, states)

Dead(how) == [proc |-> how, vm |-> "none", tap |-> "none"]

\* The new process takes the socket name over, or exits because it is taken
\* or its directory is gone.
VmmBinds(a) ==
    /\ vmm[a].proc = "starting"
    /\ \/ /\ dir
          /\ sock' = a
          /\ vmm' = [vmm EXCEPT ![a].proc = "up"]
       \/ /\ ~dir \/ sock # NoActor
          /\ vmm' = [vmm EXCEPT ![a] = Dead("crashed")]
          /\ UNCHANGED sock
    /\ UNCHANGED <<inst, dir, mapped, agentVars, faults>>

\* The guest powers itself off: the VMM exits with success.
GuestPowersOff(a) ==
    /\ vmm[a].proc = "up" /\ vmm[a].vm = "running"
    /\ vmm' = [vmm EXCEPT ![a] = Dead("exited")]
    /\ UNCHANGED <<inst, dir, sock, mapped, agentVars, faults>>

VmmCrashes(a) ==
    /\ Running(a)
    /\ Fault
    /\ vmm' = [vmm EXCEPT ![a] = Dead("crashed")]
    /\ UNCHANGED <<inst, dir, sock, mapped, agentVars>>

-----------------------------------------------------------------------------
(* The agent's side (actors/agent_actor.rs).                               *)

\* A message behind the stop signal is never handled.
Enqueue(mailbox, msg) ==
    IF \E i \in DOMAIN mailbox : mailbox[i] = "Stop" THEN mailbox
    ELSE Append(mailbox, msg)

Tell(a, msg) ==
    IF inst[a].pc \in Starting \cup {"run"}
    THEN [inst EXCEPT ![a].mailbox = Enqueue(@, msg)]
    ELSE inst

\* Another actor appears: whoever is alive no longer has the host's resources
\* for itself, and neither has the new one if something is left.
Spawned(a, kind, boot, mailbox) ==
    [b \in Actor |->
        IF b = a
        THEN [Unborn EXCEPT !.pc = "spawn", !.kind = kind, !.boot = boot,
                            !.mailbox = mailbox,
                            !.alone = /\ ~dir /\ mapped = {}
                                      /\ \A c \in Actor : /\ inst[c].pc \notin Alive
                                                          /\ ~Running(c)]
        ELSE IF inst[b].pc \in Alive THEN [inst[b] EXCEPT !.alone = FALSE,
                                                        !.excuse = {}]
        ELSE inst[b]]

NextActor(a) == inst[a].pc = "unborn" /\ \A b \in 1 .. a - 1 : inst[b].pc # "unborn"

\* CreateVM of a VM the agent has no entry for: spawn_link and insert_vm.
AgentCreateVM(a) ==
    /\ asking = NoActor
    /\ listed = NoActor
    /\ NextActor(a)
    /\ \E boot \in BOOLEAN : inst' = Spawned(a, "create", boot, <<>>)
    /\ listed' = a
    /\ UNCHANGED <<vmm, dir, sock, mapped, asking, faults>>

\* MigrateVMReceive spawns an actor whatever entry there is and awaits its
\* reply.
AgentMigrateVMReceive(a) ==
    /\ a \in Receivers
    /\ asking = NoActor
    /\ NextActor(a)
    /\ inst' = Spawned(a, "receive", FALSE, <<"Migrate">>)
    /\ listed' = a
    /\ asking' = a
    /\ UNCHANGED <<vmm, dir, sock, mapped, faults>>

\* DeleteVM removes the entry, then tells its actor.
AgentDeleteVM ==
    /\ asking = NoActor
    /\ listed # NoActor
    /\ inst' = Tell(listed, "Delete")
    /\ listed' = NoActor
    /\ UNCHANGED <<vmm, dir, sock, mapped, asking, faults>>

\* ShutdownVM tells the registered actor; the entry stays.  The VM actor
\* handles it as it handles DeleteVM.  Bound: it is sent to an actor that has
\* started and has no message waiting.
AgentShutdownVM(a) ==
    /\ asking = NoActor
    /\ inst[a].pc = "run" /\ inst[a].mailbox = <<>>
    /\ inst' = Tell(a, "Delete")
    /\ UNCHANGED <<vmm, dir, sock, mapped, agentVars, faults>>

\* on_link_died removes the entry of the dead actor.
AgentLinkDied(a) ==
    /\ asking = NoActor
    /\ listed = a /\ inst[a].pc \in Settled
    /\ listed' = NoActor
    /\ UNCHANGED <<inst, vmm, dir, sock, mapped, asking, faults>>

\* The ask of MigrateVMReceive fails because the actor is gone: its entry is
\* removed, and killing it has no effect.
AgentAskFails(a) ==
    /\ asking = a /\ inst[a].pc \in Settled
    /\ asking' = NoActor
    /\ listed' = IF listed = a THEN NoActor ELSE listed
    /\ UNCHANGED <<inst, vmm, dir, sock, mapped, faults>>

-----------------------------------------------------------------------------
(* on_start: VMInstance::spawn, the console, the watcher.                  *)

\* What is left of an actor: the receiver task, which acts without it.  (The
\* console retry loop also outlives the actor; it changes nothing modelled.)
Remains(a, pc, excuse) ==
    [Unborn EXCEPT !.pc = pc, !.excuse = excuse, !.alone = inst[a].alone,
                   !.receiver = inst[a].receiver]

\* on_stop begins: nothing more of the mailbox is handled.  What no later step
\* reads is forgotten: a task that tells the actor something tells it in vain.
BeginStop(a) ==
    [Remains(a, "info", inst[a].excuse) EXCEPT !.config = inst[a].config,
                                               !.watched = inst[a].watched]

Because(a, why) == IF inst[a].alone THEN inst[a].excuse \cup {why} ELSE {}

\* Mutant: the child is left alone when the start fails.
StopChildNever(a) == UNCHANGED vmm

\* stop_child_after_failed_start: the child is killed and reaped.
StopChild(a) == vmm' = [vmm EXCEPT ![a] = NoVmm]

\* on_start returns an error; on_stop is not run.
Failed(a, why) == [inst EXCEPT ![a] = Remains(a, "failed", Because(a, why))]

\* to_vm_config, then the runtime directory and the child process: each may
\* fail, and what was done before stays.
SpawnVmm(a) ==
    /\ inst[a].pc = "spawn"
    /\ \/ /\ dir' = TRUE
          /\ vmm' = [vmm EXCEPT ![a] = [NoVmm EXCEPT !.proc = "starting"]]
          /\ inst' = [inst EXCEPT ![a].pc = "ping"]
          /\ UNCHANGED faults
       \/ /\ inst[a].kind = "create"
          /\ inst' = Failed(a, "start")
          /\ UNCHANGED <<vmm, dir, faults>>
       \/ /\ Fault
          /\ dir' \in {dir, TRUE}
          /\ inst' = Failed(a, "start")
          /\ UNCHANGED vmm
    /\ UNCHANGED <<sock, mapped, agentVars>>

\* An actor that has a manifest goes on to create_config, a receiver is up.
PingAnswered(a) ==
    /\ inst[a].pc = "ping"
    /\ Answers
    /\ inst' = IF inst[a].kind = "create"
               THEN [inst EXCEPT ![a].pc = "transform"]
               ELSE [inst EXCEPT ![a].pc = "run", ![a].watched = TRUE]
    /\ UNCHANGED <<vmm, dir, sock, mapped, agentVars, faults>>

\* MAX_ATTEMPTS pings without an answer.
PingTimesOut(a) ==
    /\ inst[a].pc = "ping"
    /\ Fails(Answers)
    /\ inst' = Failed(a, "start") /\ StopChild(a)
    /\ UNCHANGED <<dir, sock, mapped, agentVars>>

\* The storage transform maps the disks in order until one fails; a later
\* transform may still refuse the configuration.  vm_config is set last.
Transform(a) ==
    /\ inst[a].pc = "transform"
    /\ \/ /\ mapped' = mapped \cup Disk
          /\ inst' = [inst EXCEPT ![a].pc = "create", ![a].config = TRUE]
          /\ UNCHANGED vmm
       \/ /\ \E done \in SUBSET Disk : mapped' = mapped \cup done
          /\ inst' = Failed(a, "start") /\ StopChild(a)
    /\ UNCHANGED <<dir, sock, agentVars, faults>>

\* create_vm: a VMM holds one VM, and creating stores its configuration.
CreateVm(a) ==
    /\ inst[a].pc = "create"
    /\ \/ \E o \in Actor :
             /\ Holds(o, {"none"})
             /\ vmm' = [vmm EXCEPT ![o].vm = "created"]
             /\ inst' = [inst EXCEPT ![a].pc =
                             IF inst[a].boot THEN "boot" ELSE "attach"]
             /\ UNCHANGED faults
       \/ /\ Fails(AnswersWith({"none"}))
          /\ inst' = Failed(a, "start") /\ StopChild(a)
    /\ UNCHANGED <<dir, sock, mapped, agentVars>>

\* info and boot_vm: the VMM creates the tap.
BootVm(a) ==
    /\ inst[a].pc = "boot"
    /\ \/ \E o \in Actor :
             /\ Holds(o, {"created"})
             /\ vmm' = [vmm EXCEPT ![o].vm = "running", ![o].tap = "free"]
             /\ inst' = [inst EXCEPT ![a].pc = "after_boot"]
             /\ UNCHANGED faults
       \/ /\ Fails(AnswersWith({"created"}))
          /\ inst' = Failed(a, "start") /\ StopChild(a)
    /\ UNCHANGED <<dir, sock, mapped, agentVars>>

\* Mutant: the tap is put on the bridge and not brought up.
AttachTapDown(o) == [vmm EXCEPT ![o].tap = "attached"]

\* AttachTap: the controller, then the link up.
AttachTap(o) == [vmm EXCEPT ![o].tap = "up"]

\* info and the after_boot hook.  A failing AttachTap leaves the tap free, or
\* on the bridge and down, and takes the start with it.
AfterBoot(a) ==
    /\ inst[a].pc = "after_boot"
    /\ \/ \E o \in Actor :
             /\ Holds(o, {"running"})
             /\ \/ /\ vmm' = AttachTap(o)
                   /\ inst' = [inst EXCEPT ![a].pc = "attach"]
                   /\ UNCHANGED faults
                \/ /\ Fault
                   /\ \E tap \in {"free", "attached"} :
                         vmm' = [vmm EXCEPT ![o].tap = tap, ![a] = NoVmm]
                   /\ inst' = Failed(a, "start")
       \/ /\ Fails(AnswersWith({"running"}))
          /\ inst' = Failed(a, "start") /\ StopChild(a)
    /\ UNCHANGED <<dir, sock, mapped, agentVars>>

\* The console socket is served while a VM is created.
ConsoleReachable == AnswersWith({"created", "running"})

\* take_child_process and the watcher task; on_start returns the actor.
Started(a) ==
    [inst EXCEPT ![a].pc = "run", ![a].console = "attached",
                 ![a].watched = TRUE]

\* attach_socket; when it fails on_start returns with the child dropped, which
\* does not kill it.
AttachConsole(a) ==
    /\ inst[a].pc = "attach"
    /\ \/ ConsoleReachable /\ inst' = Started(a) /\ UNCHANGED faults
       \/ Fails(ConsoleReachable) /\ inst' = Failed(a, "console")
    /\ UNCHANGED <<vmm, dir, sock, mapped, agentVars>>

\* Mutant: only an unsuccessful exit of the child ends the actor.
WatcherSeesCrashOnly(a) ==
    /\ inst[a].watched /\ vmm[a].proc \in {"exited", "crashed"}
    /\ inst' = IF vmm[a].proc = "crashed" /\ inst[a].pc = "run"
               THEN [inst EXCEPT ![a] = [BeginStop(a) EXCEPT !.watched = FALSE]]
               ELSE [inst EXCEPT ![a].watched = FALSE]
    /\ vmm' = [vmm EXCEPT ![a] = NoVmm]
    /\ UNCHANGED <<dir, sock, mapped, agentVars, faults>>

\* The child exits and is reaped: stop_gracefully queues behind the mailbox, kill
\* does not wait for it.
Watcher(a) ==
    /\ inst[a].watched /\ vmm[a].proc \in {"exited", "crashed"}
    /\ inst' = IF inst[a].pc # "run" THEN [inst EXCEPT ![a].watched = FALSE]
               ELSE IF vmm[a].proc = "exited"
               THEN [inst EXCEPT ![a].watched = FALSE,
                                 ![a].mailbox = Enqueue(@, "Stop")]
               ELSE [inst EXCEPT ![a] = [BeginStop(a) EXCEPT !.watched = FALSE]]
    /\ vmm' = [vmm EXCEPT ![a] = NoVmm]
    /\ UNCHANGED <<dir, sock, mapped, agentVars, faults>>

-----------------------------------------------------------------------------
(* Message handlers of the VM actor.                                       *)

Handles(a, msg) ==
    /\ inst[a].pc = "run"
    /\ inst[a].mailbox # <<>> /\ Head(inst[a].mailbox) = msg

Rest(a) == Tail(inst[a].mailbox)

\* Mutant: the receiver is started and not recorded in migration_state.
MigrationUntracked(a) ==
    [inst EXCEPT ![a].mailbox = Rest(a), ![a].receiver = "waiting",
                 ![a].console = "retry", ![a].prep = TRUE]

\* The receiver, the console retry loop and the task telling PrepMigration are
\* started, and migration_state is set.
MigrationStarted(a) ==
    [inst EXCEPT ![a].mailbox = Rest(a), ![a].migrating = TRUE,
                 ![a].receiver = "waiting", ![a].console = "retry",
                 ![a].prep = TRUE]

\* MigrateVMReceive: a manifest that does not convert or no free port is
\* replied as an error, and the agent removes its entry and kills the actor.
HandleMigrate(a) ==
    /\ Handles(a, "Migrate")
    /\ asking' = NoActor
    /\ \/ /\ inst' = MigrationStarted(a)
          /\ UNCHANGED listed
       \/ /\ inst' = [inst EXCEPT ![a] = BeginStop(a)]
          /\ listed' = IF listed = a THEN NoActor ELSE listed
    /\ UNCHANGED <<vmm, dir, sock, mapped, faults>>

TellPrep(a) ==
    /\ inst[a].prep
    /\ inst' = [Tell(a, "Prep") EXCEPT ![a].prep = FALSE]
    /\ UNCHANGED <<vmm, dir, sock, mapped, agentVars, faults>>

\* The loop tries once a second until the received VM serves its console.
ConsoleRetry(a) ==
    /\ inst[a].console = "retry"
    /\ ConsoleReachable
    /\ inst' = [inst EXCEPT ![a].console = "attached"]
    /\ UNCHANGED <<vmm, dir, sock, mapped, agentVars, faults>>

\* Mutant: vm_config is set after the transform, as create_config does.
PrepConfigLast(a, ok) == ok

\* prep_config sets vm_config before it transforms.
PrepConfig(a, ok) == TRUE

HandlePrep(a) ==
    /\ Handles(a, "Prep")
    /\ \E ok \in BOOLEAN, done \in SUBSET Disk :
          /\ ok => done = Disk
          /\ mapped' = mapped \cup done
          /\ inst' = [inst EXCEPT ![a].mailbox = Rest(a),
                                  ![a].config = PrepConfig(a, ok)]
    /\ UNCHANGED <<vmm, dir, sock, agentVars, faults>>

\* vm_receive_migration_put returns: the VMM runs the received VM, which it
\* can only restore with its disks there, or the migration has failed.
ReceiverReturns(a) ==
    /\ inst[a].receiver = "waiting"
    /\ \/ \E o \in Actor :
             /\ Reaches(o) /\ vmm[o].vm = "none" /\ mapped = Disk
             /\ vmm' = [vmm EXCEPT ![o].vm = "running", ![o].tap = "free"]
             /\ inst' = [inst EXCEPT ![a].receiver = "received"]
       \/ /\ inst' = [inst EXCEPT ![a].receiver = "done"]
          /\ UNCHANGED vmm
    /\ UNCHANGED <<dir, sock, mapped, agentVars, faults>>

\* The receiver task shuts the VMM down after a successful migration.
ReceiverShutsDown(a) ==
    /\ inst[a].receiver = "received"
    /\ inst' = [inst EXCEPT ![a].receiver = "done"]
    /\ \/ \E o \in Actor : /\ Reaches(o)
                           /\ vmm' = [vmm EXCEPT ![o] = Dead("exited")]
                           /\ UNCHANGED faults
       \/ Fails(Answers) /\ UNCHANGED vmm
    /\ UNCHANGED <<dir, sock, mapped, agentVars>>

TellFinished(a) ==
    /\ inst[a].receiver = "done"
    /\ inst' = [Tell(a, "Finished") EXCEPT ![a].receiver = "none"]
    /\ UNCHANGED <<vmm, dir, sock, mapped, agentVars, faults>>

HandleFinished(a) ==
    /\ Handles(a, "Finished")
    /\ inst' = [inst EXCEPT ![a].mailbox = Rest(a), ![a].migrating = FALSE]
    /\ UNCHANGED <<vmm, dir, sock, mapped, agentVars, faults>>

\* DeleteVM and ShutdownVM: stop_gracefully.
HandleDelete(a) ==
    /\ Handles(a, "Delete")
    /\ inst' = [inst EXCEPT ![a].mailbox = Enqueue(Rest(a), "Stop")]
    /\ UNCHANGED <<vmm, dir, sock, mapped, agentVars, faults>>

HandleStop(a) ==
    /\ Handles(a, "Stop")
    /\ inst' = [inst EXCEPT ![a] = BeginStop(a)]
    /\ UNCHANGED <<vmm, dir, sock, mapped, agentVars, faults>>

\* The scheduler links every VM actor it discovers.  VMActor has no on_link_died
\* of its own: when the scheduler is gone, the runtime's default stops the actor
\* without waiting for its mailbox (external).
LinkDied(a) ==
    /\ inst[a].pc = "run"
    /\ Fault
    /\ inst' = [inst EXCEPT ![a] = BeginStop(a)]
    /\ UNCHANGED <<vmm, dir, sock, mapped, agentVars>>

-----------------------------------------------------------------------------
(* on_stop: VMInstance::destroy.                                           *)

\* destroy returns at once with an error: nothing further is cleaned up.
Abandon(a, why) ==
    inst' = [inst EXCEPT ![a] = Remains(a, "gone", Because(a, why))]

\* Without an answer the hooks and the shutdown of the VM are skipped.
DestroyInfo(a) ==
    /\ inst[a].pc = "info"
    /\ \/ \E o \in Actor :
             /\ Holds(o, {"created", "running"})
             /\ inst' = [inst EXCEPT ![a].pc = "hook", ![a].seen = vmm[o].vm]
             /\ UNCHANGED faults
       \/ /\ Fails(AnswersWith({"created", "running"}))
          /\ inst' = [inst EXCEPT ![a].pc = "vmm"]
    /\ UNCHANGED <<vmm, dir, sock, mapped, agentVars>>

\* DetachTap takes the link off its controller.
DetachTap(o) == [vmm EXCEPT ![o].tap = "free"]

\* The before_stop hook: DetachTap looks the tap up by name, and it is there
\* only while a VMM runs the VM.
BeforeStop(a) ==
    /\ inst[a].pc = "hook"
    /\ \/ \E o \in Actor :
             /\ vmm[o].tap # "none"
             /\ vmm' = DetachTap(o)
             /\ inst' = [inst EXCEPT ![a].pc = IF inst[a].seen = "running"
                                               THEN "shutdown" ELSE "vmm",
                                     ![a].seen = "created"]
             /\ UNCHANGED faults
       \/ /\ Fails(\E o \in Actor : vmm[o].tap # "none")
          /\ Abandon(a, "hook")
          /\ UNCHANGED vmm
    /\ UNCHANGED <<dir, sock, mapped, agentVars>>

\* shutdown_vm ends the VM and keeps its configuration in the VMM.
ShutdownVm(a) ==
    /\ inst[a].pc = "shutdown"
    /\ \/ \E o \in Actor :
             /\ Holds(o, {"running"})
             /\ vmm' = [vmm EXCEPT ![o].vm = "created", ![o].tap = "none"]
             /\ inst' = [inst EXCEPT ![a].pc = "vmm"]
             /\ UNCHANGED faults
       \/ /\ Fails(AnswersWith({"running"}))
          /\ Abandon(a, "shutdown")
          /\ UNCHANGED vmm
    /\ UNCHANGED <<dir, sock, mapped, agentVars>>

\* Best effort; the child was given to the watcher, so nothing is killed, and
\* no hook does anything after the stop.
ShutdownVmm(a) ==
    /\ inst[a].pc = "vmm"
    /\ \/ \E o \in Actor :
             /\ Reaches(o)
             /\ vmm' = [vmm EXCEPT ![o] = Dead("exited")]
             /\ inst' = [inst EXCEPT ![a].pc = "purge"]
             /\ UNCHANGED faults
       \/ /\ Fails(Answers)
          /\ inst' = [inst EXCEPT ![a].pc = "purge",
                                  ![a].excuse = IF Running(a) THEN Because(a, "vmm")
                                                ELSE @]
          /\ UNCHANGED vmm
    /\ UNCHANGED <<dir, sock, mapped, agentVars>>

\* Mutant: vm_config is taken and nothing of it is released.
ReleasableNone(a) == {}

\* release_config of the vm_config that purge_instance_data takes.
Releasable(a) == IF inst[a].config THEN Disk ELSE {}

\* purge_instance_data: release what can be released, then remove the
\* directory; errors are logged.
Purge(a) ==
    /\ inst[a].pc = "purge"
    /\ \E kept \in SUBSET Releasable(a), removed \in BOOLEAN :
          /\ IF kept = {} /\ removed THEN UNCHANGED faults ELSE Fault
          /\ mapped' = mapped \ (Releasable(a) \ kept)
          /\ dir' = (dir /\ ~removed)
          /\ sock' = IF removed THEN NoActor ELSE sock
          /\ inst' = [inst EXCEPT ![a] =
                 Remains(a, "gone", IF kept = {} /\ removed THEN inst[a].excuse
                                    ELSE Because(a, "purge"))]
    /\ UNCHANGED <<vmm, agentVars>>

-----------------------------------------------------------------------------
Environment(a) == VmmBinds(a) \/ GuestPowersOff(a) \/ VmmCrashes(a) \/ LinkDied(a)

AgentStep(a) ==
    \/ AgentCreateVM(a) \/ AgentMigrateVMReceive(a) \/ AgentShutdownVM(a)
    \/ AgentLinkDied(a) \/ AgentAskFails(a)

OnStart(a) ==
    \/ SpawnVmm(a) \/ PingAnswered(a) \/ PingTimesOut(a) \/ Transform(a)
    \/ CreateVm(a) \/ BootVm(a) \/ AfterBoot(a) \/ AttachConsole(a)

Handle(a) ==
    \/ HandleMigrate(a) \/ HandlePrep(a) \/ HandleFinished(a)
    \/ HandleDelete(a) \/ HandleStop(a)

OnStop(a) ==
    \/ DestroyInfo(a) \/ BeforeStop(a) \/ ShutdownVm(a) \/ ShutdownVmm(a)
    \/ Purge(a)

Tasks(a) ==
    \/ Watcher(a) \/ TellPrep(a) \/ ReceiverReturns(a) \/ ReceiverShutsDown(a)
    \/ TellFinished(a) \/ ConsoleRetry(a)

VmNext ==
    \/ AgentDeleteVM
    \/ \E a \in Actor : \/ Environment(a) \/ AgentStep(a) \/ OnStart(a)
                        \/ Handle(a) \/ OnStop(a) \/ Tasks(a)

VmSpec == VmInit /\ [][VmNext]_vmVars

\* The runtime polls a task that is ready: as long as an actor, or the task that
\* watches its child, has a step to take, one of them is taken.  Nothing is
\* assumed of the agent's callers, of the VMM or of a migration's sender.
VmFairness ==
    \A a \in Actor :
        WF_vmVars(OnStart(a) \/ Handle(a) \/ OnStop(a) \/ Watcher(a))

FairVmSpec == VmSpec /\ VmFairness

-----------------------------------------------------------------------------
(* Properties.                                                             *)

\* Type correctness, with what ties the parts together: the VM and its tap
\* live in a running VMM, the socket name lives in the runtime directory, and
\* a receiver in flight is the one migration_state records, so that the
\* notification of its end finds the state it clears.
VmTypeOK ==
    /\ inst \in [Actor -> Instance]
    /\ vmm \in [Actor -> Vmm]
    /\ dir \in BOOLEAN
    /\ sock \in Actor \cup {NoActor}
    /\ mapped \subseteq Disk
    /\ listed \in Actor \cup {NoActor}
    /\ asking \in Actor \cup {NoActor}
    /\ sock # NoActor => dir
    /\ \A a \in Actor :
          /\ vmm[a].vm # "none" => vmm[a].proc = "up"
          /\ vmm[a].tap # "none" => vmm[a].vm = "running"
          /\ inst[a].pc = "run" /\ inst[a].receiver # "none"
                => inst[a].migrating

\* A VMM never outlives its actor unnoticed: when the actor has settled, its
\* process still runs only if attaching the console failed at start (the child
\* is dropped), the before_stop hook or the VM's shutdown failed in destroy
\* (early return), or shutdown_vmm itself failed.  In particular every failed
\* start before the console has killed its child.
LeakedVmmHasCause ==
    \A a \in Actor :
        inst[a].pc \in Settled /\ inst[a].alone /\ Running(a)
            => inst[a].excuse \cap {"console", "hook", "shutdown", "vmm"} # {}

\* Whatever an actor that runs or stops has mapped, the vm_config it holds
\* names, so its destroy releases it: also after a preparation for a migration
\* that failed half way.
MappedIsOwned ==
    \A a \in Actor :
        inst[a].alone /\ mapped # {} /\ inst[a].pc \in {"run"} \cup Stopping
            => inst[a].config

\* An actor with a manifest that has started, and whose VMM still runs, has its
\* storage mapped, its console attached, its child watched and, once the VM
\* was booted and as long as it runs, its tap on the bridge and up.
RunningVmIsComplete ==
    \A a \in Actor :
        /\ inst[a].alone /\ inst[a].pc = "run" /\ inst[a].kind = "create"
        /\ Running(a)
        => /\ mapped = Disk /\ inst[a].config
           /\ inst[a].console = "attached" /\ inst[a].watched
           /\ inst[a].boot => vmm[a].vm = "running" /\ vmm[a].tap = "up"

\* destroy, when none of its calls failed, leaves nothing of the VM on the
\* host: no VMM, no runtime directory, no mapped storage.
DestroyLeavesNothing ==
    [][\A a \in Actor :
          /\ inst[a].pc # "gone" /\ inst'[a].pc = "gone"
          /\ inst[a].alone /\ inst'[a].excuse = {}
          => ~Running(a)' /\ ~dir' /\ mapped' = {}]_vmVars

\* An actor whose VMM has ended, by itself, by a guest's power-off or because
\* another actor's API call reached it, does not stay behind: it stops.
DeadVmmStopsActor ==
    \A a \in Actor :
        inst[a].pc = "run" /\ vmm[a].proc \in {"exited", "crashed"}
            ~> inst[a].pc \in Settled
=============================================================================
