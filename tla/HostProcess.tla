----------------------------- MODULE HostProcess -----------------------------
(***************************************************************************)
(* The odorobo processes of one host over time: the lock file              *)
(* (utils/lockfile.rs), start-up and termination (main.rs), and what the   *)
(* network actor and its DHCP actor leave behind in the kernel and among   *)
(* the host's processes (networking/actor_linux.rs).                       *)
(*                                                                         *)
(* A process is started once; a restart is another member of Proc.  Two    *)
(* threads of control are interleaved in each: main, with its signal flag, *)
(* and the actors on the runtime, which run until the runtime is dropped.  *)
(* Bridge, address, NAT rule, dnsmasq and lock file outlive the process.   *)
(*                                                                         *)
(* Abstractions.                                                           *)
(*  - Every process has the same network configuration.  It and the        *)
(*    processes that skip the lock file are chosen in Init.                *)
(*  - The nftables batch that adds the rule also adds the table and the    *)
(*    chain that are missing and is applied as one: only rules are counted.*)
(*  - Nobody else changes the bridge, the address or the rules.  A second  *)
(*    dnsmasq on the bridge cannot bind its port and exits by itself.      *)
(*  - The AttachTap and DetachTap handlers are in VmHost.                  *)
(***************************************************************************)
EXTENDS Integers, FiniteSets

CONSTANTS
    Proc,       \* odorobo processes
    NoLockfile, \* the sets of processes that may be configured with no_lockfile
    Nobody      \* no lock file

ASSUME NoLockfileAssumption == NoLockfile \subseteq SUBSET Proc
ASSUME NobodyAssumption == Nobody \notin Proc

VARIABLES
    config,     \* the network mode, whether DHCP is configured, and which
                \* processes skip the lock file
    lock,       \* the process that created the existing lock file
    pc,         \* where main is
    guard,      \* the processes that hold Lockfile(Some(file))
    term,       \* the processes whose termination flag is set
    cause,      \* why a process ended
    agent,      \* the agent actor of a process
    net,        \* its network actor: on_start step by step, then up or not
    saw,        \* the processes that found the rule in the ruleset they fetched
    dhcp,       \* its DHCP actor
    bridge,     \* the bridge exists
    address,    \* the bridge has the gateway address
    rules,      \* the number of masquerade rules
    dnsmasq     \* the processes whose dnsmasq runs and serves the bridge

mainVars == <<lock, pc, guard, term, cause>>
actorVars == <<agent, net, saw, dhcp>>
kernelVars == <<bridge, address, rules, dnsmasq>>
hostVars == <<config, mainVars, actorVars, kernelVars>>

Config == [mode : {"HostonlyNat", "Bridged"}, dhcp : BOOLEAN, lockless : NoLockfile]
Lockless == config.lockless

Alive(p) == pc[p] \notin {"unborn", "gone"}

\* Between the spawn of inner_main and the drop of the runtime.
Runs(p) == pc[p] \in {"main", "unwinding"}

\* Mutant: the actors outlive the runtime.
DropsActorsNot(p) == UNCHANGED actorVars

\* The tasks of the runtime are dropped where they are, and no on_stop runs.  A
\* dnsmasq child is not killed with its handle.
DropsActors(p) ==
    /\ agent' = [agent EXCEPT ![p] = "none"]
    /\ net' = [net EXCEPT ![p] = "none"]
    /\ dhcp' = [dhcp EXCEPT ![p] = "none"]
    /\ saw' = saw \ {p}

Ends(p, why) ==
    /\ pc' = [pc EXCEPT ![p] = "gone"]
    /\ cause' = [cause EXCEPT ![p] = why]
    /\ guard' = guard \ {p}
    /\ term' = term \ {p}
    /\ DropsActors(p)

-----------------------------------------------------------------------------
(* main.                                                                   *)

\* register_termsigs comes before the lock file.
Start(p) ==
    /\ pc[p] = "unborn"
    /\ pc' = [pc EXCEPT ![p] = "registered"]
    /\ UNCHANGED <<config, lock, guard, term, cause, actorVars, kernelVars>>

\* Mutant: a lock file that exists is opened instead.
CreateLockfileAnyway(p) ==
    /\ lock' = p
    /\ pc' = [pc EXCEPT ![p] = "created"]
    /\ UNCHANGED <<guard, term, cause, actorVars>>

\* create_new fails if the file exists.
CreateLockfile(p) ==
    \/ /\ lock = Nobody
       /\ lock' = p
       /\ pc' = [pc EXCEPT ![p] = "created"]
       /\ UNCHANGED <<guard, term, cause, actorVars>>
    \/ /\ lock # Nobody
       /\ Ends(p, "refused")
       /\ UNCHANGED lock

SkipLockfile(p) ==
    /\ pc' = [pc EXCEPT ![p] = "main"]
    /\ UNCHANGED <<lock, guard, term, cause, actorVars>>

init_lockfile(p) ==
    /\ pc[p] = "registered"
    /\ IF p \in Lockless THEN SkipLockfile(p) ELSE CreateLockfile(p)
    /\ UNCHANGED <<config, kernelVars>>

\* The process id is written and flushed; an error returns before there is a
\* guard to remove the file.
WriteLockfile(p) ==
    /\ pc[p] = "created"
    /\ \/ /\ pc' = [pc EXCEPT ![p] = "main"]
          /\ guard' = guard \cup {p}
          /\ UNCHANGED <<term, cause, actorVars>>
       \/ Ends(p, "write_failed")
    /\ UNCHANGED <<config, lock, kernelVars>>

\* A first termination signal sets the flag, a second one exits.
Signal(p) ==
    /\ Alive(p)
    /\ IF p \in term
       THEN Ends(p, "second_signal")
       ELSE term' = term \cup {p} /\ UNCHANGED <<pc, guard, cause, actorVars>>
    /\ UNCHANGED <<config, lock, kernelVars>>

\* SIGKILL, the OOM killer, an abort.
Kill(p) ==
    /\ Alive(p)
    /\ Ends(p, "killed")
    /\ UNCHANGED <<config, lock, kernelVars>>

\* Mutant: the loop waits for inner_main only.
SeesTermNever(p) == FALSE

SeesTerm(p) == p \in term

\* mainloop returns, with the runtime still up.
Unwinds(p) ==
    /\ pc[p] = "main"
    /\ pc' = [pc EXCEPT ![p] = "unwinding"]
    /\ UNCHANGED <<config, lock, guard, term, cause, actorVars, kernelVars>>

\* inner_main has finished, in whatever state it leaves its actors: connecting
\* panicked before the agent was spawned, a registration failed while the agent
\* is up, or the agent has stopped.
InnerMainReturns(p) == Unwinds(p)

\* The loop finds the flag set.
LeaveMainloop(p) == SeesTerm(p) /\ Unwinds(p)

\* The runtime is a local of mainloop, dropped before main's lock.
DropRuntime(p) ==
    /\ pc[p] = "unwinding"
    /\ pc' = [pc EXCEPT ![p] = "unlocking"]
    /\ DropsActors(p)
    /\ UNCHANGED <<config, lock, guard, term, cause, kernelVars>>

\* Mutant: the guard is forgotten instead of dropped.
RemovesNever(p) == FALSE

Removes(p) == p \in guard

\* Lockfile::drop removes the file by its name; main returns.  A failed removal
\* is logged.
DropLockfile(p) ==
    /\ pc[p] = "unlocking"
    /\ \/ lock' = (IF Removes(p) THEN Nobody ELSE lock) /\ Ends(p, "returned")
       \/ p \in guard /\ Ends(p, "remove_failed") /\ UNCHANGED lock
    /\ UNCHANGED <<config, kernelVars>>

\* The operator removes a lock file whose process is gone (external).
OperatorUnlocks ==
    /\ lock # Nobody /\ pc[lock] = "gone"
    /\ lock' = Nobody
    /\ UNCHANGED <<config, pc, guard, term, cause, actorVars, kernelVars>>

-----------------------------------------------------------------------------
(* The agent actor and the network actor's on_start.                       *)

Net(p, step) == net' = [net EXCEPT ![p] = step]

\* AgentActor::on_start spawns the network actor, linked.
StartAgent(p) ==
    /\ Runs(p) /\ agent[p] = "none"
    /\ agent' = [agent EXCEPT ![p] = "up"]
    /\ Net(p, "lookup")
    /\ UNCHANGED <<config, mainVars, saw, dhcp, kernelVars>>

\* on_start fails after the spawn, or the agent panics.
AgentDies(p) ==
    /\ Runs(p) /\ agent[p] = "up"
    /\ agent' = [agent EXCEPT ![p] = "dead"]
    /\ UNCHANGED <<config, mainVars, net, saw, dhcp, kernelVars>>

LookupBridge(p) ==
    /\ Runs(p) /\ net[p] = "lookup"
    /\ Net(p, IF bridge THEN "dhcp" ELSE "create")
    /\ UNCHANGED <<config, mainVars, agent, saw, dhcp, kernelVars>>

CreateBridge(p) ==
    /\ Runs(p) /\ net[p] = "create" /\ ~bridge
    /\ bridge' = TRUE
    /\ Net(p, "dhcp")
    /\ UNCHANGED <<config, mainVars, agent, saw, dhcp, address, rules, dnsmasq>>

\* The DHCP actor is spawned, linked, before the bridge has its address.
SpawnDhcp(p) ==
    /\ Runs(p) /\ net[p] = "dhcp"
    /\ dhcp' = [dhcp EXCEPT ![p] = IF config.dhcp THEN "starting" ELSE "none"]
    /\ Net(p, "address")
    /\ UNCHANGED <<config, mainVars, agent, saw, kernelVars>>

\* An address that is there already is left alone, whoever added it.
ensure_address(p) ==
    /\ Runs(p) /\ net[p] = "address"
    /\ address' = TRUE
    /\ Net(p, IF config.mode = "HostonlyNat" THEN "ruleset" ELSE "up")
    /\ UNCHANGED <<config, mainVars, agent, saw, dhcp, bridge, rules, dnsmasq>>

\* ensure_nat_rules reads the ruleset and decides ...
FetchRuleset(p) ==
    /\ Runs(p) /\ net[p] = "ruleset"
    /\ saw' = IF rules > 0 THEN saw \cup {p} ELSE saw \ {p}
    /\ Net(p, "apply")
    /\ UNCHANGED <<config, mainVars, agent, dhcp, kernelVars>>

\* Mutant: the rule is added whatever the ruleset holds.
AddsRuleAlways(p) == TRUE

AddsRule(p) == p \notin saw

\* ... and then applies its batch.
ApplyRuleset(p) ==
    /\ Runs(p) /\ net[p] = "apply"
    /\ rules' = IF AddsRule(p) THEN rules + 1 ELSE rules
    /\ saw' = saw \ {p}
    /\ Net(p, "up")
    /\ UNCHANGED <<config, mainVars, agent, dhcp, bridge, address, dnsmasq>>

\* The DHCP actor is told to stop: after its on_start.
DhcpStopping(p) ==
    [dhcp EXCEPT ![p] = IF dhcp[p] \in {"starting", "up"} THEN "stopping" ELSE dhcp[p]]

\* A netlink or nft call of on_start fails; among them the creation of a bridge
\* that another process created since, and the query after the creation.
\* on_stop does not run, and the linked DHCP actor stops.
StartFails(p) ==
    /\ Runs(p)
    /\ net[p] \in {"lookup", "create", "address", "ruleset", "apply"}
    /\ Net(p, "dead")
    /\ saw' = saw \ {p}
    /\ \/ UNCHANGED bridge
       \/ net[p] = "create" /\ ~bridge /\ bridge' = TRUE
    /\ dhcp' = DhcpStopping(p)
    /\ UNCHANGED <<config, mainVars, agent, address, rules, dnsmasq>>

\* Mutant: the network actor's on_stop leaves the DHCP actor running.
StopsDhcpNever(p) == dhcp

\* on_stop stops the DHCP actor gracefully.
StopsDhcp(p) == DhcpStopping(p)

\* A linked actor died, which stops the network actor: the agent, or the DHCP
\* actor.
NetworkLinkDied(p) ==
    /\ Runs(p) /\ net[p] = "up"
    /\ agent[p] = "dead" \/ dhcp[p] = "dead"
    /\ Net(p, "dead")
    /\ dhcp' = StopsDhcp(p)
    /\ UNCHANGED <<config, mainVars, agent, saw, kernelVars>>

-----------------------------------------------------------------------------
(* The DHCP actor.                                                         *)

\* on_start spawns dnsmasq, or fails.
DhcpStart(p) ==
    /\ Runs(p) /\ dhcp[p] = "starting"
    /\ \/ /\ dhcp' = [dhcp EXCEPT ![p] = "up"]
          /\ dnsmasq' = IF dnsmasq = {} THEN {p} ELSE dnsmasq
       \/ dhcp' = [dhcp EXCEPT ![p] = "dead"] /\ UNCHANGED dnsmasq
    /\ UNCHANGED <<config, mainVars, agent, net, saw, bridge, address, rules>>

\* on_stop kills its dnsmasq and waits for it.
DhcpStop(p) ==
    /\ Runs(p) /\ dhcp[p] = "stopping"
    /\ dhcp' = [dhcp EXCEPT ![p] = "dead"]
    /\ dnsmasq' = dnsmasq \ {p}
    /\ UNCHANGED <<config, mainVars, agent, net, saw, bridge, address, rules>>

-----------------------------------------------------------------------------
HostInit ==
    /\ config \in Config
    /\ lock = Nobody
    /\ pc = [p \in Proc |-> "unborn"]
    /\ guard = {}
    /\ term = {}
    /\ cause = [p \in Proc |-> "none"]
    /\ agent = [p \in Proc |-> "none"]
    /\ net = [p \in Proc |-> "none"]
    /\ saw = {}
    /\ dhcp = [p \in Proc |-> "none"]
    /\ bridge = FALSE
    /\ address = FALSE
    /\ rules = 0
    /\ dnsmasq = {}

MainNext(p) ==
    \/ Start(p) \/ init_lockfile(p) \/ WriteLockfile(p)
    \/ Signal(p) \/ Kill(p)
    \/ InnerMainReturns(p) \/ LeaveMainloop(p) \/ DropRuntime(p) \/ DropLockfile(p)

ActorNext(p) ==
    \/ StartAgent(p) \/ AgentDies(p)
    \/ LookupBridge(p) \/ CreateBridge(p) \/ SpawnDhcp(p)
    \/ ensure_address(p) \/ FetchRuleset(p) \/ ApplyRuleset(p)
    \/ StartFails(p) \/ NetworkLinkDied(p)
    \/ DhcpStart(p) \/ DhcpStop(p)

HostNext ==
    \/ \E p \in Proc : MainNext(p) \/ ActorNext(p)
    \/ OperatorUnlocks

HostSpec == HostInit /\ [][HostNext]_hostVars

\* main is a thread of its own and runs on, through the loop and its drops, and
\* the runtime polls every actor with something to do.
HostFairness ==
    \A p \in Proc :
        /\ WF_hostVars(init_lockfile(p)) /\ WF_hostVars(WriteLockfile(p))
        /\ WF_hostVars(LeaveMainloop(p))
        /\ WF_hostVars(DropRuntime(p)) /\ WF_hostVars(DropLockfile(p))
        /\ WF_hostVars(NetworkLinkDied(p))
        /\ WF_hostVars(DhcpStart(p)) /\ WF_hostVars(DhcpStop(p))

FairHostSpec == HostSpec /\ HostFairness

-----------------------------------------------------------------------------
(* Properties.                                                             *)

\* Every variable has its type, and actors exist only while their runtime does.
HostTypeOK ==
    /\ config \in Config
    /\ lock \in Proc \cup {Nobody}
    /\ pc \in [Proc -> {"unborn", "registered", "created", "main", "unwinding",
                        "unlocking", "gone"}]
    /\ guard \subseteq Proc /\ term \subseteq Proc /\ saw \subseteq Proc
    /\ cause \in [Proc -> {"none", "refused", "write_failed", "second_signal",
                           "killed", "returned", "remove_failed"}]
    /\ agent \in [Proc -> {"none", "up", "dead"}]
    /\ net \in [Proc -> {"none", "lookup", "create", "dhcp", "address",
                         "ruleset", "apply", "up", "dead"}]
    /\ dhcp \in [Proc -> {"none", "starting", "up", "stopping", "dead"}]
    /\ bridge \in BOOLEAN /\ address \in BOOLEAN
    /\ rules \in Nat
    /\ dnsmasq \subseteq Proc
    /\ \A p \in Proc : ~Runs(p) =>
          agent[p] = "none" /\ net[p] = "none" /\ dhcp[p] = "none" /\ p \notin saw

\* "Only 1 instance of odorobo should run" (lockfile.rs): no two processes are
\* past the lock file at once, whatever crashed, was refused or was killed
\* before, and while the operator removes no lock of a live process.
LockExcludes ==
    \A p, q \in Proc \ Lockless :
        /\ pc[p] \in {"created", "main", "unwinding", "unlocking"}
        /\ pc[q] \in {"created", "main", "unwinding", "unlocking"}
        => p = q

\* A lock file outlives its process only if the process was killed, was
\* signalled twice, could not write the file or could not remove it: every
\* return from main, refusal and single signal leaves the next start free.
StaleLockHasCause ==
    lock # Nobody =>
        \/ Alive(lock)
        \/ cause[lock] \in {"killed", "second_signal", "write_failed",
                            "remove_failed"}

\* A network actor that is up has its bridge, its address and, for host-only NAT,
\* exactly one masquerade rule, also after processes that died anywhere in their
\* own start: more than one rule needs a process without the lock file.
NetworkUpIsExact ==
    \A p \in Proc :
        net[p] = "up" =>
            /\ bridge /\ address
            /\ config.mode = "HostonlyNat" => rules >= 1
            /\ (\A q \in Lockless : pc[q] = "unborn") => rules <= 1

\* A termination signal ends the process.
TermEndsProcess ==
    \A p \in Proc : (p \in term /\ Alive(p)) ~> pc[p] = "gone"

\* While its process runs on, a network actor that died does not leave a DHCP
\* server behind for good.
DeadNetworkStopsDhcp ==
    \A p \in Proc :
        (Runs(p) /\ net[p] = "dead") ~> (~Runs(p) \/ p \notin dnsmasq)
=============================================================================
