------------------------------ MODULE HostProofs ------------------------------
(***************************************************************************)
(* Proofs about the processes of a host (HostProcess), for any number of   *)
(* processes and whichever of them skip the lock file: type correctness,   *)
(* the exclusion by the lock file, the causes of a stale one, and the      *)
(* network set-up that restarts leave exact.                               *)
(***************************************************************************)
EXTENDS HostProcess, TLAPS

\* Past the creation of the lock file, or past its being skipped.
Started(p) == pc[p] \in {"created", "main", "unwinding", "unlocking"}

\* A process that did not skip the lock file owns it from its creation on, and
\* holds the guard that removes it from the moment the file is written.
LockOwned ==
    /\ \A p \in Proc \ Lockless :
          /\ Started(p) => lock = p
          /\ pc[p] \in {"main", "unwinding", "unlocking"} => p \in guard
    /\ \A p \in guard : Started(p) /\ p \notin Lockless
    /\ \A p \in Proc : pc[p] = "created" => p \notin Lockless
    /\ lock # Nobody => /\ Started(lock) \/ pc[lock] = "gone"
                        /\ lock \notin Lockless

\* What the network actor has found or made stays there.
SetUpInOrder ==
    \A p \in Proc :
        /\ net[p] \in {"dhcp", "address", "ruleset", "apply", "up"} => bridge
        /\ net[p] \in {"ruleset", "apply", "up"} => address
        /\ p \in saw => rules >= 1
        /\ net[p] = "up" /\ config.mode = "HostonlyNat" => rules >= 1

\* Unless a process without the lock file has started, the ruleset that a process
\* decides on is still the current one when it applies its batch.
RuleAddedOnce ==
    (\A q \in Lockless : pc[q] = "unborn") =>
        /\ rules <= 1
        /\ \A p \in Proc : net[p] = "apply" /\ p \notin saw => rules = 0

HostInv ==
    /\ HostTypeOK
    /\ LockOwned
    /\ StaleLockHasCause
    /\ SetUpInOrder
    /\ RuleAddedOnce
-----------------------------------------------------------------------------
\* Nobody has started, and the host is as it was booted.
LEMMA HostInitInv == HostInit => HostInv
<1> SUFFICES ASSUME HostInit PROVE HostInv
  OBVIOUS
<1>1. HostTypeOK
  BY DEF HostInit, HostTypeOK, Runs
<1>2. LockOwned /\ StaleLockHasCause
  BY DEF HostInit, LockOwned, Started, StaleLockHasCause
<1>3. SetUpInOrder /\ RuleAddedOnce
  BY DEF HostInit, SetUpInOrder, RuleAddedOnce
<1> QED BY <1>1, <1>2, <1>3 DEF HostInv

\* The rule is safe from a step that neither changes the rules nor brings a process
\* to where it decides on them.
LEMMA RuleKept ==
    ASSUME HostTypeOK, RuleAddedOnce, config' = config, rules' = rules,
           \A q \in Proc : pc'[q] = "unborn" => pc[q] = "unborn",
           \A q \in Proc : net'[q] = "apply" /\ q \notin saw'
                              => net[q] = "apply" /\ q \notin saw
    PROVE  RuleAddedOnce'
<1>1. Lockless \subseteq Proc /\ Lockless' = Lockless
  BY NoLockfileAssumption DEF HostTypeOK, Config, Lockless
<1> QED BY <1>1 DEF RuleAddedOnce

\* Every step of a process, of its actors and of the kernel keeps the invariant.
LEMMA HostNextInv == HostInv /\ [HostNext]_hostVars => HostInv'
<1> SUFFICES ASSUME HostInv, [HostNext]_hostVars PROVE HostInv'
  OBVIOUS
<1> USE NobodyAssumption DEF HostInv
<1>1. ASSUME NEW p \in Proc, Start(p) PROVE HostInv'
  <2>1. HostTypeOK'
    BY <1>1 DEF Start, mainVars, actorVars, kernelVars, HostTypeOK, Runs
  <2>2. LockOwned'
    BY <1>1 DEF Start, mainVars, actorVars, kernelVars, HostTypeOK,
       LockOwned, Started, Lockless
  <2>3. StaleLockHasCause'
    BY <1>1 DEF Start, mainVars, actorVars, kernelVars, HostTypeOK,
       LockOwned, Started, Lockless, StaleLockHasCause, Alive
  <2>4. SetUpInOrder'
    BY <1>1 DEF Start, mainVars, actorVars, kernelVars, HostTypeOK,
       SetUpInOrder
  <2>5. RuleAddedOnce'
    <3>1. config' = config /\ rules' = rules
      BY <1>1 DEF Start, mainVars, actorVars, kernelVars
    <3>2. \A q \in Proc : pc'[q] = "unborn" => pc[q] = "unborn"
      BY <1>1 DEF Start, mainVars, actorVars, kernelVars, HostTypeOK
    <3>3. \A q \in Proc : net'[q] = "apply" /\ q \notin saw'
                        => net[q] = "apply" /\ q \notin saw
      BY <1>1 DEF Start, mainVars, actorVars, kernelVars, HostTypeOK
    <3> QED BY <3>1, <3>2, <3>3, RuleKept
  <2> QED BY <2>1, <2>2, <2>3, <2>4, <2>5
<1>2. ASSUME NEW p \in Proc, init_lockfile(p) PROVE HostInv'
  <2>1. HostTypeOK'
    BY <1>2 DEF init_lockfile, SkipLockfile, CreateLockfile, Ends,
       DropsActors, mainVars, actorVars, kernelVars, HostTypeOK, Runs
  <2>2. LockOwned'
    BY <1>2 DEF init_lockfile, SkipLockfile, CreateLockfile, Ends,
       DropsActors, mainVars, actorVars, kernelVars, HostTypeOK, LockOwned,
       Started, Lockless
  <2>3. StaleLockHasCause'
    BY <1>2 DEF init_lockfile, SkipLockfile, CreateLockfile, Ends,
       DropsActors, mainVars, actorVars, kernelVars, HostTypeOK, LockOwned,
       Started, Lockless, StaleLockHasCause, Alive
  <2>4. SetUpInOrder'
    BY <1>2 DEF init_lockfile, SkipLockfile, CreateLockfile, Ends,
       DropsActors, mainVars, actorVars, kernelVars, HostTypeOK, SetUpInOrder
  <2>5. RuleAddedOnce'
    <3>1. config' = config /\ rules' = rules
      BY <1>2 DEF init_lockfile, SkipLockfile, CreateLockfile, Ends,
         DropsActors, mainVars, actorVars, kernelVars
    <3>2. \A q \in Proc : pc'[q] = "unborn" => pc[q] = "unborn"
      BY <1>2 DEF init_lockfile, SkipLockfile, CreateLockfile, Ends,
         DropsActors, mainVars, actorVars, kernelVars, HostTypeOK
    <3>3. \A q \in Proc : net'[q] = "apply" /\ q \notin saw'
                        => net[q] = "apply" /\ q \notin saw
      BY <1>2 DEF init_lockfile, SkipLockfile, CreateLockfile, Ends,
         DropsActors, mainVars, actorVars, kernelVars, HostTypeOK
    <3> QED BY <3>1, <3>2, <3>3, RuleKept
  <2> QED BY <2>1, <2>2, <2>3, <2>4, <2>5
<1>3. ASSUME NEW p \in Proc, WriteLockfile(p) PROVE HostInv'
  <2>1. HostTypeOK'
    BY <1>3 DEF WriteLockfile, Ends, DropsActors, mainVars, actorVars,
       kernelVars, HostTypeOK, Runs
  <2>2. LockOwned'
    <3>1. CASE /\ pc' = [pc EXCEPT ![p] = "main"]
               /\ guard' = guard \cup {p}
      BY <1>3, <3>1 DEF WriteLockfile, HostTypeOK, LockOwned, Started, Lockless
    <3>2. CASE Ends(p, "write_failed")
      BY <1>3, <3>2 DEF WriteLockfile, Ends, HostTypeOK, LockOwned, Started, Lockless
    <3> QED BY <1>3, <3>1, <3>2 DEF WriteLockfile
  <2>3. StaleLockHasCause'
    BY <1>3 DEF WriteLockfile, Ends, DropsActors, mainVars, actorVars,
       kernelVars, HostTypeOK, LockOwned, Started, Lockless,
       StaleLockHasCause, Alive
  <2>4. SetUpInOrder'
    BY <1>3 DEF WriteLockfile, Ends, DropsActors, mainVars, actorVars,
       kernelVars, HostTypeOK, SetUpInOrder
  <2>5. RuleAddedOnce'
    <3>1. config' = config /\ rules' = rules
      BY <1>3 DEF WriteLockfile, Ends, DropsActors, mainVars, actorVars,
         kernelVars
    <3>2. \A q \in Proc : pc'[q] = "unborn" => pc[q] = "unborn"
      BY <1>3 DEF WriteLockfile, Ends, DropsActors, mainVars, actorVars,
         kernelVars, HostTypeOK
    <3>3. \A q \in Proc : net'[q] = "apply" /\ q \notin saw'
                        => net[q] = "apply" /\ q \notin saw
      BY <1>3 DEF WriteLockfile, Ends, DropsActors, mainVars, actorVars,
         kernelVars, HostTypeOK
    <3> QED BY <3>1, <3>2, <3>3, RuleKept
  <2> QED BY <2>1, <2>2, <2>3, <2>4, <2>5
<1>4. ASSUME NEW p \in Proc, Signal(p) PROVE HostInv'
  <2>1. HostTypeOK'
    BY <1>4 DEF Signal, Ends, DropsActors, Alive, mainVars, actorVars,
       kernelVars, HostTypeOK, Runs
  <2>2. LockOwned'
    BY <1>4 DEF Signal, Ends, DropsActors, Alive, mainVars, actorVars,
       kernelVars, HostTypeOK, LockOwned, Started, Lockless
  <2>3. StaleLockHasCause'
    BY <1>4 DEF Signal, Ends, DropsActors, Alive, mainVars, actorVars,
       kernelVars, HostTypeOK, LockOwned, Started, Lockless,
       StaleLockHasCause
  <2>4. SetUpInOrder'
    BY <1>4 DEF Signal, Ends, DropsActors, Alive, mainVars, actorVars,
       kernelVars, HostTypeOK, SetUpInOrder
  <2>5. RuleAddedOnce'
    <3>1. config' = config /\ rules' = rules
      BY <1>4 DEF Signal, Ends, DropsActors, Alive, mainVars, actorVars,
         kernelVars
    <3>2. \A q \in Proc : pc'[q] = "unborn" => pc[q] = "unborn"
      BY <1>4 DEF Signal, Ends, DropsActors, Alive, mainVars, actorVars,
         kernelVars, HostTypeOK
    <3>3. \A q \in Proc : net'[q] = "apply" /\ q \notin saw'
                        => net[q] = "apply" /\ q \notin saw
      BY <1>4 DEF Signal, Ends, DropsActors, Alive, mainVars, actorVars,
         kernelVars, HostTypeOK
    <3> QED BY <3>1, <3>2, <3>3, RuleKept
  <2> QED BY <2>1, <2>2, <2>3, <2>4, <2>5
<1>5. ASSUME NEW p \in Proc, Kill(p) PROVE HostInv'
  <2>1. HostTypeOK'
    BY <1>5 DEF Kill, Ends, DropsActors, Alive, mainVars, actorVars,
       kernelVars, HostTypeOK, Runs
  <2>2. LockOwned'
    BY <1>5 DEF Kill, Ends, DropsActors, Alive, mainVars, actorVars,
       kernelVars, HostTypeOK, LockOwned, Started, Lockless
  <2>3. StaleLockHasCause'
    BY <1>5 DEF Kill, Ends, DropsActors, Alive, mainVars, actorVars,
       kernelVars, HostTypeOK, LockOwned, Started, Lockless,
       StaleLockHasCause
  <2>4. SetUpInOrder'
    BY <1>5 DEF Kill, Ends, DropsActors, Alive, mainVars, actorVars,
       kernelVars, HostTypeOK, SetUpInOrder
  <2>5. RuleAddedOnce'
    <3>1. config' = config /\ rules' = rules
      BY <1>5 DEF Kill, Ends, DropsActors, Alive, mainVars, actorVars,
         kernelVars
    <3>2. \A q \in Proc : pc'[q] = "unborn" => pc[q] = "unborn"
      BY <1>5 DEF Kill, Ends, DropsActors, Alive, mainVars, actorVars,
         kernelVars, HostTypeOK
    <3>3. \A q \in Proc : net'[q] = "apply" /\ q \notin saw'
                        => net[q] = "apply" /\ q \notin saw
      BY <1>5 DEF Kill, Ends, DropsActors, Alive, mainVars, actorVars,
         kernelVars, HostTypeOK
    <3> QED BY <3>1, <3>2, <3>3, RuleKept
  <2> QED BY <2>1, <2>2, <2>3, <2>4, <2>5
<1>6. ASSUME NEW p \in Proc, Unwinds(p) PROVE HostInv'
  <2>1. HostTypeOK'
    BY <1>6 DEF Unwinds, mainVars, actorVars, kernelVars,
       HostTypeOK, Runs
  <2>2. LockOwned'
    BY <1>6 DEF Unwinds, mainVars, actorVars, kernelVars,
       HostTypeOK, LockOwned, Started, Lockless
  <2>3. StaleLockHasCause'
    BY <1>6 DEF Unwinds, mainVars, actorVars, kernelVars,
       HostTypeOK, LockOwned, Started, Lockless, StaleLockHasCause, Alive
  <2>4. SetUpInOrder'
    BY <1>6 DEF Unwinds, mainVars, actorVars, kernelVars,
       HostTypeOK, SetUpInOrder
  <2>5. RuleAddedOnce'
    <3>1. config' = config /\ rules' = rules
      BY <1>6 DEF Unwinds, mainVars, actorVars, kernelVars
    <3>2. \A q \in Proc : pc'[q] = "unborn" => pc[q] = "unborn"
      BY <1>6 DEF Unwinds, mainVars, actorVars, kernelVars,
         HostTypeOK
    <3>3. \A q \in Proc : net'[q] = "apply" /\ q \notin saw'
                        => net[q] = "apply" /\ q \notin saw
      BY <1>6 DEF Unwinds, mainVars, actorVars, kernelVars,
         HostTypeOK
    <3> QED BY <3>1, <3>2, <3>3, RuleKept
  <2> QED BY <2>1, <2>2, <2>3, <2>4, <2>5
<1>7. ASSUME NEW p \in Proc, DropRuntime(p) PROVE HostInv'
  <2>1. HostTypeOK'
    BY <1>7 DEF DropRuntime, DropsActors, mainVars, actorVars, kernelVars,
       HostTypeOK, Runs
  <2>2. LockOwned'
    BY <1>7 DEF DropRuntime, DropsActors, mainVars, actorVars, kernelVars,
       HostTypeOK, LockOwned, Started, Lockless
  <2>3. StaleLockHasCause'
    BY <1>7 DEF DropRuntime, DropsActors, mainVars, actorVars, kernelVars,
       HostTypeOK, LockOwned, Started, Lockless, StaleLockHasCause, Alive
  <2>4. SetUpInOrder'
    BY <1>7 DEF DropRuntime, DropsActors, mainVars, actorVars, kernelVars,
       HostTypeOK, SetUpInOrder
  <2>5. RuleAddedOnce'
    <3>1. config' = config /\ rules' = rules
      BY <1>7 DEF DropRuntime, DropsActors, mainVars, actorVars, kernelVars
    <3>2. \A q \in Proc : pc'[q] = "unborn" => pc[q] = "unborn"
      BY <1>7 DEF DropRuntime, DropsActors, mainVars, actorVars, kernelVars,
         HostTypeOK
    <3>3. \A q \in Proc : net'[q] = "apply" /\ q \notin saw'
                        => net[q] = "apply" /\ q \notin saw
      BY <1>7 DEF DropRuntime, DropsActors, mainVars, actorVars, kernelVars,
         HostTypeOK
    <3> QED BY <3>1, <3>2, <3>3, RuleKept
  <2> QED BY <2>1, <2>2, <2>3, <2>4, <2>5
<1>8. ASSUME NEW p \in Proc, DropLockfile(p) PROVE HostInv'
  <2>1. HostTypeOK'
    BY <1>8 DEF DropLockfile, Removes, Ends, DropsActors, mainVars,
       actorVars, kernelVars, HostTypeOK, Runs
  <2>2. LockOwned'
    BY <1>8 DEF DropLockfile, Removes, Ends, DropsActors, mainVars,
       actorVars, kernelVars, HostTypeOK, LockOwned, Started, Lockless
  <2>3. StaleLockHasCause'
    <3>1. CASE p \in guard /\ Ends(p, "remove_failed") /\ UNCHANGED lock
      BY <3>1 DEF Ends, HostTypeOK, StaleLockHasCause, Alive
    <3>2. CASE /\ lock' = (IF Removes(p) THEN Nobody ELSE lock)
               /\ Ends(p, "returned")
      <4>1. lock # p \/ p \in guard
        BY <1>8 DEF DropLockfile, HostTypeOK, LockOwned, Lockless
      <4> QED
        BY <3>2, <4>1 DEF Ends, Removes, HostTypeOK, StaleLockHasCause, Alive
    <3> QED BY <1>8, <3>1, <3>2 DEF DropLockfile
  <2>4. SetUpInOrder'
    BY <1>8 DEF DropLockfile, Removes, Ends, DropsActors, mainVars,
       actorVars, kernelVars, HostTypeOK, SetUpInOrder
  <2>5. RuleAddedOnce'
    <3>1. config' = config /\ rules' = rules
      BY <1>8 DEF DropLockfile, Removes, Ends, DropsActors, mainVars,
         actorVars, kernelVars
    <3>2. \A q \in Proc : pc'[q] = "unborn" => pc[q] = "unborn"
      BY <1>8 DEF DropLockfile, Removes, Ends, DropsActors, mainVars,
         actorVars, kernelVars, HostTypeOK
    <3>3. \A q \in Proc : net'[q] = "apply" /\ q \notin saw'
                        => net[q] = "apply" /\ q \notin saw
      BY <1>8 DEF DropLockfile, Removes, Ends, DropsActors, mainVars,
         actorVars, kernelVars, HostTypeOK
    <3> QED BY <3>1, <3>2, <3>3, RuleKept
  <2> QED BY <2>1, <2>2, <2>3, <2>4, <2>5
<1>9. ASSUME NEW p \in Proc, StartAgent(p) PROVE HostInv'
  <2>1. HostTypeOK'
    BY <1>9 DEF StartAgent, Net, mainVars, actorVars, kernelVars, HostTypeOK,
       Runs
  <2>2. LockOwned'
    BY <1>9 DEF StartAgent, Net, mainVars, actorVars, kernelVars, HostTypeOK,
       LockOwned, Started, Lockless
  <2>3. StaleLockHasCause'
    BY <1>9 DEF StartAgent, Net, mainVars, actorVars, kernelVars, HostTypeOK,
       LockOwned, Started, Lockless, StaleLockHasCause, Alive
  <2>4. SetUpInOrder'
    BY <1>9 DEF StartAgent, Net, mainVars, actorVars, kernelVars, HostTypeOK,
       SetUpInOrder
  <2>5. RuleAddedOnce'
    BY <1>9 DEF StartAgent, Net, mainVars, actorVars, kernelVars, HostTypeOK,
       RuleAddedOnce, Lockless
  <2> QED BY <2>1, <2>2, <2>3, <2>4, <2>5
<1>10. ASSUME NEW p \in Proc, AgentDies(p) PROVE HostInv'
  <2>1. HostTypeOK'
    BY <1>10 DEF AgentDies, mainVars, actorVars, kernelVars, HostTypeOK, Runs
  <2>2. LockOwned'
    BY <1>10 DEF AgentDies, mainVars, actorVars, kernelVars, HostTypeOK,
       LockOwned, Started, Lockless
  <2>3. StaleLockHasCause'
    BY <1>10 DEF AgentDies, mainVars, actorVars, kernelVars, HostTypeOK,
       LockOwned, Started, Lockless, StaleLockHasCause, Alive
  <2>4. SetUpInOrder'
    BY <1>10 DEF AgentDies, mainVars, actorVars, kernelVars, HostTypeOK,
       SetUpInOrder
  <2>5. RuleAddedOnce'
    BY <1>10 DEF AgentDies, mainVars, actorVars, kernelVars, HostTypeOK,
       RuleAddedOnce, Lockless
  <2> QED BY <2>1, <2>2, <2>3, <2>4, <2>5
<1>11. ASSUME NEW p \in Proc, LookupBridge(p) PROVE HostInv'
  <2>1. HostTypeOK'
    BY <1>11 DEF LookupBridge, Net, mainVars, actorVars, kernelVars,
       HostTypeOK, Runs
  <2>2. LockOwned'
    BY <1>11 DEF LookupBridge, Net, mainVars, actorVars, kernelVars,
       HostTypeOK, LockOwned, Started, Lockless
  <2>3. StaleLockHasCause'
    BY <1>11 DEF LookupBridge, Net, mainVars, actorVars, kernelVars,
       HostTypeOK, LockOwned, Started, Lockless, StaleLockHasCause, Alive
  <2>4. SetUpInOrder'
    BY <1>11 DEF LookupBridge, Net, mainVars, actorVars, kernelVars,
       HostTypeOK, SetUpInOrder
  <2>5. RuleAddedOnce'
    BY <1>11 DEF LookupBridge, Net, mainVars, actorVars, kernelVars,
       HostTypeOK, RuleAddedOnce, Lockless
  <2> QED BY <2>1, <2>2, <2>3, <2>4, <2>5
<1>12. ASSUME NEW p \in Proc, CreateBridge(p) PROVE HostInv'
  <2>1. HostTypeOK'
    BY <1>12 DEF CreateBridge, Net, mainVars, actorVars, kernelVars,
       HostTypeOK, Runs
  <2>2. LockOwned'
    BY <1>12 DEF CreateBridge, Net, mainVars, actorVars, kernelVars,
       HostTypeOK, LockOwned, Started, Lockless
  <2>3. StaleLockHasCause'
    BY <1>12 DEF CreateBridge, Net, mainVars, actorVars, kernelVars,
       HostTypeOK, LockOwned, Started, Lockless, StaleLockHasCause, Alive
  <2>4. SetUpInOrder'
    BY <1>12 DEF CreateBridge, Net, mainVars, actorVars, kernelVars,
       HostTypeOK, SetUpInOrder
  <2>5. RuleAddedOnce'
    BY <1>12 DEF CreateBridge, Net, mainVars, actorVars, kernelVars,
       HostTypeOK, RuleAddedOnce, Lockless
  <2> QED BY <2>1, <2>2, <2>3, <2>4, <2>5
<1>13. ASSUME NEW p \in Proc, SpawnDhcp(p) PROVE HostInv'
  <2>1. HostTypeOK'
    BY <1>13 DEF SpawnDhcp, Net, mainVars, actorVars, kernelVars, HostTypeOK,
       Runs
  <2>2. LockOwned'
    BY <1>13 DEF SpawnDhcp, Net, mainVars, actorVars, kernelVars, HostTypeOK,
       LockOwned, Started, Lockless
  <2>3. StaleLockHasCause'
    BY <1>13 DEF SpawnDhcp, Net, mainVars, actorVars, kernelVars, HostTypeOK,
       LockOwned, Started, Lockless, StaleLockHasCause, Alive
  <2>4. SetUpInOrder'
    BY <1>13 DEF SpawnDhcp, Net, mainVars, actorVars, kernelVars, HostTypeOK,
       SetUpInOrder
  <2>5. RuleAddedOnce'
    BY <1>13 DEF SpawnDhcp, Net, mainVars, actorVars, kernelVars, HostTypeOK,
       RuleAddedOnce, Lockless
  <2> QED BY <2>1, <2>2, <2>3, <2>4, <2>5
<1>14. ASSUME NEW p \in Proc, ensure_address(p) PROVE HostInv'
  <2>1. HostTypeOK'
    BY <1>14 DEF ensure_address, Net, mainVars, actorVars, kernelVars,
       HostTypeOK, Runs
  <2>2. LockOwned'
    BY <1>14 DEF ensure_address, Net, mainVars, actorVars, kernelVars,
       HostTypeOK, LockOwned, Started, Lockless
  <2>3. StaleLockHasCause'
    BY <1>14 DEF ensure_address, Net, mainVars, actorVars, kernelVars,
       HostTypeOK, LockOwned, Started, Lockless, StaleLockHasCause, Alive
  <2>4. SetUpInOrder'
    BY <1>14 DEF ensure_address, Net, mainVars, actorVars, kernelVars,
       HostTypeOK, SetUpInOrder
  <2>5. RuleAddedOnce'
    BY <1>14 DEF ensure_address, Net, mainVars, actorVars, kernelVars,
       HostTypeOK, RuleAddedOnce, Lockless
  <2> QED BY <2>1, <2>2, <2>3, <2>4, <2>5
<1>15. ASSUME NEW p \in Proc, FetchRuleset(p) PROVE HostInv'
  <2>1. HostTypeOK'
    BY <1>15 DEF FetchRuleset, Net, mainVars, actorVars, kernelVars,
       HostTypeOK, Runs
  <2>2. LockOwned'
    BY <1>15 DEF FetchRuleset, Net, mainVars, actorVars, kernelVars,
       HostTypeOK, LockOwned, Started, Lockless
  <2>3. StaleLockHasCause'
    BY <1>15 DEF FetchRuleset, Net, mainVars, actorVars, kernelVars,
       HostTypeOK, LockOwned, Started, Lockless, StaleLockHasCause, Alive
  <2>4. SetUpInOrder'
    BY <1>15 DEF FetchRuleset, Net, mainVars, actorVars, kernelVars,
       HostTypeOK, SetUpInOrder
  <2>5. RuleAddedOnce'
    BY <1>15 DEF FetchRuleset, Net, mainVars, actorVars, kernelVars,
       HostTypeOK, RuleAddedOnce, Lockless, LockOwned, Started, Runs,
       SetUpInOrder
  <2> QED BY <2>1, <2>2, <2>3, <2>4, <2>5
<1>16. ASSUME NEW p \in Proc, ApplyRuleset(p) PROVE HostInv'
  <2>1. HostTypeOK'
    BY <1>16 DEF ApplyRuleset, AddsRule, Net, mainVars, actorVars,
       kernelVars, HostTypeOK, Runs
  <2>2. LockOwned'
    BY <1>16 DEF ApplyRuleset, AddsRule, Net, mainVars, actorVars,
       kernelVars, HostTypeOK, LockOwned, Started, Lockless
  <2>3. StaleLockHasCause'
    BY <1>16 DEF ApplyRuleset, AddsRule, Net, mainVars, actorVars,
       kernelVars, HostTypeOK, LockOwned, Started, Lockless,
       StaleLockHasCause, Alive
  <2>4. SetUpInOrder'
    BY <1>16 DEF ApplyRuleset, AddsRule, Net, mainVars, actorVars,
       kernelVars, HostTypeOK, SetUpInOrder
  <2>5. RuleAddedOnce'
    BY <1>16 DEF ApplyRuleset, AddsRule, Net, mainVars, actorVars,
       kernelVars, HostTypeOK, RuleAddedOnce, Lockless, LockOwned, Started,
       Runs, SetUpInOrder
  <2> QED BY <2>1, <2>2, <2>3, <2>4, <2>5
<1>17. ASSUME NEW p \in Proc, StartFails(p) PROVE HostInv'
  <2>1. HostTypeOK'
    <3>1. dhcp' \in [Proc -> {"none", "starting", "up", "stopping", "dead"}]
      BY <1>17 DEF StartFails, DhcpStopping, HostTypeOK
    <3>2. \A q \in Proc : q # p => dhcp'[q] = dhcp[q]
      BY <1>17 DEF StartFails, DhcpStopping, HostTypeOK
    <3>3. bridge' \in BOOLEAN
      BY <1>17 DEF StartFails, HostTypeOK
    <3>4. \A q \in Proc : (~Runs(q))' =>
             (agent[q] = "none" /\ net[q] = "none" /\ dhcp[q] = "none" /\ q \notin saw)'
      BY <1>17, <3>2 DEF StartFails, Net, mainVars, HostTypeOK, Runs
    <3> QED
      BY <1>17, <3>1, <3>3, <3>4 DEF StartFails, Net, mainVars, HostTypeOK
  <2>2. LockOwned'
    BY <1>17 DEF StartFails, DhcpStopping, Net, mainVars, actorVars,
       kernelVars, HostTypeOK, LockOwned, Started, Lockless
  <2>3. StaleLockHasCause'
    BY <1>17 DEF StartFails, DhcpStopping, Net, mainVars, actorVars,
       kernelVars, HostTypeOK, LockOwned, Started, Lockless,
       StaleLockHasCause, Alive
  <2>4. SetUpInOrder'
    BY <1>17 DEF StartFails, DhcpStopping, Net, mainVars, actorVars,
       kernelVars, HostTypeOK, SetUpInOrder
  <2>5. RuleAddedOnce'
    BY <1>17 DEF StartFails, DhcpStopping, Net, mainVars, actorVars,
       kernelVars, HostTypeOK, RuleAddedOnce, Lockless
  <2> QED BY <2>1, <2>2, <2>3, <2>4, <2>5
<1>18. ASSUME NEW p \in Proc, NetworkLinkDied(p) PROVE HostInv'
  <2>1. HostTypeOK'
    BY <1>18 DEF NetworkLinkDied, StopsDhcp, DhcpStopping, Net, mainVars,
       actorVars, kernelVars, HostTypeOK, Runs
  <2>2. LockOwned'
    BY <1>18 DEF NetworkLinkDied, StopsDhcp, DhcpStopping, Net, mainVars,
       actorVars, kernelVars, HostTypeOK, LockOwned, Started, Lockless
  <2>3. StaleLockHasCause'
    BY <1>18 DEF NetworkLinkDied, StopsDhcp, DhcpStopping, Net, mainVars,
       actorVars, kernelVars, HostTypeOK, LockOwned, Started, Lockless,
       StaleLockHasCause, Alive
  <2>4. SetUpInOrder'
    BY <1>18 DEF NetworkLinkDied, StopsDhcp, DhcpStopping, Net, mainVars,
       actorVars, kernelVars, HostTypeOK, SetUpInOrder
  <2>5. RuleAddedOnce'
    BY <1>18 DEF NetworkLinkDied, StopsDhcp, DhcpStopping, Net, mainVars,
       actorVars, kernelVars, HostTypeOK, RuleAddedOnce, Lockless
  <2> QED BY <2>1, <2>2, <2>3, <2>4, <2>5
<1>19. ASSUME NEW p \in Proc, DhcpStart(p) PROVE HostInv'
  <2>1. HostTypeOK'
    BY <1>19 DEF DhcpStart, mainVars, actorVars, kernelVars, HostTypeOK, Runs
  <2>2. LockOwned'
    BY <1>19 DEF DhcpStart, mainVars, actorVars, kernelVars, HostTypeOK,
       LockOwned, Started, Lockless
  <2>3. StaleLockHasCause'
    BY <1>19 DEF DhcpStart, mainVars, actorVars, kernelVars, HostTypeOK,
       LockOwned, Started, Lockless, StaleLockHasCause, Alive
  <2>4. SetUpInOrder'
    BY <1>19 DEF DhcpStart, mainVars, actorVars, kernelVars, HostTypeOK,
       SetUpInOrder
  <2>5. RuleAddedOnce'
    BY <1>19 DEF DhcpStart, mainVars, actorVars, kernelVars, HostTypeOK,
       RuleAddedOnce, Lockless
  <2> QED BY <2>1, <2>2, <2>3, <2>4, <2>5
<1>20. ASSUME NEW p \in Proc, DhcpStop(p) PROVE HostInv'
  <2>1. HostTypeOK'
    BY <1>20 DEF DhcpStop, mainVars, actorVars, kernelVars, HostTypeOK, Runs
  <2>2. LockOwned'
    BY <1>20 DEF DhcpStop, mainVars, actorVars, kernelVars, HostTypeOK,
       LockOwned, Started, Lockless
  <2>3. StaleLockHasCause'
    BY <1>20 DEF DhcpStop, mainVars, actorVars, kernelVars, HostTypeOK,
       LockOwned, Started, Lockless, StaleLockHasCause, Alive
  <2>4. SetUpInOrder'
    BY <1>20 DEF DhcpStop, mainVars, actorVars, kernelVars, HostTypeOK,
       SetUpInOrder
  <2>5. RuleAddedOnce'
    BY <1>20 DEF DhcpStop, mainVars, actorVars, kernelVars, HostTypeOK,
       RuleAddedOnce, Lockless
  <2> QED BY <2>1, <2>2, <2>3, <2>4, <2>5
<1>21. CASE OperatorUnlocks
  BY <1>21 DEF OperatorUnlocks, HostTypeOK, LockOwned, Started, Lockless, StaleLockHasCause,
         Alive, SetUpInOrder, RuleAddedOnce, Runs, mainVars, actorVars, kernelVars
<1>22. CASE UNCHANGED hostVars
  BY <1>22 DEF hostVars, HostTypeOK, LockOwned, Started, Lockless, StaleLockHasCause,
         Alive, SetUpInOrder, RuleAddedOnce, Runs, mainVars, actorVars, kernelVars
<1> QED
  BY <1>1, <1>2, <1>3, <1>4, <1>5, <1>6, <1>7, <1>8, <1>9, <1>10, <1>11,
     <1>12, <1>13, <1>14, <1>15, <1>16, <1>17, <1>18, <1>19, <1>20, <1>21,
     <1>22 DEF HostNext, MainNext, ActorNext, InnerMainReturns, LeaveMainloop
-----------------------------------------------------------------------------
\* HostInv holds in every state of every host.
THEOREM HostInvariance == HostSpec => []HostInv
BY HostInitInv, HostNextInv, PTL DEF HostSpec

\* Type correctness: actors exist only between the spawn of inner_main and the drop
\* of the runtime (main.rs).
THEOREM HostTypeCorrect == HostSpec => []HostTypeOK
<1>1. HostInv => HostTypeOK
  BY DEF HostInv
<1> QED BY <1>1, HostInvariance, PTL

\* "Only 1 instance of odorobo should run": init_lockfile lets one process past
\* the lock file at a time, whatever became of the processes before it.
THEOREM LockExclusion == HostSpec => []LockExcludes
<1>1. HostInv => LockExcludes
  BY DEF HostInv, LockOwned, Started, LockExcludes
<1> QED BY <1>1, HostInvariance, PTL

\* A lock file is left behind by a kill, a second signal or a failing file
\* operation, and by no other end of a process (Lockfile::drop, mainloop).
THEOREM StaleLockCause == HostSpec => []StaleLockHasCause
<1>1. HostInv => StaleLockHasCause
  BY DEF HostInv
<1> QED BY <1>1, HostInvariance, PTL

\* A network actor that has started has its bridge, its address and exactly one
\* NAT rule, however many processes died in their own start before
\* (NetworkAgentActor::on_start, ensure_nat_rules).
THEOREM NetworkExact == HostSpec => []NetworkUpIsExact
<1>1. HostInv => NetworkUpIsExact
  BY DEF HostInv, SetUpInOrder, RuleAddedOnce, NetworkUpIsExact
<1> QED BY <1>1, HostInvariance, PTL
=============================================================================
