----------------------------- MODULE MCScheduler -----------------------------
(***************************************************************************)
(* Small instances of Scheduler for TLC, and the bounded requests and      *)
(* agents on which the choice of Placement is checked: each request is an  *)
(* initial state of its own, in which the scheduler does nothing.          *)
(***************************************************************************)
EXTENDS Scheduler, Placement, TLC

CONSTANTS v1, v2, a1, b1, x1, x2

MCVmOf == (a1 :> v1) @@ (b1 :> v2)
MCCapacity == (x1 :> 2) @@ (x2 :> 2)

Symmetry == Permutations(Agent)

-----------------------------------------------------------------------------
MCI64Min == -4

Table(l, n) == [label |-> l, annotation |-> n]

\* VMs by their metadata; a third VM ("w3") has no manifest.
MCVmMetadata == [w1 |-> Table(1, NotANumber), w2 |-> Table(2, NoValue)]

Host(cpus, uc, r, ur, meta, obs, ind, pl) ==
    [vcpus |-> cpus, used_vcpus |-> uc, ram |-> r, used_ram |-> ur,
     metadata |-> meta, observed |-> obs, indexed |-> ind, placed |-> pl]

\* Agents that differ in capacity, and agents that differ in what rules see.
MCCandidate ==
    {Host(cpus, uc, r, ur, Table(1, NoValue), {}, {}, {}) :
        cpus \in 0 .. 1, uc \in 0 .. 1, r \in 0 .. 2, ur \in 0 .. 1}
    \cup {Host(1, 0, 3, 0, Table(l, n), {}, {}, {}) :
        l \in {NoValue, 0, 2}, n \in {NoValue, NotANumber}}
    \cup {Host(1, 0, 3, 0, Table(1, NoValue), obs, ind, pl) :
        obs \in {{}, {"w1"}, {"w3"}}, ind \in {{}, {"w3"}}, pl \in {{}, {"w2"}}}

Requirement(t, op, vals) == [table |-> t, operator |-> op, values |-> vals]
AffinityRule(kind, inv, strict, w, reqs) ==
    [affinity_type |-> kind, inverse |-> inv, strictness |-> strict,
     weight |-> w, requirements |-> reqs]

MCRules ==
    {AffinityRule(kind, inv, s[1], s[2], reqs) :
        kind \in {"Agent", "VirtualMachine"}, inv \in BOOLEAN,
        s \in {<<"Required", 0>>, <<"Preferred", I64Min>>, <<"Preferred", 1>>},
        reqs \in {{}, {Requirement("label", "Lt", <<2>>)},
                  {Requirement("label", "Gt", <<NotANumber>>)},
                  {Requirement("label", "In", <<1>>),
                   Requirement("annotation", "NotIn", <<1>>)}}}

\* Pairs whose totals saturate on the way.
Pair(w1, w2) ==
    <<AffinityRule("Agent", TRUE, "Preferred", w1, {}),
      AffinityRule("Agent", FALSE, "Preferred", w2,
                   {Requirement("label", "Gt", <<0>>)})>>

MCRequest ==
    {[vcpus |-> c, memory |-> r, affinity |-> <<>>] :
        c, r \in {0, 1, 2, UintMax}}
    \cup {[vcpus |-> 1, memory |-> 1, affinity |-> <<rule>>] : rule \in MCRules}
    \cup {[vcpus |-> 1, memory |-> 1, affinity |-> Pair(w, u)] :
             w, u \in {I64Min, -1, 1, I64Max}}

MCInit == SchedInit /\ PlacementInit

MCNext == request = NoRequest /\ SchedNext /\ UNCHANGED request

MCSpec == MCInit /\ [][MCNext]_<<schedVars, request>>

=============================================================================
