------------------------------ MODULE Placement ------------------------------
(***************************************************************************)
(* The choice of an agent for a create request (scheduler_actor/           *)
(* scheduling.rs) in full: both resources, affinity rules and the          *)
(* comparison of scores.  Scheduler keeps one resource and no rules; this  *)
(* module is about what that leaves out.  The choice is a function of the  *)
(* request and of the agents in the order in which they are met, and       *)
(* changes nothing: a behaviour is one request.                            *)
(*                                                                         *)
(* Abstractions.                                                           *)
(*  - An agent is its cached status with the pending totals already added  *)
(*    (pending_resources is Scheduler's), its metadata, and the VMs that   *)
(*    its status, its index entry and the placements name.                 *)
(*  - There is one metadata key per table.  A value is a number, or        *)
(*    NotANumber for any text that f64 does not parse.                     *)
(*  - The f32 sum of the two headrooms is the exact fraction num / den, and*)
(*    NaN when den is 0.  A fraction is never negative, so -1 stands for   *)
(*    minus infinity.                                                      *)
(*  - The hash map yields the agents in the order of a sequence.           *)
(***************************************************************************)
EXTENDS Integers, Sequences, FiniteSets, SequencesExt

CONSTANTS
    UintMax,        \* u32::MAX and u64::MAX, scaled down
    I64Min, I64Max, \* the range of an affinity total, scaled down
    NoValue,        \* the key is not in the table
    VmMetadata,     \* metadata tables of the VMs that have a manifest
    Candidate,      \* agents as the scheduler may see them
    Request         \* requests that a client may send

VARIABLE request    \* the request that reaches schedule_agent, or NoRequest

NotANumber == -1
VCPU_OVERPROVISIONMENT == 2

SatAdd(a, b) == IF a + b > UintMax THEN UintMax ELSE a + b
SatMul(a, b) == IF a * b > UintMax THEN UintMax ELSE a * b
Clamp(n) == IF n > I64Max THEN I64Max ELSE IF n < I64Min THEN I64Min ELSE n

ASSUME RangeAssumption ==
    UintMax \in Nat /\ I64Min \in Int /\ I64Max \in Int /\ I64Min <= 0 /\ 0 <= I64Max

\* No machine has so many vCPUs that twice their number leaves a u32, or a memory of
\* u64::MAX bytes.
ASSUME CandidateAssumption ==
    \A x \in Candidate :
        /\ x.vcpus \in Nat /\ x.used_vcpus \in Nat
        /\ x.ram \in Nat /\ x.used_ram \in Nat
        /\ VCPU_OVERPROVISIONMENT * x.vcpus < UintMax /\ x.ram < UintMax

\* A request is of any size; its rules are a list, with weights of either sign.
ASSUME RequestAssumption ==
    \A msg \in Request :
        /\ msg.vcpus \in Nat /\ msg.memory \in Nat
        /\ Len(msg.affinity) \in Nat
        /\ DOMAIN msg.affinity = 1 .. Len(msg.affinity)
        /\ \A i \in DOMAIN msg.affinity : msg.affinity[i].weight \in Int

-----------------------------------------------------------------------------
(* What reaches the scheduler.                                             *)

\* Mutant: a manifest without compute resources is let through.
deserialized_unchecked(msg) == TRUE

\* The part of a manifest's validation that the score depends on: Deserialize
\* refuses a manifest that fails it.
deserialized(msg) ==
    /\ msg.vcpus > 0 /\ msg.memory > 0
    /\ \A i \in DOMAIN msg.affinity : \A r \in msg.affinity[i].requirements :
          r.operator \in {"Lt", "Gt"} =>
              Len(r.values) = 1 /\ r.values[1] # NotANumber

-----------------------------------------------------------------------------
(* Affinity.                                                               *)

evaluate_table_value(value, r) ==
    CASE value = NoValue -> r.operator = "NotIn"
      [] value # NoValue /\ r.operator = "In" -> Contains(r.values, value)
      [] value # NoValue /\ r.operator = "NotIn" -> ~Contains(r.values, value)
      [] OTHER ->
            /\ Len(r.values) = 1
            /\ value # NotANumber /\ r.values[1] # NotANumber
            /\ IF r.operator = "Lt" THEN value < r.values[1]
                                    ELSE value > r.values[1]

\* Requirements are OR-ed; each must hold of every table, and there must be one.
evaluate_affinity_rule(tables, rule) ==
    LET follows == \E r \in rule.requirements :
            /\ tables # {}
            /\ \A t \in tables : evaluate_table_value(t[r.table], r)
    IN  follows # rule.inverse

\* Every VM the scheduler connects with the agent, whether or not the agent has
\* reported it yet.
placement_vm_ids(agent) == agent.observed \cup agent.indexed \cup agent.placed

Tables(rule, agent) ==
    IF rule.affinity_type = "Agent" THEN {agent.metadata}
    ELSE {VmMetadata[v] : v \in placement_vm_ids(agent) \cap DOMAIN VmMetadata}

Rejects(rule, follows) == rule.strictness = "Required" /\ ~follows

affinity_delta(rule, follows) ==
    IF rule.strictness = "Preferred" /\ follows THEN rule.weight ELSE 0

-----------------------------------------------------------------------------
(* Scores.                                                                 *)

Rejected == [affinity |-> I64Min, general |-> [num |-> -1, den |-> 1]]

has_both_capacities(max_vcpus, used_vcpus, vcpus, max_ram, used_ram, ram) ==
    SatAdd(used_vcpus, vcpus) <= max_vcpus /\ SatAdd(used_ram, ram) <= max_ram

\* The sum of a / b and c / d.
Headroom(a, b, c, d) == [num |-> a * d + c * b, den |-> b * d]

AffinityTotal(msg, agent) ==
    FoldLeft(LAMBDA total, rule :
                Clamp(total + affinity_delta(rule,
                    evaluate_affinity_rule(Tables(rule, agent), rule))),
             0, msg.affinity)

score_agent(msg, agent) ==
    LET max_vcpus == SatMul(agent.vcpus, VCPU_OVERPROVISIONMENT)
        fits == has_both_capacities(max_vcpus, agent.used_vcpus, msg.vcpus,
                                    agent.ram, agent.used_ram, msg.memory)
        refused == \E i \in DOMAIN msg.affinity :
            LET rule == msg.affinity[i]
            IN  Rejects(rule, evaluate_affinity_rule(Tables(rule, agent), rule))
    IN  IF ~fits \/ refused THEN Rejected
        ELSE [affinity |-> AffinityTotal(msg, agent),
              general |-> Headroom(
                  max_vcpus - SatAdd(agent.used_vcpus, msg.vcpus), max_vcpus,
                  agent.ram - SatAdd(agent.used_ram, msg.memory), agent.ram)]

\* Mutant: only the affinity totals are compared.
better_by_affinity(s, t) == s.affinity > t.affinity

\* `score > best_score`: false when partial_cmp has no answer.
better(s, t) ==
    \/ s.affinity > t.affinity
    \/ /\ s.affinity = t.affinity
       /\ s.general.den # 0 /\ t.general.den # 0
       /\ s.general.num * t.general.den > t.general.num * s.general.den

\* The loop over the agents.  No agent is the empty set.
best_agent(msg, agents) ==
    FoldLeft(LAMBDA best, agent :
                LET score == score_agent(msg, agent)
                IN  IF better(score, best.score)
                    THEN [agent |-> {agent}, score |-> score] ELSE best,
             [agent |-> {}, score |-> Rejected], agents)

-----------------------------------------------------------------------------
(* Properties.                                                             *)

\* What a client may rely on, in exact arithmetic: the request fits beside what
\* is used and reserved, and every required rule is followed.
Acceptable(msg, agent) ==
    /\ agent.used_vcpus + msg.vcpus <= VCPU_OVERPROVISIONMENT * agent.vcpus
    /\ agent.used_ram + msg.memory <= agent.ram
    /\ \A i \in DOMAIN msg.affinity :
          msg.affinity[i].strictness = "Required" =>
              evaluate_affinity_rule(Tables(msg.affinity[i], agent), msg.affinity[i])

\* A VM is placed exactly when some agent can take it, and then on one that can:
\* no saturation of a total, no weight and no overflow of a huge request turns an
\* acceptable agent into a rejected one or the other way round.
PlacedWhenPossible(msg, agents) ==
    LET best == best_agent(msg, agents)
    IN  /\ best.agent = {} <=> \A i \in DOMAIN agents : ~Acceptable(msg, agents[i])
        /\ \A z \in best.agent : Acceptable(msg, z)

\* Two scores that compare as equal, whatever fractions they are written as.
SameScore(s, t) ==
    /\ s.affinity = t.affinity
    /\ s.general.den # 0 /\ t.general.den # 0
    /\ s.general.num * t.general.den = t.general.num * s.general.den

-----------------------------------------------------------------------------
NoRequest == [affinity |-> <<>>]

PlacementInit == request \in {NoRequest} \cup {msg \in Request : deserialized(msg)}

PlacementSpec == PlacementInit /\ [][UNCHANGED request]_request

\* A request is placed exactly when one of two agents can take it, and on one
\* that can (schedule_agent).
PlacesWheneverPossible ==
    request # NoRequest =>
        \A x, y \in Candidate : PlacedWhenPossible(request, <<x, y>>)

\* The order in which the hash map yields the agents decides between equal
\* scores only: no score that reaches the comparison is incomparable (NaN).
ChoiceIndependentOfOrder ==
    request # NoRequest =>
        \A x, y \in Candidate :
            SameScore(best_agent(request, <<x, y>>).score,
                      best_agent(request, <<y, x>>).score)
=============================================================================
