--------------------------- MODULE PlacementProofs ---------------------------
(***************************************************************************)
(* Proofs about the choice of an agent (Placement), for requests of any    *)
(* size with any number of rules and for any number of agents: a VM is     *)
(* placed exactly when an agent can take it, and the order in which the    *)
(* agents are met decides between equal scores only.                       *)
(***************************************************************************)
EXTENDS Placement, SumProofs

\* What the proofs use of an agent and of a request.
AgentFacts(x) ==
    /\ x.vcpus \in Nat /\ x.used_vcpus \in Nat
    /\ x.ram \in Nat /\ x.used_ram \in Nat
    /\ 2 * x.vcpus < UintMax /\ x.ram < UintMax

\* A request that passed validation asks for something and has a list of weighted rules.
RequestFacts(msg) ==
    /\ msg.vcpus \in Nat /\ msg.memory \in Nat /\ msg.vcpus > 0 /\ msg.memory > 0
    /\ Len(msg.affinity) \in Nat
    /\ DOMAIN msg.affinity = 1 .. Len(msg.affinity)
    /\ \A i \in DOMAIN msg.affinity : msg.affinity[i].weight \in Int

-----------------------------------------------------------------------------
(* The affinity total.                                                     *)

\* One round of score_agent's loop over the rules, taken out of the fold.
AffinityStep(total, rule, agent) ==
    Clamp(total + affinity_delta(rule,
              evaluate_affinity_rule(Tables(rule, agent), rule)))

\* g is that fold over the indices of the rules, and the one that the model chooses.
AffinitySolves(g, msg, agent) ==
    g = [s \in SUBSET (DOMAIN msg.affinity) |->
            IF s = {} THEN 0
            ELSE AffinityStep(g[s \ {Max(s)}], msg.affinity[Max(s)], agent)]

AffinityFcn(msg, agent) == CHOOSE g : AffinitySolves(g, msg, agent)

\* The model's total is this fold over all the indices.
LEMMA AffinityIsFold ==
    ASSUME NEW msg, NEW agent
    PROVE  AffinityTotal(msg, agent) = AffinityFcn(msg, agent)[DOMAIN msg.affinity]
  BY DEF AffinityTotal, FoldLeft, MapThenFoldSet, AffinityFcn, AffinitySolves, AffinityStep

\* A total never leaves the range of an i64.
LEMMA AffinityStepType ==
    ASSUME NEW total \in I64Min .. I64Max, NEW rule, rule.weight \in Int, NEW agent
    PROVE  AffinityStep(total, rule, agent) \in I64Min .. I64Max
<1> DEFINE delta == affinity_delta(rule, evaluate_affinity_rule(Tables(rule, agent), rule))
<1>1. delta \in Int
  BY DEF affinity_delta
<1> HIDE DEF delta
<1>2. Clamp(total + delta) \in I64Min .. I64Max
  BY <1>1, RangeAssumption DEF Clamp
<1> QED BY <1>2 DEF AffinityStep, delta

\* The total stays in the range of an i64, whatever the weights.
LEMMA AffinityType ==
    ASSUME NEW msg, RequestFacts(msg), NEW agent
    PROVE  AffinityTotal(msg, agent) \in I64Min .. I64Max
<1> DEFINE State == I64Min .. I64Max
           n == Len(msg.affinity)
           step == [p \in State \X (1 .. n) |-> AffinityStep(p[1], msg.affinity[p[2]], agent)]
<1>1. n \in Nat /\ DOMAIN msg.affinity = 1 .. n /\ 0 \in State
  BY RangeAssumption DEF RequestFacts
<1>2. ASSUME NEW p \in State \X (1 .. n)
      PROVE  AffinityStep(p[1], msg.affinity[p[2]], agent) \in State
  <2>1. p[1] \in State /\ p[2] \in 1 .. n /\ msg.affinity[p[2]].weight \in Int
    BY <1>1 DEF RequestFacts
  <2> QED BY <2>1, AffinityStepType
<1>3. step \in [State \X (1 .. n) -> State]
  BY <1>2
<1>4. PICK g : FoldSolves(g, n, State, 0, step)
  <2> HIDE DEF step, State, n
  <2> QED BY <1>1, <1>3, FoldExists
<1>5. ASSUME NEW s \in SUBSET (1 .. n)
      PROVE  g[s] = IF s = {} THEN 0
                    ELSE AffinityStep(g[s \ {Max(s)}], msg.affinity[Max(s)], agent)
  <2>1. CASE s = {}
    BY <1>4, <2>1 DEF FoldSolves
  <2>2. CASE s # {}
    <3>1. Max(s) \in s
      BY <1>1, <2>2, MaxInSet
    <3>2. g[s] = step[<<g[s \ {Max(s)}], Max(s)>>] /\ g[s \ {Max(s)}] \in State
      <4> HIDE DEF step, State, n
      <4> QED BY <1>4, <2>2 DEF FoldSolves
    <3> DEFINE p == <<g[s \ {Max(s)}], Max(s)>>
    <3>3. p \in State \X (1 .. n) /\ p[1] = g[s \ {Max(s)}] /\ p[2] = Max(s)
      BY <3>1, <3>2
    <3> HIDE DEF p
    <3>4. step[p] = AffinityStep(p[1], msg.affinity[p[2]], agent)
      BY <3>3
    <3> HIDE DEF step
    <3> QED BY <2>2, <3>2, <3>3, <3>4 DEF p
  <2> QED BY <2>1, <2>2
<1>6. g = [s \in SUBSET (1 .. n) |-> g[s]] /\ \A s \in SUBSET (1 .. n) : g[s] \in State
  BY <1>4 DEF FoldSolves
<1> HIDE DEF State, n, step
<1>7. AffinitySolves(g, msg, agent)
  BY <1>1, <1>5, <1>6 DEF AffinitySolves
<1>8. AffinitySolves(AffinityFcn(msg, agent), msg, agent)
  BY <1>7 DEF AffinityFcn
<1> DEFINE f == AffinityFcn(msg, agent)
           P == {k \in 0 .. n : f[1 .. k] \in State}
<1>9. \A s \in SUBSET (1 .. n) :
          f[s] = IF s = {} THEN 0
                 ELSE AffinityStep(f[s \ {Max(s)}], msg.affinity[Max(s)], agent)
  BY <1>1, <1>8 DEF AffinitySolves
<1>10. 0 \in P
  <2>1. 1 .. 0 = {} /\ 1 .. 0 \in SUBSET (1 .. n)
    OBVIOUS
  <2>2. f[1 .. 0] = 0
    BY <1>9, <2>1
  <2> QED BY <1>1, <2>2
<1>11. ASSUME NEW k \in 1 .. n, k - 1 \in P
       PROVE  k \in P
  <2>1. f[1 .. k] = AffinityStep(f[1 .. (k - 1)], msg.affinity[k], agent)
    <3> HIDE DEF f
    <3> QED BY <1>1, <1>9, PrefixFacts
  <2>2. msg.affinity[k].weight \in Int
    BY <1>1 DEF RequestFacts
  <2>3. f[1 .. k] \in State
    BY <1>11, <2>1, <2>2, AffinityStepType DEF State
  <2> QED BY <1>1, <2>3
<1>12. n \in P
  <2>1. n \in 0 .. n
    BY <1>1
  <2> HIDE DEF P
  <2> QED BY <1>1, <1>10, <1>11, <2>1, IndexInduction
<1> QED BY <1>1, <1>12, AffinityIsFold DEF State

-----------------------------------------------------------------------------
(* Scores.                                                                 *)

\* A score that compares: it is not NaN.
Comparable(s) ==
    /\ s.affinity \in Int
    /\ s.general.num \in Int
    /\ s.general.den \in Int /\ s.general.den > 0

\* The product of two positive numbers.
LEMMA ProductPositive ==
    ASSUME NEW a \in Int, NEW b \in Int, a > 0, b > 0
    PROVE  a * b \in Int /\ a * b > 0
  OBVIOUS

\* The product of two naturals.
LEMMA ProductNat ==
    ASSUME NEW a \in Nat, NEW b \in Nat
    PROVE  a * b \in Nat
  OBVIOUS

\* Saturation does not decide whether a request fits, because no limit is as high as
\* where it sets in.
LEMMA SaturationIsExact ==
    ASSUME NEW used \in Nat, NEW asked \in Nat, NEW limit \in Nat, limit < UintMax
    PROVE  /\ SatAdd(used, asked) <= limit <=> used + asked <= limit
           /\ used + asked <= limit => SatAdd(used, asked) = used + asked
  BY RangeAssumption DEF SatAdd

\* The overprovisioned number of CPUs of an agent does not saturate.
LEMMA OverprovisionExact ==
    ASSUME NEW x, AgentFacts(x)
    PROVE  SatMul(x.vcpus, VCPU_OVERPROVISIONMENT) = 2 * x.vcpus
  BY RangeAssumption DEF SatMul, VCPU_OVERPROVISIONMENT, AgentFacts

\* An agent that cannot take the request is rejected.
LEMMA UnacceptableRejected ==
    ASSUME NEW msg, RequestFacts(msg), NEW x, AgentFacts(x), ~Acceptable(msg, x)
    PROVE  score_agent(msg, x) = Rejected
<1> DEFINE max_vcpus == SatMul(x.vcpus, VCPU_OVERPROVISIONMENT)
           fits == has_both_capacities(max_vcpus, x.used_vcpus, msg.vcpus,
                                       x.ram, x.used_ram, msg.memory)
<1>1. max_vcpus = 2 * x.vcpus /\ max_vcpus \in Nat /\ max_vcpus < UintMax
  BY OverprovisionExact DEF AgentFacts
<1>2. SatAdd(x.used_vcpus, msg.vcpus) <= max_vcpus <=> x.used_vcpus + msg.vcpus <= max_vcpus
  <2> HIDE DEF max_vcpus
  <2> QED BY <1>1, SaturationIsExact DEF AgentFacts, RequestFacts
<1>3. SatAdd(x.used_ram, msg.memory) <= x.ram <=> x.used_ram + msg.memory <= x.ram
  BY SaturationIsExact DEF AgentFacts, RequestFacts
<1>4. CASE ~fits
  BY <1>4 DEF score_agent
<1>5. CASE fits
  <2>1. /\ x.used_vcpus + msg.vcpus <= 2 * x.vcpus
        /\ x.used_ram + msg.memory <= x.ram
    BY <1>1, <1>2, <1>3, <1>5 DEF has_both_capacities
  <2>2. PICK i \in DOMAIN msg.affinity :
            /\ msg.affinity[i].strictness = "Required"
            /\ ~evaluate_affinity_rule(Tables(msg.affinity[i], x), msg.affinity[i])
    BY <2>1 DEF Acceptable, VCPU_OVERPROVISIONMENT
  <2>3. Rejects(msg.affinity[i], evaluate_affinity_rule(Tables(msg.affinity[i], x),
                                                        msg.affinity[i]))
    BY <2>2 DEF Rejects
  <2> QED BY <2>3 DEF score_agent
<1> QED BY <1>4, <1>5

\* An agent that can take the request has a score that compares, with a headroom that
\* is not negative: both capacities are positive.
LEMMA AcceptableScored ==
    ASSUME NEW msg, RequestFacts(msg), NEW x, AgentFacts(x), Acceptable(msg, x)
    PROVE  LET s == score_agent(msg, x)
           IN  Comparable(s) /\ s.affinity >= I64Min /\ s.general.num >= 0
<1> DEFINE max_vcpus == SatMul(x.vcpus, VCPU_OVERPROVISIONMENT)
           fits == has_both_capacities(max_vcpus, x.used_vcpus, msg.vcpus,
                                       x.ram, x.used_ram, msg.memory)
           freeV == max_vcpus - SatAdd(x.used_vcpus, msg.vcpus)
           freeM == x.ram - SatAdd(x.used_ram, msg.memory)
           s == score_agent(msg, x)
<1>1. max_vcpus = 2 * x.vcpus /\ max_vcpus \in Nat /\ max_vcpus < UintMax
  BY OverprovisionExact DEF AgentFacts
<1>2. /\ SatAdd(x.used_vcpus, msg.vcpus) <= max_vcpus
      /\ SatAdd(x.used_vcpus, msg.vcpus) = x.used_vcpus + msg.vcpus
  <2>1. x.used_vcpus + msg.vcpus <= max_vcpus
    BY <1>1 DEF Acceptable, VCPU_OVERPROVISIONMENT
  <2> HIDE DEF max_vcpus
  <2> QED BY <1>1, <2>1, SaturationIsExact DEF AgentFacts, RequestFacts
<1>3. /\ SatAdd(x.used_ram, msg.memory) <= x.ram
      /\ SatAdd(x.used_ram, msg.memory) = x.used_ram + msg.memory
  <2>1. x.used_ram + msg.memory <= x.ram
    BY DEF Acceptable
  <2> QED BY <2>1, SaturationIsExact DEF AgentFacts, RequestFacts
<1>4. fits
  BY <1>2, <1>3 DEF has_both_capacities
<1>5. ASSUME NEW i \in DOMAIN msg.affinity
      PROVE  ~Rejects(msg.affinity[i], evaluate_affinity_rule(
                          Tables(msg.affinity[i], x), msg.affinity[i]))
  BY DEF Acceptable, Rejects
<1>6. s = [affinity |-> AffinityTotal(msg, x),
           general |-> Headroom(freeV, max_vcpus, freeM, x.ram)]
  <2> HIDE DEF fits
  <2> QED BY <1>4, <1>5 DEF score_agent, fits
<1>7. freeV \in Nat /\ freeM \in Nat /\ max_vcpus > 0 /\ x.ram \in Nat /\ x.ram > 0
  <2>1. msg.vcpus > 0 /\ msg.memory > 0 /\ msg.vcpus \in Nat /\ msg.memory \in Nat
    BY DEF RequestFacts
  <2>2. x.used_vcpus \in Nat /\ x.used_ram \in Nat /\ x.ram \in Nat
    BY DEF AgentFacts
  <2> HIDE DEF max_vcpus
  <2> QED BY <1>1, <1>2, <1>3, <2>1, <2>2
<1>8. AffinityTotal(msg, x) \in I64Min .. I64Max
  BY AffinityType
<1> HIDE DEF max_vcpus, freeV, freeM, s
<1>9. freeV * x.ram \in Nat /\ freeM * max_vcpus \in Nat
  BY <1>1, <1>7, ProductNat
<1>10. max_vcpus * x.ram \in Int /\ max_vcpus * x.ram > 0
  BY <1>1, <1>7, ProductPositive
<1>11. /\ s.affinity = AffinityTotal(msg, x)
       /\ s.general.num = freeV * x.ram + freeM * max_vcpus
       /\ s.general.den = max_vcpus * x.ram
  BY <1>6 DEF Headroom
<1>12. Comparable(s) /\ s.affinity >= I64Min /\ s.general.num >= 0
  BY <1>8, <1>9, <1>10, <1>11, RangeAssumption DEF Comparable
<1> QED BY <1>12 DEF s

\* The rejected score compares too.
LEMMA RejectedComparable == Comparable(Rejected)
  BY RangeAssumption DEF Comparable, Rejected

\* The score of an agent that is not rejected: a total and a fraction of a positive size.
LEMMA ScoreComparable ==
    ASSUME NEW msg, RequestFacts(msg), NEW x, AgentFacts(x)
    PROVE  Comparable(score_agent(msg, x))
  BY UnacceptableRejected, AcceptableScored, RejectedComparable

\* Any agent that can take the request is better than none.
LEMMA AcceptableBeatsRejected ==
    ASSUME NEW msg, RequestFacts(msg), NEW x, AgentFacts(x)
    PROVE  better(score_agent(msg, x), Rejected) <=> Acceptable(msg, x)
<1>1. ASSUME Acceptable(msg, x)
      PROVE  better(score_agent(msg, x), Rejected)
  <2> DEFINE s == score_agent(msg, x)
  <2>1. Comparable(s) /\ s.affinity >= I64Min /\ s.general.num >= 0
    BY <1>1, AcceptableScored
  <2> HIDE DEF s
  <2>2. Rejected.affinity = I64Min /\ Rejected.general.num = -1 /\ Rejected.general.den = 1
    BY DEF Rejected
  <2>3. s.general.num * 1 > (-1) * s.general.den
    BY <2>1 DEF Comparable
  <2>4. better(s, Rejected)
    BY <2>1, <2>2, <2>3, RangeAssumption DEF better, Comparable
  <2> QED BY <2>4 DEF s
<1>2. ASSUME ~Acceptable(msg, x)
      PROVE  ~better(score_agent(msg, x), Rejected)
  <2>1. score_agent(msg, x) = Rejected
    BY <1>2, UnacceptableRejected
  <2>2. ~better(Rejected, Rejected)
    BY RejectedComparable DEF better, Comparable
  <2> QED BY <2>1, <2>2
<1> QED BY <1>1, <1>2

\* Multiplying by a positive number keeps and reflects the order.
LEMMA ProductOrder ==
    ASSUME NEW a \in Int, NEW b \in Int, NEW c \in Int, c > 0
    PROVE  a > b <=> a * c > b * c
  OBVIOUS

\* Fractions are ordered transitively.
LEMMA FractionOrder ==
    ASSUME NEW a \in Int, NEW b \in Int, NEW c \in Int, NEW d \in Int, NEW e \in Int,
           NEW f \in Int, b > 0, d > 0, f > 0,
           ~(a * d > c * b), e * d > c * f
    PROVE  ~(a * f > e * b)
<1>0. /\ a * d \in Int /\ c * b \in Int /\ e * d \in Int
      /\ c * f \in Int /\ a * f \in Int /\ e * b \in Int
  OBVIOUS
<1>1. ~((a * d) * f > (c * b) * f)
  BY <1>0, ProductOrder
<1>2. (e * d) * b > (c * f) * b
  BY <1>0, ProductOrder
<1>3. /\ (a * d) * f = (a * f) * d
      /\ (c * b) * f = (c * f) * b
      /\ (e * d) * b = (e * b) * d
  OBVIOUS
<1>4. ~((a * f) * d > (e * b) * d)
  <2> DEFINE p == (a * f) * d
             q == (c * f) * b
             r == (e * b) * d
  <2>1. p \in Int /\ q \in Int /\ r \in Int
    OBVIOUS
  <2>2. ~(p > q) /\ r > q
    BY <1>1, <1>2, <1>3
  <2> HIDE DEF p, q, r
  <2>3. ~(p > r)
    BY <2>1, <2>2
  <2> QED BY <2>3 DEF p, r
<1> QED BY <1>0, <1>4, ProductOrder

\* What is not better than a score is not better than a better one.
LEMMA BetterIsTransitive ==
    ASSUME NEW s, NEW t, NEW u, Comparable(s), Comparable(t), Comparable(u),
           ~better(s, t), better(u, t)
    PROVE  ~better(s, u)
<1> DEFINE a == s.general.num
           b == s.general.den
           c == t.general.num
           d == t.general.den
           e == u.general.num
           f == u.general.den
<1>1. /\ a \in Int /\ b \in Int /\ c \in Int /\ d \in Int /\ e \in Int /\ f \in Int
      /\ b > 0 /\ d > 0 /\ f > 0
      /\ s.affinity \in Int /\ t.affinity \in Int /\ u.affinity \in Int
  BY DEF Comparable
<1>2. /\ ~(s.affinity > t.affinity)
      /\ s.affinity = t.affinity => ~(a * d > c * b)
  BY <1>1 DEF better
<1>3. \/ u.affinity > t.affinity
      \/ u.affinity = t.affinity /\ e * d > c * f
  BY DEF better
<1>4. CASE u.affinity > t.affinity
  <2>1. ~(s.affinity > u.affinity) /\ s.affinity # u.affinity
    BY <1>1, <1>2, <1>4
  <2> QED BY <2>1 DEF better
<1>5. CASE u.affinity = t.affinity /\ e * d > c * f
  <2>1. ~(s.affinity > u.affinity)
    BY <1>2, <1>5
  <2>2. s.affinity = u.affinity => ~(a * f > e * b)
    <3> HIDE DEF a, b, c, d, e, f
    <3> QED BY <1>1, <1>2, <1>5, FractionOrder
  <2> QED BY <2>1, <2>2 DEF better
<1> QED BY <1>3, <1>4, <1>5

\* Two scores of which neither is better are the same.
LEMMA NeitherBetterSame ==
    ASSUME NEW s, NEW t, Comparable(s), Comparable(t), ~better(s, t), ~better(t, s)
    PROVE  SameScore(s, t)
<1> DEFINE p == s.general.num * t.general.den
           q == t.general.num * s.general.den
<1>1. /\ p \in Int /\ q \in Int /\ s.affinity \in Int /\ t.affinity \in Int
      /\ s.general.den # 0 /\ t.general.den # 0
  BY DEF Comparable
<1>2. s.affinity = t.affinity /\ ~(p > q) /\ ~(q > p)
  BY <1>1 DEF better
<1> HIDE DEF p, q
<1>3. p = q
  BY <1>1, <1>2
<1> QED BY <1>1, <1>2, <1>3 DEF SameScore, p, q

-----------------------------------------------------------------------------
(* The loop over the agents.                                               *)

\* One round of schedule_agent's loop over the agents.
BestStep(msg, best, agent) ==
    LET score == score_agent(msg, agent)
    IN  IF better(score, best.score)
        THEN [agent |-> {agent}, score |-> score] ELSE best

\* No agent was chosen yet.
NoneYet == [agent |-> {}, score |-> Rejected]

\* g is the fold of those rounds, and the one that the model chooses.
BestSolves(g, msg, agents) ==
    g = [s \in SUBSET (DOMAIN agents) |->
            IF s = {} THEN NoneYet
            ELSE BestStep(msg, g[s \ {Max(s)}], agents[Max(s)])]

BestFcn(msg, agents) == CHOOSE g : BestSolves(g, msg, agents)

\* The model's choice is this fold over all the indices.
LEMMA BestIsFold ==
    ASSUME NEW msg, NEW agents
    PROVE  best_agent(msg, agents) = BestFcn(msg, agents)[DOMAIN agents]
  BY DEF best_agent, FoldLeft, MapThenFoldSet, BestFcn, BestSolves, BestStep, NoneYet

\* The values of best after each agent.
IsRun(f, msg, agents) ==
    /\ f[0] = NoneYet
    /\ \A k \in 1 .. Len(agents) : f[k] = BestStep(msg, f[k - 1], agents[k])
    /\ best_agent(msg, agents) = f[Len(agents)]

\* The rounds one by one: best[k] is what the loop holds after the first k agents.
LEMMA LoopRuns ==
    ASSUME NEW msg, NEW A, NEW agents \in Seq(A)
    PROVE  \E f : IsRun(f, msg, agents)
<1> DEFINE State == [agent : SUBSET A, score : {score_agent(msg, x) : x \in A} \cup {Rejected}]
           n == Len(agents)
           step == [p \in State \X (1 .. n) |-> BestStep(msg, p[1], agents[p[2]])]
<1>1. n \in Nat /\ DOMAIN agents = 1 .. n /\ \A i \in 1 .. n : agents[i] \in A
  OBVIOUS
<1>2. NoneYet \in State
  BY DEF NoneYet
<1>3. ASSUME NEW p \in State \X (1 .. n)
      PROVE  BestStep(msg, p[1], agents[p[2]]) \in State
  <2> DEFINE x == agents[p[2]]
  <2>1. p[1] \in State /\ x \in A
    BY <1>1
  <2>2. [agent |-> {x}, score |-> score_agent(msg, x)] \in State
    BY <2>1
  <2> HIDE DEF State, x
  <2> QED BY <2>1, <2>2 DEF BestStep, x
<1>4. step \in [State \X (1 .. n) -> State]
  <2> HIDE DEF State
  <2> QED BY <1>3
<1>5. PICK g : FoldSolves(g, n, State, NoneYet, step)
  <2> HIDE DEF step, State, n
  <2> QED BY <1>1, <1>2, <1>4, FoldExists
<1> HIDE DEF State
<1>6. ASSUME NEW s \in SUBSET (1 .. n)
      PROVE  g[s] = IF s = {} THEN NoneYet
                    ELSE BestStep(msg, g[s \ {Max(s)}], agents[Max(s)])
  <2>1. CASE s = {}
    BY <1>5, <2>1 DEF FoldSolves
  <2>2. CASE s # {}
    <3>1. Max(s) \in s
      BY <1>1, <2>2, MaxInSet
    <3>2. g[s] = step[<<g[s \ {Max(s)}], Max(s)>>] /\ g[s \ {Max(s)}] \in State
      <4> HIDE DEF step, n
      <4> QED BY <1>5, <2>2 DEF FoldSolves
    <3> DEFINE p == <<g[s \ {Max(s)}], Max(s)>>
    <3>3. p \in State \X (1 .. n) /\ p[1] = g[s \ {Max(s)}] /\ p[2] = Max(s)
      BY <3>1, <3>2
    <3> HIDE DEF p
    <3>4. step[p] = BestStep(msg, p[1], agents[p[2]])
      BY <3>3
    <3> HIDE DEF step
    <3> QED BY <2>2, <3>2, <3>3, <3>4 DEF p
  <2> QED BY <2>1, <2>2
<1>7. g = [s \in SUBSET (1 .. n) |-> g[s]]
  BY <1>5 DEF FoldSolves
<1> HIDE DEF n, step
<1>8. BestSolves(g, msg, agents)
  BY <1>1, <1>6, <1>7 DEF BestSolves
<1>9. BestSolves(BestFcn(msg, agents), msg, agents)
  BY <1>8 DEF BestFcn
<1> DEFINE h == BestFcn(msg, agents)
           f == [k \in 0 .. n |-> h[1 .. k]]
<1>10. \A s \in SUBSET (1 .. n) :
          h[s] = IF s = {} THEN NoneYet
                 ELSE BestStep(msg, h[s \ {Max(s)}], agents[Max(s)])
  BY <1>1, <1>9 DEF BestSolves
<1> HIDE DEF h
<1>11. f[0] = NoneYet
  <2>1. 1 .. 0 = {} /\ 1 .. 0 \in SUBSET (1 .. n)
    OBVIOUS
  <2>2. h[1 .. 0] = NoneYet
    BY <1>10, <2>1
  <2> QED BY <1>1, <2>2
<1>12. ASSUME NEW k \in 1 .. n
       PROVE  f[k] = BestStep(msg, f[k - 1], agents[k])
  <2>1. h[1 .. k] = BestStep(msg, h[1 .. (k - 1)], agents[k])
    BY <1>1, <1>10, PrefixFacts
  <2>2. f[k] = h[1 .. k] /\ f[k - 1] = h[1 .. (k - 1)]
    BY <1>1
  <2> QED BY <2>1, <2>2
<1>13. best_agent(msg, agents) = f[n]
  <2>1. f[n] = h[1 .. n]
    BY <1>1
  <2> QED BY <1>1, <2>1, BestIsFold DEF h
<1> HIDE DEF f
<1>14. IsRun(f, msg, agents)
  BY <1>11, <1>12, <1>13 DEF IsRun, n
<1> QED BY <1>14

\* What is known after k agents: best is one of them that can take the request, or none
\* is and no agent yet can; and no agent so far is better.
BestAfter(b, k, msg, agents) ==
    /\ \/ b = NoneYet /\ \A i \in 1 .. k : ~Acceptable(msg, agents[i])
       \/ \E i \in 1 .. k : /\ Acceptable(msg, agents[i])
                            /\ b = [agent |-> {agents[i]},
                                    score |-> score_agent(msg, agents[i])]
    /\ \A i \in 1 .. k : ~better(score_agent(msg, agents[i]), b.score)

\* A round keeps the better of the choice so far and the agent it meets.
LEMMA BestStepKeeps ==
    ASSUME NEW msg, RequestFacts(msg), NEW A, \A x \in A : AgentFacts(x),
           NEW agents \in Seq(A), NEW k \in 1 .. Len(agents), NEW b,
           BestAfter(b, k - 1, msg, agents)
    PROVE  BestAfter(BestStep(msg, b, agents[k]), k, msg, agents)
<1> DEFINE x == agents[k]
           s == score_agent(msg, x)
           new == [agent |-> {x}, score |-> s]
<1>1. /\ k \in Nat /\ k \in 1 .. k
      /\ \A i \in 1 .. k : i = k \/ i \in 1 .. (k - 1)
      /\ \A i \in 1 .. (k - 1) : i \in 1 .. k
      /\ \A i \in 1 .. k : agents[i] \in A
  OBVIOUS
<1>2. \A i \in 1 .. k : Comparable(score_agent(msg, agents[i]))
  BY <1>1, ScoreComparable
<1>3. Comparable(b.score)
  <2>1. CASE b = NoneYet
    BY <2>1, RejectedComparable DEF NoneYet
  <2>2. CASE b # NoneYet
    BY <1>1, <1>2, <2>2 DEF BestAfter
  <2> QED BY <2>1, <2>2
<1>4. CASE better(s, b.score)
  <2>1. BestStep(msg, b, x) = new /\ new.score = s
    BY <1>4 DEF BestStep
  <2>2. Acceptable(msg, x)
    <3> SUFFICES ASSUME ~Acceptable(msg, x)
                 PROVE  FALSE
      OBVIOUS
    <3>1. s = Rejected /\ ~better(s, Rejected)
      BY <1>1, UnacceptableRejected, AcceptableBeatsRejected
    <3>2. b # NoneYet
      BY <1>4, <3>1 DEF NoneYet
    <3>3. PICK i \in 1 .. (k - 1) : /\ Acceptable(msg, agents[i])
                                    /\ b.score = score_agent(msg, agents[i])
      BY <3>2 DEF BestAfter
    <3>4. better(b.score, Rejected)
      BY <1>1, <3>3, AcceptableBeatsRejected
    <3> HIDE DEF s
    <3>5. ~better(s, b.score)
      BY <1>3, <3>1, <3>4, RejectedComparable, BetterIsTransitive
    <3> QED BY <1>4, <3>5
  <2>3. ASSUME NEW i \in 1 .. k
        PROVE  ~better(score_agent(msg, agents[i]), s)
    <3>1. CASE i = k
      <4>1. Comparable(s) /\ ~better(s, s)
        BY <1>1, <1>2 DEF better, Comparable
      <4> QED BY <3>1, <4>1
    <3>2. CASE i \in 1 .. (k - 1)
      <4>1. ~better(score_agent(msg, agents[i]), b.score)
        BY <3>2 DEF BestAfter
      <4> QED BY <1>1, <1>2, <1>3, <1>4, <4>1, BetterIsTransitive
    <3> QED BY <1>1, <3>1, <3>2
  <2> HIDE DEF s
  <2>4. BestAfter(new, k, msg, agents)
    BY <1>1, <2>1, <2>2, <2>3 DEF BestAfter, s
  <2> QED BY <2>1, <2>4
<1>5. CASE ~better(s, b.score)
  <2>1. BestStep(msg, b, x) = b
    BY <1>5 DEF BestStep
  <2>2. \A i \in 1 .. k : ~better(score_agent(msg, agents[i]), b.score)
    BY <1>1, <1>5 DEF BestAfter
  <2>3. CASE b = NoneYet
    <3>1. ~Acceptable(msg, x)
      BY <1>1, <1>5, <2>3, AcceptableBeatsRejected DEF NoneYet
    <3>2. NoneYet.agent = {}
      BY DEF NoneYet
    <3>3. \A i \in 1 .. (k - 1) : ~Acceptable(msg, agents[i])
      <4>1. ~\E i \in 1 .. (k - 1) : b = [agent |-> {agents[i]},
                                          score |-> score_agent(msg, agents[i])]
        BY <2>3, <3>2
      <4> QED BY <4>1 DEF BestAfter
    <3> QED BY <1>1, <2>1, <2>2, <2>3, <3>1, <3>3 DEF BestAfter
  <2>4. CASE b # NoneYet
    BY <1>1, <2>1, <2>2, <2>4 DEF BestAfter
  <2> QED BY <2>3, <2>4
<1> QED BY <1>4, <1>5

\* What is known at the end.
LEMMA BestAtEnd ==
    ASSUME NEW msg, RequestFacts(msg), NEW A, \A x \in A : AgentFacts(x),
           NEW agents \in Seq(A)
    PROVE  BestAfter(best_agent(msg, agents), Len(agents), msg, agents)
<1>1. PICK f : IsRun(f, msg, agents)
  BY LoopRuns
<1> DEFINE n == Len(agents)
           P == {k \in 0 .. n : BestAfter(f[k], k, msg, agents)}
<1>2. n \in Nat
  OBVIOUS
<1>3. 0 \in P
  <2>1. f[0] = NoneYet /\ 1 .. 0 = {}
    BY <1>1 DEF IsRun
  <2>2. BestAfter(NoneYet, 0, msg, agents)
    BY <2>1 DEF BestAfter
  <2> QED BY <1>2, <2>1, <2>2
<1>4. ASSUME NEW k \in 1 .. n, k - 1 \in P
      PROVE  k \in P
  <2>1. f[k] = BestStep(msg, f[k - 1], agents[k])
    BY <1>1 DEF IsRun
  <2>2. BestAfter(f[k], k, msg, agents)
    BY <1>4, <2>1, BestStepKeeps
  <2> QED BY <1>2, <2>2
<1>5. n \in P
  <2>1. n \in 0 .. n
    BY <1>2
  <2> HIDE DEF P, n
  <2> QED BY <1>2, <1>3, <1>4, <2>1, IndexInduction
<1> QED BY <1>1, <1>5 DEF IsRun

-----------------------------------------------------------------------------
(* The theorems.                                                           *)

\* The assumptions give the facts the proofs use.
LEMMA FactsHold ==
    /\ \A x \in Candidate : AgentFacts(x)
    /\ \A msg \in Request : deserialized(msg) => RequestFacts(msg)
<1>1. \A x \in Candidate : AgentFacts(x)
  BY CandidateAssumption DEF AgentFacts, VCPU_OVERPROVISIONMENT
<1>2. \A msg \in Request : deserialized(msg) => RequestFacts(msg)
  BY RequestAssumption DEF RequestFacts, deserialized
<1> QED BY <1>1, <1>2

\* schedule_agent, for any number of agents in any order: a request that was
\* deserialized is placed exactly when some agent can take it, and on one that can.
THEOREM PlacedExactlyWhenPossible ==
    ASSUME NEW msg \in Request, deserialized(msg), NEW agents \in Seq(Candidate)
    PROVE  PlacedWhenPossible(msg, agents)
<1> DEFINE best == best_agent(msg, agents)
<1>1. BestAfter(best, Len(agents), msg, agents) /\ DOMAIN agents = 1 .. Len(agents)
  BY FactsHold, BestAtEnd
<1> HIDE DEF best
<1>2. CASE \E i \in 1 .. Len(agents) :
               /\ Acceptable(msg, agents[i])
               /\ best = [agent |-> {agents[i]}, score |-> score_agent(msg, agents[i])]
  <2>1. PICK i \in 1 .. Len(agents) : Acceptable(msg, agents[i]) /\ best.agent = {agents[i]}
    BY <1>2
  <2>2. best.agent # {} /\ \A z \in best.agent : Acceptable(msg, z)
    BY <2>1
  <2> QED BY <1>1, <2>1, <2>2 DEF PlacedWhenPossible, best
<1>3. CASE best = NoneYet /\ \A i \in 1 .. Len(agents) : ~Acceptable(msg, agents[i])
  <2>1. best.agent = {}
    BY <1>3 DEF NoneYet
  <2> QED BY <1>1, <1>3, <2>1 DEF PlacedWhenPossible, best
<1> QED BY <1>1, <1>2, <1>3 DEF BestAfter

\* The score of the chosen agent depends on which agents there are and not on the order
\* in which, or how often, schedule_agent meets them: any two sequences with the same
\* agents have best scores that compare as equal.
THEOREM OrderDecidesTiesOnly ==
    ASSUME NEW msg \in Request, deserialized(msg),
           NEW agents \in Seq(Candidate), NEW others \in Seq(Candidate),
           ToSet(agents) = ToSet(others)
    PROVE  SameScore(best_agent(msg, agents).score, best_agent(msg, others).score)
<1> DEFINE b == best_agent(msg, agents)
           c == best_agent(msg, others)
<1>1. BestAfter(b, Len(agents), msg, agents) /\ BestAfter(c, Len(others), msg, others)
  BY FactsHold, BestAtEnd
<1>2. /\ \A i \in 1 .. Len(agents) : agents[i] \in Candidate
      /\ \A i \in 1 .. Len(others) : others[i] \in Candidate
  OBVIOUS
<1>3. /\ \A i \in 1 .. Len(agents) : \E j \in 1 .. Len(others) : others[j] = agents[i]
      /\ \A j \in 1 .. Len(others) : \E i \in 1 .. Len(agents) : agents[i] = others[j]
  <2>1. /\ ToSet(agents) = {agents[i] : i \in 1 .. Len(agents)}
        /\ ToSet(others) = {others[j] : j \in 1 .. Len(others)}
    BY DEF ToSet
  <2> QED BY <2>1
<1> HIDE DEF b, c
<1>4. ASSUME NEW s, NEW t, NEW p, NEW q, NEW m, NEW n,
             BestAfter(p, m, msg, s), BestAfter(q, n, msg, t),
             \A i \in 1 .. m : s[i] \in Candidate,
             \A i \in 1 .. m : \E j \in 1 .. n : t[j] = s[i]
      PROVE  Comparable(p.score) /\ (p # NoneYet => ~better(p.score, q.score))
  <2>1. CASE p = NoneYet
    BY <2>1, RejectedComparable DEF NoneYet
  <2>2. CASE p # NoneYet
    <3>1. PICK i \in 1 .. m : p = [agent |-> {s[i]}, score |-> score_agent(msg, s[i])]
      BY <1>4, <2>2 DEF BestAfter
    <3>2. p.score = score_agent(msg, s[i]) /\ s[i] \in Candidate
      BY <1>4, <3>1
    <3>3. PICK j \in 1 .. n : t[j] = s[i]
      BY <1>4
    <3>4. ~better(score_agent(msg, t[j]), q.score)
      BY <1>4 DEF BestAfter
    <3>5. Comparable(p.score)
      BY <3>2, FactsHold, ScoreComparable
    <3> QED BY <3>2, <3>3, <3>4, <3>5
  <2> QED BY <2>1, <2>2
<1>5. Comparable(b.score) /\ (b # NoneYet => ~better(b.score, c.score))
  BY <1>1, <1>2, <1>3, <1>4
<1>6. Comparable(c.score) /\ (c # NoneYet => ~better(c.score, b.score))
  BY <1>1, <1>2, <1>3, <1>4
<1>7. b = NoneYet <=> c = NoneYet
  <2>1. ASSUME NEW s, NEW t, NEW p, NEW q, NEW m, NEW n,
               BestAfter(p, m, msg, s), BestAfter(q, n, msg, t),
               \A i \in 1 .. m : \E j \in 1 .. n : t[j] = s[i],
               q = NoneYet
        PROVE  p = NoneYet
    <3>1. \A j \in 1 .. n : ~Acceptable(msg, t[j])
      <4>1. NoneYet.agent = {}
        BY DEF NoneYet
      <4>2. ~\E j \in 1 .. n : q = [agent |-> {t[j]}, score |-> score_agent(msg, t[j])]
        <5>1. q.agent = {}
          BY <2>1, <4>1
        <5>2. ASSUME NEW j, q = [agent |-> {t[j]}, score |-> score_agent(msg, t[j])]
              PROVE  FALSE
          <6>1. q.agent = {t[j]}
            BY <5>2, Zenon
          <6> QED BY <5>1, <6>1
        <5> QED BY <5>2, Zenon
      <4>3. BestAfter(q, n, msg, t)
        BY <2>1
      <4> QED BY <4>2, <4>3 DEF BestAfter
    <3>2. \A i \in 1 .. m : ~Acceptable(msg, s[i])
      BY <2>1, <3>1
    <3> QED BY <2>1, <3>2 DEF BestAfter
  <2> QED BY <1>1, <1>3, <2>1
<1>8. CASE b = NoneYet
  <2>1. b = c /\ ~better(b.score, c.score)
    BY <1>5, <1>7, <1>8 DEF better, Comparable
  <2> QED BY <1>5, <2>1, NeitherBetterSame DEF b, c
<1>9. CASE b # NoneYet
  BY <1>5, <1>6, <1>7, <1>9, NeitherBetterSame DEF b, c
<1> QED BY <1>8, <1>9

\* The request does not change, so what holds of every request that may reach the
\* scheduler always holds.
LEMMA RequestStays ==
    PlacementSpec => [](request \in {NoRequest} \cup {msg \in Request : deserialized(msg)})
<1> DEFINE R == {NoRequest} \cup {msg \in Request : deserialized(msg)}
           I == request \in R
<1>1. PlacementInit => I
  BY DEF PlacementInit
<1>2. I /\ [UNCHANGED request]_request => I'
  <2> HIDE DEF R
  <2> QED OBVIOUS
<1> QED BY <1>1, <1>2, PTL DEF PlacementSpec

\* Two agents make a sequence, with the same agents in either order.
LEMMA PairFacts ==
    ASSUME NEW x \in Candidate, NEW y \in Candidate
    PROVE  /\ <<x, y>> \in Seq(Candidate) /\ <<y, x>> \in Seq(Candidate)
           /\ ToSet(<<x, y>>) = ToSet(<<y, x>>)
<1>1. <<x, y>> \in Seq(Candidate) /\ <<y, x>> \in Seq(Candidate)
  OBVIOUS
<1>2. ToSet(<<x, y>>) = {x, y} /\ ToSet(<<y, x>>) = {x, y}
  BY DEF ToSet
<1> QED BY <1>1, <1>2

\* Whatever request reaches schedule_agent, and whatever two agents it meets: the VM is
\* placed exactly when one of them can take it, and on one that can.
THEOREM PlacementExact == PlacementSpec => []PlacesWheneverPossible
<1>1. request \in {NoRequest} \cup {msg \in Request : deserialized(msg)}
        => PlacesWheneverPossible
  BY PairFacts, PlacedExactlyWhenPossible DEF PlacesWheneverPossible
<1> QED BY <1>1, RequestStays, PTL

\* Whatever request reaches schedule_agent, it chooses the same score in either order of
\* two agents.
THEOREM OrderIrrelevant == PlacementSpec => []ChoiceIndependentOfOrder
<1>1. request \in {NoRequest} \cup {msg \in Request : deserialized(msg)}
        => ChoiceIndependentOfOrder
  BY PairFacts, OrderDecidesTiesOnly DEF ChoiceIndependentOfOrder
<1> QED BY <1>1, RequestStays, PTL
=============================================================================
