--------------------------- MODULE StatusSyncProofs ---------------------------
(***************************************************************************)
(* Proofs about the status protocol (StatusSync), for any set of VMs, any  *)
(* history limit and any bounds: type correctness, the inductive invariant *)
(* behind CacheIsAgentPast, and the refinement of MembershipView.  Then    *)
(* about the agent actor (AgentActor), for any set of VMs and of actor     *)
(* ids: what its entries say of the VM actors it has spawned, in whatever  *)
(* order the actors die and their deaths are reported.                     *)
(***************************************************************************)
EXTENDS StatusSync, SumProofs

-----------------------------------------------------------------------------
(* The agent's fields.                                                     *)

\* The types of the agent's fields.
AgentFields(ag) ==
    /\ ag \in [vms : [VM -> VMCacheData \cup {NoVM}],
               used : Nat,
               membership_revision : Nat,
               status_history : Seq(MembershipChange),
               log : [0 .. ag.membership_revision -> SUBSET VM]]
    /\ Len(ag.status_history) <= HistoryLimit

AgentOK(ag) ==
    /\ AgentFields(ag)
    /\ HistoryIsTail(ag)
    /\ HistoryExplainsLog(ag)

\* The agent's log grows at its end only.
Extends(ag, next) ==
    /\ next.membership_revision >= ag.membership_revision
    /\ \A r \in 0 .. ag.membership_revision : next.log[r] = ag.log[r]
    /\ next.membership_revision = ag.membership_revision => next.log = ag.log

\* p is h with change pushed, and with its first d entries dropped.
Pushed(h, change, p, d) ==
    /\ d \in {0, 1}
    /\ p \in Seq(MembershipChange)
    /\ Len(p) \in Nat
    /\ Len(p) <= HistoryLimit
    /\ Len(p) >= 1
    /\ Len(p) = (Len(h) + 1) - d
    /\ p[Len(p)] = change
    /\ \A i \in 1 .. (Len(p) - 1) : p[i] = h[i + d]

\* A bounded, nonempty set of naturals has a greatest element.
LEMMA NatMax ==
    ASSUME NEW T, T \subseteq Nat, T # {}, NEW n \in Nat, \A x \in T : x <= n
    PROVE  \E m \in T : \A x \in T : x <= m
<1> DEFINE less == OpToRel(<, Nat)
           U == {n - x : x \in T}
<1>1. U \subseteq Nat /\ U # {}
  <2>1. \A x \in T : n - x \in Nat
    OBVIOUS
  <2> QED BY <2>1
<1>2. IsWellFoundedOn(less, Nat)
  BY NatLessThanWellFounded
<1>3. \A x, y \in Nat : x < y => <<x, y>> \in less
  BY DEF OpToRel
<1>4. \A x \in T : n - x \in U
  OBVIOUS
<1> HIDE DEF less, U
<1>5. PICK k \in U : \A y \in U : ~ (<<y, k>> \in less)
  BY <1>1, <1>2, WFMin
<1>6. \A y \in U : ~(y < k)
  BY <1>1, <1>3, <1>5
<1>7. PICK m \in T : k = n - m
  BY <1>5 DEF U
<1>8. ASSUME NEW x \in T
      PROVE  x <= m
  <2>1. ~(n - x < k)
    BY <1>4, <1>6
  <2> QED BY <1>7, <2>1
<1> QED BY <1>8

\* The history holds a last change for every VM it holds a change of.
LEMMA LastChange ==
    ASSUME NEW h \in Seq(MembershipChange), NEW i \in 1 .. Len(h)
    PROVE  \E k \in 1 .. Len(h) :
               /\ k >= i
               /\ h[k].vmid = h[i].vmid
               /\ \A m \in 1 .. Len(h) : m > k => h[m].vmid # h[k].vmid
<1> DEFINE T == {k \in 1 .. Len(h) : h[k].vmid = h[i].vmid}
<1>1. T \subseteq Nat /\ i \in T /\ Len(h) \in Nat /\ \A x \in T : x <= Len(h)
  OBVIOUS
<1>2. PICK k \in T : \A x \in T : x <= k
  <2> HIDE DEF T
  <2>1. T # {}
    BY <1>1
  <2> QED BY <1>1, <2>1, NatMax
<1> QED BY <1>1, <1>2

\* Pushing to the trimmed history drops at most its first entry.
LEMMA PushTrimmedFacts ==
    ASSUME NEW h \in Seq(MembershipChange), Len(h) <= HistoryLimit,
           NEW change \in MembershipChange
    PROVE  \E d \in {0, 1} : Pushed(h, change, PushTrimmed(h, change), d)
<1> DEFINE q == Append(h, change)
<1>1. /\ q \in Seq(MembershipChange)
      /\ Len(h) \in Nat
      /\ Len(q) = Len(h) + 1
      /\ q[Len(q)] = change
      /\ \A i \in 1 .. Len(h) : q[i] = h[i]
  OBVIOUS
<1>2. CASE Len(q) > HistoryLimit
  <2> DEFINE t == Tail(q)
  <2>1. PushTrimmed(h, change) = t
    BY <1>2 DEF PushTrimmed
  <2>2. Len(h) = HistoryLimit /\ Len(h) >= 1
    BY <1>1, <1>2, HistoryLimitAssumption
  <2>3. /\ t \in Seq(MembershipChange)
        /\ Len(t) = Len(h)
        /\ \A i \in 1 .. Len(h) : t[i] = q[i + 1]
    BY <1>1, <2>2
  <2>4. t[Len(t)] = change
    BY <1>1, <2>2, <2>3
  <2>5. \A i \in 1 .. (Len(t) - 1) : t[i] = h[i + 1]
    BY <1>1, <2>2, <2>3
  <2> HIDE DEF t, q
  <2>6. Pushed(h, change, t, 1)
    BY <1>1, <2>2, <2>3, <2>4, <2>5 DEF Pushed
  <2> QED BY <2>1, <2>6
<1>3. CASE ~(Len(q) > HistoryLimit)
  <2>1. PushTrimmed(h, change) = q
    BY <1>3 DEF PushTrimmed
  <2>2. Len(q) <= HistoryLimit
    BY <1>1, <1>3, HistoryLimitAssumption
  <2> HIDE DEF q
  <2>3. Pushed(h, change, q, 0)
    BY <1>1, <2>2 DEF Pushed
  <2> QED BY <2>1, <2>3
<1> QED BY <1>2, <1>3

\* record_membership_change, applied to the agent with its new VM map, keeps the
\* history the tail of the log and extends the log by the new membership.
LEMMA RecordKeepsAgentOK ==
    ASSUME NEW ag, AgentOK(ag),
           NEW base,
           base.membership_revision = ag.membership_revision,
           base.status_history = ag.status_history,
           base.log = ag.log,
           base.vms \in [VM -> VMCacheData \cup {NoVM}],
           base.used \in Nat,
           NEW v \in VM, NEW added \in BOOLEAN,
           NEW members, members = Members(base),
           added => members = Members(ag) \cup {v},
           ~added => members = Members(ag) \ {v},
           NEW next, next = record_membership_change(base, v, added, members)
    PROVE  /\ AgentOK(next)
           /\ Extends(ag, next)
           /\ next.vms = base.vms
<1> DEFINE rev  == ag.membership_revision
           h    == ag.status_history
           c0   == [revision |-> rev + 1, vmid |-> v, added |-> added]
           p    == PushTrimmed(h, c0)
           lg   == [r \in 0 .. (rev + 1) |-> IF r = rev + 1 THEN members ELSE ag.log[r]]
<1>1. /\ rev \in Nat
      /\ h \in Seq(MembershipChange)
      /\ Len(h) <= HistoryLimit
      /\ Len(h) \in Nat
      /\ ag.log \in [0 .. rev -> SUBSET VM]
  BY DEF AgentOK, AgentFields
<1>2. next = [vms |-> base.vms, used |-> base.used, membership_revision |-> rev + 1,
              status_history |-> p, log |-> lg]
  BY DEF record_membership_change
<1>3. c0 \in MembershipChange /\ c0.revision = rev + 1 /\ c0.vmid = v /\ c0.added = added
  BY <1>1 DEF MembershipChange
<1>4. \E d \in {0, 1} : Pushed(h, c0, p, d)
  <2> HIDE DEF h, c0
  <2> QED BY <1>1, <1>3, PushTrimmedFacts
<1>5. /\ next.membership_revision = rev + 1
      /\ next.status_history = p
      /\ next.log = lg
      /\ next.vms = base.vms
      /\ next.used = base.used
  <2> HIDE DEF rev, p, lg
  <2> QED BY <1>2
<1>6. Members(next) = members /\ members \subseteq VM
  <2>1. Members(next) = Members(base)
    BY <1>5 DEF Members
  <2>2. Members(base) \subseteq VM
    BY DEF Members
  <2> QED BY <2>1, <2>2
<1>7. /\ lg \in [0 .. (rev + 1) -> SUBSET VM]
      /\ lg[rev + 1] = members
      /\ \A r \in 0 .. rev : lg[r] = ag.log[r]
  <2> HIDE DEF rev
  <2> QED BY <1>1, <1>6
<1>8. /\ Len(h) <= rev
      /\ h = <<>> => rev = 0
      /\ \A i \in 1 .. Len(h) : h[i].revision = (rev - Len(h)) + i
  BY DEF AgentOK, HistoryIsTail
<1>9. \A c \in (rev - Len(h)) .. rev : \A w \in VM :
          (\A i \in 1 .. Len(h) : h[i].vmid = w => h[i].revision <= c)
              => (w \in ag.log[c] <=> w \in Members(ag))
  BY DEF AgentOK, HistoryExplainsLog
<1>10. \A i \in 1 .. Len(h) :
          (\A k \in 1 .. Len(h) : k > i => h[k].vmid # h[i].vmid)
              => (h[i].vmid \in Members(ag) <=> h[i].added)
  BY DEF AgentOK, HistoryExplainsLog
<1> HIDE DEF rev, h, c0, p, lg
<1>11. PICK d \in {0, 1} : Pushed(h, c0, p, d)
  BY <1>4
<1>12. /\ d \in {0, 1}
       /\ p \in Seq(MembershipChange)
       /\ Len(p) \in Nat
       /\ Len(p) <= HistoryLimit
       /\ Len(p) >= 1
       /\ Len(p) = (Len(h) + 1) - d
       /\ p[Len(p)] = c0
       /\ \A i \in 1 .. (Len(p) - 1) : p[i] = h[i + d]
  BY <1>11 DEF Pushed
<1>13. AgentFields(next)
  <2>1. next \in [vms : [VM -> VMCacheData \cup {NoVM}], used : Nat,
                  membership_revision : Nat, status_history : Seq(MembershipChange),
                  log : [0 .. (rev + 1) -> SUBSET VM]]
    <3>1. rev + 1 \in Nat
      BY <1>1
    <3>2. /\ base.vms \in [VM -> VMCacheData \cup {NoVM}]
          /\ base.used \in Nat
          /\ p \in Seq(MembershipChange)
          /\ lg \in [0 .. (rev + 1) -> SUBSET VM]
      BY <1>7, <1>12
    <3> DEFINE LogType == [0 .. (rev + 1) -> SUBSET VM]
               VmsType == [VM -> VMCacheData \cup {NoVM}]
    <3> HIDE DEF LogType, VmsType
    <3>3. base.vms \in VmsType /\ lg \in LogType
      BY <3>2 DEF LogType, VmsType
    <3>4. next \in [vms : VmsType, used : Nat, membership_revision : Nat,
                    status_history : Seq(MembershipChange), log : LogType]
      BY <1>2, <3>1, <3>2, <3>3
    <3> QED BY <3>4 DEF LogType, VmsType
  <2> QED BY <1>5, <1>12, <2>1 DEF AgentFields
<1>14. HistoryIsTail(next)
  <2>1. \A i \in 1 .. Len(p) : p[i].revision = ((rev + 1) - Len(p)) + i
    <3> SUFFICES ASSUME NEW i \in 1 .. Len(p)
                 PROVE  p[i].revision = ((rev + 1) - Len(p)) + i
      OBVIOUS
    <3>1. CASE i = Len(p)
      BY <1>1, <1>3, <1>12, <3>1
    <3>2. CASE i # Len(p)
      <4>1. i \in 1 .. (Len(p) - 1)
        BY <1>12, <3>2
      <4>2. i + d \in 1 .. Len(h) /\ p[i] = h[i + d]
        BY <1>1, <1>12, <4>1
      <4>3. h[i + d].revision = (rev - Len(h)) + (i + d)
        BY <1>8, <4>2
      <4> QED BY <1>1, <1>12, <4>2, <4>3
    <3> QED BY <3>1, <3>2
  <2>2. Len(p) <= rev + 1
    BY <1>1, <1>8, <1>12
  <2>3. p # <<>>
    BY <1>12
  <2> SUFFICES /\ Len(p) <= rev + 1
               /\ p = <<>> => rev + 1 = 0
               /\ \A i \in 1 .. Len(p) : p[i].revision = ((rev + 1) - Len(p)) + i
    BY <1>5 DEF HistoryIsTail
  <2> QED BY <2>1, <2>2, <2>3
<1>15. HistoryExplainsLog(next)
  <2>1. ASSUME NEW c \in ((rev + 1) - Len(p)) .. (rev + 1), NEW w \in VM,
               \A i \in 1 .. Len(p) : p[i].vmid = w => p[i].revision <= c
        PROVE  w \in lg[c] <=> w \in members
    <3>1. CASE c = rev + 1
      BY <1>7, <3>1
    <3>2. CASE c # rev + 1
      <4>1. c \in (rev - Len(h)) .. rev /\ c \in 0 .. rev
        BY <1>1, <1>8, <1>12, <3>2
      <4>2. w # v
        BY <1>1, <1>3, <1>12, <2>1, <4>1
      <4>3. ASSUME NEW i \in 1 .. Len(h), h[i].vmid = w
            PROVE  h[i].revision <= c
        <5>1. h[i].revision = (rev - Len(h)) + i
          BY <1>8
        <5>2. CASE i <= d
          BY <1>1, <1>12, <5>1, <5>2
        <5>3. CASE ~(i <= d)
          <6>1. i - d \in 1 .. (Len(p) - 1) /\ (i - d) + d = i
            BY <1>1, <1>12, <5>3
          <6>2. p[i - d] = h[i] /\ i - d \in 1 .. Len(p)
            BY <1>12, <6>1
          <6> QED BY <2>1, <4>3, <6>2
        <5> QED BY <5>2, <5>3
      <4>4. w \in ag.log[c] <=> w \in Members(ag)
        BY <1>9, <4>1, <4>3
      <4>5. w \in members <=> w \in Members(ag)
        BY <4>2
      <4> QED BY <1>7, <4>1, <4>4, <4>5
    <3> QED BY <3>1, <3>2
  <2>2. ASSUME NEW i \in 1 .. Len(p),
               \A k \in 1 .. Len(p) : k > i => p[k].vmid # p[i].vmid
        PROVE  p[i].vmid \in members <=> p[i].added
    <3>1. CASE i = Len(p)
      BY <1>3, <1>12, <3>1
    <3>2. CASE i # Len(p)
      <4>1. i + d \in 1 .. Len(h) /\ p[i] = h[i + d]
        BY <1>1, <1>12, <3>2
      <4>2. p[i].vmid # v
        BY <1>3, <1>12, <2>2, <3>2
      <4>3. ASSUME NEW k \in 1 .. Len(h), k > i + d
            PROVE  h[k].vmid # h[i + d].vmid
        <5>1. k - d \in 1 .. (Len(p) - 1) /\ k - d > i /\ (k - d) + d = k
          BY <1>1, <1>12, <4>3
        <5>2. p[k - d] = h[k] /\ k - d \in 1 .. Len(p)
          BY <1>12, <5>1
        <5> QED BY <2>2, <4>1, <5>1, <5>2
      <4>4. h[i + d].vmid \in Members(ag) <=> h[i + d].added
        BY <1>10, <4>1, <4>3
      <4> QED BY <4>1, <4>2, <4>4
    <3> QED BY <3>1, <3>2
  <2> SUFFICES /\ lg[rev + 1] = members
               /\ \A c \in ((rev + 1) - Len(p)) .. (rev + 1) : \A w \in VM :
                      (\A i \in 1 .. Len(p) : p[i].vmid = w => p[i].revision <= c)
                          => (w \in lg[c] <=> w \in members)
               /\ \A i \in 1 .. Len(p) :
                      (\A k \in 1 .. Len(p) : k > i => p[k].vmid # p[i].vmid)
                          => (p[i].vmid \in members <=> p[i].added)
    BY <1>5, <1>6 DEF HistoryExplainsLog
  <2> QED BY <1>7, <2>1, <2>2
<1>16. Extends(ag, next)
  <2>1. /\ rev + 1 >= rev
        /\ rev + 1 # rev
    BY <1>1
  <2>2. rev = ag.membership_revision
    BY DEF rev
  <2> QED BY <1>5, <1>7, <2>1, <2>2 DEF Extends
<1> QED BY <1>5, <1>13, <1>14, <1>15, <1>16 DEF AgentOK

\* Changing usage and entries without changing the membership changes nothing
\* the history says.
LEMMA SameMembersKeepsAgentOK ==
    ASSUME NEW ag, AgentOK(ag),
           NEW vms \in [VM -> VMCacheData \cup {NoVM}], NEW used \in Nat,
           NEW next, next = [ag EXCEPT !.vms = vms, !.used = used],
           Members(next) = Members(ag)
    PROVE  AgentOK(next) /\ Extends(ag, next)
<1>1. /\ next.membership_revision = ag.membership_revision
      /\ next.status_history = ag.status_history
      /\ next.log = ag.log
      /\ AgentFields(next)
  BY DEF AgentOK, AgentFields
<1>2. HistoryIsTail(next)
  BY <1>1 DEF AgentOK, HistoryIsTail
<1>3. HistoryExplainsLog(next)
  BY <1>1 DEF AgentOK, HistoryExplainsLog
<1>4. Extends(ag, next)
  <2>1. ag.membership_revision \in Nat
    BY DEF AgentOK, AgentFields
  <2> QED BY <1>1, <2>1 DEF Extends
<1> QED BY <1>1, <1>2, <1>3, <1>4 DEF AgentOK

\* insert_vm keeps the history the tail of the log and only extends the log.
LEMMA InsertKeepsAgentOK ==
    ASSUME NEW ag, AgentOK(ag), NEW v \in VM, NEW data \in VMCacheData
    PROVE  /\ AgentOK(insert_vm(ag, v, data))
           /\ Extends(ag, insert_vm(ag, v, data))
<1> DEFINE vms2  == [ag.vms EXCEPT ![v] = data]
           freed == IF ag.vms[v] = NoVM THEN ag.used
                    ELSE saturating_sub(ag.used, ag.vms[v].size)
           base  == [ag EXCEPT !.vms = vms2, !.used = freed + data.size]
<1>1. /\ ag.vms \in [VM -> VMCacheData \cup {NoVM}]
      /\ ag.used \in Nat
  BY DEF AgentOK, AgentFields
<1>2. data.size \in Nat /\ data # NoVM
  BY SizeAssumption, NoVMAssumption DEF VMCacheData
<1>3. vms2 \in [VM -> VMCacheData \cup {NoVM}] /\ freed + data.size \in Nat
  <2>1. ag.vms[v] # NoVM => ag.vms[v].size \in Nat
    BY <1>1, SizeAssumption DEF VMCacheData
  <2>2. freed \in Nat
    BY <1>1, <2>1 DEF saturating_sub
  <2> HIDE DEF freed
  <2> QED BY <1>1, <1>2, <2>2
<1>4. /\ base.vms = vms2
      /\ base.used = freed + data.size
      /\ base.membership_revision = ag.membership_revision
      /\ base.status_history = ag.status_history
      /\ base.log = ag.log
  <2> HIDE DEF vms2, freed
  <2> QED BY DEF AgentOK, AgentFields
<1>5. Members(base) = Members(ag) \cup {v}
  <2>1. \A w \in VM : base.vms[w] # NoVM <=> (ag.vms[w] # NoVM \/ w = v)
    BY <1>1, <1>2, <1>4
  <2> QED BY <2>1 DEF Members
<1> HIDE DEF vms2, freed
<1>6. CASE ag.vms[v] = NoVM
  <2>1. insert_vm(ag, v, data)
            = record_membership_change(base, v, TRUE, Members(ag) \cup {v})
    BY <1>6 DEF insert_vm, vms2, freed
  <2> HIDE DEF base
  <2> QED BY <1>3, <1>4, <1>5, <2>1, RecordKeepsAgentOK
<1>7. CASE ag.vms[v] # NoVM
  <2>1. insert_vm(ag, v, data) = base
    BY <1>7 DEF insert_vm, vms2, freed
  <2>2. Members(base) = Members(ag)
    BY <1>5, <1>7 DEF Members
  <2> QED BY <1>3, <2>1, <2>2, SameMembersKeepsAgentOK
<1> QED BY <1>6, <1>7

\* So does remove_vm.
LEMMA RemoveKeepsAgentOK ==
    ASSUME NEW ag, AgentOK(ag), NEW v \in VM
    PROVE  /\ AgentOK(remove_vm(ag, v))
           /\ Extends(ag, remove_vm(ag, v))
<1>1. /\ ag.vms \in [VM -> VMCacheData \cup {NoVM}]
      /\ ag.used \in Nat
      /\ ag.membership_revision \in Nat
  BY DEF AgentOK, AgentFields
<1>2. CASE ag.vms[v] = NoVM
  BY <1>1, <1>2 DEF remove_vm, Extends
<1>3. CASE ag.vms[v] # NoVM
  <2> DEFINE vms2 == [ag.vms EXCEPT ![v] = NoVM]
             left == saturating_sub(ag.used, ag.vms[v].size)
             base == [ag EXCEPT !.vms = vms2, !.used = left]
  <2>1. remove_vm(ag, v) = record_membership_change(base, v, FALSE, Members(ag) \ {v})
    BY <1>3 DEF remove_vm
  <2>2. vms2 \in [VM -> VMCacheData \cup {NoVM}] /\ left \in Nat
    <3>1. ag.vms[v].size \in Nat
      BY <1>1, <1>3, SizeAssumption DEF VMCacheData
    <3>2. left \in Nat
      BY <1>1, <3>1 DEF saturating_sub
    <3> QED BY <1>1, <3>2
  <2>3. /\ base.vms = vms2
        /\ base.used = left
        /\ base.membership_revision = ag.membership_revision
        /\ base.status_history = ag.status_history
        /\ base.log = ag.log
    <3> HIDE DEF vms2, left
    <3> QED BY DEF AgentOK, AgentFields
  <2>4. Members(base) = Members(ag) \ {v}
    <3>1. \A w \in VM : base.vms[w] # NoVM <=> (ag.vms[w] # NoVM /\ w # v)
      BY <1>1, <2>3
    <3> QED BY <3>1 DEF Members
  <2>5. /\ base.vms \in [VM -> VMCacheData \cup {NoVM}]
        /\ base.used \in Nat
    BY <2>2, <2>3
  <2> DEFINE members == Members(ag) \ {v}
             next    == remove_vm(ag, v)
             added   == FALSE
  <2>6. /\ members = Members(base)
        /\ next = record_membership_change(base, v, added, members)
        /\ added \in BOOLEAN /\ ~added
        /\ members = Members(ag) \ {v}
    BY <2>1, <2>4
  <2> HIDE DEF vms2, left, base, members, next, added
  <2>7. AgentOK(next) /\ Extends(ag, next)
    BY <2>3, <2>5, <2>6, RecordKeepsAgentOK
  <2> QED BY <2>7 DEF next
<1> QED BY <1>2, <1>3

\* The log is extended transitively.
LEMMA ExtendsTransitive ==
    ASSUME NEW a, NEW b, NEW c,
           AgentFields(a), AgentFields(b), AgentFields(c), Extends(a, b), Extends(b, c)
    PROVE  Extends(a, c)
<1>1. /\ a.membership_revision \in Nat
      /\ b.membership_revision \in Nat
      /\ c.membership_revision \in Nat
  BY DEF AgentFields
<1> QED BY <1>1 DEF Extends

-----------------------------------------------------------------------------
(* Status updates.                                                         *)

\* What an update says stays true while the agent goes on.
LEMMA GoodUpdateStable ==
    ASSUME NEW ag, NEW next, AgentFields(ag), AgentFields(next), Extends(ag, next),
           NEW u \in StatusUpdate, GoodUpdate(ag, u)
    PROVE  GoodUpdate(next, u)
<1>1. /\ ag.membership_revision \in Nat
      /\ next.membership_revision \in Nat
      /\ u.revision \in Nat
      /\ u.since \in Nat
  BY DEF AgentFields, StatusUpdate
<1>2. \A c \in 0 .. u.revision : next.log[c] = ag.log[c]
  BY <1>1 DEF GoodUpdate, Extends
<1> QED BY <1>1, <1>2 DEF GoodUpdate, Extends

\* GetAgentStatus answers with a good update: the deltas it cuts from the
\* history take every membership since the asked revision to the current one.
LEMMA GetAgentStatusGood ==
    ASSUME NEW ag, AgentOK(ag), NEW since \in Nat, NEW initial \in BOOLEAN,
           NEW u, u = GetAgentStatus(ag, since, initial)
    PROVE  /\ u \in StatusUpdate
           /\ u.revision = ag.membership_revision
           /\ u.kind = "Delta" => u.since = since /\ ~initial
           /\ GoodUpdate(ag, u)
<1> DEFINE rev == ag.membership_revision
           h   == ag.status_history
<1>1. /\ rev \in Nat
      /\ ag.used \in Nat
      /\ h \in Seq(MembershipChange)
      /\ Len(h) \in Nat
      /\ ag.log \in [0 .. rev -> SUBSET VM]
      /\ Members(ag) \subseteq VM
  BY DEF AgentOK, AgentFields, Members
<1>2. CASE NeedsFull(ag, since, initial)
  <2>1. u = FullUpdate(ag)
    BY <1>2 DEF GetAgentStatus
  <2>2. u \in StatusUpdate
    BY <1>1, <2>1 DEF FullUpdate, StatusUpdate
  <2>3. u.vms = ag.log[u.revision]
    BY <2>1 DEF FullUpdate, AgentOK, HistoryExplainsLog
  <2>4. u.kind = "Full" /\ u.revision = rev
    BY <2>1 DEF FullUpdate
  <2> QED BY <1>1, <2>2, <2>3, <2>4 DEF GoodUpdate
<1>3. CASE ~NeedsFull(ag, since, initial)
  <2> DEFINE latest  == LatestChanges(h, since)
             added   == {c.vmid : c \in {d \in latest : d.added}}
             removed == {c.vmid : c \in {d \in latest : ~d.added}}
  <2>1. u = DeltaUpdate(ag, since)
    BY <1>3 DEF GetAgentStatus
  <2>2. /\ u.kind = "Delta" /\ u.revision = rev /\ u.since = since
        /\ u.added = added /\ u.removed = removed
    BY <2>1 DEF DeltaUpdate
  <2>3. ~initial /\ since <= rev /\ (h # <<>> => since + 1 >= h[1].revision)
    <3>1. h # <<>> => h[1].revision \in Nat
      <4> SUFFICES ASSUME h # <<>>
                   PROVE  h[1].revision \in Nat
        OBVIOUS
      <4>1. h[1] \in MembershipChange
        <5> HIDE DEF h
        <5> QED BY <1>1
      <4> QED BY <4>1 DEF MembershipChange
    <3> QED BY <1>1, <1>3, <3>1 DEF NeedsFull
  <2>4. since >= rev - Len(h)
    <3>1. CASE h = <<>>
      BY <1>1, <2>3, <3>1 DEF AgentOK, HistoryIsTail
    <3>2. CASE h # <<>>
      <4>1. Len(h) >= 1
        BY <1>1, <3>2
      <4>2. h[1].revision = (rev - Len(h)) + 1
        BY <1>1, <4>1 DEF AgentOK, HistoryIsTail
      <4> QED BY <1>1, <2>3, <3>2, <4>2
    <3> QED BY <3>1, <3>2
  <2>5. \A i \in 1 .. Len(h) : h[i] \in MembershipChange
    BY <1>1
  <2>6. latest \subseteq MembershipChange
    BY <2>5 DEF LatestChanges
  <2>7. added \subseteq VM /\ removed \subseteq VM
    BY <2>6 DEF MembershipChange
  <2>8. u \in StatusUpdate
    <3> HIDE DEF added, removed
    <3>1. u = [kind |-> "Delta", revision |-> rev, since |-> since, vms |-> {},
               added |-> added, removed |-> removed, used |-> ag.used]
      BY <2>1 DEF DeltaUpdate, added, removed
    <3> QED BY <1>1, <2>7, <3>1 DEF StatusUpdate
  <2>9. ASSUME NEW c \in since .. rev
        PROVE  (ag.log[c] \ removed) \cup added = ag.log[rev]
    <3>1. /\ c \in 0 .. rev
          /\ ag.log[c] \subseteq VM
          /\ ag.log[rev] = Members(ag)
      BY <1>1, <2>9 DEF AgentOK, HistoryExplainsLog
    <3>2. \A x \in latest : x.vmid \in Members(ag) <=> x.added
      BY DEF LatestChanges, AgentOK, HistoryExplainsLog
    <3>3. added \subseteq Members(ag) /\ removed \cap Members(ag) = {}
      BY <3>2
    <3>4. ASSUME NEW w \in VM, w \notin added, w \notin removed
          PROVE  w \in ag.log[c] <=> w \in Members(ag)
      <4>1. \A x \in latest : x.vmid # w
        BY <2>6, <3>4 DEF MembershipChange
      <4>2. ASSUME NEW i \in 1 .. Len(h), h[i].vmid = w
            PROVE  h[i].revision <= c
        <5>1. PICK k \in 1 .. Len(h) :
                  /\ k >= i
                  /\ h[k].vmid = h[i].vmid
                  /\ \A m \in 1 .. Len(h) : m > k => h[m].vmid # h[k].vmid
          BY <1>1, LastChange
        <5>2. ~(h[k].revision > since)
          BY <4>1, <4>2, <5>1 DEF LatestChanges
        <5>3. /\ h[i].revision = (rev - Len(h)) + i
              /\ h[k].revision = (rev - Len(h)) + k
          BY <5>1 DEF AgentOK, HistoryIsTail
        <5> QED BY <1>1, <5>1, <5>2, <5>3
      <4>3. c \in (rev - Len(h)) .. rev
        BY <1>1, <2>4
      <4> QED BY <4>2, <4>3 DEF AgentOK, HistoryExplainsLog
    <3> QED BY <1>1, <2>7, <3>1, <3>3, <3>4
  <2> HIDE DEF added, removed
  <2> QED BY <1>1, <2>2, <2>3, <2>8, <2>9 DEF GoodUpdate
<1> QED BY <1>2, <1>3

-----------------------------------------------------------------------------
(* The steps of the agent.                                                 *)

\* Every handler of the agent keeps its fields typed, keeps the history the tail
\* of the log, and only extends the log.
LEMMA AgentNextOK ==
    ASSUME AgentTypeOK, AgentOK(agent), AgentNext
    PROVE  AgentTypeOK' /\ AgentOK(agent') /\ Extends(agent, agent')
<1> DEFINE Good == AgentOK(agent') /\ Extends(agent, agent')
           Rest == /\ agent'.membership_revision <= MaxRevision
                   /\ running' \subseteq ActorId
                   /\ actorVm' \in [ActorId -> VM \cup {NoVM}]
                   /\ stopping' \subseteq running'
                   /\ linkDied' \subseteq ActorId
                   /\ replaced' \in BOOLEAN
<1>1. /\ agent.vms \in [VM -> VMCacheData \cup {NoVM}]
      /\ agent.membership_revision \in Nat
      /\ agent.membership_revision <= MaxRevision
      /\ running \subseteq ActorId
      /\ actorVm \in [ActorId -> VM \cup {NoVM}]
      /\ stopping \subseteq running
      /\ linkDied \subseteq ActorId
      /\ replaced \in BOOLEAN
  BY DEF AgentTypeOK
<1>2. ASSUME NEW ag, AgentOK(ag)
      PROVE  Extends(ag, ag)
  <2>1. ag.membership_revision \in Nat
    BY <1>2 DEF AgentOK, AgentFields
  <2> QED BY <2>1 DEF Extends
<1>3. ASSUME UNCHANGED agentVars
      PROVE  Good /\ Rest
  BY <1>1, <1>2, <1>3 DEF agentVars
<1>4. ASSUME NEW v \in VM, NEW size \in Size, NEW a \in ActorId, CreateVM(v, size, a)
      PROVE  Good /\ Rest
  <2>1. [actor_ref |-> a, size |-> size] \in VMCacheData
    BY DEF VMCacheData
  <2>2. Good
    BY <1>4, <2>1, InsertKeepsAgentOK DEF CreateVM
  <2>3. Rest
    BY <1>1, <1>4 DEF CreateVM, SpawnLinked, WithinBounds
  <2> QED BY <2>2, <2>3
<1>5. ASSUME NEW v \in VM, NEW size \in Size, NEW a \in ActorId, NEW ok \in BOOLEAN,
             MigrateVMReceive(v, size, a, ok)
      PROVE  Good /\ Rest
  <2> DEFINE inserted == insert_vm(agent, v, [actor_ref |-> a, size |-> size])
             removed  == remove_vm(inserted, v)
  <2>1. [actor_ref |-> a, size |-> size] \in VMCacheData
    BY DEF VMCacheData
  <2>2. AgentOK(inserted) /\ Extends(agent, inserted)
    BY <2>1, InsertKeepsAgentOK
  <2>3. agent' = inserted \/ agent' = removed
    BY <1>5 DEF MigrateVMReceive
  <2> HIDE DEF inserted
  <2>4. AgentOK(removed) /\ Extends(inserted, removed)
    BY <2>2, RemoveKeepsAgentOK
  <2> HIDE DEF removed
  <2>5. Extends(agent, removed)
    BY <2>2, <2>4, ExtendsTransitive DEF AgentOK
  <2>6. Good
    BY <2>2, <2>3, <2>4, <2>5
  <2>7. Rest
    BY <1>1, <1>5 DEF MigrateVMReceive, SpawnLinked, WithinBounds
  <2> QED BY <2>6, <2>7
<1>6. ASSUME NEW v \in VM, DeleteVM(v)
      PROVE  Good /\ Rest
  BY <1>1, <1>6, RemoveKeepsAgentOK DEF DeleteVM, WithinBounds
<1>7. ASSUME NEW v \in VM, ShutdownVM(v)
      PROVE  Good /\ Rest
  BY <1>1, <1>2, <1>7 DEF ShutdownVM
<1>8. ASSUME NEW a \in ActorId, VmActorDies(a)
      PROVE  Good /\ Rest
  BY <1>1, <1>2, <1>8 DEF VmActorDies
<1>9. ASSUME NEW a \in ActorId, AgentLinkDied(a)
      PROVE  Good /\ Rest
  <2>1. agent' = agent \/ \E v \in VM : agent' = remove_vm(agent, v)
    BY <1>9 DEF AgentLinkDied, DeadEntry
  <2>2. Good
    BY <1>2, <2>1, RemoveKeepsAgentOK
  <2>3. Rest
    BY <1>1, <1>9 DEF AgentLinkDied, WithinBounds
  <2> QED BY <2>2, <2>3
<1>10. Good /\ Rest
  BY <1>3, <1>4, <1>5, <1>6, <1>7, <1>8, <1>9
     DEF AgentNext, CreateVMExisting, DeleteVMMissing
<1> QED BY <1>10 DEF AgentTypeOK, AgentOK, AgentFields

-----------------------------------------------------------------------------
(* The mailbox.                                                            *)

\* The messages and what is known of one by its type.
LEMMA MailFacts ==
    /\ \A m \in Mail : m.type = "AgentUpdated" => m.update \in StatusUpdate
    /\ \A u \in StatusUpdate : /\ UpdatedMsg(u) \in Mail
                               /\ UpdatedMsg(u).type = "AgentUpdated"
                               /\ UpdatedMsg(u).update = u
    /\ StoppedMsg \in Mail /\ StoppedMsg.type # "AgentUpdated"
    /\ LinkDiedMsg \in Mail /\ LinkDiedMsg.type # "AgentUpdated"
  BY DEF Mail, UpdatedMsg, StoppedMsg, LinkDiedMsg

\* The mailbox after a tell.
LEMMA AppendFacts ==
    ASSUME NEW mb \in Seq(Mail), NEW m \in Mail, NEW next, next = Append(mb, m)
    PROVE  /\ next \in Seq(Mail)
           /\ Len(mb) \in Nat
           /\ Len(next) = Len(mb) + 1
           /\ next[Len(mb) + 1] = m
           /\ \A i \in 1 .. Len(mb) : next[i] = mb[i]
  OBVIOUS

\* The mailbox after a message is taken from it.
LEMMA TailFacts ==
    ASSUME NEW mb \in Seq(Mail), mb # <<>>, NEW next, next = Tail(mb)
    PROVE  /\ next \in Seq(Mail)
           /\ Len(mb) \in Nat
           /\ Len(mb) >= 1
           /\ Len(next) = Len(mb) - 1
           /\ Head(mb) = mb[1]
           /\ Head(mb) \in Mail
           /\ \A i \in 1 .. Len(next) : next[i] = mb[i + 1]
  OBVIOUS

\* A message at the end of the mailbox changes nothing before it, and covers what
\* comes after it when it is an update.
LEMMA CoveredAppend ==
    ASSUME NEW mb \in Seq(Mail), NEW m \in Mail, NEW next, next = Append(mb, m),
           NEW ch, NEW s
    PROVE  /\ \A p \in 1 .. (Len(mb) + 1) : Covered(mb, ch, s, p) => Covered(next, ch, s, p)
           /\ (m.type # "AgentUpdated" /\ Covered(mb, ch, s, Len(mb) + 1))
                  => Covered(next, ch, s, Len(next) + 1)
           /\ (m.type = "AgentUpdated" /\ m.update.revision >= s)
                  => Covered(next, ch, s, Len(next) + 1)
<1>1. /\ Len(mb) \in Nat
      /\ Len(next) = Len(mb) + 1
      /\ next[Len(mb) + 1] = m
      /\ \A i \in 1 .. Len(mb) : next[i] = mb[i]
  BY AppendFacts
<1>2. ASSUME NEW p \in 1 .. (Len(mb) + 1), Covered(mb, ch, s, p)
      PROVE  Covered(next, ch, s, p)
  <2>1. \A j \in 1 .. (p - 1) : j \in 1 .. Len(mb) /\ next[j] = mb[j]
    BY <1>1
  <2>2. \A j \in 1 .. (p - 1) : \A k \in (j + 1) .. (p - 1) : k \in 1 .. (p - 1)
    BY <1>1
  <2> QED BY <1>2, <2>1, <2>2 DEF Covered, IsUpdate
<1>3. ASSUME m.type # "AgentUpdated", Covered(mb, ch, s, Len(mb) + 1)
      PROVE  Covered(next, ch, s, Len(next) + 1)
  <2> DEFINE n == Len(mb)
  <2>1. \A j \in 1 .. (n + 1) : IsUpdate(next, j) => j \in 1 .. n /\ IsUpdate(mb, j)
    BY <1>1, <1>3 DEF IsUpdate
  <2>2. \A j \in 1 .. n : IsUpdate(next, j) <=> IsUpdate(mb, j)
    BY <1>1 DEF IsUpdate
  <2>3. (Len(next) + 1) - 1 = n + 1 /\ (n + 1) - 1 = n /\ n \in Nat
    BY <1>1
  <2>4. ASSUME NEW j \in 1 .. (n + 1), IsUpdate(next, j),
               \A k \in (j + 1) .. (n + 1) : ~IsUpdate(next, k)
        PROVE  next[j].update.revision >= s
    <3>1. j \in 1 .. n /\ IsUpdate(mb, j) /\ next[j] = mb[j]
      BY <1>1, <2>1, <2>4
    <3>2. \A k \in (j + 1) .. n : ~IsUpdate(mb, k)
      BY <2>2, <2>3, <2>4
    <3> HIDE DEF n
    <3> QED BY <1>3, <2>3, <3>1, <3>2 DEF Covered, n
  <2>5. (\A j \in 1 .. (n + 1) : ~IsUpdate(next, j)) => (ch = None \/ ch.revision >= s)
    <3>1. \A j \in 1 .. n : j \in 1 .. (n + 1)
      BY <2>3
    <3> QED BY <1>3, <2>2, <2>3, <3>1 DEF Covered
  <2> QED BY <2>3, <2>4, <2>5 DEF Covered
<1>4. ASSUME m.type = "AgentUpdated", m.update.revision >= s
      PROVE  Covered(next, ch, s, Len(next) + 1)
  <2> DEFINE n == Len(mb)
  <2>1. IsUpdate(next, n + 1) /\ n \in Nat /\ (Len(next) + 1) - 1 = n + 1
    BY <1>1, <1>4 DEF IsUpdate
  <2>2. ASSUME NEW j \in 1 .. (n + 1),
               \A k \in (j + 1) .. (n + 1) : ~IsUpdate(next, k)
        PROVE  next[j].update.revision >= s
    <3>1. j = n + 1
      BY <2>1, <2>2
    <3> QED BY <1>1, <1>4, <3>1
  <2>3. n + 1 \in 1 .. (n + 1)
    BY <2>1
  <2> HIDE DEF n
  <2> QED BY <2>1, <2>2, <2>3 DEF Covered
<1> QED BY <1>2, <1>3, <1>4

\* Handling the first message of mb takes the cached status ch to ch2.
HandledTo(mb, ch, ch2) ==
    \/ Head(mb).type # "AgentUpdated" /\ (ch2 = None \/ ch2 = ch)
    \/ Head(mb).type = "AgentUpdated" /\ ch2 = AgentUpdatedResult(ch, Head(mb).update)

\* Taking a message keeps what follows it covered, when the cached status becomes
\* none, stays, or is what AgentUpdated makes of it.
LEMMA CoveredTail ==
    ASSUME NEW mb \in Seq(Mail), mb # <<>>, NEW next, next = Tail(mb),
           NEW ch \in CachedStatus \cup {None}, NEW ch2, NEW s \in Nat,
           HandledTo(mb, ch, ch2),
           NEW p \in 1 .. (Len(next) + 1),
           Covered(mb, ch, s, p + 1)
    PROVE  Covered(next, ch2, s, p)
<1>1. /\ Len(mb) \in Nat
      /\ Len(next) = Len(mb) - 1
      /\ Len(next) \in Nat
      /\ Head(mb) = mb[1]
      /\ Head(mb) \in Mail
      /\ \A i \in 1 .. Len(next) : next[i] = mb[i + 1]
  BY TailFacts
<1>2. /\ \A j \in 1 .. p :
             (IsUpdate(mb, j) /\ \A k \in (j + 1) .. p : ~IsUpdate(mb, k))
                 => mb[j].update.revision >= s
      /\ (\A j \in 1 .. p : ~IsUpdate(mb, j)) => (ch = None \/ ch.revision >= s)
  <2>1. (p + 1) - 1 = p
    BY <1>1
  <2> QED BY <2>1 DEF Covered
<1>3. \A j \in 1 .. (p - 1) :
          /\ j + 1 \in 2 .. p
          /\ next[j] = mb[j + 1]
          /\ IsUpdate(next, j) <=> IsUpdate(mb, j + 1)
  BY <1>1 DEF IsUpdate
<1>4. \A k \in 2 .. p : k - 1 \in 1 .. (p - 1) /\ (k - 1) + 1 = k
  BY <1>1
<1>5. ASSUME NEW j \in 1 .. (p - 1), IsUpdate(next, j),
             \A k \in (j + 1) .. (p - 1) : ~IsUpdate(next, k)
      PROVE  next[j].update.revision >= s
  <2>1. ASSUME NEW k \in ((j + 1) + 1) .. p
        PROVE  ~IsUpdate(mb, k)
    <3>1. k \in 2 .. p /\ k - 1 \in (j + 1) .. (p - 1)
      BY <1>1, <2>1
    <3> QED BY <1>3, <1>4, <1>5, <3>1
  <2>2. j + 1 \in 1 .. p
    BY <1>1
  <2> QED BY <1>2, <1>3, <1>5, <2>1, <2>2
<1>6. ASSUME \A j \in 1 .. (p - 1) : ~IsUpdate(next, j)
      PROVE  ch2 = None \/ ch2.revision >= s
  <2>1. ASSUME NEW k \in 2 .. p
        PROVE  ~IsUpdate(mb, k)
    <3>1. k - 1 \in 1 .. (p - 1) /\ (k - 1) + 1 = k
      BY <1>4
    <3>2. IsUpdate(next, k - 1) <=> IsUpdate(mb, (k - 1) + 1)
      BY <1>3, <3>1
    <3> QED BY <1>6, <3>1, <3>2
  <2>2. CASE Head(mb).type # "AgentUpdated"
    <3>1. \A j \in 1 .. p : ~IsUpdate(mb, j)
      <4>1. \A j \in 1 .. p : j = 1 \/ j \in 2 .. p
        BY <1>1
      <4> QED BY <1>1, <2>1, <2>2, <4>1 DEF IsUpdate
    <3> QED BY <1>2, <2>2, <3>1 DEF HandledTo
  <2>3. CASE Head(mb).type = "AgentUpdated"
    <3> DEFINE u == Head(mb).update
    <3>1. u.revision >= s
      <4>1. IsUpdate(mb, 1) /\ \A k \in (1 + 1) .. p : ~IsUpdate(mb, k)
        BY <1>1, <2>1, <2>3 DEF IsUpdate
      <4>2. 1 \in 1 .. p
        BY <1>1
      <4> QED BY <1>1, <1>2, <4>1, <4>2
    <3>2. u \in StatusUpdate
      BY <1>1, <2>3, MailFacts
    <3>3. u.revision \in Nat /\ (ch # None => ch.revision \in Nat)
      BY <3>2 DEF StatusUpdate, CachedStatus
    <3>4. ch2 = AgentUpdatedResult(ch, u)
      BY <2>3 DEF HandledTo
    <3> HIDE DEF u
    <3>5. CASE Accepts(ch, u)
      <4>1. ch2.revision = u.revision
        BY <3>4, <3>5 DEF AgentUpdatedResult, apply_status_update
      <4> QED BY <3>1, <4>1
    <3>6. CASE ~Accepts(ch, u)
      <4>1. ch2 = ch
        BY <3>4, <3>6 DEF AgentUpdatedResult
      <4>2. ch # None => ~(u.revision > ch.revision)
        BY <3>6 DEF Accepts
      <4> QED BY <3>1, <3>3, <4>1, <4>2
    <3> QED BY <3>5, <3>6
  <2> QED BY <2>2, <2>3
<1> QED BY <1>5, <1>6 DEF Covered

\* What comes after all messages stays covered.
LEMMA CoveredTailEnd ==
    ASSUME NEW mb \in Seq(Mail), mb # <<>>, NEW next, next = Tail(mb),
           NEW ch \in CachedStatus \cup {None}, NEW ch2, HandledTo(mb, ch, ch2),
           NEW s \in Nat, Covered(mb, ch, s, Len(mb) + 1)
    PROVE  Covered(next, ch2, s, Len(next) + 1)
<1> DEFINE q == Len(next) + 1
<1>1. q \in 1 .. (Len(next) + 1) /\ q + 1 = Len(mb) + 1
  BY TailFacts
<1>2. Covered(mb, ch, s, q + 1)
  BY <1>1
<1> HIDE DEF q
<1>3. Covered(next, ch2, s, q)
  BY <1>1, <1>2, CoveredTail
<1> QED BY <1>3 DEF q

\* A mailbox of good updates without gaps keeps being one when a good update
\* that is covered, or another message, is told to it.
LEMMA TellKeepsMail ==
    ASSUME NEW ag, NEW mb \in Seq(Mail), NEW ch, NEW m \in Mail,
           NEW next, next = Append(mb, m),
           MailGood(ag, mb), MailCovered(mb, ch),
           m.type = "AgentUpdated" => GoodUpdate(ag, m.update),
           (m.type = "AgentUpdated" /\ m.update.kind = "Delta")
               => Covered(mb, ch, m.update.since, Len(mb) + 1)
    PROVE  MailGood(ag, next) /\ MailCovered(next, ch)
<1>1. /\ Len(mb) \in Nat
      /\ Len(next) = Len(mb) + 1
      /\ next[Len(mb) + 1] = m
      /\ \A i \in 1 .. Len(mb) : next[i] = mb[i]
  BY AppendFacts
<1>2. \A i \in 1 .. Len(next) : i \in 1 .. Len(mb) \/ i = Len(mb) + 1
  BY <1>1
<1>3. MailGood(ag, next)
  BY <1>1, <1>2 DEF MailGood, IsUpdate
<1>4. ASSUME NEW i \in 1 .. Len(next), IsUpdate(next, i), next[i].update.kind = "Delta"
      PROVE  Covered(next, ch, next[i].update.since, i)
  <2>1. i \in 1 .. (Len(mb) + 1)
    BY <1>1
  <2>2. Covered(mb, ch, next[i].update.since, i)
    <3>1. CASE i \in 1 .. Len(mb)
      BY <1>1, <1>4, <3>1 DEF MailCovered, IsUpdate
    <3>2. CASE i = Len(mb) + 1
      BY <1>1, <1>4, <3>2 DEF IsUpdate
    <3> QED BY <1>2, <3>1, <3>2
  <2> QED BY <2>1, <2>2, CoveredAppend
<1> QED BY <1>3, <1>4 DEF MailCovered

\* It keeps being one when its first message is handled.
LEMMA HandleKeepsMail ==
    ASSUME NEW ag, NEW mb \in Seq(Mail), mb # <<>>, NEW next, next = Tail(mb),
           NEW ch \in CachedStatus \cup {None}, NEW ch2,
           HandledTo(mb, ch, ch2),
           MailGood(ag, mb), MailCovered(mb, ch)
    PROVE  MailGood(ag, next) /\ MailCovered(next, ch2)
<1>1. /\ next \in Seq(Mail)
      /\ Len(mb) \in Nat
      /\ Len(next) = Len(mb) - 1
      /\ Len(next) \in Nat
      /\ \A i \in 1 .. Len(next) : next[i] = mb[i + 1]
  BY TailFacts
<1>2. \A i \in 1 .. Len(next) :
          i + 1 \in 1 .. Len(mb) /\ (IsUpdate(next, i) <=> IsUpdate(mb, i + 1))
  BY <1>1 DEF IsUpdate
<1>3. MailGood(ag, next)
  BY <1>1, <1>2 DEF MailGood
<1>4. ASSUME NEW i \in 1 .. Len(next), IsUpdate(next, i), next[i].update.kind = "Delta"
      PROVE  Covered(next, ch2, next[i].update.since, i)
  <2> DEFINE s == next[i].update.since
  <2>1. next[i] = mb[i + 1] /\ next[i] \in Mail /\ i \in 1 .. (Len(next) + 1)
    BY <1>1
  <2>2. Covered(mb, ch, s, i + 1)
    BY <1>2, <1>4, <2>1 DEF MailCovered
  <2>3. s \in Nat
    BY <1>4, <2>1, MailFacts DEF IsUpdate, StatusUpdate
  <2> HIDE DEF s
  <2>4. Covered(next, ch2, s, i)
    BY <2>1, <2>2, <2>3, CoveredTail
  <2> QED BY <2>4 DEF s
<1> QED BY <1>3, <1>4 DEF MailCovered

-----------------------------------------------------------------------------
(* The invariant.                                                          *)

Inv == TypeOK /\ ProtocolInv

\* The agent's initial state: nothing has changed.
LEMMA AgentInitOK == AgentInit => AgentTypeOK /\ AgentOK(agent)
<1> SUFFICES ASSUME AgentInit
             PROVE  AgentTypeOK /\ AgentOK(agent)
  OBVIOUS
<1> USE DEF AgentInit
<1>1. agent.log \in [0 .. 0 -> SUBSET VM] /\ agent.membership_revision = 0
      /\ agent.status_history = <<>> /\ agent.used = 0
      /\ agent.vms \in [VM -> VMCacheData \cup {NoVM}]
  OBVIOUS
<1>2. AgentTypeOK
  <2> DEFINE LogType == [0 .. 0 -> SUBSET VM]
             VmsType == [VM -> VMCacheData \cup {NoVM}]
             vms0 == [v \in VM |-> NoVM]
             log0 == [r \in 0 .. 0 |-> {}]
  <2>1. vms0 \in VmsType /\ log0 \in LogType
    OBVIOUS
  <2>2. agent = [vms |-> vms0, used |-> 0, membership_revision |-> 0,
                 status_history |-> <<>>, log |-> log0]
    OBVIOUS
  <2>3. 0 .. agent.membership_revision = 0 .. 0
    BY <1>1
  <2> HIDE DEF vms0, log0, LogType, VmsType
  <2>4. agent \in [vms : VmsType, used : Nat, membership_revision : Nat,
                   status_history : Seq(MembershipChange), log : LogType]
    BY <2>1, <2>2
  <2>5. /\ agent.membership_revision <= MaxRevision
        /\ Len(agent.status_history) <= HistoryLimit
    BY <1>1, MaxRevisionAssumption, HistoryLimitAssumption
  <2>6. /\ running \subseteq ActorId
        /\ actorVm \in [ActorId -> VM \cup {NoVM}]
        /\ stopping \subseteq running
        /\ linkDied \subseteq ActorId
        /\ replaced \in BOOLEAN
    OBVIOUS
  <2> QED BY <2>3, <2>4, <2>5, <2>6 DEF AgentTypeOK, LogType, VmsType
<1>3. Members(agent) = {}
  BY DEF Members
<1>4. HistoryIsTail(agent)
  BY <1>1 DEF HistoryIsTail
<1>5. HistoryExplainsLog(agent)
  <2>1. agent.log[0] = {} /\ Len(agent.status_history) = 0
    BY <1>1
  <2>2. \A c \in (0 - 0) .. 0 : c = 0
    OBVIOUS
  <2>3. agent.log[0] = Members(agent)
    BY <1>3, <2>1
  <2> HIDE DEF AgentInit
  <2> QED BY <1>1, <2>1, <2>2, <2>3 DEF HistoryExplainsLog
<1> QED BY <1>2, <1>4, <1>5 DEF AgentTypeOK, AgentOK, AgentFields

\* The initial state: nothing is cached or in flight either.
LEMMA InitInv == Init => Inv
<1> SUFFICES ASSUME Init
             PROVE  Inv
  OBVIOUS
<1>1. AgentTypeOK /\ AgentOK(agent)
  BY AgentInitOK DEF Init
<1>2. TypeOK
  <2>1. AgentTypeOK
    BY <1>1
  <2>2. /\ alive = TRUE /\ linked = FALSE
        /\ updater = NoTask
        /\ mailbox = <<>>
        /\ answer = None /\ cache = None /\ losses = 0
    BY DEF Init
  <2>3. updater \in Task
    BY <2>2 DEF NoTask, Task
  <2>4. mailbox \in Seq(Mail) /\ Len(mailbox) <= MailboxBound
    BY <2>2, SyncBoundAssumption
  <2>5. losses \in 0 .. MaxLosses
    BY <2>2, SyncBoundAssumption
  <2>6. alive \in BOOLEAN /\ linked \in BOOLEAN
    BY <2>2
  <2> QED BY <2>1, <2>2, <2>3, <2>4, <2>5, <2>6 DEF TypeOK
<1>3. UpdatesGood /\ NoGap /\ CacheIsAgentPast
  BY DEF Init, UpdatesGood, NoGap, CacheIsAgentPast, MailGood, MailCovered, NoTask
<1> QED BY <1>1, <1>2, <1>3 DEF Inv, ProtocolInv, AgentOK

\* What the steps of the scheduler and its task leave alone.
LEMMA AgentUnchanged ==
    ASSUME AgentTypeOK, UNCHANGED agentVars
    PROVE  AgentTypeOK' /\ agent' = agent
  BY DEF AgentTypeOK, agentVars

\* Every step of the agent keeps the invariant: the log only grows at its end, so
\* what updates and cache say of revisions reached before stays true.
LEMMA AgentStepInv ==
    ASSUME Inv, AgentStep
    PROVE  Inv'
<1> USE DEF Inv, ProtocolInv
<1>1. AgentTypeOK /\ AgentNext /\ UNCHANGED syncVars
  BY DEF TypeOK, AgentStep
<1>2. AgentOK(agent)
  BY <1>1 DEF AgentOK, AgentFields, AgentTypeOK
<1>3. AgentTypeOK' /\ AgentOK(agent') /\ Extends(agent, agent')
  BY <1>1, <1>2, AgentNextOK
<1>4. TypeOK'
  BY <1>1, <1>3 DEF TypeOK, syncVars
<1>5. AgentFields(agent) /\ AgentFields(agent')
  BY <1>2, <1>3 DEF AgentOK
<1>6. \A u \in StatusUpdate : GoodUpdate(agent, u) => GoodUpdate(agent', u)
  BY <1>3, <1>5, GoodUpdateStable
<1>7. UpdatesGood'
  <2>1. answer' # None => GoodUpdate(agent', answer')
    BY <1>1, <1>6 DEF syncVars, TypeOK, UpdatesGood
  <2>2. ASSUME NEW i \in 1 .. Len(mailbox), IsUpdate(mailbox, i)
        PROVE  GoodUpdate(agent', mailbox[i].update)
    <3>1. mailbox[i] \in Mail
      BY DEF TypeOK
    <3>2. mailbox[i].update \in StatusUpdate
      BY <2>2, <3>1, MailFacts DEF IsUpdate
    <3> QED BY <1>6, <2>2, <3>2 DEF UpdatesGood, MailGood
  <2>3. MailGood(agent', mailbox')
    BY <1>1, <2>2 DEF syncVars, MailGood
  <2> QED BY <2>1, <2>3 DEF UpdatesGood
<1>8. NoGap'
  BY <1>1 DEF NoGap, syncVars
<1>9. CacheIsAgentPast'
  <2> SUFFICES ASSUME cache # None
               PROVE  /\ cache.revision <= agent'.membership_revision
                      /\ cache.vms = agent'.log[cache.revision]
    BY <1>1 DEF CacheIsAgentPast, syncVars
  <2>1. /\ cache.revision <= agent.membership_revision
        /\ cache.vms = agent.log[cache.revision]
    BY DEF CacheIsAgentPast
  <2>2. /\ cache.revision \in Nat
        /\ agent.membership_revision \in Nat
        /\ agent'.membership_revision \in Nat
    BY <1>5 DEF TypeOK, CachedStatus, AgentFields
  <2> QED BY <1>3, <2>1, <2>2 DEF Extends
<1> QED BY <1>3, <1>4, <1>7, <1>8, <1>9 DEF AgentOK

\* A step that leaves the agent alone keeps what the history says.
LEMMA HistoryUnchanged ==
    ASSUME HistoryIsTail(agent), HistoryExplainsLog(agent), agent' = agent
    PROVE  HistoryIsTail(agent') /\ HistoryExplainsLog(agent')
  OBVIOUS

\* A poll: the answer is good, and starts where the last forwarded one ended.
LEMMA UpdaterPollsInv ==
    ASSUME Inv, UpdaterPolls
    PROVE  Inv'
<1> USE DEF Inv, ProtocolInv
<1>1. AgentTypeOK' /\ agent' = agent
  BY AgentUnchanged DEF TypeOK, UpdaterPolls
<1>2. AgentOK(agent)
  BY DEF AgentOK, AgentFields, TypeOK, AgentTypeOK
<1>3. updater.since \in Nat /\ updater.initial \in BOOLEAN
  BY DEF TypeOK, Task
<1>4. /\ answer' \in StatusUpdate
      /\ answer'.revision = agent.membership_revision
      /\ answer'.kind = "Delta" => answer'.since = updater.since /\ ~updater.initial
      /\ GoodUpdate(agent, answer')
  BY <1>2, <1>3, GetAgentStatusGood DEF UpdaterPolls
<1>5. answer'.revision \in Nat /\ answer' # None
  BY <1>4, NoneAssumption DEF StatusUpdate
<1>6. TypeOK'
  BY <1>1, <1>4, <1>5 DEF TypeOK, UpdaterPolls, Task
<1>7. UpdatesGood'
  BY <1>1, <1>4 DEF UpdatesGood, UpdaterPolls
<1>8. NoGap'
  BY <1>4, <1>5 DEF NoGap, UpdaterPolls
<1>9. CacheIsAgentPast'
  BY <1>1 DEF CacheIsAgentPast, UpdaterPolls
<1> QED BY <1>1, <1>6, <1>7, <1>8, <1>9, HistoryUnchanged

\* A discovery: a new task starts with a full snapshot.
LEMMA DiscoveredInv ==
    ASSUME Inv, AgentActorDiscovered
    PROVE  Inv'
<1> USE DEF Inv, ProtocolInv
<1>1. AgentTypeOK' /\ agent' = agent
  BY AgentUnchanged DEF TypeOK, AgentActorDiscovered
<1>2. TypeOK'
  BY <1>1 DEF TypeOK, AgentActorDiscovered, Task, NewTask, NoTask
<1>3. answer = None
  BY DEF NoGap, AgentActorDiscovered
<1>4. updater'.phase = "polling" => updater'.initial
  BY DEF AgentActorDiscovered, NewTask, NoTask
<1>5. UpdatesGood' /\ NoGap' /\ CacheIsAgentPast'
  BY <1>1, <1>3, <1>4 DEF UpdatesGood, NoGap, CacheIsAgentPast, AgentActorDiscovered
<1> QED BY <1>1, <1>2, <1>5, HistoryUnchanged

\* The agent dies: its history stays what it was.
LEMMA AgentDiesInv ==
    ASSUME Inv, AgentDies
    PROVE  Inv'
<1> USE DEF Inv, ProtocolInv
<1>1. AgentTypeOK' /\ agent' = agent
  BY AgentUnchanged DEF TypeOK, AgentDies
<1>2. TypeOK'
  BY <1>1 DEF TypeOK, AgentDies
<1>3. UpdatesGood' /\ NoGap' /\ CacheIsAgentPast'
  BY <1>1 DEF UpdatesGood, NoGap, CacheIsAgentPast, AgentDies
<1> QED BY <1>1, <1>2, <1>3, HistoryUnchanged

\* The task forwards its answer: the answer covers what the task asks for next.
LEMMA UpdaterTellsInv ==
    ASSUME Inv, UpdaterTells
    PROVE  Inv'
<1> USE DEF Inv, ProtocolInv
<1>1. AgentTypeOK' /\ agent' = agent
  BY AgentUnchanged DEF TypeOK, UpdaterTells
<1> DEFINE m == UpdatedMsg(answer)
<1>2. mailbox \in Seq(Mail) /\ answer \in StatusUpdate /\ answer.revision \in Nat
  BY DEF TypeOK, UpdaterTells, StatusUpdate
<1>3. m \in Mail /\ m.type = "AgentUpdated" /\ m.update = answer
  BY <1>2, MailFacts
<1> HIDE DEF m
<1>4. mailbox' = Append(mailbox, m) /\ answer' = None /\ cache' = cache /\ updater' = updater
      /\ Len(mailbox) < MailboxBound /\ answer # None
  BY DEF UpdaterTells, m
<1>5. mailbox' \in Seq(Mail) /\ Len(mailbox') = Len(mailbox) + 1 /\ Len(mailbox) \in Nat
  BY <1>2, <1>3, <1>4, AppendFacts
<1>6. TypeOK'
  BY <1>1, <1>4, <1>5, SyncBoundAssumption DEF TypeOK, UpdaterTells
<1>7. MailGood(agent, mailbox') /\ MailCovered(mailbox', cache)
  BY <1>2, <1>3, <1>4, TellKeepsMail DEF UpdatesGood, NoGap
<1>8. updater.since = answer.revision
  BY <1>4 DEF NoGap
<1>9. answer.revision >= updater.since
  BY <1>2, <1>8
<1>10. Covered(mailbox', cache, updater.since, Len(mailbox') + 1)
  BY <1>2, <1>3, <1>4, <1>9, CoveredAppend
<1>11. UpdatesGood' /\ NoGap' /\ CacheIsAgentPast'
  BY <1>1, <1>4, <1>7, <1>10 DEF UpdatesGood, NoGap, CacheIsAgentPast
<1> QED BY <1>1, <1>6, <1>11, HistoryUnchanged

\* Another message than an update is told to the scheduler; the task goes on with
\* what it has, or has returned.
LEMMA OtherTellInv ==
    ASSUME Inv, UNCHANGED <<agentVars, alive, answer, linked, cache>>,
           NEW m \in Mail, m.type # "AgentUpdated", mailbox' = Append(mailbox, m),
           Len(mailbox) < MailboxBound, losses' \in 0 .. MaxLosses,
           \/ updater' = updater
           \/ updater' = FinishedTask /\ answer = None
    PROVE  Inv'
<1> USE DEF Inv, ProtocolInv
<1>1. AgentTypeOK' /\ agent' = agent
  BY AgentUnchanged DEF TypeOK
<1>2. mailbox \in Seq(Mail)
  BY DEF TypeOK
<1>3. mailbox' \in Seq(Mail) /\ Len(mailbox') = Len(mailbox) + 1 /\ Len(mailbox) \in Nat
  BY <1>2, AppendFacts
<1>4. TypeOK'
  <2>1. FinishedTask \in Task
    BY DEF FinishedTask, Task
  <2>2. updater' \in Task
    BY <2>1 DEF TypeOK
  <2>3. Len(mailbox') <= MailboxBound
    BY <1>3, SyncBoundAssumption
  <2> QED BY <1>1, <1>3, <2>2, <2>3 DEF TypeOK
<1>5. MailGood(agent, mailbox') /\ MailCovered(mailbox', cache)
  BY <1>2, TellKeepsMail DEF UpdatesGood, NoGap
<1>6. \A s : Covered(mailbox, cache, s, Len(mailbox) + 1)
                => Covered(mailbox', cache, s, Len(mailbox') + 1)
  BY <1>2, CoveredAppend
<1>7. NoGap'
  BY <1>5, <1>6 DEF NoGap, FinishedTask
<1>8. UpdatesGood' /\ CacheIsAgentPast'
  BY <1>1, <1>5 DEF UpdatesGood, CacheIsAgentPast
<1> QED BY <1>1, <1>4, <1>7, <1>8, HistoryUnchanged

\* The task gives up, or the link is lost.
LEMMA LossInv ==
    ASSUME Inv, UpdaterGivesUp \/ LinkLost
    PROVE  Inv'
<1>1. losses' \in 0 .. MaxLosses
  BY SyncBoundAssumption DEF Inv, TypeOK, UpdaterGivesUp, LinkLost, CountLoss
<1>2. CASE UpdaterGivesUp
  BY <1>1, <1>2, MailFacts, OtherTellInv DEF UpdaterGivesUp
<1>3. CASE LinkLost
  BY <1>1, <1>3, MailFacts, OtherTellInv DEF LinkLost
<1> QED BY <1>2, <1>3

\* AgentUpdated: an accepted snapshot is the agent's membership at its revision;
\* an accepted delta meets a cached status that is not older than its start.
LEMMA AgentUpdatedInv ==
    ASSUME Inv, HandleAgentUpdated
    PROVE  /\ Inv'
           /\ \/ cache' = cache
              \/ /\ cache = None \/ Head(mailbox).update.revision > cache.revision
                 /\ cache' # None
                 /\ cache'.revision = Head(mailbox).update.revision
<1> USE DEF Inv, ProtocolInv
<1> DEFINE u == Head(mailbox).update
<1>1. AgentTypeOK' /\ agent' = agent
  BY AgentUnchanged DEF TypeOK, HandleAgentUpdated
<1>2. /\ mailbox \in Seq(Mail) /\ mailbox # <<>> /\ Head(mailbox).type = "AgentUpdated"
      /\ mailbox' = Tail(mailbox) /\ cache' = AgentUpdatedResult(cache, u)
      /\ cache \in CachedStatus \cup {None}
      /\ answer' = answer /\ updater' = updater
  BY DEF TypeOK, HandleAgentUpdated
<1>3. /\ mailbox' \in Seq(Mail) /\ Len(mailbox) \in Nat /\ Len(mailbox) >= 1
      /\ Len(mailbox') = Len(mailbox) - 1
      /\ Head(mailbox) = mailbox[1] /\ Head(mailbox) \in Mail
  BY <1>2, TailFacts
<1>4. u \in StatusUpdate
  BY <1>2, <1>3, MailFacts
<1>5. 1 \in 1 .. Len(mailbox) /\ IsUpdate(mailbox, 1)
  BY <1>2, <1>3 DEF IsUpdate
<1>6. GoodUpdate(agent, u)
  BY <1>3, <1>5 DEF UpdatesGood, MailGood
<1>7. u.kind = "Delta" => (cache = None \/ cache.revision >= u.since)
  BY <1>3, <1>5 DEF NoGap, MailCovered, Covered
<1> HIDE DEF u
<1>8. /\ u.kind \in {"Full", "Delta"} /\ u.revision \in Nat /\ u.since \in Nat
      /\ u.vms \subseteq VM /\ u.added \subseteq VM /\ u.used \in Nat
  BY <1>4 DEF StatusUpdate
<1>9. agent.membership_revision \in Nat
  BY DEF TypeOK, AgentTypeOK
<1>10. /\ cache' \in CachedStatus \cup {None}
       /\ cache' # None =>
              /\ cache'.revision <= agent.membership_revision
              /\ cache'.vms = agent.log[cache'.revision]
       /\ \/ cache' = cache
          \/ /\ cache = None \/ u.revision > cache.revision
             /\ cache' # None
             /\ cache'.revision = u.revision
  <2>1. CASE ~Accepts(cache, u)
    BY <1>2, <2>1 DEF AgentUpdatedResult, CacheIsAgentPast
  <2>2. CASE Accepts(cache, u) /\ u.kind = "Full"
    <3>1. cache' = [vms |-> u.vms, revision |-> u.revision, used |-> u.used]
      BY <1>2, <2>2 DEF AgentUpdatedResult, apply_status_update
    <3>2. cache' \in CachedStatus
      BY <1>8, <3>1 DEF CachedStatus
    <3>3. cache' # None
      BY <3>2, NoneAssumption
    <3> QED BY <1>6, <2>2, <3>1, <3>2, <3>3 DEF GoodUpdate, Accepts
  <2>3. CASE Accepts(cache, u) /\ u.kind # "Full"
    <3>1. cache' = [vms |-> (cache.vms \ u.removed) \cup u.added,
                    revision |-> u.revision, used |-> u.used]
      BY <1>2, <2>3 DEF AgentUpdatedResult, apply_status_update
    <3>2. cache # None /\ u.revision > cache.revision /\ u.kind = "Delta"
      BY <1>8, <2>3 DEF Accepts
    <3>3. cache.vms \subseteq VM /\ cache.revision \in Nat
      BY <1>2, <3>2 DEF CachedStatus
    <3>4. cache' \in CachedStatus
      BY <1>8, <3>1, <3>3 DEF CachedStatus
    <3>5. cache' # None
      BY <3>4, NoneAssumption
    <3>6. cache.revision \in u.since .. u.revision
      BY <1>7, <1>8, <3>2, <3>3
    <3>7. cache.vms = agent.log[cache.revision]
      BY <3>2 DEF CacheIsAgentPast
    <3>8. (agent.log[cache.revision] \ u.removed) \cup u.added = agent.log[u.revision]
      BY <1>6, <3>2, <3>6 DEF GoodUpdate
    <3> QED BY <1>6, <3>1, <3>2, <3>4, <3>5, <3>7, <3>8 DEF GoodUpdate
  <2> QED BY <2>1, <2>2, <2>3
<1>11. TypeOK'
  BY <1>1, <1>3, <1>10, SyncBoundAssumption DEF TypeOK, HandleAgentUpdated
<1>h. HandledTo(mailbox, cache, cache')
  BY <1>2 DEF HandledTo, u
<1>12. MailGood(agent, mailbox') /\ MailCovered(mailbox', cache')
  BY <1>2, <1>h, HandleKeepsMail DEF UpdatesGood, NoGap
<1>13. ASSUME NEW s \in Nat, Covered(mailbox, cache, s, Len(mailbox) + 1)
       PROVE  Covered(mailbox', cache', s, Len(mailbox') + 1)
  BY <1>2, <1>13, <1>h, CoveredTailEnd
<1>14. NoGap'
  <2>1. /\ answer # None => answer.since \in Nat
        /\ updater.since \in Nat
    BY DEF TypeOK, StatusUpdate, Task
  <2> QED BY <1>2, <1>12, <1>13, <2>1 DEF NoGap
<1>15. UpdatesGood' /\ CacheIsAgentPast'
  BY <1>1, <1>2, <1>10, <1>12 DEF UpdatesGood, CacheIsAgentPast
<1>16. Inv'
  BY <1>1, <1>11, <1>14, <1>15, HistoryUnchanged
<1> QED BY <1>10, <1>16 DEF u

\* Cleaning up after the agent leaves the scheduler without status and without
\* task; what an aborted task still delivers is covered by the missing status.
LEMMA CleanupInv ==
    ASSUME Inv, mailbox # <<>>, Head(mailbox).type # "AgentUpdated",
           cleanup_agent_actor, linked' = FALSE, UNCHANGED <<agentVars, alive, losses>>
    PROVE  Inv'
<1> USE DEF Inv, ProtocolInv
<1> DEFINE rest == Tail(mailbox)
<1>1. AgentTypeOK' /\ agent' = agent
  BY AgentUnchanged DEF TypeOK
<1>2. /\ mailbox \in Seq(Mail) /\ cache \in CachedStatus \cup {None}
      /\ updater' = NoTask /\ cache' = None /\ answer' = None
      /\ Len(mailbox) <= MailboxBound
      /\ HandledTo(mailbox, cache, None)
  BY DEF TypeOK, cleanup_agent_actor, HandledTo
<1>3. rest \in Seq(Mail) /\ Len(rest) = Len(mailbox) - 1 /\ Len(mailbox) \in Nat
      /\ Len(mailbox) >= 1
  BY <1>2, TailFacts
<1>4. MailGood(agent, rest) /\ MailCovered(rest, None)
  BY <1>2, HandleKeepsMail DEF UpdatesGood, NoGap
<1>5. mailbox' = rest \/ (answer # None /\ mailbox' = Append(rest, UpdatedMsg(answer)))
  BY DEF cleanup_agent_actor
<1>6. /\ mailbox' \in Seq(Mail)
      /\ Len(mailbox') <= MailboxBound
      /\ MailGood(agent, mailbox')
      /\ MailCovered(mailbox', None)
  <2>1. CASE mailbox' = rest
    <3> HIDE DEF rest
    <3> QED BY <1>2, <1>3, <1>4, <2>1, SyncBoundAssumption
  <2>2. CASE answer # None /\ mailbox' = Append(rest, UpdatedMsg(answer))
    <3> DEFINE m == UpdatedMsg(answer)
    <3>1. answer \in StatusUpdate /\ answer.since \in Nat
      BY <2>2 DEF TypeOK, StatusUpdate
    <3>2. m \in Mail /\ m.type = "AgentUpdated" /\ m.update = answer
      BY <3>1, MailFacts
    <3>4. GoodUpdate(agent, answer)
      BY <2>2 DEF UpdatesGood
    <3>5. answer.kind = "Delta" => Covered(rest, None, answer.since, Len(rest) + 1)
      BY <1>2, <2>2, <3>1, CoveredTailEnd DEF NoGap
    <3> HIDE DEF rest, m
    <3>6. mailbox' \in Seq(Mail) /\ Len(mailbox') = Len(rest) + 1
      BY <1>3, <2>2, <3>2, AppendFacts DEF m
    <3>7. MailGood(agent, mailbox') /\ MailCovered(mailbox', None)
      BY <1>3, <1>4, <2>2, <3>2, <3>4, <3>5, TellKeepsMail DEF m
    <3> QED BY <1>2, <1>3, <3>6, <3>7, SyncBoundAssumption
  <2> QED BY <1>5, <2>1, <2>2
<1>7. TypeOK'
  <2>1. updater' \in Task
    BY <1>2 DEF NoTask, Task
  <2> QED BY <1>1, <1>2, <1>6, <2>1 DEF TypeOK
<1>8. NoGap'
  BY <1>2, <1>6 DEF NoGap, NoTask
<1>9. UpdatesGood' /\ CacheIsAgentPast'
  BY <1>1, <1>2, <1>6 DEF UpdatesGood, CacheIsAgentPast
<1> QED BY <1>1, <1>7, <1>8, <1>9, HistoryUnchanged

\* A link death the scheduler no longer expects is dropped.
LEMMA StaleLinkDiedInv ==
    ASSUME Inv, mailbox # <<>>, Head(mailbox).type # "AgentUpdated",
           mailbox' = Tail(mailbox), linked' = FALSE,
           UNCHANGED <<agentVars, alive, losses, updater, cache, answer>>
    PROVE  Inv'
<1> USE DEF Inv, ProtocolInv
<1>1. AgentTypeOK' /\ agent' = agent
  BY AgentUnchanged DEF TypeOK
<1>2. mailbox \in Seq(Mail) /\ cache \in CachedStatus \cup {None}
      /\ HandledTo(mailbox, cache, cache)
  BY DEF TypeOK, HandledTo
<1>3. mailbox' \in Seq(Mail) /\ Len(mailbox') = Len(mailbox) - 1 /\ Len(mailbox) \in Nat
      /\ Len(mailbox') \in Nat
  BY <1>2, TailFacts
<1>4. MailGood(agent, mailbox') /\ MailCovered(mailbox', cache)
  BY <1>2, HandleKeepsMail DEF UpdatesGood, NoGap
<1>5. TypeOK'
  <2>1. Len(mailbox') <= MailboxBound
    BY <1>3, SyncBoundAssumption DEF TypeOK
  <2> QED BY <1>1, <1>3, <2>1 DEF TypeOK
<1>6. ASSUME NEW s \in Nat, Covered(mailbox, cache, s, Len(mailbox) + 1)
      PROVE  Covered(mailbox', cache, s, Len(mailbox') + 1)
  BY <1>2, <1>6, CoveredTailEnd
<1>7. NoGap'
  <2>1. /\ answer # None => answer.since \in Nat
        /\ updater.since \in Nat
    BY DEF TypeOK, StatusUpdate, Task
  <2> QED BY <1>4, <1>6, <2>1 DEF NoGap
<1>8. UpdatesGood' /\ CacheIsAgentPast'
  BY <1>1, <1>4 DEF UpdatesGood, CacheIsAgentPast
<1> QED BY <1>1, <1>5, <1>7, <1>8, HistoryUnchanged

\* AgentUpdaterStopped and on_link_died.
LEMMA LosingHandledInv ==
    ASSUME Inv, HandleUpdaterStopped \/ HandleLinkDied
    PROVE  Inv'
<1>1. CASE HandleUpdaterStopped
  BY <1>1, CleanupInv DEF HandleUpdaterStopped
<1>2. CASE HandleLinkDied
  <2>1. CASE linked /\ cleanup_agent_actor
    BY <1>2, <2>1, CleanupInv DEF HandleLinkDied
  <2>2. CASE ~linked /\ mailbox' = Tail(mailbox) /\ UNCHANGED <<updater, cache, answer>>
    BY <1>2, <2>2, StaleLinkDiedInv DEF HandleLinkDied
  <2> QED BY <1>2, <2>1, <2>2 DEF HandleLinkDied
<1> QED BY <1>1, <1>2

\* Every step keeps the invariant.
LEMMA NextInv ==
    ASSUME Inv, [Next]_vars
    PROVE  Inv'
<1>1. CASE AgentStep
  BY <1>1, AgentStepInv
<1>2. CASE AgentDies
  BY <1>2, AgentDiesInv
<1>3. CASE AgentActorDiscovered
  BY <1>3, DiscoveredInv
<1>4. CASE UpdaterPolls
  BY <1>4, UpdaterPollsInv
<1>5. CASE UpdaterTells
  BY <1>5, UpdaterTellsInv
<1>6. CASE UpdaterGivesUp \/ LinkLost
  BY <1>6, LossInv
<1>7. CASE HandleAgentUpdated
  BY <1>7, AgentUpdatedInv
<1>8. CASE HandleUpdaterStopped \/ HandleLinkDied
  BY <1>8, LosingHandledInv
<1>9. CASE UNCHANGED vars
  <2>1. UNCHANGED <<agentVars, syncVars>>
    BY <1>9 DEF vars
  <2>2. AgentTypeOK' /\ agent' = agent
    BY <2>1, AgentUnchanged DEF Inv, TypeOK
  <2>3. TypeOK'
    BY <2>1, <2>2 DEF Inv, TypeOK, syncVars
  <2>4. ProtocolInv'
    BY <2>1, <2>2
       DEF Inv, ProtocolInv, UpdatesGood, NoGap, CacheIsAgentPast, syncVars
  <2> QED BY <2>3, <2>4 DEF Inv
<1> QED BY <1>1, <1>2, <1>3, <1>4, <1>5, <1>6, <1>7, <1>8, <1>9 DEF Next

-----------------------------------------------------------------------------
(* The theorems.                                                           *)

\* Types and the inductive invariant hold in every reachable state.
THEOREM Invariance == Spec => []Inv
  BY InitInv, NextInv, PTL DEF Spec

\* Type correctness of the agent, of the scheduler's updater task, of its mailbox
\* and of its cached status.
THEOREM TypeCorrect == Spec => []TypeOK
<1>1. Inv => TypeOK
  BY DEF Inv
<1> QED BY <1>1, Invariance, PTL

\* The history explains the log, every update in flight is good, and no delta
\* meets a cached status older than the revision it starts from.
THEOREM ProtocolCorrect == Spec => []ProtocolInv
<1>1. Inv => ProtocolInv
  BY DEF Inv
<1> QED BY <1>1, Invariance, PTL

\* The scheduler's copy of an agent's VM list is always the list the agent had at
\* the copy's revision.
THEOREM CacheCorrect == Spec => []CacheIsAgentPast
<1>1. Inv => CacheIsAgentPast
  BY DEF Inv, ProtocolInv
<1> QED BY <1>1, Invariance, PTL

\* A step of the agent is a Change of the abstract log, or leaves it alone.
LEMMA AgentStepRefines ==
    ASSUME Inv, AgentStep
    PROVE  [View!Next]_View!vars
<1>1. AgentTypeOK /\ AgentNext /\ UNCHANGED syncVars
  BY DEF Inv, TypeOK, AgentStep
<1>2. AgentOK(agent)
  BY <1>1 DEF Inv, ProtocolInv, AgentOK, AgentFields, AgentTypeOK
<1>3. AgentTypeOK' /\ Extends(agent, agent')
  BY <1>1, <1>2, AgentNextOK
<1>4. /\ agent.membership_revision \in Nat
      /\ agent'.membership_revision \in Nat
      /\ agent'.log \in [0 .. agent'.membership_revision -> SUBSET VM]
  BY <1>1, <1>3 DEF AgentTypeOK
<1>5. cache' = cache
  BY <1>1 DEF syncVars
<1>6. CASE agent'.membership_revision = agent.membership_revision
  BY <1>3, <1>5, <1>6 DEF Extends, View!vars
<1>7. CASE agent'.membership_revision # agent.membership_revision
  <2>1. agent'.membership_revision > agent.membership_revision
    BY <1>3, <1>4, <1>7 DEF Extends
  <2>2. View!Change
    BY <1>3, <1>4, <1>5, <2>1 DEF Extends, View!Change
  <2> QED BY <2>2 DEF View!Next
<1> QED BY <1>6, <1>7

\* An accepted update is an Observe, an ignored one leaves the view alone.
LEMMA AgentUpdatedRefines ==
    ASSUME Inv, HandleAgentUpdated
    PROVE  [View!Next]_View!vars
<1> DEFINE r == Head(mailbox).update.revision
<1>1. Inv'
  BY AgentUpdatedInv
<1>2. agent' = agent
  BY AgentUnchanged DEF Inv, TypeOK, HandleAgentUpdated
<1>3. CASE cache' = cache
  BY <1>2, <1>3 DEF View!vars
<1>4. CASE cache' # cache
  <2>1. /\ cache = None \/ r > cache.revision
        /\ cache' # None
        /\ cache'.revision = r
    BY <1>4, AgentUpdatedInv
  <2>2. /\ r <= agent.membership_revision
        /\ cache'.vms = agent.log[r]
    BY <1>1, <1>2, <2>1 DEF Inv, ProtocolInv, CacheIsAgentPast
  <2>3. cache' \in CachedStatus /\ agent.membership_revision \in Nat
        /\ (cache # None => cache.revision \in Nat)
    BY <1>1, <2>1 DEF Inv, TypeOK, AgentTypeOK, CachedStatus
  <2>4. r \in Nat
    BY <2>1, <2>3 DEF CachedStatus
  <2> HIDE DEF r
  <2>5. r \in 0 .. agent.membership_revision
    BY <2>2, <2>3, <2>4
  <2>6. View!Observe
    BY <1>2, <2>1, <2>2, <2>3, <2>4, <2>5 DEF View!Observe
  <2> QED BY <2>6 DEF View!Next
<1> QED BY <1>3, <1>4

\* Every step of the protocol is a step of the abstract specification or a
\* stuttering step.
LEMMA NextRefines ==
    ASSUME Inv, [Next]_vars
    PROVE  [View!Next]_View!vars
<1>1. CASE AgentStep
  BY <1>1, AgentStepRefines
<1>2. CASE HandleAgentUpdated
  BY <1>2, AgentUpdatedRefines
<1>3. ASSUME UNCHANGED agentVars, cache' = cache \/ cache' = None
      PROVE  [View!Next]_View!vars
  <2>1. agent' = agent
    BY <1>3 DEF agentVars
  <2>2. CASE cache' = cache
    BY <2>1, <2>2 DEF View!vars
  <2>3. CASE cache' = None
    BY <2>1, <2>3 DEF View!Lose, View!Next
  <2> QED BY <1>3, <2>2, <2>3
<1>4. CASE AgentDies \/ AgentActorDiscovered \/ UpdaterPolls \/ UpdaterTells
           \/ UpdaterGivesUp \/ LinkLost
  BY <1>3, <1>4 DEF AgentDies, AgentActorDiscovered, UpdaterPolls, UpdaterTells,
                    UpdaterGivesUp, LinkLost
<1>5. CASE HandleUpdaterStopped \/ HandleLinkDied
  BY <1>3, <1>5 DEF HandleUpdaterStopped, HandleLinkDied, cleanup_agent_actor
<1>6. CASE UNCHANGED vars
  BY <1>3, <1>6 DEF vars, syncVars
<1> QED BY <1>1, <1>2, <1>4, <1>5, <1>6 DEF Next

\* The status protocol implements MembershipView: the scheduler's view of an agent
\* is always one membership the agent really had, and only moves forward until it
\* is dropped.
THEOREM Refinement == Spec => ViewSpec
<1>1. Init => View!Init
  BY DEF Init, AgentInit, View!Init
<1>2. Inv /\ [Next]_vars => [View!Next]_View!vars
  BY NextRefines
<1> QED BY <1>1, <1>2, Invariance, PTL DEF Spec, ViewSpec, View!Spec

-----------------------------------------------------------------------------
(* What the accounting does to the entries and to the revision.            *)

\* insert_vm sets one entry, and counts a change if there was none.
LEMMA InsertEffect ==
    ASSUME NEW ag, AgentFields(ag), NEW v \in VM, NEW data \in VMCacheData
    PROVE  LET next == insert_vm(ag, v, data)
           IN  /\ next.vms = [ag.vms EXCEPT ![v] = data]
               /\ ag.vms[v] = NoVM =>
                     next.membership_revision = ag.membership_revision + 1
<1> DEFINE vms2  == [ag.vms EXCEPT ![v] = data]
           freed == IF ag.vms[v] = NoVM THEN ag.used
                    ELSE saturating_sub(ag.used, ag.vms[v].size)
           base  == [ag EXCEPT !.vms = vms2, !.used = freed + data.size]
           next  == insert_vm(ag, v, data)
<1>1. base.vms = vms2 /\ base.membership_revision = ag.membership_revision
  <2> HIDE DEF vms2, freed
  <2> QED BY DEF AgentFields
<1>2. CASE ag.vms[v] = NoVM
  <2>1. next = record_membership_change(base, v, TRUE, Members(ag) \cup {v})
    BY <1>2 DEF insert_vm
  <2> HIDE DEF base, next
  <2> QED BY <1>1, <2>1 DEF record_membership_change, next
<1>3. CASE ag.vms[v] # NoVM
  <2>1. next = base
    BY <1>3 DEF insert_vm
  <2> HIDE DEF base, next
  <2> QED BY <1>1, <1>3, <2>1 DEF next
<1> QED BY <1>2, <1>3

\* remove_vm clears one entry, and counts a change if there was one.
LEMMA RemoveEffect ==
    ASSUME NEW ag, AgentFields(ag), NEW v \in VM
    PROVE  LET next == remove_vm(ag, v)
           IN  /\ next.vms = [ag.vms EXCEPT ![v] = NoVM]
               /\ ag.vms[v] # NoVM =>
                     next.membership_revision = ag.membership_revision + 1
<1> DEFINE vms2 == [ag.vms EXCEPT ![v] = NoVM]
           left == saturating_sub(ag.used, ag.vms[v].size)
           base == [ag EXCEPT !.vms = vms2, !.used = left]
           next == remove_vm(ag, v)
<1>1. base.vms = vms2 /\ base.membership_revision = ag.membership_revision
  <2> HIDE DEF vms2, left
  <2> QED BY DEF AgentFields
<1>2. CASE ag.vms[v] = NoVM
  <2>1. next = ag
    BY <1>2 DEF remove_vm
  <2>2. vms2 = ag.vms
    BY <1>2 DEF AgentFields
  <2> HIDE DEF vms2, next
  <2> QED BY <1>2, <2>1, <2>2 DEF next, vms2
<1>3. CASE ag.vms[v] # NoVM
  <2>1. next = record_membership_change(base, v, FALSE, Members(ag) \ {v})
    BY <1>3 DEF remove_vm
  <2> HIDE DEF base, next
  <2> QED BY <1>1, <1>3, <2>1 DEF record_membership_change, next
<1> QED BY <1>2, <1>3

-----------------------------------------------------------------------------
(* Entries and actors.                                                     *)

\* An actor is running or its death is to be handled, never both, and was spawned
\* for a VM.
ActorsApart ==
    /\ running \cap linkDied = {}
    /\ \A a \in running : actorVm[a] \in VM

\* What the entries say of the actors.
EntryInv == ActorsApart /\ EntryActorAccountedFor /\ UnlistedActorIsStopping

\* Everything the agent's own steps keep.
AgentInv == AgentTypeOK /\ AgentOK(agent) /\ EntryInv

\* An agent that starts has neither entries nor actors.
LEMMA EntryInit == AgentInit => EntryInv
  BY DEF AgentInit, EntryInv, ActorsApart, EntryActorAccountedFor,
         UnlistedActorIsStopping, Members

\* A new actor's entry: what CreateVM does, and a migration that found no entry or
\* replaced one.
LEMMA SpawnEntry ==
    ASSUME AgentTypeOK, EntryInv,
           NEW v \in VM, NEW data \in VMCacheData,
           SpawnLinked(v, data.actor_ref),
           agent'.vms = [agent.vms EXCEPT ![v] = data],
           UNCHANGED <<stopping, linkDied>>,
           replaced' = (replaced \/ agent.vms[v] # NoVM)
    PROVE  EntryInv'
<1> DEFINE a == data.actor_ref
<1>1. /\ agent.vms \in [VM -> VMCacheData \cup {NoVM}]
      /\ actorVm \in [ActorId -> VM \cup {NoVM}]
      /\ running \subseteq ActorId
      /\ replaced \in BOOLEAN
  BY DEF AgentTypeOK
<1>2. a \in ActorId /\ data # NoVM
  BY NoVMAssumption DEF VMCacheData
<1>3. /\ a \notin running /\ a \notin linkDied
      /\ \A w \in VM : agent.vms[w] # NoVM => agent.vms[w].actor_ref # a
      /\ running' = running \cup {a}
      /\ actorVm' = [actorVm EXCEPT ![a] = v]
  BY DEF SpawnLinked, Members
<1>4. agent'.vms[v] = data /\ \A w \in VM : w # v => agent'.vms[w] = agent.vms[w]
  BY <1>1
<1>5. actorVm'[a] = v /\ \A b \in ActorId : b # a => actorVm'[b] = actorVm[b]
  BY <1>1, <1>2, <1>3
<1> HIDE DEF a
<1>6. ActorsApart'
  BY <1>1, <1>3, <1>5 DEF EntryInv, ActorsApart
<1>7. EntryActorAccountedFor'
  <2> SUFFICES ASSUME NEW w \in VM, agent'.vms[w] # NoVM
               PROVE  /\ agent'.vms[w].actor_ref \in running' \cup linkDied'
                      /\ actorVm'[agent'.vms[w].actor_ref] = w
    BY DEF EntryActorAccountedFor, Members
  <2>1. CASE w = v
    BY <2>1, <1>3, <1>4, <1>5 DEF a
  <2>2. CASE w # v
    <3>1. agent.vms[w] \in VMCacheData
      BY <1>1, <1>4, <2>2
    <3> QED BY <1>3, <1>4, <1>5, <2>2, <3>1
            DEF EntryInv, EntryActorAccountedFor, Members, VMCacheData
  <2> QED BY <2>1, <2>2
<1>8. UnlistedActorIsStopping'
  <2> SUFFICES ASSUME ~replaced', NEW b \in running'
               PROVE  \/ b \in stopping'
                      \/ /\ agent'.vms[actorVm'[b]] # NoVM
                         /\ agent'.vms[actorVm'[b]].actor_ref = b
    BY DEF UnlistedActorIsStopping
  <2>1. CASE b = a
    BY <1>2, <1>4, <1>5, <2>1 DEF a
  <2>2. CASE b # a
    <3>1. b \in running /\ actorVm'[b] = actorVm[b] /\ actorVm[b] \in VM
      BY <1>1, <1>3, <1>5, <2>2 DEF EntryInv, ActorsApart
    <3> QED BY <1>4, <2>2, <3>1 DEF EntryInv, UnlistedActorIsStopping
  <2> QED BY <2>1, <2>2
<1> QED BY <1>6, <1>7, <1>8 DEF EntryInv

\* A migration that fails: the actor is left to stop, the entry is gone, whether it
\* was there before or not.
LEMMA FailedMigrateEntry ==
    ASSUME AgentTypeOK, EntryInv,
           NEW v \in VM, NEW a \in ActorId,
           SpawnLinked(v, a),
           agent'.vms = [agent.vms EXCEPT ![v] = NoVM],
           stopping' = stopping \cup {a},
           linkDied' = linkDied,
           replaced' = (replaced \/ agent.vms[v] # NoVM)
    PROVE  EntryInv'
<1>1. /\ agent.vms \in [VM -> VMCacheData \cup {NoVM}]
      /\ actorVm \in [ActorId -> VM \cup {NoVM}]
      /\ running \subseteq ActorId
      /\ replaced \in BOOLEAN
  BY DEF AgentTypeOK
<1>3. /\ a \notin running /\ a \notin linkDied
      /\ \A w \in VM : agent.vms[w] # NoVM => agent.vms[w].actor_ref # a
      /\ running' = running \cup {a}
      /\ actorVm' = [actorVm EXCEPT ![a] = v]
  BY DEF SpawnLinked, Members
<1>4. agent'.vms[v] = NoVM /\ \A w \in VM : w # v => agent'.vms[w] = agent.vms[w]
  BY <1>1
<1>5. actorVm'[a] = v /\ \A b \in ActorId : b # a => actorVm'[b] = actorVm[b]
  BY <1>1, <1>3
<1>6. ActorsApart'
  BY <1>1, <1>3, <1>5 DEF EntryInv, ActorsApart
<1>7. EntryActorAccountedFor'
  <2> SUFFICES ASSUME NEW w \in VM, agent'.vms[w] # NoVM
               PROVE  /\ agent'.vms[w].actor_ref \in running' \cup linkDied'
                      /\ actorVm'[agent'.vms[w].actor_ref] = w
    BY DEF EntryActorAccountedFor, Members
  <2>1. agent'.vms[w] = agent.vms[w] /\ agent.vms[w] \in VMCacheData
    BY <1>1, <1>4
  <2> QED BY <1>3, <1>5, <2>1
          DEF EntryInv, EntryActorAccountedFor, Members, VMCacheData
<1>8. UnlistedActorIsStopping'
  <2> SUFFICES ASSUME ~replaced', NEW b \in running', b # a
               PROVE  \/ b \in stopping'
                      \/ /\ agent'.vms[actorVm'[b]] # NoVM
                         /\ agent'.vms[actorVm'[b]].actor_ref = b
    BY DEF UnlistedActorIsStopping
  <2>1. b \in running /\ actorVm'[b] = actorVm[b] /\ actorVm[b] \in VM
    BY <1>1, <1>3, <1>5 DEF EntryInv, ActorsApart
  <2> QED BY <1>4, <2>1 DEF EntryInv, UnlistedActorIsStopping
<1> QED BY <1>6, <1>7, <1>8 DEF EntryInv

\* A step that clears one entry: the entry's actor has been told to stop by then, or
\* is the one whose death is handled.
LEMMA ClearEntry ==
    ASSUME AgentTypeOK, EntryInv,
           NEW v \in VM, agent.vms[v] # NoVM,
           agent'.vms = [agent.vms EXCEPT ![v] = NoVM],
           UNCHANGED <<running, replaced>>,
           \/ /\ stopping' = stopping \cup (running \cap {agent.vms[v].actor_ref})
              /\ UNCHANGED <<actorVm, linkDied>>
           \/ /\ agent.vms[v].actor_ref \in linkDied
              /\ linkDied' = linkDied \ {agent.vms[v].actor_ref}
              /\ actorVm' = [actorVm EXCEPT ![agent.vms[v].actor_ref] = NoVM]
              /\ UNCHANGED stopping
    PROVE  EntryInv'
<1> DEFINE a == agent.vms[v].actor_ref
<1>1. /\ agent.vms \in [VM -> VMCacheData \cup {NoVM}]
      /\ actorVm \in [ActorId -> VM \cup {NoVM}]
      /\ running \subseteq ActorId
  BY DEF AgentTypeOK
<1>2. agent.vms[v] \in VMCacheData /\ a \in ActorId
  BY <1>1 DEF VMCacheData
<1>3. agent'.vms[v] = NoVM /\ \A w \in VM : w # v => agent'.vms[w] = agent.vms[w]
  BY <1>1
<1>4. actorVm[a] = v
  BY DEF EntryInv, EntryActorAccountedFor, Members
<1> HIDE DEF a
<1>5. \A w \in VM : w # v /\ agent.vms[w] # NoVM =>
          agent.vms[w].actor_ref \in ActorId \ {a}
  BY <1>1, <1>4 DEF EntryInv, EntryActorAccountedFor, Members, VMCacheData
<1>6. \A b \in ActorId \ {a} :
          /\ actorVm'[b] = actorVm[b]
          /\ b \in linkDied <=> b \in linkDied'
          /\ b \in stopping => b \in stopping'
  BY <1>1 DEF a
<1>7. a \in running => a \in stopping'
  BY DEF a, EntryInv, ActorsApart
<1>8. ActorsApart'
  BY <1>1, <1>4, <1>6 DEF EntryInv, ActorsApart, a
<1>9. EntryActorAccountedFor'
  <2> SUFFICES ASSUME NEW w \in VM, agent'.vms[w] # NoVM
               PROVE  /\ agent'.vms[w].actor_ref \in running' \cup linkDied'
                      /\ actorVm'[agent'.vms[w].actor_ref] = w
    BY DEF EntryActorAccountedFor, Members
  <2>1. w # v /\ agent'.vms[w] = agent.vms[w] /\ agent.vms[w].actor_ref \in ActorId \ {a}
    BY <1>3, <1>5
  <2> QED BY <1>6, <2>1 DEF EntryInv, EntryActorAccountedFor, Members
<1>10. UnlistedActorIsStopping'
  <2> SUFFICES ASSUME ~replaced, NEW b \in running
               PROVE  \/ b \in stopping'
                      \/ /\ agent'.vms[actorVm'[b]] # NoVM
                         /\ agent'.vms[actorVm'[b]].actor_ref = b
    BY DEF UnlistedActorIsStopping
  <2>1. CASE b = a
    BY <1>7, <2>1
  <2>2. CASE b # a
    <3>1. actorVm'[b] = actorVm[b] /\ actorVm[b] \in VM
      BY <1>1, <1>6, <2>2 DEF EntryInv, ActorsApart
    <3> QED BY <1>1, <1>3, <1>6, <2>2, <3>1 DEF EntryInv, UnlistedActorIsStopping, a
  <2> QED BY <2>1, <2>2
<1> QED BY <1>8, <1>9, <1>10 DEF EntryInv

\* Every step of the agent and of its VM actors keeps the accounting of actors.
LEMMA AgentNextEntry ==
    ASSUME AgentTypeOK, AgentOK(agent), EntryInv, AgentNext
    PROVE  EntryInv'
<1>1. AgentFields(agent)
  BY DEF AgentOK
<1>2. ASSUME NEW v \in VM, NEW size \in Size, NEW a \in ActorId, CreateVM(v, size, a)
      PROVE  EntryInv'
  <2> DEFINE data == [actor_ref |-> a, size |-> size]
  <2>1. data \in VMCacheData /\ data.actor_ref = a
    BY DEF VMCacheData
  <2> HIDE DEF data
  <2>2. agent'.vms = [agent.vms EXCEPT ![v] = data]
    BY <1>1, <1>2, <2>1, InsertEffect DEF CreateVM, data
  <2>3. replaced' = (replaced \/ agent.vms[v] # NoVM)
    BY <1>2 DEF CreateVM, AgentTypeOK
  <2>4. SpawnLinked(v, data.actor_ref) /\ UNCHANGED <<stopping, linkDied>>
    BY <1>2, <2>1 DEF CreateVM
  <2> QED BY <2>1, <2>2, <2>3, <2>4, SpawnEntry
<1>3. ASSUME NEW v \in VM, NEW size \in Size, NEW a \in ActorId, NEW ok \in BOOLEAN,
             MigrateVMReceive(v, size, a, ok)
      PROVE  EntryInv'
  <2> DEFINE data == [actor_ref |-> a, size |-> size]
             inserted == insert_vm(agent, v, data)
  <2>1. data \in VMCacheData /\ data.actor_ref = a
    BY DEF VMCacheData
  <2>2. /\ SpawnLinked(v, a)
        /\ agent' = IF ok THEN inserted ELSE remove_vm(inserted, v)
        /\ stopping' = IF ok THEN stopping ELSE stopping \cup {a}
        /\ replaced' = (replaced \/ agent.vms[v] # NoVM)
        /\ linkDied' = linkDied
    BY <1>3 DEF MigrateVMReceive
  <2> HIDE DEF data
  <2>3. /\ inserted.vms = [agent.vms EXCEPT ![v] = data]
    BY <1>1, <2>1, InsertEffect
  <2>4. AgentFields(inserted)
    BY <2>1, InsertKeepsAgentOK DEF AgentOK
  <2> HIDE DEF inserted
  <2>5. CASE ok
    BY <2>1, <2>2, <2>3, <2>5, SpawnEntry
  <2>6. CASE ~ok
    <3>1. agent'.vms = [inserted.vms EXCEPT ![v] = NoVM]
      BY <2>2, <2>4, <2>6, RemoveEffect
    <3>2. agent'.vms = [agent.vms EXCEPT ![v] = NoVM]
      BY <1>1, <2>3, <3>1 DEF AgentFields
    <3> QED BY <2>2, <2>6, <3>2, FailedMigrateEntry
  <2> QED BY <2>5, <2>6
<1>4. ASSUME NEW v \in VM, DeleteVM(v)
      PROVE  EntryInv'
  <2>1. agent'.vms = [agent.vms EXCEPT ![v] = NoVM]
    BY <1>1, <1>4, RemoveEffect DEF DeleteVM
  <2> QED BY <1>4, <2>1, ClearEntry DEF DeleteVM
<1>5. ASSUME NEW v \in VM, ShutdownVM(v)
      PROVE  EntryInv'
  BY <1>5 DEF ShutdownVM, EntryInv, ActorsApart, EntryActorAccountedFor,
              UnlistedActorIsStopping, Members
<1>6. ASSUME NEW a \in ActorId, VmActorDies(a)
      PROVE  EntryInv'
  BY <1>6 DEF VmActorDies, EntryInv, ActorsApart, EntryActorAccountedFor,
              UnlistedActorIsStopping, Members
<1>7. ASSUME NEW a \in ActorId, AgentLinkDied(a)
      PROVE  EntryInv'
  <2>1. /\ a \in linkDied
        /\ linkDied' = linkDied \ {a}
        /\ actorVm' = [actorVm EXCEPT ![a] = NoVM]
        /\ UNCHANGED <<running, stopping, replaced>>
    BY <1>7 DEF AgentLinkDied
  <2>2. CASE DeadEntry(agent, a) = {} /\ UNCHANGED agent
    <3>1. \A w \in VM : agent.vms[w] # NoVM => agent.vms[w].actor_ref # a
      BY <2>2 DEF DeadEntry
    <3>2. \A b \in ActorId : b # a => actorVm'[b] = actorVm[b]
      BY <2>1 DEF AgentTypeOK
    <3>3. a \notin running /\ running \subseteq ActorId
      BY <2>1 DEF EntryInv, ActorsApart, AgentTypeOK
    <3>4. \A w \in VM : agent.vms[w] # NoVM => agent.vms[w].actor_ref \in ActorId
      BY DEF AgentTypeOK, VMCacheData
    <3> QED BY <2>1, <2>2, <3>1, <3>2, <3>3, <3>4
            DEF EntryInv, ActorsApart, EntryActorAccountedFor,
                UnlistedActorIsStopping, Members
  <2>3. ASSUME NEW v \in DeadEntry(agent, a), agent' = remove_vm(agent, v)
        PROVE  EntryInv'
    <3>1. v \in VM /\ agent.vms[v] # NoVM /\ agent.vms[v].actor_ref = a
      BY DEF DeadEntry
    <3>2. agent'.vms = [agent.vms EXCEPT ![v] = NoVM]
      BY <1>1, <2>3, <3>1, RemoveEffect
    <3> QED BY <2>1, <3>1, <3>2, ClearEntry
  <2> QED BY <1>7, <2>2, <2>3 DEF AgentLinkDied
<1>8. ASSUME UNCHANGED agentVars
      PROVE  EntryInv'
  BY <1>8 DEF agentVars, EntryInv, ActorsApart, EntryActorAccountedFor,
              UnlistedActorIsStopping, Members
<1> QED BY <1>2, <1>3, <1>4, <1>5, <1>6, <1>7, <1>8
        DEF AgentNext, CreateVMExisting, DeleteVMMissing

-----------------------------------------------------------------------------
(* Theorems about the agent on its own.                                    *)

\* The agent's inductive invariant holds in every behaviour of its handlers and of
\* the VM actors it has spawned.
THEOREM AgentInvariance == AgentSpec => []AgentInv
<1>1. AgentInit => AgentInv
  BY AgentInitOK, EntryInit DEF AgentInv
<1>2. AgentInv /\ [AgentNext]_agentVars => AgentInv'
  <2> SUFFICES ASSUME AgentInv, [AgentNext]_agentVars
               PROVE  AgentInv'
    OBVIOUS
  <2>1. CASE AgentNext
    BY <2>1, AgentNextOK, AgentNextEntry DEF AgentInv
  <2>2. CASE UNCHANGED agentVars
    BY <2>2 DEF agentVars, AgentInv, AgentTypeOK, EntryInv, ActorsApart,
                EntryActorAccountedFor, UnlistedActorIsStopping, Members
  <2> QED BY <2>1, <2>2
<1> QED BY <1>1, <1>2, PTL DEF AgentSpec

\* Every field of the agent and every set of actor ids keeps its type; the revision
\* and the history stay within their limits.
THEOREM AgentTypeCorrect == AgentSpec => []AgentTypeOK
<1>1. AgentInv => AgentTypeOK
  BY DEF AgentInv
<1> QED BY <1>1, AgentInvariance, PTL

\* An entry of the agent always refers to the actor spawned for that VM, and that
\* actor runs or its death is still to be handled: on_link_died with a late death of
\* an earlier incarnation never takes a newer entry with it.
THEOREM EntriesAccountedFor == AgentSpec => []EntryActorAccountedFor
<1>1. AgentInv => EntryActorAccountedFor
  BY DEF AgentInv, EntryInv
<1> QED BY <1>1, AgentInvariance, PTL

\* Unless a migration has replaced an entry, a VM actor that runs without one has
\* been told to stop or killed.
THEOREM NoStrayActor == AgentSpec => []UnlistedActorIsStopping
<1>1. AgentInv => UnlistedActorIsStopping
  BY DEF AgentInv, EntryInv
<1> QED BY <1>1, AgentInvariance, PTL
-----------------------------------------------------------------------------
(* The usage that travels with the membership (StatusSync).                *)

\* As long as no migration has replaced an entry, the agent's usage changes only
\* with its revision.
LEMMA UsageNeedsRevision ==
    ASSUME AgentTypeOK, AgentOK(agent), AgentNext, ~replaced'
    PROVE  /\ ~replaced
           /\ \/ agent'.membership_revision > agent.membership_revision
              \/ /\ agent'.membership_revision = agent.membership_revision
                 /\ agent'.used = agent.used
<1> DEFINE Goal == /\ ~replaced
                   /\ \/ agent'.membership_revision > agent.membership_revision
                      \/ /\ agent'.membership_revision = agent.membership_revision
                         /\ agent'.used = agent.used
<1>1. AgentFields(agent) /\ agent.membership_revision \in Nat /\ replaced \in BOOLEAN
  BY DEF AgentOK, AgentFields, AgentTypeOK
<1>2. ASSUME NEW v \in VM, NEW size \in Size, NEW a \in ActorId, CreateVM(v, size, a)
      PROVE  Goal
  <2> DEFINE data == [actor_ref |-> a, size |-> size]
  <2>1. data \in VMCacheData
    BY DEF VMCacheData
  <2>2. agent' = insert_vm(agent, v, data) /\ agent.vms[v] = NoVM /\ ~replaced
    BY <1>2 DEF CreateVM
  <2> HIDE DEF data
  <2>3. agent'.membership_revision = agent.membership_revision + 1
    BY <1>1, <2>1, <2>2, InsertEffect
  <2> QED BY <1>1, <2>2, <2>3
<1>3. ASSUME NEW v \in VM, NEW size \in Size, NEW a \in ActorId, NEW ok \in BOOLEAN,
             MigrateVMReceive(v, size, a, ok)
      PROVE  Goal
  <2> DEFINE data == [actor_ref |-> a, size |-> size]
             inserted == insert_vm(agent, v, data)
  <2>1. data \in VMCacheData /\ data # NoVM
    BY NoVMAssumption DEF VMCacheData
  <2>2. /\ agent' = IF ok THEN inserted ELSE remove_vm(inserted, v)
        /\ ~replaced /\ agent.vms[v] = NoVM
    BY <1>1, <1>3 DEF MigrateVMReceive
  <2> HIDE DEF data
  <2>3. /\ inserted.vms = [agent.vms EXCEPT ![v] = data]
        /\ inserted.membership_revision = agent.membership_revision + 1
    BY <1>1, <2>1, <2>2, InsertEffect
  <2>4. AgentFields(inserted)
    BY <2>1, InsertKeepsAgentOK DEF AgentOK
  <2> HIDE DEF inserted
  <2>5. CASE ok
    BY <1>1, <2>2, <2>3, <2>5
  <2>6. CASE ~ok
    <3>1. inserted.vms[v] # NoVM
      BY <1>1, <2>1, <2>3 DEF AgentFields
    <3>2. agent'.membership_revision = inserted.membership_revision + 1
      BY <2>2, <2>4, <2>6, <3>1, RemoveEffect
    <3> QED BY <1>1, <2>2, <2>3, <3>2
  <2> QED BY <2>5, <2>6
<1>4. ASSUME NEW v \in VM, agent.vms[v] # NoVM, agent' = remove_vm(agent, v), ~replaced
      PROVE  Goal
  <2>1. agent'.membership_revision = agent.membership_revision + 1
    BY <1>1, <1>4, RemoveEffect
  <2> QED BY <1>1, <1>4, <2>1
<1>5. ASSUME NEW v \in VM, DeleteVM(v)
      PROVE  Goal
  BY <1>4, <1>5 DEF DeleteVM
<1>6. ASSUME NEW a \in ActorId, AgentLinkDied(a)
      PROVE  Goal
  BY <1>4, <1>6 DEF AgentLinkDied, DeadEntry
<1>7. ASSUME UNCHANGED <<agent, replaced>>
      PROVE  Goal
  BY <1>7
<1> HIDE DEF Goal
<1>8. Goal
  BY <1>2, <1>3, <1>5, <1>6, <1>7
     DEF AgentNext, CreateVMExisting, DeleteVMMissing, ShutdownVM, VmActorDies, agentVars
<1> QED BY <1>8 DEF Goal

\* A status or an update that carries the agent's current revision carries its
\* current usage.
UsageAgrees(u) == u.revision = agent.membership_revision => u.used = agent.used

\* UsageCurrentAtRevision, and the same of every update on its way.
UsageInFlight ==
    ~replaced =>
        /\ cache # None => UsageAgrees(cache)
        /\ answer # None => UsageAgrees(answer)
        /\ \A i \in 1 .. Len(mailbox) :
               IsUpdate(mailbox, i) => UsageAgrees(mailbox[i].update)

\* A step of the agent: a new revision is one nothing in flight has.
LEMMA AgentStepUsage ==
    ASSUME Inv, UsageInFlight, AgentStep
    PROVE  UsageInFlight'
<1>1. AgentTypeOK /\ AgentNext /\ UNCHANGED syncVars
  BY DEF Inv, TypeOK, AgentStep
<1>2. AgentOK(agent)
  BY <1>1 DEF Inv, ProtocolInv, AgentOK, AgentFields, AgentTypeOK
<1>3. AgentFields(agent) /\ AgentFields(agent')
  BY <1>1, <1>2, AgentNextOK DEF AgentOK
<1>4. agent.membership_revision \in Nat /\ agent'.membership_revision \in Nat
  BY <1>3 DEF AgentFields
<1> SUFFICES ASSUME ~replaced'
             PROVE  UsageInFlight'
  BY DEF UsageInFlight
<1>5. /\ ~replaced
      /\ \/ agent'.membership_revision > agent.membership_revision
         \/ /\ agent'.membership_revision = agent.membership_revision
            /\ agent'.used = agent.used
  BY <1>1, <1>2, UsageNeedsRevision
<1>6. ASSUME NEW u, u.revision \in Nat, u.revision <= agent.membership_revision,
             UsageAgrees(u)
      PROVE  u.revision = agent'.membership_revision => u.used = agent'.used
  BY <1>4, <1>5, <1>6 DEF UsageAgrees
<1>7. ASSUME cache # None
      PROVE  cache.revision = agent'.membership_revision => cache.used = agent'.used
  <2>1. cache.revision \in Nat /\ cache.revision <= agent.membership_revision
    BY <1>7 DEF Inv, ProtocolInv, CacheIsAgentPast, TypeOK, CachedStatus
  <2> QED BY <1>5, <1>6, <1>7, <2>1 DEF UsageInFlight
<1>8. ASSUME answer # None
      PROVE  answer.revision = agent'.membership_revision => answer.used = agent'.used
  <2>1. answer.revision \in Nat /\ answer.revision <= agent.membership_revision
    BY <1>8 DEF Inv, ProtocolInv, UpdatesGood, GoodUpdate, TypeOK, StatusUpdate
  <2> QED BY <1>5, <1>6, <1>8, <2>1 DEF UsageInFlight
<1>9. ASSUME NEW i \in 1 .. Len(mailbox), IsUpdate(mailbox, i)
      PROVE  LET u == mailbox[i].update
             IN  u.revision = agent'.membership_revision => u.used = agent'.used
  <2>1. mailbox[i] \in Mail
    BY DEF Inv, TypeOK
  <2>2. mailbox[i].update \in StatusUpdate
    BY <1>9, <2>1, MailFacts DEF IsUpdate
  <2>3. /\ mailbox[i].update.revision \in Nat
        /\ mailbox[i].update.revision <= agent.membership_revision
    BY <1>9, <2>2 DEF Inv, ProtocolInv, UpdatesGood, MailGood, GoodUpdate, StatusUpdate
  <2> QED BY <1>5, <1>6, <1>9, <2>3 DEF UsageInFlight
<1> QED BY <1>1, <1>5, <1>7, <1>8, <1>9
        DEF UsageInFlight, UsageAgrees, syncVars, IsUpdate

\* A message put at the end of the mailbox keeps the updates in it, and adds at most
\* one that agrees.
LEMMA AppendUsage ==
    ASSUME Inv, UsageInFlight, NEW m \in Mail, NEW mb \in Seq(Mail),
           UNCHANGED agentVars,
           \A i \in 1 .. Len(mb) : \E j \in 1 .. Len(mailbox) : mb[i] = mailbox[j],
           mailbox' = Append(mb, m),
           m.type = "AgentUpdated" => (answer # None /\ m.update = answer),
           cache' \in {cache, None}, answer' \in {answer, None}
    PROVE  UsageInFlight'
<1> SUFFICES ASSUME ~replaced'
             PROVE  UsageInFlight'
  BY DEF UsageInFlight
<1>1. ~replaced /\ agent' = agent
  BY DEF agentVars
<1>2. ASSUME NEW i \in 1 .. Len(mailbox'), IsUpdate(mailbox', i)
      PROVE  UsageAgrees(mailbox'[i].update)
  <2>1. CASE i = Len(mb) + 1
    BY <1>1, <1>2, <2>1 DEF IsUpdate, UsageInFlight
  <2>2. CASE i # Len(mb) + 1
    <3>1. i \in 1 .. Len(mb) /\ mailbox'[i] = mb[i]
      BY <2>2
    <3>2. PICK j \in 1 .. Len(mailbox) : mb[i] = mailbox[j]
      BY <3>1
    <3> QED BY <1>1, <1>2, <3>1, <3>2 DEF IsUpdate, UsageInFlight
  <2> QED BY <2>1, <2>2
<1> QED BY <1>1, <1>2 DEF UsageInFlight, UsageAgrees, IsUpdate

\* A mailbox that loses its head, and a cached status that agrees.
LEMMA TailUsage ==
    ASSUME Inv, UsageInFlight, UNCHANGED agentVars,
           mailbox # <<>>, mailbox' = Tail(mailbox),
           ~replaced /\ cache' # None => UsageAgrees(cache'),
           answer' \in {answer, None}
    PROVE  UsageInFlight'
<1> SUFFICES ASSUME ~replaced'
             PROVE  UsageInFlight'
  BY DEF UsageInFlight
<1>1. ~replaced /\ agent' = agent
  BY DEF agentVars
<1>2. ASSUME NEW i \in 1 .. Len(mailbox'), IsUpdate(mailbox', i)
      PROVE  UsageAgrees(mailbox'[i].update)
  <2>1. i + 1 \in 1 .. Len(mailbox) /\ mailbox'[i] = mailbox[i + 1]
    BY TailFacts DEF Inv, TypeOK
  <2> QED BY <1>1, <1>2, <2>1 DEF IsUpdate, UsageInFlight
<1> QED BY <1>1, <1>2 DEF UsageInFlight, UsageAgrees, IsUpdate

\* Every step of the protocol keeps the usage in flight current.
LEMMA NextUsage ==
    ASSUME Inv, UsageInFlight, [Next]_vars
    PROVE  UsageInFlight'
<1>1. mailbox \in Seq(Mail) /\ answer \in StatusUpdate \cup {None}
  BY DEF Inv, TypeOK
<1>2. CASE AgentStep
  BY <1>2, AgentStepUsage
<1>3. CASE UNCHANGED <<agentVars, answer, mailbox, cache>>
  BY <1>3 DEF agentVars, UsageInFlight, UsageAgrees, IsUpdate
<1>4. CASE UpdaterPolls
  <2>1. /\ UNCHANGED <<agent, replaced, mailbox, cache>>
        /\ answer' = GetAgentStatus(agent, updater.since, updater.initial)
    BY <1>4 DEF UpdaterPolls, agentVars
  <2>2. answer'.used = agent.used
    BY <2>1 DEF GetAgentStatus, FullUpdate, DeltaUpdate
  <2> QED BY <2>1, <2>2 DEF UsageInFlight, UsageAgrees, IsUpdate
<1>5. CASE UpdaterTells
  <2>1. UpdatedMsg(answer) \in Mail /\ UpdatedMsg(answer).update = answer
    BY <1>1, <1>5 DEF UpdaterTells, UpdatedMsg, Mail
  <2> QED BY <1>1, <1>5, <2>1, AppendUsage DEF UpdaterTells
<1>6. CASE UpdaterGivesUp
  <2>1. StoppedMsg \in Mail /\ StoppedMsg.type # "AgentUpdated"
    BY DEF StoppedMsg, Mail
  <2> QED BY <1>1, <1>6, <2>1, AppendUsage DEF UpdaterGivesUp
<1>7. CASE LinkLost
  <2>1. LinkDiedMsg \in Mail /\ LinkDiedMsg.type # "AgentUpdated"
    BY DEF LinkDiedMsg, Mail
  <2> QED BY <1>1, <1>7, <2>1, AppendUsage DEF LinkLost
<1>8. CASE HandleAgentUpdated
  <2> DEFINE u == Head(mailbox).update
  <2>1. /\ mailbox # <<>> /\ IsUpdate(mailbox, 1)
        /\ 1 \in 1 .. Len(mailbox) /\ u = mailbox[1].update
        /\ cache' = AgentUpdatedResult(cache, u)
        /\ mailbox' = Tail(mailbox)
        /\ UNCHANGED <<agentVars, answer>>
    BY <1>1, <1>8 DEF HandleAgentUpdated, IsUpdate
  <2> HIDE DEF u
  <2>2. ~replaced => UsageAgrees(u)
    BY <2>1 DEF UsageInFlight
  <2>3. ~replaced /\ cache' # None => UsageAgrees(cache')
    <3>1. CASE Accepts(cache, u)
      <4>1. cache'.revision = u.revision /\ cache'.used = u.used
        BY <2>1, <3>1 DEF AgentUpdatedResult, apply_status_update
      <4> QED BY <2>2, <4>1 DEF UsageAgrees
    <3>2. CASE ~Accepts(cache, u)
      BY <2>1, <3>2 DEF AgentUpdatedResult, UsageInFlight
    <3> QED BY <3>1, <3>2
  <2> QED BY <2>1, <2>3, TailUsage
<1>9. ASSUME mailbox # <<>>, cleanup_agent_actor, UNCHANGED agentVars
      PROVE  UsageInFlight'
  <2>1. cache' = None /\ answer' = None
    BY <1>9 DEF cleanup_agent_actor
  <2>2. CASE mailbox' = Tail(mailbox)
    BY <1>9, <2>1, <2>2, TailUsage
  <2>3. CASE answer # None /\ mailbox' = Append(Tail(mailbox), UpdatedMsg(answer))
    <3>1. UpdatedMsg(answer) \in Mail /\ UpdatedMsg(answer).update = answer
      BY <1>1, <2>3 DEF UpdatedMsg, Mail
    <3>2. Tail(mailbox) \in Seq(Mail)
      BY <1>1, <1>9
    <3>3. ASSUME NEW i \in 1 .. Len(Tail(mailbox))
          PROVE  \E j \in 1 .. Len(mailbox) : Tail(mailbox)[i] = mailbox[j]
      <4>1. i + 1 \in 1 .. Len(mailbox) /\ Tail(mailbox)[i] = mailbox[i + 1]
        BY <1>1, <1>9, TailFacts
      <4> QED BY <4>1
    <3> QED BY <1>9, <2>1, <2>3, <3>1, <3>2, <3>3, AppendUsage
  <2> QED BY <1>9, <2>2, <2>3 DEF cleanup_agent_actor
<1>10. CASE HandleUpdaterStopped
  BY <1>9, <1>10 DEF HandleUpdaterStopped
<1>11. CASE HandleLinkDied
  <2>1. CASE cleanup_agent_actor
    BY <1>9, <1>11, <2>1 DEF HandleLinkDied
  <2>2. CASE mailbox' = Tail(mailbox) /\ UNCHANGED <<updater, cache, answer>>
    BY <1>11, <2>2, TailUsage DEF HandleLinkDied, UsageInFlight
  <2> QED BY <1>11, <2>1, <2>2 DEF HandleLinkDied
<1> QED BY <1>2, <1>3, <1>4, <1>5, <1>6, <1>7, <1>8, <1>10, <1>11
        DEF Next, vars, syncVars, AgentDies, AgentActorDiscovered

\* A cached status with the agent's current revision has the agent's current usage,
\* as long as no migration has replaced an entry: AgentUpdated, which ignores updates
\* that are not newer, misses no change of the usage otherwise.
THEOREM UsageCurrent == Spec => []UsageCurrentAtRevision
<1>1. Init => UsageInFlight
  BY DEF Init, UsageInFlight
<1>2. Inv /\ UsageInFlight /\ [Next]_vars => UsageInFlight'
  BY NextUsage
<1>3. UsageInFlight => UsageCurrentAtRevision
  BY DEF UsageInFlight, UsageAgrees, UsageCurrentAtRevision
<1> QED BY <1>1, <1>2, <1>3, Invariance, PTL DEF Spec

-----------------------------------------------------------------------------
(* The usage is the sum over the listed VMs.                               *)

\* The sizes of the listed VMs.
SizesOf(ag) == [v \in VM |-> ag.vms[v].size]

\* The sum of UsageIsSumOfMembers is the sum of those sizes.
LEMMA UsageSum ==
    ASSUME NEW ag, IsFiniteSet(Members(ag))
    PROVE  MapThenSumSet(LAMBDA v : ag.vms[v].size, Members(ag))
               = Sum(SizesOf(ag), Members(ag))
<1> DEFINE M == Members(ag)
           f == SizesOf(ag)
           Step(g, s) == IF s = {} THEN 0 ELSE ag.vms[Pick(s)].size + g[s \ {Pick(s)}]
           h == CHOOSE g : g = [s \in SUBSET M |-> Step(g, s)]
<1>1. MapThenSumSet(LAMBDA v : ag.vms[v].size, M) = h[M]
  BY DEF MapThenSumSet, MapThenFoldSet, Pick
<1>2. ASSUME NEW g, NEW s \in SUBSET M
      PROVE  Step(g, s) = SumStep(f, g, s)
  <2>1. CASE s = {}
    BY <2>1 DEF SumStep
  <2>2. CASE s # {}
    <3>1. Pick(s) \in VM
      BY <2>2, PickFacts DEF Members
    <3>2. f[Pick(s)] = ag.vms[Pick(s)].size
      BY <3>1 DEF SizesOf
    <3> QED BY <2>2, <3>2 DEF SumStep
  <2> QED BY <2>1, <2>2
<1> HIDE DEF f, M, Step
<1>3. \A g : g = [s \in SUBSET M |-> Step(g, s)] <=> Solves(g, f, M)
  BY <1>2 DEF Solves
<1>4. Solves(SumFcn(f, M), f, M)
  BY SolutionExists DEF M
<1>5. \E g : g = [s \in SUBSET M |-> Step(g, s)]
  BY <1>3, <1>4
<1>6. h = [s \in SUBSET M |-> Step(h, s)]
  <2> DEFINE P(g) == g = [s \in SUBSET M |-> Step(g, s)]
  <2>1. \E g : P(g)
    BY <1>5
  <2> HIDE DEF P
  <2>2. P(CHOOSE g : P(g))
    BY <2>1
  <2> QED BY <2>2 DEF P
<1> HIDE DEF h
<1>7. Solves(h, f, M)
  BY <1>3, <1>6
<1>8. h = SumFcn(f, M)
  BY <1>4, <1>7, SolutionUnique DEF M
<1> QED BY <1>1, <1>8 DEF Sum, M, f

\* There are finitely many listed VMs, and their sizes add up to the usage.
SumOK(ag) == IsFiniteSet(Members(ag)) /\ ag.used = Sum(SizesOf(ag), Members(ag))

\* What insert_vm and remove_vm make of the usage.
LEMMA UsedEffect ==
    ASSUME NEW ag, AgentFields(ag), NEW v \in VM
    PROVE  /\ \A data \in VMCacheData : insert_vm(ag, v, data).used =
                 data.size + IF ag.vms[v] = NoVM THEN ag.used
                             ELSE saturating_sub(ag.used, ag.vms[v].size)
           /\ remove_vm(ag, v).used =
                 IF ag.vms[v] = NoVM THEN ag.used
                 ELSE saturating_sub(ag.used, ag.vms[v].size)
<1>1. ag.used \in Nat /\ ag.vms \in [VM -> VMCacheData \cup {NoVM}]
  BY DEF AgentFields
<1>2. ag.vms[v] # NoVM => ag.vms[v].size \in Nat
  BY <1>1, SizeAssumption DEF VMCacheData
<1>3. ASSUME NEW data \in VMCacheData
      PROVE  insert_vm(ag, v, data).used =
                 data.size + IF ag.vms[v] = NoVM THEN ag.used
                             ELSE saturating_sub(ag.used, ag.vms[v].size)
  <2> DEFINE vms2  == [ag.vms EXCEPT ![v] = data]
             freed == IF ag.vms[v] = NoVM THEN ag.used
                      ELSE saturating_sub(ag.used, ag.vms[v].size)
             base  == [ag EXCEPT !.vms = vms2, !.used = freed + data.size]
             next  == insert_vm(ag, v, data)
  <2>1. freed \in Nat
    BY <1>1, <1>2 DEF saturating_sub
  <2>2. data.size \in Nat
    BY SizeAssumption DEF VMCacheData
  <2>3. base.used = data.size + freed
    <3>1. base.used = freed + data.size
      <4> HIDE DEF vms2, freed
      <4> QED BY DEF AgentFields
    <3> HIDE DEF base, freed
    <3> QED BY <2>1, <2>2, <3>1
  <2>4. next = base \/ next = record_membership_change(base, v, TRUE, Members(ag) \cup {v})
    BY DEF insert_vm
  <2>5. next.used = base.used
    <3> HIDE DEF base, next
    <3> QED BY <2>4 DEF record_membership_change
  <2> QED BY <2>3, <2>5
<1>4. remove_vm(ag, v).used =
          IF ag.vms[v] = NoVM THEN ag.used
          ELSE saturating_sub(ag.used, ag.vms[v].size)
  <2> DEFINE vms2 == [ag.vms EXCEPT ![v] = NoVM]
             left == saturating_sub(ag.used, ag.vms[v].size)
             base == [ag EXCEPT !.vms = vms2, !.used = left]
             next == remove_vm(ag, v)
  <2>1. base.used = left
    <3> HIDE DEF vms2, left
    <3> QED BY DEF AgentFields
  <2>2. CASE ag.vms[v] = NoVM
    BY <2>2 DEF remove_vm
  <2>3. CASE ag.vms[v] # NoVM
    <3>1. next = record_membership_change(base, v, FALSE, Members(ag) \ {v})
      BY <2>3 DEF remove_vm
    <3>2. next.used = left
      <4> HIDE DEF base, next
      <4> QED BY <2>1, <3>1 DEF record_membership_change
    <3> QED BY <2>3, <3>2
  <2> QED BY <2>2, <2>3
<1> QED BY <1>3, <1>4

\* The listed sizes are natural numbers, and without v's they add up to the rest.
LEMMA SumWithout ==
    ASSUME NEW ag, AgentFields(ag), SumOK(ag), NEW v \in VM
    PROVE  /\ \A w \in Members(ag) : SizesOf(ag)[w] \in Nat
           /\ IsFiniteSet(Members(ag) \ {v})
           /\ Sum(SizesOf(ag), Members(ag) \ {v}) \in Nat
           /\ Sum(SizesOf(ag), Members(ag) \ {v}) =
                 IF ag.vms[v] = NoVM THEN ag.used
                 ELSE saturating_sub(ag.used, ag.vms[v].size)
<1> DEFINE M == Members(ag)
           f == SizesOf(ag)
<1>1. \A w \in M : f[w] \in Nat /\ f[w] = ag.vms[w].size
  BY SizeAssumption DEF Members, SizesOf, AgentFields, VMCacheData
<1>2. IsFiniteSet(M) /\ ag.used = Sum(f, M)
  BY DEF SumOK
<1>3. v \in M <=> ag.vms[v] # NoVM
  BY DEF Members
<1> HIDE DEF M, f
<1>4. IsFiniteSet(M \ {v})
  BY <1>2, FS_RemoveElement
<1>5. Sum(f, M \ {v}) \in Nat
  BY <1>1, <1>4, SumType
<1>6. CASE v \in M
  <2>1. Sum(f, M) = f[v] + Sum(f, M \ {v})
    BY <1>1, <1>2, <1>6, SumRemove
  <2>2. saturating_sub(ag.used, ag.vms[v].size) = Sum(f, M \ {v})
    BY <1>1, <1>2, <1>5, <1>6, <2>1 DEF saturating_sub
  <2> QED BY <1>1, <1>3, <1>4, <1>5, <1>6, <2>2 DEF M, f
<1>7. CASE v \notin M
  <2>1. M \ {v} = M
    BY <1>7
  <2> QED BY <1>1, <1>2, <1>3, <1>4, <1>5, <1>7, <2>1 DEF M, f
<1> QED BY <1>6, <1>7

\* An insert adds its size to what the other VMs have.
LEMMA InsertSum ==
    ASSUME NEW ag, AgentFields(ag), SumOK(ag), NEW v \in VM, NEW data \in VMCacheData
    PROVE  SumOK(insert_vm(ag, v, data))
<1> DEFINE next == insert_vm(ag, v, data)
           rest == Members(ag) \ {v}
<1>1. next.vms = [ag.vms EXCEPT ![v] = data] /\ ag.vms \in [VM -> VMCacheData \cup {NoVM}]
  BY InsertEffect DEF AgentFields
<1>2. next.used = data.size + Sum(SizesOf(ag), rest)
  BY SumWithout, UsedEffect
<1> HIDE DEF next
<1>3. Members(next) = rest \cup {v} /\ v \notin rest
  BY <1>1, NoVMAssumption DEF Members
<1>4. /\ \A w \in rest : SizesOf(next)[w] = SizesOf(ag)[w] /\ SizesOf(next)[w] \in Nat
      /\ SizesOf(next)[v] = data.size /\ data.size \in Nat
  <2>1. \A w \in rest : SizesOf(ag)[w] \in Nat
    BY SumWithout
  <2> QED BY <1>1, <2>1, SizeAssumption DEF SizesOf, Members, VMCacheData
<1>5. IsFiniteSet(rest)
  BY SumWithout
<1> HIDE DEF rest
<1>6. Sum(SizesOf(next), rest \cup {v}) = SizesOf(next)[v] + Sum(SizesOf(next), rest)
  BY <1>3, <1>4, <1>5, SumAdd
<1>7. Sum(SizesOf(next), rest) = Sum(SizesOf(ag), rest)
  BY <1>4, <1>5, SumSame
<1>8. IsFiniteSet(rest \cup {v})
  BY <1>5, FS_AddElement
<1> QED BY <1>2, <1>3, <1>4, <1>6, <1>7, <1>8 DEF SumOK, next

\* A removal leaves what the other VMs have.
LEMMA RemoveSum ==
    ASSUME NEW ag, AgentFields(ag), SumOK(ag), NEW v \in VM
    PROVE  SumOK(remove_vm(ag, v))
<1> DEFINE next == remove_vm(ag, v)
           rest == Members(ag) \ {v}
<1>1. next.vms = [ag.vms EXCEPT ![v] = NoVM] /\ ag.vms \in [VM -> VMCacheData \cup {NoVM}]
  BY RemoveEffect DEF AgentFields
<1>2. next.used = Sum(SizesOf(ag), rest)
  BY SumWithout, UsedEffect
<1> HIDE DEF next
<1>3. Members(next) = rest
  BY <1>1 DEF Members
<1>4. \A w \in rest : SizesOf(next)[w] = SizesOf(ag)[w]
  BY <1>1 DEF SizesOf, Members
<1>5. IsFiniteSet(rest)
  BY SumWithout
<1> HIDE DEF rest
<1>6. Sum(SizesOf(next), rest) = Sum(SizesOf(ag), rest)
  BY <1>4, <1>5, SumSame
<1> QED BY <1>2, <1>3, <1>5, <1>6 DEF SumOK, next

\* Every step of the agent keeps the sum.
LEMMA AgentNextSum ==
    ASSUME AgentOK(agent), SumOK(agent), [AgentNext]_agentVars
    PROVE  SumOK(agent')
<1>1. AgentFields(agent)
  BY DEF AgentOK
<1>2. CASE UNCHANGED agent
  BY <1>2
<1>3. ASSUME NEW v \in VM, NEW size \in Size, NEW a \in ActorId, CreateVM(v, size, a)
      PROVE  SumOK(agent')
  <2>1. [actor_ref |-> a, size |-> size] \in VMCacheData
    BY DEF VMCacheData
  <2> QED BY <1>1, <1>3, <2>1, InsertSum DEF CreateVM
<1>4. ASSUME NEW v \in VM, NEW size \in Size, NEW a \in ActorId, NEW ok \in BOOLEAN,
             MigrateVMReceive(v, size, a, ok)
      PROVE  SumOK(agent')
  <2> DEFINE data == [actor_ref |-> a, size |-> size]
             inserted == insert_vm(agent, v, data)
  <2>1. data \in VMCacheData
    BY DEF VMCacheData
  <2>2. agent' = IF ok THEN inserted ELSE remove_vm(inserted, v)
    BY <1>4 DEF MigrateVMReceive
  <2> HIDE DEF data
  <2>3. SumOK(inserted)
    BY <1>1, <2>1, InsertSum
  <2>4. AgentFields(inserted)
    BY <2>1, InsertKeepsAgentOK DEF AgentOK
  <2> HIDE DEF inserted
  <2> QED BY <2>2, <2>3, <2>4, RemoveSum
<1>5. ASSUME NEW v \in VM, DeleteVM(v)
      PROVE  SumOK(agent')
  BY <1>1, <1>5, RemoveSum DEF DeleteVM
<1>6. ASSUME NEW a \in ActorId, AgentLinkDied(a)
      PROVE  SumOK(agent')
  <2>1. ASSUME NEW v \in DeadEntry(agent, a), agent' = remove_vm(agent, v)
        PROVE  SumOK(agent')
    BY <1>1, <2>1, RemoveSum DEF DeadEntry
  <2> QED BY <1>2, <1>6, <2>1 DEF AgentLinkDied
<1> QED BY <1>2, <1>3, <1>4, <1>5, <1>6
        DEF AgentNext, agentVars, CreateVMExisting, DeleteVMMissing, ShutdownVM, VmActorDies

\* After any sequence of creates, deletes, replacing and failed migrations and deaths
\* the usage the agent accounts for is the sum over the VMs it lists: no subtraction
\* of insert_vm or remove_vm saturates.
THEOREM UsageIsSum == AgentSpec => []UsageIsSumOfMembers
<1>1. AgentInit => SumOK(agent)
  <2> SUFFICES ASSUME AgentInit
               PROVE  SumOK(agent)
    OBVIOUS
  <2>1. Members(agent) = {} /\ agent.used = 0
    BY DEF AgentInit, Members
  <2>2. IsFiniteSet({})
    BY FS_EmptySet
  <2> QED BY <2>1, <2>2, SumUnfolds DEF SumOK
<1>2. AgentInv /\ SumOK(agent) /\ [AgentNext]_agentVars => SumOK(agent)'
  BY AgentNextSum DEF AgentInv
<1>3. SumOK(agent) => UsageIsSumOfMembers
  BY UsageSum DEF SumOK, UsageIsSumOfMembers
<1> QED BY <1>1, <1>2, <1>3, AgentInvariance, PTL DEF AgentSpec
=============================================================================
