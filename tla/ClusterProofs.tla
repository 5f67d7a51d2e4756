---------------------------- MODULE ClusterProofs ----------------------------
(***************************************************************************)
(* Proofs about the scheduler with the agents and VM actors it manages     *)
(* (Cluster), for any number of VMs, agents and actors, any mailbox and    *)
(* any number of crashes and faults: as long as no fault has happened, a   *)
(* VM never runs twice, and the VMs that run on an agent fit it.           *)
(***************************************************************************)
EXTENDS Cluster, SchedulerProofs, SumProofs, SequenceTheorems

-----------------------------------------------------------------------------
(* Types.                                                                  *)

\* What waits in the mailbox.
Mails ==
    [type : {"VmUpdated"}, id : VmActor]
        \cup [type : {"Lost"}, id : Agent \cup VmActor]
        \cup [type : {"AgentUpdated"}, id : Agent, full : BOOLEAN, revision : Nat,
              used : Nat, added : SUBSET VM, removed : SUBSET VM]

\* The agents and their actors: one that is live has a running host and a size, and
\* there are finitely many of them.
AgentsOK ==
    /\ alive \subseteq Agent
    /\ status \in [VmActor -> {"unborn", "running", "stopping", "dead"}]
    /\ host \in [VmActor -> Agent \cup {None}]
    /\ sizeOf \in [VmActor -> Size \cup {None}]
    /\ revision \in [Agent -> Nat]
    /\ changed \in [Agent -> SUBSET VM]
    /\ crashes \in 0 .. MaxCrashes
    /\ \A a \in VmActor : Live(a) => host[a] \in alive /\ sizeOf[a] \in Size
    /\ IsFiniteSet({a \in VmActor : Live(a)})

\* The messages, and that no report adds and removes the same VM.
MailOK ==
    /\ mailbox \in Seq(Mails)
    /\ Len(mailbox) <= MailboxBound
    /\ \A i \in 1 .. Len(mailbox) :
          mailbox[i].type = "AgentUpdated" => mailbox[i].added \cap mailbox[i].removed = {}

\* What is between the scheduler and the agents.
RestOK ==
    /\ watch \in [Agent \cup VmActor -> Phase]
    /\ cacheRev \in [Agent -> Nat]
    /\ inflight \subseteq CreateRequest
    /\ faults \in 0 .. MaxFaults
    /\ deleted \subseteq VM
    /\ clean \in BOOLEAN

\* The types, with what SchedInv says of the scheduler's maps.
ClusterTyped == SchedInv /\ AgentsOK /\ MailOK /\ RestOK

\* Nothing is live at first.
LEMMA TypedInit == ClusterInit => ClusterTyped
<1> SUFFICES ASSUME ClusterInit
             PROVE  ClusterTyped
  OBVIOUS
<1> USE DEF ClusterInit
<1>1. SchedInv
  BY SchedInitInv
<1>2. AgentsOK
  <2>1. {a \in VmActor : Live(a)} = {}
    BY DEF Live
  <2>2. \A a \in VmActor : ~Live(a)
    BY DEF Live
  <2>3. IsFiniteSet({a \in VmActor : Live(a)})
    BY <2>1, FS_EmptySet, Zenon
  <2> QED BY <2>3, <2>1, <2>2, FS_EmptySet, ClusterBoundAssumption DEF AgentsOK
<1>3. MailOK
  BY ClusterBoundAssumption DEF MailOK
<1>4. RestOK
  BY ClusterBoundAssumption DEF RestOK, Phase
<1> QED BY <1>1, <1>2, <1>3, <1>4 DEF ClusterTyped

\* The agents' side of a create.
LEMMA AgentCreatesTyped ==
    ASSUME AgentsOK, NEW x \in alive, NEW v \in VM, NEW size \in Size, NEW a \in VmActor,
           AgentCreates(x, v, size, a)
    PROVE  AgentsOK' /\ VmOf[a] = v /\ a \in VmActor
<1>1. CASE a \in Hosted(x) /\ VmOf[a] = v /\ UNCHANGED agentSide
  BY <1>1 DEF agentSide, AgentsOK, Live
<1>2. CASE Spawn(x, v, size, a)
  <2>1. a \in Unborn(v)
    BY <1>2 DEF Spawn
  <2>2. /\ a \in VmActor /\ VmOf[a] = v /\ status[a] = "unborn"
    BY <2>1 DEF Unborn
  <2>3. /\ status' = [status EXCEPT ![a] = "running"]
        /\ host' = [host EXCEPT ![a] = x]
        /\ sizeOf' = [sizeOf EXCEPT ![a] = size]
        /\ revision' = [revision EXCEPT ![x] = @ + 1]
        /\ changed' = [changed EXCEPT ![x] = @ \cup {v}]
        /\ UNCHANGED <<alive, crashes>>
    BY <1>2 DEF Spawn
  <2>4. {b \in VmActor : Live(b)'} = {b \in VmActor : Live(b)} \cup {a}
    BY <2>2, <2>3 DEF AgentsOK, Live
  <2>5. IsFiniteSet({b \in VmActor : Live(b)'})
    <3> DEFINE old == {b \in VmActor : Live(b)}
    <3>1. IsFiniteSet(old)
      BY DEF AgentsOK
    <3> HIDE DEF old
    <3>2. IsFiniteSet(old \cup {a})
      BY <3>1, FS_AddElement
    <3> QED BY <2>4, <3>2 DEF old
  <2>6. \A b \in VmActor : Live(b)' => host'[b] \in alive' /\ sizeOf'[b] \in Size
    BY <2>2, <2>3 DEF AgentsOK, Live
  <2>7. x \in Agent
    BY DEF AgentsOK
  <2> QED BY <2>2, <2>3, <2>5, <2>6, <2>7 DEF AgentsOK
<1> QED BY <1>1, <1>2 DEF AgentCreates

\* Fewer actors live, or some stop.
LEMMA AgentsShrink ==
    ASSUME AgentsOK, alive' \subseteq alive,
           status' \in [VmActor -> {"unborn", "running", "stopping", "dead"}],
           \A a \in VmActor : Live(a)' => Live(a) /\ host[a] \in alive',
           UNCHANGED <<host, sizeOf>>,
           revision' \in [Agent -> Nat], changed' \in [Agent -> SUBSET VM],
           crashes' \in 0 .. MaxCrashes
    PROVE  AgentsOK'
<1>1. {a \in VmActor : Live(a)'} \in SUBSET {a \in VmActor : Live(a)}
  OBVIOUS
<1>2. IsFiniteSet({a \in VmActor : Live(a)'})
  BY <1>1, FS_Subset DEF AgentsOK
<1> QED BY <1>2 DEF AgentsOK

\* The usage an agent reports is a natural number.
LEMMA UsedTyped ==
    ASSUME AgentsOK, NEW x \in Agent
    PROVE  UsedOn(x) \in Nat
<1>1. Hosted(x) \in SUBSET {a \in VmActor : Live(a)}
  BY DEF Hosted
<1>2. IsFiniteSet(Hosted(x))
  BY <1>1, FS_Subset DEF AgentsOK
<1>3. \A a \in Hosted(x) : sizeOf[a] \in Nat
  BY SchedSizeAssumption DEF Hosted, AgentsOK
<1>4. Sum(sizeOf, Hosted(x)) \in Nat
  BY <1>2, <1>3, SumType
<1>5. UsedOn(x) = Sum(sizeOf, Hosted(x))
  BY SumIsMapThenSum DEF UsedOn
<1> QED BY <1>4, <1>5

\* The fields of a message.
LEMMA MailFacts ==
    ASSUME MailOK, NEW i \in 1 .. Len(mailbox)
    PROVE  LET m == mailbox[i]
           IN  /\ m \in Mails
               /\ m.type \in {"VmUpdated", "Lost", "AgentUpdated"}
               /\ m.type = "VmUpdated" => m.id \in VmActor
               /\ m.type = "Lost" => m.id \in Agent \cup VmActor
               /\ m.type = "AgentUpdated" =>
                      /\ m.id \in Agent /\ m.full \in BOOLEAN
                      /\ m.revision \in Nat /\ m.used \in Nat
                      /\ m.added \subseteq VM /\ m.removed \subseteq VM
                      /\ m.added \cap m.removed = {}
<1> DEFINE m == mailbox[i]
<1>1. m \in Mails
  BY DEF MailOK
<1>2. m.type = "AgentUpdated" => m.added \cap m.removed = {}
  BY DEF MailOK
<1> HIDE DEF m
<1>3. /\ m.type \in {"VmUpdated", "Lost", "AgentUpdated"}
      /\ m.type = "VmUpdated" => m.id \in VmActor
      /\ m.type = "Lost" => m.id \in Agent \cup VmActor
      /\ m.type = "AgentUpdated" =>
             /\ m.id \in Agent /\ m.full \in BOOLEAN
             /\ m.revision \in Nat /\ m.used \in Nat
             /\ m.added \subseteq VM /\ m.removed \subseteq VM
  BY <1>1 DEF Mails
<1> QED BY <1>1, <1>2, <1>3 DEF m

\* A message is appended.
LEMMA ToldFacts ==
    ASSUME MailOK, NEW m, m \in Mails, Tell(m)
    PROVE  /\ mailbox' \in Seq(Mails) /\ Len(mailbox') = Len(mailbox) + 1
           /\ Len(mailbox') <= MailboxBound
           /\ \A i \in 1 .. Len(mailbox) : mailbox'[i] = mailbox[i]
           /\ mailbox'[Len(mailbox) + 1] = m
<1>1. mailbox \in Seq(Mails) /\ Len(mailbox) < MailboxBound /\ mailbox' = Append(mailbox, m)
  BY DEF MailOK, Tell
<1>2. MailboxBound \in Nat /\ Len(mailbox) \in Nat
  BY <1>1, ClusterBoundAssumption
<1> QED BY <1>1, <1>2

\* A notice is put before the last message.
LEMMA OvertakesFacts ==
    ASSUME MailOK, NEW m, m \in Mails, Overtakes(m)
    PROVE  /\ mailbox' \in Seq(Mails) /\ Len(mailbox') = Len(mailbox) + 1
           /\ Len(mailbox') <= MailboxBound
           /\ Len(mailbox) > 0
           /\ \A i \in 1 .. Len(mailbox) - 1 : mailbox'[i] = mailbox[i]
           /\ mailbox'[Len(mailbox)] = m
           /\ mailbox'[Len(mailbox) + 1] = mailbox[Len(mailbox)]
<1> DEFINE n == Len(mailbox)
           front == SubSeq(mailbox, 1, n - 1)
           back == <<m, mailbox[n]>>
<1>1. /\ mailbox \in Seq(Mails) /\ n < MailboxBound /\ mailbox # <<>>
      /\ mailbox' = front \o back
  BY DEF MailOK, Overtakes
<1>2. MailboxBound \in Nat /\ n \in Nat /\ n > 0
  BY <1>1, ClusterBoundAssumption
<1>3. mailbox[n] \in Mails
  BY <1>1, <1>2
<1>4. /\ front \in Seq(Mails) /\ Len(front) = n - 1
      /\ \A i \in 1 .. n - 1 : front[i] = mailbox[i]
  <2>1. \A i \in 1 .. n - 1 : mailbox[i] \in Mails
    BY <1>1, <1>2
  <2>2. 1 \in Int /\ n - 1 \in Int
    BY <1>2
  <2> HIDE DEF n
  <2> QED BY <1>2, <2>1, <2>2, SubSeqProperties
<1>5. back \in Seq(Mails) /\ Len(back) = 2 /\ back[1] = m /\ back[2] = mailbox[n]
  BY <1>3
<1> HIDE DEF front, back, n
<1>6. /\ front \o back \in Seq(Mails) /\ Len(front \o back) = n + 1
      /\ \A i \in 1 .. n - 1 : (front \o back)[i] = front[i]
      /\ (front \o back)[n] = back[1] /\ (front \o back)[n + 1] = back[2]
  <2> DEFINE c == front \o back
  <2>1. /\ c \in Seq(Mails) /\ Len(c) = Len(front) + Len(back)
        /\ \A i \in 1 .. Len(front) + Len(back) :
              c[i] = IF i <= Len(front) THEN front[i] ELSE back[i - Len(front)]
    BY <1>4, <1>5, ConcatProperties
  <2> HIDE DEF c
  <2>2. Len(c) = n + 1
    BY <1>2, <1>4, <1>5, <2>1
  <2>3. \A i \in 1 .. n - 1 : c[i] = front[i]
    BY <1>2, <1>4, <1>5, <2>1
  <2>4. n \in 1 .. Len(front) + Len(back) /\ n - Len(front) = 1 /\ ~(n <= Len(front))
    BY <1>2, <1>4, <1>5
  <2>5. /\ n + 1 \in 1 .. Len(front) + Len(back) /\ n + 1 - Len(front) = 2
        /\ ~(n + 1 <= Len(front))
    BY <1>2, <1>4, <1>5
  <2>6. c[n] = back[1] /\ c[n + 1] = back[2]
    BY <2>1, <2>4, <2>5
  <2> QED BY <2>1, <2>2, <2>3, <2>6 DEF c
<1> QED BY <1>1, <1>2, <1>4, <1>5, <1>6 DEF n

\* The first message is taken.
LEMMA TakenFacts ==
    ASSUME MailOK, mailbox # <<>>, mailbox' = Tail(mailbox)
    PROVE  /\ mailbox' \in Seq(Mails) /\ Len(mailbox') = Len(mailbox) - 1
           /\ Len(mailbox) > 0 /\ Head(mailbox) = mailbox[1]
           /\ \A i \in 1 .. Len(mailbox) - 1 : mailbox'[i] = mailbox[i + 1]
  BY DEF MailOK

-----------------------------------------------------------------------------
(* Every step keeps the types.                                             *)

\* The agents' side.
LEMMA AgentsNext ==
    ASSUME ClusterTyped, ClusterNext
    PROVE  AgentsOK'
<1>1. AgentsOK /\ MailOK /\ RestOK /\ SchedInv
  BY DEF ClusterTyped
<1>2. CASE UNCHANGED agentSide
  BY <1>1, <1>2 DEF AgentsOK, agentSide, Live
<1>3. ASSUME NEW req \in inflight, NEW a \in VmActor, AgentHandlesCreate(req, a)
      PROVE  AgentsOK'
  <2>1. req.agent \in alive /\ req.vm \in VM /\ req.size \in Size
    BY <1>1, <1>3 DEF AgentHandlesCreate, RestOK, CreateRequest
  <2> QED BY <1>1, <1>3, <2>1, AgentCreatesTyped DEF AgentHandlesCreate
<1>4. ASSUME NEW a \in VmActor, VmActorDies(a)
      PROVE  AgentsOK'
  <2>1. Live(a) /\ host[a] \in Agent /\ VmOf[a] \in VM
    BY <1>1, <1>4, VmOfAssumption DEF VmActorDies, AgentsOK
  <2>2. revision' \in [Agent -> Nat] /\ changed' \in [Agent -> SUBSET VM]
    BY <1>1, <1>4, <2>1 DEF VmActorDies, AgentsOK
  <2>3. crashes' \in 0 .. MaxCrashes
    BY <1>1, <1>4, ClusterBoundAssumption DEF VmActorDies, AgentsOK, Crash
  <2>4. status' \in [VmActor -> {"unborn", "running", "stopping", "dead"}]
    BY <1>1, <1>4 DEF VmActorDies, AgentsOK
  <2>5. alive' = alive /\ \A b \in VmActor : Live(b)' => Live(b) /\ host[b] \in alive'
    BY <1>1, <1>4 DEF VmActorDies, AgentsOK, Live
  <2>6. UNCHANGED <<host, sizeOf>>
    BY <1>4 DEF VmActorDies
  <2> QED BY <1>1, <2>2, <2>3, <2>4, <2>5, <2>6, AgentsShrink
<1>5. ASSUME NEW x \in Agent, AgentDies(x)
      PROVE  AgentsOK'
  <2>1. crashes' \in 0 .. MaxCrashes
    BY <1>1, <1>5, ClusterBoundAssumption DEF AgentDies, AgentsOK, Crash
  <2>2. status' \in [VmActor -> {"unborn", "running", "stopping", "dead"}]
    BY <1>1, <1>5 DEF AgentDies, AgentsOK
  <2>3. /\ alive' \subseteq alive
        /\ \A b \in VmActor : Live(b)' => Live(b) /\ host[b] \in alive'
    BY <1>1, <1>5 DEF AgentDies, AgentsOK, Live, Hosted
  <2>4. UNCHANGED <<host, sizeOf, revision, changed>>
    BY <1>5 DEF AgentDies
  <2> QED BY <1>1, <2>1, <2>2, <2>3, <2>4, AgentsShrink DEF AgentsOK
<1>6. ASSUME NEW v \in VM, NEW size \in Size, NEW x \in Agent, NEW a \in VmActor,
             ClientCreates(v, size, x, a) \/ ClientCreateKept(v, size, x, a)
      PROVE  AgentsOK'
  <2>1. CASE x \in alive /\ AgentCreates(x, v, size, a)
    BY <1>1, <2>1, AgentCreatesTyped
  <2>2. CASE UNCHANGED agentSide
    BY <1>2, <2>2
  <2> QED BY <1>6, <2>1, <2>2 DEF ClientCreates, ClientCreateKept
<1>7. ASSUME NEW v \in VM, NEW a \in VmActor, ClientStops(v, a)
      PROVE  AgentsOK'
  <2>1. /\ status' = [status EXCEPT ![a] = "stopping"] /\ Live(a)
        /\ UNCHANGED <<alive, host, sizeOf, revision, changed, crashes>>
    BY <1>7 DEF ClientStops, Registered
  <2>2. status' \in [VmActor -> {"unborn", "running", "stopping", "dead"}]
    BY <1>1, <2>1 DEF AgentsOK
  <2>3. \A b \in VmActor : Live(b)' => Live(b) /\ host[b] \in alive'
    BY <1>1, <2>1 DEF AgentsOK, Live
  <2> QED BY <1>1, <2>1, <2>2, <2>3, AgentsShrink DEF AgentsOK
<1>8. ASSUME NEW x \in Agent, AgentUpdaterPolls(x)
      PROVE  AgentsOK'
  <2>1. /\ changed' = [changed EXCEPT ![x] = {}]
        /\ UNCHANGED <<alive, status, host, sizeOf, revision, crashes>>
    BY <1>8 DEF AgentUpdaterPolls
  <2> QED BY <1>1, <2>1 DEF AgentsOK, Live
<1>9. CASE SchedulerRestarts
  <2>1. PICK stops \in SUBSET {a \in VmActor : Live(a) /\ watch[a] # "none"} :
            status' = [a \in VmActor |-> IF a \in stops THEN "stopping" ELSE status[a]]
    BY <1>9 DEF SchedulerRestarts
  <2>2. UNCHANGED <<alive, host, sizeOf, revision, changed, crashes>>
    BY <1>9 DEF SchedulerRestarts
  <2>3. status' \in [VmActor -> {"unborn", "running", "stopping", "dead"}]
    BY <1>1, <2>1 DEF AgentsOK
  <2>4. \A b \in VmActor : Live(b)' => Live(b) /\ host[b] \in alive'
    BY <1>1, <2>1, <2>2 DEF AgentsOK, Live
  <2> QED BY <1>1, <2>2, <2>3, <2>4, AgentsShrink DEF AgentsOK
<1>10. CASE AgentSideNext
  <2>1. ASSUME NEW req \in inflight, RequestLost(req)
        PROVE  AgentsOK'
    BY <1>2, <2>1 DEF RequestLost
  <2> QED BY <1>3, <1>4, <1>5, <1>10, <2>1 DEF AgentSideNext
<1>11. CASE ClientsNext
  <2>1. ASSUME NEW v \in VM, NEW size \in Size, ClientRejected(v, size)
        PROVE  AgentsOK'
    BY <1>2, <2>1 DEF ClientRejected
  <2>2. ASSUME NEW v \in VM, NEW size \in Size, NEW x \in Agent,
               ClientCreateRolledBack(v, size, x)
        PROVE  AgentsOK'
    BY <1>2, <2>2 DEF ClientCreateRolledBack
  <2> QED BY <1>6, <1>7, <1>11, <2>1, <2>2 DEF ClientsNext
<1>12. CASE UpdatersNext
  <2>1. ASSUME NEW id, Discover(id)
        PROVE  AgentsOK'
    BY <1>2, <2>1 DEF Discover
  <2>2. ASSUME NEW a, VmUpdaterAnswers(a)
        PROVE  AgentsOK'
    BY <1>2, <2>2 DEF VmUpdaterAnswers
  <2>3. ASSUME NEW id, Lose(id)
        PROVE  AgentsOK'
    BY <1>2, <2>3 DEF Lose
  <2> QED BY <1>8, <1>12, <2>1, <2>2, <2>3
          DEF UpdatersNext, AgentActorDiscovered, VmActorDiscovered
<1>13. CASE HandlesMail
  BY <1>2, <1>13 DEF HandlesMail, HandleVmUpdated, HandleAgentUpdated, HandleVmLost,
                     HandleAgentLost
<1>14. CASE Reconciles
  BY <1>2, <1>14 DEF Reconciles, outside
<1>15. ASSUME NEW v, NEW e, TimePasses(v, e)
       PROVE  AgentsOK'
  BY <1>2, <1>15 DEF TimePasses, outside
<1> QED BY <1>9, <1>10, <1>11, <1>12, <1>13, <1>14, <1>15 DEF ClusterNext

\* A message of its type added to the mailbox.
LEMMA MailAdded ==
    ASSUME MailOK, NEW m \in Mails, m.type # "AgentUpdated" \/ m.added \cap m.removed = {},
           Tell(m) \/ Overtakes(m)
    PROVE  MailOK'
<1>1. CASE Tell(m)
  <2>1. \A i \in 1 .. Len(mailbox') :
            mailbox'[i] = m \/ \E j \in 1 .. Len(mailbox) : mailbox'[i] = mailbox[j]
    <3> SUFFICES ASSUME NEW i \in 1 .. Len(mailbox')
                 PROVE  mailbox'[i] = m \/ \E j \in 1 .. Len(mailbox) : mailbox'[i] = mailbox[j]
      OBVIOUS
    <3>1. Len(mailbox) \in Nat
      BY DEF MailOK
    <3>2. CASE i = Len(mailbox) + 1
      BY <1>1, <3>2, ToldFacts
    <3>3. CASE i \in 1 .. Len(mailbox)
      BY <1>1, <3>3, ToldFacts
    <3> QED BY <1>1, <3>1, <3>2, <3>3, ToldFacts
  <2> QED BY <1>1, <2>1, ToldFacts DEF MailOK
<1>2. CASE Overtakes(m)
  <2>1. \A i \in 1 .. Len(mailbox') :
            mailbox'[i] = m \/ \E j \in 1 .. Len(mailbox) : mailbox'[i] = mailbox[j]
    <3> SUFFICES ASSUME NEW i \in 1 .. Len(mailbox')
                 PROVE  mailbox'[i] = m \/ \E j \in 1 .. Len(mailbox) : mailbox'[i] = mailbox[j]
      OBVIOUS
    <3>1. Len(mailbox) \in Nat
      BY DEF MailOK
    <3>2. CASE i = Len(mailbox)
      BY <1>2, <3>2, OvertakesFacts
    <3>3. CASE i = Len(mailbox) + 1
      BY <1>2, <3>1, <3>3, OvertakesFacts
    <3>4. CASE i \in 1 .. Len(mailbox) - 1
      BY <1>2, <3>1, <3>4, OvertakesFacts
    <3> QED BY <1>2, <3>1, <3>2, <3>3, <3>4, OvertakesFacts
  <2> QED BY <1>2, <2>1, OvertakesFacts DEF MailOK
<1> QED BY <1>1, <1>2

\* The mailbox.
LEMMA MailNext ==
    ASSUME ClusterTyped, ClusterNext
    PROVE  MailOK'
<1>1. AgentsOK /\ MailOK /\ RestOK
  BY DEF ClusterTyped
<1>2. CASE UNCHANGED mailbox
  BY <1>1, <1>2 DEF MailOK
<1>3. ASSUME NEW x \in Agent, AgentUpdaterPolls(x)
      PROVE  MailOK'
  <2> DEFINE full == watch[x] = "first"
             m == [type |-> "AgentUpdated", id |-> x, full |-> full,
                   revision |-> revision[x], used |-> UsedOn(x),
                   added |-> IF full THEN HostedVMs(x) ELSE changed[x] \cap HostedVMs(x),
                   removed |-> IF full THEN {} ELSE changed[x] \ HostedVMs(x)]
  <2>1. Tell(m)
    BY <1>3 DEF AgentUpdaterPolls
  <2>2. HostedVMs(x) \subseteq VM
    BY VmOfAssumption DEF HostedVMs, Hosted
  <2>3. /\ full \in BOOLEAN /\ revision[x] \in Nat /\ UsedOn(x) \in Nat
        /\ changed[x] \subseteq VM
    BY <1>1, UsedTyped DEF AgentsOK
  <2>4. m \in Mails
    BY <2>2, <2>3 DEF Mails
  <2>5. m.added \cap m.removed = {}
    OBVIOUS
  <2> HIDE DEF m
  <2> QED BY <1>1, <2>1, <2>4, <2>5, MailAdded
<1>4. ASSUME NEW a \in VmActor, VmUpdaterAnswers(a)
      PROVE  MailOK'
  <2> DEFINE m == Mail("VmUpdated", a)
  <2>1. m \in Mails /\ m.type # "AgentUpdated"
    BY DEF Mail, Mails
  <2>2. Tell(m)
    BY <1>4 DEF VmUpdaterAnswers
  <2> HIDE DEF m
  <2> QED BY <1>1, <2>1, <2>2, MailAdded
<1>5. ASSUME NEW id \in Agent \cup VmActor, Lose(id)
      PROVE  MailOK'
  <2> DEFINE m == Mail("Lost", id)
  <2>1. m \in Mails /\ m.type # "AgentUpdated"
    BY DEF Mail, Mails
  <2>2. Tell(m) \/ Overtakes(m)
    BY <1>5 DEF Lose
  <2> HIDE DEF m
  <2> QED BY <1>1, <2>1, <2>2, MailAdded
<1>6. CASE HandlesMail
  <2>1. mailbox # <<>> /\ mailbox' = Tail(mailbox)
    BY <1>6 DEF HandlesMail, HandleVmUpdated, HandleAgentUpdated, HandleVmLost,
                HandleAgentLost, Receive
  <2>2. Len(mailbox) \in Nat /\ MailboxBound \in Nat
    BY <1>1, ClusterBoundAssumption DEF MailOK
  <2>3. \A i \in 1 .. Len(mailbox') : i + 1 \in 1 .. Len(mailbox) /\ mailbox'[i] = mailbox[i + 1]
    BY <1>1, <2>1, <2>2, TakenFacts
  <2> QED BY <1>1, <2>1, <2>2, <2>3, TakenFacts DEF MailOK
<1>7. CASE SchedulerRestarts
  BY <1>7, ClusterBoundAssumption DEF SchedulerRestarts, MailOK
<1>8. CASE AgentSideNext
  BY <1>2, <1>8 DEF AgentSideNext, RequestLost, AgentHandlesCreate, VmActorDies, AgentDies
<1>9. CASE ClientsNext
  BY <1>2, <1>9 DEF ClientsNext, ClientStops, ClientRejected, ClientCreateRolledBack,
                    ClientCreates, ClientCreateKept
<1>10. CASE UpdatersNext
  <2>1. ASSUME NEW id, Discover(id)
        PROVE  MailOK'
    BY <1>2, <2>1 DEF Discover
  <2> QED BY <1>3, <1>4, <1>5, <1>10, <2>1
          DEF UpdatersNext, AgentActorDiscovered, VmActorDiscovered
<1>11. CASE Reconciles
  BY <1>2, <1>11 DEF Reconciles, outside
<1>12. ASSUME NEW v, NEW e, TimePasses(v, e)
       PROVE  MailOK'
  BY <1>2, <1>12 DEF TimePasses, outside
<1> QED BY <1>6, <1>7, <1>8, <1>9, <1>10, <1>11, <1>12 DEF ClusterNext

\* The tasks, the requests in flight and the ghosts.
LEMMA RestNext ==
    ASSUME ClusterTyped, ClusterNext
    PROVE  RestOK'
<1>1. AgentsOK /\ MailOK /\ RestOK /\ SchedInv
  BY DEF ClusterTyped
<1>2. ASSUME NEW kind, Fault(kind) PROVE  faults' \in 0 .. MaxFaults /\ clean' \in BOOLEAN
  <2>1. faults' \in 0 .. MaxFaults
    BY <1>1, <1>2, ClusterBoundAssumption DEF Fault, RestOK
  <2>2. clean' \in BOOLEAN
    BY <1>2 DEF Fault
  <2> QED BY <2>1, <2>2
<1>3. NoFault => faults' \in 0 .. MaxFaults /\ clean' \in BOOLEAN
  BY <1>1 DEF NoFault, RestOK
<1>4. CASE AgentSideNext
  <2>1. ASSUME NEW req \in inflight, RequestLost(req)
        PROVE  RestOK'
    BY <1>1, <1>2, <1>3, <2>1 DEF RequestLost, RestOK
  <2>2. ASSUME NEW req \in inflight, NEW a \in VmActor, AgentHandlesCreate(req, a)
        PROVE  RestOK'
    BY <1>1, <2>2 DEF AgentHandlesCreate, RestOK, ghosts
  <2>3. ASSUME NEW a \in VmActor, VmActorDies(a)
        PROVE  RestOK'
    BY <1>1, <2>3 DEF VmActorDies, RestOK, ghosts
  <2>4. ASSUME NEW x \in Agent, AgentDies(x)
        PROVE  RestOK'
    BY <1>1, <2>4 DEF AgentDies, RestOK, ghosts
  <2> QED BY <1>4, <2>1, <2>2, <2>3, <2>4 DEF AgentSideNext
<1>5. CASE ClientsNext
  <2>1. ASSUME NEW v \in VM, NEW a \in VmActor, ClientStops(v, a)
        PROVE  RestOK'
    BY <1>1, <2>1 DEF ClientStops, RestOK
  <2>2. ASSUME NEW v \in VM, NEW size \in Size, ClientRejected(v, size)
        PROVE  RestOK'
    BY <1>1, <2>2 DEF ClientRejected, RestOK, ghosts
  <2>3. ASSUME NEW v \in VM, NEW size \in Size, NEW x \in Agent,
               ClientCreateRolledBack(v, size, x)
        PROVE  RestOK'
    <3>1. [agent |-> x, vm |-> v, size |-> size] \in CreateRequest
      BY DEF CreateRequest
    <3>2. inflight' \subseteq CreateRequest
      BY <1>1, <2>3, <3>1 DEF ClientCreateRolledBack, RestOK
    <3> QED BY <1>1, <1>2, <1>3, <2>3, <3>2 DEF ClientCreateRolledBack, RestOK
  <2>4. ASSUME NEW v \in VM, NEW size \in Size, NEW x \in Agent, NEW a \in VmActor,
               ClientCreates(v, size, x, a) \/ ClientCreateKept(v, size, x, a)
        PROVE  RestOK'
    BY <1>1, <1>2, <1>3, <2>4 DEF ClientCreates, ClientCreateKept, RestOK
  <2> QED BY <1>5, <2>1, <2>2, <2>3, <2>4 DEF ClientsNext
<1>6. CASE UpdatersNext
  <2>1. ASSUME NEW id \in Agent \cup VmActor, Discover(id)
        PROVE  RestOK'
    BY <1>1, <2>1 DEF Discover, RestOK, ghosts, Phase
  <2>2. ASSUME NEW x \in Agent, AgentUpdaterPolls(x)
        PROVE  RestOK'
    BY <1>1, <2>2 DEF AgentUpdaterPolls, RestOK, ghosts, Phase
  <2>3. ASSUME NEW a \in VmActor, VmUpdaterAnswers(a)
        PROVE  RestOK'
    BY <1>1, <2>3 DEF VmUpdaterAnswers, RestOK, ghosts, Phase
  <2>4. ASSUME NEW id \in Agent \cup VmActor, Lose(id)
        PROVE  RestOK'
    BY <1>1, <1>2, <1>3, <2>4 DEF Lose, RestOK, Phase
  <2> QED BY <1>6, <2>1, <2>2, <2>3, <2>4
          DEF UpdatersNext, AgentActorDiscovered, VmActorDiscovered
<1>7. CASE HandlesMail
  <2>1. mailbox # <<>> /\ mailbox' = Tail(mailbox)
    BY <1>7 DEF HandlesMail, HandleVmUpdated, HandleAgentUpdated, HandleVmLost,
                HandleAgentLost, Receive
  <2>2. 1 \in 1 .. Len(mailbox) /\ Head(mailbox) = mailbox[1]
    BY <1>1, <2>1 DEF MailOK
  <2>3. CASE HandleVmUpdated
    BY <1>1, <2>3 DEF HandleVmUpdated, RestOK
  <2>4. CASE HandleAgentUpdated
    <3>1. mailbox[1].type = "AgentUpdated"
      BY <2>2, <2>4 DEF HandleAgentUpdated, Receive
    <3>2. Head(mailbox).revision \in Nat
      BY <1>1, <2>2, <3>1, MailFacts
    <3>3. cacheRev' \in [Agent -> Nat]
      BY <1>1, <2>4, <3>2 DEF HandleAgentUpdated, RestOK
    <3> QED BY <1>1, <2>4, <3>3 DEF HandleAgentUpdated, RestOK, ghosts
  <2>5. CASE HandleVmLost
    BY <1>1, <2>5 DEF HandleVmLost, RestOK, ghosts, Phase
  <2>6. CASE HandleAgentLost
    BY <1>1, <2>6 DEF HandleAgentLost, RestOK, ghosts, Phase
  <2> QED BY <1>7, <2>3, <2>4, <2>5, <2>6 DEF HandlesMail
<1>8. CASE Reconciles
  <2>1. inflight' \subseteq CreateRequest
    <3>1. ASSUME NEW v \in VM, NEW x \in Agent, ReconcileDispatches(v, x)
          PROVE  [agent |-> x, vm |-> v, size |-> manifests[v]] \in CreateRequest
      <4>1. v \in todo
        BY <3>1 DEF ReconcileDispatches
      <4>2. manifests[v] \in Size
        BY <1>1, <4>1 DEF SchedInv, SchedTypeOK, TodoUnplaced
      <4> QED BY <4>2 DEF CreateRequest
    <3> QED BY <1>1, <1>8, <3>1 DEF Reconciles, RestOK
  <2>2. faults' \in 0 .. MaxFaults /\ clean' \in BOOLEAN
    BY <1>2, <1>3, <1>8 DEF Reconciles
  <2> QED BY <1>1, <1>8, <2>1, <2>2 DEF Reconciles, RestOK, outside
<1>9. ASSUME NEW v, NEW e, TimePasses(v, e)
      PROVE  RestOK'
  BY <1>1, <1>2, <1>3, <1>9 DEF TimePasses, outside, RestOK
<1>10. CASE SchedulerRestarts
  BY <1>1, <1>2, <1>10 DEF SchedulerRestarts, RestOK, Phase
<1> QED BY <1>4, <1>5, <1>6, <1>7, <1>8, <1>9, <1>10 DEF ClusterNext

\* The scheduler takes a step of one of its handlers, does nothing, or starts again.
LEMMA SchedPartNext ==
    ASSUME ClusterTyped, ClusterNext
    PROVE  SchedInv'
<1>1. AgentsOK /\ MailOK /\ RestOK /\ SchedInv
  BY DEF ClusterTyped
<1>2. CASE UNCHANGED schedVars
  BY <1>1, <1>2, HandlerInv
<1>3. CASE AgentSideNext
  BY <1>2, <1>3 DEF AgentSideNext, RequestLost, AgentHandlesCreate, VmActorDies, AgentDies
<1>4. CASE ClientsNext
  <2>1. ASSUME NEW v \in VM, NEW a \in VmActor, ClientStops(v, a)
        PROVE  SchedInv'
    BY <1>1, <2>1, HandlerInv DEF ClientStops, HandlerStep, ClientNext
  <2>2. ASSUME NEW v \in VM, NEW size \in Size, ClientRejected(v, size)
        PROVE  SchedInv'
    BY <1>1, <2>2, HandlerInv DEF ClientRejected, HandlerStep, ClientNext
  <2>3. ASSUME NEW v \in VM, NEW size \in Size, NEW x \in Agent,
               ClientCreateRolledBack(v, size, x)
        PROVE  SchedInv'
    BY <1>1, <2>3, HandlerInv DEF ClientCreateRolledBack, HandlerStep, ClientNext
  <2>4. ASSUME NEW v \in VM, NEW size \in Size, NEW x \in Agent, NEW a \in VmActor,
               ClientCreates(v, size, x, a)
        PROVE  SchedInv'
    <3>1. CreateVM(v, size, x, a) /\ VmOf[a] = v
      BY <1>1, <2>4, AgentCreatesTyped DEF ClientCreates
    <3>2. a \in {b \in VmActor : VmOf[b] = v} \cup {None}
      BY <3>1
    <3> QED BY <1>1, <3>1, <3>2, HandlerInv DEF HandlerStep, ClientNext
  <2>5. ASSUME NEW v \in VM, NEW size \in Size, NEW x \in Agent, NEW a \in VmActor,
               ClientCreateKept(v, size, x, a)
        PROVE  SchedInv'
    <3>1. CreateVM(v, size, x, None)
      BY <2>5 DEF ClientCreateKept
    <3> QED BY <1>1, <3>1, HandlerInv DEF HandlerStep, ClientNext
  <2> QED BY <1>4, <2>1, <2>2, <2>3, <2>4, <2>5 DEF ClientsNext
<1>5. CASE UpdatersNext
  BY <1>2, <1>5 DEF UpdatersNext, AgentActorDiscovered, VmActorDiscovered, Discover,
                    AgentUpdaterPolls, VmUpdaterAnswers, Lose
<1>6. CASE HandlesMail
  <2>1. mailbox # <<>> /\ mailbox' = Tail(mailbox)
    BY <1>6 DEF HandlesMail, HandleVmUpdated, HandleAgentUpdated, HandleVmLost,
                HandleAgentLost, Receive
  <2>2. 1 \in 1 .. Len(mailbox) /\ Head(mailbox) = mailbox[1]
    BY <1>1, <2>1 DEF MailOK
  <2>3. CASE HandleVmUpdated
    <3>1. mailbox[1].type = "VmUpdated" /\ VmUpdated(mailbox[1].id, sizeOf[mailbox[1].id])
      BY <2>2, <2>3 DEF HandleVmUpdated, Receive
    <3>2. mailbox[1].id \in VmActor
      BY <1>1, <2>2, <3>1, MailFacts
    <3>3. sizeOf[mailbox[1].id] \in Size \cup {None}
      BY <1>1, <3>2 DEF AgentsOK
    <3> QED BY <1>1, <3>1, <3>2, <3>3, HandlerInv DEF HandlerStep
  <2>4. CASE HandleAgentUpdated
    <3> DEFINE m == mailbox[1]
    <3>1. m.type = "AgentUpdated"
      BY <2>2, <2>4 DEF HandleAgentUpdated, Receive
    <3>2. /\ m.id \in Agent /\ m.used \in Nat /\ m.added \in SUBSET VM
          /\ m.removed \in SUBSET VM /\ m.added \cap m.removed = {}
      BY <1>1, <2>2, <3>1, MailFacts
    <3>3. \/ AgentUpdatedFull(m.id, m.added, m.used)
          \/ AgentUpdatedDelta(m.id, m.added, m.removed, m.used)
          \/ UNCHANGED schedVars
      BY <2>2, <2>4 DEF HandleAgentUpdated
    <3> HIDE DEF m
    <3> QED BY <1>1, <3>2, <3>3, HandlerInv DEF HandlerStep
  <2>5. CASE HandleVmLost
    BY <1>1, <2>5, HandlerInv DEF HandleVmLost, HandlerStep
  <2>6. CASE HandleAgentLost
    BY <1>1, <2>6, HandlerInv DEF HandleAgentLost, HandlerStep
  <2> QED BY <1>6, <2>3, <2>4, <2>5, <2>6 DEF HandlesMail
<1>7. CASE Reconciles
  <2>1. ReconcileNext
    BY <1>7 DEF Reconciles, ReconcileNext
  <2> QED BY <1>1, <2>1, HandlerInv DEF HandlerStep
<1>8. ASSUME NEW v \in VM, NEW e \in placements[v], TimePasses(v, e)
      PROVE  SchedInv'
  <2>1. ReconcileNext
    BY <1>8 DEF TimePasses, ReconcileNext
  <2> QED BY <1>1, <2>1, HandlerInv DEF HandlerStep
<1>9. CASE SchedulerRestarts
  BY <1>9 DEF SchedulerRestarts, SchedInv, SchedTypeOK, PlacementHasIntent,
              OneEntryPerAgent, TodoUnplaced, PendingCacheCoherent, IndexWithinStatus,
              DiscoveredActorMapped, ActorMapped
<1> QED BY <1>3, <1>4, <1>5, <1>6, <1>7, <1>8, <1>9 DEF ClusterNext

\* Types are kept.
LEMMA TypedNext ==
    ASSUME ClusterTyped, [ClusterNext]_vars
    PROVE  ClusterTyped'
<1>1. CASE ClusterNext
  BY <1>1, AgentsNext, MailNext, RestNext, SchedPartNext DEF ClusterTyped
<1>2. CASE UNCHANGED vars
  <2>1. SchedInv'
    BY <1>2, HandlerInv DEF vars, ClusterTyped
  <2>2. AgentsOK' /\ MailOK' /\ RestOK'
    BY <1>2 DEF vars, agentSide, ghosts, ClusterTyped, AgentsOK, MailOK, RestOK, Live
  <2> QED BY <2>1, <2>2 DEF ClusterTyped
<1> QED BY <1>1, <1>2

\* The types hold in every behaviour: the scheduler's maps stay as consistent as
\* SchedInvariance has them when their messages come from agents and VM actors that
\* crash, and every message in the mailbox is one its handler can take.
THEOREM ClusterTypes == ClusterSpec => []ClusterTyped
  BY TypedInit, TypedNext, PTL DEF ClusterSpec

\* Type correctness of the cluster, whatever is lost, late or restarted.
THEOREM ClusterTypeCorrect == ClusterSpec => []ClusterTypeOK
<1>1. ClusterTyped => ClusterTypeOK
  BY DEF ClusterTyped, ClusterTypeOK, SchedInv, AgentsOK, MailOK, RestOK
<1> QED BY <1>1, ClusterTypes, PTL

-----------------------------------------------------------------------------
(* A VM never runs twice: the inductive invariant.                         *)

\* The two ways in which an agent has a VM or may still get it.
Requested(v, x) == \E req \in inflight : req.vm = v /\ req.agent = x
RunsOn(v, x) == \E a \in VmActor : VmOf[a] = v /\ status[a] = "running" /\ host[a] = x
HostsVM(v, x) == \E a \in VmActor : VmOf[a] = v /\ Live(a) /\ host[a] = x

\* The i-th message is a report of agent x, and adds or removes VM v.
Report(i, x) == mailbox[i].type = "AgentUpdated" /\ mailbox[i].id = x
Adds(i, x, v) == Report(i, x) /\ v \in mailbox[i].added
Drops(i, x, v) == Report(i, x) /\ v \in mailbox[i].removed

Positions == 1 .. Len(mailbox)

\* The scheduler has an entry for v on x, and a confirmed one.
EntryOn(v, x) == \E e \in placements[v] : e.agent = x
ConfirmedOn(v, x) == \E e \in placements[v] : e.agent = x /\ e.lifecycle = "Running"

\* A VM that was never created has left no trace anywhere.
FreshVM(v) ==
    manifests[v] = None /\ v \notin deleted =>
        /\ \A a \in VmActor : VmOf[a] = v => status[a] = "unborn"
        /\ \A x \in Agent : ~Requested(v, x) /\ v \notin index[x]
        /\ \A i \in Positions : mailbox[i].type = "VmUpdated" => VmOf[mailbox[i].id] # v
        /\ \A x \in Agent, i \in Positions : ~Adds(i, x, v)

\* A VM that was deleted has no intent, and only its actors are told to stop.
DeletedVM(v) ==
    /\ v \in deleted => manifests[v] = None
    /\ \A a \in VmActor : VmOf[a] = v /\ status[a] = "stopping" => v \in deleted

\* At most one actor of the VM runs or is about to.
SingleClaim(v) ==
    /\ \A a, b \in VmActor :
          /\ VmOf[a] = v /\ status[a] = "running"
          /\ VmOf[b] = v /\ status[b] = "running"
          => a = b
    /\ \A r, s \in inflight :
          r.vm = v /\ s.vm = v /\ r.agent \in alive /\ s.agent \in alive => r = s
    /\ \A a \in VmActor, r \in inflight :
          VmOf[a] = v /\ status[a] = "running" => ~(r.vm = v /\ r.agent \in alive)

\* A running agent is not taken for lost.  Its only full report is its first, and
\* until that is handled nothing is placed on it.
WatchedAgent(x) ==
    /\ watch[x] # "lost"
    /\ \A i \in Positions : ~(mailbox[i].type = "Lost" /\ mailbox[i].id = x)
    /\ watch[x] \in {"none", "first"} =>
           agentCache[x] = None /\ \A i \in Positions : ~Report(i, x)
    /\ \A i \in Positions : Report(i, x) /\ mailbox[i].full =>
           agentCache[x] = None /\ \A j \in Positions : j < i => ~Report(j, x)
    /\ agentCache[x] = None => \A v \in VM : ~EntryOn(v, x)

\* A VM that is requested of an agent is on no report of it.
RequestUnseen(v, x) ==
    Requested(v, x) =>
        v \notin index[x] /\ ~HostsVM(v, x) /\ \A i \in Positions : ~Adds(i, x, v)

\* What a report on its way removes is not what runs there: it is about an earlier
\* actor, and no report before it confirms the entry it would take back.
DropsStale(v, x) ==
    \A i \in Positions : Drops(i, x, v) /\ RunsOn(v, x) =>
        v \notin index[x] /\ \A k \in Positions : k < i => ~Adds(k, x, v)

\* Nor does it take back an entry that a later report would need.
AddsAfterDrop(v, x) ==
    \A i, j \in Positions : Drops(i, x, v) /\ i < j /\ Adds(j, x, v) =>
        v \notin index[x] /\ \A k \in Positions : k < i => ~Adds(k, x, v)

\* A reservation that has expired reserves for nothing.
ExpiredUnclaimed(v, x) ==
    \A e \in placements[v] : e.agent = x /\ e.lifecycle = "Pending" /\ e.expired =>
        ~Requested(v, x) /\ ~RunsOn(v, x) /\ \A i \in Positions : ~Adds(i, x, v)

\* Whatever runs on an agent, or may come to run there, has an entry there.
Accounted(v, x) ==
    /\ Requested(v, x) \/ RunsOn(v, x) => EntryOn(v, x)
    /\ \A i \in Positions : Adds(i, x, v) => EntryOn(v, x)
    /\ v \in index[x] <=> ConfirmedOn(v, x)
    /\ RequestUnseen(v, x)
    /\ DropsStale(v, x)
    /\ AddsAfterDrop(v, x)
    /\ ExpiredUnclaimed(v, x)

\* The invariant while no fault has happened.
CleanOK ==
    /\ \A v \in VM : FreshVM(v) /\ DeletedVM(v) /\ SingleClaim(v)
    /\ \A x \in alive : WatchedAgent(x)
    /\ \A v \in VM, x \in alive : manifests[v] # None => Accounted(v, x)

CleanInv == clean => CleanOK

-----------------------------------------------------------------------------
(* Steps that add no claim and no report.                                  *)

\* The mailbox after a step has the messages g names, in their order, and new ones;
\* what came after a message that is kept is kept.
Follows(g, new) ==
    /\ g \in [1 .. Len(mailbox') -> 0 .. Len(mailbox)]
    /\ \A i \in 1 .. Len(mailbox') :
          \/ g[i] = 0 /\ mailbox'[i] \in new
          \/ g[i] # 0 /\ mailbox'[i] = mailbox[g[i]]
    /\ \A i, j \in 1 .. Len(mailbox') : i < j /\ g[i] # 0 /\ g[j] # 0 => g[i] < g[j]
    /\ \A i \in 1 .. Len(mailbox'), k \in 1 .. Len(mailbox) :
          g[i] # 0 /\ g[i] < k => \E j \in 1 .. Len(mailbox') : i < j /\ g[j] = k

\* The mailbox is left alone.
LEMMA FollowsSame ==
    ASSUME MailOK, UNCHANGED mailbox
    PROVE  \E g : Follows(g, {})
<1> DEFINE g == [i \in 1 .. Len(mailbox') |-> i]
<1>1. Len(mailbox) \in Nat
  BY DEF MailOK
<1>2. Follows(g, {})
  BY <1>1 DEF Follows
<1> QED BY <1>2

\* The first message is taken.
LEMMA FollowsTaken ==
    ASSUME MailOK, mailbox # <<>>, mailbox' = Tail(mailbox)
    PROVE  \E g : Follows(g, {})
<1> DEFINE g == [i \in 1 .. Len(mailbox') |-> i + 1]
<1>1. Len(mailbox) \in Nat
  BY DEF MailOK
<1>2. /\ Len(mailbox') = Len(mailbox) - 1
      /\ \A i \in 1 .. Len(mailbox) - 1 : mailbox'[i] = mailbox[i + 1]
  BY TakenFacts
<1>3. Follows(g, {})
  BY <1>1, <1>2 DEF Follows
<1> QED BY <1>3

\* A message is told, or overtakes the last one.
LEMMA FollowsTold ==
    ASSUME MailOK, NEW m \in Mails, Tell(m) \/ Overtakes(m)
    PROVE  \E g : Follows(g, {m})
<1>1. Len(mailbox) \in Nat
  BY DEF MailOK
<1>2. CASE Tell(m)
  <2> DEFINE g == [i \in 1 .. Len(mailbox') |-> IF i = Len(mailbox) + 1 THEN 0 ELSE i]
  <2>1. /\ Len(mailbox') = Len(mailbox) + 1
        /\ \A i \in 1 .. Len(mailbox) : mailbox'[i] = mailbox[i]
        /\ mailbox'[Len(mailbox) + 1] = m
    BY <1>2, ToldFacts
  <2>2. Follows(g, {m})
    BY <1>1, <2>1 DEF Follows
  <2> QED BY <2>2
<1>3. CASE Overtakes(m)
  <2> DEFINE g == [i \in 1 .. Len(mailbox') |->
                      IF i = Len(mailbox) THEN 0
                      ELSE IF i = Len(mailbox) + 1 THEN Len(mailbox) ELSE i]
  <2>1. /\ Len(mailbox') = Len(mailbox) + 1 /\ Len(mailbox) > 0
        /\ \A i \in 1 .. Len(mailbox) - 1 : mailbox'[i] = mailbox[i]
        /\ mailbox'[Len(mailbox)] = m
        /\ mailbox'[Len(mailbox) + 1] = mailbox[Len(mailbox)]
    BY <1>3, OvertakesFacts
  <2>2. Follows(g, {m})
    BY <1>1, <2>1 DEF Follows
  <2> QED BY <2>2
<1> QED BY <1>2, <1>3

\* Every message but the new ones was there, in the same order.
LEMMA FollowsFacts ==
    ASSUME NEW g, NEW new, Follows(g, new)
    PROVE  /\ \A i \in Positions' :
                 mailbox'[i] \in new \/ (g[i] \in Positions /\ mailbox'[i] = mailbox[g[i]])
           /\ \A i, j \in Positions' :
                 /\ i < j
                 /\ g[i] \in Positions /\ g[j] \in Positions
                 => g[i] < g[j]
           /\ \A i \in Positions', k \in Positions :
                 g[i] \in Positions /\ g[i] < k =>
                    \E j \in Positions' : i < j /\ g[j] = k /\ mailbox'[j] = mailbox[k]
<1>1. ASSUME NEW i \in Positions'
      PROVE  mailbox'[i] \in new \/ (g[i] \in Positions /\ mailbox'[i] = mailbox[g[i]])
  BY <1>1 DEF Follows, Positions
<1>2. ASSUME NEW i \in Positions', NEW j \in Positions', i < j,
             g[i] \in Positions, g[j] \in Positions
      PROVE  g[i] < g[j]
  BY <1>2 DEF Follows, Positions
<1>3. ASSUME NEW i \in Positions', NEW k \in Positions, g[i] \in Positions, g[i] < k
      PROVE  \E j \in Positions' : i < j /\ g[j] = k /\ mailbox'[j] = mailbox[k]
  <2>1. k \in 1 .. Len(mailbox) /\ k # 0 /\ g[i] # 0 /\ i \in 1 .. Len(mailbox')
    BY <1>3 DEF Positions
  <2>2. PICK j \in 1 .. Len(mailbox') : i < j /\ g[j] = k
    BY <1>3, <2>1 DEF Follows
  <2> QED BY <2>1, <2>2 DEF Follows, Positions
<1> QED BY <1>1, <1>2, <1>3

\* Without new ones, every message was there.
LEMMA FollowsOld ==
    ASSUME NEW g, Follows(g, {})
    PROVE  \A i \in Positions' : g[i] \in Positions /\ mailbox'[i] = mailbox[g[i]]
<1>1. \A i \in Positions' :
          mailbox'[i] \in {} \/ (g[i] \in Positions /\ mailbox'[i] = mailbox[g[i]])
  BY FollowsFacts
<1> QED BY <1>1

\* The entries of v on x are kept as far as they matter: an entry may go only where
\* nothing needs it, and expire only where nothing is claimed.
PlacementsKept(v, x) ==
    /\ EntryOn(v, x)' => EntryOn(v, x)
    /\ /\ EntryOn(v, x)
       /\ Requested(v, x) \/ RunsOn(v, x) \/ \E i \in Positions : Adds(i, x, v)
       => EntryOn(v, x)'
    /\ ConfirmedOn(v, x)' <=> ConfirmedOn(v, x)
    /\ \A e \in placements'[v] : e.agent = x /\ e.lifecycle = "Pending" /\ e.expired =>
          \/ e \in placements[v]
          \/ ~Requested(v, x) /\ ~RunsOn(v, x) /\ \A i \in Positions : ~Adds(i, x, v)

\* A VM stays accounted for when nothing about it is claimed or reported anew.
LEMMA AccountedKept ==
    ASSUME NEW v \in VM, NEW x \in Agent, Accounted(v, x), PlacementsKept(v, x),
           NEW g, NEW new, Follows(g, new),
           \A m \in new : ~(m.type = "AgentUpdated" /\ m.id = x),
           v \in index'[x] <=> v \in index[x],
           Requested(v, x)' => Requested(v, x),
           RunsOn(v, x)' => RunsOn(v, x),
           HostsVM(v, x)' => HostsVM(v, x)
    PROVE  Accounted(v, x)'
<1>1. \A i \in Positions' : Adds(i, x, v)' => g[i] \in Positions /\ Adds(g[i], x, v)
  BY FollowsFacts DEF Adds, Report
<1>2. \A i \in Positions' : Drops(i, x, v)' => g[i] \in Positions /\ Drops(g[i], x, v)
  BY FollowsFacts DEF Drops, Report
<1>3. \A i, j \in Positions' :
          i < j /\ g[i] \in Positions /\ g[j] \in Positions => g[i] < g[j]
  BY FollowsFacts
<1>4. (Requested(v, x) \/ RunsOn(v, x) => EntryOn(v, x))'
  BY DEF Accounted, PlacementsKept
<1>5. (\A i \in Positions : Adds(i, x, v) => EntryOn(v, x))'
  BY <1>1 DEF Accounted, PlacementsKept
<1>6. (v \in index[x] <=> ConfirmedOn(v, x))'
  BY DEF Accounted, PlacementsKept
<1>7. RequestUnseen(v, x)'
  BY <1>1 DEF Accounted, RequestUnseen
<1>8. DropsStale(v, x)'
  BY <1>1, <1>2, <1>3 DEF Accounted, DropsStale
<1>9. AddsAfterDrop(v, x)'
  BY <1>1, <1>2, <1>3 DEF Accounted, AddsAfterDrop
<1>10. ExpiredUnclaimed(v, x)'
  BY <1>1 DEF Accounted, ExpiredUnclaimed, PlacementsKept
<1> QED BY <1>4, <1>5, <1>6, <1>7, <1>8, <1>9, <1>10 DEF Accounted

\* A running agent stays watched when it says nothing new.
LEMMA WatchedKept ==
    ASSUME NEW x \in Agent, WatchedAgent(x), NEW g, NEW new, Follows(g, new),
           \A m \in new : m.id = x => m.type \notin {"AgentUpdated", "Lost"},
           watch'[x] = watch[x] \/ (watch[x] = "none" /\ watch'[x] = "first"),
           agentCache'[x] = agentCache[x],
           agentCache[x] = None => \A v \in VM : EntryOn(v, x)' => EntryOn(v, x)
    PROVE  WatchedAgent(x)'
<1>1. \A i \in Positions' : Report(i, x)' =>
          g[i] \in Positions /\ Report(g[i], x) /\ mailbox'[i] = mailbox[g[i]]
  BY FollowsFacts DEF Report
<1>2. \A i \in Positions' : mailbox'[i].type = "Lost" /\ mailbox'[i].id = x =>
          g[i] \in Positions /\ mailbox'[i] = mailbox[g[i]]
  BY FollowsFacts
<1>3. \A i, j \in Positions' :
          i < j /\ g[i] \in Positions /\ g[j] \in Positions => g[i] < g[j]
  BY FollowsFacts
<1>4. /\ (watch[x] # "lost")'
      /\ (\A i \in Positions : ~(mailbox[i].type = "Lost" /\ mailbox[i].id = x))'
  BY <1>2 DEF WatchedAgent
<1>5. (watch[x] \in {"none", "first"} =>
           agentCache[x] = None /\ \A i \in Positions : ~Report(i, x))'
  BY <1>1 DEF WatchedAgent
<1>6. (\A i \in Positions : Report(i, x) /\ mailbox[i].full =>
           agentCache[x] = None /\ \A j \in Positions : j < i => ~Report(j, x))'
  BY <1>1, <1>3 DEF WatchedAgent
<1>7. (agentCache[x] = None => \A v \in VM : ~EntryOn(v, x))'
  BY DEF WatchedAgent
<1> QED BY <1>4, <1>5, <1>6, <1>7 DEF WatchedAgent

\* A VM that is still fresh still has left no trace.
LEMMA FreshKept ==
    ASSUME NEW v \in VM, FreshVM(v), NEW g, NEW new, Follows(g, new),
           manifests'[v] = None /\ v \notin deleted' =>
               /\ manifests[v] = None /\ v \notin deleted
               /\ \A a \in VmActor : VmOf[a] = v /\ status[a] = "unborn"
                                        => status'[a] = "unborn"
               /\ \A x \in Agent : /\ Requested(v, x)' => Requested(v, x)
                                   /\ v \in index'[x] => v \in index[x]
               /\ \A m \in new : /\ m.type = "VmUpdated" => VmOf[m.id] # v
                                 /\ m.type = "AgentUpdated" => v \notin m.added
    PROVE  FreshVM(v)'
<1> SUFFICES ASSUME manifests'[v] = None, v \notin deleted'
             PROVE  /\ \A a \in VmActor : VmOf[a] = v => status'[a] = "unborn"
                    /\ \A x \in Agent : ~Requested(v, x)' /\ v \notin index'[x]
                    /\ \A i \in Positions' :
                          mailbox'[i].type = "VmUpdated" => VmOf[mailbox'[i].id] # v
                    /\ \A x \in Agent, i \in Positions' : ~Adds(i, x, v)'
  BY DEF FreshVM
<1>1. /\ \A a \in VmActor : VmOf[a] = v => status'[a] = "unborn"
      /\ \A x \in Agent : ~Requested(v, x)' /\ v \notin index'[x]
  BY DEF FreshVM
<1>2. \A i \in Positions' : mailbox'[i].type = "VmUpdated" => VmOf[mailbox'[i].id] # v
  BY FollowsFacts DEF FreshVM
<1>3. \A x \in Agent, i \in Positions' : ~Adds(i, x, v)'
  BY FollowsFacts DEF FreshVM, Adds, Report
<1> QED BY <1>1, <1>2, <1>3

\* A step that only loses actors and requests: no VM is created, deleted or reported,
\* and the scheduler's maps change only where nothing is claimed.
QuietStep(new) ==
    /\ \A m \in new : /\ m.type # "AgentUpdated"
                      /\ m.type = "Lost" => m.id \notin alive'
                      /\ m.type = "VmUpdated" => m.id \in VmActor /\ Live(m.id)
    /\ alive' \subseteq alive
    /\ inflight' \subseteq inflight
    /\ UNCHANGED <<host, deleted>>
    /\ \A a \in VmActor : status'[a] = status[a] \/ (Live(a) /\ status'[a] = "dead")
    /\ \A v \in VM : manifests'[v] = None <=> manifests[v] = None
    /\ \A v \in VM, x \in alive' :
          manifests[v] # None => PlacementsKept(v, x) /\ (v \in index'[x] <=> v \in index[x])
    /\ \A v \in VM, x \in Agent :
          manifests[v] = None /\ v \in index'[x] /\ v \notin deleted => v \in index[x]
    /\ \A x \in alive' :
          \/ WatchedAgent(x)'
          \/ /\ watch'[x] = watch[x] \/ (watch[x] = "none" /\ watch'[x] = "first")
             /\ agentCache'[x] = agentCache[x]

\* Quiet steps keep the invariant.
LEMMA QuietKeeps ==
    ASSUME ClusterTyped, ClusterTyped', CleanOK, NEW g, NEW new, Follows(g, new),
           QuietStep(new)
    PROVE  CleanOK'
<1>1. alive \subseteq Agent /\ alive' \subseteq alive
  BY DEF ClusterTyped, AgentsOK, QuietStep
<1>2. \A v \in VM, x \in Agent : /\ Requested(v, x)' => Requested(v, x)
                                 /\ RunsOn(v, x)' => RunsOn(v, x)
                                 /\ HostsVM(v, x)' => HostsVM(v, x)
  BY DEF QuietStep, Requested, RunsOn, HostsVM, Live
<1>3. ASSUME NEW v \in VM
      PROVE  FreshVM(v)' /\ DeletedVM(v)' /\ SingleClaim(v)'
  <2>1. FreshVM(v) /\ DeletedVM(v) /\ SingleClaim(v)
    BY DEF CleanOK
  <2>2. ASSUME manifests'[v] = None, v \notin deleted'
        PROVE  /\ manifests[v] = None /\ v \notin deleted
               /\ \A a \in VmActor : VmOf[a] = v /\ status[a] = "unborn"
                                        => status'[a] = "unborn"
               /\ \A x \in Agent : /\ Requested(v, x)' => Requested(v, x)
                                   /\ v \in index'[x] => v \in index[x]
               /\ \A m \in new : /\ m.type = "VmUpdated" => VmOf[m.id] # v
                                 /\ m.type = "AgentUpdated" => v \notin m.added
    <3>1. manifests[v] = None /\ v \notin deleted
      BY <2>2 DEF QuietStep
    <3>2. \A a \in VmActor : VmOf[a] = v => status[a] = "unborn"
      BY <2>1, <3>1 DEF FreshVM
    <3>3. \A m \in new : m.type = "VmUpdated" => VmOf[m.id] # v
      BY <3>2 DEF QuietStep, Live
    <3>4. \A a \in VmActor : VmOf[a] = v /\ status[a] = "unborn" => status'[a] = "unborn"
      BY DEF QuietStep, Live
    <3>5. \A x \in Agent : v \in index'[x] => v \in index[x]
      BY <3>1 DEF QuietStep
    <3>6. \A m \in new : m.type = "AgentUpdated" => v \notin m.added
      BY DEF QuietStep
    <3> QED BY <1>2, <3>1, <3>3, <3>4, <3>5, <3>6
  <2>3. FreshVM(v)'
    BY <2>1, <2>2, FreshKept
  <2>4. DeletedVM(v)'
    BY <2>1 DEF DeletedVM, QuietStep
  <2>5. SingleClaim(v)'
    BY <2>1 DEF SingleClaim, QuietStep, Live
  <2> QED BY <2>3, <2>4, <2>5
<1>4. ASSUME NEW x \in alive'
      PROVE  WatchedAgent(x)'
  <2>1. CASE WatchedAgent(x)'
    BY <2>1
  <2>2. CASE /\ watch'[x] = watch[x] \/ (watch[x] = "none" /\ watch'[x] = "first")
             /\ agentCache'[x] = agentCache[x]
    <3>1. x \in Agent /\ WatchedAgent(x)
      BY <1>1 DEF CleanOK
    <3>2. \A m \in new : m.id = x => m.type \notin {"AgentUpdated", "Lost"}
      BY DEF QuietStep
    <3>3. ASSUME NEW v \in VM, EntryOn(v, x)'
          PROVE  EntryOn(v, x)
      <4>1. manifests'[v] # None
        BY <3>3 DEF ClusterTyped, SchedInv, PlacementHasIntent, EntryOn
      <4> QED BY <3>3, <4>1 DEF QuietStep, PlacementsKept
    <3> QED BY <2>2, <3>1, <3>2, <3>3, WatchedKept
  <2> QED BY <2>1, <2>2 DEF QuietStep
<1>5. ASSUME NEW v \in VM, NEW x \in alive', manifests'[v] # None
      PROVE  Accounted(v, x)'
  <2>1. x \in Agent /\ x \in alive /\ manifests[v] # None
    BY <1>1, <1>5 DEF QuietStep
  <2>2. Accounted(v, x)
    BY <2>1 DEF CleanOK
  <2>3. PlacementsKept(v, x) /\ (v \in index'[x] <=> v \in index[x])
    BY <2>1 DEF QuietStep
  <2>4. \A m \in new : ~(m.type = "AgentUpdated" /\ m.id = x)
    BY DEF QuietStep
  <2> QED BY <1>2, <2>1, <2>2, <2>3, <2>4, AccountedKept
<1> QED BY <1>3, <1>4, <1>5 DEF CleanOK

\* Placements whose entries on x are the same are kept.
LEMMA SameEntriesKept ==
    ASSUME NEW v, NEW x,
           {e \in placements'[v] : e.agent = x} = {e \in placements[v] : e.agent = x}
    PROVE  PlacementsKept(v, x)
<1>1. \A e : e.agent = x => (e \in placements'[v] <=> e \in placements[v])
  OBVIOUS
<1>2. EntryOn(v, x)' <=> EntryOn(v, x)
  BY <1>1 DEF EntryOn
<1>3. ConfirmedOn(v, x)' <=> ConfirmedOn(v, x)
  BY <1>1 DEF ConfirmedOn
<1> QED BY <1>1, <1>2, <1>3 DEF PlacementsKept

\* A step that leaves the scheduler's maps alone is quiet when its messages are.
LEMMA QuietOutside ==
    ASSUME CleanOK, NEW new,
           \A m \in new : /\ m.type # "AgentUpdated"
                          /\ m.type = "Lost" => m.id \notin alive'
                          /\ m.type = "VmUpdated" => m.id \in VmActor /\ Live(m.id),
           alive' \subseteq alive, inflight' \subseteq inflight,
           UNCHANGED <<host, deleted, manifests, placements, index, agentCache>>,
           \A a \in VmActor : status'[a] = status[a] \/ (Live(a) /\ status'[a] = "dead"),
           \A x \in alive' : watch'[x] = watch[x]
                                \/ (watch[x] = "none" /\ watch'[x] = "first")
    PROVE  QuietStep(new)
<1>1. \A v \in VM, x \in alive' : PlacementsKept(v, x)
  BY SameEntriesKept
<1>2. \A v \in VM : manifests'[v] = manifests[v]
  OBVIOUS
<1>3. index' = index /\ agentCache' = agentCache
  OBVIOUS
<1> QED BY <1>1, <1>2, <1>3 DEF QuietStep

\* Requests lost, actors and agents that die, and requests the agent has handled.
LEMMA AgentSideQuiet ==
    ASSUME ClusterTyped, ClusterTyped', CleanOK, clean',
           \/ \E req \in inflight : RequestLost(req)
           \/ \E req \in inflight, a \in VmActor :
                 AgentHandlesCreate(req, a) /\ UNCHANGED agentSide
           \/ \E a \in VmActor : VmActorDies(a)
           \/ \E x \in Agent : AgentDies(x)
    PROVE  CleanOK'
<1>1. /\ UNCHANGED mailbox /\ inflight' \subseteq inflight /\ alive' \subseteq alive
      /\ UNCHANGED <<host, deleted, manifests, placements, index, agentCache, watch>>
  BY DEF RequestLost, AgentHandlesCreate, VmActorDies, AgentDies, schedVars, intentVars,
         agentSide, ghosts
<1>2. \A a \in VmActor : status'[a] = status[a] \/ (Live(a) /\ status'[a] = "dead")
  <2>1. ASSUME NEW b \in VmActor, VmActorDies(b)
        PROVE  \A a \in VmActor : status'[a] = status[a] \/ (Live(a) /\ status'[a] = "dead")
    BY <2>1 DEF VmActorDies, ClusterTyped, AgentsOK
  <2>2. ASSUME NEW x \in Agent, AgentDies(x)
        PROVE  \A a \in VmActor : status'[a] = status[a] \/ (Live(a) /\ status'[a] = "dead")
    BY <2>2 DEF AgentDies, Hosted
  <2>3. CASE UNCHANGED agentSide
    BY <2>3 DEF agentSide
  <2> QED BY <2>1, <2>2, <2>3 DEF RequestLost
<1>3. QuietStep({})
  BY <1>1, <1>2, QuietOutside
<1>4. \E g : Follows(g, {})
  BY <1>1, FollowsSame DEF ClusterTyped
<1> QED BY <1>3, <1>4, QuietKeeps

\* Creates that come to nothing, reconciliations that place nothing, and stuttering.
LEMMA NothingPlacedQuiet ==
    ASSUME ClusterTyped, ClusterTyped', CleanOK, clean',
           \/ \E v \in VM, size \in Size : ClientRejected(v, size)
           \/ \E v \in VM, size \in Size, x \in Agent : ClientCreateRolledBack(v, size, x)
           \/ \E v \in VM :
                 /\ ReconcileSkips(v) \/ \E x \in Agent : ReconcileSendFails(v, x)
                 /\ UNCHANGED <<outside, inflight, deleted>>
           \/ UNCHANGED vars
    PROVE  CleanOK'
<1>1. /\ UNCHANGED <<mailbox, agentSide, inflight, deleted, watch>>
      /\ UNCHANGED <<manifests, index, agentCache>>
  BY DEF ClientRejected, ClientCreateRolledBack, CreateVMRejected, CreateVMRolledBack,
         ReconcileSkips, ReconcileSendFails, outside, intentVars, schedVars, vars, ghosts,
         Fault, ClusterTyped, RestOK
<1>2. UNCHANGED placements
  <2>1. ASSUME NEW v \in VM, placements[v] = {},
               placements' = [placements EXCEPT ![v] = {}]
        PROVE  UNCHANGED placements
    BY <2>1 DEF ClusterTyped, SchedInv, SchedTypeOK
  <2>2. ASSUME NEW v \in VM, NEW size \in Size, NEW x \in Agent,
               ClientCreateRolledBack(v, size, x)
        PROVE  UNCHANGED placements
    <3>1. manifests[v] = None /\ placements' = [placements EXCEPT ![v] = {}]
      BY <2>2 DEF ClientCreateRolledBack, CreateVMRolledBack
    <3>2. placements[v] = {}
      BY <3>1 DEF ClusterTyped, SchedInv, PlacementHasIntent
    <3> QED BY <2>1, <3>1, <3>2
  <2>3. ASSUME NEW v \in VM, NEW x \in Agent, ReconcileSendFails(v, x)
        PROVE  UNCHANGED placements
    <3>1. v \in todo /\ placements' = [placements EXCEPT ![v] = {}]
      BY <2>3 DEF ReconcileSendFails
    <3>2. placements[v] = {}
      BY <3>1 DEF ClusterTyped, SchedInv, TodoUnplaced
    <3> QED BY <2>1, <3>1, <3>2
  <2> QED BY <2>2, <2>3 DEF ClientRejected, CreateVMRejected, ReconcileSkips, intentVars,
                            vars, schedVars
<1>3. QuietStep({})
  BY <1>1, <1>2, QuietOutside DEF agentSide
<1>4. \E g : Follows(g, {})
  BY <1>1, FollowsSame DEF ClusterTyped
<1> QED BY <1>3, <1>4, QuietKeeps

\* Discovery, the answers of VM actors, and losses.
LEMMA UpdatersQuiet ==
    ASSUME ClusterTyped, ClusterTyped', CleanOK, clean', NEW id \in Agent \cup VmActor,
           \/ Discover(id)
           \/ id \in VmActor /\ VmUpdaterAnswers(id)
           \/ Lose(id)
    PROVE  CleanOK'
<1>1. /\ UNCHANGED <<agentSide, inflight, deleted>>
      /\ UNCHANGED <<manifests, placements, index, agentCache>>
  BY DEF Discover, VmUpdaterAnswers, Lose, schedVars, intentVars, ghosts
<1>2. UNCHANGED <<alive, host, status>> /\ alive \subseteq Agent
  BY <1>1 DEF agentSide, ClusterTyped, AgentsOK
<1>3. watch \in [Agent \cup VmActor -> Phase]
  BY DEF ClusterTyped, RestOK
<1>4. \A x \in alive : x \notin VmActor
  BY <1>2, ActorKindAssumption
<1>5. MailOK
  BY DEF ClusterTyped
<1>6. CASE Discover(id)
  <2>1. \A x \in alive : watch[x] # "lost"
    BY DEF CleanOK, WatchedAgent
  <2>2. \A x \in alive : watch'[x] = watch[x] \/ (watch[x] = "none" /\ watch'[x] = "first")
    BY <1>2, <1>3, <1>6, <2>1 DEF Discover, Reachable
  <2>3. QuietStep({})
    BY <1>1, <1>2, <2>2, QuietOutside
  <2>4. \E g : Follows(g, {})
    BY <1>5, <1>6, FollowsSame DEF Discover
  <2> QED BY <2>3, <2>4, QuietKeeps
<1>7. CASE id \in VmActor /\ VmUpdaterAnswers(id)
  <2> DEFINE m == Mail("VmUpdated", id)
  <2>1. m \in Mails /\ m.type = "VmUpdated" /\ m.id = id /\ Live(id)
    BY <1>7 DEF Mails, Mail, VmUpdaterAnswers
  <2>2. \A x \in alive : watch'[x] = watch[x]
    BY <1>2, <1>3, <1>4, <1>7 DEF VmUpdaterAnswers
  <2>3. \E g : Follows(g, {m})
    BY <1>5, <1>7, <2>1, FollowsTold DEF VmUpdaterAnswers
  <2> HIDE DEF m
  <2>4. QuietStep({m})
    BY <1>1, <1>2, <1>7, <2>1, <2>2, QuietOutside
  <2> QED BY <2>3, <2>4, QuietKeeps
<1>8. CASE Lose(id)
  <2> DEFINE m == Mail("Lost", id)
  <2>1. m \in Mails /\ m.type = "Lost" /\ m.id = id
    BY <1>8 DEF Mails, Mail
  <2>2. id \notin alive
    BY <1>8 DEF Lose, Fault, Reachable
  <2>3. \A x \in alive : watch'[x] = watch[x]
    BY <1>2, <1>3, <1>8, <2>2 DEF Lose
  <2>4. \E g : Follows(g, {m})
    BY <1>5, <1>8, <2>1, FollowsTold DEF Lose
  <2> HIDE DEF m
  <2>5. QuietStep({m})
    BY <1>1, <1>2, <2>1, <2>2, <2>3, QuietOutside
  <2> QED BY <2>4, <2>5, QuietKeeps
<1> QED BY <1>6, <1>7, <1>8

-----------------------------------------------------------------------------
(* Handlers that change the maps where nothing is claimed.                 *)

\* A VM actor is lost: the entries on running agents stay, because the index of an
\* agent has every VM confirmed there.
LEMMA VmLostKeeps ==
    ASSUME ClusterTyped, ClusterTyped', CleanOK, HandleVmLost
    PROVE  CleanOK'
<1> DEFINE a == Head(mailbox).id
           v == actorMap[a]
<1>1. /\ a \in VmActor
      /\ UNCHANGED <<agentSide, inflight, deleted, manifests, agentCache, index>>
      /\ watch' = [watch EXCEPT ![a] = "none"]
      /\ mailbox # <<>> /\ mailbox' = Tail(mailbox)
      /\ placements' =
             IF v = None \/ discovered'[v] # {} THEN placements
             ELSE [placements EXCEPT ![v] = {e \in placements[v] : \/ e.lifecycle = "Pending"
                                                                   \/ v \in index[e.agent]}]
  BY DEF HandleVmLost, Receive, VmLost, cleanup_vm_actor, ghosts
<1> HIDE DEF v
<1>2. /\ UNCHANGED <<alive, host, status>> /\ alive \subseteq Agent
      /\ watch \in [Agent \cup VmActor -> Phase]
      /\ placements \in [VM -> SUBSET Entry]
  BY <1>1 DEF agentSide, ClusterTyped, AgentsOK, RestOK, SchedInv, SchedTypeOK
<1>3. \A x \in alive : watch'[x] = watch[x]
  BY <1>1, <1>2, ActorKindAssumption
<1>4. ASSUME NEW w \in VM, NEW x \in alive, manifests[w] # None
      PROVE  PlacementsKept(w, x)
  <2>1. w \in index[x] <=> ConfirmedOn(w, x)
    BY <1>4 DEF CleanOK, Accounted
  <2>2. \A e \in placements[w] : e.agent = x /\ e.lifecycle # "Pending" => w \in index[x]
    BY <1>2, <2>1 DEF ConfirmedOn, Entry
  <2>3. \A e : e.agent = x => (e \in placements'[w] <=> e \in placements[w])
    BY <1>1, <1>2, <2>2
  <2>4. {e \in placements'[w] : e.agent = x} = {e \in placements[w] : e.agent = x}
    BY <2>3
  <2> QED BY <2>4, SameEntriesKept
<1>5. QuietStep({})
  BY <1>1, <1>2, <1>3, <1>4 DEF QuietStep
<1>6. \E g : Follows(g, {})
  BY <1>1, FollowsTaken DEF ClusterTyped
<1> QED BY <1>5, <1>6, QuietKeeps

\* The agent that is lost does not run.
LEMMA AgentLostKeeps ==
    ASSUME ClusterTyped, ClusterTyped', CleanOK, HandleAgentLost
    PROVE  CleanOK'
<1> DEFINE y == Head(mailbox).id
           reachable == {v \in index[y] : discovered[v] # {}}
<1>1. /\ y \in Agent
      /\ UNCHANGED <<agentSide, inflight, deleted, manifests>>
      /\ watch' = [watch EXCEPT ![y] = "none"]
      /\ mailbox # <<>> /\ mailbox' = Tail(mailbox) /\ Head(mailbox).type = "Lost"
      /\ agentCache' = [agentCache EXCEPT ![y] = None]
      /\ index' = [index EXCEPT ![y] = {}]
      /\ placements' = remove_agent_placements(placements, y, reachable)
  BY DEF HandleAgentLost, Receive, AgentLost, cleanup_agent_actor, ghosts
<1>2. /\ UNCHANGED <<alive, host, status>> /\ alive \subseteq Agent
      /\ watch \in [Agent \cup VmActor -> Phase]
      /\ agentCache \in [Agent -> AgentStatus \cup {None}] /\ index \in [Agent -> SUBSET VM]
  BY <1>1 DEF agentSide, ClusterTyped, AgentsOK, RestOK, SchedInv, SchedTypeOK
<1>3. y \notin alive
  <2>1. 1 \in Positions /\ Head(mailbox) = mailbox[1]
    BY <1>1, TakenFacts DEF ClusterTyped, MailOK, Positions
  <2> QED BY <1>1, <2>1 DEF CleanOK, WatchedAgent
<1>4. placements' = [w \in VM |-> {e \in placements[w] : e.agent # y \/ w \in reachable}]
  BY <1>1 DEF remove_agent_placements
<1> HIDE DEF y, reachable
<1>5. ASSUME NEW w \in VM, NEW x \in alive
      PROVE  PlacementsKept(w, x)
  <2>1. x # y
    BY <1>3
  <2>2. {e \in placements'[w] : e.agent = x} = {e \in placements[w] : e.agent = x}
    BY <1>4, <2>1
  <2> QED BY <2>2, SameEntriesKept
<1>6. QuietStep({})
  <2>1. \A x \in alive : /\ watch'[x] = watch[x] /\ agentCache'[x] = agentCache[x]
                         /\ index'[x] = index[x]
    BY <1>1, <1>2, <1>3
  <2>2. \A x \in Agent : index'[x] \subseteq index[x]
    BY <1>1, <1>2
  <2> QED BY <1>1, <1>2, <1>5, <2>1, <2>2 DEF QuietStep
<1>7. \E g : Follows(g, {})
  BY <1>1, FollowsTaken DEF ClusterTyped
<1> QED BY <1>6, <1>7, QuietKeeps

\* A VM actor's answer confirms the VM where the index has it, which is where it is
\* confirmed already.  A VM without a manifest is deleted, or no actor of it answers.
LEMMA VmUpdatedKeeps ==
    ASSUME ClusterTyped, ClusterTyped', CleanOK, clean', HandleVmUpdated
    PROVE  CleanOK'
<1> DEFINE a == Head(mailbox).id
           v == VmOf[a]
           size == sizeOf[a]
           reporting == {x \in Agent : v \in index[x]}
<1>1. /\ UNCHANGED <<agentSide, inflight, deleted, watch, agentCache, index>>
      /\ mailbox # <<>> /\ mailbox' = Tail(mailbox) /\ Head(mailbox).type = "VmUpdated"
      /\ v \notin deleted
      /\ \/ /\ size # None
            /\ manifests' = [manifests EXCEPT ![v] = size]
            /\ placements' = [placements EXCEPT ![v] =
                                 {e \in placements[v] : e.agent \notin reporting}
                                     \cup {RunningOn(x) : x \in reporting}]
         \/ UNCHANGED <<manifests, placements>>
  BY DEF HandleVmUpdated, Receive, VmUpdated, reconcile_discovered_vm
<1>2. 1 \in Positions /\ Head(mailbox) = mailbox[1] /\ a \in VmActor
  <2>1. 1 \in Positions /\ Head(mailbox) = mailbox[1]
    BY <1>1, TakenFacts DEF ClusterTyped, MailOK, Positions
  <2> QED BY <1>1, <2>1, MailFacts DEF ClusterTyped, Positions
<1>3. v \in VM
  BY <1>2, VmOfAssumption
<1>4. manifests[v] # None
  BY <1>1, <1>2, <1>3 DEF CleanOK, FreshVM
<1> HIDE DEF v, size, reporting
<1>5. /\ UNCHANGED <<alive, host, status>> /\ alive \subseteq Agent
      /\ placements \in [VM -> SUBSET Entry]
      /\ manifests \in [VM -> Size \cup {None}]
  BY <1>1 DEF agentSide, ClusterTyped, AgentsOK, SchedInv, SchedTypeOK
<1>6. \A w \in VM : manifests'[w] = None <=> manifests[w] = None
  BY <1>1, <1>3, <1>4, <1>5
<1>7. ASSUME NEW w \in VM, NEW x \in alive, manifests[w] # None
      PROVE  PlacementsKept(w, x)
  <2>1. x \in Agent /\ (w \in index[x] <=> ConfirmedOn(w, x))
    BY <1>5, <1>7 DEF CleanOK, Accounted
  <2>2. CASE placements'[w] = placements[w]
    BY <2>2, SameEntriesKept
  <2>3. CASE w # v
    BY <1>1, <1>3, <1>5, <2>2, <2>3
  <2>4. CASE /\ w = v
             /\ placements' = [placements EXCEPT ![v] =
                                  {e \in placements[v] : e.agent \notin reporting}
                                      \cup {RunningOn(y) : y \in reporting}]
    <3>1. placements'[w] = {e \in placements[w] : e.agent \notin reporting}
                               \cup {RunningOn(y) : y \in reporting}
      BY <1>3, <1>5, <2>4
    <3>2. \A y \in reporting : RunningOn(y).agent = y /\ RunningOn(y).lifecycle = "Running"
      BY DEF RunningOn
    <3>3. CASE x \in reporting
      <4>1. ConfirmedOn(w, x) /\ EntryOn(w, x)
        BY <2>1, <2>4, <3>3 DEF reporting, ConfirmedOn, EntryOn
      <4>2. ConfirmedOn(w, x)' /\ EntryOn(w, x)'
        BY <3>1, <3>2, <3>3 DEF ConfirmedOn, EntryOn
      <4>3. \A e \in placements'[w] : e.agent = x => e.lifecycle = "Running"
        BY <3>1, <3>2, <3>3
      <4> QED BY <2>4, <4>1, <4>2, <4>3 DEF PlacementsKept
    <3>4. CASE x \notin reporting
      <4>1. {e \in placements'[w] : e.agent = x} = {e \in placements[w] : e.agent = x}
        BY <3>1, <3>2, <3>4
      <4> QED BY <2>4, <4>1, SameEntriesKept
    <3> QED BY <3>3, <3>4
  <2> QED BY <1>1, <2>2, <2>3, <2>4
<1>8. QuietStep({})
  BY <1>1, <1>5, <1>6, <1>7 DEF QuietStep
<1>9. \E g : Follows(g, {})
  BY <1>1, FollowsTaken DEF ClusterTyped
<1> QED BY <1>8, <1>9, QuietKeeps

\* A reconciliation starts: only expired reservations go.
LEMMA ReconcileStartKeeps ==
    ASSUME ClusterTyped, ClusterTyped', CleanOK, ReconcileStart,
           UNCHANGED <<outside, inflight, deleted>>
    PROVE  CleanOK'
<1>1. UNCHANGED <<mailbox, watch, alive, host, status, manifests, agentCache, index>>
  BY DEF ReconcileStart, outside, agentSide
<1>2. \A v \in VM : placements'[v] =
          {e \in placements[v] : \/ e.lifecycle # "Pending" \/ discovered[v] # {}
                                 \/ ~e.expired}
  BY DEF ReconcileStart, cleanup_unresolved_vm_cache
<1>3. ASSUME NEW v \in VM, NEW x \in alive, manifests[v] # None
      PROVE  PlacementsKept(v, x)
  <2>1. ExpiredUnclaimed(v, x)
    BY <1>3 DEF CleanOK, Accounted
  <2>2. placements'[v] \subseteq placements[v]
    BY <1>2
  <2>3. EntryOn(v, x)' => EntryOn(v, x)
    BY <2>2 DEF EntryOn
  <2>4. ConfirmedOn(v, x)' <=> ConfirmedOn(v, x)
    BY <1>2 DEF ConfirmedOn
  <2>5. ASSUME EntryOn(v, x),
               Requested(v, x) \/ RunsOn(v, x) \/ \E i \in Positions : Adds(i, x, v)
        PROVE  EntryOn(v, x)'
    <3>1. PICK e \in placements[v] : e.agent = x
      BY <2>5 DEF EntryOn
    <3>2. ~(e.lifecycle = "Pending" /\ e.expired)
      BY <2>1, <2>5, <3>1 DEF ExpiredUnclaimed
    <3> QED BY <1>2, <3>1, <3>2 DEF EntryOn
  <2> QED BY <2>2, <2>3, <2>4, <2>5 DEF PlacementsKept
<1>4. QuietStep({})
  BY <1>1, <1>3 DEF QuietStep
<1>5. \E g : Follows(g, {})
  BY <1>1, FollowsSame DEF ClusterTyped
<1> QED BY <1>4, <1>5, QuietKeeps

\* An entry's time passes: without a fault nothing is on its way any more.
LEMMA TimePassesKeeps ==
    ASSUME ClusterTyped, ClusterTyped', CleanOK, clean', NEW v \in VM,
           NEW e \in placements[v], TimePasses(v, e)
    PROVE  CleanOK'
<1>1. /\ UNCHANGED <<mailbox, watch, alive, host, status, manifests, agentCache, index,
                     inflight, deleted>>
      /\ ~LateCreate(v, e)
      /\ placements' = [placements EXCEPT ![v] =
                           (placements[v] \ {e}) \cup {[e EXCEPT !.expired = TRUE]}]
  BY DEF TimePasses, Expire, outside, agentSide, Fault
<1>2. placements \in [VM -> SUBSET Entry] /\ e \in Entry
  BY DEF ClusterTyped, SchedInv, SchedTypeOK
<1> DEFINE f == [e EXCEPT !.expired = TRUE]
<1>3. f.agent = e.agent /\ f.lifecycle = e.lifecycle
  BY <1>2 DEF Entry
<1>4. /\ placements'[v] = (placements[v] \ {e}) \cup {f}
      /\ \A w \in VM \ {v} : placements'[w] = placements[w]
  BY <1>1, <1>2
<1> HIDE DEF f
<1>5. ASSUME NEW x \in alive
      PROVE  PlacementsKept(v, x)
  <2>1. EntryOn(v, x)' <=> EntryOn(v, x)
    BY <1>3, <1>4 DEF EntryOn
  <2>2. ConfirmedOn(v, x)' <=> ConfirmedOn(v, x)
    BY <1>3, <1>4 DEF ConfirmedOn
  <2>3. ASSUME f.agent = x, f.lifecycle = "Pending"
        PROVE  ~Requested(v, x) /\ ~RunsOn(v, x) /\ \A i \in Positions : ~Adds(i, x, v)
    <3>1. e.agent = x /\ e.lifecycle = "Pending"
      BY <1>3, <2>3
    <3>2. ~Requested(v, x)
      BY <1>1, <3>1 DEF LateCreate, Requested
    <3>3. ~RunsOn(v, x)
      BY <1>1, <3>1 DEF LateCreate, RunsOn, HostedVMs, Hosted, Live
    <3>4. \A i \in Positions : ~Adds(i, x, v)
      BY <1>1, <3>1 DEF LateCreate, Positions, Adds, Report
    <3> QED BY <3>2, <3>3, <3>4
  <2> QED BY <1>4, <2>1, <2>2, <2>3 DEF PlacementsKept
<1>6. \A w \in VM, x \in alive : PlacementsKept(w, x)
  BY <1>4, <1>5, SameEntriesKept
<1>7. QuietStep({})
  BY <1>1, <1>6 DEF QuietStep
<1>8. \E g : Follows(g, {})
  BY <1>1, FollowsSame DEF ClusterTyped
<1> QED BY <1>7, <1>8, QuietKeeps

-----------------------------------------------------------------------------
(* The reports of agents.                                                  *)

\* An agent's first report: nothing was placed on it so far, so that it says nothing
\* of a VM with intent.
LEMMA FullKeeps ==
    ASSUME ClusterTyped, ClusterTyped', CleanOK, NEW y \in Agent, NEW vms \in SUBSET VM,
           NEW used \in Nat, Len(mailbox) > 0, Report(1, y), mailbox[1].full,
           mailbox[1].added = vms, mailbox' = Tail(mailbox),
           AgentUpdatedFull(y, vms, used),
           UNCHANGED <<agentSide, watch, inflight, deleted>>
    PROVE  CleanOK'
<1>1. 1 \in Positions /\ MailOK /\ mailbox # <<>>
  BY DEF ClusterTyped, MailOK, Positions
<1>2. /\ UNCHANGED <<alive, host, status, manifests>> /\ alive \subseteq Agent
      /\ agentCache \in [Agent -> AgentStatus \cup {None}] /\ index \in [Agent -> SUBSET VM]
      /\ placements \in [VM -> SUBSET Entry]
  BY DEF AgentUpdatedFull, agentSide, ClusterTyped, AgentsOK, SchedInv, SchedTypeOK
<1>3. /\ agentCache' = [agentCache EXCEPT ![y] = [vms |-> vms, used |-> used]]
      /\ index' = [index EXCEPT ![y] = vms]
      /\ placements' = reconcile_agent_placements(manifests, placements, y, vms)
  BY DEF AgentUpdatedFull
<1>4. \A v \in VM : v \in vms => Adds(1, y, v)
  BY DEF Adds
<1>5. \E g : Follows(g, {})
  BY <1>1, FollowsTaken
<1>6. \A v \in VM, x \in Agent \ {y} :
          {e \in placements'[v] : e.agent = x} = {e \in placements[v] : e.agent = x}
  BY <1>2, <1>3 DEF reconcile_agent_placements, Confirmed, RunningOn
<1>7. \A v \in VM, x \in Agent :
          manifests[v] = None /\ v \in index'[x] /\ v \notin deleted => v \in index[x]
  <2>1. \A v \in VM : manifests[v] = None /\ v \notin deleted => v \notin vms
    BY <1>1, <1>4 DEF CleanOK, FreshVM
  <2> QED BY <1>2, <1>3, <2>1
<1>8. \A x \in alive \ {y} : agentCache'[x] = agentCache[x] /\ index'[x] = index[x]
  BY <1>2, <1>3
<1>9. ASSUME y \in alive
      PROVE  /\ WatchedAgent(y)'
             /\ \A v \in VM : manifests[v] # None =>
                   PlacementsKept(v, y) /\ (v \in index'[y] <=> v \in index[y])
  <2>1. WatchedAgent(y)
    BY <1>9 DEF CleanOK
  <2>2. agentCache[y] = None /\ \A v \in VM : ~EntryOn(v, y)
    BY <1>1, <2>1 DEF WatchedAgent
  <2>3. ASSUME NEW v \in VM, manifests[v] # None
        PROVE  PlacementsKept(v, y) /\ (v \in index'[y] <=> v \in index[y])
    <3>1. Accounted(v, y)
      BY <1>9, <2>3 DEF CleanOK
    <3>2. v \notin vms
      BY <1>1, <1>4, <2>2, <3>1 DEF Accounted
    <3>3. v \notin index[y]
      BY <2>2, <3>1 DEF Accounted, ConfirmedOn, EntryOn
    <3>4. placements'[v] = {e \in placements[v] : e.agent # y \/ ~e.expired}
      BY <1>3, <3>2 DEF reconcile_agent_placements
    <3>5. {e \in placements'[v] : e.agent = y} = {e \in placements[v] : e.agent = y}
      BY <2>2, <3>4 DEF EntryOn
    <3> QED BY <1>2, <1>3, <3>2, <3>3, <3>5, SameEntriesKept
  <2>4. agentCache'[y] # None
    <3>1. [vms |-> vms, used |-> used] \in AgentStatus
      BY DEF AgentStatus
    <3> QED BY <1>2, <1>3, <3>1, SchedNoneAssumption
  <2>5. watch'[y] = watch[y] /\ watch[y] \notin {"none", "first", "lost"}
    BY <1>1, <2>1 DEF WatchedAgent
  <2>6. /\ Len(mailbox') = Len(mailbox) - 1 /\ Len(mailbox) \in Nat
        /\ \A i \in 1 .. Len(mailbox) - 1 : mailbox'[i] = mailbox[i + 1]
    BY <1>1, TakenFacts DEF MailOK
  <2>7. \A i \in Positions' :
            i + 1 \in Positions /\ 1 < i + 1 /\ mailbox'[i] = mailbox[i + 1]
    BY <2>6 DEF Positions
  <2>8. \A i \in Positions' : ~(mailbox'[i].type = "Lost" /\ mailbox'[i].id = y)
    BY <2>1, <2>7 DEF WatchedAgent
  <2>9. \A i \in Positions' : ~(Report(i, y)' /\ mailbox'[i].full)
    <3>1. ASSUME NEW i \in Positions', Report(i, y)', mailbox'[i].full
          PROVE  FALSE
      <4>1. Report(i + 1, y) /\ mailbox[i + 1].full /\ i + 1 \in Positions /\ 1 < i + 1
        BY <2>7, <3>1 DEF Report
      <4>2. ~Report(1, y)
        BY <1>1, <2>1, <4>1 DEF WatchedAgent
      <4> QED BY <4>2
    <3> QED BY <3>1
  <2>10. WatchedAgent(y)'
    BY <2>4, <2>5, <2>8, <2>9 DEF WatchedAgent
  <2> QED BY <2>3, <2>10
<1>10. ASSUME NEW v \in VM, NEW x \in alive, manifests[v] # None
       PROVE  PlacementsKept(v, x) /\ (v \in index'[x] <=> v \in index[x])
  <2>1. CASE x = y
    BY <1>9, <1>10, <2>1
  <2>2. CASE x # y
    BY <1>2, <1>6, <1>8, <2>2, SameEntriesKept
  <2> QED BY <2>1, <2>2
<1>11. QuietStep({})
  <2>1. \A x \in alive : WatchedAgent(x)' \/ agentCache'[x] = agentCache[x]
    BY <1>8, <1>9
  <2>2. alive' = alive /\ watch' = watch
    BY <1>2
  <2> QED BY <1>2, <1>7, <1>10, <2>1, <2>2 DEF QuietStep
<1> QED BY <1>5, <1>11, QuietKeeps

\* What a delta does to a VM with intent on the running agent that sent it.
LEMMA DeltaAccounted ==
    ASSUME ClusterTyped, NEW v \in VM, NEW y \in Agent, Accounted(v, y),
           Len(mailbox) > 0, Report(1, y),
           mailbox[1].added \cap mailbox[1].removed = {}, mailbox' = Tail(mailbox),
           v \in index'[y] <=> v \notin mailbox[1].removed
                                  /\ (v \in index[y] \/ v \in mailbox[1].added),
           placements'[v] =
               LET seen == IF v \in mailbox[1].added THEN Confirmed(placements[v], y)
                                                     ELSE placements[v]
               IN  IF v \in mailbox[1].removed
                   THEN {e \in seen : e.agent # y \/ e.lifecycle = "Pending"}
                   ELSE seen,
           UNCHANGED <<status, host, inflight>>
    PROVE  Accounted(v, y)'
<1>1. 1 \in Positions /\ MailOK /\ mailbox # <<>> /\ placements[v] \subseteq Entry
  BY DEF ClusterTyped, MailOK, Positions, SchedInv, SchedTypeOK
<1>2. /\ Len(mailbox') = Len(mailbox) - 1 /\ Len(mailbox) \in Nat
      /\ \A i \in 1 .. Len(mailbox) - 1 : mailbox'[i] = mailbox[i + 1]
  BY <1>1, TakenFacts DEF MailOK
<1>3. \A i \in Positions' : i \in Nat /\ i + 1 \in Positions /\ 1 < i + 1
                               /\ mailbox'[i] = mailbox[i + 1]
  BY <1>2 DEF Positions
<1>4. \A i \in Positions' : /\ Adds(i, y, v)' <=> Adds(i + 1, y, v)
                            /\ Drops(i, y, v)' <=> Drops(i + 1, y, v)
  BY <1>3 DEF Adds, Drops, Report
<1>5. /\ Requested(v, y)' <=> Requested(v, y)
      /\ RunsOn(v, y)' <=> RunsOn(v, y)
      /\ HostsVM(v, y)' <=> HostsVM(v, y)
  BY DEF Requested, RunsOn, HostsVM, Live
<1>6. CASE v \notin mailbox[1].added /\ v \notin mailbox[1].removed
  <2>1. PlacementsKept(v, y)
    BY <1>6, SameEntriesKept
  <2>2. \E g : Follows(g, {})
    BY <1>1, FollowsTaken
  <2> QED BY <1>5, <1>6, <2>1, <2>2, AccountedKept
<1>7. CASE v \in mailbox[1].added
  <2>1. Adds(1, y, v) /\ v \notin mailbox[1].removed
    BY <1>7 DEF Adds
  <2>2. placements'[v] = {e \in placements[v] : e.agent # y} \cup {RunningOn(y)}
    BY <1>7, <2>1 DEF Confirmed
  <2>3. /\ RunningOn(y).agent = y /\ RunningOn(y).lifecycle = "Running"
    BY DEF RunningOn
  <2>4. EntryOn(v, y)' /\ ConfirmedOn(v, y)' /\ v \in index'[y]
    BY <1>7, <2>1, <2>2, <2>3 DEF EntryOn, ConfirmedOn
  <2>5. ~Requested(v, y)'
    BY <1>1, <1>5, <2>1 DEF Accounted, RequestUnseen
  <2>6. DropsStale(v, y)'
    <3>1. ASSUME NEW i \in Positions', Drops(i, y, v)', RunsOn(v, y)'
          PROVE  FALSE
      <4>1. Drops(i + 1, y, v) /\ RunsOn(v, y) /\ i + 1 \in Positions /\ 1 < i + 1
        BY <1>3, <1>4, <1>5, <3>1
      <4> QED BY <1>1, <2>1, <4>1 DEF Accounted, DropsStale
    <3> QED BY <3>1 DEF DropsStale
  <2>7. AddsAfterDrop(v, y)'
    <3>1. ASSUME NEW i \in Positions', NEW j \in Positions', Drops(i, y, v)', i < j,
                 Adds(j, y, v)'
          PROVE  FALSE
      <4>1. /\ Drops(i + 1, y, v) /\ Adds(j + 1, y, v) /\ 1 < i + 1 /\ i + 1 < j + 1
            /\ i + 1 \in Positions /\ j + 1 \in Positions
        BY <1>3, <1>4, <3>1
      <4> QED BY <1>1, <2>1, <4>1 DEF Accounted, AddsAfterDrop
    <3> QED BY <3>1 DEF AddsAfterDrop
  <2>8. ExpiredUnclaimed(v, y)'
    BY <2>2, <2>3 DEF ExpiredUnclaimed
  <2>9. RequestUnseen(v, y)'
    BY <2>5 DEF RequestUnseen
  <2> QED BY <2>4, <2>6, <2>7, <2>8, <2>9 DEF Accounted
<1>8. CASE v \in mailbox[1].removed
  <2>1. Drops(1, y, v) /\ v \notin mailbox[1].added
    BY <1>8 DEF Drops
  <2>2. placements'[v] = {e \in placements[v] : e.agent # y \/ e.lifecycle = "Pending"}
    BY <1>8, <2>1
  <2>3. ~ConfirmedOn(v, y)' /\ v \notin index'[y]
    BY <1>8, <2>2 DEF ConfirmedOn
  <2>4. ASSUME EntryOn(v, y), v \notin index[y]
        PROVE  EntryOn(v, y)'
    <3>1. PICK e \in placements[v] : e.agent = y
      BY <2>4 DEF EntryOn
    <3>2. e.lifecycle = "Pending"
      BY <1>1, <2>4, <3>1 DEF Accounted, ConfirmedOn, Entry
    <3> QED BY <2>2, <3>1, <3>2 DEF EntryOn
  <2>5. (Requested(v, y) \/ RunsOn(v, y) => EntryOn(v, y))'
    <3>1. Requested(v, y) => v \notin index[y]
      BY DEF Accounted, RequestUnseen
    <3>2. RunsOn(v, y) => v \notin index[y]
      BY <1>1, <2>1 DEF Accounted, DropsStale
    <3> QED BY <1>5, <2>4, <3>1, <3>2 DEF Accounted
  <2>6. (\A i \in Positions : Adds(i, y, v) => EntryOn(v, y))'
    <3>1. ASSUME NEW i \in Positions', Adds(i, y, v)'
          PROVE  EntryOn(v, y)'
      <4>1. i + 1 \in Positions /\ 1 < i + 1 /\ Adds(i + 1, y, v)
        BY <1>3, <1>4, <3>1
      <4>2. v \notin index[y]
        BY <1>1, <2>1, <4>1 DEF Accounted, AddsAfterDrop
      <4> QED BY <2>4, <4>1, <4>2 DEF Accounted
    <3> QED BY <3>1
  <2>7. RequestUnseen(v, y)'
    BY <1>3, <1>4, <1>5, <2>3 DEF Accounted, RequestUnseen
  <2>8. DropsStale(v, y)'
    <3>1. ASSUME NEW i \in Positions', Drops(i, y, v)', RunsOn(v, y)',
                 NEW k \in Positions', k < i
          PROVE  ~Adds(k, y, v)'
      <4>1. /\ Drops(i + 1, y, v) /\ RunsOn(v, y) /\ k + 1 < i + 1
            /\ i + 1 \in Positions /\ k + 1 \in Positions
        BY <1>3, <1>4, <1>5, <3>1
      <4>2. ~Adds(k + 1, y, v)
        BY <4>1 DEF Accounted, DropsStale
      <4> QED BY <1>4, <4>2
    <3> QED BY <2>3, <3>1 DEF DropsStale
  <2>9. AddsAfterDrop(v, y)'
    <3>1. ASSUME NEW i \in Positions', NEW j \in Positions', Drops(i, y, v)', i < j,
                 Adds(j, y, v)', NEW k \in Positions', k < i
          PROVE  ~Adds(k, y, v)'
      <4>1. /\ Drops(i + 1, y, v) /\ Adds(j + 1, y, v) /\ k + 1 < i + 1 /\ i + 1 < j + 1
            /\ i + 1 \in Positions /\ j + 1 \in Positions /\ k + 1 \in Positions
        BY <1>3, <1>4, <3>1
      <4>2. ~Adds(k + 1, y, v)
        BY <4>1 DEF Accounted, AddsAfterDrop
      <4> QED BY <1>4, <4>2
    <3> QED BY <2>3, <3>1 DEF AddsAfterDrop
  <2>10. ExpiredUnclaimed(v, y)'
    BY <1>3, <1>4, <1>5, <2>2 DEF Accounted, ExpiredUnclaimed
  <2> QED BY <2>3, <2>5, <2>6, <2>7, <2>8, <2>9, <2>10 DEF Accounted
<1> QED BY <1>6, <1>7, <1>8

\* A delta: a report of another agent says nothing of what is on x.
LEMMA DeltaKeeps ==
    ASSUME ClusterTyped, ClusterTyped', CleanOK, NEW y \in Agent, NEW added \in SUBSET VM,
           NEW removed \in SUBSET VM, NEW used \in Nat, added \cap removed = {},
           Len(mailbox) > 0, Report(1, y), mailbox[1].added = added,
           mailbox[1].removed = removed, mailbox' = Tail(mailbox),
           AgentUpdatedDelta(y, added, removed, used),
           UNCHANGED <<agentSide, watch, inflight, deleted>>
    PROVE  CleanOK'
<1>1. 1 \in Positions /\ MailOK /\ mailbox # <<>>
  BY DEF ClusterTyped, MailOK, Positions
<1>2. /\ UNCHANGED <<alive, host, status, manifests>> /\ alive \subseteq Agent
      /\ agentCache \in [Agent -> AgentStatus \cup {None}] /\ index \in [Agent -> SUBSET VM]
      /\ placements \in [VM -> SUBSET Entry]
  BY DEF AgentUpdatedDelta, agentSide, ClusterTyped, AgentsOK, SchedInv, SchedTypeOK
<1>3. /\ agentCache[y] # None
      /\ agentCache' = [agentCache EXCEPT ![y] =
             [vms |-> (agentCache[y].vms \ removed) \cup added, used |-> used]]
      /\ index' = [index EXCEPT ![y] = (index[y] \cup added) \ removed]
      /\ placements' = reconcile_agent_delta(manifests, placements, y, added, removed)
  BY DEF AgentUpdatedDelta
<1>4. PICK g : Follows(g, {})
  BY <1>1, FollowsTaken
<1>5. \A v \in VM, x \in Agent \ {y} :
          {e \in placements'[v] : e.agent = x} = {e \in placements[v] : e.agent = x}
  BY <1>2, <1>3 DEF reconcile_agent_delta, Confirmed, RunningOn
<1>6. \A x \in Agent \ {y} : agentCache'[x] = agentCache[x] /\ index'[x] = index[x]
  BY <1>2, <1>3
<1>7. \A v \in VM, x \in Agent : /\ Requested(v, x)' <=> Requested(v, x)
                                 /\ RunsOn(v, x)' <=> RunsOn(v, x)
                                 /\ HostsVM(v, x)' <=> HostsVM(v, x)
  BY <1>2 DEF Requested, RunsOn, HostsVM, Live
<1>8. ASSUME NEW v \in VM
      PROVE  FreshVM(v)' /\ DeletedVM(v)' /\ SingleClaim(v)'
  <2>1. FreshVM(v) /\ DeletedVM(v) /\ SingleClaim(v)
    BY DEF CleanOK
  <2>2. manifests[v] = None /\ v \notin deleted => v \notin added
    BY <1>1, <2>1 DEF FreshVM, Adds
  <2>3. manifests[v] = None /\ v \notin deleted =>
            \A x \in Agent : v \in index'[x] => v \in index[x]
    BY <1>2, <1>3, <2>2
  <2>4. FreshVM(v)'
    BY <1>2, <1>4, <1>7, <2>1, <2>3, FreshKept
  <2>5. DeletedVM(v)' /\ SingleClaim(v)'
    BY <1>2, <2>1 DEF DeletedVM, SingleClaim
  <2> QED BY <2>4, <2>5
<1>9. ASSUME NEW x \in alive
      PROVE  WatchedAgent(x)'
  <2>1. x \in Agent /\ WatchedAgent(x) /\ watch'[x] = watch[x]
    BY <1>2 DEF CleanOK
  <2>2. CASE x # y
    <3>1. \A v \in VM : EntryOn(v, x)' => EntryOn(v, x)
      BY <1>5, <2>1, <2>2, SameEntriesKept DEF PlacementsKept
    <3> QED BY <1>4, <1>6, <2>1, <2>2, <3>1, WatchedKept
  <2>3. CASE x = y
    <3>1. agentCache'[y] # None
      <4>1. [vms |-> (agentCache[y].vms \ removed) \cup added, used |-> used] \in AgentStatus
        BY <1>2, <1>3 DEF AgentStatus
      <4> QED BY <1>2, <1>3, <4>1, SchedNoneAssumption
    <3>2. watch[y] \notin {"none", "first", "lost"}
      BY <1>3, <2>1, <2>3 DEF WatchedAgent
    <3>3. \A i \in Positions' : g[i] \in Positions /\ mailbox'[i] = mailbox[g[i]]
      BY <1>4, FollowsOld
    <3>4. \A i \in Positions : /\ ~(mailbox[i].type = "Lost" /\ mailbox[i].id = y)
                               /\ ~(Report(i, y) /\ mailbox[i].full)
      BY <1>3, <2>1, <2>3 DEF WatchedAgent
    <3>5. ASSUME NEW i \in Positions'
          PROVE  /\ ~(mailbox'[i].type = "Lost" /\ mailbox'[i].id = y)
                 /\ ~(Report(i, y)' /\ mailbox'[i].full)
      <4>1. g[i] \in Positions /\ mailbox'[i] = mailbox[g[i]]
        BY <3>3
      <4> QED BY <3>4, <4>1 DEF Report
    <3> QED BY <2>1, <2>3, <3>1, <3>2, <3>5 DEF WatchedAgent
  <2> QED BY <2>2, <2>3
<1>10. ASSUME NEW v \in VM, NEW x \in alive, manifests[v] # None
       PROVE  Accounted(v, x)'
  <2>1. x \in Agent /\ Accounted(v, x)
    BY <1>2, <1>10 DEF CleanOK
  <2>2. CASE x # y
    <3>1. PlacementsKept(v, x)
      BY <1>5, <2>1, <2>2, SameEntriesKept
    <3> QED BY <1>4, <1>6, <1>7, <2>1, <2>2, <3>1, AccountedKept
  <2>3. CASE x = y
    <3>1. v \in index'[y] <=> v \notin removed /\ (v \in index[y] \/ v \in added)
      BY <1>2, <1>3
    <3>2. placements'[v] =
              LET seen == IF v \in added THEN Confirmed(placements[v], y) ELSE placements[v]
              IN  IF v \in removed
                  THEN {e \in seen : e.agent # y \/ e.lifecycle = "Pending"}
                  ELSE seen
      BY <1>3, <1>10 DEF reconcile_agent_delta
    <3> QED BY <1>2, <2>1, <2>3, <3>1, <3>2, DeltaAccounted
  <2> QED BY <2>2, <2>3
<1>11. alive' = alive /\ manifests' = manifests
  BY <1>2
<1> QED BY <1>8, <1>9, <1>10, <1>11 DEF CleanOK

\* Every report the scheduler handles, and those it ignores.
LEMMA AgentUpdatedKeeps ==
    ASSUME ClusterTyped, ClusterTyped', CleanOK, HandleAgentUpdated
    PROVE  CleanOK'
<1>1. /\ mailbox # <<>> /\ mailbox' = Tail(mailbox) /\ Head(mailbox).type = "AgentUpdated"
      /\ UNCHANGED <<agentSide, watch, inflight, deleted>>
  BY DEF HandleAgentUpdated, Receive, ghosts
<1>2. Len(mailbox) > 0 /\ Head(mailbox) = mailbox[1] /\ 1 \in 1 .. Len(mailbox)
  BY <1>1, TakenFacts DEF ClusterTyped, MailOK
<1>3. PICK y \in Agent, added \in SUBSET VM, removed \in SUBSET VM, used \in Nat :
          /\ y = mailbox[1].id /\ added = mailbox[1].added
          /\ removed = mailbox[1].removed /\ used = mailbox[1].used
          /\ added \cap removed = {}
  <2>1. /\ mailbox[1].id \in Agent /\ mailbox[1].used \in Nat
        /\ mailbox[1].added \in SUBSET VM /\ mailbox[1].removed \in SUBSET VM
        /\ mailbox[1].added \cap mailbox[1].removed = {}
    BY <1>1, <1>2, MailFacts DEF ClusterTyped
  <2> QED BY <2>1
<1>4. Report(1, y)
  BY <1>1, <1>2, <1>3 DEF Report
<1>5. \/ mailbox[1].full /\ AgentUpdatedFull(y, added, used)
      \/ AgentUpdatedDelta(y, added, removed, used)
      \/ UNCHANGED schedVars
  BY <1>2, <1>3 DEF HandleAgentUpdated
<1>6. CASE UNCHANGED schedVars
  <2>1. QuietStep({})
    BY <1>1, <1>6, QuietOutside DEF schedVars, intentVars, agentSide
  <2>2. \E g : Follows(g, {})
    BY <1>1, FollowsTaken DEF ClusterTyped
  <2> QED BY <2>1, <2>2, QuietKeeps
<1> QED BY <1>1, <1>2, <1>3, <1>4, <1>5, <1>6, FullKeeps, DeltaKeeps

\* An agent reports.  What the report adds runs there, because the actors of a VM with
\* intent are not told to stop; what it removes does not.
LEMMA PollsKeeps ==
    ASSUME ClusterTyped, ClusterTyped', CleanOK, NEW y \in Agent, AgentUpdaterPolls(y)
    PROVE  CleanOK'
<1> DEFINE full == watch[y] = "first"
<1>1. PICK added \in SUBSET VM, removed \in SUBSET VM, m \in Mails :
          /\ added \subseteq HostedVMs(y) /\ removed \cap HostedVMs(y) = {}
          /\ m.type = "AgentUpdated" /\ m.id = y /\ (m.full <=> full)
          /\ m.added = added /\ m.removed = removed
          /\ Tell(m)
  <2> DEFINE added == IF full THEN HostedVMs(y) ELSE changed[y] \cap HostedVMs(y)
             removed == IF full THEN {} ELSE changed[y] \ HostedVMs(y)
             m == [type |-> "AgentUpdated", id |-> y, full |-> full,
                   revision |-> revision[y], used |-> UsedOn(y),
                   added |-> added, removed |-> removed]
  <2>1. Tell(m)
    BY DEF AgentUpdaterPolls
  <2>2. HostedVMs(y) \subseteq VM
    BY VmOfAssumption DEF HostedVMs, Hosted
  <2>3. added \in SUBSET VM /\ removed \in SUBSET VM /\ added \subseteq HostedVMs(y)
           /\ removed \cap HostedVMs(y) = {}
    BY <2>2 DEF ClusterTyped, AgentsOK
  <2>4. revision[y] \in Nat /\ UsedOn(y) \in Nat
    BY UsedTyped DEF ClusterTyped, AgentsOK
  <2>5. full \in BOOLEAN
    OBVIOUS
  <2> HIDE DEF added, removed, full
  <2>6. m \in Mails
    BY <2>3, <2>4, <2>5 DEF Mails
  <2>7. m.type = "AgentUpdated" /\ m.id = y /\ m.full = full /\ m.added = added
           /\ m.removed = removed
    OBVIOUS
  <2> QED BY <2>1, <2>3, <2>6, <2>7
<1>2. /\ UNCHANGED <<alive, host, status, manifests, placements, index, agentCache, inflight,
                     deleted>>
      /\ watch' = [watch EXCEPT ![y] = "steady"] /\ watch[y] \in {"first", "steady"}
      /\ y \in alive /\ alive \subseteq Agent /\ MailOK
      /\ watch \in [Agent \cup VmActor -> Phase]
  BY DEF AgentUpdaterPolls, schedVars, intentVars, ghosts, ClusterTyped, AgentsOK, RestOK
<1>3. PICK g : Follows(g, {m})
  BY <1>1, <1>2, FollowsTold
<1>4. PICK n \in Nat : /\ n = Len(mailbox) /\ Len(mailbox') = n + 1
                       /\ \A i \in 1 .. n : mailbox'[i] = mailbox[i]
                       /\ mailbox'[n + 1] = m
  BY <1>1, <1>2, ToldFacts DEF MailOK
<1> HIDE DEF full
<1>5. \A v \in VM, x \in Agent : /\ Requested(v, x)' <=> Requested(v, x)
                                 /\ RunsOn(v, x)' <=> RunsOn(v, x)
                                 /\ HostsVM(v, x)' <=> HostsVM(v, x)
                                 /\ EntryOn(v, x)' <=> EntryOn(v, x)
                                 /\ ConfirmedOn(v, x)' <=> ConfirmedOn(v, x)
  BY <1>2 DEF Requested, RunsOn, HostsVM, Live, EntryOn, ConfirmedOn
<1>6. ASSUME NEW v \in VM
      PROVE  FreshVM(v)' /\ DeletedVM(v)' /\ SingleClaim(v)'
  <2>1. FreshVM(v) /\ DeletedVM(v) /\ SingleClaim(v)
    BY DEF CleanOK
  <2>2. manifests[v] = None /\ v \notin deleted => v \notin added
    BY <1>1, <2>1 DEF FreshVM, HostedVMs, Hosted, Live
  <2>3. FreshVM(v)'
    BY <1>1, <1>2, <1>3, <1>5, <2>1, <2>2, FreshKept
  <2>4. DeletedVM(v)' /\ SingleClaim(v)'
    BY <1>2, <2>1 DEF DeletedVM, SingleClaim
  <2> QED BY <2>3, <2>4
<1>7. ASSUME NEW x \in alive
      PROVE  WatchedAgent(x)'
  <2>1. x \in Agent /\ WatchedAgent(x)
    BY <1>2 DEF CleanOK
  <2>2. CASE x # y
    BY <1>1, <1>2, <1>3, <1>5, <2>1, <2>2, WatchedKept
  <2>3. CASE x = y
    <3>1. watch'[y] = "steady"
      BY <1>2
    <3>2. \A i \in Positions' : i \in 1 .. n \/ i = n + 1
      BY <1>4 DEF Positions
    <3>3. \A i \in Positions' : ~(mailbox'[i].type = "Lost" /\ mailbox'[i].id = y)
      BY <1>1, <1>4, <2>1, <2>3, <3>2 DEF WatchedAgent, Positions
    <3>4. ASSUME NEW i \in Positions', Report(i, y)', mailbox'[i].full
          PROVE  agentCache[y] = None /\ \A j \in Positions' : j < i => ~Report(j, y)'
      <4>1. CASE i \in 1 .. n
        <5>1. /\ agentCache[y] = None
              /\ \A j \in Positions : j < i => ~Report(j, y)
          BY <1>4, <2>1, <2>3, <3>4, <4>1 DEF WatchedAgent, Report, Positions
        <5>2. ASSUME NEW j \in Positions', j < i
              PROVE  j \in Positions /\ mailbox'[j] = mailbox[j]
          BY <1>4, <4>1, <5>2 DEF Positions
        <5> QED BY <5>1, <5>2 DEF Report
      <4>2. CASE i = n + 1
        <5>1. agentCache[y] = None /\ \A j \in Positions : ~Report(j, y)
          BY <1>1, <1>4, <2>1, <2>3, <3>4, <4>2 DEF WatchedAgent, full
        <5>2. ASSUME NEW j \in Positions', j < i
              PROVE  j \in Positions /\ mailbox'[j] = mailbox[j]
          BY <1>4, <4>2, <5>2 DEF Positions
        <5> QED BY <5>1, <5>2 DEF Report
      <4> QED BY <3>2, <4>1, <4>2
    <3>5. agentCache[y] = None => \A v \in VM : ~EntryOn(v, y)
      BY <2>1, <2>3 DEF WatchedAgent
    <3> QED BY <1>2, <1>5, <2>3, <3>1, <3>3, <3>4, <3>5 DEF WatchedAgent
  <2> QED BY <2>2, <2>3
<1>8. ASSUME NEW v \in VM, NEW x \in alive, manifests[v] # None
      PROVE  Accounted(v, x)'
  <2>1. x \in Agent /\ Accounted(v, x) /\ DeletedVM(v)
    BY <1>2, <1>8 DEF CleanOK
  <2>2. CASE x # y
    <3>1. PlacementsKept(v, x)
      BY <1>2, SameEntriesKept
    <3> QED BY <1>1, <1>2, <1>3, <1>5, <2>1, <2>2, <3>1, AccountedKept
  <2>3. CASE x = y
    <3>1. \A i \in Positions' : i \in Positions \/ i = n + 1
      BY <1>4 DEF Positions
    <3>2. \A i \in Positions' : i \in Positions =>
              (Adds(i, y, v)' <=> Adds(i, y, v)) /\ (Drops(i, y, v)' <=> Drops(i, y, v))
      BY <1>4 DEF Adds, Drops, Report, Positions
    <3>3. Adds(n + 1, y, v)' => RunsOn(v, y) /\ HostsVM(v, y)
      <4>1. ASSUME Adds(n + 1, y, v)'
            PROVE  RunsOn(v, y) /\ HostsVM(v, y)
        <5>1. v \in HostedVMs(y)
          BY <1>1, <1>4, <4>1 DEF Adds
        <5>2. PICK a \in VmActor : VmOf[a] = v /\ Live(a) /\ host[a] = y
          BY <5>1 DEF HostedVMs, Hosted
        <5>3. status[a] = "running"
          BY <1>8, <2>1, <5>2 DEF DeletedVM, Live
        <5> QED BY <5>2, <5>3 DEF RunsOn, HostsVM
      <4> QED BY <4>1
    <3>4. Drops(n + 1, y, v)' => ~RunsOn(v, y)
      BY <1>1, <1>4 DEF Drops, RunsOn, HostedVMs, Hosted, Live
    <3>5. \A i \in Positions : i \in Positions' /\ i \in Nat /\ i < n + 1
      BY <1>4 DEF Positions
    <3>6. \A i, k \in Positions' : k < i => k \in Positions
      BY <1>4 DEF Positions
    <3>7. (Requested(v, y) \/ RunsOn(v, y) => EntryOn(v, y))'
      BY <1>5, <2>1, <2>3 DEF Accounted
    <3>8. (\A i \in Positions : Adds(i, y, v) => EntryOn(v, y))'
      BY <1>5, <2>1, <2>3, <3>1, <3>2, <3>3 DEF Accounted
    <3>9. (v \in index[y] <=> ConfirmedOn(v, y))'
      BY <1>2, <1>5, <2>1, <2>3 DEF Accounted
    <3>10. RequestUnseen(v, y)'
      BY <1>2, <1>5, <2>1, <2>3, <3>1, <3>2, <3>3 DEF Accounted, RequestUnseen
    <3>11. ASSUME NEW i \in Positions', Drops(i, y, v)', RunsOn(v, y)
           PROVE  v \notin index[y] /\ \A k \in Positions' : k < i => ~Adds(k, y, v)'
      <4>1. i \in Positions /\ Drops(i, y, v)
        BY <3>1, <3>2, <3>4, <3>11
      <4>2. v \notin index[y] /\ \A k \in Positions : k < i => ~Adds(k, y, v)
        BY <2>1, <2>3, <3>11, <4>1 DEF Accounted, DropsStale
      <4> QED BY <3>2, <3>6, <4>2
    <3>12. DropsStale(v, y)'
      BY <1>2, <1>5, <3>11 DEF DropsStale
    <3>13. ASSUME NEW i \in Positions', NEW j \in Positions', Drops(i, y, v)', i < j,
                  Adds(j, y, v)'
           PROVE  v \notin index[y] /\ \A k \in Positions' : k < i => ~Adds(k, y, v)'
      <4>1. CASE RunsOn(v, y)
        BY <3>11, <3>13, <4>1
      <4>2. CASE ~RunsOn(v, y)
        <5>1. j \in Positions /\ i \in Positions /\ Adds(j, y, v) /\ Drops(i, y, v)
          BY <3>1, <3>2, <3>3, <3>6, <3>13, <4>2
        <5>2. v \notin index[y] /\ \A k \in Positions : k < i => ~Adds(k, y, v)
          BY <2>1, <2>3, <3>13, <5>1 DEF Accounted, AddsAfterDrop
        <5> QED BY <3>2, <3>6, <5>2
      <4> QED BY <4>1, <4>2
    <3>14. AddsAfterDrop(v, y)'
      BY <1>2, <3>13 DEF AddsAfterDrop
    <3>15. ExpiredUnclaimed(v, y)'
      BY <1>2, <1>5, <2>1, <2>3, <3>1, <3>2, <3>3 DEF Accounted, ExpiredUnclaimed
    <3> QED BY <2>3, <3>7, <3>8, <3>9, <3>10, <3>12, <3>14, <3>15 DEF Accounted
  <2> QED BY <2>2, <2>3
<1>9. alive' = alive /\ manifests' = manifests
  BY <1>2
<1> QED BY <1>6, <1>7, <1>8, <1>9 DEF CleanOK

-----------------------------------------------------------------------------
(* Creates, dispatches and deletes.                                        *)

\* A VM no agent has reported is accounted for by its reservation.
LEMMA AccountedUnseen ==
    ASSUME NEW v \in VM, NEW x \in Agent,
           v \notin index'[x], ~ConfirmedOn(v, x)',
           \A i \in Positions' : ~Adds(i, x, v)',
           Requested(v, x)' \/ RunsOn(v, x)' => EntryOn(v, x)',
           Requested(v, x)' => ~HostsVM(v, x)',
           \A e \in placements'[v] : e.agent = x /\ e.lifecycle = "Pending" => ~e.expired
    PROVE  Accounted(v, x)'
<1>1. RequestUnseen(v, x)'
  BY DEF RequestUnseen
<1>2. DropsStale(v, x)'
  BY DEF DropsStale
<1>3. AddsAfterDrop(v, x)'
  BY DEF AddsAfterDrop
<1>4. ExpiredUnclaimed(v, x)'
  BY DEF ExpiredUnclaimed
<1> QED BY <1>1, <1>2, <1>3, <1>4 DEF Accounted

\* Only agents with a cached status are chosen.
LEMMA ScheduledIsCached ==
    ASSUME NEW size, NEW x \in schedule_agent(size)
    PROVE  x \in Agent /\ agentCache[x] # None
  BY DEF schedule_agent

\* The reservation of a create or a dispatch is the VM's only entry.
LEMMA ReservedOnly ==
    ASSUME ClusterTyped, NEW v \in VM, NEW x \in Agent, placements[v] = {},
           placements' = [placements EXCEPT ![v] = placements[v] \cup {PendingOn(x)}]
    PROVE  /\ EntryOn(v, x)'
           /\ \A y \in Agent \ {x} : ~EntryOn(v, y)'
           /\ \A y \in Agent : ~ConfirmedOn(v, y)'
           /\ \A e \in placements'[v] : ~e.expired
           /\ \A w \in VM \ {v} : placements'[w] = placements[w]
<1>1. placements'[v] = {PendingOn(x)} /\ \A w \in VM \ {v} : placements'[w] = placements[w]
  BY DEF ClusterTyped, SchedInv, SchedTypeOK
<1>2. /\ PendingOn(x).agent = x /\ PendingOn(x).lifecycle = "Pending"
      /\ ~PendingOn(x).expired
  BY DEF PendingOn
<1> QED BY <1>1, <1>2 DEF EntryOn, ConfirmedOn

\* A running agent stays watched when it is left alone and an entry is added only
\* where its status is cached.
LEMMA WatchedAlone ==
    ASSUME ClusterTyped, CleanOK, NEW x \in alive,
           UNCHANGED <<mailbox, watch, agentCache>>,
           agentCache[x] = None => \A v \in VM : EntryOn(v, x)' => EntryOn(v, x)
    PROVE  WatchedAgent(x)'
<1>1. x \in Agent /\ WatchedAgent(x) /\ MailOK
  BY DEF ClusterTyped, AgentsOK, CleanOK
<1>2. PICK g : Follows(g, {})
  BY <1>1, FollowsSame
<1> QED BY <1>1, <1>2, WatchedKept

\* The facts about one VM and one agent that a step about another leaves alone.
LEMMA AccountedAlone ==
    ASSUME ClusterTyped, CleanOK, NEW v \in VM, NEW x \in alive, manifests[v] # None,
           UNCHANGED mailbox, v \in index'[x] <=> v \in index[x],
           {e \in placements'[v] : e.agent = x} = {e \in placements[v] : e.agent = x},
           Requested(v, x)' => Requested(v, x),
           RunsOn(v, x)' => RunsOn(v, x),
           HostsVM(v, x)' => HostsVM(v, x)
    PROVE  Accounted(v, x)'
<1>1. x \in Agent /\ Accounted(v, x) /\ MailOK
  BY DEF ClusterTyped, AgentsOK, CleanOK
<1>2. PlacementsKept(v, x)
  BY SameEntriesKept
<1>3. PICK g : Follows(g, {})
  BY <1>1, FollowsSame
<1> QED BY <1>1, <1>2, <1>3, AccountedKept

\* A fresh VM stays fresh when the step is about another VM.
LEMMA FreshAlone ==
    ASSUME ClusterTyped, CleanOK, NEW v \in VM, UNCHANGED mailbox,
           manifests'[v] = None /\ v \notin deleted' =>
               /\ manifests[v] = None /\ v \notin deleted
               /\ \A a \in VmActor : VmOf[a] = v => status'[a] = status[a]
               /\ \A x \in Agent : /\ Requested(v, x)' => Requested(v, x)
                                   /\ v \in index'[x] => v \in index[x]
    PROVE  FreshVM(v)'
<1>1. FreshVM(v) /\ MailOK
  BY DEF ClusterTyped, CleanOK
<1>2. PICK g : Follows(g, {})
  BY <1>1, FollowsSame
<1> QED BY <1>1, <1>2, FreshKept

\* A delete or a shutdown takes the VM's intent, entries and index away at once.
LEMMA StopsKeeps ==
    ASSUME ClusterTyped, ClusterTyped', CleanOK, NEW v \in VM, NEW a \in VmActor,
           ClientStops(v, a)
    PROVE  CleanOK'
<1>1. /\ UNCHANGED <<alive, host, mailbox, watch, inflight, agentCache>>
      /\ manifests' = [manifests EXCEPT ![v] = None]
      /\ placements' = [placements EXCEPT ![v] = {}]
      /\ index' = [x \in Agent |-> index[x] \ {v}]
      /\ status' = [status EXCEPT ![a] = "stopping"]
      /\ deleted' = deleted \cup {v}
      /\ VmOf[a] = v /\ Live(a)
  BY DEF ClientStops, DeleteVM, ShutdownVM, remove_vm_intent, Registered
<1>2. /\ manifests \in [VM -> Size \cup {None}] /\ placements \in [VM -> SUBSET Entry]
      /\ status \in [VmActor -> {"unborn", "running", "stopping", "dead"}]
      /\ alive \subseteq Agent
  BY DEF ClusterTyped, AgentsOK, SchedInv, SchedTypeOK
<1>3. /\ manifests'[v] = None /\ placements'[v] = {}
      /\ \A w \in VM \ {v} : manifests'[w] = manifests[w] /\ placements'[w] = placements[w]
      /\ status'[a] = "stopping" /\ \A b \in VmActor \ {a} : status'[b] = status[b]
  BY <1>1, <1>2
<1>4. \A w \in VM, x \in Agent : /\ Requested(w, x)' => Requested(w, x)
                                 /\ RunsOn(w, x)' => RunsOn(w, x)
                                 /\ HostsVM(w, x)' => HostsVM(w, x)
                                 /\ EntryOn(w, x)' => EntryOn(w, x)
  <2>1. \A w \in VM, x \in Agent : Requested(w, x)' => Requested(w, x)
    BY <1>1 DEF Requested
  <2>2. \A w \in VM, x \in Agent : RunsOn(w, x)' => RunsOn(w, x)
    BY <1>1, <1>3 DEF RunsOn
  <2>3. \A w \in VM, x \in Agent : HostsVM(w, x)' => HostsVM(w, x)
    BY <1>1, <1>3 DEF HostsVM, Live
  <2>4. \A w \in VM, x \in Agent : EntryOn(w, x)' => EntryOn(w, x)
    BY <1>3 DEF EntryOn
  <2> QED BY <2>1, <2>2, <2>3, <2>4
<1>5. ASSUME NEW w \in VM
      PROVE  FreshVM(w)' /\ DeletedVM(w)' /\ SingleClaim(w)'
  <2>1. FreshVM(w) /\ DeletedVM(w) /\ SingleClaim(w)
    BY DEF CleanOK
  <2>2. CASE w = v
    <3>1. FreshVM(w)'
      BY <1>1, <2>2 DEF FreshVM
    <3>2. DeletedVM(w)'
      BY <1>1, <1>3, <2>2 DEF DeletedVM
    <3> QED BY <1>1, <1>3, <2>1, <3>1, <3>2 DEF SingleClaim
  <2>3. CASE w # v
    <3>1. \A b \in VmActor : VmOf[b] = w => status'[b] = status[b]
      BY <1>1, <1>3, <2>3
    <3>2. FreshVM(w)'
      BY <1>1, <1>3, <1>4, <2>3, <3>1, FreshAlone
    <3>3. DeletedVM(w)'
      BY <1>1, <1>3, <2>1, <2>3, <3>1 DEF DeletedVM
    <3> QED BY <1>1, <1>3, <2>1, <3>2, <3>3 DEF SingleClaim
  <2> QED BY <2>2, <2>3
<1>6. \A x \in alive : WatchedAgent(x)'
  BY <1>1, <1>2, <1>4, WatchedAlone
<1>7. ASSUME NEW w \in VM, NEW x \in alive, manifests'[w] # None
      PROVE  Accounted(w, x)'
  <2>1. w # v /\ x \in Agent
    BY <1>2, <1>3, <1>7
  <2> QED BY <1>1, <1>3, <1>4, <1>7, <2>1, AccountedAlone
<1> QED BY <1>1, <1>5, <1>6, <1>7 DEF CleanOK

\* A VM without an entry has no claim on a running agent, and no report of one adds it.
LEMMA UnplacedUnclaimed ==
    ASSUME ClusterTyped, CleanOK, NEW v \in VM, manifests[v] # None, placements[v] = {}
    PROVE  /\ \A x \in alive : /\ ~Requested(v, x) /\ ~HostsVM(v, x) /\ ~RunsOn(v, x)
                               /\ v \notin index[x]
                               /\ \A i \in Positions : ~Adds(i, x, v)
           /\ \A a \in VmActor : VmOf[a] = v => status[a] # "running"
<1>1. ASSUME NEW x \in alive
      PROVE  /\ ~Requested(v, x) /\ ~RunsOn(v, x) /\ v \notin index[x]
             /\ \A i \in Positions : ~Adds(i, x, v)
  BY DEF CleanOK, Accounted, EntryOn, ConfirmedOn
<1>2. ASSUME NEW a \in VmActor, VmOf[a] = v
      PROVE  ~Live(a)
  <2>1. status[a] # "stopping"
    BY <1>2 DEF CleanOK, DeletedVM
  <2>2. CASE status[a] = "running"
    <3>1. host[a] \in alive
      BY <2>2 DEF ClusterTyped, AgentsOK, Live
    <3> QED BY <1>1, <1>2, <2>2, <3>1 DEF RunsOn
  <2> QED BY <2>1, <2>2 DEF Live
<1> QED BY <1>1, <1>2 DEF HostsVM, Live

\* A dispatch: the VM has no entry, so that nothing of it runs or is on its way.
LEMMA DispatchKeeps ==
    ASSUME ClusterTyped, ClusterTyped', CleanOK, NEW v \in VM, NEW x \in Agent,
           ReconcileDispatches(v, x),
           inflight' = inflight \cup {[agent |-> x, vm |-> v, size |-> manifests[v]]},
           UNCHANGED <<outside, deleted>>
    PROVE  CleanOK'
<1>1. /\ UNCHANGED <<alive, host, status, mailbox, watch, manifests, agentCache, index>>
      /\ v \in todo /\ x \in schedule_agent(manifests[v])
      /\ placements' = [placements EXCEPT ![v] = placements[v] \cup {PendingOn(x)}]
      /\ alive \subseteq Agent
  BY DEF ReconcileDispatches, outside, agentSide, ClusterTyped, AgentsOK
<1>2. manifests[v] # None /\ placements[v] = {}
  BY <1>1 DEF ClusterTyped, SchedInv, TodoUnplaced
<1>3. agentCache[x] # None
  BY <1>1, ScheduledIsCached
<1>4. /\ EntryOn(v, x)'
      /\ \A y \in Agent \ {x} : ~EntryOn(v, y)'
      /\ \A y \in Agent : ~ConfirmedOn(v, y)'
      /\ \A e \in placements'[v] : ~e.expired
      /\ \A w \in VM \ {v} : placements'[w] = placements[w]
  BY <1>1, <1>2, ReservedOnly
<1>5. /\ \A y \in alive : /\ ~Requested(v, y) /\ ~HostsVM(v, y) /\ ~RunsOn(v, y)
                          /\ v \notin index[y]
                          /\ \A i \in Positions : ~Adds(i, y, v)
      /\ \A a \in VmActor : VmOf[a] = v => status[a] # "running"
  BY <1>2, UnplacedUnclaimed
<1> DEFINE new == [agent |-> x, vm |-> v, size |-> manifests[v]]
<1>6. new.agent = x /\ new.vm = v /\ inflight' = inflight \cup {new}
  OBVIOUS
<1> HIDE DEF new
<1>7. /\ \A w \in VM, y \in Agent : w # v \/ y # x => (Requested(w, y)' => Requested(w, y))
      /\ \A w \in VM, y \in Agent : /\ RunsOn(w, y)' <=> RunsOn(w, y)
                                    /\ HostsVM(w, y)' <=> HostsVM(w, y)
      /\ \A y \in Agent, i \in Positions : Adds(i, y, v)' <=> Adds(i, y, v)
      /\ Positions' = Positions
  <2>1. \A w \in VM, y \in Agent : w # v \/ y # x => (Requested(w, y)' => Requested(w, y))
    BY <1>6 DEF Requested
  <2>2. \A w \in VM, y \in Agent : /\ RunsOn(w, y)' <=> RunsOn(w, y)
                                   /\ HostsVM(w, y)' <=> HostsVM(w, y)
    BY <1>1 DEF RunsOn, HostsVM, Live
  <2>3. \A y \in Agent, i \in Positions : Adds(i, y, v)' <=> Adds(i, y, v)
    BY <1>1 DEF Adds, Report
  <2> QED BY <1>1, <2>1, <2>2, <2>3 DEF Positions
<1>8. ASSUME NEW w \in VM
      PROVE  FreshVM(w)' /\ DeletedVM(w)' /\ SingleClaim(w)'
  <2>1. DeletedVM(w) /\ SingleClaim(w)
    BY DEF CleanOK
  <2>2. FreshVM(w)'
    <3>1. CASE w = v
      BY <1>1, <1>2, <3>1 DEF FreshVM
    <3>2. CASE w # v
      BY <1>1, <1>7, <3>2, FreshAlone
    <3> QED BY <3>1, <3>2
  <2>3. DeletedVM(w)'
    BY <1>1, <2>1 DEF DeletedVM
  <2>4. SingleClaim(w)'
    <3>1. CASE w # v
      BY <1>1, <1>6, <2>1, <3>1 DEF SingleClaim
    <3>2. CASE w = v
      <4>1. \A r \in inflight : ~(r.vm = v /\ r.agent \in alive)
        BY <1>5 DEF Requested
      <4> QED BY <1>1, <1>5, <1>6, <3>2, <4>1 DEF SingleClaim
    <3> QED BY <3>1, <3>2
  <2> QED BY <2>2, <2>3, <2>4
<1>9. ASSUME NEW y \in alive
      PROVE  WatchedAgent(y)'
  <2>1. agentCache[y] = None => \A w \in VM : EntryOn(w, y)' => EntryOn(w, y)
    BY <1>1, <1>3, <1>4 DEF EntryOn
  <2> QED BY <1>1, <2>1, WatchedAlone
<1>10. ASSUME NEW w \in VM, NEW y \in alive, manifests[w] # None
       PROVE  Accounted(w, y)'
  <2>1. y \in Agent
    BY <1>1
  <2>2. CASE w = v
    <3>1. Requested(v, y)' \/ RunsOn(v, y)' => EntryOn(v, y)'
      BY <1>4, <1>5, <1>7, <2>1
    <3> QED BY <1>1, <1>4, <1>5, <1>7, <2>1, <2>2, <3>1, AccountedUnseen
  <2>3. CASE w # v
    BY <1>1, <1>4, <1>7, <1>10, <2>1, <2>3, AccountedAlone
  <2> QED BY <2>2, <2>3
<1> QED BY <1>1, <1>8, <1>9, <1>10 DEF CleanOK

\* The actor a create spawns is new: it is the only change to what runs.
LEMMA SpawnFacts ==
    ASSUME ClusterTyped, NEW x \in alive, NEW v \in VM, NEW size \in Size,
           NEW a \in VmActor, Spawn(x, v, size, a)
    PROVE  /\ VmOf[a] = v /\ status[a] = "unborn" /\ alive' = alive
           /\ status'[a] = "running" /\ host'[a] = x
           /\ \A b \in VmActor \ {a} : status'[b] = status[b] /\ host'[b] = host[b]
           /\ \A w \in VM, y \in Agent : w # v \/ y # x =>
                 /\ RunsOn(w, y)' => RunsOn(w, y)
                 /\ HostsVM(w, y)' => HostsVM(w, y)
<1>1. a \in Unborn(v)
  BY DEF Spawn
<1>2. VmOf[a] = v /\ status[a] = "unborn"
  BY <1>1 DEF Unborn
<1>3. /\ status' = [status EXCEPT ![a] = "running"]
      /\ host' = [host EXCEPT ![a] = x] /\ alive' = alive
  BY DEF Spawn
<1>4. /\ status \in [VmActor -> {"unborn", "running", "stopping", "dead"}]
      /\ host \in [VmActor -> Agent \cup {None}]
  BY DEF ClusterTyped, AgentsOK
<1>5. /\ status'[a] = "running" /\ host'[a] = x
      /\ \A b \in VmActor \ {a} : status'[b] = status[b] /\ host'[b] = host[b]
  BY <1>3, <1>4
<1>6. \A w \in VM, y \in Agent : w # v \/ y # x =>
          /\ RunsOn(w, y)' => RunsOn(w, y)
          /\ HostsVM(w, y)' => HostsVM(w, y)
  BY <1>2, <1>5 DEF RunsOn, HostsVM, Live
<1> QED BY <1>2, <1>3, <1>5, <1>6

\* An agent handles a dispatched request: the claim moves from the request to the
\* actor.
LEMMA HandlesCreateKeeps ==
    ASSUME ClusterTyped, ClusterTyped', CleanOK, NEW req \in inflight, NEW a \in VmActor,
           AgentHandlesCreate(req, a), Spawn(req.agent, req.vm, req.size, a)
    PROVE  CleanOK'
<1>1. PICK x \in alive, v \in VM, size \in Size :
          /\ x = req.agent /\ v = req.vm /\ size = req.size
          /\ Spawn(x, v, size, a)
  BY DEF AgentHandlesCreate, ClusterTyped, RestOK, CreateRequest
<1>2. /\ UNCHANGED <<mailbox, watch, manifests, placements, agentCache, index, deleted>>
      /\ inflight' = inflight \ {req} /\ x \in Agent /\ alive \subseteq Agent
  BY DEF AgentHandlesCreate, schedVars, intentVars, ghosts, ClusterTyped, AgentsOK
<1>3. /\ VmOf[a] = v /\ status[a] = "unborn" /\ alive' = alive
      /\ status'[a] = "running" /\ host'[a] = x
      /\ \A b \in VmActor \ {a} : status'[b] = status[b] /\ host'[b] = host[b]
      /\ \A w \in VM, y \in Agent : w # v \/ y # x =>
            /\ RunsOn(w, y)' => RunsOn(w, y)
            /\ HostsVM(w, y)' => HostsVM(w, y)
  BY <1>1, SpawnFacts
<1>4. Requested(v, x) /\ \A w \in VM, y \in Agent : Requested(w, y)' => Requested(w, y)
  BY <1>1, <1>2 DEF Requested
<1>5. ~Requested(v, x)'
  BY <1>1, <1>2 DEF Requested, CleanOK, SingleClaim
<1>6. \A w \in VM, y \in Agent : /\ EntryOn(w, y)' <=> EntryOn(w, y)
                                 /\ ConfirmedOn(w, y)' <=> ConfirmedOn(w, y)
  BY <1>2 DEF EntryOn, ConfirmedOn
<1>7. ASSUME NEW w \in VM
      PROVE  FreshVM(w)' /\ DeletedVM(w)' /\ SingleClaim(w)'
  <2>1. FreshVM(w) /\ DeletedVM(w) /\ SingleClaim(w)
    BY DEF CleanOK
  <2>2. FreshVM(w)'
    <3>1. CASE w = v
      BY <1>2, <1>4, <2>1, <3>1 DEF FreshVM
    <3>2. CASE w # v
      BY <1>2, <1>3, <1>4, <3>2, FreshAlone
    <3> QED BY <3>1, <3>2
  <2>3. DeletedVM(w)'
    BY <1>2, <1>3, <2>1 DEF DeletedVM
  <2>4. SingleClaim(w)'
    <3>1. CASE w # v
      BY <1>2, <1>3, <2>1, <3>1 DEF SingleClaim
    <3>2. CASE w = v
      <4>1. \A b \in VmActor : VmOf[b] = v => status[b] # "running"
        BY <1>1, <2>1, <3>2 DEF SingleClaim
      <4>2. \A r \in inflight' : ~(r.vm = v /\ r.agent \in alive)
        BY <1>1, <1>2, <2>1, <3>2 DEF SingleClaim
      <4>3. \A b \in VmActor : VmOf[b] = v /\ status'[b] = "running" => b = a
        BY <1>3, <4>1
      <4> QED BY <1>3, <3>2, <4>2, <4>3 DEF SingleClaim
    <3> QED BY <3>1, <3>2
  <2> QED BY <2>2, <2>3, <2>4
<1>8. \A y \in alive : WatchedAgent(y)'
  BY <1>2, <1>6, WatchedAlone
<1>9. ASSUME NEW w \in VM, NEW y \in alive, manifests[w] # None
      PROVE  Accounted(w, y)'
  <2>1. y \in Agent /\ Accounted(w, y)
    BY <1>2, <1>9 DEF CleanOK
  <2>2. CASE w # v \/ y # x
    BY <1>2, <1>3, <1>4, <1>9, <2>1, <2>2, AccountedAlone
  <2>3. CASE w = v /\ y = x
    <3>1. /\ v \notin index[x] /\ EntryOn(v, x) /\ ~ConfirmedOn(v, x)
          /\ \A i \in Positions : ~Adds(i, x, v)
      BY <1>4, <2>1, <2>3 DEF Accounted, RequestUnseen
    <3>2. \A e \in placements[v] : e.agent = x /\ e.lifecycle = "Pending" => ~e.expired
      BY <1>4, <2>1, <2>3 DEF Accounted, ExpiredUnclaimed
    <3>3. \A i \in Positions' : ~Adds(i, x, v)'
      BY <1>2, <3>1 DEF Positions, Adds, Report
    <3>4. v \notin index'[x] /\ ~ConfirmedOn(v, x)' /\ EntryOn(v, x)'
      BY <1>2, <1>6, <3>1
    <3>5. \A e \in placements'[v] : e.agent = x /\ e.lifecycle = "Pending" => ~e.expired
      BY <1>2, <3>2
    <3> QED BY <1>2, <1>5, <2>3, <3>3, <3>4, <3>5, AccountedUnseen
  <2> QED BY <2>2, <2>3
<1> QED BY <1>2, <1>3, <1>7, <1>8, <1>9 DEF CleanOK

\* A client's create of a VM that was never deleted is the VM's first: nothing of it
\* is anywhere.
LEMMA CreatesKeeps ==
    ASSUME ClusterTyped, ClusterTyped', CleanOK, clean', NEW v \in VM, NEW size \in Size,
           NEW x \in Agent, NEW a \in VmActor, ClientCreates(v, size, x, a)
    PROVE  CleanOK'
<1>1. /\ UNCHANGED <<mailbox, watch, agentCache, index, inflight>>
      /\ x \in alive /\ alive \subseteq Agent /\ manifests[v] = None
      /\ x \in schedule_agent(size)
      /\ manifests' = [manifests EXCEPT ![v] = size]
      /\ placements' = [placements EXCEPT ![v] = placements[v] \cup {PendingOn(x)}]
      /\ v \notin deleted /\ deleted' = deleted
      /\ AgentCreates(x, v, size, a)
  BY DEF ClientCreates, CreateVM, Fault, ClusterTyped, AgentsOK
<1>2. /\ \A b \in VmActor : VmOf[b] = v => status[b] = "unborn"
      /\ \A y \in Agent : ~Requested(v, y) /\ v \notin index[y]
      /\ \A y \in Agent, i \in Positions : ~Adds(i, y, v)
  BY <1>1 DEF CleanOK, FreshVM
<1>3. Spawn(x, v, size, a)
  BY <1>1, <1>2 DEF AgentCreates, Hosted, Live
<1>4. /\ VmOf[a] = v /\ status[a] = "unborn" /\ alive' = alive
      /\ status'[a] = "running" /\ host'[a] = x
      /\ \A b \in VmActor \ {a} : status'[b] = status[b] /\ host'[b] = host[b]
      /\ \A w \in VM, y \in Agent : w # v \/ y # x =>
            /\ RunsOn(w, y)' => RunsOn(w, y)
            /\ HostsVM(w, y)' => HostsVM(w, y)
  BY <1>1, <1>3, SpawnFacts
<1>5. placements[v] = {} /\ manifests \in [VM -> Size \cup {None}]
         /\ inflight \subseteq CreateRequest
  BY <1>1 DEF ClusterTyped, SchedInv, SchedTypeOK, PlacementHasIntent, RestOK
<1>6. /\ manifests'[v] # None
      /\ \A w \in VM \ {v} : manifests'[w] = manifests[w]
  BY <1>1, <1>5, SchedSizeAssumption
<1>7. /\ EntryOn(v, x)'
      /\ \A y \in Agent \ {x} : ~EntryOn(v, y)'
      /\ \A y \in Agent : ~ConfirmedOn(v, y)'
      /\ \A e \in placements'[v] : ~e.expired
      /\ \A w \in VM \ {v} : placements'[w] = placements[w]
  BY <1>1, <1>5, ReservedOnly
<1>8. agentCache[x] # None
  BY <1>1, ScheduledIsCached
<1>9. /\ \A w \in VM, y \in Agent : Requested(w, y)' <=> Requested(w, y)
      /\ \A y \in Agent, i \in Positions : Adds(i, y, v)' <=> Adds(i, y, v)
      /\ Positions' = Positions
  BY <1>1 DEF Requested, Adds, Report, Positions
<1>10. ASSUME NEW w \in VM
       PROVE  FreshVM(w)' /\ DeletedVM(w)' /\ SingleClaim(w)'
  <2>1. FreshVM(w) /\ DeletedVM(w) /\ SingleClaim(w)
    BY DEF CleanOK
  <2>2. FreshVM(w)'
    <3>1. CASE w = v
      BY <1>6, <3>1 DEF FreshVM
    <3>2. CASE w # v
      BY <1>1, <1>4, <1>6, <1>9, <3>2, FreshAlone
    <3> QED BY <3>1, <3>2
  <2>3. DeletedVM(w)'
    BY <1>1, <1>4, <1>6, <2>1 DEF DeletedVM
  <2>4. SingleClaim(w)'
    <3>1. CASE w # v
      BY <1>1, <1>4, <2>1, <3>1 DEF SingleClaim
    <3>2. CASE w = v
      <4>1. \A b \in VmActor : VmOf[b] = v /\ status'[b] = "running" => b = a
        BY <1>2, <1>4
      <4>2. \A r \in inflight : r.vm # v
        BY <1>2, <1>5 DEF Requested, CreateRequest
      <4> QED BY <1>1, <3>2, <4>1, <4>2 DEF SingleClaim
    <3> QED BY <3>1, <3>2
  <2> QED BY <2>2, <2>3, <2>4
<1>11. ASSUME NEW y \in alive
       PROVE  WatchedAgent(y)'
  <2>1. agentCache[y] = None => \A w \in VM : EntryOn(w, y)' => EntryOn(w, y)
    BY <1>1, <1>7, <1>8 DEF EntryOn
  <2> QED BY <1>1, <2>1, WatchedAlone
<1>12. ASSUME NEW w \in VM, NEW y \in alive, manifests'[w] # None
       PROVE  Accounted(w, y)'
  <2>1. y \in Agent
    BY <1>1
  <2>2. CASE w = v
    <3>1. RunsOn(v, y)' => EntryOn(v, y)'
      BY <1>2, <1>4, <1>7, <2>1 DEF RunsOn
    <3> QED BY <1>1, <1>2, <1>7, <1>9, <2>1, <2>2, <3>1, AccountedUnseen
  <2>3. CASE w # v
    BY <1>1, <1>4, <1>6, <1>7, <1>9, <1>12, <2>1, <2>3, AccountedAlone
  <2> QED BY <2>2, <2>3
<1> QED BY <1>4, <1>10, <1>11, <1>12 DEF CleanOK

-----------------------------------------------------------------------------
(* A VM never runs twice.                                                  *)

\* At first nothing is created, requested or reported.
LEMMA CleanInit == ClusterInit => CleanOK
<1> SUFFICES ASSUME ClusterInit
             PROVE  CleanOK
  OBVIOUS
<1> USE DEF ClusterInit, SchedInit
<1>1. Positions = {}
  BY DEF Positions
<1>2. \A v \in VM : FreshVM(v) /\ DeletedVM(v) /\ SingleClaim(v)
  BY <1>1 DEF FreshVM, DeletedVM, SingleClaim, Requested
<1>3. \A x \in alive : WatchedAgent(x)
  BY <1>1 DEF WatchedAgent, EntryOn
<1>4. \A v \in VM : manifests[v] = None
  OBVIOUS
<1> QED BY <1>2, <1>3, <1>4 DEF CleanOK

\* Every step without a fault keeps the invariant.
LEMMA CleanNext ==
    ASSUME ClusterTyped, ClusterTyped', CleanInv, [ClusterNext]_vars
    PROVE  CleanInv'
<1> SUFFICES ASSUME clean'
             PROVE  CleanOK'
  BY DEF CleanInv
<1>1. clean \in BOOLEAN /\ alive \subseteq Agent
  BY DEF ClusterTyped, RestOK, AgentsOK
<1>2. ASSUME UNCHANGED clean
      PROVE  CleanOK
  BY <1>2 DEF CleanInv
<1>3. CASE UNCHANGED vars
  BY <1>2, <1>3, NothingPlacedQuiet DEF vars, ghosts
<1>4. CASE AgentSideNext
  <2>1. CASE \E req \in inflight : RequestLost(req)
    <3>1. UNCHANGED clean
      BY <2>1 DEF RequestLost, Fault, NoFault
    <3> QED BY <1>2, <2>1, <3>1, AgentSideQuiet
  <2>2. ASSUME NEW req \in inflight, NEW a \in VmActor, AgentHandlesCreate(req, a)
        PROVE  CleanOK'
    <3>1. UNCHANGED clean
      BY <2>2 DEF AgentHandlesCreate, ghosts
    <3>2. UNCHANGED agentSide \/ Spawn(req.agent, req.vm, req.size, a)
      BY <2>2 DEF AgentHandlesCreate, AgentCreates
    <3> QED BY <1>2, <2>2, <3>1, <3>2, AgentSideQuiet, HandlesCreateKeeps
  <2>3. CASE \E a \in VmActor : VmActorDies(a)
    <3>1. UNCHANGED clean
      BY <2>3 DEF VmActorDies, ghosts
    <3> QED BY <1>2, <2>3, <3>1, AgentSideQuiet
  <2>4. CASE \E x \in Agent : AgentDies(x)
    <3>1. UNCHANGED clean
      BY <2>4 DEF AgentDies, ghosts
    <3> QED BY <1>2, <2>4, <3>1, AgentSideQuiet
  <2> QED BY <1>4, <2>1, <2>2, <2>3, <2>4 DEF AgentSideNext
<1>5. CASE ClientsNext
  <2>1. ASSUME NEW v \in VM, NEW a \in VmActor, ClientStops(v, a)
        PROVE  CleanOK'
    <3>1. UNCHANGED clean
      BY <2>1 DEF ClientStops
    <3> QED BY <1>2, <2>1, <3>1, StopsKeeps
  <2>2. ASSUME NEW v \in VM, NEW size \in Size, ClientRejected(v, size)
        PROVE  CleanOK'
    <3>1. UNCHANGED clean
      BY <2>2 DEF ClientRejected, ghosts
    <3> QED BY <1>2, <2>2, <3>1, NothingPlacedQuiet
  <2>3. ASSUME NEW v \in VM, NEW size \in Size, NEW x \in Agent,
               ClientCreateRolledBack(v, size, x)
        PROVE  CleanOK'
    <3>1. UNCHANGED clean
      BY <2>3 DEF ClientCreateRolledBack, Fault, NoFault
    <3> QED BY <1>2, <2>3, <3>1, NothingPlacedQuiet
  <2>4. ASSUME NEW v \in VM, NEW size \in Size, NEW x \in Agent, NEW a \in VmActor,
               ClientCreates(v, size, x, a)
        PROVE  CleanOK'
    <3>1. UNCHANGED clean
      BY <2>4 DEF ClientCreates, Fault, NoFault
    <3> QED BY <1>2, <2>4, <3>1, CreatesKeeps
  <2>5. ASSUME NEW v \in VM, NEW size \in Size, NEW x \in Agent, NEW a \in VmActor,
               ClientCreateKept(v, size, x, a)
        PROVE  CleanOK'
    BY <2>5 DEF ClientCreateKept, Fault
  <2> QED BY <1>5, <2>1, <2>2, <2>3, <2>4, <2>5 DEF ClientsNext
<1>6. CASE UpdatersNext
  <2>1. ASSUME NEW id \in Agent \cup VmActor, Discover(id)
        PROVE  CleanOK'
    <3>1. UNCHANGED clean
      BY <2>1 DEF Discover, ghosts
    <3> QED BY <1>2, <2>1, <3>1, UpdatersQuiet
  <2>2. ASSUME NEW x \in Agent, AgentUpdaterPolls(x)
        PROVE  CleanOK'
    <3>1. UNCHANGED clean
      BY <2>2 DEF AgentUpdaterPolls, ghosts
    <3> QED BY <1>2, <2>2, <3>1, PollsKeeps
  <2>3. ASSUME NEW a \in VmActor, VmUpdaterAnswers(a)
        PROVE  CleanOK'
    <3>1. UNCHANGED clean
      BY <2>3 DEF VmUpdaterAnswers, ghosts
    <3> QED BY <1>2, <2>3, <3>1, UpdatersQuiet
  <2>4. ASSUME NEW id \in Agent \cup VmActor, Lose(id)
        PROVE  CleanOK'
    <3>1. UNCHANGED clean
      BY <2>4 DEF Lose, Fault, NoFault
    <3> QED BY <1>2, <2>4, <3>1, UpdatersQuiet
  <2> QED BY <1>6, <2>1, <2>2, <2>3, <2>4
          DEF UpdatersNext, AgentActorDiscovered, VmActorDiscovered
<1>7. CASE HandlesMail
  <2>1. CASE HandleVmUpdated
    <3>1. clean
      BY <2>1 DEF HandleVmUpdated
    <3> QED BY <2>1, <3>1, VmUpdatedKeeps DEF CleanInv
  <2>2. CASE HandleAgentUpdated
    BY <1>2, <2>2, AgentUpdatedKeeps DEF HandleAgentUpdated, ghosts
  <2>3. CASE HandleVmLost
    BY <1>2, <2>3, VmLostKeeps DEF HandleVmLost, ghosts
  <2>4. CASE HandleAgentLost
    BY <1>2, <2>4, AgentLostKeeps DEF HandleAgentLost, ghosts
  <2> QED BY <1>7, <2>1, <2>2, <2>3, <2>4 DEF HandlesMail
<1>8. CASE Reconciles
  <2>1. UNCHANGED clean /\ UNCHANGED <<outside, deleted>>
    BY <1>8 DEF Reconciles, Fault, NoFault
  <2>2. CASE ReconcileStart /\ UNCHANGED inflight
    BY <1>2, <2>1, <2>2, ReconcileStartKeeps
  <2>3. ASSUME NEW v \in VM, UNCHANGED inflight,
               ReconcileSkips(v) \/ \E x \in Agent : ReconcileSendFails(v, x)
        PROVE  CleanOK'
    BY <1>2, <2>1, <2>3, NothingPlacedQuiet
  <2>4. ASSUME NEW v \in VM, NEW x \in Agent, ReconcileDispatches(v, x),
               inflight' = inflight \cup {[agent |-> x, vm |-> v, size |-> manifests[v]]}
        PROVE  CleanOK'
    BY <1>2, <2>1, <2>4, DispatchKeeps
  <2> QED BY <1>8, <2>2, <2>3, <2>4 DEF Reconciles
<1>9. ASSUME NEW v \in VM, NEW e \in placements[v], TimePasses(v, e)
      PROVE  CleanOK'
  <2>1. UNCHANGED clean
    BY <1>9 DEF TimePasses, Fault, NoFault
  <2> QED BY <1>2, <1>9, <2>1, TimePassesKeeps
<1>10. CASE SchedulerRestarts
  BY <1>10 DEF SchedulerRestarts, Fault
<1> QED BY <1>3, <1>4, <1>5, <1>6, <1>7, <1>8, <1>9, <1>10 DEF ClusterNext

\* A VM never runs twice, for any number of agents, VMs and incarnations, any mailbox
\* and any number of crashes: whatever order status, discovery, losses, expiries and
\* reconciliations take, as long as no request is lost or late and no live actor is
\* taken for dead.
THEOREM SingleCopy == ClusterSpec => []CleanSingleCopy
<1>1. ClusterInit => CleanInv
  BY CleanInit DEF CleanInv
<1>2. ClusterTyped /\ ClusterTyped' /\ CleanInv /\ [ClusterNext]_vars => CleanInv'
  BY CleanNext
<1>3. CleanInv => CleanSingleCopy
  <2>1. ASSUME CleanOK, NEW v \in VM
        PROVE  Cardinality(RunningOf(v)) <= 1
    <3>1. \A a, b \in RunningOf(v) : a = b
      BY <2>1 DEF CleanOK, SingleClaim, RunningOf
    <3>2. CASE RunningOf(v) = {}
      BY <3>2, FS_EmptySet
    <3>3. CASE RunningOf(v) # {}
      <4>1. PICK a : RunningOf(v) = {a}
        BY <3>1, <3>3
      <4> QED BY <4>1, FS_Singleton
    <3> QED BY <3>2, <3>3
  <2> QED BY <2>1 DEF CleanInv, CleanSingleCopy
<1> QED BY <1>1, <1>2, <1>3, ClusterTypes, PTL DEF ClusterSpec

-----------------------------------------------------------------------------
(* Capacity: the inductive invariant.                                      *)

\* The VMs with intent, and what a set of them asks for.
Wanted == {v \in VM : manifests[v] # None}
Asked(S) == Sum(manifests, S)

\* The VMs that run on an agent, and those that run or are about to.
RunningAt(x) == {v \in VM : RunsOn(v, x)}
ClaimsAt(x) == {v \in VM : RunsOn(v, x) \/ Requested(v, x)}

\* Every actor and every request of a VM has the size of its manifest.
SizesAgree(v) ==
    manifests[v] # None =>
        /\ \A a \in VmActor : VmOf[a] = v => sizeOf[a] \in {None, manifests[v]}
        /\ \A req \in inflight : req.vm = v => req.size = manifests[v]

\* An actor has no size before it is spawned.
UnbornUnsized == \A a \in VmActor : status[a] = "unborn" => sizeOf[a] = None

\* A VM that was deleted neither runs nor is about to.
DeletedIdle(v) == v \in deleted => \A x \in alive : ~RunsOn(v, x) /\ ~Requested(v, x)

\* A VM that runs and is not reported yet, or whose report is on its way, is not in
\* the index, and nothing else on its way is about it.
ReportedOnce(v, x) ==
    RunsOn(v, x) =>
        /\ v \in changed[x] => v \notin index[x] /\ \A i \in Positions : ~Adds(i, x, v)
        /\ \A i \in Positions : Adds(i, x, v) =>
              /\ v \notin index[x]
              /\ \A k \in Positions : k # i => ~Adds(k, x, v)
              /\ \A k \in Positions : i < k => ~Drops(k, x, v)

\* The VMs whose membership changed after the report at i was made.
ChangedSince(i, x) ==
    changed[x] \cup {v \in VM : \E k \in Positions : i < k /\ (Adds(k, x, v) \/ Drops(k, x, v))}

\* The usage that is cached counts the VMs that run and are in the index; the usage
\* of a report counts the VMs that run and have not changed since.
CacheCounts(x) ==
    agentCache[x] # None => Asked(RunningAt(x) \cap index[x]) <= agentCache[x].used
ReportsCount(x) ==
    \A i \in Positions : Report(i, x) =>
        Asked(RunningAt(x) \ ChangedSince(i, x)) <= mailbox[i].used

\* What runs on an agent or is about to fits it.
Fits(x) == Asked(ClaimsAt(x)) <= Capacity[x]

CapacityOK ==
    /\ IsFiniteSet(Wanted)
    /\ UnbornUnsized
    /\ \A v \in VM : SizesAgree(v) /\ DeletedIdle(v)
    /\ \A v \in VM, x \in alive : ReportedOnce(v, x)
    /\ \A x \in alive : CacheCounts(x) /\ ReportsCount(x) /\ Fits(x)

CapacityInv == clean => CapacityOK

-----------------------------------------------------------------------------
(* Sums of manifests.                                                      *)

\* What runs on a running agent or is requested of it is wanted.
LEMMA ClaimsWanted ==
    ASSUME ClusterTyped, CleanOK, CapacityOK, NEW x \in alive
    PROVE  ClaimsAt(x) \subseteq Wanted /\ RunningAt(x) \subseteq ClaimsAt(x)
<1>1. ASSUME NEW v \in VM, RunsOn(v, x) \/ Requested(v, x)
      PROVE  manifests[v] # None
  <2>1. FreshVM(v) /\ DeletedIdle(v) /\ x \in Agent
    BY DEF CleanOK, CapacityOK, ClusterTyped, AgentsOK
  <2>2. v \notin deleted
    BY <1>1, <2>1 DEF DeletedIdle
  <2> QED BY <1>1, <2>1, <2>2 DEF FreshVM, RunsOn
<1> QED BY <1>1 DEF ClaimsAt, RunningAt, Wanted

\* The manifests that are wanted are numbers.
LEMMA WantedSizes ==
    ASSUME ClusterTyped
    PROVE  \A v \in Wanted : manifests[v] \in Nat
  BY SchedSizeAssumption DEF ClusterTyped, SchedInv, SchedTypeOK, Wanted

\* Fewer VMs, with the manifests they had, ask for less.
LEMMA AskedLess ==
    ASSUME ClusterTyped, IsFiniteSet(Wanted), NEW S \in SUBSET Wanted, NEW P \in SUBSET S,
           \A v \in P : manifests'[v] = manifests[v]
    PROVE  Sum(manifests', P) <= Asked(S)
<1>1. IsFiniteSet(S)
  BY FS_Subset
<1>2. \A v \in S : manifests[v] \in Nat
  BY WantedSizes
<1> QED BY <1>1, <1>2, SumPart DEF Asked

\* What wanted VMs ask for is a number.
LEMMA AskedTyped ==
    ASSUME ClusterTyped, IsFiniteSet(Wanted), NEW S \in SUBSET Wanted
    PROVE  Asked(S) \in Nat /\ \A P \in SUBSET S : Asked(P) <= Asked(S)
<1>1. IsFiniteSet(S)
  BY FS_Subset
<1>2. \A v \in S : manifests[v] \in Nat
  BY WantedSizes
<1>3. Asked(S) \in Nat
  BY <1>1, <1>2, SumType DEF Asked
<1>4. \A P \in SUBSET S : Asked(P) <= Asked(S)
  BY <1>1, <1>2, SumMonotone DEF Asked
<1> QED BY <1>3, <1>4

\* The sizes of the actors that run on an agent are those of the VMs that run there,
\* and are part of the usage the agent reports.
LEMMA RunningCounted ==
    ASSUME ClusterTyped, CleanOK, CapacityOK, NEW x \in alive
    PROVE  /\ RunningSizeOn(x) = Asked(RunningAt(x))
           /\ Asked(RunningAt(x)) <= UsedOn(x)
<1> DEFINE R == {a \in Hosted(x) : status[a] = "running"}
<1>1. R \in SUBSET Hosted(x) /\ Hosted(x) \in SUBSET {a \in VmActor : Live(a)}
  BY DEF Hosted
<1>2. IsFiniteSet(Hosted(x)) /\ IsFiniteSet(R)
  <2>1. IsFiniteSet({a \in VmActor : Live(a)})
    BY DEF ClusterTyped, AgentsOK
  <2>2. IsFiniteSet(Hosted(x))
    BY <1>1, <2>1, FS_Subset
  <2> HIDE DEF R
  <2> QED BY <1>1, <2>2, FS_Subset
<1>3. {VmOf[a] : a \in R} = RunningAt(x)
  BY VmOfAssumption DEF RunningAt, RunsOn, Hosted, Live
<1>4. \A a \in Hosted(x) : sizeOf[a] \in Nat /\ sizeOf[a] # None /\ a \in VmActor
  BY SchedSizeAssumption DEF Hosted, ClusterTyped, AgentsOK
<1>5. RunningAt(x) \subseteq Wanted /\ IsFiniteSet(RunningAt(x))
  <2>1. RunningAt(x) \subseteq Wanted
    BY ClaimsWanted
  <2>2. IsFiniteSet(Wanted)
    BY DEF CapacityOK
  <2> QED BY <2>1, <2>2, FS_Subset
<1>6. ASSUME NEW a \in R
      PROVE  sizeOf[a] = manifests[VmOf[a]] /\ sizeOf[a] \in Nat
  <2>1. a \in Hosted(x) /\ VmOf[a] \in RunningAt(x)
    BY <1>3
  <2>2. VmOf[a] \in VM /\ manifests[VmOf[a]] # None
    BY <1>5, <2>1 DEF Wanted
  <2>3. SizesAgree(VmOf[a])
    BY <2>2 DEF CapacityOK
  <2> QED BY <1>4, <2>1, <2>2, <2>3 DEF SizesAgree
<1>7. \A a, b \in R : VmOf[a] = VmOf[b] => a = b
  <2>1. ASSUME NEW a \in R, NEW b \in R, VmOf[a] = VmOf[b]
        PROVE  a = b
    <3>1. a \in VmActor /\ b \in VmActor /\ VmOf[a] \in VM
      BY VmOfAssumption DEF Hosted
    <3>2. SingleClaim(VmOf[a])
      BY <3>1 DEF CleanOK
    <3> QED BY <2>1, <3>1, <3>2 DEF SingleClaim
  <2> QED BY <2>1
<1>8. RunningSizeOn(x) = Sum(sizeOf, R) /\ UsedOn(x) = Sum(sizeOf, Hosted(x))
  BY SumIsMapThenSum DEF RunningSizeOn, UsedOn
<1> HIDE DEF R
<1>9. Sum(sizeOf, R) = Sum(manifests, {VmOf[a] : a \in R})
  BY <1>2, <1>3, <1>5, <1>6, <1>7, SumRenamed
<1>10. Sum(sizeOf, R) <= Sum(sizeOf, Hosted(x))
  BY <1>1, <1>2, <1>4, SumMonotone
<1> QED BY <1>3, <1>8, <1>9, <1>10 DEF Asked

\* What an agent runs or is asked to run is counted by its cached usage or reserved.
LEMMA ClaimsCounted ==
    ASSUME ClusterTyped, CleanOK, CapacityOK, NEW x \in alive, agentCache[x] # None
    PROVE  /\ agentCache[x].used \in Nat /\ pending_resources[x] \in Nat
           /\ Asked(ClaimsAt(x)) <= agentCache[x].used + pending_resources[x]
<1> DEFINE Seen == RunningAt(x) \cap index[x]
           Kept == PendingVMs(manifests, placements, x)
<1>1. x \in Agent /\ IsFiniteSet(Wanted) /\ ClaimsAt(x) \in SUBSET Wanted
         /\ RunningAt(x) \in SUBSET Wanted
  BY ClaimsWanted DEF ClusterTyped, AgentsOK, CapacityOK
<1>2. Seen \in SUBSET Wanted /\ Kept \in SUBSET Wanted
  BY <1>1 DEF PendingVMs, Wanted
<1>3. ASSUME NEW v \in ClaimsAt(x)
      PROVE  v \in Seen \/ v \in Kept
  <2>1. v \in VM /\ manifests[v] # None /\ (RunsOn(v, x) \/ Requested(v, x))
    BY <1>1 DEF ClaimsAt, Wanted
  <2>2. Accounted(v, x)
    BY <2>1 DEF CleanOK
  <2>3. CASE v \in index[x]
    BY <2>1, <2>2, <2>3 DEF Accounted, RequestUnseen, RunningAt
  <2>4. CASE v \notin index[x]
    <3>1. PICK e \in placements[v] : e.agent = x
      BY <2>1, <2>2 DEF Accounted, EntryOn
    <3>2. e.lifecycle # "Running"
      BY <2>2, <2>4, <3>1 DEF Accounted, ConfirmedOn
    <3>3. e \in Entry
      BY <2>1, <3>1 DEF ClusterTyped, SchedInv, SchedTypeOK
    <3>4. e.lifecycle = "Pending"
      BY <3>2, <3>3 DEF Entry
    <3> QED BY <2>1, <3>1, <3>4 DEF PendingVMs
  <2> QED BY <2>3, <2>4
<1>4. pending_resources[x] = Asked(Kept)
  <2>1. pending_resources[x] = pending_resources_by_agent(manifests, placements)[x]
    BY DEF ClusterTyped, SchedInv, PendingCacheCoherent, pending_resources
  <2>2. pending_resources_by_agent(manifests, placements)[x]
            = MapThenSumSet(LAMBDA v : manifests[v], Kept)
    BY <1>1 DEF pending_resources_by_agent
  <2> QED BY <2>1, <2>2, SumIsMapThenSum DEF Asked
<1>5. agentCache[x].used \in Nat
  BY <1>1 DEF ClusterTyped, SchedInv, SchedTypeOK, AgentStatus
<1>6. Asked(Seen) <= agentCache[x].used
  BY DEF CapacityOK, CacheCounts
<1> HIDE DEF Seen, Kept
<1>7. IsFiniteSet(Seen) /\ IsFiniteSet(Kept)
  BY <1>1, <1>2, FS_Subset
<1>8. \A v \in Seen \cup Kept : manifests[v] \in Nat
  BY <1>2, WantedSizes
<1>9. ClaimsAt(x) \subseteq Seen \cup Kept
  BY <1>3
<1>10. Asked(ClaimsAt(x)) <= Asked(Seen) + Asked(Kept)
  BY <1>7, <1>8, <1>9, SumCovered DEF Asked
<1>11. Asked(Seen) \in Nat /\ Asked(Kept) \in Nat /\ Asked(ClaimsAt(x)) \in Nat
  BY <1>1, <1>2, AskedTyped
<1> QED BY <1>4, <1>5, <1>6, <1>10, <1>11

-----------------------------------------------------------------------------
(* Steps that add no claim and no report.                                  *)

\* What is known of a VM that runs on x stays when nothing is reported anew.
LEMMA ReportedKept ==
    ASSUME NEW v \in VM, NEW x \in Agent, ReportedOnce(v, x), NEW g, NEW new,
           Follows(g, new), \A m \in new : ~(m.type = "AgentUpdated" /\ m.id = x),
           RunsOn(v, x)' => RunsOn(v, x),
           RunsOn(v, x)' /\ v \in changed'[x] => v \in changed[x],
           v \in index'[x] => v \in index[x]
    PROVE  ReportedOnce(v, x)'
<1> SUFFICES ASSUME RunsOn(v, x)'
             PROVE  /\ v \in changed'[x] =>
                          v \notin index'[x] /\ \A i \in Positions' : ~Adds(i, x, v)'
                    /\ \A i \in Positions' : Adds(i, x, v)' =>
                          /\ v \notin index'[x]
                          /\ \A k \in Positions' : k # i => ~Adds(k, x, v)'
                          /\ \A k \in Positions' : i < k => ~Drops(k, x, v)'
  BY DEF ReportedOnce
<1>1. \A i \in Positions' : Adds(i, x, v)' => g[i] \in Positions /\ Adds(g[i], x, v)
  BY FollowsFacts DEF Adds, Report
<1>2. \A i \in Positions' : Drops(i, x, v)' => g[i] \in Positions /\ Drops(g[i], x, v)
  BY FollowsFacts DEF Drops, Report
<1>3. \A i, j \in Positions' :
          i < j /\ g[i] \in Positions /\ g[j] \in Positions => g[i] < g[j]
  BY FollowsFacts
<1>4. \A i, j \in Positions' : i # j => i < j \/ j < i
  BY DEF Positions
<1>5. \A i, j \in Positions : i < j => i # j
  BY DEF Positions
<1>6. v \in changed'[x] => v \notin index'[x] /\ \A i \in Positions' : ~Adds(i, x, v)'
  BY <1>1 DEF ReportedOnce
<1>7. ASSUME NEW i \in Positions', Adds(i, x, v)'
      PROVE  /\ v \notin index'[x]
             /\ \A k \in Positions' : k # i => ~Adds(k, x, v)'
             /\ \A k \in Positions' : i < k => ~Drops(k, x, v)'
  <2>1. g[i] \in Positions /\ Adds(g[i], x, v)
    BY <1>1, <1>7
  <2>2. /\ v \notin index[x]
        /\ \A k \in Positions : k # g[i] => ~Adds(k, x, v)
        /\ \A k \in Positions : g[i] < k => ~Drops(k, x, v)
    BY <2>1 DEF ReportedOnce
  <2>3. ASSUME NEW k \in Positions', k # i
        PROVE  ~Adds(k, x, v)'
    BY <1>1, <1>3, <1>4, <1>5, <2>1, <2>2, <2>3
  <2>4. ASSUME NEW k \in Positions', i < k
        PROVE  ~Drops(k, x, v)'
    BY <1>2, <1>3, <2>1, <2>2, <2>4
  <2> QED BY <2>2, <2>3, <2>4
<1> QED BY <1>6, <1>7

\* Nothing that has changed since a report is forgotten while the report waits.
LEMMA ChangedKept ==
    ASSUME NEW x \in Agent, NEW g, NEW new, Follows(g, new), changed[x] \subseteq changed'[x],
           NEW i \in Positions', g[i] \in Positions
    PROVE  ChangedSince(g[i], x) \subseteq ChangedSince(i, x)'
<1>1. ASSUME NEW v \in VM, NEW k \in Positions, g[i] < k, Adds(k, x, v) \/ Drops(k, x, v)
      PROVE  \E j \in Positions' : i < j /\ (Adds(j, x, v)' \/ Drops(j, x, v)')
  <2>1. PICK j \in Positions' : i < j /\ g[j] = k /\ mailbox'[j] = mailbox[k]
    BY <1>1, FollowsFacts
  <2>2. Adds(j, x, v)' \/ Drops(j, x, v)'
    BY <1>1, <2>1 DEF Adds, Drops, Report
  <2> QED BY <2>1, <2>2
<1> QED BY <1>1 DEF ChangedSince

\* The sums of an agent are kept when what is new fits and is not reported yet.
LEMMA CountsKept ==
    ASSUME ClusterTyped, CleanOK, CapacityOK, NEW x \in alive, NEW g, NEW new,
           Follows(g, new), \A m \in new : ~(m.type = "AgentUpdated" /\ m.id = x),
           \/ Fits(x)'
           \/ /\ ClaimsAt(x)' \subseteq ClaimsAt(x)
              /\ \A v \in ClaimsAt(x)' : manifests'[v] = manifests[v],
           RunningAt(x)' \cap index'[x] \subseteq RunningAt(x) \cap index[x],
           RunningAt(x)' \ changed'[x] \subseteq RunningAt(x),
           \A v \in RunningAt(x)' \cap RunningAt(x) : manifests'[v] = manifests[v],
           changed[x] \subseteq changed'[x], agentCache'[x] = agentCache[x]
    PROVE  CacheCounts(x)' /\ ReportsCount(x)' /\ Fits(x)'
<1>1. /\ x \in Agent /\ IsFiniteSet(Wanted) /\ ClaimsAt(x) \subseteq Wanted
      /\ RunningAt(x) \subseteq ClaimsAt(x)
  BY ClaimsWanted DEF ClusterTyped, AgentsOK, CapacityOK
<1>2. CacheCounts(x) /\ ReportsCount(x) /\ Fits(x)
  BY DEF CapacityOK
<1>3. ASSUME NEW S \in SUBSET ClaimsAt(x), NEW P \in SUBSET S,
             \A v \in P : manifests'[v] = manifests[v], NEW n \in Nat, Asked(S) <= n
      PROVE  Sum(manifests', P) <= n
  <2>1. Sum(manifests', P) <= Asked(S)
    <3>1. S \in SUBSET Wanted
      BY <1>1
    <3> QED BY <1>1, <1>3, <3>1, AskedLess
  <2>2. Asked(S) \in Nat
    BY <1>1, AskedTyped
  <2>3. Sum(manifests', P) \in Nat
    <3>1. P \in SUBSET Wanted /\ IsFiniteSet(P)
      BY <1>1, FS_Subset
    <3>2. \A v \in P : manifests'[v] \in Nat
      BY <1>3, <3>1, WantedSizes
    <3> QED BY <3>1, <3>2, SumType
  <2> QED BY <1>3, <2>1, <2>2, <2>3
<1>4. CacheCounts(x)'
  <2> SUFFICES ASSUME agentCache[x] # None
               PROVE  Sum(manifests', RunningAt(x)' \cap index'[x]) <= agentCache[x].used
    BY DEF CacheCounts, Asked
  <2>1. agentCache[x].used \in Nat
    BY <1>1 DEF ClusterTyped, SchedInv, SchedTypeOK, AgentStatus
  <2>2. Asked(RunningAt(x) \cap index[x]) <= agentCache[x].used
    BY <1>2 DEF CacheCounts
  <2> QED BY <1>1, <1>3, <2>1, <2>2
<1>5. ReportsCount(x)'
  <2> SUFFICES ASSUME NEW i \in Positions', Report(i, x)'
               PROVE  Sum(manifests', RunningAt(x)' \ ChangedSince(i, x)') <= mailbox'[i].used
    BY DEF ReportsCount, Asked
  <2>1. g[i] \in Positions /\ mailbox'[i] = mailbox[g[i]] /\ Report(g[i], x)
    BY FollowsFacts DEF Report
  <2>2. mailbox[g[i]].used \in Nat
    BY <2>1, MailFacts DEF ClusterTyped, Positions, Report
  <2>3. Asked(RunningAt(x) \ ChangedSince(g[i], x)) <= mailbox[g[i]].used
    BY <1>2, <2>1 DEF ReportsCount
  <2>4. ChangedSince(g[i], x) \subseteq ChangedSince(i, x)'
    BY <1>1, <2>1, ChangedKept
  <2>5. changed'[x] \subseteq ChangedSince(i, x)'
    BY DEF ChangedSince
  <2>6. RunningAt(x)' \ ChangedSince(i, x)' \subseteq RunningAt(x) \ ChangedSince(g[i], x)
    BY <2>4, <2>5
  <2> QED BY <1>1, <1>3, <2>1, <2>2, <2>3, <2>6
<1>6. Fits(x)'
  <2>1. ASSUME ClaimsAt(x)' \subseteq ClaimsAt(x),
               \A v \in ClaimsAt(x)' : manifests'[v] = manifests[v]
        PROVE  Sum(manifests', ClaimsAt(x)') <= Capacity[x]
    <3>1. Capacity[x] \in Nat /\ Asked(ClaimsAt(x)) <= Capacity[x]
      BY <1>1, <1>2, CapacityAssumption DEF Fits
    <3> QED BY <1>3, <2>1, <3>1
  <2> QED BY <2>1 DEF Fits, Asked
<1> QED BY <1>4, <1>5, <1>6

\* A step that only loses actors and requests, and that reports nothing, keeps the
\* invariant.
LEMMA FewerKeep ==
    ASSUME ClusterTyped, ClusterTyped', CleanOK, CapacityOK, NEW g, NEW new, Follows(g, new),
           \A m \in new : m.type # "AgentUpdated",
           alive' \subseteq alive, inflight' \subseteq inflight, UNCHANGED <<host, sizeOf>>,
           \A a \in VmActor : \/ status'[a] = status[a]
                              \/ Live(a) /\ status'[a] \in {"stopping", "dead"},
           \A v \in VM : \/ manifests'[v] = manifests[v]
                         \/ manifests'[v] = None /\ v \in deleted',
           \A v \in deleted' : \/ v \in deleted
                               \/ \A x \in alive : ~RunsOn(v, x)' /\ ~Requested(v, x)',
           \A x \in alive' : /\ index'[x] \subseteq index[x]
                             /\ agentCache'[x] = agentCache[x]
                             /\ changed[x] \subseteq changed'[x]
                             /\ \A v \in changed'[x] \ changed[x] : ~RunsOn(v, x)'
    PROVE  CapacityOK'
<1>1. alive \subseteq Agent /\ deleted' \subseteq VM
  BY DEF ClusterTyped, AgentsOK, RestOK
<1>2. \A v \in VM, x \in Agent : /\ RunsOn(v, x)' => RunsOn(v, x)
                                 /\ Requested(v, x)' => Requested(v, x)
  BY DEF RunsOn, Requested, Live
<1>3. \A v \in VM : DeletedIdle(v)'
  <2>1. ASSUME NEW v \in VM, v \in deleted', NEW x \in alive'
        PROVE  ~RunsOn(v, x)' /\ ~Requested(v, x)'
    <3>1. x \in alive /\ x \in Agent /\ DeletedIdle(v)
      BY <1>1 DEF CapacityOK
    <3> QED BY <1>2, <2>1, <3>1 DEF DeletedIdle
  <2> QED BY <2>1 DEF DeletedIdle
<1>4. IsFiniteSet(Wanted)'
  <2>1. Wanted' \subseteq Wanted
    BY DEF Wanted
  <2>2. IsFiniteSet(Wanted)
    BY DEF CapacityOK
  <2> QED BY <2>1, <2>2, FS_Subset
<1>5. UnbornUnsized'
  BY DEF CapacityOK, UnbornUnsized, Live
<1>6. ASSUME NEW v \in VM
      PROVE  SizesAgree(v)'
  <2>1. SizesAgree(v)
    BY DEF CapacityOK
  <2> QED BY <2>1 DEF SizesAgree
<1>7. ASSUME NEW v \in VM, NEW x \in alive'
      PROVE  ReportedOnce(v, x)'
  <2>1. x \in Agent /\ ReportedOnce(v, x)
    BY <1>1 DEF CapacityOK
  <2>2. RunsOn(v, x)' /\ v \in changed'[x] => v \in changed[x]
    OBVIOUS
  <2>3. v \in index'[x] => v \in index[x]
    OBVIOUS
  <2> QED BY <1>2, <2>1, <2>2, <2>3, ReportedKept
<1>8. ASSUME NEW x \in alive'
      PROVE  CacheCounts(x)' /\ ReportsCount(x)' /\ Fits(x)'
  <2>1. x \in alive /\ x \in Agent
    BY <1>1
  <2>2. ClaimsAt(x)' \subseteq ClaimsAt(x) /\ RunningAt(x)' \subseteq RunningAt(x)
           /\ RunningAt(x)' \subseteq ClaimsAt(x)'
    BY <1>2, <2>1 DEF ClaimsAt, RunningAt
  <2>3. \A v \in ClaimsAt(x)' : manifests'[v] = manifests[v]
    BY <1>3 DEF ClaimsAt, DeletedIdle
  <2>4. RunningAt(x)' \cap index'[x] \subseteq RunningAt(x) \cap index[x]
    BY <2>2
  <2> QED BY <2>1, <2>2, <2>3, <2>4, CountsKept
<1> QED BY <1>3, <1>4, <1>5, <1>6, <1>7, <1>8 DEF CapacityOK

\* The same for a step of the scheduler or of an updater.
LEMMA SchedulerSideKeeps ==
    ASSUME ClusterTyped, ClusterTyped', CleanOK, CapacityOK, NEW g, NEW new, Follows(g, new),
           \A m \in new : m.type # "AgentUpdated",
           UNCHANGED <<agentSide, inflight, deleted>>,
           \A v \in VM : manifests'[v] = manifests[v],
           \A x \in alive : index'[x] = index[x] /\ agentCache'[x] = agentCache[x]
    PROVE  CapacityOK'
<1>1. UNCHANGED <<alive, status, host, sizeOf, changed>>
  BY DEF agentSide
<1> QED BY <1>1, FewerKeep

\* Requests lost or answered as known, actors and agents that die: the VM of an actor
\* that dies does not run any more.
LEMMA AgentSideKeeps ==
    ASSUME ClusterTyped, ClusterTyped', CleanOK, CapacityOK,
           \/ \E req \in inflight : RequestLost(req)
           \/ \E req \in inflight, a \in VmActor :
                 AgentHandlesCreate(req, a) /\ UNCHANGED agentSide
           \/ \E a \in VmActor : VmActorDies(a)
           \/ \E x \in Agent : AgentDies(x)
    PROVE  CapacityOK'
<1>1. /\ UNCHANGED mailbox /\ inflight' \subseteq inflight /\ alive' \subseteq alive
      /\ UNCHANGED <<host, sizeOf, deleted, manifests, index, agentCache>>
  BY DEF RequestLost, AgentHandlesCreate, VmActorDies, AgentDies, schedVars, intentVars,
         agentSide, ghosts
<1>2. /\ status \in [VmActor -> {"unborn", "running", "stopping", "dead"}]
      /\ changed \in [Agent -> SUBSET VM] /\ alive \subseteq Agent
  BY DEF ClusterTyped, AgentsOK
<1>3. PICK g : Follows(g, {})
  BY <1>1, FollowsSame DEF ClusterTyped
<1>4. \A a \in VmActor : status'[a] = status[a] \/ (Live(a) /\ status'[a] = "dead")
  <2>1. ASSUME NEW b \in VmActor, VmActorDies(b)
        PROVE  \A a \in VmActor : status'[a] = status[a] \/ (Live(a) /\ status'[a] = "dead")
    BY <1>2, <2>1 DEF VmActorDies
  <2>2. ASSUME NEW x \in Agent, AgentDies(x)
        PROVE  \A a \in VmActor : status'[a] = status[a] \/ (Live(a) /\ status'[a] = "dead")
    BY <2>2 DEF AgentDies, Hosted
  <2>3. CASE UNCHANGED agentSide
    BY <2>3 DEF agentSide
  <2> QED BY <2>1, <2>2, <2>3 DEF RequestLost
<1>5. \A x \in alive' : /\ changed[x] \subseteq changed'[x]
                        /\ \A v \in changed'[x] \ changed[x] : ~RunsOn(v, x)'
  <2>1. CASE UNCHANGED changed
    BY <2>1
  <2>2. ASSUME NEW a \in VmActor, VmActorDies(a)
        PROVE  \A x \in alive' : /\ changed[x] \subseteq changed'[x]
                                 /\ \A v \in changed'[x] \ changed[x] : ~RunsOn(v, x)'
    <3> DEFINE v == VmOf[a]
    <3>1. /\ Live(a) /\ status' = [status EXCEPT ![a] = "dead"]
          /\ changed' = [changed EXCEPT ![host[a]] = @ \cup {v}]
      BY <2>2 DEF VmActorDies
    <3>2. v \in VM /\ SingleClaim(v) /\ DeletedVM(v) /\ DeletedIdle(v)
      BY VmOfAssumption DEF CleanOK, CapacityOK
    <3>3. \A x \in alive : ~RunsOn(v, x)'
      <4>1. CASE status[a] = "running"
        BY <1>1, <1>2, <3>1, <3>2, <4>1 DEF SingleClaim, RunsOn
      <4>2. CASE status[a] = "stopping"
        <5>1. \A x \in alive : ~RunsOn(v, x)
          BY <3>2, <4>2 DEF DeletedVM, DeletedIdle
        <5> QED BY <1>1, <1>2, <3>1, <5>1 DEF RunsOn
      <4> QED BY <3>1, <4>1, <4>2 DEF Live
    <3>4. \A x \in Agent : /\ changed[x] \subseteq changed'[x]
                           /\ \A w \in changed'[x] \ changed[x] : w = v
      BY <1>2, <3>1
    <3> QED BY <1>1, <1>2, <3>3, <3>4
  <2> QED BY <2>1, <2>2 DEF RequestLost, AgentDies, agentSide
<1> QED BY <1>1, <1>3, <1>4, <1>5, FewerKeep

\* A delete or a shutdown: the actor that is told is the only claim of its VM.
LEMMA ClientStopsKeeps ==
    ASSUME ClusterTyped, ClusterTyped', CleanOK, CapacityOK, NEW v \in VM, NEW a \in VmActor,
           ClientStops(v, a)
    PROVE  CapacityOK'
<1>1. /\ UNCHANGED <<alive, host, sizeOf, changed, mailbox, inflight, agentCache>>
      /\ manifests' = [manifests EXCEPT ![v] = None]
      /\ index' = [x \in Agent |-> index[x] \ {v}]
      /\ status' = [status EXCEPT ![a] = "stopping"]
      /\ deleted' = deleted \cup {v}
      /\ VmOf[a] = v /\ Live(a)
  BY DEF ClientStops, DeleteVM, ShutdownVM, remove_vm_intent, Registered
<1>2. /\ manifests \in [VM -> Size \cup {None}] /\ alive \subseteq Agent
      /\ status \in [VmActor -> {"unborn", "running", "stopping", "dead"}]
      /\ SingleClaim(v) /\ DeletedVM(v) /\ DeletedIdle(v)
  BY DEF ClusterTyped, AgentsOK, SchedInv, SchedTypeOK, CleanOK, CapacityOK
<1>3. PICK g : Follows(g, {})
  BY <1>1, FollowsSame DEF ClusterTyped
<1>4. ASSUME NEW x \in alive
      PROVE  ~RunsOn(v, x)' /\ ~Requested(v, x)'
  <2>1. CASE status[a] = "running"
    BY <1>1, <1>2, <2>1 DEF SingleClaim, RunsOn, Requested
  <2>2. CASE status[a] = "stopping"
    <3>1. ~RunsOn(v, x) /\ ~Requested(v, x)
      BY <1>1, <1>2, <2>2 DEF DeletedVM, DeletedIdle
    <3> QED BY <1>1, <1>2, <3>1 DEF RunsOn, Requested
  <2> QED BY <1>1, <2>1, <2>2 DEF Live
<1>5. \A b \in VmActor : status'[b] = status[b] \/ (Live(b) /\ status'[b] = "stopping")
  BY <1>1, <1>2
<1>6. \A w \in VM : manifests'[w] = manifests[w] \/ (manifests'[w] = None /\ w \in deleted')
  BY <1>1, <1>2
<1>7. \A x \in alive : index'[x] \subseteq index[x]
  BY <1>1, <1>2
<1> QED BY <1>1, <1>3, <1>4, <1>5, <1>6, <1>7, FewerKeep

\* Creates that come to nothing, reconciliations that place nothing, time, and
\* stuttering.
LEMMA NothingPlacedKeeps ==
    ASSUME ClusterTyped, ClusterTyped', CleanOK, CapacityOK, clean',
           \/ \E v \in VM, size \in Size : ClientRejected(v, size)
           \/ \E v \in VM, size \in Size, x \in Agent : ClientCreateRolledBack(v, size, x)
           \/ /\ \/ ReconcileStart
                 \/ \E v \in VM : \/ ReconcileSkips(v)
                                  \/ \E x \in Agent : ReconcileSendFails(v, x)
              /\ UNCHANGED <<outside, inflight, deleted>>
           \/ \E v \in VM : \E e \in placements[v] : TimePasses(v, e)
           \/ UNCHANGED vars
    PROVE  CapacityOK'
<1>1. /\ UNCHANGED <<mailbox, agentSide, inflight, deleted>>
      /\ UNCHANGED <<manifests, index, agentCache>>
  BY DEF ClientRejected, ClientCreateRolledBack, CreateVMRejected, CreateVMRolledBack,
         ReconcileStart, ReconcileSkips, ReconcileSendFails, TimePasses, Expire, outside,
         intentVars, schedVars, vars, ghosts, Fault, ClusterTyped, RestOK
<1>2. PICK g : Follows(g, {})
  BY <1>1, FollowsSame DEF ClusterTyped
<1> QED BY <1>1, <1>2, SchedulerSideKeeps

\* Discovery, the answers of VM actors, and losses.
LEMMA UpdatersKeep ==
    ASSUME ClusterTyped, ClusterTyped', CleanOK, CapacityOK, NEW id \in Agent \cup VmActor,
           \/ Discover(id)
           \/ id \in VmActor /\ VmUpdaterAnswers(id)
           \/ Lose(id)
    PROVE  CapacityOK'
<1>1. /\ UNCHANGED <<agentSide, inflight, deleted>>
      /\ UNCHANGED <<manifests, index, agentCache>> /\ MailOK
  BY DEF Discover, VmUpdaterAnswers, Lose, schedVars, intentVars, ghosts, ClusterTyped
<1>2. \E g, new : Follows(g, new) /\ \A m \in new : m.type # "AgentUpdated"
  <2>1. CASE Discover(id)
    <3>1. \E g : Follows(g, {})
      BY <1>1, <2>1, FollowsSame DEF Discover
    <3> QED BY <3>1
  <2>2. ASSUME NEW m \in Mails, m.type # "AgentUpdated", Tell(m) \/ Overtakes(m)
        PROVE  \E g, new : Follows(g, new) /\ \A n \in new : n.type # "AgentUpdated"
    <3>1. \E g : Follows(g, {m})
      BY <1>1, <2>2, FollowsTold
    <3> QED BY <2>2, <3>1
  <2>3. CASE id \in VmActor /\ VmUpdaterAnswers(id)
    <3>1. Mail("VmUpdated", id) \in Mails /\ Mail("VmUpdated", id).type = "VmUpdated"
      BY <2>3 DEF Mails, Mail
    <3> QED BY <2>2, <2>3, <3>1 DEF VmUpdaterAnswers
  <2>4. CASE Lose(id)
    <3>1. Mail("Lost", id) \in Mails /\ Mail("Lost", id).type = "Lost"
      BY DEF Mails, Mail
    <3> QED BY <2>2, <2>4, <3>1 DEF Lose
  <2> QED BY <2>1, <2>3, <2>4
<1> QED BY <1>1, <1>2, SchedulerSideKeeps

-----------------------------------------------------------------------------
(* The scheduler's mail.                                                   *)

\* A VM actor or an agent is lost.  No running agent is.
LEMMA LostKeeps ==
    ASSUME ClusterTyped, ClusterTyped', CleanOK, CapacityOK, HandleVmLost \/ HandleAgentLost
    PROVE  CapacityOK'
<1>1. /\ UNCHANGED <<agentSide, inflight, deleted, manifests>>
      /\ mailbox # <<>> /\ mailbox' = Tail(mailbox) /\ Head(mailbox).type = "Lost"
  BY DEF HandleVmLost, HandleAgentLost, Receive, VmLost, AgentLost, cleanup_vm_actor,
         cleanup_agent_actor, ghosts
<1>2. PICK g : Follows(g, {})
  BY <1>1, FollowsTaken DEF ClusterTyped
<1>3. \A x \in alive : index'[x] = index[x] /\ agentCache'[x] = agentCache[x]
  <2>1. CASE HandleVmLost
    BY <2>1 DEF HandleVmLost, VmLost, cleanup_vm_actor
  <2>2. CASE HandleAgentLost
    <3> DEFINE y == Head(mailbox).id
    <3>1. /\ agentCache' = [agentCache EXCEPT ![y] = None]
          /\ index' = [index EXCEPT ![y] = {}]
      BY <2>2 DEF HandleAgentLost, AgentLost, cleanup_agent_actor
    <3>2. mailbox[1].type = "Lost" /\ mailbox[1].id = y /\ 1 \in Positions
      BY <1>1, TakenFacts DEF ClusterTyped, MailOK, Positions
    <3>3. y \notin alive
      BY <3>2 DEF CleanOK, WatchedAgent
    <3>4. alive \subseteq Agent /\ agentCache \in [Agent -> AgentStatus \cup {None}]
             /\ index \in [Agent -> SUBSET VM]
      BY DEF ClusterTyped, AgentsOK, SchedInv, SchedTypeOK
    <3> QED BY <3>1, <3>3, <3>4
  <2> QED BY <2>1, <2>2
<1> QED BY <1>1, <1>2, <1>3, SchedulerSideKeeps

\* A VM actor answers: its manifest is the one the scheduler has.
LEMMA AnswerKeeps ==
    ASSUME ClusterTyped, ClusterTyped', CleanOK, CapacityOK, clean', HandleVmUpdated
    PROVE  CapacityOK'
<1> DEFINE a == Head(mailbox).id
           v == VmOf[a]
<1>1. /\ UNCHANGED <<agentSide, inflight, deleted, index, agentCache>>
      /\ mailbox # <<>> /\ mailbox' = Tail(mailbox) /\ Head(mailbox).type = "VmUpdated"
      /\ v \notin deleted
      /\ manifests' = manifests \/ (sizeOf[a] # None /\ manifests' = [manifests EXCEPT ![v] = sizeOf[a]])
  BY DEF HandleVmUpdated, Receive, VmUpdated
<1>2. PICK g : Follows(g, {})
  BY <1>1, FollowsTaken DEF ClusterTyped
<1>3. mailbox[1].type = "VmUpdated" /\ mailbox[1].id = a /\ 1 \in Positions
  BY <1>1, TakenFacts DEF ClusterTyped, MailOK, Positions
<1>4. a \in VmActor /\ v \in VM
  BY <1>3, MailFacts, VmOfAssumption DEF ClusterTyped, Positions
<1>5. manifests[v] # None
  BY <1>1, <1>3, <1>4 DEF CleanOK, FreshVM
<1>6. sizeOf[a] # None => sizeOf[a] = manifests[v]
  BY <1>4, <1>5 DEF CapacityOK, SizesAgree
<1>7. \A w \in VM : manifests'[w] = manifests[w]
  BY <1>1, <1>4, <1>6 DEF ClusterTyped, SchedInv, SchedTypeOK
<1> QED BY <1>1, <1>2, <1>7, SchedulerSideKeeps

\* The scheduler takes over a report: what runs and is in the index afterwards has not
\* changed since the report was made, so the report's usage counts it.
LEMMA AcceptKeeps ==
    ASSUME ClusterTyped, ClusterTyped', CleanOK, CapacityOK, NEW y \in Agent,
           1 \in Positions, Report(1, y), mailbox' = Tail(mailbox),
           UNCHANGED <<agentSide, inflight, deleted, manifests>>,
           index' \in [Agent -> SUBSET VM], agentCache' \in [Agent -> AgentStatus \cup {None}],
           index'[y] \subseteq index[y] \cup mailbox[1].added,
           agentCache'[y].used = mailbox[1].used,
           \A x \in Agent \ {y} : index'[x] = index[x] /\ agentCache'[x] = agentCache[x]
    PROVE  CapacityOK'
<1>1. UNCHANGED <<alive, status, host, sizeOf, changed>> /\ alive \subseteq Agent /\ MailOK
  BY DEF agentSide, ClusterTyped, AgentsOK
<1>2. mailbox # <<>>
  BY DEF Positions
<1>3. PICK g : Follows(g, {})
  BY <1>1, <1>2, FollowsTaken
<1>4. /\ Len(mailbox') = Len(mailbox) - 1 /\ Len(mailbox) \in Nat
      /\ \A i \in 1 .. Len(mailbox) - 1 : mailbox'[i] = mailbox[i + 1]
  BY <1>1, <1>2, TakenFacts DEF MailOK
<1>5. /\ \A v \in VM, x \in Agent : /\ RunsOn(v, x)' <=> RunsOn(v, x)
                                    /\ Requested(v, x)' <=> Requested(v, x)
      /\ \A x \in Agent : RunningAt(x)' = RunningAt(x) /\ ClaimsAt(x)' = ClaimsAt(x)
  <2>1. \A v \in VM, x \in Agent : /\ RunsOn(v, x)' <=> RunsOn(v, x)
                                   /\ Requested(v, x)' <=> Requested(v, x)
    BY <1>1 DEF RunsOn, Requested
  <2> QED BY <2>1 DEF RunningAt, ClaimsAt
<1>6. IsFiniteSet(Wanted)' /\ UnbornUnsized'
  BY <1>1 DEF CapacityOK, Wanted, UnbornUnsized
<1>7. \A v \in VM : SizesAgree(v)' /\ DeletedIdle(v)'
  BY <1>1, <1>5 DEF CapacityOK, SizesAgree, DeletedIdle
<1>8. ASSUME NEW v \in VM, NEW x \in alive
      PROVE  ReportedOnce(v, x)'
  <2>1. x \in Agent /\ ReportedOnce(v, x)
    BY <1>1 DEF CapacityOK
  <2>2. CASE x # y
    BY <1>1, <1>3, <1>5, <2>1, <2>2, ReportedKept
  <2>3. CASE x = y /\ RunsOn(v, y)
    <3>1. Adds(1, y, v) <=> v \in mailbox[1].added
      BY DEF Adds
    <3>2. \A i \in Positions' : /\ i + 1 \in Positions /\ i + 1 # 1
                                /\ mailbox'[i] = mailbox[i + 1]
      BY <1>4 DEF Positions
    <3>3. \A i \in Positions' : /\ Adds(i, y, v)' <=> Adds(i + 1, y, v)
                                /\ Drops(i, y, v)' <=> Drops(i + 1, y, v)
      BY <3>2 DEF Adds, Drops, Report
    <3>4. v \in changed[y] => v \notin index[y] /\ \A i \in Positions : ~Adds(i, y, v)
      BY <2>1, <2>3 DEF ReportedOnce
    <3>5. v \in changed[y] => v \notin index'[y] /\ \A i \in Positions' : ~Adds(i, y, v)'
      BY <3>1, <3>2, <3>3, <3>4
    <3>6. ASSUME NEW i \in Positions', Adds(i, y, v)'
          PROVE  /\ v \notin index'[y]
                 /\ \A k \in Positions' : k # i => ~Adds(k, y, v)'
                 /\ \A k \in Positions' : i < k => ~Drops(k, y, v)'
      <4>1. i + 1 \in Positions /\ i + 1 # 1 /\ Adds(i + 1, y, v)
        BY <3>2, <3>3, <3>6
      <4>2. /\ v \notin index[y]
            /\ \A k \in Positions : k # i + 1 => ~Adds(k, y, v)
            /\ \A k \in Positions : i + 1 < k => ~Drops(k, y, v)
        BY <2>1, <2>3, <4>1 DEF ReportedOnce
      <4>3. \A k \in Positions' : (k # i => k + 1 # i + 1) /\ (i < k => i + 1 < k + 1)
        BY DEF Positions
      <4> QED BY <3>1, <3>2, <3>3, <4>1, <4>2, <4>3
    <3> QED BY <1>1, <2>3, <3>5, <3>6 DEF ReportedOnce
  <2>4. CASE x = y /\ ~RunsOn(v, y)
    BY <1>5, <2>4 DEF ReportedOnce
  <2> QED BY <2>2, <2>3, <2>4
<1>9. ASSUME NEW x \in alive, x # y
      PROVE  CacheCounts(x)' /\ ReportsCount(x)' /\ Fits(x)'
  BY <1>1, <1>3, <1>5, <1>9, CountsKept
<1>10. ASSUME y \in alive
       PROVE  CacheCounts(y)' /\ ReportsCount(y)' /\ Fits(y)'
  <2>1. /\ IsFiniteSet(Wanted) /\ RunningAt(y) \subseteq Wanted
        /\ CacheCounts(y) /\ ReportsCount(y) /\ Fits(y)
    BY <1>10, ClaimsWanted DEF CapacityOK
  <2>2. ASSUME NEW v \in RunningAt(y), v \in index'[y]
        PROVE  v \notin ChangedSince(1, y)
    <3>1. v \in VM /\ RunsOn(v, y) /\ manifests[v] # None
      BY <2>1 DEF RunningAt, Wanted
    <3>2. ReportedOnce(v, y) /\ Accounted(v, y)
      BY <1>10, <3>1 DEF CapacityOK, CleanOK
    <3>3. CASE v \in index[y]
      <4>1. \A k \in Positions : ~Drops(k, y, v)
        BY <3>1, <3>2, <3>3 DEF Accounted, DropsStale
      <4> QED BY <3>1, <3>2, <3>3, <4>1 DEF ReportedOnce, ChangedSince
    <3>4. CASE Adds(1, y, v)
      <4>1. \A k \in Positions : 1 < k => k # 1
        BY DEF Positions
      <4> QED BY <3>1, <3>2, <3>4, <4>1 DEF ReportedOnce, ChangedSince
    <3> QED BY <2>2, <3>3, <3>4 DEF Adds
  <2>3. CacheCounts(y)'
    <3> DEFINE P == RunningAt(y) \cap index'[y]
               S == RunningAt(y) \ ChangedSince(1, y)
    <3>1. P \in SUBSET S /\ S \in SUBSET Wanted
      BY <2>1, <2>2
    <3>2. Asked(S) <= mailbox[1].used
      BY <2>1 DEF ReportsCount
    <3>3. (CacheCounts(y)' <=> (agentCache'[y] # None => Asked(P) <= mailbox[1].used))
      BY <1>5 DEF CacheCounts, Asked
    <3> HIDE DEF P, S
    <3>4. Asked(P) <= Asked(S) /\ Asked(S) \in Nat /\ Asked(P) \in Nat
      BY <2>1, <3>1, AskedTyped
    <3>5. mailbox[1].used \in Nat
      BY MailFacts DEF ClusterTyped, Positions, Report
    <3> QED BY <3>2, <3>3, <3>4, <3>5
  <2>4. ReportsCount(y)'
    <3> SUFFICES ASSUME NEW i \in Positions', Report(i, y)'
                 PROVE  Sum(manifests', RunningAt(y)' \ ChangedSince(i, y)') <= mailbox'[i].used
      BY DEF ReportsCount, Asked
    <3>1. g[i] \in Positions /\ mailbox'[i] = mailbox[g[i]]
      BY <1>3, FollowsOld
    <3>2. Report(g[i], y)
      BY <3>1 DEF Report
    <3>3. Asked(RunningAt(y) \ ChangedSince(g[i], y)) <= mailbox[g[i]].used
      BY <2>1, <3>1, <3>2 DEF ReportsCount
    <3>4. ChangedSince(g[i], y) \subseteq ChangedSince(i, y)'
      BY <1>1, <1>3, <3>1, ChangedKept
    <3> DEFINE P == RunningAt(y) \ ChangedSince(i, y)'
               S == RunningAt(y) \ ChangedSince(g[i], y)
    <3>5. P \in SUBSET S /\ S \in SUBSET Wanted
      BY <2>1, <3>4
    <3>6. mailbox[g[i]].used \in Nat /\ mailbox'[i].used = mailbox[g[i]].used
      BY <3>1, <3>2, MailFacts DEF ClusterTyped, Positions, Report
    <3>7. Asked(P) <= mailbox'[i].used
      <4>1. Asked(S) <= mailbox[g[i]].used
        BY <3>3
      <4> HIDE DEF P, S
      <4>2. Asked(P) <= Asked(S) /\ Asked(S) \in Nat /\ Asked(P) \in Nat
        BY <2>1, <3>5, AskedTyped
      <4>3. Asked(P) <= mailbox[g[i]].used
        BY <3>6, <4>1, <4>2
      <4> QED BY <3>6, <4>3, Zenon
    <3> QED BY <1>5, <3>7 DEF Asked
  <2>5. Fits(y)'
    BY <1>5, <2>1 DEF Fits, Asked
  <2> QED BY <2>3, <2>4, <2>5
<1> QED BY <1>1, <1>6, <1>7, <1>8, <1>9, <1>10 DEF CapacityOK

\* Every report the scheduler handles, and those it ignores.
LEMMA ReportKeeps ==
    ASSUME ClusterTyped, ClusterTyped', CleanOK, CapacityOK, HandleAgentUpdated
    PROVE  CapacityOK'
<1>1. /\ mailbox # <<>> /\ mailbox' = Tail(mailbox) /\ Head(mailbox).type = "AgentUpdated"
      /\ UNCHANGED <<agentSide, inflight, deleted>>
  BY DEF HandleAgentUpdated, Receive, ghosts
<1>2. Head(mailbox) = mailbox[1] /\ 1 \in Positions /\ 1 \in 1 .. Len(mailbox)
  BY <1>1, TakenFacts DEF ClusterTyped, MailOK, Positions
<1>3. PICK y \in Agent, added \in SUBSET VM, removed \in SUBSET VM, used \in Nat :
          /\ y = mailbox[1].id /\ added = mailbox[1].added
          /\ removed = mailbox[1].removed /\ used = mailbox[1].used
  <2>1. /\ mailbox[1].id \in Agent /\ mailbox[1].used \in Nat
        /\ mailbox[1].added \in SUBSET VM /\ mailbox[1].removed \in SUBSET VM
    BY <1>1, <1>2, MailFacts DEF ClusterTyped
  <2> QED BY <2>1
<1>4. Report(1, y)
  BY <1>1, <1>2, <1>3 DEF Report
<1>5. \/ AgentUpdatedFull(y, added, used)
      \/ AgentUpdatedDelta(y, added, removed, used)
      \/ UNCHANGED schedVars
  BY <1>2, <1>3 DEF HandleAgentUpdated
<1>6. /\ index \in [Agent -> SUBSET VM] /\ index' \in [Agent -> SUBSET VM]
      /\ agentCache \in [Agent -> AgentStatus \cup {None}]
      /\ agentCache' \in [Agent -> AgentStatus \cup {None}]
  BY DEF ClusterTyped, SchedInv, SchedTypeOK
<1>7. CASE AgentUpdatedFull(y, added, used)
  <2>1. /\ UNCHANGED manifests
        /\ agentCache' = [agentCache EXCEPT ![y] = [vms |-> added, used |-> used]]
        /\ index' = [index EXCEPT ![y] = added]
    BY <1>7 DEF AgentUpdatedFull
  <2>2. /\ index'[y] = added /\ agentCache'[y].used = used
        /\ \A x \in Agent \ {y} : index'[x] = index[x] /\ agentCache'[x] = agentCache[x]
    BY <1>6, <2>1
  <2> QED BY <1>1, <1>2, <1>3, <1>4, <1>6, <2>1, <2>2, AcceptKeeps
<1>8. CASE AgentUpdatedDelta(y, added, removed, used)
  <2>1. /\ UNCHANGED manifests
        /\ agentCache' = [agentCache EXCEPT ![y] =
               [vms |-> (agentCache[y].vms \ removed) \cup added, used |-> used]]
        /\ index' = [index EXCEPT ![y] = (index[y] \cup added) \ removed]
    BY <1>8 DEF AgentUpdatedDelta
  <2>2. /\ index'[y] = (index[y] \cup added) \ removed /\ agentCache'[y].used = used
        /\ \A x \in Agent \ {y} : index'[x] = index[x] /\ agentCache'[x] = agentCache[x]
    BY <1>6, <2>1
  <2>3. index'[y] \subseteq index[y] \cup added
    BY <2>2
  <2> QED BY <1>1, <1>2, <1>3, <1>4, <1>6, <2>1, <2>2, <2>3, AcceptKeeps
<1>9. CASE UNCHANGED schedVars
  <2>1. PICK g : Follows(g, {})
    BY <1>1, FollowsTaken DEF ClusterTyped
  <2>2. UNCHANGED <<manifests, index, agentCache>>
    BY <1>9 DEF schedVars, intentVars
  <2> QED BY <1>1, <2>1, <2>2, SchedulerSideKeeps
<1> QED BY <1>5, <1>7, <1>8, <1>9

-----------------------------------------------------------------------------
(* Reports, dispatches and creates.                                        *)

\* What a poll tells: the usage, and the hosted VMs that have changed.
LEMMA PollTells ==
    ASSUME ClusterTyped, NEW y \in Agent, AgentUpdaterPolls(y)
    PROVE  \E m \in Mails :
               /\ Tell(m) /\ m.type = "AgentUpdated" /\ m.id = y /\ m.used = UsedOn(y)
               /\ m.removed \cap HostedVMs(y) = {}
               /\ watch[y] # "first" => m.added = changed[y] \cap HostedVMs(y)
<1> DEFINE full == watch[y] = "first"
           added == IF full THEN HostedVMs(y) ELSE changed[y] \cap HostedVMs(y)
           removed == IF full THEN {} ELSE changed[y] \ HostedVMs(y)
           m == [type |-> "AgentUpdated", id |-> y, full |-> full,
                 revision |-> revision[y], used |-> UsedOn(y),
                 added |-> added, removed |-> removed]
<1>1. Tell(m)
  BY DEF AgentUpdaterPolls
<1>2. HostedVMs(y) \subseteq VM
  BY VmOfAssumption DEF HostedVMs, Hosted
<1>3. /\ added \in SUBSET VM /\ removed \in SUBSET VM /\ removed \cap HostedVMs(y) = {}
      /\ ~full => added = changed[y] \cap HostedVMs(y)
  BY <1>2 DEF ClusterTyped, AgentsOK
<1>4. revision[y] \in Nat /\ UsedOn(y) \in Nat
  BY UsedTyped DEF ClusterTyped, AgentsOK
<1>5. full \in BOOLEAN /\ (~full <=> watch[y] # "first")
  OBVIOUS
<1> HIDE DEF added, removed, full
<1>6. m \in Mails
  BY <1>3, <1>4, <1>5 DEF Mails
<1>7. m.type = "AgentUpdated" /\ m.id = y /\ m.used = UsedOn(y) /\ m.added = added
         /\ m.removed = removed
  OBVIOUS
<1> HIDE DEF m
<1> QED BY <1>1, <1>3, <1>5, <1>6, <1>7

\* An agent that has yet to report runs nothing: nothing was placed on it.
LEMMA NothingRunsAtFirst ==
    ASSUME ClusterTyped, CleanOK, CapacityOK, NEW y \in alive, NEW v \in RunningAt(y)
    PROVE  watch[y] # "first"
<1>1. v \in VM /\ RunsOn(v, y) /\ manifests[v] # None
  BY ClaimsWanted DEF RunningAt, Wanted
<1>2. EntryOn(v, y)
  BY <1>1 DEF CleanOK, Accounted
<1> QED BY <1>1, <1>2 DEF CleanOK, WatchedAgent

\* A poll: what has changed since the last one is in the report, and the usage in it
\* counts everything that runs.
LEMMA PollKeepsCounts ==
    ASSUME ClusterTyped, ClusterTyped', CleanOK, CapacityOK, NEW y \in Agent,
           AgentUpdaterPolls(y)
    PROVE  CapacityOK'
<1>1. PICK m \in Mails :
          /\ Tell(m) /\ m.type = "AgentUpdated" /\ m.id = y /\ m.used = UsedOn(y)
          /\ m.removed \cap HostedVMs(y) = {}
          /\ watch[y] # "first" => m.added = changed[y] \cap HostedVMs(y)
  BY PollTells
<1>2. /\ UNCHANGED <<alive, host, status, sizeOf, manifests, index, agentCache, inflight,
                     deleted>>
      /\ changed' = [changed EXCEPT ![y] = {}]
      /\ y \in alive /\ alive \subseteq Agent /\ MailOK
      /\ changed \in [Agent -> SUBSET VM]
  BY DEF AgentUpdaterPolls, schedVars, intentVars, ghosts, ClusterTyped, AgentsOK
<1>3. PICK g : Follows(g, {m})
  BY <1>1, <1>2, FollowsTold
<1>4. PICK n \in Nat : /\ n = Len(mailbox) /\ Len(mailbox') = n + 1
                       /\ \A i \in 1 .. n : mailbox'[i] = mailbox[i]
                       /\ mailbox'[n + 1] = m
  BY <1>1, <1>2, ToldFacts DEF MailOK
<1>5. /\ \A v \in VM, x \in Agent : /\ RunsOn(v, x)' <=> RunsOn(v, x)
                                    /\ Requested(v, x)' <=> Requested(v, x)
      /\ \A x \in Agent : RunningAt(x)' = RunningAt(x) /\ ClaimsAt(x)' = ClaimsAt(x)
  <2>1. \A v \in VM, x \in Agent : /\ RunsOn(v, x)' <=> RunsOn(v, x)
                                   /\ Requested(v, x)' <=> Requested(v, x)
    BY <1>2 DEF RunsOn, Requested
  <2> QED BY <2>1 DEF RunningAt, ClaimsAt
<1>6. IsFiniteSet(Wanted)' /\ UnbornUnsized'
  BY <1>2 DEF CapacityOK, Wanted, UnbornUnsized
<1>7. \A v \in VM : SizesAgree(v)' /\ DeletedIdle(v)'
  BY <1>2, <1>5 DEF CapacityOK, SizesAgree, DeletedIdle
<1>8. /\ \A i \in Positions' : i \in Positions \/ i = n + 1
      /\ \A i \in Positions : i \in Positions' /\ i < n + 1 /\ mailbox'[i] = mailbox[i]
      /\ n + 1 \in Positions' /\ \A i \in Positions' : ~(n + 1 < i)
  BY <1>4 DEF Positions
<1>9. changed'[y] = {} /\ \A x \in Agent \ {y} : changed'[x] = changed[x]
  BY <1>2
<1>10. ASSUME NEW v \in VM, RunsOn(v, y)
       PROVE  (Adds(n + 1, y, v)' <=> v \in changed[y]) /\ ~Drops(n + 1, y, v)'
  <2>1. v \in HostedVMs(y)
    BY <1>10 DEF RunsOn, HostedVMs, Hosted, Live
  <2>2. watch[y] # "first"
    BY <1>2, <1>10, NothingRunsAtFirst DEF RunningAt
  <2> QED BY <1>1, <1>4, <2>1, <2>2 DEF Adds, Drops, Report
<1>11. \A v \in VM, i \in Positions : /\ Adds(i, y, v)' <=> Adds(i, y, v)
                                      /\ Drops(i, y, v)' <=> Drops(i, y, v)
  BY <1>8 DEF Adds, Drops, Report
<1>12. ASSUME NEW v \in VM, NEW x \in alive
       PROVE  ReportedOnce(v, x)'
  <2>1. x \in Agent /\ ReportedOnce(v, x)
    BY <1>2 DEF CapacityOK
  <2>2. CASE x # y
    BY <1>1, <1>2, <1>3, <1>5, <1>9, <2>1, <2>2, ReportedKept
  <2>3. CASE x = y /\ RunsOn(v, y)
    <3>1. ASSUME NEW i \in Positions', Adds(i, y, v)'
          PROVE  /\ v \notin index[y]
                 /\ \A k \in Positions' : k # i => ~Adds(k, y, v)'
                 /\ \A k \in Positions' : i < k => ~Drops(k, y, v)'
      <4>1. CASE i \in Positions
        <5>1. /\ v \notin index[y] /\ v \notin changed[y]
              /\ \A k \in Positions : k # i => ~Adds(k, y, v)
              /\ \A k \in Positions : i < k => ~Drops(k, y, v)
          BY <1>11, <2>1, <2>3, <3>1, <4>1 DEF ReportedOnce
        <5> QED BY <1>8, <1>10, <1>11, <2>3, <5>1
      <4>2. CASE i = n + 1
        <5>1. v \in changed[y]
          BY <1>10, <2>3, <3>1, <4>2
        <5>2. v \notin index[y] /\ \A k \in Positions : ~Adds(k, y, v)
          BY <2>1, <2>3, <5>1 DEF ReportedOnce
        <5> QED BY <1>8, <1>11, <4>2, <5>2
      <4> QED BY <1>8, <4>1, <4>2
    <3> QED BY <1>2, <1>9, <2>3, <3>1 DEF ReportedOnce
  <2>4. CASE x = y /\ ~RunsOn(v, y)
    BY <1>5, <2>4 DEF ReportedOnce
  <2> QED BY <2>2, <2>3, <2>4
<1>13. ASSUME NEW x \in alive, x # y
       PROVE  CacheCounts(x)' /\ ReportsCount(x)' /\ Fits(x)'
  BY <1>1, <1>2, <1>3, <1>5, <1>9, <1>13, CountsKept
<1>14. CacheCounts(y)' /\ ReportsCount(y)' /\ Fits(y)'
  <2>1. /\ IsFiniteSet(Wanted) /\ RunningAt(y) \in SUBSET Wanted
        /\ CacheCounts(y) /\ ReportsCount(y) /\ Fits(y)
    BY <1>2, ClaimsWanted DEF CapacityOK
  <2>2. CacheCounts(y)' /\ Fits(y)'
    BY <1>2, <1>5, <2>1 DEF CacheCounts, Fits, Asked
  <2>3. ReportsCount(y)'
    <3> SUFFICES ASSUME NEW i \in Positions', Report(i, y)'
                 PROVE  Sum(manifests', RunningAt(y)' \ ChangedSince(i, y)') <= mailbox'[i].used
      BY DEF ReportsCount, Asked
    <3> DEFINE P == RunningAt(y) \ ChangedSince(i, y)'
    <3>1. CASE i \in Positions
      <4> DEFINE S == RunningAt(y) \ ChangedSince(i, y)
      <4>1. Asked(S) <= mailbox[i].used /\ mailbox'[i].used = mailbox[i].used
        BY <1>8, <2>1, <3>1 DEF ReportsCount, Report
      <4>2. ASSUME NEW v \in RunningAt(y), v \in ChangedSince(i, y)
            PROVE  v \in ChangedSince(i, y)'
        <5>1. v \in VM /\ RunsOn(v, y)
          BY DEF RunningAt
        <5>2. CASE v \in changed[y]
          BY <1>8, <1>10, <3>1, <5>1, <5>2 DEF ChangedSince
        <5>3. ASSUME NEW k \in Positions, i < k, Adds(k, y, v) \/ Drops(k, y, v)
              PROVE  v \in ChangedSince(i, y)'
          BY <1>8, <1>11, <5>1, <5>3 DEF ChangedSince
        <5> QED BY <4>2, <5>2, <5>3 DEF ChangedSince
      <4>3. P \in SUBSET S /\ S \in SUBSET Wanted
        BY <2>1, <4>2
      <4>4. mailbox[i].used \in Nat
        BY <1>2, <1>8, <3>1, MailFacts DEF Positions, Report
      <4>5. Asked(P) <= mailbox'[i].used
        <5> HIDE DEF P, S
        <5>1. Asked(P) <= Asked(S) /\ Asked(S) \in Nat /\ Asked(P) \in Nat
          BY <2>1, <4>3, AskedTyped
        <5> QED BY <4>1, <4>4, <5>1
      <4> QED BY <1>2, <1>5, <4>5 DEF Asked
    <3>2. CASE i = n + 1
      <4>1. mailbox'[i].used = UsedOn(y)
        BY <1>1, <1>4, <3>2
      <4>2. Asked(RunningAt(y)) <= UsedOn(y) /\ UsedOn(y) \in Nat
        BY <1>2, RunningCounted, UsedTyped DEF ClusterTyped
      <4>3. P \in SUBSET RunningAt(y)
        OBVIOUS
      <4>4. Asked(P) <= mailbox'[i].used
        <5> HIDE DEF P
        <5>1. Asked(P) <= Asked(RunningAt(y)) /\ Asked(RunningAt(y)) \in Nat
                 /\ Asked(P) \in Nat
          BY <2>1, <4>3, AskedTyped
        <5> QED BY <4>1, <4>2, <5>1
      <4> QED BY <1>2, <1>5, <4>4 DEF Asked
    <3> QED BY <1>8, <3>1, <3>2
  <2> QED BY <2>2, <2>3
<1> QED BY <1>2, <1>6, <1>7, <1>12, <1>13, <1>14 DEF CapacityOK

\* An agent that is chosen for a request has room for it beside its claims.
LEMMA ChosenHasRoom ==
    ASSUME ClusterTyped, CleanOK, CapacityOK, NEW x \in alive, NEW size \in Size,
           x \in schedule_agent(size)
    PROVE  Asked(ClaimsAt(x)) \in Nat /\ Asked(ClaimsAt(x)) + size <= Capacity[x]
<1>1. x \in Agent /\ agentCache[x] # None
  BY ScheduledIsCached
<1>2. agentCache[x].used + pending_resources[x] + size <= Capacity[x]
  BY DEF schedule_agent, has_capacity
<1>3. /\ agentCache[x].used \in Nat /\ pending_resources[x] \in Nat
      /\ Asked(ClaimsAt(x)) <= agentCache[x].used + pending_resources[x]
  BY <1>1, ClaimsCounted
<1>4. size \in Nat /\ Capacity[x] \in Nat
  BY <1>1, SchedSizeAssumption, CapacityAssumption
<1>5. Asked(ClaimsAt(x)) \in Nat
  BY AskedTyped, ClaimsWanted DEF CapacityOK
<1> QED BY <1>2, <1>3, <1>4, <1>5

\* So that it still fits with the claim of the VM it was chosen for.
LEMMA FitsAdded ==
    ASSUME ClusterTyped, CleanOK, CapacityOK, NEW x \in alive, NEW size \in Size, NEW v \in VM,
           x \in schedule_agent(size), v \notin ClaimsAt(x),
           ClaimsAt(x)' \subseteq ClaimsAt(x) \cup {v}, manifests'[v] = size,
           \A w \in VM \ {v} : manifests'[w] = manifests[w]
    PROVE  Fits(x)'
<1>1. IsFiniteSet(Wanted) /\ ClaimsAt(x) \in SUBSET Wanted /\ x \in Agent
  BY ClaimsWanted DEF CapacityOK, ClusterTyped, AgentsOK
<1>2. IsFiniteSet(ClaimsAt(x))
  BY <1>1, FS_Subset
<1>3. IsFiniteSet(ClaimsAt(x) \cup {v})
  BY <1>2, FS_AddElement
<1>4. Asked(ClaimsAt(x)) \in Nat /\ Asked(ClaimsAt(x)) + size <= Capacity[x]
  BY ChosenHasRoom
<1>5. size \in Nat /\ Capacity[x] \in Nat
  BY <1>1, SchedSizeAssumption, CapacityAssumption
<1>6. \A w \in ClaimsAt(x) : manifests'[w] = manifests[w] /\ manifests'[w] \in Nat
  BY <1>1, WantedSizes DEF Wanted
<1>7. \A w \in ClaimsAt(x) \cup {v} : manifests'[w] \in Nat
  BY <1>5, <1>6
<1>8. Sum(manifests', ClaimsAt(x)) = Asked(ClaimsAt(x))
  BY <1>2, <1>6, SumSame DEF Asked
<1>9. Sum(manifests', ClaimsAt(x) \cup {v}) = size + Sum(manifests', ClaimsAt(x))
  BY <1>2, <1>7, SumAdd
<1>10. Sum(manifests', ClaimsAt(x)') <= Sum(manifests', ClaimsAt(x) \cup {v})
  BY <1>3, <1>7, SumMonotone
<1>11. Sum(manifests', ClaimsAt(x)') \in Nat
  <2>1. IsFiniteSet(ClaimsAt(x)')
    BY <1>3, FS_Subset
  <2> QED BY <1>7, <2>1, SumType
<1>12. Sum(manifests', ClaimsAt(x)') <= Capacity[x]
  BY <1>4, <1>5, <1>8, <1>9, <1>10, <1>11
<1> QED BY <1>12 DEF Fits, Asked

\* A dispatch: the VM has no claim, and the agent was chosen for its size.
LEMMA DispatchFits ==
    ASSUME ClusterTyped, ClusterTyped', CleanOK, CapacityOK, NEW v \in VM, NEW x \in Agent,
           ReconcileDispatches(v, x),
           inflight' = inflight \cup {[agent |-> x, vm |-> v, size |-> manifests[v]]},
           UNCHANGED <<outside, deleted>>
    PROVE  CapacityOK'
<1>1. /\ UNCHANGED <<alive, host, status, sizeOf, changed, mailbox, manifests, agentCache,
                     index>>
      /\ v \in todo /\ x \in schedule_agent(manifests[v])
      /\ alive \subseteq Agent /\ MailOK
  BY DEF ReconcileDispatches, outside, agentSide, ClusterTyped, AgentsOK
<1>2. manifests[v] # None /\ placements[v] = {}
  BY <1>1 DEF ClusterTyped, SchedInv, TodoUnplaced
<1>3. manifests[v] \in Size
  BY <1>2 DEF ClusterTyped, SchedInv, SchedTypeOK
<1>4. \A y \in alive : ~Requested(v, y) /\ ~RunsOn(v, y)
  BY <1>2, UnplacedUnclaimed
<1>5. v \notin deleted
  BY <1>2 DEF CleanOK, DeletedVM
<1> DEFINE new == [agent |-> x, vm |-> v, size |-> manifests[v]]
<1>6. new.agent = x /\ new.vm = v /\ new.size = manifests[v] /\ inflight' = inflight \cup {new}
  OBVIOUS
<1> HIDE DEF new
<1>7. /\ \A w \in VM, y \in Agent : w # v \/ y # x => (Requested(w, y)' => Requested(w, y))
      /\ \A w \in VM, y \in Agent : RunsOn(w, y)' <=> RunsOn(w, y)
      /\ \A y \in Agent : RunningAt(y)' = RunningAt(y)
      /\ \A y \in Agent : y # x => ClaimsAt(y)' \subseteq ClaimsAt(y)
      /\ ClaimsAt(x)' \subseteq ClaimsAt(x) \cup {v}
  <2>1. \A w \in VM, y \in Agent : w # v \/ y # x => (Requested(w, y)' => Requested(w, y))
    BY <1>6 DEF Requested
  <2>2. \A w \in VM, y \in Agent : RunsOn(w, y)' <=> RunsOn(w, y)
    BY <1>1 DEF RunsOn
  <2> QED BY <2>1, <2>2 DEF RunningAt, ClaimsAt
<1>8. PICK g : Follows(g, {})
  BY <1>1, FollowsSame
<1>9. IsFiniteSet(Wanted)' /\ UnbornUnsized'
  BY <1>1 DEF CapacityOK, Wanted, UnbornUnsized
<1>10. ASSUME NEW w \in VM
       PROVE  SizesAgree(w)' /\ DeletedIdle(w)'
  <2>1. SizesAgree(w) /\ DeletedIdle(w)
    BY DEF CapacityOK
  <2>2. SizesAgree(w)'
    BY <1>1, <1>6, <2>1 DEF SizesAgree
  <2>3. DeletedIdle(w)'
    BY <1>1, <1>5, <1>7, <2>1 DEF DeletedIdle
  <2> QED BY <2>2, <2>3
<1>11. ASSUME NEW w \in VM, NEW y \in alive
       PROVE  ReportedOnce(w, y)'
  <2>1. y \in Agent /\ ReportedOnce(w, y)
    BY <1>1 DEF CapacityOK
  <2> QED BY <1>1, <1>7, <1>8, <2>1, ReportedKept
<1>12. ASSUME NEW y \in alive
       PROVE  CacheCounts(y)' /\ ReportsCount(y)' /\ Fits(y)'
  <2>1. y \in Agent
    BY <1>1
  <2>2. ASSUME y = x
        PROVE  Fits(y)'
    <3>1. v \notin ClaimsAt(x) /\ x \in alive
      BY <1>4, <1>12, <2>2 DEF ClaimsAt
    <3>2. manifests'[v] = manifests[v] /\ \A w \in VM \ {v} : manifests'[w] = manifests[w]
      BY <1>1
    <3> QED BY <1>1, <1>3, <1>7, <2>2, <3>1, <3>2, FitsAdded
  <2>3. y # x => ClaimsAt(y)' \subseteq ClaimsAt(y)
    BY <1>7, <2>1
  <2> QED BY <1>1, <1>7, <1>8, <2>1, <2>2, <2>3, CountsKept
<1> QED BY <1>1, <1>9, <1>10, <1>11, <1>12 DEF CapacityOK

\* A new actor of a VM that nothing claims elsewhere: the agent fits it, and has yet
\* to report it.
LEMMA SpawnFits ==
    ASSUME ClusterTyped, ClusterTyped', CleanOK, CapacityOK, NEW x \in alive, NEW v \in VM,
           NEW size \in Size, NEW a \in VmActor, Spawn(x, v, size, a),
           UNCHANGED <<mailbox, index, agentCache, deleted>>, inflight' \subseteq inflight,
           v \notin deleted, v \notin index[x], \A i \in Positions : ~Adds(i, x, v),
           \A w \in VM \ {v} : manifests'[w] = manifests[w], manifests'[v] = size,
           \A b \in VmActor : VmOf[b] = v => /\ sizeOf[b] \in {None, size}
                                             /\ status[b] # "running",
           \A req \in inflight' : req.vm = v => req.size = size,
           \A y \in alive \ {x} : ~Requested(v, y)',
           Fits(x)'
    PROVE  CapacityOK'
<1>1. /\ VmOf[a] = v /\ alive' = alive /\ status'[a] = "running" /\ host'[a] = x
      /\ \A b \in VmActor \ {a} : status'[b] = status[b] /\ host'[b] = host[b]
      /\ \A w \in VM, y \in Agent : w # v \/ y # x => (RunsOn(w, y)' => RunsOn(w, y))
  BY SpawnFacts
<1>2. /\ alive \subseteq Agent /\ x \in Agent /\ MailOK
      /\ changed \in [Agent -> SUBSET VM] /\ sizeOf \in [VmActor -> Size \cup {None}]
  BY DEF ClusterTyped, AgentsOK
<1>3. /\ sizeOf'[a] = size /\ \A b \in VmActor \ {a} : sizeOf'[b] = sizeOf[b]
      /\ changed'[x] = changed[x] \cup {v}
      /\ \A y \in Agent \ {x} : changed'[y] = changed[y]
  BY <1>2 DEF Spawn
<1>4. /\ \A w \in VM, y \in Agent : Requested(w, y)' => Requested(w, y)
      /\ \A y \in Agent : ~RunsOn(v, y)
  BY DEF Requested, RunsOn
<1>5. /\ \A y \in Agent : v \notin RunningAt(y)
      /\ \A y \in Agent : y # x => /\ RunningAt(y)' \subseteq RunningAt(y)
                                   /\ ClaimsAt(y)' \subseteq ClaimsAt(y)
      /\ RunningAt(x)' \subseteq RunningAt(x) \cup {v}
  <2>1. \A y \in Agent : v \notin RunningAt(y)
    BY <1>4 DEF RunningAt
  <2>2. ASSUME NEW y \in Agent, y # x
        PROVE  RunningAt(y)' \subseteq RunningAt(y) /\ ClaimsAt(y)' \subseteq ClaimsAt(y)
    BY <1>1, <1>4, <2>2 DEF RunningAt, ClaimsAt
  <2>3. RunningAt(x)' \subseteq RunningAt(x) \cup {v}
    BY <1>1, <1>2 DEF RunningAt
  <2> QED BY <2>1, <2>2, <2>3
<1>6. PICK g : Follows(g, {})
  BY <1>2, FollowsSame
<1>7. IsFiniteSet(Wanted)'
  <2>1. Wanted' \subseteq Wanted \cup {v}
    BY DEF Wanted
  <2>2. IsFiniteSet(Wanted \cup {v})
    BY FS_AddElement DEF CapacityOK
  <2> QED BY <2>1, <2>2, FS_Subset
<1>8. UnbornUnsized'
  BY <1>1, <1>3 DEF CapacityOK, UnbornUnsized
<1>9. ASSUME NEW w \in VM
      PROVE  SizesAgree(w)' /\ DeletedIdle(w)'
  <2>1. SizesAgree(w) /\ DeletedIdle(w)
    BY DEF CapacityOK
  <2>2. CASE w = v
    <3>1. SizesAgree(v)'
      BY <1>3 DEF SizesAgree
    <3> QED BY <2>2, <3>1 DEF DeletedIdle
  <2>3. CASE w # v
    <3>1. SizesAgree(w)'
      BY <1>1, <1>3, <2>1, <2>3 DEF SizesAgree
    <3>2. DeletedIdle(w)'
      BY <1>1, <1>2, <1>4, <2>1, <2>3 DEF DeletedIdle
    <3> QED BY <3>1, <3>2
  <2> QED BY <2>2, <2>3
<1>10. ASSUME NEW w \in VM, NEW y \in alive
       PROVE  ReportedOnce(w, y)'
  <2>1. y \in Agent /\ ReportedOnce(w, y)
    BY <1>2 DEF CapacityOK
  <2>2. CASE w = v /\ y = x
    <3>1. v \notin index'[x] /\ \A i \in Positions' : ~Adds(i, x, v)'
      BY DEF Adds, Report, Positions
    <3> QED BY <2>2, <3>1 DEF ReportedOnce
  <2>3. CASE w # v \/ y # x
    <3>1. w \in changed'[y] => w \in changed[y]
      BY <1>3, <2>1, <2>3
    <3> QED BY <1>1, <1>6, <2>1, <2>3, <3>1, ReportedKept
  <2> QED BY <2>2, <2>3
<1>11. ASSUME NEW y \in alive
       PROVE  CacheCounts(y)' /\ ReportsCount(y)' /\ Fits(y)'
  <2>1. y \in Agent /\ changed[y] \subseteq changed'[y]
    BY <1>2, <1>3
  <2>2. /\ RunningAt(y)' \cap index'[y] \subseteq RunningAt(y) \cap index[y]
        /\ RunningAt(y)' \ changed'[y] \subseteq RunningAt(y)
    BY <1>3, <1>5, <2>1
  <2>3. \A w \in RunningAt(y)' \cap RunningAt(y) : manifests'[w] = manifests[w]
    BY <1>5, <2>1 DEF RunningAt
  <2>4. CASE y = x
    BY <1>6, <2>1, <2>2, <2>3, <2>4, CountsKept
  <2>5. CASE y # x
    <3>1. \A w \in ClaimsAt(y)' : manifests'[w] = manifests[w]
      BY <1>1, <1>4, <2>1, <2>5 DEF ClaimsAt
    <3> QED BY <1>5, <1>6, <2>1, <2>2, <2>3, <2>5, <3>1, CountsKept
  <2> QED BY <2>4, <2>5
<1> QED BY <1>1, <1>7, <1>8, <1>9, <1>10, <1>11 DEF CapacityOK

\* An agent handles a dispatched request: the claim was there already.
LEMMA HandlesCreateFits ==
    ASSUME ClusterTyped, ClusterTyped', CleanOK, CapacityOK, NEW req \in inflight,
           NEW a \in VmActor, AgentHandlesCreate(req, a),
           Spawn(req.agent, req.vm, req.size, a)
    PROVE  CapacityOK'
<1>1. PICK x \in alive, v \in VM, size \in Size :
          /\ x = req.agent /\ v = req.vm /\ size = req.size
          /\ Spawn(x, v, size, a)
  BY DEF AgentHandlesCreate, ClusterTyped, RestOK, CreateRequest
<1>2. /\ UNCHANGED <<mailbox, manifests, agentCache, index, deleted>>
      /\ inflight' = inflight \ {req} /\ x \in Agent /\ alive \subseteq Agent
  BY DEF AgentHandlesCreate, schedVars, intentVars, ghosts, ClusterTyped, AgentsOK
<1>3. Requested(v, x) /\ v \in ClaimsAt(x)
  BY <1>1 DEF Requested, ClaimsAt
<1>4. manifests[v] # None /\ v \notin deleted
  BY <1>3, ClaimsWanted DEF Wanted, CleanOK, DeletedVM
<1>5. SingleClaim(v) /\ SizesAgree(v) /\ Accounted(v, x) /\ Fits(x)
  BY <1>4 DEF CleanOK, CapacityOK
<1>6. v \notin index[x] /\ \A i \in Positions : ~Adds(i, x, v)
  BY <1>3, <1>5 DEF Accounted, RequestUnseen
<1>7. /\ manifests[v] = size
      /\ \A r \in inflight' : r.vm = v => r.size = size
      /\ \A b \in VmActor : VmOf[b] = v => sizeOf[b] \in {None, size} /\ status[b] # "running"
      /\ \A y \in alive \ {x} : ~Requested(v, y)'
  BY <1>1, <1>2, <1>4, <1>5 DEF SingleClaim, SizesAgree, Requested
<1>8. Fits(x)'
  <2>1. \A w \in VM, y \in Agent : w # v \/ y # x => (RunsOn(w, y)' => RunsOn(w, y))
    BY <1>1, SpawnFacts
  <2>2. \A w \in VM : Requested(w, x)' => Requested(w, x)
    BY <1>2 DEF Requested
  <2>3. ClaimsAt(x)' \in SUBSET ClaimsAt(x)
    BY <1>2, <1>3, <2>1, <2>2 DEF ClaimsAt
  <2>4. /\ ClaimsAt(x) \in SUBSET Wanted /\ IsFiniteSet(Wanted)
        /\ Asked(ClaimsAt(x)) <= Capacity[x] /\ Capacity[x] \in Nat
    BY <1>2, <1>5, ClaimsWanted, CapacityAssumption DEF Fits, CapacityOK
  <2>5. Asked(ClaimsAt(x)') <= Asked(ClaimsAt(x)) /\ Asked(ClaimsAt(x)) \in Nat
    BY <2>3, <2>4, AskedTyped
  <2>6. Asked(ClaimsAt(x)') \in Nat
    BY <2>3, <2>4, AskedTyped
  <2>7. Asked(ClaimsAt(x)') <= Capacity[x]
    BY <2>4, <2>5, <2>6
  <2> QED BY <1>2, <2>7 DEF Fits, Asked
<1> QED BY <1>1, <1>2, <1>4, <1>6, <1>7, <1>8, SpawnFits

\* A client's create of a VM that was never deleted: nothing of it is anywhere, and
\* the agent was chosen for its size.
LEMMA CreatesFit ==
    ASSUME ClusterTyped, ClusterTyped', CleanOK, CapacityOK, clean', NEW v \in VM,
           NEW size \in Size, NEW x \in Agent, NEW a \in VmActor, ClientCreates(v, size, x, a)
    PROVE  CapacityOK'
<1>1. /\ UNCHANGED <<mailbox, agentCache, index, inflight>>
      /\ x \in alive /\ manifests[v] = None /\ x \in schedule_agent(size)
      /\ manifests' = [manifests EXCEPT ![v] = size]
      /\ v \notin deleted /\ deleted' = deleted
      /\ AgentCreates(x, v, size, a)
  BY DEF ClientCreates, CreateVM, Fault
<1>2. /\ \A b \in VmActor : VmOf[b] = v => status[b] = "unborn"
      /\ \A y \in Agent : ~Requested(v, y) /\ v \notin index[y]
      /\ \A y \in Agent, i \in Positions : ~Adds(i, y, v)
  BY <1>1 DEF CleanOK, FreshVM
<1>3. Spawn(x, v, size, a)
  BY <1>1, <1>2 DEF AgentCreates, Hosted, Live
<1>4. /\ manifests \in [VM -> Size \cup {None}] /\ inflight \subseteq CreateRequest
      /\ alive \subseteq Agent
  BY DEF ClusterTyped, SchedInv, SchedTypeOK, RestOK, AgentsOK
<1>5. manifests'[v] = size /\ \A w \in VM \ {v} : manifests'[w] = manifests[w]
  BY <1>1, <1>4
<1>6. \A b \in VmActor : VmOf[b] = v => sizeOf[b] \in {None, size} /\ status[b] # "running"
  BY <1>2 DEF CapacityOK, UnbornUnsized
<1>7. /\ \A req \in inflight' : req.vm # v
      /\ \A y \in Agent : ~Requested(v, y)'
  BY <1>1, <1>2, <1>4 DEF Requested, CreateRequest
<1>8. Fits(x)'
  <2>1. v \notin ClaimsAt(x)
    BY <1>2 DEF ClaimsAt, RunsOn
  <2>2. \A w \in VM, y \in Agent : w # v \/ y # x => (RunsOn(w, y)' => RunsOn(w, y))
    BY <1>1, <1>3, SpawnFacts
  <2>3. \A w \in VM : Requested(w, x)' => Requested(w, x)
    BY <1>1 DEF Requested
  <2>4. ClaimsAt(x)' \subseteq ClaimsAt(x) \cup {v}
    BY <2>2, <2>3 DEF ClaimsAt
  <2> QED BY <1>1, <1>5, <2>1, <2>4, FitsAdded
<1> QED BY <1>1, <1>2, <1>3, <1>4, <1>5, <1>6, <1>7, <1>8, SpawnFits

-----------------------------------------------------------------------------
(* What runs on an agent fits it.                                          *)

\* At first nothing is wanted, and nothing runs.
LEMMA CapacityInit == ClusterInit => CapacityOK
<1> SUFFICES ASSUME ClusterInit
             PROVE  CapacityOK
  OBVIOUS
<1> USE DEF ClusterInit, SchedInit
<1>1. Positions = {} /\ Wanted = {}
  BY DEF Positions, Wanted
<1>2. IsFiniteSet(Wanted) /\ UnbornUnsized
  BY <1>1, FS_EmptySet DEF UnbornUnsized
<1>3. \A v \in VM, x \in Agent : ~RunsOn(v, x) /\ ~Requested(v, x)
  BY DEF RunsOn, Requested
<1>4. \A v \in VM : SizesAgree(v) /\ DeletedIdle(v)
  BY DEF SizesAgree, DeletedIdle
<1>5. \A v \in VM, x \in alive : ReportedOnce(v, x)
  BY <1>3 DEF ReportedOnce
<1>6. ASSUME NEW x \in alive
      PROVE  CacheCounts(x) /\ ReportsCount(x) /\ Fits(x)
  <2>1. ClaimsAt(x) = {} /\ Capacity[x] \in Nat /\ agentCache[x] = None
    BY <1>3, CapacityAssumption DEF ClaimsAt
  <2>2. Asked({}) = 0
    BY FS_EmptySet, SumUnfolds DEF Asked
  <2> QED BY <1>1, <2>1, <2>2 DEF CacheCounts, ReportsCount, Fits
<1> QED BY <1>2, <1>4, <1>5, <1>6 DEF CapacityOK

\* Every step without a fault keeps the invariant.
LEMMA CapacityNext ==
    ASSUME ClusterTyped, ClusterTyped', CleanInv, CapacityInv, [ClusterNext]_vars
    PROVE  CapacityInv'
<1> SUFFICES ASSUME clean'
             PROVE  CapacityOK'
  BY DEF CapacityInv
<1>1. clean \in BOOLEAN /\ alive \subseteq Agent
  BY DEF ClusterTyped, RestOK, AgentsOK
<1>2. ASSUME UNCHANGED clean
      PROVE  CleanOK /\ CapacityOK
  BY <1>2 DEF CleanInv, CapacityInv
<1>3. CASE UNCHANGED vars
  BY <1>2, <1>3, NothingPlacedKeeps DEF vars, ghosts
<1>4. CASE AgentSideNext
  <2>1. CASE \E req \in inflight : RequestLost(req)
    <3>1. UNCHANGED clean
      BY <2>1 DEF RequestLost, Fault, NoFault
    <3> QED BY <1>2, <2>1, <3>1, AgentSideKeeps
  <2>2. ASSUME NEW req \in inflight, NEW a \in VmActor, AgentHandlesCreate(req, a)
        PROVE  CapacityOK'
    <3>1. UNCHANGED clean
      BY <2>2 DEF AgentHandlesCreate, ghosts
    <3>2. UNCHANGED agentSide \/ Spawn(req.agent, req.vm, req.size, a)
      BY <2>2 DEF AgentHandlesCreate, AgentCreates
    <3> QED BY <1>2, <2>2, <3>1, <3>2, AgentSideKeeps, HandlesCreateFits
  <2>3. CASE \E a \in VmActor : VmActorDies(a)
    <3>1. UNCHANGED clean
      BY <2>3 DEF VmActorDies, ghosts
    <3> QED BY <1>2, <2>3, <3>1, AgentSideKeeps
  <2>4. CASE \E x \in Agent : AgentDies(x)
    <3>1. UNCHANGED clean
      BY <2>4 DEF AgentDies, ghosts
    <3> QED BY <1>2, <2>4, <3>1, AgentSideKeeps
  <2> QED BY <1>4, <2>1, <2>2, <2>3, <2>4 DEF AgentSideNext
<1>5. CASE ClientsNext
  <2>1. ASSUME NEW v \in VM, NEW a \in VmActor, ClientStops(v, a)
        PROVE  CapacityOK'
    <3>1. UNCHANGED clean
      BY <2>1 DEF ClientStops
    <3> QED BY <1>2, <2>1, <3>1, ClientStopsKeeps
  <2>2. ASSUME NEW v \in VM, NEW size \in Size, ClientRejected(v, size)
        PROVE  CapacityOK'
    <3>1. UNCHANGED clean
      BY <2>2 DEF ClientRejected, ghosts
    <3> QED BY <1>2, <2>2, <3>1, NothingPlacedKeeps
  <2>3. ASSUME NEW v \in VM, NEW size \in Size, NEW x \in Agent,
               ClientCreateRolledBack(v, size, x)
        PROVE  CapacityOK'
    <3>1. UNCHANGED clean
      BY <2>3 DEF ClientCreateRolledBack, Fault, NoFault
    <3> QED BY <1>2, <2>3, <3>1, NothingPlacedKeeps
  <2>4. ASSUME NEW v \in VM, NEW size \in Size, NEW x \in Agent, NEW a \in VmActor,
               ClientCreates(v, size, x, a)
        PROVE  CapacityOK'
    <3>1. UNCHANGED clean
      BY <2>4 DEF ClientCreates, Fault, NoFault
    <3> QED BY <1>2, <2>4, <3>1, CreatesFit
  <2>5. ASSUME NEW v \in VM, NEW size \in Size, NEW x \in Agent, NEW a \in VmActor,
               ClientCreateKept(v, size, x, a)
        PROVE  CapacityOK'
    BY <2>5 DEF ClientCreateKept, Fault
  <2> QED BY <1>5, <2>1, <2>2, <2>3, <2>4, <2>5 DEF ClientsNext
<1>6. CASE UpdatersNext
  <2>1. ASSUME NEW id \in Agent \cup VmActor, Discover(id)
        PROVE  CapacityOK'
    <3>1. UNCHANGED clean
      BY <2>1 DEF Discover, ghosts
    <3> QED BY <1>2, <2>1, <3>1, UpdatersKeep
  <2>2. ASSUME NEW x \in Agent, AgentUpdaterPolls(x)
        PROVE  CapacityOK'
    <3>1. UNCHANGED clean
      BY <2>2 DEF AgentUpdaterPolls, ghosts
    <3> QED BY <1>2, <2>2, <3>1, PollKeepsCounts
  <2>3. ASSUME NEW a \in VmActor, VmUpdaterAnswers(a)
        PROVE  CapacityOK'
    <3>1. UNCHANGED clean
      BY <2>3 DEF VmUpdaterAnswers, ghosts
    <3> QED BY <1>2, <2>3, <3>1, UpdatersKeep
  <2>4. ASSUME NEW id \in Agent \cup VmActor, Lose(id)
        PROVE  CapacityOK'
    <3>1. UNCHANGED clean
      BY <2>4 DEF Lose, Fault, NoFault
    <3> QED BY <1>2, <2>4, <3>1, UpdatersKeep
  <2> QED BY <1>6, <2>1, <2>2, <2>3, <2>4
          DEF UpdatersNext, AgentActorDiscovered, VmActorDiscovered
<1>7. CASE HandlesMail
  <2>1. CASE HandleVmUpdated
    <3>1. clean
      BY <2>1 DEF HandleVmUpdated
    <3> QED BY <2>1, <3>1, AnswerKeeps DEF CleanInv, CapacityInv
  <2>2. CASE HandleAgentUpdated
    BY <1>2, <2>2, ReportKeeps DEF HandleAgentUpdated, ghosts
  <2>3. CASE HandleVmLost
    BY <1>2, <2>3, LostKeeps DEF HandleVmLost, ghosts
  <2>4. CASE HandleAgentLost
    BY <1>2, <2>4, LostKeeps DEF HandleAgentLost, ghosts
  <2> QED BY <1>7, <2>1, <2>2, <2>3, <2>4 DEF HandlesMail
<1>8. CASE Reconciles
  <2>1. UNCHANGED clean /\ UNCHANGED <<outside, deleted>>
    BY <1>8 DEF Reconciles, Fault, NoFault
  <2>2. CASE ReconcileStart /\ UNCHANGED inflight
    <3>1. UNCHANGED <<outside, inflight, deleted>>
      BY <2>1, <2>2
    <3>2. CleanOK /\ CapacityOK
      BY <1>2, <2>1
    <3>3. /\ \/ ReconcileStart
             \/ \E v \in VM : \/ ReconcileSkips(v)
                              \/ \E x \in Agent : ReconcileSendFails(v, x)
          /\ UNCHANGED <<outside, inflight, deleted>>
      BY <2>2, <3>1
    <3> QED BY <3>2, <3>3, NothingPlacedKeeps
  <2>3. ASSUME NEW v \in VM, UNCHANGED inflight,
               ReconcileSkips(v) \/ \E x \in Agent : ReconcileSendFails(v, x)
        PROVE  CapacityOK'
    BY <1>2, <2>1, <2>3, NothingPlacedKeeps
  <2>4. ASSUME NEW v \in VM, NEW x \in Agent, ReconcileDispatches(v, x),
               inflight' = inflight \cup {[agent |-> x, vm |-> v, size |-> manifests[v]]}
        PROVE  CapacityOK'
    BY <1>2, <2>1, <2>4, DispatchFits
  <2> QED BY <1>8, <2>2, <2>3, <2>4 DEF Reconciles
<1>9. ASSUME NEW v \in VM, NEW e \in placements[v], TimePasses(v, e)
      PROVE  CapacityOK'
  <2>1. UNCHANGED clean
    BY <1>9 DEF TimePasses, Fault, NoFault
  <2> QED BY <1>2, <1>9, <2>1, NothingPlacedKeeps
<1>10. CASE SchedulerRestarts
  BY <1>10 DEF SchedulerRestarts, Fault
<1> QED BY <1>3, <1>4, <1>5, <1>6, <1>7, <1>8, <1>9, <1>10 DEF ClusterNext

\* The VMs that run on an agent fit it, for any number of agents, VMs and
\* incarnations, any sizes and capacities, any mailbox and any number of crashes:
\* between a reservation, the agent's create, its report and the confirmation, what a
\* VM asks for is always reserved or in the usage the scheduler has cached, as long as
\* no request is lost or late and no live actor is taken for dead.
THEOREM WithinCapacity == ClusterSpec => []CleanWithinCapacity
<1>1. ClusterInit => CleanInv /\ CapacityInv
  BY CleanInit, CapacityInit DEF CleanInv, CapacityInv
<1>2. /\ ClusterTyped /\ ClusterTyped' /\ CleanInv /\ CapacityInv /\ [ClusterNext]_vars
      => CleanInv' /\ CapacityInv'
  BY CleanNext, CapacityNext
<1>3. ClusterTyped /\ CleanInv /\ CapacityInv => CleanWithinCapacity
  <2> SUFFICES ASSUME ClusterTyped, CleanOK, CapacityOK, NEW x \in Agent
               PROVE  RunningSizeOn(x) <= Capacity[x]
    BY DEF CleanInv, CapacityInv, CleanWithinCapacity
  <2>1. Capacity[x] \in Nat
    BY CapacityAssumption
  <2>2. CASE x \in alive
    <3>1. RunningSizeOn(x) = Asked(RunningAt(x))
      BY <2>2, RunningCounted
    <3>2. /\ ClaimsAt(x) \in SUBSET Wanted /\ RunningAt(x) \in SUBSET ClaimsAt(x)
          /\ IsFiniteSet(Wanted) /\ Asked(ClaimsAt(x)) <= Capacity[x]
      BY <2>2, ClaimsWanted DEF CapacityOK, Fits
    <3>3. Asked(RunningAt(x)) <= Asked(ClaimsAt(x)) /\ Asked(ClaimsAt(x)) \in Nat
      BY <3>2, AskedTyped
    <3>4. Asked(RunningAt(x)) \in Nat
      BY <3>2, AskedTyped
    <3> QED BY <2>1, <3>1, <3>2, <3>3, <3>4
  <2>3. CASE x \notin alive
    <3>1. {a \in Hosted(x) : status[a] = "running"} = {}
      BY <2>3 DEF Hosted, ClusterTyped, AgentsOK
    <3>2. RunningSizeOn(x) = Sum(sizeOf, {a \in Hosted(x) : status[a] = "running"})
      BY SumIsMapThenSum DEF RunningSizeOn
    <3>3. Sum(sizeOf, {}) = 0
      BY FS_EmptySet, SumUnfolds
    <3> QED BY <2>1, <3>1, <3>2, <3>3
  <2> QED BY <2>2, <2>3
<1> QED BY <1>1, <1>2, <1>3, ClusterTypes, PTL DEF ClusterSpec
=============================================================================
