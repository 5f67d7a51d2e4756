------------------------------ MODULE StatusSync ------------------------------
(***************************************************************************)
(* How the scheduler follows one agent: the agent itself (AgentActor), the *)
(* scheduler's updater task that polls it (agent_updater_task), the        *)
(* scheduler's mailbox and its cached status (AgentUpdated,                *)
(* AgentUpdaterStopped, on_link_died, AgentActorDiscovered).               *)
(*                                                                         *)
(* The updater's requests may fail for as long as the network likes: a     *)
(* failed request changes nothing but the failure counter, and six in a    *)
(* row (UpdaterGivesUp) or a lost connection (LinkLost) may come at any    *)
(* moment, also when the agent is alive.  MaxLosses bounds both.           *)
(***************************************************************************)
EXTENDS AgentActor

CONSTANTS
    None,           \* no cached status, no answer in hand
    MailboxBound,   \* bound: a teller waits while the mailbox is full
    MaxLosses       \* bound: losses of the connection to a live agent

ASSUME SyncBoundAssumption == MailboxBound \in Nat /\ MaxLosses \in Nat

VARIABLES
    alive,      \* the agent actor runs
    updater,    \* agent_keepalive_tasks[agent]: the task and its local variables
    answer,     \* a status update the task has received and not forwarded yet
    linked,     \* actor_kinds holds the agent
    mailbox,    \* the scheduler's mailbox, as far as it is about this agent
    cache,      \* agent_data_cache[agent]: membership, revision and usage
    losses      \* connection losses so far

syncVars == <<alive, updater, answer, linked, mailbox, cache, losses>>
vars == <<agentVars, syncVars>>

StatusUpdate ==
    [kind : {"Full", "Delta"}, revision : Nat, since : Nat, vms : SUBSET VM,
     added : SUBSET VM, removed : SUBSET VM, used : Nat]

CachedStatus == [vms : SUBSET VM, revision : Nat, used : Nat]

ASSUME NoneAssumption == None \notin StatusUpdate \cup CachedStatus

UpdatedMsg(u) == [type |-> "AgentUpdated", update |-> u]
StoppedMsg == [type |-> "AgentUpdaterStopped"]
LinkDiedMsg == [type |-> "LinkDied"]

\* No task, a task that polls, a task that has returned.
NoTask == [phase |-> "none", since |-> 0, initial |-> FALSE]
NewTask == [phase |-> "polling", since |-> 0, initial |-> TRUE]
FinishedTask == [phase |-> "finished", since |-> 0, initial |-> FALSE]

-----------------------------------------------------------------------------
(* The scheduler's side of a status update.                                *)

\* Mutant: a delta leaves the cached usage alone.
apply_status_update_keeps_usage(status, u) ==
    IF u.kind = "Full"
    THEN [vms |-> u.vms, revision |-> u.revision, used |-> u.used]
    ELSE [vms |-> (status.vms \ u.removed) \cup u.added,
          revision |-> u.revision, used |-> status.used]

apply_status_update(status, u) ==
    IF u.kind = "Full"
    THEN [vms |-> u.vms, revision |-> u.revision, used |-> u.used]
    ELSE [vms |-> (status.vms \ u.removed) \cup u.added,
          revision |-> u.revision, used |-> u.used]

\* Without a cached status only a full snapshot is accepted; with one, only an
\* update with a newer revision.
Accepts(status, u) ==
    IF status = None THEN u.kind = "Full" ELSE u.revision > status.revision

AgentUpdatedResult(status, u) ==
    IF Accepts(status, u) THEN apply_status_update(status, u) ELSE status

-----------------------------------------------------------------------------
Init ==
    /\ AgentInit
    /\ alive = TRUE
    /\ updater = NoTask
    /\ answer = None
    /\ linked = FALSE
    /\ mailbox = <<>>
    /\ cache = None
    /\ losses = 0

AgentStep ==
    /\ alive
    /\ AgentNext
    /\ UNCHANGED syncVars

\* PanicAgent, or the host goes away.
AgentDies ==
    /\ alive
    /\ alive' = FALSE
    /\ UNCHANGED <<agentVars, updater, answer, linked, mailbox, cache, losses>>

\* AgentActorDiscovered: nothing to do while an updater runs; linking a dead
\* agent fails, and then only the finished task is forgotten.
AgentActorDiscovered ==
    /\ updater.phase # "polling"
    /\ updater' = IF alive THEN NewTask ELSE NoTask
    /\ linked' = (linked \/ alive)
    /\ UNCHANGED <<agentVars, alive, answer, mailbox, cache, losses>>

\* One poll: the agent answers from its current state, and the task takes the
\* answer's revision as the one to ask from next.
UpdaterPolls ==
    /\ updater.phase = "polling"
    /\ answer = None
    /\ alive
    /\ answer' = GetAgentStatus(agent, updater.since, updater.initial)
    /\ updater' = [phase |-> "polling", since |-> answer'.revision, initial |-> FALSE]
    /\ UNCHANGED <<agentVars, alive, linked, mailbox, cache, losses>>

UpdaterTells ==
    /\ answer # None
    /\ Len(mailbox) < MailboxBound
    /\ mailbox' = Append(mailbox, UpdatedMsg(answer))
    /\ answer' = None
    /\ UNCHANGED <<agentVars, alive, updater, linked, cache, losses>>

\* Losing a dead agent costs nothing; losing a live one is bounded.
CountLoss ==
    IF alive THEN losses < MaxLosses /\ losses' = losses + 1 ELSE UNCHANGED losses

\* Six failed requests in a row.
UpdaterGivesUp ==
    /\ updater.phase = "polling"
    /\ answer = None
    /\ Len(mailbox) < MailboxBound
    /\ CountLoss
    /\ mailbox' = Append(mailbox, StoppedMsg)
    /\ updater' = FinishedTask
    /\ UNCHANGED <<agentVars, alive, answer, linked, cache>>

\* The swarm reports the linked actor dead or its peer disconnected.
LinkLost ==
    /\ linked
    /\ Len(mailbox) < MailboxBound
    /\ \A i \in 1 .. Len(mailbox) : mailbox[i] # LinkDiedMsg
    /\ CountLoss
    /\ mailbox' = Append(mailbox, LinkDiedMsg)
    /\ UNCHANGED <<agentVars, alive, updater, answer, linked, cache>>

HandleAgentUpdated ==
    /\ mailbox # <<>>
    /\ Head(mailbox).type = "AgentUpdated"
    /\ cache' = AgentUpdatedResult(cache, Head(mailbox).update)
    /\ mailbox' = Tail(mailbox)
    /\ UNCHANGED <<agentVars, alive, updater, answer, linked, losses>>

\* Mutant: the updater task is not aborted and keeps its revision.
cleanup_keeps_updater ==
    /\ cache' = None
    /\ mailbox' = Tail(mailbox)
    /\ UNCHANGED <<updater, answer>>

\* cleanup_agent_actor aborts the task.  An answer in the task's hands is gone,
\* or a poll of the task that is under way still delivers it.
cleanup_agent_actor ==
    /\ updater' = NoTask
    /\ cache' = None
    /\ answer' = None
    /\ \/ mailbox' = Tail(mailbox)
       \/ /\ answer # None
          /\ mailbox' = Append(Tail(mailbox), UpdatedMsg(answer))

HandleUpdaterStopped ==
    /\ mailbox # <<>>
    /\ Head(mailbox).type = "AgentUpdaterStopped"
    /\ linked' = FALSE
    /\ cleanup_agent_actor
    /\ UNCHANGED <<agentVars, alive, losses>>

HandleLinkDied ==
    /\ mailbox # <<>>
    /\ Head(mailbox).type = "LinkDied"
    /\ linked' = FALSE
    /\ \/ linked /\ cleanup_agent_actor
       \/ ~linked /\ mailbox' = Tail(mailbox) /\ UNCHANGED <<updater, cache, answer>>
    /\ UNCHANGED <<agentVars, alive, losses>>

Next ==
    \/ AgentStep
    \/ AgentDies
    \/ AgentActorDiscovered
    \/ UpdaterPolls
    \/ UpdaterTells
    \/ UpdaterGivesUp
    \/ LinkLost
    \/ HandleAgentUpdated
    \/ HandleUpdaterStopped
    \/ HandleLinkDied

Spec == Init /\ [][Next]_vars

\* The five-second discovery loop, the one-second polls and the mailbox keep
\* going; a dead agent is noticed by the six failed requests or by the link.
Fairness ==
    /\ WF_vars(AgentActorDiscovered)
    /\ WF_vars(UpdaterPolls)
    /\ WF_vars(UpdaterTells)
    /\ WF_vars(~alive /\ UpdaterGivesUp)
    /\ WF_vars(HandleAgentUpdated \/ HandleUpdaterStopped \/ HandleLinkDied)

FairSpec == Spec /\ Fairness

-----------------------------------------------------------------------------
(* Properties.                                                             *)

Mail == [type : {"AgentUpdated"}, update : StatusUpdate]
            \cup [type : {"AgentUpdaterStopped", "LinkDied"}]
Task == [phase : {"none", "polling", "finished"}, since : Nat, initial : BOOLEAN]

TypeOK ==
    /\ AgentTypeOK
    /\ alive \in BOOLEAN
    /\ updater \in Task
    /\ answer \in StatusUpdate \cup {None}
    /\ linked \in BOOLEAN
    /\ mailbox \in Seq(Mail)
    /\ Len(mailbox) <= MailboxBound
    /\ cache \in CachedStatus \cup {None}
    /\ losses \in 0 .. MaxLosses

\* The scheduler's copy of an agent's VM list is exactly the list the agent had
\* at the copy's revision: however the deltas were cut from the bounded
\* history, whatever was lost, dropped by a cleanup, delivered late by an aborted
\* task or ignored as stale, no membership change is missed or applied twice
\* (GetAgentStatus in agent_actor.rs, AgentUpdated in discovery.rs).
CacheIsAgentPast ==
    cache # None =>
        /\ cache.revision <= agent.membership_revision
        /\ cache.vms = agent.log[cache.revision]

\* A copy with the agent's current revision has the agent's current usage, as
\* long as no migration replaced an entry: a replacement changes the usage
\* without a new revision, and AgentUpdated ignores an update whose revision
\* is not newer (agent_actor.rs:70-72, discovery.rs:326).
UsageCurrentAtRevision ==
    (/\ ~replaced
     /\ cache # None
     /\ cache.revision = agent.membership_revision)
        => cache.used = agent.used

-----------------------------------------------------------------------------
(* The inductive invariant behind CacheIsAgentPast.                        *)

\* The history is the gapless tail of the changes that led to the current
\* revision, and is empty only before the first change.
HistoryIsTail(ag) ==
    LET h == ag.status_history
    IN  /\ Len(h) <= ag.membership_revision
        /\ h = <<>> => ag.membership_revision = 0
        /\ \A i \in 1 .. Len(h) :
               h[i].revision = (ag.membership_revision - Len(h)) + i

\* The log ends in the current membership; from any revision the history
\* reaches back to, a VM without a later change in it has the membership it has
\* now, and the last change of a VM in the history tells its membership now.
HistoryExplainsLog(ag) ==
    LET h == ag.status_history
    IN  /\ ag.log[ag.membership_revision] = Members(ag)
        /\ \A c \in (ag.membership_revision - Len(h)) .. ag.membership_revision :
           \A v \in VM :
               (\A i \in 1 .. Len(h) : h[i].vmid = v => h[i].revision <= c)
                   => (v \in ag.log[c] <=> v \in Members(ag))
        /\ \A i \in 1 .. Len(h) :
               (\A k \in 1 .. Len(h) : k > i => h[k].vmid # h[i].vmid)
                   => (h[i].vmid \in Members(ag) <=> h[i].added)

\* An update takes the membership at any revision between the one it was asked
\* from and its own to the membership at its own revision.
GoodUpdate(ag, u) ==
    /\ u.revision <= ag.membership_revision
    /\ u.kind = "Full" => u.vms = ag.log[u.revision]
    /\ u.kind = "Delta" =>
           /\ u.since <= u.revision
           /\ \A c \in u.since .. u.revision :
                  (ag.log[c] \ u.removed) \cup u.added = ag.log[u.revision]

IsUpdate(mb, i) == mb[i].type = "AgentUpdated"

\* Whatever is processed before position p of mailbox mb leaves a scheduler that
\* has the cached status ch now without one or with one that is at least at
\* revision s.
Covered(mb, ch, s, p) ==
    /\ \A j \in 1 .. (p - 1) :
           (IsUpdate(mb, j) /\ \A k \in (j + 1) .. (p - 1) : ~IsUpdate(mb, k))
               => mb[j].update.revision >= s
    /\ (\A j \in 1 .. (p - 1) : ~IsUpdate(mb, j))
           => (ch = None \/ ch.revision >= s)

MailGood(ag, mb) ==
    \A i \in 1 .. Len(mb) : IsUpdate(mb, i) => GoodUpdate(ag, mb[i].update)

UpdatesGood ==
    /\ answer # None => GoodUpdate(agent, answer)
    /\ MailGood(agent, mailbox)

MailCovered(mb, ch) ==
    \A i \in 1 .. Len(mb) :
        (IsUpdate(mb, i) /\ mb[i].update.kind = "Delta")
            => Covered(mb, ch, mb[i].update.since, i)

NoGap ==
    /\ MailCovered(mailbox, cache)
    /\ (answer # None /\ answer.kind = "Delta")
           => Covered(mailbox, cache, answer.since, Len(mailbox) + 1)
    /\ answer # None =>
           /\ updater.phase = "polling"
           /\ ~updater.initial
           /\ updater.since = answer.revision
    /\ (answer = None /\ updater.phase = "polling" /\ ~updater.initial)
           => Covered(mailbox, cache, updater.since, Len(mailbox) + 1)

\* The chain of argument for CacheIsAgentPast: the history explains the log, so
\* every update in flight is good, and no delta can meet a cached status that is
\* older than the revision the delta starts from.
ProtocolInv ==
    /\ HistoryIsTail(agent)
    /\ HistoryExplainsLog(agent)
    /\ UpdatesGood
    /\ NoGap
    /\ CacheIsAgentPast

-----------------------------------------------------------------------------
\* The status protocol implements its abstract specification.
View == INSTANCE MembershipView WITH
            NoView <- None,
            revision <- agent.membership_revision,
            log <- agent.log,
            view <- IF cache = None THEN None
                    ELSE [revision |-> cache.revision, vms |-> cache.vms]

ViewSpec == View!Spec

\* Once changes and connection losses stop, the scheduler's copy of a live agent
\* reaches the agent's revision and stays there (agent_updater_task with the
\* discovery loop that restarts it).
EventuallyInSync ==
    <>[](alive => cache # None /\ cache.revision = agent.membership_revision)

\* handlers.rs:24, "Losing an agent removes its placements", and cache.rs:229,
\* "removes all cache state owned by a departed agent": the scheduler ends up
\* with no status of a dead agent.
DepartedAgentForgotten == <>[](~alive => cache = None)
=============================================================================
