----------------------------- MODULE MCStatusSync -----------------------------
(***************************************************************************)
(* Small instances of StatusSync for TLC.  In half of the behaviours the   *)
(* agent is alone, as before a scheduler is started: it has more actors,   *)
(* sizes and changes then, which the properties of AgentActor are about.   *)
(* With the scheduler the bounds are named here; of a replaced entry and a *)
(* lost connection it sees one at most.                                    *)
(***************************************************************************)
EXTENDS StatusSync

CONSTANTS
    SyncActors,     \* bound: VM actors, beside a scheduler
    SyncSizes,      \* bound: sizes of VMs, beside a scheduler
    SyncRevisions   \* bound: membership changes, beside a scheduler

VARIABLE alone      \* no scheduler is there

SyncBound ==
    /\ agent.membership_revision <= SyncRevisions
    /\ running \subseteq SyncActors
    /\ \A v \in Members(agent) : agent.vms[v].size \in SyncSizes
    /\ replaced => losses = 0

MCInit == Init /\ alone \in BOOLEAN

MCNext ==
    /\ UNCHANGED alone
    /\ \/ alone /\ AgentStep
       \/ ~alone /\ Next /\ SyncBound'

MCSpec == MCInit /\ [][MCNext]_<<vars, alone>> /\ Fairness
=============================================================================
