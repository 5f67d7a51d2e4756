---------------------------- MODULE MembershipView ----------------------------
(***************************************************************************)
(* What the status protocol promises the scheduler: an agent goes through  *)
(* a log of memberships, and the scheduler either knows nothing of it or   *)
(* holds exactly the membership of one revision the agent has reached; the *)
(* revision it holds only moves forward until the view is dropped.         *)
(***************************************************************************)
EXTENDS Integers

CONSTANTS
    VM,     \* VM identifiers
    NoView  \* the scheduler holds no view of the agent

VARIABLES
    revision,   \* the agent's current revision
    log,        \* log[r]: the membership the agent had at revision r
    view        \* NoView, or the revision and the membership held for it

vars == <<revision, log, view>>

Init ==
    /\ revision = 0
    /\ log = [r \in 0 .. 0 |-> {}]
    /\ view = NoView

\* The agent's membership changes once or more; its past never changes.
Change ==
    /\ revision' \in Nat
    /\ revision' > revision
    /\ log' \in [0 .. revision' -> SUBSET VM]
    /\ \A r \in 0 .. revision : log'[r] = log[r]
    /\ UNCHANGED view

\* The scheduler's view moves to a revision it has not seen yet.
Observe ==
    \E r \in 0 .. revision :
        /\ view = NoView \/ view.revision < r
        /\ view' = [revision |-> r, vms |-> log[r]]
        /\ UNCHANGED <<revision, log>>

Lose ==
    /\ view' = NoView
    /\ UNCHANGED <<revision, log>>

Next == Change \/ Observe \/ Lose

Spec == Init /\ [][Next]_vars
=============================================================================
