----------------------------- MODULE VmHostProofs -----------------------------
(***************************************************************************)
(* Proofs about one VM's actors on one host (VmHost), for any number of    *)
(* actors, any set of disks, any receivers and any number of failing       *)
(* calls: what an actor that has the host's resources for itself leaves    *)
(* behind, and that a migration's bookkeeping never loses its receiver.    *)
(***************************************************************************)
EXTENDS VmHost, TLAPS

-----------------------------------------------------------------------------
(* The inductive invariant.                                                *)

\* The states of a start in which create_config is done.
Configured == {"create", "boot", "after_boot", "attach"}

\* The request to migrate is the first message of a receiver and of nobody else; it
\* starts the receiver task, and the task's end is told last, when the task is gone.
MailOK(i) ==
    /\ \A k \in 2 .. Len(i.mailbox) : i.mailbox[k] # "Migrate"
    /\ i.mailbox # <<>> /\ i.mailbox[1] = "Migrate" =>
           /\ i.kind = "receive"
           /\ i.receiver = "none"
           /\ \A k \in 1 .. Len(i.mailbox) : i.mailbox[k] # "Finished"
    /\ (\E k \in 1 .. Len(i.mailbox) : i.mailbox[k] = "Finished")
           => i.receiver = "none"
    /\ i.pc \in Starting \cup {"unborn"} => i.receiver = "none"
    /\ i.pc = "run" /\ i.receiver # "none" => i.migrating

\* The VM lives in a running VMM, and its tap while it runs.
ProcOK(p) ==
    /\ p \in Vmm
    /\ p.vm # "none" => p.proc = "up"
    /\ p.tap # "none" => p.vm = "running"

\* An actor that has not called spawn yet has no process.
FreshOK(a) == inst[a].pc \in {"unborn", "spawn"} => vmm[a] = NoVmm

\* Neither another actor nor its process is there.
OthersQuiet(a) ==
    \A o \in Actor \ {a} : inst[o].pc \notin Alive /\ ~Running(o)

\* What an actor that is alone relies on: no process but its own can answer on the
\* socket, its process has answered before it goes on, the storage is what it has
\* mapped itself, and what it could not stop it has recorded.
OwnOK(a) ==
    /\ sock \in {NoActor, a}
    /\ inst[a].pc \notin {"spawn", "ping"} => vmm[a].proc # "starting"
    /\ inst[a].pc \in {"spawn", "ping", "transform"} => mapped = {}
    /\ inst[a].pc \in Configured \/ (inst[a].pc = "run" /\ inst[a].kind = "create") =>
           mapped = Disk /\ inst[a].config
    /\ inst[a].pc \in {"run"} \cup Stopping /\ mapped # {} => inst[a].config
    /\ /\ inst[a].pc \in {"attach", "run"} /\ inst[a].kind = "create"
       /\ inst[a].boot /\ Running(a)
       => vmm[a].vm = "running" /\ vmm[a].tap = "up"
    /\ inst[a].pc = "run" /\ inst[a].kind = "create" /\ Running(a) =>
           inst[a].console = "attached" /\ inst[a].watched
    /\ inst[a].pc = "purge" /\ Running(a) => "vmm" \in inst[a].excuse

AloneOK(a) ==
    inst[a].alone /\ inst[a].pc \in Alive => OthersQuiet(a) /\ OwnOK(a)

\* LeakedVmmHasCause for one actor.
LeakOK(a) ==
    inst[a].pc \in Settled /\ inst[a].alone /\ Running(a)
        => inst[a].excuse \cap {"console", "hook", "shutdown", "vmm"} # {}

\* Everything but the actors themselves has its type.
HostOK ==
    /\ vmm \in [Actor -> Vmm]
    /\ \A a \in Actor : ProcOK(vmm[a])
    /\ dir \in BOOLEAN
    /\ sock \in Actor \cup {NoActor}
    /\ sock # NoActor => dir
    /\ mapped \subseteq Disk
    /\ listed \in Actor \cup {NoActor}
    /\ asking \in Actor \cup {NoActor}
    /\ faults \in Nat

ActorOK(a) == MailOK(inst[a]) /\ FreshOK(a) /\ AloneOK(a) /\ LeakOK(a)

VmInv ==
    /\ inst \in [Actor -> Instance]
    /\ HostOK
    /\ \A a \in Actor : ActorOK(a)

-----------------------------------------------------------------------------
(* Records of actors and processes.                                        *)

\* The types of an instance's fields.
Pc == {"unborn", "run"} \cup Starting \cup Stopping \cup Settled
Kind == {"create", "receive"}
Seen == {"created", "running"}
Receiver == {"none", "waiting", "received", "done"}
ConsoleState == {"none", "retry", "attached"}
Mailbox == Seq(Message)
Excuses == SUBSET Excuse

\* Instance with the types of its fields named.
LEMMA InstanceDef ==
    Instance = [pc : Pc, kind : Kind, boot : BOOLEAN, mailbox : Mailbox,
                config : BOOLEAN, seen : Seen, watched : BOOLEAN,
                migrating : BOOLEAN, receiver : Receiver, prep : BOOLEAN,
                console : ConsoleState, excuse : Excuses, alone : BOOLEAN]
  BY DEF Instance, Pc, Kind, Seen, Receiver, ConsoleState, Mailbox, Excuses

\* An instance stays one when a field is given a value of its type.
LEMMA InstanceUpdate ==
    ASSUME NEW i \in Instance
    PROVE  /\ \A x \in Pc : [i EXCEPT !.pc = x] \in Instance
           /\ \A x \in Kind : [i EXCEPT !.kind = x] \in Instance
           /\ \A x \in BOOLEAN : [i EXCEPT !.boot = x] \in Instance
           /\ \A x \in Mailbox : [i EXCEPT !.mailbox = x] \in Instance
           /\ \A x \in BOOLEAN : [i EXCEPT !.config = x] \in Instance
           /\ \A x \in Seen : [i EXCEPT !.seen = x] \in Instance
           /\ \A x \in BOOLEAN : [i EXCEPT !.watched = x] \in Instance
           /\ \A x \in BOOLEAN : [i EXCEPT !.migrating = x] \in Instance
           /\ \A x \in Receiver : [i EXCEPT !.receiver = x] \in Instance
           /\ \A x \in BOOLEAN : [i EXCEPT !.prep = x] \in Instance
           /\ \A x \in ConsoleState : [i EXCEPT !.console = x] \in Instance
           /\ \A x \in Excuses : [i EXCEPT !.excuse = x] \in Instance
           /\ \A x \in BOOLEAN : [i EXCEPT !.alone = x] \in Instance
  BY InstanceDef

\* The record of an actor that does not exist yet.
LEMMA UnbornInstance == Unborn \in Instance
<1>1. /\ "unborn" \in Pc /\ "create" \in Kind /\ "created" \in Seen
      /\ "none" \in Receiver /\ "none" \in ConsoleState
      /\ <<>> \in Mailbox /\ {} \in Excuses
  BY DEF Pc, Kind, Seen, Receiver, ConsoleState, Mailbox, Excuses
<1> QED BY <1>1, InstanceDef DEF Unborn

\* What is left of an actor is an instance, with an empty mailbox.
LEMMA RemainsFacts ==
    ASSUME inst \in [Actor -> Instance], NEW a \in Actor, NEW pc \in Pc,
           NEW excuse \in Excuses
    PROVE  LET i == Remains(a, pc, excuse)
           IN  /\ i \in Instance
               /\ i.pc = pc /\ i.excuse = excuse /\ i.mailbox = <<>>
               /\ i.alone = inst[a].alone /\ i.receiver = inst[a].receiver
<1> DEFINE i == Remains(a, pc, excuse)
<1>1. inst[a].alone \in BOOLEAN /\ inst[a].receiver \in Receiver
  BY InstanceDef
<1>2. [Unborn EXCEPT !.pc = pc] \in Instance
  BY UnbornInstance, InstanceUpdate
<1>3. [[Unborn EXCEPT !.pc = pc] EXCEPT !.excuse = excuse] \in Instance
  BY <1>2, InstanceUpdate
<1> DEFINE j == [[[Unborn EXCEPT !.pc = pc] EXCEPT !.excuse = excuse]
                    EXCEPT !.alone = inst[a].alone]
<1>4. j \in Instance
  BY <1>1, <1>3, InstanceUpdate
<1>5. i = [j EXCEPT !.receiver = inst[a].receiver]
  BY DEF Remains
<1>6. i \in Instance
  <2> HIDE DEF j
  <2> QED BY <1>1, <1>4, <1>5, InstanceUpdate
<1>7. /\ i.pc = pc /\ i.excuse = excuse /\ i.mailbox = <<>>
      /\ i.alone = inst[a].alone /\ i.receiver = inst[a].receiver
  BY DEF Remains, Unborn
<1> QED BY <1>6, <1>7

\* A mailbox that is asked to take a message holds what it held, and at most the
\* message behind it.
LEMMA EnqueueFacts ==
    ASSUME NEW mb \in Mailbox, NEW msg \in Message, NEW q, q = Enqueue(mb, msg)
    PROVE  /\ q \in Mailbox
           /\ Len(mb) \in Nat /\ Len(q) \in Nat /\ Len(q) >= Len(mb)
           /\ \A k \in 1 .. Len(q) : \/ k \in 1 .. Len(mb) /\ q[k] = mb[k]
                                     \/ k = Len(mb) + 1 /\ q[k] = msg
<1>1. CASE q = mb
  BY <1>1 DEF Mailbox
<1>2. CASE q = Append(mb, msg)
  BY <1>2 DEF Mailbox
<1> QED BY <1>1, <1>2 DEF Enqueue

\* The mailbox behind its first message.
LEMMA RestFacts ==
    ASSUME NEW mb \in Mailbox, mb # <<>>
    PROVE  /\ Tail(mb) \in Mailbox
           /\ Len(mb) \in Nat /\ Len(mb) >= 1 /\ Len(Tail(mb)) = Len(mb) - 1
           /\ Head(mb) = mb[1]
           /\ \A k \in 1 .. Len(Tail(mb)) : /\ Tail(mb)[k] = mb[k + 1]
                                            /\ k + 1 \in 2 .. Len(mb)
  BY DEF Mailbox

-----------------------------------------------------------------------------
(* A step of one actor, or of something that acts for it.                  *)

\* What a process that is not the acting actor's own may undergo: it does not start
\* to run, and becomes another one only by an API call or by ending.
VmmKept(o) ==
    \/ vmm'[o] = vmm[o]
    \/ Running(o) /\ ~Running(o)'
    \/ vmm[o].proc = "up" /\ vmm'[o].proc = "up"

\* A process keeps the VM it runs and the tap of it.
VmKept(o) ==
    vmm[o].vm = "running" /\ Running(o)'
        => vmm'[o].vm = "running" /\ vmm'[o].tap = vmm[o].tap

\* An actor, or a process of it, that keeps every other actor from being alone.
Busy(a) == inst[a].pc \in Alive \/ Running(a)

\* The steps' common part: actor a becomes i, and what is shared changes only at the
\* hands of an actor or a process that is there.  What is left to show of a step is
\* about a itself.
LEMMA StepOK ==
    ASSUME VmInv, HostOK',
           NEW a \in Actor, NEW i \in Instance, inst' = [inst EXCEPT ![a] = i],
           i.alone = inst[a].alone,
           i.pc \in Alive => inst[a].pc \in Alive,
           MailOK(i),
           \A o \in Actor \ {a} : VmmKept(o),
           \/ Busy(a)
           \/ /\ UNCHANGED <<sock, mapped>>
              /\ ~Running(a)'
              /\ \A o \in Actor : VmKept(o),
           FreshOK(a)',
           LeakOK(a)',
           inst[a].alone /\ inst[a].pc \in Alive /\ OthersQuiet(a) /\ OwnOK(a)
               /\ i.pc \in Alive => OwnOK(a)'
    PROVE  VmInv'
<1>1. inst \in [Actor -> Instance] /\ HostOK
  BY DEF VmInv
<1>2. inst' \in [Actor -> Instance] /\ inst'[a] = i
      /\ \A b \in Actor \ {a} : inst'[b] = inst[b]
  BY <1>1
<1>3. \A b \in Actor : ActorOK(b)
  BY DEF VmInv
<1>4. \A o \in Actor \ {a} : Running(o)' => Running(o)
  BY DEF VmmKept, Running
<1>5. ActorOK(a)'
  <2>1. MailOK(inst[a])'
    BY <1>2 DEF MailOK
  <2>2. AloneOK(a)'
    <3> SUFFICES ASSUME inst[a].alone, i.pc \in Alive
                 PROVE  OthersQuiet(a)' /\ OwnOK(a)'
      BY <1>2 DEF AloneOK
    <3>1. OthersQuiet(a) /\ OwnOK(a)
      BY <1>3 DEF ActorOK, AloneOK
    <3>2. OthersQuiet(a)'
      BY <1>2, <1>4, <3>1 DEF OthersQuiet
    <3> QED BY <3>1, <3>2
  <2> QED BY <2>1, <2>2 DEF ActorOK
<1>6. ASSUME NEW b \in Actor \ {a}
      PROVE  ActorOK(b)'
  <2>1. ActorOK(b) /\ inst'[b] = inst[b]
    BY <1>2, <1>3
  <2>2. MailOK(inst[b])'
    BY <2>1 DEF ActorOK, MailOK
  <2>3. FreshOK(b)'
    BY <2>1 DEF ActorOK, FreshOK, VmmKept, Running, NoVmm
  <2>4. LeakOK(b)'
    BY <1>4, <2>1 DEF ActorOK, LeakOK
  <2>5. AloneOK(b)'
    <3> SUFFICES ASSUME inst[b].alone, inst[b].pc \in Alive
                 PROVE  OthersQuiet(b)' /\ OwnOK(b)'
      BY <2>1 DEF AloneOK
    <3>1. OthersQuiet(b) /\ OwnOK(b)
      BY <2>1 DEF ActorOK, AloneOK
    <3>2. /\ ~Busy(a)
          /\ UNCHANGED <<sock, mapped>> /\ ~Running(a)' /\ VmKept(b)
      BY <3>1 DEF OthersQuiet, Busy
    <3>3. inst'[a].pc \notin Alive /\ ~Running(a)'
      BY <1>2, <3>2 DEF Busy
    <3>4. OthersQuiet(b)'
      BY <1>2, <1>4, <3>1, <3>3 DEF OthersQuiet
    <3>5. OwnOK(b)'
      <4>1. Running(b)' => Running(b)
        BY <1>4
      <4>2. vmm'[b].proc = "starting" => vmm[b].proc = "starting"
        BY DEF VmmKept, Running
      <4> QED BY <2>1, <3>1, <3>2, <4>1, <4>2 DEF OwnOK, VmKept
    <3> QED BY <3>4, <3>5
  <2> QED BY <2>2, <2>3, <2>4, <2>5 DEF ActorOK
<1> QED BY <1>2, <1>5, <1>6 DEF VmInv

\* The parts of the invariant an action's proof starts from.
LEMMA InvFacts ==
    ASSUME VmInv, NEW a \in Actor
    PROVE  /\ inst \in [Actor -> Instance] /\ inst[a] \in Instance
           /\ HostOK
           /\ vmm \in [Actor -> Vmm] /\ \A o \in Actor : ProcOK(vmm[o])
           /\ MailOK(inst[a]) /\ FreshOK(a) /\ AloneOK(a) /\ LeakOK(a)
  BY DEF VmInv, ActorOK, HostOK

\* A call that fails counts a failure at most.
LEMMA FailsFacts ==
    ASSUME faults \in Nat, NEW possible, Fails(possible)
    PROVE  faults' \in Nat
  BY DEF Fails, Fault

\* A change of one process keeps the rest of the host.
LEMMA HostVmm ==
    ASSUME HostOK, NEW o \in Actor, NEW p, ProcOK(p), vmm' = [vmm EXCEPT ![o] = p],
           dir' \in BOOLEAN, sock' \in Actor \cup {NoActor}, sock' # NoActor => dir',
           mapped' \subseteq Disk, listed' \in Actor \cup {NoActor},
           asking' \in Actor \cup {NoActor}, faults' \in Nat
    PROVE  /\ HostOK'
           /\ vmm'[o] = p /\ \A b \in Actor \ {o} : vmm'[b] = vmm[b]
<1>1. vmm \in [Actor -> Vmm] /\ p \in Vmm
  BY DEF HostOK, ProcOK
<1>2. vmm' \in [Actor -> Vmm] /\ vmm'[o] = p /\ \A b \in Actor \ {o} : vmm'[b] = vmm[b]
  BY <1>1
<1>3. ASSUME NEW b \in Actor
      PROVE  ProcOK(vmm[b])'
  <2>1. ProcOK(vmm'[b])
    BY <1>2 DEF HostOK
  <2> QED BY <2>1 DEF ProcOK
<1> QED BY <1>2, <1>3 DEF HostOK

\* The same when no process changes.
LEMMA HostSame ==
    ASSUME HostOK, vmm' = vmm,
           dir' \in BOOLEAN, sock' \in Actor \cup {NoActor}, sock' # NoActor => dir',
           mapped' \subseteq Disk, listed' \in Actor \cup {NoActor},
           asking' \in Actor \cup {NoActor}, faults' \in Nat
    PROVE  HostOK'
  BY DEF HostOK, ProcOK

\* The processes that occur: none, one that is dead, one that starts.
LEMMA ProcFacts ==
    /\ ProcOK(NoVmm) /\ ProcOK(Dead("exited")) /\ ProcOK(Dead("crashed"))
    /\ ProcOK([NoVmm EXCEPT !.proc = "starting"])
    /\ NoVmm.proc = "none" /\ Dead("exited").proc = "exited"
    /\ Dead("crashed").proc = "crashed"
  BY DEF ProcOK, NoVmm, Dead, Vmm

\* A step that ends an actor: what it leaves running has a cause.
LEMMA SettleOK ==
    ASSUME VmInv, HostOK', NEW a \in Actor, inst[a].pc \in Alive,
           NEW pc \in Settled, NEW excuse \in Excuses,
           inst' = [inst EXCEPT ![a] = Remains(a, pc, excuse)],
           \A o \in Actor \ {a} : VmmKept(o),
           inst[a].alone /\ Running(a)'
               => excuse \cap {"console", "hook", "shutdown", "vmm"} # {}
    PROVE  VmInv'
<1> DEFINE i == Remains(a, pc, excuse)
<1>1. inst \in [Actor -> Instance]
  BY DEF VmInv
<1>2. pc \in Pc /\ pc \notin Alive /\ pc \notin Starting \cup {"unborn", "run", "spawn"}
  BY DEF Pc, Settled, Alive, Starting, Stopping
<1>3. /\ i \in Instance
      /\ i.pc = pc /\ i.excuse = excuse /\ i.mailbox = <<>> /\ i.alone = inst[a].alone
  BY <1>1, <1>2, RemainsFacts
<1> HIDE DEF i
<1>4. inst' = [inst EXCEPT ![a] = i] /\ inst'[a] = i
  BY <1>1 DEF i
<1>5. MailOK(i)
  BY <1>2, <1>3 DEF MailOK
<1>6. FreshOK(a)' /\ LeakOK(a)'
  BY <1>2, <1>3, <1>4 DEF FreshOK, LeakOK
<1> QED BY <1>2, <1>3, <1>4, <1>5, <1>6, StepOK DEF Busy

\* A step that changes nothing but an actor's mailbox and its tasks.
LEMMA MinorOK ==
    ASSUME VmInv, HostOK', NEW a \in Actor, NEW i \in Instance,
           inst' = [inst EXCEPT ![a] = i],
           i.pc = inst[a].pc, i.alone = inst[a].alone, i.kind = inst[a].kind,
           i.boot = inst[a].boot, i.excuse = inst[a].excuse,
           i.config = inst[a].config, i.watched = inst[a].watched,
           i.console \in {inst[a].console, "attached"},
           MailOK(i), UNCHANGED <<vmm, sock, mapped>>
    PROVE  VmInv'
<1>1. inst \in [Actor -> Instance] /\ inst'[a] = i /\ ActorOK(a)
  BY DEF VmInv
<1>2. FreshOK(a)' /\ LeakOK(a)'
  BY <1>1 DEF ActorOK, FreshOK, LeakOK, Running
<1>3. OwnOK(a) => OwnOK(a)'
  BY <1>1 DEF OwnOK, Running
<1>4. \A o \in Actor : VmmKept(o) /\ VmKept(o) /\ (Running(o)' => Running(o))
  BY DEF VmmKept, VmKept, Running
<1> QED BY <1>2, <1>3, <1>4, StepOK DEF Busy

\* on_stop begins: what the actor's configuration names is still mapped.
LEMMA BeginStopOK ==
    ASSUME VmInv, HostOK', NEW a \in Actor, inst[a].pc = "run",
           NEW w \in BOOLEAN,
           inst' = [inst EXCEPT ![a] = [BeginStop(a) EXCEPT !.watched = w]],
           UNCHANGED <<sock, mapped>>,
           \A o \in Actor \ {a} : vmm'[o] = vmm[o],
           vmm'[a] \in {vmm[a], NoVmm}
    PROVE  VmInv'
<1> DEFINE r == Remains(a, "info", inst[a].excuse)
           s == [r EXCEPT !.config = inst[a].config]
           t == [s EXCEPT !.watched = inst[a].watched]
           i == [t EXCEPT !.watched = w]
<1>1. inst \in [Actor -> Instance] /\ ActorOK(a)
  BY DEF VmInv
<1>2. /\ "info" \in Pc /\ "info" \in Alive /\ "run" \in Alive
      /\ "info" \notin Starting \cup {"unborn"}
      /\ "info" \notin Configured /\ "info" \notin Settled
  BY DEF Pc, Alive, Starting, Stopping, Configured, Settled
<1>3. /\ inst[a].excuse \in Excuses /\ inst[a].config \in BOOLEAN
      /\ inst[a].watched \in BOOLEAN
  BY <1>1, InstanceDef
<1>4. /\ r \in Instance
      /\ r.pc = "info" /\ r.mailbox = <<>> /\ r.alone = inst[a].alone
  BY <1>1, <1>2, <1>3, RemainsFacts
<1>5. inst' = [inst EXCEPT ![a] = i]
  BY DEF BeginStop
<1> HIDE DEF r
<1>6. s \in Instance
  BY <1>3, <1>4, InstanceUpdate
<1>7. t \in Instance
  <2> HIDE DEF s
  <2> QED BY <1>3, <1>6, InstanceUpdate
<1>8. i \in Instance
  <2> HIDE DEF t
  <2> QED BY <1>7, InstanceUpdate
<1>9. /\ i.pc = "info" /\ i.mailbox = <<>> /\ i.alone = inst[a].alone
      /\ i.config = inst[a].config
  BY <1>4 DEF Instance
<1> HIDE DEF i
<1>10. inst'[a] = i
  BY <1>1, <1>5
<1>11. MailOK(i)
  BY <1>2, <1>9 DEF MailOK
<1>12. FreshOK(a)' /\ LeakOK(a)'
  BY <1>2, <1>9, <1>10 DEF FreshOK, LeakOK
<1>13. OwnOK(a) => OwnOK(a)'
  BY <1>2, <1>9, <1>10, ProcFacts DEF OwnOK
<1>14. \A o \in Actor \ {a} : VmmKept(o)
  BY DEF VmmKept
<1> QED BY <1>2, <1>5, <1>8, <1>9, <1>11, <1>12, <1>13, <1>14, StepOK DEF Busy

-----------------------------------------------------------------------------
(* Who answers an actor that is alone.                                     *)

\* Only its own process, and that one has a VM or a tap.
LEMMA AloneReaches ==
    ASSUME VmInv, NEW a \in Actor, OthersQuiet(a), OwnOK(a), NEW o \in Actor
    PROVE  /\ Reaches(o) => o = a /\ vmm[a].proc = "up"
           /\ vmm[o].tap # "none" => o = a
<1>1. ProcOK(vmm[o])
  BY DEF VmInv, HostOK
<1> QED BY <1>1 DEF OthersQuiet, OwnOK, Reaches, Running, ProcOK, NoActor, Actor

\* A process that was called stays up or ends.
LEMMA CalledKept ==
    ASSUME VmInv, NEW o \in Actor, vmm[o].proc = "up", NEW p, ProcOK(p),
           p.proc \in {"up", "exited", "crashed", "none"},
           vmm' = [vmm EXCEPT ![o] = p]
    PROVE  \A b \in Actor : VmmKept(b)
<1>1. vmm \in [Actor -> Vmm]
  BY DEF VmInv, HostOK
<1> QED BY <1>1 DEF VmmKept, Running

-----------------------------------------------------------------------------
(* on_start.                                                               *)

\* A start that fails has killed its child, or never had one.
LEMMA StartFails ==
    ASSUME VmInv, NEW a \in Actor, inst[a].pc \in Alive, inst' = Failed(a, "start"),
           \/ StopChild(a)
           \/ UNCHANGED vmm /\ ~Running(a),
           dir' \in BOOLEAN, dir => dir', UNCHANGED sock, mapped' \subseteq Disk,
           UNCHANGED agentVars, faults' \in Nat
    PROVE  VmInv'
<1>1. HostOK /\ inst \in [Actor -> Instance] /\ inst[a] \in Instance
  BY DEF VmInv
<1>2. /\ sock' \in Actor \cup {NoActor} /\ (sock' # NoActor => dir')
      /\ listed' \in Actor \cup {NoActor} /\ asking' \in Actor \cup {NoActor}
  BY <1>1 DEF HostOK, agentVars
<1>3. /\ HostOK' /\ ~Running(a)' /\ \A o \in Actor \ {a} : VmmKept(o)
  <2>1. CASE StopChild(a)
    <3>1. vmm' = [vmm EXCEPT ![a] = NoVmm]
      BY <2>1 DEF StopChild
    <3>2. HostOK' /\ vmm'[a] = NoVmm /\ \A b \in Actor \ {a} : vmm'[b] = vmm[b]
      BY <1>1, <1>2, <3>1, HostVmm, ProcFacts
    <3> QED BY <3>2, ProcFacts DEF Running, VmmKept
  <2>2. CASE UNCHANGED vmm /\ ~Running(a)
    <3>1. HostOK'
      BY <1>1, <1>2, <2>2, HostSame
    <3> QED BY <2>2, <3>1 DEF Running, VmmKept
  <2> QED BY <2>1, <2>2
<1>4. Because(a, "start") \in Excuses
  BY <1>1, InstanceDef DEF Because, Excuses, Excuse
<1>5. inst' = [inst EXCEPT ![a] = Remains(a, "failed", Because(a, "start"))]
  BY DEF Failed
<1> QED BY <1>3, <1>4, <1>5, SettleOK DEF Settled

\* A start that goes on, from one state of on_start to a later one.
LEMMA StartGoesOn ==
    ASSUME VmInv, HostOK', NEW a \in Actor, NEW i \in Instance,
           inst[a].pc \in Starting, i.pc \in (Starting \ {"spawn"}) \cup {"run"},
           i.mailbox = inst[a].mailbox, i.kind = inst[a].kind,
           i.alone = inst[a].alone, i.receiver = inst[a].receiver,
           inst' = [inst EXCEPT ![a] = i],
           \A o \in Actor \ {a} : VmmKept(o),
           inst[a].alone /\ OthersQuiet(a) /\ OwnOK(a) => OwnOK(a)'
    PROVE  VmInv'
<1>1. inst \in [Actor -> Instance] /\ MailOK(inst[a]) /\ inst'[a] = i
  BY DEF VmInv, ActorOK
<1>2. inst[a].pc \in Alive /\ i.pc \notin Settled \cup {"unborn", "spawn"}
  BY DEF Alive, Starting, Settled
<1>3. MailOK(i)
  BY <1>1 DEF MailOK
<1>4. FreshOK(a)' /\ LeakOK(a)'
  BY <1>1, <1>2 DEF FreshOK, LeakOK
<1> QED BY <1>2, <1>3, <1>4, StepOK DEF Busy

\* The directory and the child, or an error before the child.
LEMMA SpawnVmmOK ==
    ASSUME VmInv, NEW a \in Actor, SpawnVmm(a)
    PROVE  VmInv'
<1>1. /\ inst \in [Actor -> Instance] /\ inst[a] \in Instance /\ HostOK /\ FreshOK(a)
  BY InvFacts
<1>2. inst[a].pc = "spawn" /\ UNCHANGED <<sock, mapped, agentVars>>
  BY DEF SpawnVmm
<1>3. vmm[a] = NoVmm /\ ~Running(a)
  BY <1>1, <1>2, ProcFacts DEF FreshOK, Running
<1>4. /\ "spawn" \in Alive /\ "spawn" \in Starting /\ "ping" \in Pc
      /\ "ping" \in Starting \ {"spawn"}
      /\ "ping" \notin Configured \cup Stopping \cup {"run"}
  BY DEF Alive, Starting, Stopping, Pc, Configured
<1>5. CASE /\ dir' = TRUE
           /\ vmm' = [vmm EXCEPT ![a] = [NoVmm EXCEPT !.proc = "starting"]]
           /\ inst' = [inst EXCEPT ![a].pc = "ping"]
           /\ UNCHANGED faults
  <2> DEFINE i == [inst[a] EXCEPT !.pc = "ping"]
             p == [NoVmm EXCEPT !.proc = "starting"]
  <2>1. i \in Instance
    BY <1>1, <1>4, InstanceUpdate
  <2>2. /\ i.pc = "ping" /\ i.mailbox = inst[a].mailbox /\ i.kind = inst[a].kind
        /\ i.alone = inst[a].alone /\ i.receiver = inst[a].receiver
    BY <1>1 DEF Instance
  <2>3. inst' = [inst EXCEPT ![a] = i] /\ inst'[a] = i
    BY <1>1, <1>5
  <2>4. ProcOK(p)
    BY ProcFacts
  <2> HIDE DEF i, p
  <2>5. vmm' = [vmm EXCEPT ![a] = p]
    BY <1>5 DEF p
  <2>6. HostOK' /\ \A b \in Actor \ {a} : vmm'[b] = vmm[b]
    BY <1>1, <1>2, <1>5, <2>4, <2>5, HostVmm DEF HostOK, agentVars
  <2>7. OwnOK(a) => OwnOK(a)'
    BY <1>2, <1>4, <2>2, <2>3 DEF OwnOK
  <2> QED BY <1>2, <1>4, <2>1, <2>2, <2>3, <2>6, <2>7, StartGoesOn DEF VmmKept
<1>6. ASSUME inst' = Failed(a, "start"), UNCHANGED vmm, dir' \in {dir, TRUE},
             faults' \in Nat
      PROVE  VmInv'
  <2>1. mapped' \subseteq Disk
    BY <1>1, <1>2 DEF HostOK
  <2>2. dir \in BOOLEAN
    BY <1>1 DEF HostOK
  <2>3. dir' \in BOOLEAN /\ (dir => dir')
    <3>1. CASE dir' = dir
      BY <2>2, <3>1
    <3>2. CASE dir' = TRUE
      BY <3>2
    <3> QED BY <1>6, <3>1, <3>2
  <2>4. inst[a].pc \in Alive /\ UNCHANGED sock /\ UNCHANGED agentVars
    BY <1>2, <1>4
  <2> QED BY <1>3, <1>6, <2>1, <2>3, <2>4, StartFails
<1>7. CASE inst' = Failed(a, "start") /\ UNCHANGED <<vmm, dir, faults>>
  BY <1>1, <1>6, <1>7 DEF HostOK
<1>8. CASE Fault /\ dir' \in {dir, TRUE} /\ inst' = Failed(a, "start") /\ UNCHANGED vmm
  <2>1. faults' \in Nat
    BY <1>1, <1>8 DEF HostOK, Fault
  <2> QED BY <1>6, <1>8, <2>1
<1> QED BY <1>5, <1>7, <1>8 DEF SpawnVmm

\* The ping that is answered to an actor that is alone comes from its own child.
LEMMA PingAnsweredOK ==
    ASSUME VmInv, NEW a \in Actor, PingAnswered(a)
    PROVE  VmInv'
<1>1. /\ inst \in [Actor -> Instance] /\ inst[a] \in Instance /\ HostOK
      /\ inst[a].kind \in Kind
  BY InvFacts, InstanceDef
<1>2. /\ inst[a].pc = "ping" /\ Answers
      /\ UNCHANGED <<vmm, dir, sock, mapped, agentVars, faults>>
  BY DEF PingAnswered
<1>3. HostOK'
  BY <1>1, <1>2, HostSame DEF HostOK, agentVars
<1>4. /\ "ping" \in Starting /\ {"transform", "run"} \subseteq Pc
      /\ "transform" \in Starting \ {"spawn"}
      /\ "transform" \notin Configured \cup Stopping /\ "run" \notin Configured
  BY DEF Starting, Stopping, Pc, Configured
<1>5. OthersQuiet(a) /\ OwnOK(a) => vmm[a].proc = "up" /\ mapped = {}
  BY <1>2, AloneReaches DEF Answers, OwnOK
<1>6. \A o \in Actor : VmmKept(o)
  BY <1>2 DEF VmmKept
<1>7. CASE inst[a].kind = "create"
  <2> DEFINE i == [inst[a] EXCEPT !.pc = "transform"]
  <2>1. i \in Instance
    BY <1>1, <1>4, InstanceUpdate
  <2>2. /\ i.pc = "transform" /\ i.mailbox = inst[a].mailbox
        /\ i.kind = inst[a].kind /\ i.alone = inst[a].alone
        /\ i.receiver = inst[a].receiver
    BY <1>1 DEF Instance
  <2>3. inst' = [inst EXCEPT ![a] = i] /\ inst'[a] = i
    BY <1>1, <1>7 DEF PingAnswered
  <2> HIDE DEF i
  <2>4. OthersQuiet(a) /\ OwnOK(a) => OwnOK(a)'
    BY <1>2, <1>4, <1>5, <2>2, <2>3 DEF OwnOK
  <2> QED BY <1>2, <1>3, <1>4, <1>6, <2>1, <2>2, <2>3, <2>4, StartGoesOn
<1>8. CASE inst[a].kind = "receive"
  <2> DEFINE j == [inst[a] EXCEPT !.pc = "run"]
             i == [j EXCEPT !.watched = TRUE]
  <2>1. j \in Instance
    BY <1>1, <1>4, InstanceUpdate
  <2>2. i \in Instance
    <3> HIDE DEF j
    <3> QED BY <2>1, InstanceUpdate
  <2>3. /\ i.pc = "run" /\ i.mailbox = inst[a].mailbox
        /\ i.kind = inst[a].kind /\ i.alone = inst[a].alone
        /\ i.receiver = inst[a].receiver
    BY <1>1 DEF Instance
  <2>4. inst' = [inst EXCEPT ![a] = i] /\ inst'[a] = i
    BY <1>1, <1>8 DEF PingAnswered
  <2> HIDE DEF i
  <2>5. OthersQuiet(a) /\ OwnOK(a) => OwnOK(a)'
    BY <1>2, <1>4, <1>5, <1>8, <2>3, <2>4 DEF OwnOK
  <2> QED BY <1>2, <1>3, <1>4, <1>6, <2>2, <2>3, <2>4, <2>5, StartGoesOn
<1> QED BY <1>1, <1>7, <1>8 DEF Kind

\* No answer: the child is killed.
LEMMA PingTimesOutOK ==
    ASSUME VmInv, NEW a \in Actor, PingTimesOut(a)
    PROVE  VmInv'
<1>1. HostOK /\ faults \in Nat
  BY InvFacts DEF HostOK
<1>2. inst[a].pc \in Alive
  BY DEF PingTimesOut, Alive, Starting
<1>3. faults' \in Nat
  BY <1>1, FailsFacts DEF PingTimesOut
<1> QED BY <1>1, <1>2, <1>3, StartFails DEF PingTimesOut, HostOK

\* All disks are mapped and named by the configuration, or the start fails.
LEMMA TransformOK ==
    ASSUME VmInv, NEW a \in Actor, Transform(a)
    PROVE  VmInv'
<1>1. /\ inst \in [Actor -> Instance] /\ inst[a] \in Instance /\ HostOK
  BY InvFacts
<1>2. inst[a].pc = "transform" /\ UNCHANGED <<dir, sock, agentVars, faults>>
  BY DEF Transform
<1>3. /\ "transform" \in Starting /\ "transform" \in Alive /\ "create" \in Pc
      /\ "create" \in Starting \ {"spawn"}
      /\ "create" \notin Stopping
  BY DEF Starting, Stopping, Pc, Alive
<1>4. CASE /\ mapped' = mapped \cup Disk
           /\ inst' = [inst EXCEPT ![a].pc = "create", ![a].config = TRUE]
           /\ UNCHANGED vmm
  <2> DEFINE j == [inst[a] EXCEPT !.pc = "create"]
             i == [j EXCEPT !.config = TRUE]
  <2>1. j \in Instance
    BY <1>1, <1>3, InstanceUpdate
  <2>2. i \in Instance
    <3> HIDE DEF j
    <3> QED BY <2>1, InstanceUpdate
  <2>3. /\ i.pc = "create" /\ i.mailbox = inst[a].mailbox
        /\ i.kind = inst[a].kind /\ i.alone = inst[a].alone
        /\ i.receiver = inst[a].receiver /\ i.config = TRUE
    BY <1>1 DEF Instance
  <2>4. inst' = [inst EXCEPT ![a] = i] /\ inst'[a] = i
    BY <1>1, <1>4
  <2> HIDE DEF i
  <2>5. mapped' = Disk
    BY <1>1, <1>4 DEF HostOK
  <2>6. HostOK'
    BY <1>1, <1>2, <1>4, <2>5, HostSame DEF HostOK, agentVars
  <2>7. OwnOK(a) => OwnOK(a)'
    BY <1>2, <1>3, <1>4, <2>3, <2>4, <2>5 DEF OwnOK
  <2>8. \A o \in Actor : VmmKept(o)
    BY <1>4 DEF VmmKept
  <2> QED BY <1>2, <1>3, <2>2, <2>3, <2>4, <2>6, <2>7, <2>8, StartGoesOn
<1>5. CASE /\ \E done \in SUBSET Disk : mapped' = mapped \cup done
           /\ inst' = Failed(a, "start") /\ StopChild(a)
  <2>1. mapped' \subseteq Disk
    BY <1>1, <1>5 DEF HostOK
  <2> QED BY <1>1, <1>2, <1>3, <1>5, <2>1, StartFails DEF HostOK
<1> QED BY <1>4, <1>5 DEF Transform

\* The VM is created in the process that answers.
LEMMA CreateVmOK ==
    ASSUME VmInv, NEW a \in Actor, CreateVm(a)
    PROVE  VmInv'
<1>1. /\ inst \in [Actor -> Instance] /\ inst[a] \in Instance /\ HostOK
      /\ vmm \in [Actor -> Vmm] /\ inst[a].boot \in BOOLEAN
  BY InvFacts, InstanceDef
<1>2. inst[a].pc = "create" /\ UNCHANGED <<dir, sock, mapped, agentVars>>
  BY DEF CreateVm
<1>3. /\ "create" \in Starting /\ "create" \in Alive /\ {"boot", "attach"} \subseteq Pc
      /\ {"boot", "attach"} \subseteq Starting \ {"spawn"}
      /\ "create" \in Configured
      /\ "boot" \notin Stopping /\ "attach" \notin Stopping
  BY DEF Starting, Stopping, Pc, Alive, Configured
<1>4. ASSUME NEW o \in Actor, Holds(o, {"none"}),
             vmm' = [vmm EXCEPT ![o].vm = "created"],
             inst' = [inst EXCEPT ![a].pc = IF inst[a].boot THEN "boot" ELSE "attach"],
             UNCHANGED faults
      PROVE  VmInv'
  <2> DEFINE next == IF inst[a].boot THEN "boot" ELSE "attach"
             i == [inst[a] EXCEPT !.pc = next]
             p == [vmm[o] EXCEPT !.vm = "created"]
  <2>1. i \in Instance
    BY <1>1, <1>3, InstanceUpdate
  <2>2. /\ i.pc = next /\ i.mailbox = inst[a].mailbox /\ i.kind = inst[a].kind
        /\ i.alone = inst[a].alone /\ i.receiver = inst[a].receiver
        /\ i.config = inst[a].config /\ i.boot = inst[a].boot
    BY <1>1 DEF Instance
  <2>3. inst' = [inst EXCEPT ![a] = i] /\ inst'[a] = i
    BY <1>1, <1>4
  <2>4. ProcOK(vmm[o]) /\ vmm[o].proc = "up" /\ vmm[o].vm = "none"
    BY <1>1, <1>4 DEF Holds, Reaches, HostOK
  <2>5. ProcOK(p) /\ p.proc = "up"
    BY <2>4 DEF ProcOK, Vmm
  <2>6. vmm' = [vmm EXCEPT ![o] = p]
    BY <1>1, <1>4
  <2> HIDE DEF i, p
  <2>7. HostOK' /\ vmm'[o] = p /\ \A b \in Actor \ {o} : vmm'[b] = vmm[b]
    BY <1>1, <1>2, <1>4, <2>5, <2>6, HostVmm DEF HostOK, agentVars
  <2>8. \A b \in Actor : VmmKept(b)
    BY <2>4, <2>5, <2>6, CalledKept
  <2>9. vmm'[a].proc = "starting" => vmm[a].proc = "starting"
    BY <2>5, <2>7
  <2>10. OwnOK(a) => OwnOK(a)'
    BY <1>2, <1>3, <2>2, <2>3, <2>9 DEF OwnOK
  <2>11. i.pc \in Starting \ {"spawn"}
    BY <1>3, <2>2
  <2> QED BY <1>2, <1>3, <2>1, <2>2, <2>3, <2>7, <2>8, <2>10, <2>11, StartGoesOn
<1>5. CASE /\ Fails(AnswersWith({"none"}))
           /\ inst' = Failed(a, "start") /\ StopChild(a)
  <2>1. faults' \in Nat
    BY <1>1, <1>5, FailsFacts DEF HostOK
  <2> QED BY <1>1, <1>2, <1>3, <1>5, <2>1, StartFails DEF HostOK
<1> QED BY <1>4, <1>5 DEF CreateVm

\* The VM is booted in the process that answers.
LEMMA BootVmOK ==
    ASSUME VmInv, NEW a \in Actor, BootVm(a)
    PROVE  VmInv'
<1>1. /\ inst \in [Actor -> Instance] /\ inst[a] \in Instance /\ HostOK
      /\ vmm \in [Actor -> Vmm]
  BY InvFacts
<1>2. inst[a].pc = "boot" /\ UNCHANGED <<dir, sock, mapped, agentVars>>
  BY DEF BootVm
<1>3. /\ "boot" \in Starting /\ "boot" \in Alive /\ "after_boot" \in Pc
      /\ "after_boot" \in Starting \ {"spawn"}
      /\ "boot" \in Configured /\ "after_boot" \notin Stopping
  BY DEF Starting, Stopping, Pc, Alive, Configured
<1>4. ASSUME NEW o \in Actor, Holds(o, {"created"}),
             vmm' = [vmm EXCEPT ![o].vm = "running", ![o].tap = "free"],
             inst' = [inst EXCEPT ![a].pc = "after_boot"], UNCHANGED faults
      PROVE  VmInv'
  <2> DEFINE i == [inst[a] EXCEPT !.pc = "after_boot"]
             p == [vmm[o] EXCEPT !.vm = "running", !.tap = "free"]
  <2>1. i \in Instance
    BY <1>1, <1>3, InstanceUpdate
  <2>2. /\ i.pc = "after_boot" /\ i.mailbox = inst[a].mailbox
        /\ i.kind = inst[a].kind /\ i.alone = inst[a].alone
        /\ i.receiver = inst[a].receiver /\ i.config = inst[a].config
    BY <1>1 DEF Instance
  <2>3. inst' = [inst EXCEPT ![a] = i] /\ inst'[a] = i
    BY <1>1, <1>4
  <2>4. ProcOK(vmm[o]) /\ vmm[o].proc = "up"
    BY <1>1, <1>4 DEF Holds, Reaches, HostOK
  <2>5. ProcOK(p) /\ p.proc = "up"
    BY <2>4 DEF ProcOK, Vmm
  <2>6. vmm' = [vmm EXCEPT ![o] = p]
    BY <1>1, <1>4
  <2> HIDE DEF i, p
  <2>7. HostOK' /\ vmm'[o] = p /\ \A b \in Actor \ {o} : vmm'[b] = vmm[b]
    BY <1>1, <1>2, <1>4, <2>5, <2>6, HostVmm DEF HostOK, agentVars
  <2>8. \A b \in Actor : VmmKept(b)
    BY <2>4, <2>5, <2>6, CalledKept
  <2>9. vmm'[a].proc = "starting" => vmm[a].proc = "starting"
    BY <2>5, <2>7
  <2>10. OwnOK(a) => OwnOK(a)'
    BY <1>2, <1>3, <2>2, <2>3, <2>9 DEF OwnOK
  <2> QED BY <1>2, <1>3, <2>1, <2>2, <2>3, <2>7, <2>8, <2>10, StartGoesOn
<1>5. CASE /\ Fails(AnswersWith({"created"}))
           /\ inst' = Failed(a, "start") /\ StopChild(a)
  <2>1. faults' \in Nat
    BY <1>1, <1>5, FailsFacts DEF HostOK
  <2> QED BY <1>1, <1>2, <1>3, <1>5, <2>1, StartFails DEF HostOK
<1> QED BY <1>4, <1>5 DEF BootVm

\* The tap is on the bridge and up when the start goes on.
LEMMA AfterBootOK ==
    ASSUME VmInv, NEW a \in Actor, AfterBoot(a)
    PROVE  VmInv'
<1>1. /\ inst \in [Actor -> Instance] /\ inst[a] \in Instance /\ HostOK
      /\ vmm \in [Actor -> Vmm]
  BY InvFacts
<1>2. inst[a].pc = "after_boot" /\ UNCHANGED <<dir, sock, mapped, agentVars>>
  BY DEF AfterBoot
<1>3. /\ "after_boot" \in Starting /\ "after_boot" \in Alive /\ "attach" \in Pc
      /\ "attach" \in Starting \ {"spawn"}
      /\ "after_boot" \in Configured /\ "attach" \notin Stopping
      /\ "failed" \in Settled
  BY DEF Starting, Stopping, Pc, Alive, Configured, Settled
<1>4. ASSUME NEW o \in Actor, Holds(o, {"running"}), vmm' = AttachTap(o),
             inst' = [inst EXCEPT ![a].pc = "attach"], UNCHANGED faults
      PROVE  VmInv'
  <2> DEFINE i == [inst[a] EXCEPT !.pc = "attach"]
             p == [vmm[o] EXCEPT !.tap = "up"]
  <2>1. i \in Instance
    BY <1>1, <1>3, InstanceUpdate
  <2>2. /\ i.pc = "attach" /\ i.mailbox = inst[a].mailbox
        /\ i.kind = inst[a].kind /\ i.alone = inst[a].alone
        /\ i.receiver = inst[a].receiver /\ i.config = inst[a].config
    BY <1>1 DEF Instance
  <2>3. inst' = [inst EXCEPT ![a] = i] /\ inst'[a] = i
    BY <1>1, <1>4
  <2>4. ProcOK(vmm[o]) /\ vmm[o].proc = "up" /\ vmm[o].vm = "running"
    BY <1>1, <1>4 DEF Holds, Reaches, HostOK
  <2>5. ProcOK(p) /\ p.proc = "up" /\ p.vm = "running" /\ p.tap = "up"
    BY <2>4 DEF ProcOK, Vmm
  <2>6. vmm' = [vmm EXCEPT ![o] = p]
    BY <1>1, <1>4 DEF AttachTap
  <2> HIDE DEF i, p
  <2>7. HostOK' /\ vmm'[o] = p /\ \A b \in Actor \ {o} : vmm'[b] = vmm[b]
    BY <1>1, <1>2, <1>4, <2>5, <2>6, HostVmm DEF HostOK, agentVars
  <2>8. \A b \in Actor : VmmKept(b)
    BY <2>4, <2>5, <2>6, CalledKept
  <2>9. OthersQuiet(a) /\ OwnOK(a) => OwnOK(a)'
    <3> SUFFICES ASSUME OthersQuiet(a), OwnOK(a)
                 PROVE  OwnOK(a)'
      OBVIOUS
    <3>1. o = a
      BY <1>4, AloneReaches DEF Holds
    <3> QED BY <1>2, <1>3, <2>2, <2>3, <2>5, <2>7, <3>1 DEF OwnOK
  <2> QED BY <1>2, <1>3, <2>1, <2>2, <2>3, <2>7, <2>8, <2>9, StartGoesOn
<1>5. ASSUME NEW o \in Actor, Holds(o, {"running"}), Fault,
             NEW tap \in {"free", "attached"},
             vmm' = [vmm EXCEPT ![o].tap = tap, ![a] = NoVmm],
             inst' = Failed(a, "start")
      PROVE  VmInv'
  <2> DEFINE p == [vmm[o] EXCEPT !.tap = tap]
  <2>1. ProcOK(vmm[o]) /\ vmm[o].proc = "up" /\ vmm[o].vm = "running"
    BY <1>1, <1>5 DEF Holds, Reaches, HostOK
  <2>2. ProcOK(p) /\ p.proc = "up"
    BY <2>1 DEF ProcOK, Vmm
  <2>3. \A b \in Actor : vmm'[b] = IF b = a THEN NoVmm ELSE IF b = o THEN p ELSE vmm[b]
    BY <1>1, <1>5
  <2>4. DOMAIN vmm' = Actor /\ vmm' = [b \in Actor |-> vmm'[b]]
    BY <1>1, <1>5
  <2> HIDE DEF p
  <2>5. \A b \in Actor : ProcOK(vmm'[b])
    BY <1>1, <2>2, <2>3, ProcFacts DEF HostOK
  <2>6. vmm' \in [Actor -> Vmm]
    BY <2>4, <2>5 DEF ProcOK
  <2>7. \A b \in Actor : ProcOK(vmm[b])'
    BY <2>5 DEF ProcOK
  <2>8. faults' \in Nat
    BY <1>1, <1>5 DEF HostOK, Fault
  <2>9. HostOK'
    BY <1>1, <1>2, <2>6, <2>7, <2>8 DEF HostOK, agentVars
  <2>10. \A b \in Actor \ {a} : VmmKept(b)
    BY <2>1, <2>2, <2>3 DEF VmmKept
  <2>11. ~Running(a)'
    BY <2>3, ProcFacts DEF Running
  <2>12. Because(a, "start") \in Excuses
    BY <1>1, InstanceDef DEF Because, Excuses, Excuse
  <2>13. inst' = [inst EXCEPT ![a] = Remains(a, "failed", Because(a, "start"))]
    BY <1>5 DEF Failed
  <2> QED BY <1>2, <1>3, <2>9, <2>10, <2>11, <2>12, <2>13, SettleOK
<1>6. CASE /\ Fails(AnswersWith({"running"}))
           /\ inst' = Failed(a, "start") /\ StopChild(a)
  <2>1. faults' \in Nat
    BY <1>1, <1>6, FailsFacts DEF HostOK
  <2> QED BY <1>1, <1>2, <1>3, <1>6, <2>1, StartFails DEF HostOK
<1> QED BY <1>4, <1>5, <1>6 DEF AfterBoot

\* The console, and with it the watcher of the child; or the child is dropped.
LEMMA AttachConsoleOK ==
    ASSUME VmInv, NEW a \in Actor, AttachConsole(a)
    PROVE  VmInv'
<1>1. /\ inst \in [Actor -> Instance] /\ inst[a] \in Instance /\ HostOK
      /\ inst[a].alone \in BOOLEAN
  BY InvFacts, InstanceDef
<1>2. inst[a].pc = "attach" /\ UNCHANGED <<vmm, dir, sock, mapped, agentVars>>
  BY DEF AttachConsole
<1>3. /\ "attach" \in Starting /\ "attach" \in Alive /\ "run" \in Pc
      /\ "attach" \in Configured /\ "failed" \in Settled /\ "attached" \in ConsoleState
      /\ "run" \notin Stopping
  BY DEF Starting, Stopping, Pc, Alive, Configured, Settled, ConsoleState
<1>4. faults' \in Nat /\ HostOK'
  <2>1. faults' \in Nat
    BY <1>1, FailsFacts DEF AttachConsole, HostOK
  <2> QED BY <1>1, <1>2, <2>1, HostSame DEF HostOK, agentVars
<1>5. \A o \in Actor : VmmKept(o)
  BY <1>2 DEF VmmKept
<1>6. CASE inst' = Started(a)
  <2> DEFINE j == [inst[a] EXCEPT !.pc = "run"]
             k == [j EXCEPT !.console = "attached"]
             i == [k EXCEPT !.watched = TRUE]
  <2>1. j \in Instance
    BY <1>1, <1>3, InstanceUpdate
  <2>2. k \in Instance
    <3> HIDE DEF j
    <3> QED BY <1>3, <2>1, InstanceUpdate
  <2>3. i \in Instance
    <3> HIDE DEF k
    <3> QED BY <2>2, InstanceUpdate
  <2>4. /\ i.pc = "run" /\ i.mailbox = inst[a].mailbox
        /\ i.kind = inst[a].kind /\ i.alone = inst[a].alone
        /\ i.receiver = inst[a].receiver /\ i.config = inst[a].config
        /\ i.boot = inst[a].boot
        /\ i.console = "attached" /\ i.watched = TRUE
    BY <1>1 DEF Instance
  <2>5. inst' = [inst EXCEPT ![a] = i] /\ inst'[a] = i
    BY <1>1, <1>6 DEF Started
  <2> HIDE DEF i
  <2>6. OwnOK(a) => OwnOK(a)'
    BY <1>2, <1>3, <2>4, <2>5 DEF OwnOK, Running
  <2> QED BY <1>2, <1>3, <1>4, <1>5, <2>3, <2>4, <2>5, <2>6, StartGoesOn
<1>7. CASE inst' = Failed(a, "console")
  <2>1. Because(a, "console") \in Excuses
    BY <1>1, InstanceDef DEF Because, Excuses, Excuse
  <2>2. inst[a].alone => "console" \in Because(a, "console")
    BY DEF Because
  <2>3. inst' = [inst EXCEPT ![a] = Remains(a, "failed", Because(a, "console"))]
    BY <1>7 DEF Failed
  <2> QED BY <1>2, <1>3, <1>4, <1>5, <2>1, <2>2, <2>3, SettleOK
<1> QED BY <1>6, <1>7 DEF AttachConsole

-----------------------------------------------------------------------------
(* Messages to and in a VM actor.                                          *)

\* A message that does not speak of a migration may be put behind any mailbox.
LEMMA EnqueueMailOK ==
    ASSUME NEW i \in Instance, MailOK(i), NEW j \in Instance,
           NEW mb \in Mailbox, NEW msg \in {"Prep", "Delete", "Stop"},
           \/ mb = i.mailbox
           \/ i.mailbox # <<>> /\ mb = Tail(i.mailbox),
           j.mailbox = Enqueue(mb, msg), j.kind = i.kind,
           j.receiver = i.receiver, j.pc = i.pc, j.migrating = i.migrating
    PROVE  MailOK(j)
<1>1. i.mailbox \in Mailbox /\ msg \in Message /\ msg # "Migrate" /\ msg # "Finished"
  BY InstanceDef DEF Message
<1>2. /\ Len(mb) \in Nat /\ Len(j.mailbox) \in Nat
      /\ \A k \in 1 .. Len(j.mailbox) :
            \/ k \in 1 .. Len(mb) /\ j.mailbox[k] = mb[k]
            \/ k = Len(mb) + 1 /\ j.mailbox[k] = msg
  BY <1>1, EnqueueFacts
<1>3. Len(i.mailbox) \in Nat
  BY <1>1 DEF Mailbox
<1>4. ASSUME NEW k \in 1 .. Len(mb)
      PROVE  \E m \in 1 .. Len(i.mailbox) : m >= k /\ i.mailbox[m] = mb[k]
  <2>1. CASE mb = i.mailbox
    BY <1>1, <2>1 DEF Mailbox
  <2>2. CASE i.mailbox # <<>> /\ mb = Tail(i.mailbox)
    <3>1. mb[k] = i.mailbox[k + 1] /\ k + 1 \in 1 .. Len(i.mailbox) /\ k + 1 >= k
      BY <1>1, <2>2, RestFacts
    <3> QED BY <3>1
  <2> QED BY <2>1, <2>2
<1>5. ASSUME NEW k \in 1 .. Len(j.mailbox), j.mailbox[k] \in {"Migrate", "Finished"}
      PROVE  \E m \in 1 .. Len(i.mailbox) : m >= k /\ i.mailbox[m] = j.mailbox[k]
  <2>1. k \in 1 .. Len(mb) /\ j.mailbox[k] = mb[k]
    BY <1>1, <1>2, <1>5
  <2> QED BY <1>4, <2>1
<1>6. ASSUME NEW k \in 1 .. Len(j.mailbox), j.mailbox[k] = "Migrate"
      PROVE  k = 1 /\ 1 \in 1 .. Len(i.mailbox) /\ i.mailbox[1] = "Migrate"
  <2>1. PICK m \in 1 .. Len(i.mailbox) : m >= k /\ i.mailbox[m] = "Migrate"
    BY <1>5, <1>6
  <2>2. m = 1
    BY <1>3, <2>1 DEF MailOK
  <2> QED BY <1>2, <1>3, <2>1, <2>2
<1>7. i.mailbox = <<>> => Len(i.mailbox) = 0
  OBVIOUS
<1>8. \A k \in 2 .. Len(j.mailbox) : j.mailbox[k] # "Migrate"
  BY <1>2, <1>6
<1>9. (\E k \in 1 .. Len(j.mailbox) : j.mailbox[k] = "Finished")
          => \E m \in 1 .. Len(i.mailbox) : i.mailbox[m] = "Finished"
  BY <1>5
<1>10. ASSUME j.mailbox # <<>>, j.mailbox[1] = "Migrate"
      PROVE  i.mailbox # <<>> /\ i.mailbox[1] = "Migrate"
  <2>1. 1 \in 1 .. Len(j.mailbox)
    <3>1. j.mailbox \in Mailbox
      BY InstanceDef
    <3> QED BY <1>2, <1>10, <3>1 DEF Mailbox
  <2> QED BY <1>3, <1>6, <1>7, <1>10, <2>1
<1> QED BY <1>8, <1>9, <1>10 DEF MailOK

\* What a tell does to its addressee.
LEMMA TellOK ==
    ASSUME VmInv, HostOK', NEW a \in Actor, NEW msg \in {"Prep", "Delete", "Stop"},
           NEW p \in BOOLEAN, inst' = [Tell(a, msg) EXCEPT ![a].prep = p],
           UNCHANGED <<vmm, sock, mapped>>
    PROVE  VmInv'
<1>1. /\ inst \in [Actor -> Instance] /\ inst[a] \in Instance /\ MailOK(inst[a])
      /\ inst[a].mailbox \in Mailbox
  BY InvFacts, InstanceDef
<1> DEFINE q == Enqueue(inst[a].mailbox, msg)
           j == [inst[a] EXCEPT !.mailbox = q]
<1>2. q \in Mailbox
  BY <1>1, EnqueueFacts DEF Message
<1>3. j \in Instance
  <2> HIDE DEF q
  <2> QED BY <1>1, <1>2, InstanceUpdate
<1>4. CASE inst[a].pc \in Starting \cup {"run"}
  <2> DEFINE i == [j EXCEPT !.prep = p]
  <2>1. i \in Instance
    <3> HIDE DEF j
    <3> QED BY <1>3, InstanceUpdate
  <2>2. inst' = [inst EXCEPT ![a] = i]
    BY <1>1, <1>4 DEF Tell
  <2>3. /\ i.pc = inst[a].pc /\ i.alone = inst[a].alone /\ i.kind = inst[a].kind
        /\ i.boot = inst[a].boot /\ i.excuse = inst[a].excuse
        /\ i.config = inst[a].config /\ i.watched = inst[a].watched
        /\ i.console = inst[a].console /\ i.mailbox = q
        /\ i.receiver = inst[a].receiver /\ i.migrating = inst[a].migrating
    <3> HIDE DEF q
    <3> QED BY <1>1 DEF Instance
  <2> HIDE DEF i
  <2>4. MailOK(i)
    BY <1>1, <2>1, <2>3, EnqueueMailOK
  <2> QED BY <2>1, <2>2, <2>3, <2>4, MinorOK
<1>5. CASE inst[a].pc \notin Starting \cup {"run"}
  <2> DEFINE i == [inst[a] EXCEPT !.prep = p]
  <2>1. i \in Instance
    BY <1>1, InstanceUpdate
  <2>2. inst' = [inst EXCEPT ![a] = i]
    BY <1>1, <1>5 DEF Tell
  <2>3. /\ i.pc = inst[a].pc /\ i.alone = inst[a].alone /\ i.kind = inst[a].kind
        /\ i.boot = inst[a].boot /\ i.excuse = inst[a].excuse
        /\ i.config = inst[a].config /\ i.watched = inst[a].watched
        /\ i.console = inst[a].console /\ i.mailbox = inst[a].mailbox
        /\ i.receiver = inst[a].receiver /\ i.migrating = inst[a].migrating
    BY <1>1 DEF Instance
  <2> HIDE DEF i
  <2>4. MailOK(i)
    BY <1>1, <2>3 DEF MailOK
  <2> QED BY <2>1, <2>2, <2>3, <2>4, MinorOK
<1> QED BY <1>4, <1>5

\* The same for a tell that leaves the other tasks alone.
LEMMA PlainTellOK ==
    ASSUME VmInv, HostOK', NEW a \in Actor, NEW msg \in {"Prep", "Delete", "Stop"},
           inst' = Tell(a, msg), UNCHANGED <<vmm, sock, mapped>>
    PROVE  VmInv'
<1>1. inst \in [Actor -> Instance] /\ inst[a] \in Instance /\ inst[a].prep \in BOOLEAN
  BY InvFacts, InstanceDef
<1>2. Tell(a, msg) = [Tell(a, msg) EXCEPT ![a].prep = inst[a].prep]
  BY <1>1 DEF Tell, Instance
<1> QED BY <1>1, <1>2, TellOK

\* The steps that change an actor's entry at most, or what the handler awaits.
LEMMA EntryOnlyOK ==
    ASSUME VmInv, UNCHANGED <<inst, vmm, dir, sock, mapped, faults>>,
           listed' \in Actor \cup {NoActor}, asking' \in Actor \cup {NoActor}
    PROVE  VmInv'
<1>1. HostOK'
  BY HostSame DEF VmInv, HostOK
<1>2. ASSUME NEW a \in Actor
      PROVE  ActorOK(a)'
  BY DEF VmInv, ActorOK, MailOK, FreshOK, AloneOK, LeakOK, OthersQuiet, OwnOK, Running
<1> QED BY <1>1, <1>2 DEF VmInv

-----------------------------------------------------------------------------
(* The handlers.                                                           *)

\* What a handler finds at the head of its mailbox.
LEMMA HandlesFacts ==
    ASSUME VmInv, NEW a \in Actor, NEW msg, Handles(a, msg)
    PROVE  /\ inst \in [Actor -> Instance] /\ inst[a] \in Instance /\ MailOK(inst[a])
           /\ inst[a].pc = "run" /\ "run" \in Alive /\ "run" \notin Starting \cup {"unborn"}
           /\ inst[a].mailbox \in Mailbox /\ inst[a].mailbox # <<>>
           /\ inst[a].mailbox[1] = msg /\ 1 \in 1 .. Len(inst[a].mailbox)
           /\ Rest(a) \in Mailbox /\ Rest(a) = Tail(inst[a].mailbox)
           /\ \A k \in 1 .. Len(Rest(a)) :
                 /\ Rest(a)[k] = inst[a].mailbox[k + 1]
                 /\ k + 1 \in 2 .. Len(inst[a].mailbox)
                 /\ k + 1 \in 1 .. Len(inst[a].mailbox)
                 /\ Rest(a)[k] # "Migrate"
<1>1. /\ inst \in [Actor -> Instance] /\ inst[a] \in Instance /\ MailOK(inst[a])
      /\ inst[a].mailbox \in Mailbox
  BY InvFacts, InstanceDef
<1>2. inst[a].pc = "run" /\ inst[a].mailbox # <<>> /\ Head(inst[a].mailbox) = msg
  BY DEF Handles
<1>3. "run" \in Alive /\ "run" \notin Starting \cup {"unborn"}
  BY DEF Alive, Starting
<1>4. /\ Tail(inst[a].mailbox) \in Mailbox /\ Head(inst[a].mailbox) = inst[a].mailbox[1]
      /\ Len(inst[a].mailbox) \in Nat /\ Len(inst[a].mailbox) >= 1
      /\ \A k \in 1 .. Len(Tail(inst[a].mailbox)) :
            /\ Tail(inst[a].mailbox)[k] = inst[a].mailbox[k + 1]
            /\ k + 1 \in 2 .. Len(inst[a].mailbox)
  BY <1>1, <1>2, RestFacts
<1>5. ASSUME NEW k \in 1 .. Len(Rest(a))
      PROVE  /\ Rest(a)[k] = inst[a].mailbox[k + 1]
             /\ k + 1 \in 2 .. Len(inst[a].mailbox)
             /\ k + 1 \in 1 .. Len(inst[a].mailbox)
             /\ Rest(a)[k] # "Migrate"
  BY <1>1, <1>4 DEF Rest, MailOK
<1> QED BY <1>1, <1>2, <1>3, <1>4, <1>5 DEF Rest

\* The receiver is recorded, or the actor stops.
LEMMA HandleMigrateOK ==
    ASSUME VmInv, NEW a \in Actor, HandleMigrate(a)
    PROVE  VmInv'
<1>1. Handles(a, "Migrate") /\ UNCHANGED <<vmm, dir, sock, mapped, faults>>
  BY DEF HandleMigrate
<1>2. /\ inst \in [Actor -> Instance] /\ inst[a] \in Instance /\ MailOK(inst[a])
      /\ inst[a].pc = "run" /\ "run" \in Alive /\ "run" \notin Starting \cup {"unborn"}
      /\ inst[a].mailbox # <<>> /\ inst[a].mailbox[1] = "Migrate"
      /\ Rest(a) \in Mailbox
      /\ \A k \in 1 .. Len(Rest(a)) :
            /\ Rest(a)[k] = inst[a].mailbox[k + 1]
            /\ k + 1 \in 1 .. Len(inst[a].mailbox)
            /\ Rest(a)[k] # "Migrate"
  BY <1>1, HandlesFacts
<1>3. HostOK /\ ActorOK(a)
  BY DEF VmInv
<1>4. HostOK'
  <2>1. listed' \in Actor \cup {NoActor} /\ asking' \in Actor \cup {NoActor}
    BY <1>3 DEF HandleMigrate, HostOK
  <2> QED BY <1>1, <1>3, <2>1, HostSame DEF HostOK
<1>5. CASE inst' = MigrationStarted(a)
  <2> DEFINE j == [inst[a] EXCEPT !.mailbox = Rest(a)]
             k == [j EXCEPT !.migrating = TRUE]
             l == [k EXCEPT !.receiver = "waiting"]
             m == [l EXCEPT !.console = "retry"]
             i == [m EXCEPT !.prep = TRUE]
  <2>1. j \in Instance
    BY <1>2, InstanceUpdate
  <2>2. k \in Instance
    <3> HIDE DEF j
    <3> QED BY <2>1, InstanceUpdate
  <2>3. l \in Instance
    <3> HIDE DEF k
    <3> QED BY <2>2, InstanceUpdate DEF Receiver
  <2>4. m \in Instance
    <3> HIDE DEF l
    <3> QED BY <2>3, InstanceUpdate DEF ConsoleState
  <2>5. i \in Instance
    <3> HIDE DEF m
    <3> QED BY <2>4, InstanceUpdate
  <2>6. /\ i.pc = inst[a].pc /\ i.alone = inst[a].alone /\ i.kind = inst[a].kind
        /\ i.boot = inst[a].boot /\ i.excuse = inst[a].excuse
        /\ i.config = inst[a].config /\ i.mailbox = Rest(a)
        /\ i.receiver = "waiting" /\ i.migrating = TRUE
    BY <1>2 DEF Instance
  <2>7. inst' = [inst EXCEPT ![a] = i] /\ inst'[a] = i
    BY <1>2, <1>5 DEF MigrationStarted
  <2> HIDE DEF i
  <2>8. inst[a].kind = "receive" /\ \A n \in 1 .. Len(Rest(a)) : Rest(a)[n] # "Finished"
    BY <1>2 DEF MailOK
  <2>9. MailOK(i)
    <3>1. \A n \in 2 .. Len(i.mailbox) : i.mailbox[n] # "Migrate"
      <4>1. Len(Rest(a)) \in Nat
        BY <1>2 DEF Mailbox
      <4> QED BY <1>2, <2>6, <4>1
    <3>2. i.mailbox # <<>> => i.mailbox[1] # "Migrate"
      <4>1. Rest(a) # <<>> => 1 \in 1 .. Len(Rest(a))
        BY <1>2 DEF Mailbox
      <4> QED BY <1>2, <2>6, <4>1
    <3> QED BY <1>2, <2>6, <2>8, <3>1, <3>2 DEF MailOK
  <2>10. FreshOK(a)' /\ LeakOK(a)'
    BY <1>2, <2>6, <2>7 DEF FreshOK, LeakOK, Settled
  <2>11. OwnOK(a) => OwnOK(a)'
    BY <1>1, <1>2, <2>6, <2>7, <2>8 DEF OwnOK, Running
  <2>12. \A o \in Actor : VmmKept(o)
    BY <1>1 DEF VmmKept
  <2> QED BY <1>2, <1>4, <2>5, <2>6, <2>7, <2>9, <2>10, <2>11, <2>12, StepOK DEF Busy
<1>6. CASE inst' = [inst EXCEPT ![a] = BeginStop(a)]
  <2>1. BeginStop(a) = [BeginStop(a) EXCEPT !.watched = inst[a].watched]
    BY DEF BeginStop, Remains, Unborn
  <2>2. inst[a].watched \in BOOLEAN
    BY <1>2, InstanceDef
  <2>3. inst' = [inst EXCEPT ![a] = [BeginStop(a) EXCEPT !.watched = inst[a].watched]]
    BY <1>6, <2>1
  <2> QED BY <1>1, <1>2, <1>4, <2>2, <2>3, BeginStopOK
<1> QED BY <1>5, <1>6 DEF HandleMigrate

\* A preparation, complete or not: what it maps, the configuration names.
LEMMA HandlePrepOK ==
    ASSUME VmInv, NEW a \in Actor, HandlePrep(a)
    PROVE  VmInv'
<1>1. Handles(a, "Prep") /\ UNCHANGED <<vmm, dir, sock, agentVars, faults>>
  BY DEF HandlePrep
<1>2. /\ inst \in [Actor -> Instance] /\ inst[a] \in Instance /\ MailOK(inst[a])
      /\ inst[a].pc = "run" /\ "run" \in Alive /\ "run" \notin Starting \cup {"unborn"}
      /\ Rest(a) \in Mailbox
      /\ \A k \in 1 .. Len(Rest(a)) :
            /\ Rest(a)[k] = inst[a].mailbox[k + 1]
            /\ k + 1 \in 1 .. Len(inst[a].mailbox)
            /\ Rest(a)[k] # "Migrate"
  BY <1>1, HandlesFacts
<1>3. PICK done \in SUBSET Disk :
          /\ mapped' = mapped \cup done
          /\ inst' = [inst EXCEPT ![a].mailbox = Rest(a), ![a].config = TRUE]
  BY DEF HandlePrep, PrepConfig
<1>4. HostOK /\ mapped \subseteq Disk /\ mapped' \subseteq Disk
  BY <1>3 DEF VmInv, HostOK
<1>5. HostOK'
  BY <1>1, <1>4, HostSame DEF HostOK, agentVars
<1> DEFINE j == [inst[a] EXCEPT !.mailbox = Rest(a)]
           i == [j EXCEPT !.config = TRUE]
<1>6. j \in Instance
  BY <1>2, InstanceUpdate
<1>7. i \in Instance
  <2> HIDE DEF j
  <2> QED BY <1>6, InstanceUpdate
<1>8. /\ i.pc = inst[a].pc /\ i.alone = inst[a].alone /\ i.kind = inst[a].kind
      /\ i.boot = inst[a].boot /\ i.excuse = inst[a].excuse
      /\ i.config = TRUE /\ i.mailbox = Rest(a) /\ i.watched = inst[a].watched
      /\ i.console = inst[a].console
      /\ i.receiver = inst[a].receiver /\ i.migrating = inst[a].migrating
  BY <1>2 DEF Instance
<1>9. inst' = [inst EXCEPT ![a] = i] /\ inst'[a] = i
  BY <1>2, <1>3
<1> HIDE DEF i
<1>10. MailOK(i)
  <2>1. Len(Rest(a)) \in Nat /\ (Rest(a) # <<>> => 1 \in 1 .. Len(Rest(a)))
    BY <1>2 DEF Mailbox
  <2> QED BY <1>2, <1>8, <2>1 DEF MailOK
<1>11. FreshOK(a)' /\ LeakOK(a)'
  BY <1>2, <1>8, <1>9 DEF FreshOK, LeakOK, Settled
<1>12. "run" \notin Stopping /\ "run" \notin Configured
  BY DEF Stopping, Configured
<1>13. OwnOK(a) => OwnOK(a)'
  BY <1>1, <1>2, <1>3, <1>4, <1>8, <1>9, <1>12 DEF OwnOK, Running
<1>14. \A o \in Actor : VmmKept(o)
  BY <1>1 DEF VmmKept
<1> QED BY <1>2, <1>5, <1>7, <1>8, <1>9, <1>10, <1>11, <1>13, <1>14, StepOK DEF Busy

\* The end of a migration: its receiver is gone by then.
LEMMA HandleFinishedOK ==
    ASSUME VmInv, NEW a \in Actor, HandleFinished(a)
    PROVE  VmInv'
<1>1. /\ Handles(a, "Finished") /\ UNCHANGED <<vmm, dir, sock, mapped, agentVars, faults>>
  BY DEF HandleFinished
<1>2. /\ inst \in [Actor -> Instance] /\ inst[a] \in Instance /\ MailOK(inst[a])
      /\ inst[a].pc = "run" /\ "run" \notin Starting \cup {"unborn"}
      /\ inst[a].mailbox[1] = "Finished" /\ 1 \in 1 .. Len(inst[a].mailbox)
      /\ Rest(a) \in Mailbox
      /\ \A k \in 1 .. Len(Rest(a)) : Rest(a)[k] # "Migrate"
  BY <1>1, HandlesFacts
<1>3. HostOK'
  BY <1>1, HostSame DEF VmInv, HostOK, agentVars
<1> DEFINE j == [inst[a] EXCEPT !.mailbox = Rest(a)]
           i == [j EXCEPT !.migrating = FALSE]
<1>4. j \in Instance
  BY <1>2, InstanceUpdate
<1>5. i \in Instance
  <2> HIDE DEF j
  <2> QED BY <1>4, InstanceUpdate
<1>6. /\ i.pc = inst[a].pc /\ i.alone = inst[a].alone /\ i.kind = inst[a].kind
      /\ i.boot = inst[a].boot /\ i.excuse = inst[a].excuse
      /\ i.config = inst[a].config /\ i.mailbox = Rest(a)
      /\ i.watched = inst[a].watched /\ i.console = inst[a].console
      /\ i.receiver = inst[a].receiver
  BY <1>2 DEF Instance
<1>7. inst' = [inst EXCEPT ![a] = i]
  BY <1>2 DEF HandleFinished
<1> HIDE DEF i
<1>8. MailOK(i)
  <2>1. Len(Rest(a)) \in Nat /\ (Rest(a) # <<>> => 1 \in 1 .. Len(Rest(a)))
    BY <1>2 DEF Mailbox
  <2>2. i.receiver = "none"
    BY <1>2, <1>6 DEF MailOK
  <2> QED BY <1>2, <1>6, <2>1, <2>2 DEF MailOK
<1> QED BY <1>1, <1>3, <1>5, <1>6, <1>7, <1>8, MinorOK

\* DeleteVM and ShutdownVM put the stop behind the mailbox.
LEMMA HandleDeleteOK ==
    ASSUME VmInv, NEW a \in Actor, HandleDelete(a)
    PROVE  VmInv'
<1>1. /\ Handles(a, "Delete") /\ UNCHANGED <<vmm, dir, sock, mapped, agentVars, faults>>
  BY DEF HandleDelete
<1>2. /\ inst \in [Actor -> Instance] /\ inst[a] \in Instance /\ MailOK(inst[a])
      /\ inst[a].mailbox # <<>>
      /\ Rest(a) \in Mailbox /\ Rest(a) = Tail(inst[a].mailbox)
  BY <1>1, HandlesFacts
<1>3. HostOK'
  BY <1>1, HostSame DEF VmInv, HostOK, agentVars
<1> DEFINE q == Enqueue(Rest(a), "Stop")
           i == [inst[a] EXCEPT !.mailbox = q]
<1>4. q \in Mailbox
  BY <1>2, EnqueueFacts DEF Message
<1>5. inst' = [inst EXCEPT ![a] = i]
  BY <1>2 DEF HandleDelete
<1>6. i \in Instance
  <2> HIDE DEF q
  <2> QED BY <1>2, <1>4, InstanceUpdate
<1>7. /\ i.pc = inst[a].pc /\ i.alone = inst[a].alone /\ i.kind = inst[a].kind
      /\ i.boot = inst[a].boot /\ i.excuse = inst[a].excuse
      /\ i.config = inst[a].config /\ i.mailbox = q
      /\ i.watched = inst[a].watched /\ i.console = inst[a].console
      /\ i.receiver = inst[a].receiver /\ i.migrating = inst[a].migrating
  <2> HIDE DEF q
  <2> QED BY <1>2 DEF Instance
<1> HIDE DEF i
<1>8. MailOK(i)
  BY <1>2, <1>6, <1>7, EnqueueMailOK
<1> QED BY <1>1, <1>3, <1>5, <1>6, <1>7, <1>8, MinorOK

\* A stop without a change of anything else: the stop signal, a kill, the loss of the
\* scheduler's link.
LEMMA StopsOK ==
    ASSUME VmInv, NEW a \in Actor, inst[a].pc = "run",
           inst' = [inst EXCEPT ![a] = BeginStop(a)],
           UNCHANGED <<vmm, dir, sock, mapped, agentVars>>, faults' \in Nat
    PROVE  VmInv'
<1>1. inst[a] \in Instance /\ HostOK
  BY DEF VmInv
<1>2. HostOK'
  BY <1>1, HostSame DEF HostOK, agentVars
<1>3. BeginStop(a) = [BeginStop(a) EXCEPT !.watched = inst[a].watched]
  BY DEF BeginStop, Remains, Unborn
<1>4. inst[a].watched \in BOOLEAN
  BY <1>1, InstanceDef
<1>5. inst' = [inst EXCEPT ![a] = [BeginStop(a) EXCEPT !.watched = inst[a].watched]]
  BY <1>3
<1> QED BY <1>2, <1>4, <1>5, BeginStopOK

-----------------------------------------------------------------------------
(* on_stop.                                                                *)

\* destroy goes on, from one of its calls to the next.
LEMMA StopGoesOn ==
    ASSUME VmInv, HostOK', NEW a \in Actor, NEW i \in Instance,
           inst[a].pc \in Stopping, i.pc \in Stopping,
           i.mailbox = inst[a].mailbox, i.kind = inst[a].kind,
           i.alone = inst[a].alone, i.receiver = inst[a].receiver,
           i.config = inst[a].config,
           inst' = [inst EXCEPT ![a] = i],
           UNCHANGED <<sock, mapped>>,
           \A o \in Actor : VmmKept(o),
           inst[a].alone /\ OthersQuiet(a) /\ OwnOK(a)
               => (i.pc = "purge" /\ Running(a)' => "vmm" \in i.excuse)
    PROVE  VmInv'
<1>1. inst \in [Actor -> Instance] /\ MailOK(inst[a]) /\ inst'[a] = i
  BY DEF VmInv, ActorOK
<1>2. /\ inst[a].pc \in Alive
      /\ i.pc \notin Settled \cup Starting \cup Configured \cup {"unborn", "spawn", "run"}
      /\ inst[a].pc \notin {"spawn", "ping", "transform"}
      /\ i.pc \notin {"spawn", "ping", "transform", "attach"}
  BY DEF Alive, Starting, Settled, Stopping, Configured
<1>3. MailOK(i)
  BY <1>1, <1>2 DEF MailOK
<1>4. FreshOK(a)' /\ LeakOK(a)'
  BY <1>1, <1>2 DEF FreshOK, LeakOK
<1>5. vmm'[a].proc = "starting" => vmm[a].proc = "starting"
  BY DEF VmmKept, Running
<1>6. inst[a].alone /\ OthersQuiet(a) /\ OwnOK(a) => OwnOK(a)'
  BY <1>1, <1>2, <1>5 DEF OwnOK
<1> QED BY <1>2, <1>3, <1>4, <1>6, StepOK DEF Busy

\* The states of destroy.
LEMMA StoppingFacts ==
    /\ {"info", "hook", "shutdown", "vmm", "purge"} \subseteq Stopping
    /\ Stopping \subseteq Pc /\ Stopping \subseteq Alive
    /\ "gone" \in Settled
  BY DEF Stopping, Pc, Alive, Settled

\* destroy asks for the VM's state.
LEMMA DestroyInfoOK ==
    ASSUME VmInv, NEW a \in Actor, DestroyInfo(a)
    PROVE  VmInv'
<1>1. /\ inst \in [Actor -> Instance] /\ inst[a] \in Instance /\ HostOK
      /\ \A o \in Actor : ProcOK(vmm[o])
  BY InvFacts
<1>2. inst[a].pc = "info" /\ UNCHANGED <<vmm, dir, sock, mapped, agentVars>>
  BY DEF DestroyInfo
<1>3. faults' \in Nat
  BY <1>1, FailsFacts DEF DestroyInfo, HostOK
<1>4. HostOK'
  BY <1>1, <1>2, <1>3, HostSame DEF HostOK, agentVars
<1>5. \A o \in Actor : VmmKept(o)
  BY <1>2 DEF VmmKept
<1>6. ASSUME NEW o \in Actor, Holds(o, {"created", "running"}),
             inst' = [inst EXCEPT ![a].pc = "hook", ![a].seen = vmm[o].vm]
      PROVE  VmInv'
  <2> DEFINE j == [inst[a] EXCEPT !.pc = "hook"]
             i == [j EXCEPT !.seen = vmm[o].vm]
  <2>1. j \in Instance
    BY <1>1, StoppingFacts, InstanceUpdate
  <2>2. vmm[o].vm \in Seen
    BY <1>6 DEF Holds, Seen
  <2>3. i \in Instance
    <3> HIDE DEF j
    <3> QED BY <2>1, <2>2, InstanceUpdate
  <2>4. /\ i.pc = "hook" /\ i.mailbox = inst[a].mailbox /\ i.kind = inst[a].kind
        /\ i.alone = inst[a].alone /\ i.receiver = inst[a].receiver
        /\ i.config = inst[a].config
    BY <1>1 DEF Instance
  <2>5. inst' = [inst EXCEPT ![a] = i]
    BY <1>1, <1>6
  <2> HIDE DEF i
  <2> QED BY <1>2, <1>4, <1>5, <2>3, <2>4, <2>5, StopGoesOn, StoppingFacts
<1>7. CASE inst' = [inst EXCEPT ![a].pc = "vmm"]
  <2> DEFINE i == [inst[a] EXCEPT !.pc = "vmm"]
  <2>1. i \in Instance
    BY <1>1, StoppingFacts, InstanceUpdate
  <2>2. /\ i.pc = "vmm" /\ i.mailbox = inst[a].mailbox /\ i.kind = inst[a].kind
        /\ i.alone = inst[a].alone /\ i.receiver = inst[a].receiver
        /\ i.config = inst[a].config
    BY <1>1 DEF Instance
  <2>3. inst' = [inst EXCEPT ![a] = i]
    BY <1>1, <1>7
  <2> HIDE DEF i
  <2> QED BY <1>2, <1>4, <1>5, <2>1, <2>2, <2>3, StopGoesOn, StoppingFacts
<1> QED BY <1>6, <1>7 DEF DestroyInfo

\* destroy gives up: the call that failed is recorded.
LEMMA AbandonOK ==
    ASSUME VmInv, NEW a \in Actor, inst[a].pc \in Stopping,
           NEW why \in {"hook", "shutdown"}, Abandon(a, why),
           UNCHANGED <<vmm, dir, sock, mapped, agentVars>>, faults' \in Nat
    PROVE  VmInv'
<1>1. HostOK /\ inst[a] \in Instance
  BY DEF VmInv
<1>2. HostOK'
  BY <1>1, HostSame DEF HostOK, agentVars
<1>3. Because(a, why) \in Excuses /\ (inst[a].alone => why \in Because(a, why))
  BY <1>1, InstanceDef DEF Because, Excuses, Excuse
<1>4. inst' = [inst EXCEPT ![a] = Remains(a, "gone", Because(a, why))]
  BY DEF Abandon
<1>5. \A o \in Actor : VmmKept(o)
  BY DEF VmmKept
<1> QED BY <1>2, <1>3, <1>4, <1>5, SettleOK, StoppingFacts

\* The before_stop hook takes the tap off the bridge.
LEMMA BeforeStopOK ==
    ASSUME VmInv, NEW a \in Actor, BeforeStop(a)
    PROVE  VmInv'
<1>1. /\ inst \in [Actor -> Instance] /\ inst[a] \in Instance /\ HostOK
      /\ vmm \in [Actor -> Vmm] /\ \A o \in Actor : ProcOK(vmm[o])
  BY InvFacts
<1>2. inst[a].pc = "hook" /\ UNCHANGED <<dir, sock, mapped, agentVars>>
  BY DEF BeforeStop
<1>3. ASSUME NEW o \in Actor, vmm[o].tap # "none", vmm' = DetachTap(o),
             inst' = [inst EXCEPT ![a].pc = IF inst[a].seen = "running"
                                            THEN "shutdown" ELSE "vmm",
                                  ![a].seen = "created"],
             UNCHANGED faults
      PROVE  VmInv'
  <2> DEFINE next == IF inst[a].seen = "running" THEN "shutdown" ELSE "vmm"
             j == [inst[a] EXCEPT !.pc = next]
             i == [j EXCEPT !.seen = "created"]
             p == [vmm[o] EXCEPT !.tap = "free"]
  <2>1. next \in Stopping /\ next # "purge" /\ next \in Pc
    BY StoppingFacts
  <2>2. j \in Instance
    <3> HIDE DEF next
    <3> QED BY <1>1, <2>1, InstanceUpdate
  <2>3. i \in Instance
    <3> HIDE DEF j
    <3> QED BY <2>2, InstanceUpdate DEF Seen
  <2>4. /\ i.pc = next /\ i.mailbox = inst[a].mailbox /\ i.kind = inst[a].kind
        /\ i.alone = inst[a].alone /\ i.receiver = inst[a].receiver
        /\ i.config = inst[a].config
    <3> HIDE DEF next
    <3> QED BY <1>1 DEF Instance
  <2>5. inst' = [inst EXCEPT ![a] = i]
    BY <1>1, <1>3
  <2>6. vmm[o].proc = "up" /\ ProcOK(p) /\ p.proc = "up"
    BY <1>1, <1>3 DEF ProcOK, Vmm
  <2>7. vmm' = [vmm EXCEPT ![o] = p]
    BY <1>1, <1>3 DEF DetachTap
  <2> HIDE DEF i, p, next
  <2>8. HostOK'
    BY <1>1, <1>2, <1>3, <2>6, <2>7, HostVmm DEF HostOK, agentVars
  <2>9. \A b \in Actor : VmmKept(b)
    BY <2>6, <2>7, CalledKept
  <2> QED BY <1>2, <2>1, <2>3, <2>4, <2>5, <2>8, <2>9, StopGoesOn, StoppingFacts
<1>4. CASE /\ Fails(\E o \in Actor : vmm[o].tap # "none")
           /\ Abandon(a, "hook")
           /\ UNCHANGED vmm
  <2>1. faults' \in Nat
    BY <1>1, <1>4, FailsFacts DEF HostOK
  <2> QED BY <1>2, <1>4, <2>1, AbandonOK, StoppingFacts
<1> QED BY <1>3, <1>4 DEF BeforeStop

\* The VM is shut down; the process stays.
LEMMA ShutdownVmOK ==
    ASSUME VmInv, NEW a \in Actor, ShutdownVm(a)
    PROVE  VmInv'
<1>1. /\ inst \in [Actor -> Instance] /\ inst[a] \in Instance /\ HostOK
      /\ vmm \in [Actor -> Vmm] /\ \A o \in Actor : ProcOK(vmm[o])
  BY InvFacts
<1>2. inst[a].pc = "shutdown" /\ UNCHANGED <<dir, sock, mapped, agentVars>>
  BY DEF ShutdownVm
<1>3. ASSUME NEW o \in Actor, Holds(o, {"running"}),
             vmm' = [vmm EXCEPT ![o].vm = "created", ![o].tap = "none"],
             inst' = [inst EXCEPT ![a].pc = "vmm"], UNCHANGED faults
      PROVE  VmInv'
  <2> DEFINE i == [inst[a] EXCEPT !.pc = "vmm"]
             p == [vmm[o] EXCEPT !.vm = "created", !.tap = "none"]
  <2>1. i \in Instance
    BY <1>1, StoppingFacts, InstanceUpdate
  <2>2. /\ i.pc = "vmm" /\ i.mailbox = inst[a].mailbox /\ i.kind = inst[a].kind
        /\ i.alone = inst[a].alone /\ i.receiver = inst[a].receiver
        /\ i.config = inst[a].config
    BY <1>1 DEF Instance
  <2>3. inst' = [inst EXCEPT ![a] = i]
    BY <1>1, <1>3
  <2>4. vmm[o].proc = "up" /\ ProcOK(p) /\ p.proc = "up"
    BY <1>1, <1>3 DEF ProcOK, Vmm, Holds, Reaches
  <2>5. vmm' = [vmm EXCEPT ![o] = p]
    BY <1>1, <1>3
  <2> HIDE DEF i, p
  <2>6. HostOK'
    BY <1>1, <1>2, <1>3, <2>4, <2>5, HostVmm DEF HostOK, agentVars
  <2>7. \A b \in Actor : VmmKept(b)
    BY <2>4, <2>5, CalledKept
  <2> QED BY <1>2, <2>1, <2>2, <2>3, <2>6, <2>7, StopGoesOn, StoppingFacts
<1>4. CASE Fails(AnswersWith({"running"})) /\ Abandon(a, "shutdown") /\ UNCHANGED vmm
  <2>1. faults' \in Nat
    BY <1>1, <1>4, FailsFacts DEF HostOK
  <2> QED BY <1>2, <1>4, <2>1, AbandonOK, StoppingFacts
<1> QED BY <1>3, <1>4 DEF ShutdownVm

\* The process that answers ends: the actor's own, if it is alone.
LEMMA ShutdownVmmOK ==
    ASSUME VmInv, NEW a \in Actor, ShutdownVmm(a)
    PROVE  VmInv'
<1>1. /\ inst \in [Actor -> Instance] /\ inst[a] \in Instance /\ HostOK
      /\ vmm \in [Actor -> Vmm]
  BY InvFacts
<1>2. inst[a].pc = "vmm" /\ UNCHANGED <<dir, sock, mapped, agentVars>>
  BY DEF ShutdownVmm
<1>3. ASSUME NEW o \in Actor, Reaches(o), vmm' = [vmm EXCEPT ![o] = Dead("exited")],
             inst' = [inst EXCEPT ![a].pc = "purge"], UNCHANGED faults
      PROVE  VmInv'
  <2> DEFINE i == [inst[a] EXCEPT !.pc = "purge"]
  <2>1. i \in Instance
    BY <1>1, StoppingFacts, InstanceUpdate
  <2>2. /\ i.pc = "purge" /\ i.mailbox = inst[a].mailbox /\ i.kind = inst[a].kind
        /\ i.alone = inst[a].alone /\ i.receiver = inst[a].receiver
        /\ i.config = inst[a].config
    BY <1>1 DEF Instance
  <2>3. inst' = [inst EXCEPT ![a] = i]
    BY <1>1, <1>3
  <2> HIDE DEF i
  <2>4. vmm[o].proc = "up"
    BY <1>3 DEF Reaches
  <2>5. HostOK' /\ vmm'[o] = Dead("exited")
    BY <1>1, <1>2, <1>3, HostVmm, ProcFacts DEF HostOK, agentVars
  <2>6. \A b \in Actor : VmmKept(b)
    BY <1>3, <2>4, CalledKept, ProcFacts
  <2>7. OthersQuiet(a) /\ OwnOK(a) => ~Running(a)'
    BY <1>3, <2>5, AloneReaches, ProcFacts DEF Running
  <2> QED BY <1>2, <2>1, <2>2, <2>3, <2>5, <2>6, <2>7, StopGoesOn, StoppingFacts
<1>4. CASE /\ Fails(Answers)
           /\ inst' = [inst EXCEPT ![a].pc = "purge",
                                   ![a].excuse = IF Running(a) THEN Because(a, "vmm")
                                                 ELSE @]
           /\ UNCHANGED vmm
  <2> DEFINE excuse == IF Running(a) THEN Because(a, "vmm") ELSE inst[a].excuse
             j == [inst[a] EXCEPT !.pc = "purge"]
             i == [j EXCEPT !.excuse = excuse]
  <2>1. j \in Instance
    BY <1>1, StoppingFacts, InstanceUpdate
  <2>2. excuse \in Excuses
    BY <1>1, InstanceDef DEF Because, Excuses, Excuse
  <2>3. i \in Instance
    <3> HIDE DEF j, excuse
    <3> QED BY <2>1, <2>2, InstanceUpdate
  <2>4. /\ i.pc = "purge" /\ i.mailbox = inst[a].mailbox /\ i.kind = inst[a].kind
        /\ i.alone = inst[a].alone /\ i.receiver = inst[a].receiver
        /\ i.config = inst[a].config /\ i.excuse = excuse
    <3> HIDE DEF excuse
    <3> QED BY <1>1 DEF Instance
  <2>5. inst' = [inst EXCEPT ![a] = i]
    BY <1>1, <1>4
  <2> HIDE DEF i
  <2>6. faults' \in Nat
    BY <1>1, <1>4, FailsFacts DEF HostOK
  <2>7. HostOK'
    BY <1>1, <1>2, <1>4, <2>6, HostSame DEF HostOK, agentVars
  <2>8. \A b \in Actor : VmmKept(b)
    BY <1>4 DEF VmmKept
  <2>9. inst[a].alone /\ Running(a)' => "vmm" \in i.excuse
    BY <1>4, <2>4 DEF Running, Because
  <2> QED BY <1>2, <2>3, <2>4, <2>5, <2>7, <2>8, <2>9, StopGoesOn, StoppingFacts
<1> QED BY <1>3, <1>4 DEF ShutdownVmm

\* The end of destroy: a process that still runs is one that shutdown_vmm could not
\* stop.
LEMMA PurgeOK ==
    ASSUME VmInv, NEW a \in Actor, Purge(a)
    PROVE  VmInv'
<1>1. /\ inst[a] \in Instance /\ HostOK /\ AloneOK(a) /\ inst[a].excuse \in Excuses
  BY InvFacts, InstanceDef
<1>2. inst[a].pc = "purge" /\ UNCHANGED <<vmm, agentVars>>
  BY DEF Purge
<1>3. PICK kept \in SUBSET Releasable(a), removed \in BOOLEAN :
          /\ IF kept = {} /\ removed THEN UNCHANGED faults ELSE Fault
          /\ mapped' = mapped \ (Releasable(a) \ kept)
          /\ dir' = (dir /\ ~removed)
          /\ sock' = IF removed THEN NoActor ELSE sock
          /\ inst' = [inst EXCEPT ![a] =
                 Remains(a, "gone", IF kept = {} /\ removed THEN inst[a].excuse
                                    ELSE Because(a, "purge"))]
  BY DEF Purge
<1> DEFINE excuse == IF kept = {} /\ removed THEN inst[a].excuse ELSE Because(a, "purge")
<1>4. excuse \in Excuses /\ (inst[a].alone => inst[a].excuse \subseteq excuse)
  BY <1>1 DEF Because, Excuses, Excuse
<1>5. faults' \in Nat
  BY <1>1, <1>3 DEF HostOK, Fault
<1>6. /\ dir' \in BOOLEAN
      /\ sock' \in Actor \cup {NoActor} /\ (sock' # NoActor => dir')
      /\ mapped' \subseteq Disk
  BY <1>1, <1>3 DEF HostOK
<1>7. HostOK'
  BY <1>1, <1>2, <1>5, <1>6, HostSame DEF HostOK, agentVars
<1>8. \A o \in Actor : VmmKept(o)
  BY <1>2 DEF VmmKept
<1>9. inst[a].alone /\ Running(a)' => "vmm" \in excuse
  <2>1. Running(a)' <=> Running(a)
    BY <1>2 DEF Running
  <2>2. inst[a].alone /\ Running(a) => "vmm" \in inst[a].excuse
    BY <1>1, <1>2, StoppingFacts DEF AloneOK, OwnOK
  <2> QED BY <1>4, <2>1, <2>2
<1>10. inst' = [inst EXCEPT ![a] = Remains(a, "gone", excuse)]
  BY <1>3
<1> HIDE DEF excuse
<1> QED BY <1>2, <1>4, <1>7, <1>8, <1>9, <1>10, SettleOK, StoppingFacts

-----------------------------------------------------------------------------
(* The tasks of an actor, which may outlive it.                            *)

\* The watcher reaps a child that has ended.
LEMMA ReapedOK ==
    ASSUME VmInv, HostOK', NEW a \in Actor, NEW i \in Instance,
           inst' = [inst EXCEPT ![a] = i],
           vmm[a].proc \in {"exited", "crashed"},
           vmm'[a] = NoVmm, \A o \in Actor \ {a} : vmm'[o] = vmm[o],
           i.pc = inst[a].pc, i.alone = inst[a].alone, i.kind = inst[a].kind,
           i.config = inst[a].config, i.boot = inst[a].boot,
           MailOK(i), UNCHANGED <<sock, mapped>>
    PROVE  VmInv'
<1>1. inst \in [Actor -> Instance] /\ inst'[a] = i /\ FreshOK(a)
  BY DEF VmInv, ActorOK
<1>2. ~Running(a)' /\ vmm'[a].proc # "starting"
  BY ProcFacts DEF Running
<1>3. FreshOK(a)' /\ LeakOK(a)'
  BY <1>1, <1>2 DEF FreshOK, LeakOK
<1>4. OwnOK(a) => OwnOK(a)'
  BY <1>1, <1>2 DEF OwnOK
<1>5. \A o \in Actor \ {a} : VmmKept(o)
  BY DEF VmmKept
<1>6. \A o \in Actor : VmKept(o)
  BY <1>2 DEF VmKept
<1> QED BY <1>2, <1>3, <1>4, <1>5, <1>6, StepOK

\* The watcher: a mailbox gets the stop, an actor that was killed stops, one that is
\* stopping or gone is not told.
LEMMA WatcherOK ==
    ASSUME VmInv, NEW a \in Actor, Watcher(a)
    PROVE  VmInv'
<1>1. /\ inst \in [Actor -> Instance] /\ inst[a] \in Instance /\ HostOK
      /\ MailOK(inst[a]) /\ inst[a].mailbox \in Mailbox
  BY InvFacts, InstanceDef
<1>2. /\ vmm[a].proc \in {"exited", "crashed"}
      /\ vmm' = [vmm EXCEPT ![a] = NoVmm]
      /\ UNCHANGED <<dir, sock, mapped, agentVars, faults>>
  BY DEF Watcher
<1>3. HostOK' /\ vmm'[a] = NoVmm /\ \A b \in Actor \ {a} : vmm'[b] = vmm[b]
  BY <1>1, <1>2, HostVmm, ProcFacts DEF HostOK, agentVars
<1> DEFINE j == [inst[a] EXCEPT !.watched = FALSE]
<1>4. j \in Instance
  BY <1>1, InstanceUpdate
<1>5. CASE inst' = [inst EXCEPT ![a].watched = FALSE]
  <2>1. inst' = [inst EXCEPT ![a] = j]
    BY <1>1, <1>5
  <2>2. /\ j.pc = inst[a].pc /\ j.alone = inst[a].alone /\ j.kind = inst[a].kind
        /\ j.config = inst[a].config /\ j.boot = inst[a].boot
        /\ j.mailbox = inst[a].mailbox /\ j.receiver = inst[a].receiver
        /\ j.migrating = inst[a].migrating
    BY <1>1 DEF Instance
  <2> HIDE DEF j
  <2>3. MailOK(j)
    BY <1>1, <2>2 DEF MailOK
  <2> QED BY <1>2, <1>3, <1>4, <2>1, <2>2, <2>3, ReapedOK
<1>6. CASE inst' = [inst EXCEPT ![a].watched = FALSE, ![a].mailbox = Enqueue(@, "Stop")]
  <2> DEFINE q == Enqueue(inst[a].mailbox, "Stop")
             i == [j EXCEPT !.mailbox = q]
  <2>1. q \in Mailbox
    BY <1>1, EnqueueFacts DEF Message
  <2>2. i \in Instance
    <3> HIDE DEF j, q
    <3> QED BY <1>4, <2>1, InstanceUpdate
  <2>3. inst' = [inst EXCEPT ![a] = i]
    BY <1>1, <1>6
  <2>4. /\ i.pc = inst[a].pc /\ i.alone = inst[a].alone /\ i.kind = inst[a].kind
        /\ i.config = inst[a].config /\ i.boot = inst[a].boot
        /\ i.mailbox = q /\ i.receiver = inst[a].receiver
        /\ i.migrating = inst[a].migrating
    <3> HIDE DEF q
    <3> QED BY <1>1 DEF Instance
  <2> HIDE DEF i
  <2>5. MailOK(i)
    BY <1>1, <2>2, <2>4, EnqueueMailOK
  <2> QED BY <1>2, <1>3, <2>2, <2>3, <2>4, <2>5, ReapedOK
<1>7. CASE /\ inst[a].pc = "run"
           /\ inst' = [inst EXCEPT ![a] = [BeginStop(a) EXCEPT !.watched = FALSE]]
  BY <1>2, <1>3, <1>7, BeginStopOK
<1> QED BY <1>5, <1>6, <1>7 DEF Watcher

\* The console loop finds the console of the received VM.
LEMMA ConsoleRetryOK ==
    ASSUME VmInv, NEW a \in Actor, ConsoleRetry(a)
    PROVE  VmInv'
<1>1. inst \in [Actor -> Instance] /\ inst[a] \in Instance /\ MailOK(inst[a])
  BY InvFacts
<1>2. UNCHANGED <<vmm, dir, sock, mapped, agentVars, faults>>
  BY DEF ConsoleRetry
<1>3. HostOK'
  BY <1>2, HostSame DEF VmInv, HostOK, agentVars
<1> DEFINE i == [inst[a] EXCEPT !.console = "attached"]
<1>4. i \in Instance
  BY <1>1, InstanceUpdate DEF ConsoleState
<1>5. inst' = [inst EXCEPT ![a] = i]
  BY <1>1 DEF ConsoleRetry
<1>6. /\ i.pc = inst[a].pc /\ i.alone = inst[a].alone /\ i.kind = inst[a].kind
      /\ i.boot = inst[a].boot /\ i.excuse = inst[a].excuse
      /\ i.config = inst[a].config /\ i.watched = inst[a].watched
      /\ i.console = "attached" /\ i.mailbox = inst[a].mailbox
      /\ i.receiver = inst[a].receiver /\ i.migrating = inst[a].migrating
  BY <1>1 DEF Instance
<1> HIDE DEF i
<1>7. MailOK(i)
  BY <1>1, <1>6 DEF MailOK
<1> QED BY <1>2, <1>3, <1>4, <1>5, <1>6, <1>7, MinorOK

\* The receiver task goes on; a process it calls gets a VM it did not have, or ends.
LEMMA ReceiverStepOK ==
    ASSUME VmInv, HostOK', NEW a \in Actor, inst[a].receiver # "none",
           NEW r \in Receiver, r # "none",
           inst' = [inst EXCEPT ![a].receiver = r],
           UNCHANGED <<sock, mapped>>,
           \A o \in Actor : VmmKept(o) /\ VmKept(o)
    PROVE  VmInv'
<1>1. inst \in [Actor -> Instance] /\ inst[a] \in Instance /\ ActorOK(a)
  BY DEF VmInv
<1> DEFINE i == [inst[a] EXCEPT !.receiver = r]
<1>2. i \in Instance
  BY <1>1, InstanceUpdate
<1>3. inst' = [inst EXCEPT ![a] = i] /\ inst'[a] = i
  BY <1>1
<1>4. /\ i.pc = inst[a].pc /\ i.alone = inst[a].alone /\ i.kind = inst[a].kind
      /\ i.boot = inst[a].boot /\ i.excuse = inst[a].excuse
      /\ i.config = inst[a].config /\ i.watched = inst[a].watched
      /\ i.console = inst[a].console /\ i.mailbox = inst[a].mailbox
      /\ i.receiver = r /\ i.migrating = inst[a].migrating
  BY <1>1 DEF Instance
<1> HIDE DEF i
<1>5. MailOK(i)
  BY <1>1, <1>4 DEF MailOK, ActorOK
<1>6. \A o \in Actor : Running(o)' => Running(o)
  BY DEF VmmKept, Running
<1>7. vmm'[a].proc = "starting" => vmm[a].proc = "starting"
  BY DEF VmmKept, Running
<1>8. FreshOK(a)'
  BY <1>1, <1>3, <1>4, ProcFacts DEF ActorOK, FreshOK, VmmKept, Running
<1>9. LeakOK(a)'
  BY <1>1, <1>3, <1>4, <1>6 DEF ActorOK, LeakOK
<1>10. OwnOK(a) => OwnOK(a)'
  BY <1>3, <1>4, <1>6, <1>7 DEF OwnOK, VmKept
<1> QED BY <1>2, <1>3, <1>4, <1>5, <1>6, <1>8, <1>9, <1>10, StepOK DEF Busy

\* The migration's data has arrived, or has not.
LEMMA ReceiverReturnsOK ==
    ASSUME VmInv, NEW a \in Actor, ReceiverReturns(a)
    PROVE  VmInv'
<1>1. HostOK /\ vmm \in [Actor -> Vmm] /\ \A o \in Actor : ProcOK(vmm[o])
  BY InvFacts
<1>2. /\ inst[a].receiver = "waiting"
      /\ UNCHANGED <<dir, sock, mapped, agentVars, faults>>
  BY DEF ReceiverReturns
<1>3. ASSUME NEW o \in Actor, Reaches(o), vmm[o].vm = "none",
             vmm' = [vmm EXCEPT ![o].vm = "running", ![o].tap = "free"],
             inst' = [inst EXCEPT ![a].receiver = "received"]
      PROVE  VmInv'
  <2> DEFINE p == [vmm[o] EXCEPT !.vm = "running", !.tap = "free"]
  <2>1. vmm[o].proc = "up" /\ ProcOK(p) /\ p.proc = "up"
    BY <1>1, <1>3 DEF ProcOK, Vmm, Reaches
  <2>2. vmm' = [vmm EXCEPT ![o] = p]
    BY <1>1, <1>3
  <2> HIDE DEF p
  <2>3. HostOK' /\ vmm'[o] = p /\ \A b \in Actor \ {o} : vmm'[b] = vmm[b]
    BY <1>1, <1>2, <2>1, <2>2, HostVmm DEF HostOK, agentVars
  <2>4. \A b \in Actor : VmmKept(b)
    BY <2>1, <2>2, CalledKept
  <2>5. \A b \in Actor : VmKept(b)
    BY <1>3, <2>3 DEF VmKept
  <2> QED BY <1>2, <1>3, <2>3, <2>4, <2>5, ReceiverStepOK DEF Receiver
<1>4. CASE inst' = [inst EXCEPT ![a].receiver = "done"] /\ UNCHANGED vmm
  <2>1. HostOK'
    BY <1>1, <1>2, <1>4, HostSame DEF HostOK, agentVars
  <2>2. \A b \in Actor : VmmKept(b) /\ VmKept(b)
    BY <1>4 DEF VmmKept, VmKept
  <2> QED BY <1>2, <1>4, <2>1, <2>2, ReceiverStepOK DEF Receiver
<1> QED BY <1>3, <1>4 DEF ReceiverReturns

\* After a successful migration the process that answers is shut down.
LEMMA ReceiverShutsDownOK ==
    ASSUME VmInv, NEW a \in Actor, ReceiverShutsDown(a)
    PROVE  VmInv'
<1>1. HostOK /\ vmm \in [Actor -> Vmm]
  BY InvFacts
<1>2. /\ inst[a].receiver = "received"
      /\ inst' = [inst EXCEPT ![a].receiver = "done"]
      /\ UNCHANGED <<dir, sock, mapped, agentVars>>
  BY DEF ReceiverShutsDown
<1>3. ASSUME NEW o \in Actor, Reaches(o), vmm' = [vmm EXCEPT ![o] = Dead("exited")],
             UNCHANGED faults
      PROVE  VmInv'
  <2>1. vmm[o].proc = "up"
    BY <1>3 DEF Reaches
  <2>2. HostOK' /\ vmm'[o] = Dead("exited") /\ \A b \in Actor \ {o} : vmm'[b] = vmm[b]
    BY <1>1, <1>2, <1>3, HostVmm, ProcFacts DEF HostOK, agentVars
  <2>3. \A b \in Actor : VmmKept(b)
    BY <1>3, <2>1, CalledKept, ProcFacts
  <2>4. \A b \in Actor : VmKept(b)
    BY <2>2, ProcFacts DEF VmKept, Running
  <2> QED BY <1>2, <2>2, <2>3, <2>4, ReceiverStepOK DEF Receiver
<1>4. CASE Fails(Answers) /\ UNCHANGED vmm
  <2>1. faults' \in Nat
    BY <1>1, <1>4, FailsFacts DEF HostOK
  <2>2. HostOK'
    BY <1>1, <1>2, <1>4, <2>1, HostSame DEF HostOK, agentVars
  <2>3. \A b \in Actor : VmmKept(b) /\ VmKept(b)
    BY <1>4 DEF VmmKept, VmKept
  <2> QED BY <1>2, <2>2, <2>3, ReceiverStepOK DEF Receiver
<1> QED BY <1>3, <1>4 DEF ReceiverShutsDown

\* The receiver's last act: no message of it can come after this one.
LEMMA TellFinishedOK ==
    ASSUME VmInv, NEW a \in Actor, TellFinished(a)
    PROVE  VmInv'
<1>1. /\ inst \in [Actor -> Instance] /\ inst[a] \in Instance /\ MailOK(inst[a])
      /\ inst[a].mailbox \in Mailbox
  BY InvFacts, InstanceDef
<1>2. /\ inst[a].receiver = "done"
      /\ inst' = [Tell(a, "Finished") EXCEPT ![a].receiver = "none"]
      /\ UNCHANGED <<vmm, dir, sock, mapped, agentVars, faults>>
  BY DEF TellFinished
<1>3. HostOK'
  BY <1>2, HostSame DEF VmInv, HostOK, agentVars
<1>4. PICK q \in Mailbox :
          /\ inst' = [inst EXCEPT ![a] = [[inst[a] EXCEPT !.mailbox = q]
                                             EXCEPT !.receiver = "none"]]
          /\ q \in {inst[a].mailbox, Enqueue(inst[a].mailbox, "Finished")}
  <2>1. Enqueue(inst[a].mailbox, "Finished") \in Mailbox
    BY <1>1, EnqueueFacts DEF Message
  <2>2. CASE inst[a].pc \in Starting \cup {"run"}
    <3>1. inst' = [inst EXCEPT ![a] =
                      [[inst[a] EXCEPT !.mailbox = Enqueue(inst[a].mailbox, "Finished")]
                          EXCEPT !.receiver = "none"]]
      BY <1>1, <1>2, <2>2 DEF Tell
    <3> QED BY <2>1, <3>1
  <2>3. CASE inst[a].pc \notin Starting \cup {"run"}
    <3>1. inst' = [inst EXCEPT ![a] = [inst[a] EXCEPT !.receiver = "none"]]
      BY <1>1, <1>2, <2>3 DEF Tell
    <3>2. [inst[a] EXCEPT !.mailbox = inst[a].mailbox] = inst[a]
      BY <1>1 DEF Instance
    <3> QED BY <1>1, <3>1, <3>2
  <2> QED BY <2>2, <2>3
<1> DEFINE j == [inst[a] EXCEPT !.mailbox = q]
           i == [j EXCEPT !.receiver = "none"]
<1>5. j \in Instance
  BY <1>1, InstanceUpdate
<1>6. i \in Instance
  <2> HIDE DEF j
  <2> QED BY <1>5, InstanceUpdate DEF Receiver
<1>7. inst' = [inst EXCEPT ![a] = i]
  BY <1>4
<1>8. /\ i.pc = inst[a].pc /\ i.alone = inst[a].alone /\ i.kind = inst[a].kind
      /\ i.boot = inst[a].boot /\ i.excuse = inst[a].excuse
      /\ i.config = inst[a].config /\ i.watched = inst[a].watched
      /\ i.console = inst[a].console /\ i.mailbox = q /\ i.receiver = "none"
  BY <1>1 DEF Instance
<1> HIDE DEF i
<1>9. /\ Len(inst[a].mailbox) \in Nat /\ Len(q) \in Nat
      /\ \A k \in 1 .. Len(q) : \/ k \in 1 .. Len(inst[a].mailbox)
                                   /\ q[k] = inst[a].mailbox[k]
                                \/ q[k] = "Finished"
  <2>1. CASE q = inst[a].mailbox
    BY <2>1 DEF Mailbox
  <2>2. CASE q = Enqueue(inst[a].mailbox, "Finished")
    BY <1>1, <2>2, EnqueueFacts DEF Message
  <2> QED BY <1>4, <2>1, <2>2
<1>10. \A k \in 1 .. Len(inst[a].mailbox) : inst[a].mailbox[k] # "Migrate"
  <2>1. 1 \in 1 .. Len(inst[a].mailbox) => inst[a].mailbox # <<>>
    OBVIOUS
  <2> QED BY <1>1, <1>2, <1>9, <2>1 DEF MailOK
<1>11. \A k \in 1 .. Len(q) : q[k] # "Migrate"
  BY <1>9, <1>10
<1>12. q # <<>> => 1 \in 1 .. Len(q)
  BY DEF Mailbox
<1>13. MailOK(i)
  BY <1>8, <1>9, <1>11, <1>12 DEF MailOK
<1> QED BY <1>2, <1>3, <1>6, <1>7, <1>8, <1>13, MinorOK

-----------------------------------------------------------------------------
(* The process and the agent.                                              *)

\* The new process takes the socket over, or exits.
LEMMA VmmBindsOK ==
    ASSUME VmInv, NEW a \in Actor, VmmBinds(a)
    PROVE  VmInv'
<1>1. /\ inst \in [Actor -> Instance] /\ inst[a] \in Instance /\ HostOK
      /\ vmm \in [Actor -> Vmm] /\ \A o \in Actor : ProcOK(vmm[o])
      /\ MailOK(inst[a]) /\ FreshOK(a) /\ LeakOK(a)
  BY InvFacts
<1>2. /\ vmm[a].proc = "starting" /\ Running(a)
      /\ UNCHANGED <<inst, dir, mapped, agentVars, faults>>
  BY DEF VmmBinds, Running
<1>3. inst' = [inst EXCEPT ![a] = inst[a]] /\ inst'[a] = inst[a]
  BY <1>1, <1>2
<1>4. ASSUME NEW p, ProcOK(p), p.proc # "starting",
             vmm' = [vmm EXCEPT ![a] = p], sock' \in {sock, a}, sock' # sock => dir
      PROVE  VmInv'
  <2>1. HostOK' /\ vmm'[a] = p /\ \A b \in Actor \ {a} : vmm'[b] = vmm[b]
    BY <1>1, <1>2, <1>4, HostVmm DEF HostOK, agentVars
  <2>2. FreshOK(a)'
    BY <1>1, <1>2, <1>3, ProcFacts DEF FreshOK
  <2>3. LeakOK(a)'
    BY <1>1, <1>2, <1>3 DEF LeakOK
  <2>4. {"spawn", "ping"} \cap (Configured \cup Stopping \cup {"run"}) = {}
    BY DEF Configured, Stopping
  <2>5. OwnOK(a) => OwnOK(a)'
    BY <1>2, <1>3, <1>4, <2>1, <2>4 DEF OwnOK
  <2> QED BY <1>1, <1>2, <1>3, <2>1, <2>2, <2>3, <2>5, StepOK DEF Busy, VmmKept
<1>5. CASE dir /\ sock' = a /\ vmm' = [vmm EXCEPT ![a].proc = "up"]
  <2> DEFINE p == [vmm[a] EXCEPT !.proc = "up"]
  <2>1. ProcOK(p) /\ p.proc = "up"
    BY <1>1 DEF ProcOK, Vmm
  <2>2. vmm' = [vmm EXCEPT ![a] = p]
    BY <1>1, <1>5
  <2> HIDE DEF p
  <2> QED BY <1>4, <1>5, <2>1, <2>2
<1>6. CASE vmm' = [vmm EXCEPT ![a] = Dead("crashed")] /\ UNCHANGED sock
  BY <1>4, <1>6, ProcFacts
<1> QED BY <1>5, <1>6 DEF VmmBinds

\* A process ends on its own.
LEMMA VmmEndsOK ==
    ASSUME VmInv, NEW a \in Actor, Running(a), NEW how \in {"exited", "crashed"},
           vmm' = [vmm EXCEPT ![a] = Dead(how)], faults' \in Nat,
           UNCHANGED <<inst, dir, sock, mapped, agentVars>>
    PROVE  VmInv'
<1>1. /\ inst \in [Actor -> Instance] /\ inst[a] \in Instance /\ HostOK
      /\ MailOK(inst[a]) /\ FreshOK(a)
  BY InvFacts
<1>2. inst' = [inst EXCEPT ![a] = inst[a]] /\ inst'[a] = inst[a]
  BY <1>1
<1>3. ProcOK(Dead(how)) /\ Dead(how).proc = how
  BY ProcFacts
<1>4. HostOK' /\ vmm'[a] = Dead(how) /\ \A b \in Actor \ {a} : vmm'[b] = vmm[b]
  BY <1>1, <1>3, HostVmm DEF HostOK, agentVars
<1>5. ~Running(a)' /\ vmm'[a].proc # "starting"
  BY <1>3, <1>4 DEF Running
<1>6. FreshOK(a)' /\ LeakOK(a)'
  BY <1>1, <1>2, <1>5, ProcFacts DEF FreshOK, LeakOK, Running
<1>7. OwnOK(a) => OwnOK(a)'
  BY <1>2, <1>5 DEF OwnOK
<1> QED BY <1>1, <1>2, <1>4, <1>6, <1>7, StepOK DEF Busy, VmmKept

\* A new actor: it is alone only if there is nothing, and then nobody else is any
\* more.
LEMMA SpawnOK ==
    ASSUME VmInv, HostOK', NEW a \in Actor, inst[a].pc = "unborn",
           NEW kind \in Kind, NEW boot \in BOOLEAN, NEW mb \in Mailbox,
           mb = <<>> \/ (kind = "receive" /\ mb = <<"Migrate">>),
           inst' = Spawned(a, kind, boot, mb),
           UNCHANGED <<vmm, dir, sock, mapped>>
    PROVE  VmInv'
<1>1. inst \in [Actor -> Instance] /\ HostOK /\ \A b \in Actor : ActorOK(b)
  BY DEF VmInv
<1> DEFINE quiet == /\ ~dir /\ mapped = {}
                    /\ \A c \in Actor : inst[c].pc \notin Alive /\ ~Running(c)
           j == [Unborn EXCEPT !.pc = "spawn"]
           k == [j EXCEPT !.kind = kind]
           l == [k EXCEPT !.boot = boot]
           m == [l EXCEPT !.mailbox = mb]
           i == [m EXCEPT !.alone = quiet]
<1>2. "spawn" \in Pc /\ quiet \in BOOLEAN
  BY DEF Pc, Starting
<1>3. j \in Instance
  BY <1>2, UnbornInstance, InstanceUpdate
<1>4. k \in Instance
  <2> HIDE DEF j
  <2> QED BY <1>3, InstanceUpdate
<1>5. l \in Instance
  <2> HIDE DEF k
  <2> QED BY <1>4, InstanceUpdate
<1>6. m \in Instance
  <2> HIDE DEF l
  <2> QED BY <1>5, InstanceUpdate
<1>7. i \in Instance
  <2> HIDE DEF m, quiet
  <2> QED BY <1>2, <1>6, InstanceUpdate
<1>8. /\ i.pc = "spawn" /\ i.kind = kind /\ i.mailbox = mb /\ i.alone = quiet
      /\ i.receiver = "none"
  <2> HIDE DEF quiet
  <2> QED BY DEF Unborn
<1>9. inst' = [b \in Actor |->
                  IF b = a THEN i
                  ELSE IF inst[b].pc \in Alive
                  THEN [inst[b] EXCEPT !.alone = FALSE, !.excuse = {}]
                  ELSE inst[b]]
  BY DEF Spawned
<1>10. ASSUME NEW b \in Actor \ {a}
       PROVE  /\ inst'[b] \in Instance
              /\ inst'[b].pc = inst[b].pc /\ inst'[b].kind = inst[b].kind
              /\ inst'[b].mailbox = inst[b].mailbox
              /\ inst'[b].receiver = inst[b].receiver
              /\ inst'[b].migrating = inst[b].migrating
              /\ inst[b].pc \in Alive => inst'[b].alone = FALSE
              /\ inst[b].pc \notin Alive => inst'[b] = inst[b]
  <2>1. CASE inst[b].pc \notin Alive
    BY <1>1, <1>9, <2>1
  <2>2. CASE inst[b].pc \in Alive
    <3> DEFINE n == [inst[b] EXCEPT !.alone = FALSE]
               o == [n EXCEPT !.excuse = {}]
    <3>1. n \in Instance
      BY <1>1, InstanceUpdate
    <3>2. o \in Instance
      <4> HIDE DEF n
      <4> QED BY <3>1, InstanceUpdate DEF Excuses
    <3>3. inst'[b] = o
      BY <1>9, <2>2
    <3>4. /\ o.pc = inst[b].pc /\ o.kind = inst[b].kind
          /\ o.mailbox = inst[b].mailbox /\ o.receiver = inst[b].receiver
          /\ o.migrating = inst[b].migrating /\ o.alone = FALSE
      BY <1>1 DEF Instance
    <3> QED BY <2>2, <3>2, <3>3, <3>4
  <2> QED BY <2>1, <2>2
<1>11. inst'[a] = i
  BY <1>9
<1> HIDE DEF i, quiet
<1>12. inst' \in [Actor -> Instance]
  BY <1>7, <1>9, <1>10, <1>11
<1>13. ActorOK(a)'
  <2>1. MailOK(i)
    <3>1. /\ Len(mb) \in {0, 1} /\ Len(<<>>) = 0
          /\ mb # <<>> => mb[1] = "Migrate" /\ kind = "receive"
      OBVIOUS
    <3> QED BY <1>8, <3>1 DEF MailOK, Starting
  <2>2. MailOK(inst[a])'
    BY <1>11, <2>1 DEF MailOK
  <2>3. FreshOK(a)'
    BY <1>1 DEF ActorOK, FreshOK
  <2>4. LeakOK(a)'
    BY <1>8, <1>11 DEF LeakOK, Settled
  <2>5. AloneOK(a)'
    <3> SUFFICES ASSUME quiet
                 PROVE  OthersQuiet(a)' /\ OwnOK(a)'
      BY <1>8, <1>11 DEF AloneOK
    <3>1. OthersQuiet(a)'
      BY <1>10 DEF OthersQuiet, quiet, Running
    <3>2. sock = NoActor
      BY <1>1 DEF HostOK, quiet
    <3>3. "spawn" \notin Configured \cup Stopping
      BY DEF Configured, Stopping
    <3>4. OwnOK(a)'
      BY <1>8, <1>11, <3>2, <3>3 DEF OwnOK, quiet
    <3> QED BY <3>1, <3>4
  <2> QED BY <2>2, <2>3, <2>4, <2>5 DEF ActorOK
<1>14. ASSUME NEW b \in Actor \ {a}
       PROVE  ActorOK(b)'
  <2>1. MailOK(inst[b])'
    <3>1. MailOK(inst[b])
      BY <1>1 DEF ActorOK
    <3>2. /\ inst'[b].pc = inst[b].pc /\ inst'[b].kind = inst[b].kind
          /\ inst'[b].mailbox = inst[b].mailbox
          /\ inst'[b].receiver = inst[b].receiver
          /\ inst'[b].migrating = inst[b].migrating
      BY <1>10
    <3> QED BY <3>1, <3>2 DEF MailOK
  <2>2. FreshOK(b)'
    BY <1>1, <1>10 DEF ActorOK, FreshOK
  <2>3. LeakOK(b)'
    <3>1. inst[b].pc \in Settled => inst[b].pc \notin Alive
      BY DEF Settled, Alive, Starting, Stopping
    <3> QED BY <1>1, <1>10, <3>1 DEF ActorOK, LeakOK, Running
  <2>4. AloneOK(b)'
    BY <1>10 DEF AloneOK
  <2> QED BY <2>1, <2>2, <2>3, <2>4 DEF ActorOK
<1> QED BY <1>12, <1>13, <1>14 DEF VmInv

\* CreateVM and MigrateVMReceive of the agent.
LEMMA AgentSpawnsOK ==
    ASSUME VmInv, NEW a \in Actor, AgentCreateVM(a) \/ AgentMigrateVMReceive(a)
    PROVE  VmInv'
<1>1. HostOK
  BY DEF VmInv
<1>2. /\ inst[a].pc = "unborn" /\ UNCHANGED <<vmm, dir, sock, mapped>>
      /\ listed' = a /\ asking' \in {asking, a} /\ UNCHANGED faults
  BY DEF AgentCreateVM, AgentMigrateVMReceive, NextActor
<1>3. HostOK'
  BY <1>1, <1>2, HostSame DEF HostOK
<1>4. <<>> \in Mailbox /\ <<"Migrate">> \in Mailbox
  BY DEF Mailbox, Message
<1>5. CASE AgentCreateVM(a)
  <2>1. PICK boot \in BOOLEAN : inst' = Spawned(a, "create", boot, <<>>)
    BY <1>5 DEF AgentCreateVM
  <2> QED BY <1>2, <1>3, <1>4, <2>1, SpawnOK DEF Kind
<1>6. CASE AgentMigrateVMReceive(a)
  <2>1. inst' = Spawned(a, "receive", FALSE, <<"Migrate">>)
    BY <1>6 DEF AgentMigrateVMReceive
  <2> QED BY <1>2, <1>3, <1>4, <2>1, SpawnOK DEF Kind
<1> QED BY <1>5, <1>6

\* DeleteVM and ShutdownVM of the agent.
LEMMA AgentTellsOK ==
    ASSUME VmInv, AgentDeleteVM \/ \E a \in Actor : AgentShutdownVM(a)
    PROVE  VmInv'
<1>1. HostOK
  BY DEF VmInv
<1>2. CASE AgentDeleteVM
  <2>1. listed \in Actor /\ inst' = Tell(listed, "Delete")
    BY <1>1, <1>2 DEF AgentDeleteVM, HostOK
  <2>2. HostOK'
    BY <1>1, <1>2, HostSame DEF AgentDeleteVM, HostOK
  <2> QED BY <1>2, <2>1, <2>2, PlainTellOK DEF AgentDeleteVM
<1>3. ASSUME NEW a \in Actor, AgentShutdownVM(a)
      PROVE  VmInv'
  <2>1. HostOK'
    BY <1>1, <1>3, HostSame DEF AgentShutdownVM, HostOK, agentVars
  <2> QED BY <1>3, <2>1, PlainTellOK DEF AgentShutdownVM
<1> QED BY <1>2, <1>3

\* The task that tells an actor to prepare.
LEMMA TellPrepOK ==
    ASSUME VmInv, NEW a \in Actor, TellPrep(a)
    PROVE  VmInv'
<1>1. HostOK'
  BY HostSame DEF VmInv, TellPrep, HostOK, agentVars
<1> QED BY <1>1, TellOK DEF TellPrep

\* A step that changes none of the variables.
LEMMA VmStutter ==
    ASSUME VmInv, UNCHANGED vmVars
    PROVE  VmInv'
  BY EntryOnlyOK DEF vmVars, VmInv, HostOK

\* Every step keeps the invariant.
LEMMA VmNextInv ==
    ASSUME VmInv, [VmNext]_vmVars
    PROVE  VmInv'
<1>1. HostOK
  BY DEF VmInv
<1>2. ASSUME NEW a \in Actor, Environment(a)
      PROVE  VmInv'
  <2>1. CASE GuestPowersOff(a)
    BY <1>1, <2>1, VmmEndsOK DEF GuestPowersOff, Running, HostOK
  <2>2. CASE VmmCrashes(a)
    <3>1. faults' \in Nat
      BY <1>1, <2>2 DEF VmmCrashes, Fault, HostOK
    <3> QED BY <2>2, <3>1, VmmEndsOK DEF VmmCrashes
  <2>3. CASE LinkDied(a)
    <3>1. faults' \in Nat
      BY <1>1, <2>3 DEF LinkDied, Fault, HostOK
    <3> QED BY <2>3, <3>1, StopsOK DEF LinkDied
  <2> QED BY <1>2, <2>1, <2>2, <2>3, VmmBindsOK DEF Environment
<1>3. ASSUME NEW a \in Actor, AgentStep(a)
      PROVE  VmInv'
  <2>1. CASE AgentLinkDied(a)
    BY <1>1, <2>1, EntryOnlyOK DEF AgentLinkDied, HostOK
  <2>2. CASE AgentAskFails(a)
    BY <1>1, <2>2, EntryOnlyOK DEF AgentAskFails, HostOK
  <2> QED BY <1>3, <2>1, <2>2, AgentSpawnsOK, AgentTellsOK DEF AgentStep
<1>4. ASSUME NEW a \in Actor, OnStart(a)
      PROVE  VmInv'
  BY <1>4, SpawnVmmOK, PingAnsweredOK, PingTimesOutOK, TransformOK, CreateVmOK,
     BootVmOK, AfterBootOK, AttachConsoleOK DEF OnStart
<1>5. ASSUME NEW a \in Actor, Handle(a)
      PROVE  VmInv'
  <2>1. CASE HandleStop(a)
    BY <1>1, <2>1, StopsOK DEF HandleStop, Handles, HostOK
  <2> QED BY <1>5, <2>1, HandleMigrateOK, HandlePrepOK, HandleFinishedOK,
             HandleDeleteOK DEF Handle
<1>6. ASSUME NEW a \in Actor, OnStop(a)
      PROVE  VmInv'
  BY <1>6, DestroyInfoOK, BeforeStopOK, ShutdownVmOK, ShutdownVmmOK, PurgeOK DEF OnStop
<1>7. ASSUME NEW a \in Actor, Tasks(a)
      PROVE  VmInv'
  BY <1>7, WatcherOK, TellPrepOK, ReceiverReturnsOK, ReceiverShutsDownOK,
     TellFinishedOK, ConsoleRetryOK DEF Tasks
<1> QED BY <1>2, <1>3, <1>4, <1>5, <1>6, <1>7, AgentTellsOK, VmStutter DEF VmNext

\* Nothing is there at first.
LEMMA VmInitInv == VmInit => VmInv
<1> SUFFICES ASSUME VmInit
             PROVE  VmInv
  OBVIOUS
<1>1. inst \in [Actor -> Instance]
  BY UnbornInstance DEF VmInit
<1>2. HostOK
  BY ProcFacts DEF VmInit, HostOK, ProcOK
<1>3. ASSUME NEW a \in Actor
      PROVE  ActorOK(a)
  <2>1. inst[a] = Unborn /\ vmm[a] = NoVmm
    BY DEF VmInit
  <2>2. Unborn.pc = "unborn" /\ Unborn.mailbox = <<>> /\ Unborn.receiver = "none"
    BY DEF Unborn
  <2> QED BY <2>1, <2>2 DEF ActorOK, MailOK, FreshOK, AloneOK, LeakOK, Alive, Settled,
                            Starting, Stopping
<1> QED BY <1>1, <1>2, <1>3 DEF VmInv

-----------------------------------------------------------------------------
(* Theorems.                                                               *)

\* The inductive invariant holds in every behaviour of the VM's actors, their
\* processes and the agent.
THEOREM VmInvariance == VmSpec => []VmInv
<1>1. VmInit => VmInv
  BY VmInitInv
<1>2. VmInv /\ [VmNext]_vmVars => VmInv'
  BY VmNextInv
<1> QED BY <1>1, <1>2, PTL DEF VmSpec

\* Type correctness with what ties the parts together: VM, tap, socket name, and that
\* migration_state knows of a receiver in flight.
THEOREM VmTypeCorrect == VmSpec => []VmTypeOK
<1>1. VmInv => VmTypeOK
  BY DEF VmInv, HostOK, ActorOK, MailOK, ProcOK, VmTypeOK
<1> QED BY <1>1, VmInvariance, PTL

\* A process outlives its actor only after one of the failures that are known to leave
\* it: a start that fails before the console has killed its child.
THEOREM LeakCause == VmSpec => []LeakedVmmHasCause
<1>1. VmInv => LeakedVmmHasCause
  BY DEF VmInv, ActorOK, LeakOK, LeakedVmmHasCause
<1> QED BY <1>1, VmInvariance, PTL

\* The storage an actor has mapped is named by the configuration its destroy releases.
THEOREM MappedOwned == VmSpec => []MappedIsOwned
<1>1. VmInv => MappedIsOwned
  BY DEF VmInv, ActorOK, AloneOK, OwnOK, MappedIsOwned, Alive
<1> QED BY <1>1, VmInvariance, PTL

\* A VM that was started from a manifest has storage, console, watcher and tap.
THEOREM RunningComplete == VmSpec => []RunningVmIsComplete
<1>1. VmInv => RunningVmIsComplete
  BY DEF VmInv, ActorOK, AloneOK, OwnOK, RunningVmIsComplete, Alive
<1> QED BY <1>1, VmInvariance, PTL

\* Only destroy ends in "gone": by giving up, which has a cause, or by purging.
LEMMA GoneByDestroy ==
    ASSUME inst \in [Actor -> Instance], NEW a \in Actor, VmNext,
           inst[a].pc # "gone", inst'[a].pc = "gone"
    PROVE  \/ Purge(a)
           \/ \E why \in {"hook", "shutdown"} : Abandon(a, why)
<1>1. ASSUME NEW b \in Actor, \/ Environment(b) \/ AgentStep(b) \/ Handle(b) \/ Tasks(b)
      PROVE  FALSE
  <2>1. inst[a] \in Instance /\ inst[b] \in Instance
    OBVIOUS
  <2>2. CASE Environment(b)
    BY <2>2 DEF Environment, VmmBinds, GuestPowersOff, VmmCrashes, LinkDied, BeginStop,
                Remains, Unborn
  <2>3. CASE AgentStep(b)
    <3>1. CASE AgentCreateVM(b)
      <4>1. PICK boot \in BOOLEAN : inst' = Spawned(b, "create", boot, <<>>)
        BY <3>1 DEF AgentCreateVM
      <4> QED BY <2>1, <4>1 DEF Spawned, Unborn, Instance
    <3>2. CASE AgentMigrateVMReceive(b)
      BY <2>1, <3>2 DEF AgentMigrateVMReceive, Spawned, Unborn, Instance
    <3>3. CASE AgentShutdownVM(b)
      BY <2>1, <3>3 DEF AgentShutdownVM, Tell, Instance
    <3>4. CASE AgentLinkDied(b)
      BY <2>1, <3>4 DEF AgentLinkDied, Instance
    <3>5. CASE AgentAskFails(b)
      BY <2>1, <3>5 DEF AgentAskFails, Instance
    <3> QED BY <2>3, <3>1, <3>2, <3>3, <3>4, <3>5 DEF AgentStep
  <2>4. CASE Handle(b)
    <3>1. CASE HandleMigrate(b)
      <4>1. CASE inst' = MigrationStarted(b)
        BY <2>1, <4>1 DEF MigrationStarted, Instance
      <4>2. CASE inst' = [inst EXCEPT ![b] = BeginStop(b)]
        BY <2>1, <4>2 DEF BeginStop, Remains, Unborn
      <4> QED BY <3>1, <4>1, <4>2 DEF HandleMigrate
    <3>2. CASE HandlePrep(b)
      BY <2>1, <3>2 DEF HandlePrep, Instance
    <3>3. CASE HandleFinished(b)
      BY <2>1, <3>3 DEF HandleFinished, Instance
    <3>4. CASE HandleDelete(b)
      BY <2>1, <3>4 DEF HandleDelete, Instance
    <3>5. CASE HandleStop(b)
      BY <2>1, <3>5 DEF HandleStop, BeginStop, Remains, Unborn, Instance
    <3> QED BY <2>4, <3>1, <3>2, <3>3, <3>4, <3>5 DEF Handle
  <2>5. CASE Tasks(b)
    <3>1. CASE Watcher(b)
      BY <2>1, <3>1 DEF Watcher, BeginStop, Remains, Unborn, Instance
    <3>2. CASE TellPrep(b)
      BY <2>1, <3>2 DEF TellPrep, Tell, Instance
    <3>3. CASE ReceiverReturns(b)
      <4>1. PICK r : inst' = [inst EXCEPT ![b].receiver = r]
        BY <3>3 DEF ReceiverReturns
      <4> QED BY <2>1, <4>1 DEF Instance
    <3>4. CASE ReceiverShutsDown(b)
      BY <2>1, <3>4 DEF ReceiverShutsDown, Instance
    <3>5. CASE TellFinished(b)
      BY <2>1, <3>5 DEF TellFinished, Tell, Instance
    <3>6. CASE ConsoleRetry(b)
      BY <2>1, <3>6 DEF ConsoleRetry, Instance
    <3> QED BY <2>5, <3>1, <3>2, <3>3, <3>4, <3>5, <3>6 DEF Tasks
  <2> QED BY <1>1, <2>2, <2>3, <2>4, <2>5
<1>2. ASSUME NEW b \in Actor, OnStart(b)
      PROVE  FALSE
  <2>1. inst[a] \in Instance /\ inst[b] \in Instance
    OBVIOUS
  <2>2. \A why : inst' # Failed(b, why)
    BY <2>1 DEF Failed, Remains, Unborn
  <2>3. CASE SpawnVmm(b)
    BY <2>1, <2>2, <2>3 DEF SpawnVmm, Instance
  <2>4. CASE PingAnswered(b)
    BY <2>1, <2>2, <2>4 DEF PingAnswered, Instance
  <2>5. CASE PingTimesOut(b)
    BY <2>1, <2>2, <2>5 DEF PingTimesOut, Instance
  <2>6. CASE Transform(b)
    BY <2>1, <2>2, <2>6 DEF Transform, Instance
  <2>7. CASE CreateVm(b)
    <3>1. PICK pc \in {"boot", "attach"} : inst' = [inst EXCEPT ![b].pc = pc]
      BY <2>2, <2>7 DEF CreateVm
    <3> QED BY <2>1, <3>1 DEF Instance
  <2>8. CASE BootVm(b)
    BY <2>1, <2>2, <2>8 DEF BootVm, Instance
  <2>9. CASE AfterBoot(b)
    BY <2>1, <2>2, <2>9 DEF AfterBoot, Instance
  <2>10. CASE AttachConsole(b)
    BY <2>1, <2>2, <2>10 DEF AttachConsole, Started, Instance
  <2> QED BY <1>2, <2>3, <2>4, <2>5, <2>6, <2>7, <2>8, <2>9, <2>10
       DEF OnStart
<1>3. ASSUME AgentDeleteVM
      PROVE  FALSE
  BY <1>3 DEF AgentDeleteVM, Tell, Instance
<1>4. ASSUME NEW b \in Actor, OnStop(b), b # a
      PROVE  FALSE
  <2>1. inst'[a] = inst[a]
    BY <1>4 DEF OnStop, DestroyInfo, BeforeStop, ShutdownVm, ShutdownVmm, Purge, Abandon
  <2> QED BY <2>1
<1>5. ASSUME OnStop(a)
      PROVE  \/ Purge(a)
             \/ \E why \in {"hook", "shutdown"} : Abandon(a, why)
  <2>1. inst[a] \in Instance
    OBVIOUS
  <2>2. CASE DestroyInfo(a) \/ ShutdownVmm(a)
    BY <2>1, <2>2 DEF DestroyInfo, ShutdownVmm, Instance
  <2>3. CASE BeforeStop(a)
    BY <2>1, <2>3 DEF BeforeStop, Instance
  <2>4. CASE ShutdownVm(a)
    BY <2>1, <2>4 DEF ShutdownVm, Instance
  <2> QED BY <1>5, <2>2, <2>3, <2>4 DEF OnStop
<1> QED BY <1>1, <1>2, <1>3, <1>4, <1>5 DEF VmNext

\* What purging leaves, when nothing failed: no process, no directory, no storage.
LEMMA PurgeLeavesNothing ==
    ASSUME VmInv, NEW a \in Actor, Purge(a), inst[a].alone, inst'[a].excuse = {}
    PROVE  ~Running(a)' /\ ~dir' /\ mapped' = {}
<1>1. /\ inst \in [Actor -> Instance] /\ inst[a] \in Instance /\ HostOK
      /\ AloneOK(a) /\ inst[a].excuse \in Excuses
  BY InvFacts, InstanceDef
<1>2. inst[a].pc = "purge" /\ UNCHANGED vmm
  BY DEF Purge
<1>3. PICK kept \in SUBSET Releasable(a), removed \in BOOLEAN :
          /\ mapped' = mapped \ (Releasable(a) \ kept)
          /\ dir' = (dir /\ ~removed)
          /\ inst' = [inst EXCEPT ![a] =
                 Remains(a, "gone", IF kept = {} /\ removed THEN inst[a].excuse
                                    ELSE Because(a, "purge"))]
  BY DEF Purge
<1>4. inst'[a].excuse = IF kept = {} /\ removed THEN inst[a].excuse
                        ELSE Because(a, "purge")
  BY <1>1, <1>3 DEF Remains, Unborn
<1>5. kept = {} /\ removed /\ inst[a].excuse = {}
  BY <1>4 DEF Because
<1>6. OwnOK(a)
  BY <1>1, <1>2, StoppingFacts DEF AloneOK
<1>7. ~Running(a)'
  BY <1>2, <1>5, <1>6 DEF OwnOK, Running
<1>8. mapped' = {}
  <2>1. mapped # {} => inst[a].config
    BY <1>2, <1>6, StoppingFacts DEF OwnOK
  <2> QED BY <1>1, <1>3, <1>5, <2>1 DEF HostOK, Releasable
<1> QED BY <1>3, <1>5, <1>7, <1>8

\* destroy of an actor that is alone, when none of its calls failed, leaves nothing of
\* the VM on the host.
THEOREM DestroyClean == VmSpec => DestroyLeavesNothing
<1> DEFINE Left == \A a \in Actor :
                      /\ inst[a].pc # "gone" /\ inst'[a].pc = "gone"
                      /\ inst[a].alone /\ inst'[a].excuse = {}
                      => ~Running(a)' /\ ~dir' /\ mapped' = {}
<1>1. VmInv /\ [VmNext]_vmVars => [Left]_vmVars
  <2> SUFFICES ASSUME VmInv, VmNext, NEW a \in Actor,
                      inst[a].pc # "gone", inst'[a].pc = "gone",
                      inst[a].alone, inst'[a].excuse = {}
               PROVE  ~Running(a)' /\ ~dir' /\ mapped' = {}
    OBVIOUS
  <2>1. inst \in [Actor -> Instance]
    BY DEF VmInv
  <2>2. CASE Purge(a)
    BY <2>2, PurgeLeavesNothing
  <2>3. ASSUME NEW why \in {"hook", "shutdown"}, Abandon(a, why)
        PROVE  FALSE
    BY <2>1, <2>3 DEF Abandon, Remains, Unborn, Because
  <2> QED BY <2>1, <2>2, <2>3, GoneByDestroy
<1> QED BY <1>1, VmInvariance, PTL DEF VmSpec, DestroyLeavesNothing
=============================================================================
