------------------------------ MODULE MCVmHost ------------------------------
(***************************************************************************)
(* Small instances of VmHost and Console for TLC, and the bounded inputs   *)
(* on which the pure functions of VmConfig are compared with what they are *)
(* for: each input is an initial state of its own, in which the host does  *)
(* nothing.  The console of a VM runs beside the smallest of them and not  *)
(* beside the host: no other part of the host reads or changes it.         *)
(***************************************************************************)
EXTENDS VmHost, VmConfig, Console, TLC

SeqsUpTo(S, n) == UNION {[1 .. k -> S] : k \in 0 .. n}

\* One manifest, and the manifests that differ from it in one group of fields.
Base == [api_version |-> 1, name |-> "n", vcpus |-> 1, max_vcpus |-> None,
         memory |-> 1, storage |-> <<>>, networks |-> <<>>,
         requirements |-> <<>>, cloud_init |-> None, vsock |-> None,
         firmware |-> None, kernel |-> None]

\* A second URI on a disk of its own, to make the first one's failure or
\* success matter.
SecondUri == [scheme : {"rbd", "iscsi"}, parses : {TRUE}, complete : {TRUE},
              target : {"t1", "t2"}, query : {None}]

Disk1(uris) == [id : {"s1"}, uri : uris \cup {None}, volume_id : {None, "vol"}]
Disk2 == [id : {"s1", "s2"}, uri : SecondUri, volume_id : {None}]

MCManifest ==
    {[Base EXCEPT !.api_version = v, !.name = n] : v \in {1, 2}, n \in {"", "n"}}
    \cup {[Base EXCEPT !.vcpus = c, !.max_vcpus = x, !.memory = r] :
             c \in 0 .. IntMax + 1, x \in {None} \cup 0 .. IntMax + 1,
             r \in 0 .. IntMax + 1}
    \cup {[Base EXCEPT !.firmware = f, !.kernel = k] :
             f, k \in {None, "absolute", "relative"}}
    \cup {[Base EXCEPT !.networks = <<n>>, !.storage = <<s>>] :
             n \in {<<>>, <<"a">>, <<"/">>}, s \in Disk2}
    \cup {[Base EXCEPT !.storage = s] : s \in Disk1(Uri) \X Disk2}
    \cup {[Base EXCEPT !.storage = <<s[2], s[1]>>] : s \in Disk1(Uri) \X Disk2}
    \cup {[Base EXCEPT !.cloud_init = c] :
             c \in [user_data : {None, "", "d"}, meta_data : {None, "", "d"}]}
    \cup {[Base EXCEPT !.vsock = v] :
             v \in [cid : {0, 3}, socket : {"absolute", "relative"}]}
    \cup {[Base EXCEPT !.requirements = <<q>>] :
             q \in [operator : {"In", "Lt"}, values : SeqsUpTo({1, 2}, 2)]}

\* VM ids made at the same time: they share their first characters.
MCVmid == {<<"a", "b">> \o s : s \in [1 .. 4 -> {"a", "b"}]}
MCNetworkId == UNION {[1 .. k -> {"a", "B"}] : k \in 1 .. 6}

\* Mapped images, some in a namespace that is named like an image, some at a
\* snapshot; the kernel numbers the mappings, and may map an image twice.
RbdRow(i) == [number : {i}, pool : {"p1", "p2"}, namespace : {None, "i1"},
              image : {"i1", "i2"}, snapshot : {None, "s1"}]

MCRbdTable ==
    {{}} \cup {{r} : r \in RbdRow(0)}
    \cup {{r, s} : r \in RbdRow(0), s \in RbdRow(1)}
    \cup {{r, s, t} : r \in RbdRow(0), s \in RbdRow(1), t \in RbdRow(2)}

\* Chunks of 1 to 4 bytes, every byte different.
MCByte == 11 .. 44
MCChunk == {[k \in 1 .. len |-> 10 * len + k] : len \in 1 .. 4}

NoRows == [rows |-> {}]

MCInit == VmInit /\ ConsoleInit /\ VmConfigInit

MCNext ==
    \/ input = NoInput /\ VmNext /\ UNCHANGED <<input, consoleVars>>
    \/ input = NoRows /\ ConsoleNext /\ UNCHANGED <<input, vmVars>>

MCSpec == MCInit /\ [][MCNext]_<<vmVars, input, consoleVars>> /\ VmFairness
=============================================================================
