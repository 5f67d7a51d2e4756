------------------------------- MODULE VmConfig -------------------------------
(***************************************************************************)
(* What becomes of a VM manifest on its way to the VMM: validation         *)
(* (manifest.rs), conversion to a Cloud Hypervisor configuration           *)
(* (ch_driver/manifest.rs), the chain of host transforms with the storage  *)
(* drivers (ch_driver/transform/), and the release of the storage from     *)
(* whatever configuration is left at teardown.                             *)
(*                                                                         *)
(* These are pure functions: a behaviour is one input, which does not      *)
(* change, and the properties at the end are about one input each.  A URI  *)
(* is a record of what the code asks of it; a string field of a            *)
(* configuration is a tagged pair, so that a URI, a plain id and a device  *)
(* path stay apart.                                                        *)
(***************************************************************************)
EXTENDS Integers, Sequences, FiniteSets, SequencesExt

CONSTANTS
    None,           \* Option::None
    IntMax,         \* i32::MAX and i64::MAX, scaled down
    Target,         \* storage targets: images, (portal, IQN) pairs
    Vmid,           \* VM ids as character sequences
    NetworkId,      \* network ids as character sequences
    Manifest,       \* manifests that a client may send
    RbdName,        \* names of RBD pools and images
    RbdTable        \* tables of mapped images, each a set of rows

VARIABLE input      \* the input of a function, or NoInput

ASSUME NoneAssumption == None # "absolute"

MANIFEST_VERSION == 1
MAX_IFNAME_LEN == 15
TAP_PREFIX == <<"v", "m", "t", "a", "p">>

Alphanumeric == {"a", "b", "A", "B"}
Character == Alphanumeric \cup {"-", "_", "/"}
Lower == [c \in Alphanumeric |-> IF c \in {"A", "a"} THEN "a" ELSE "b"]

-----------------------------------------------------------------------------
(* The manifest.                                                           *)

Uri == [scheme : {"file", "rbd", "iscsi", "other", "blank"},
        parses : BOOLEAN, complete : BOOLEAN, target : Target, query : {None}]

\* The numbers are unsigned, the disks a list, each with a URI or without.
ASSUME ManifestAssumption ==
    \A m \in Manifest :
        /\ m.vcpus \in Nat /\ m.memory \in Nat
        /\ m.max_vcpus # None => m.max_vcpus \in Nat
        /\ Len(m.storage) \in Nat /\ DOMAIN m.storage = 1 .. Len(m.storage)
        /\ \A i \in DOMAIN m.storage : m.storage[i].uri \in Uri \cup {None}

\* Lt and Gt compare with exactly one finite number.
validComparison(req) ==
    req.operator \in {"Lt", "Gt"} => Len(req.values) = 1 /\ req.values[1] \in Int

validStorage(s) ==
    /\ s.id # ""
    /\ s.uri # None => s.uri.scheme # "blank"
    /\ (s.uri = None) # (s.volume_id = None)

validCloudInit(c) ==
    /\ c.user_data # None /\ c.meta_data # None
    /\ c.user_data # "" /\ c.meta_data # ""

\* Every VmManifest that arrives as a message or a request has passed this: its
\* Deserialize calls it.
validate(m) ==
    /\ m.api_version = MANIFEST_VERSION
    /\ m.name # ""
    /\ m.vcpus > 0
    /\ m.max_vcpus # None => m.max_vcpus >= m.vcpus
    /\ m.memory > 0
    /\ \A i \in DOMAIN m.storage : validStorage(m.storage[i])
    /\ \A i, j \in DOMAIN m.storage :
          m.storage[i].id = m.storage[j].id => i = j
    /\ \A i \in DOMAIN m.networks : m.networks[i] # <<>>
    /\ \A i \in DOMAIN m.requirements : validComparison(m.requirements[i])
    /\ m.cloud_init # None => validCloudInit(m.cloud_init)
    /\ m.vsock # None => m.vsock.cid > 0 /\ m.vsock.socket = "absolute"

\* storage_to_disk knows three schemes and no volume references.
Backends == {"file", "rbd", "iscsi"}
diskSource(s) == s.uri # None /\ s.volume_id = None /\ s.uri.scheme \in Backends

\* to_vm_config returns a configuration: nothing of the manifest is dropped
\* silently, so what has no conversion is refused.
Converts(m) ==
    /\ validate(m)
    /\ \A i \in DOMAIN m.storage : diskSource(m.storage[i])
    /\ m.cloud_init = None
    /\ m.vcpus <= IntMax /\ m.memory <= IntMax
    /\ m.max_vcpus # None => m.max_vcpus <= IntMax

storage_to_disk(s) == [id |-> <<"id", s.id>>, path |-> <<"uri", s.uri>>]

\* Mutant: the firmware defaults whether or not there is a kernel.
defaultFirmwareAlways(m) == IF m.firmware # None THEN m.firmware ELSE "absolute"

\* The built-in firmware is for a boot without a kernel.
defaultFirmware(m) ==
    IF m.firmware # None THEN m.firmware
    ELSE IF m.kernel # None THEN None ELSE "absolute"

to_vm_config(m) ==
    [boot_vcpus |-> m.vcpus,
     max_vcpus |-> IF m.max_vcpus # None THEN m.max_vcpus ELSE m.vcpus,
     memory |-> m.memory,
     firmware |-> defaultFirmware(m),
     kernel |-> m.kernel,
     disks |-> [i \in DOMAIN m.storage |-> storage_to_disk(m.storage[i])],
     net |-> [i \in DOMAIN m.networks |-> [id |-> m.networks[i], tap |-> None]],
     vsock |-> m.vsock]

-----------------------------------------------------------------------------
(* Storage drivers.                                                        *)

\* A field that find_backend has a driver for: Url::parse accepts it and the
\* scheme is known.
HasDriver(field) ==
    field[1] = "uri" /\ field[2].parses /\ field[2].scheme \in Backends

\* Resolving a URI runs a command for its target: the outcome is "ok", "refused",
\* or "no_device" when an image was mapped and its device is not found.  An RBD
\* URI must name a pool and an image; what an iSCSI URI lacks is defaulted.
RbdAttaches(u, outcome) == u.complete /\ outcome[u.target] # "refused"
RbdResolves(u, outcome) == u.complete /\ outcome[u.target] = "ok"
RbdReleases(u) == IF u.complete THEN {<<"rbd", u.target>>} ELSE {}

IscsiResolves(u, outcome) == outcome[u.target] # "refused"
IscsiReleases(u) == {<<"iscsi", u.target>>}

FileResolves(u) == u.complete

Resolves(u, outcome) ==
    CASE u.scheme = "rbd" -> RbdResolves(u, outcome)
      [] u.scheme = "iscsi" -> IscsiResolves(u, outcome)
      [] u.scheme = "file" -> FileResolves(u)

\* What a release of the URI gives back, and what resolving it has attached: the
\* query of the URI plays no part in either.
Releases(u) ==
    CASE u.scheme = "rbd" -> RbdReleases(u)
      [] u.scheme = "iscsi" -> IscsiReleases(u)
      [] u.scheme = "file" -> {}

Attached(u, outcome) ==
    IF \/ u.scheme = "rbd" /\ RbdAttaches(u, outcome)
       \/ u.scheme = "iscsi" /\ IscsiResolves(u, outcome)
    THEN {<<u.scheme, u.target>>} ELSE {}

\* Mutant: the disk id is left as it is in the manifest.
rewrittenIdKept(disk) == disk.id

\* The id becomes the URI with the old id as its query.
rewrittenId(disk) == <<"uri", [disk.path[2] EXCEPT !.query = disk.id[2]]>>

\* StorageDriverTransformer::transform goes through the disks in order and
\* returns at the first driver error, having rewritten that disk's id.
storage_transform(disks, outcome) ==
    LET taken == {i \in DOMAIN disks : HasDriver(disks[i].path)}
        errors == {i \in taken : ~Resolves(disks[i].path[2], outcome)}
        stop == IF errors = {} THEN Len(disks) + 1 ELSE Min(errors)
    IN  [ok |-> errors = {},
         held |-> UNION {Attached(disks[i].path[2], outcome) :
                            i \in {j \in taken : j <= stop}},
         disks |-> [i \in DOMAIN disks |->
             IF i \notin taken \/ i > stop THEN disks[i]
             ELSE [id |-> rewrittenId(disks[i]),
                   path |-> IF i = stop THEN disks[i].path
                            ELSE <<"device", disks[i].path[2].target>>]]]

\* release_config: the first of path and id that has a driver is released; an
\* error is logged and the rest goes on.
Released(disks) ==
    LET candidate(d) == IF HasDriver(d.path) THEN {d.path[2]}
                        ELSE IF HasDriver(d.id) THEN {d.id[2]} ELSE {}
    IN  UNION {UNION {Releases(u) : u \in candidate(disks[i])} : i \in DOMAIN disks}

-----------------------------------------------------------------------------
(* Network ids and tap names.                                              *)

\* A VM id is a ULID, of 26 characters; a network id is of any length.
ASSUME IdAssumption ==
    /\ IsFiniteSet(Vmid) /\ IsFiniteSet(NetworkId)
    /\ \A v \in Vmid : v \in Seq(Character) /\ Len(v) >= 4
    /\ \A n \in NetworkId : n \in Seq(Character)

validate_network_id(id) ==
    id # <<>> /\ ToSet(id) \subseteq Alphanumeric \cup {"-", "_"}

sanitize_component(s) ==
    [i \in DOMAIN s |-> IF s[i] \in Alphanumeric THEN Lower[s[i]]
                        ELSE IF s[i] \in {"-", "_"} THEN s[i] ELSE "-"]

\* Mutant: the first characters are kept.
keepPrefix(s, n) == IF Len(s) > n THEN SubSeq(s, 1, n) ELSE s

\* The last n characters: the tail of a ULID is the random part.
keepSuffix(s, n) == IF Len(s) > n THEN SubSeq(s, Len(s) - n + 1, Len(s)) ELSE s

deterministic_tap_name(vmid, network_id) ==
    LET available == MAX_IFNAME_LEN - (Len(TAP_PREFIX) + 2)
        vmid_budget == available \div 2
        name == TAP_PREFIX \o <<"-">>
                \o keepSuffix(sanitize_component(vmid), vmid_budget) \o <<"-">>
                \o keepSuffix(sanitize_component(network_id),
                              available - vmid_budget)
    IN  IF Len(name) > MAX_IFNAME_LEN THEN SubSeq(name, 1, MAX_IFNAME_LEN) ELSE name

-----------------------------------------------------------------------------
(* The chain: storage, console, network, path verification.                *)

absolute(path) == path = None \/ path = "absolute"

path_verify(c, disks) ==
    /\ absolute(c.kernel) /\ absolute(c.firmware)
    /\ \A i \in DOMAIN disks : disks[i].path[1] = "device"

\* The console and serial settings are overwritten for every VM alike, and no
\* transform but the first holds anything on the host.
transform_chain(vmid, c, outcome) ==
    LET s == storage_transform(c.disks, outcome)
        nets == \A i \in DOMAIN c.net : validate_network_id(c.net[i].id)
    IN  [ok |-> s.ok /\ nets /\ path_verify(c, s.disks),
         held |-> s.held,
         config |-> [c EXCEPT
             !.disks = s.disks,
             !.net = [i \in DOMAIN c.net |-> [c.net[i] EXCEPT
                 !.tap = deterministic_tap_name(vmid, c.net[i].id)]]]]

-----------------------------------------------------------------------------
(* Parsing what the storage commands print.                                *)

\* Mutant: the fourth column is taken for the image whatever the columns are.
rbd_line_fourth(fields) ==
    IF Len(fields) < 5 THEN {}
    ELSE {[pool |-> fields[2], image |-> fields[4], device |-> fields[Len(fields)]]}

\* One line of rbd_lines_list, split at white space.  The namespace column is
\* empty, and so missing, for an image in none.
rbd_line(fields) ==
    IF Len(fields) >= 6
    THEN {[pool |-> fields[2], image |-> fields[4], device |-> fields[6]]}
    ELSE IF Len(fields) = 5 /\ fields[5][1] = "device"
    THEN {[pool |-> fields[2], image |-> fields[3], device |-> fields[5]]}
    ELSE {}

\* What `rbd device list` prints for a mapped image (external).
Device(r) == <<"device", r.number>>
PrintedRow(r) ==
    <<r.number, r.pool>> \o (IF r.namespace = None THEN <<>> ELSE <<r.namespace>>)
    \o <<r.image, IF r.snapshot = None THEN "-" ELSE r.snapshot, Device(r)>>

\* The parsed lines whose path is the image's.
rbd_matches(pool, image, rows) ==
    {e \in UNION {rbd_line(PrintedRow(r)) : r \in rows} :
        e.pool = pool /\ e.image = image}

\* RbdImage::map finds its image among the listed ones and reuses the mapping.
Reuses(pool, image, rows) == rbd_matches(pool, image, rows) # {}

\* The kernel devices that RbdStorage::resolve may give the VM when the stable path
\* does not appear: it takes the first line that matches, and the order of the
\* lines is the command's.
fallbackDevices(pool, image, rows) ==
    {e.device : e \in rbd_matches(pool, image, rows)}

-----------------------------------------------------------------------------
(* Properties.                                                             *)

\* Teardown releases exactly what the transform attached when it is given the
\* transformed configuration, whose paths no longer say where they came from;
\* and everything that was attached when it is given the untransformed one,
\* which is what prep_config keeps, also after a transform that stopped half
\* way.
ReleasesWhatWasResolved(m) ==
    \A vmid \in Vmid, outcome \in [Target -> {"ok", "refused", "no_device"}] :
        Converts(m) =>
            LET c == to_vm_config(m)
                r == transform_chain(vmid, c, outcome)
            IN  /\ r.ok => Released(r.config.disks) = r.held
                /\ r.held \subseteq Released(c.disks)

\* In a converted configuration the counts are positive, ordered and in the range
\* of the VMM's integers, there is a kernel or a firmware to boot, and not both by
\* a default: without a firmware in the manifest there is exactly one of them.
\* This does not make every configuration one the VMM accepts: a manifest that
\* names both a kernel and a firmware is converted with both, which ch_driver/
\* manifest.rs:76-80 says Cloud Hypervisor rejects.
LimitsAndPayload(m) ==
    Converts(m) =>
        LET c == to_vm_config(m)
        IN  /\ 1 <= c.boot_vcpus /\ c.boot_vcpus <= c.max_vcpus
            /\ c.max_vcpus <= IntMax
            /\ 1 <= c.memory /\ c.memory <= IntMax
            /\ c.kernel # None \/ c.firmware # None
            /\ m.firmware = None => c.kernel = None \/ c.firmware = None

\* A tap name fits Linux's limit, and two taps have the same name exactly when
\* the last four characters of the VM ids and of the network ids are the same
\* but for case: the name keeps the part of a ULID that differs between VMs made
\* at the same time.  Two networks of a VM that end alike do share a name.  The
\* example of docs/networking.md:32 is not such a name: it keeps five characters
\* of the VM id and has 16.
NamesFitAndDiffer(vmids, networkIds) ==
    LET tail(s) == sanitize_component(
                       SubSeq(s, IF Len(s) <= 4 THEN 1 ELSE Len(s) - 3, Len(s)))
        named == {<<deterministic_tap_name(v, n), <<tail(v), tail(n)>>>> :
                     v \in vmids, n \in networkIds}
        names == {p[1] : p \in named}
    IN  /\ \A n \in names : Len(n) <= MAX_IFNAME_LEN
        /\ Cardinality(named) = Cardinality(names)
        /\ Cardinality(named) = Cardinality({p[2] : p \in named})

\* What `rbd device map pool/image` maps: the image itself, in no namespace and at
\* no snapshot.
Named(r, pool, image) == r.pool = pool /\ r.image = image
MapsOf(pool, image, rows) ==
    {r \in rows : Named(r, pool, image) /\ r.namespace = None /\ r.snapshot = None}

\* An image is taken for mapped exactly when it is, and the kernel device that the
\* VM may be given is one of its own.
ReuseIsExact(pool, image, rows) ==
    /\ Reuses(pool, image, rows) <=> MapsOf(pool, image, rows) # {}
    /\ fallbackDevices(pool, image, rows)
           = {Device(r) : r \in MapsOf(pool, image, rows)}

\* Nothing else that is mapped has the pool and the name of the image: no image of
\* a namespace and no snapshot.
Unshadowed(pool, image, rows) ==
    {r \in rows : Named(r, pool, image)} \subseteq MapsOf(pool, image, rows)

-----------------------------------------------------------------------------
NoInput == [host |-> TRUE]

VmConfigInit ==
    \/ input = NoInput
    \/ \E m \in Manifest : input = [manifest |-> m]
    \/ input = [vmids |-> Vmid]
    \/ \E rows \in RbdTable : input = [rows |-> rows]

VmConfigSpec == VmConfigInit /\ [][UNCHANGED input]_input

Given(what) == what \in DOMAIN input

\* Whatever disks a transform attached, teardown finds and releases, from the
\* transformed configuration and from the one that prep_config keeps.
ReleaseFindsWhatWasResolved ==
    Given("manifest") => ReleasesWhatWasResolved(input.manifest)

\* Whatever manifest passes validation and conversion gives a configuration whose
\* CPUs and memory are in the VMM's range, with something to boot, and the default
\* firmware does not get in the way of a kernel that the manifest names.
ConvertedConfigInLimits == Given("manifest") => LimitsAndPayload(input.manifest)

\* Tap names of VMs made at the same time fit and differ where they have to.
TapNamesFitAndDiffer ==
    Given("vmids") => NamesFitAndDiffer(input.vmids, NetworkId)

\* Whatever else `rbd device list` shows, in namespaces and at snapshots too,
\* RbdImage::map and the fallback of RbdStorage::resolve are exact about an image
\* whose name nothing else that is mapped shares: no column of the table is ever
\* taken for another.
RbdReuseIsExactIfUnshadowed ==
    Given("rows") =>
        \A pool, image \in RbdName :
            Unshadowed(pool, image, input.rows) => ReuseIsExact(pool, image, input.rows)

\* What rbd.rs says of RbdImage::map: "Maps the RBD image to a kernel block device. If
\* already mapped, this is a no-op."
RbdReuseIsExact ==
    Given("rows") =>
        \A pool, image \in RbdName : ReuseIsExact(pool, image, input.rows)
=============================================================================
