---------------------------- MODULE VmConfigProofs ----------------------------
(***************************************************************************)
(* Proofs about the functions of VmConfig, for manifests with any number   *)
(* of disks, any set of ids and any table of images, and about the console *)
(* history (Console), for any chunks and any size of the buffer.           *)
(***************************************************************************)
EXTENDS VmConfig, Console, SumProofs, SequenceTheorems

-----------------------------------------------------------------------------
(* The input does not change.                                              *)

\* What is given is one of the inputs that Init allows.
LEMMA InputStays == VmConfigSpec => []VmConfigInit
<1>1. VmConfigInit /\ [UNCHANGED input]_input => VmConfigInit'
  BY DEF VmConfigInit
<1> QED BY <1>1, PTL DEF VmConfigSpec

\* A manifest that is given is one of those that a client may send.
LEMMA GivenManifest ==
    ASSUME VmConfigInit, Given("manifest")
    PROVE  input.manifest \in Manifest
  BY DEF VmConfigInit, Given, NoInput

\* The VM ids that are given are all of them.
LEMMA GivenVmids ==
    ASSUME VmConfigInit, Given("vmids")
    PROVE  input.vmids = Vmid
  BY DEF VmConfigInit, Given, NoInput

-----------------------------------------------------------------------------
(* Conversion.                                                             *)

\* Whatever valid manifest to_vm_config converts, the result has its numbers in the
\* VMM's range and something to boot, and no default firmware beside a kernel.
THEOREM LimitsKept ==
    ASSUME NEW m \in Manifest
    PROVE  LimitsAndPayload(m)
<1> SUFFICES ASSUME Converts(m)
             PROVE  LET c == to_vm_config(m)
                    IN  /\ 1 <= c.boot_vcpus /\ c.boot_vcpus <= c.max_vcpus
                        /\ c.max_vcpus <= IntMax
                        /\ 1 <= c.memory /\ c.memory <= IntMax
                        /\ c.kernel # None \/ c.firmware # None
                        /\ m.firmware = None => c.kernel = None \/ c.firmware = None
  BY DEF LimitsAndPayload
<1> DEFINE c == to_vm_config(m)
<1>1. /\ c.boot_vcpus = m.vcpus /\ c.memory = m.memory /\ c.kernel = m.kernel
      /\ c.max_vcpus = IF m.max_vcpus # None THEN m.max_vcpus ELSE m.vcpus
      /\ c.firmware = defaultFirmware(m)
  BY DEF to_vm_config
<1> HIDE DEF c
<1>2. /\ m.vcpus \in Nat /\ m.memory \in Nat /\ m.vcpus > 0 /\ m.memory > 0
      /\ m.vcpus <= IntMax /\ m.memory <= IntMax
      /\ m.max_vcpus # None => /\ m.max_vcpus \in Nat /\ m.max_vcpus >= m.vcpus
                               /\ m.max_vcpus <= IntMax
  BY ManifestAssumption DEF Converts, validate
<1>3. /\ 1 <= c.boot_vcpus /\ c.boot_vcpus <= c.max_vcpus /\ c.max_vcpus <= IntMax
      /\ 1 <= c.memory /\ c.memory <= IntMax
  BY <1>1, <1>2
<1>4. /\ c.kernel # None \/ c.firmware # None
      /\ m.firmware = None => c.kernel = None \/ c.firmware = None
  BY <1>1, NoneAssumption DEF defaultFirmware
<1> QED BY <1>3, <1>4 DEF c

\* Every manifest that to_vm_config is given and accepts becomes a configuration with
\* something to boot and with CPUs and memory in the range of the VMM.
THEOREM ConversionInLimits == VmConfigSpec => []ConvertedConfigInLimits
<1>1. VmConfigInit => ConvertedConfigInLimits
  BY GivenManifest, LimitsKept DEF ConvertedConfigInLimits
<1> QED BY <1>1, InputStays, PTL

-----------------------------------------------------------------------------
(* Storage: what a transform attaches and what teardown releases.          *)

\* A URI that a converted disk may have.
LEMMA UriFields ==
    ASSUME NEW u \in Uri, u.scheme \in Backends, NEW q
    PROVE  LET w == [u EXCEPT !.query = q]
           IN  /\ w.scheme = u.scheme /\ w.parses = u.parses
               /\ w.complete = u.complete /\ w.target = u.target
  BY DEF Uri

\* Releasing depends on neither the query nor anything but these fields.
LEMMA ReleasesSame ==
    ASSUME NEW u, NEW w, u.scheme \in Backends, w.scheme = u.scheme,
           w.complete = u.complete, w.target = u.target
    PROVE  Releases(w) = Releases(u)
  BY DEF Releases, RbdReleases, IscsiReleases, Backends

\* A release gives back everything that was attached.
LEMMA AttachedReleased ==
    ASSUME NEW u, u.scheme \in Backends, NEW outcome
    PROVE  Attached(u, outcome) \subseteq Releases(u)
  BY DEF Attached, Releases, RbdReleases, IscsiReleases, RbdAttaches, Backends

\* What is resolved is attached, and exactly that is released.
LEMMA ResolvedReleased ==
    ASSUME NEW u, u.scheme \in Backends, NEW outcome, Resolves(u, outcome)
    PROVE  Releases(u) = Attached(u, outcome)
  BY DEF Attached, Releases, RbdReleases, IscsiReleases, RbdAttaches, Backends,
         Resolves, RbdResolves, IscsiResolves

\* What release_config asks a driver to release for one disk.
DiskReleases(d) ==
    LET candidate == IF HasDriver(d.path) THEN {d.path[2]}
                     ELSE IF HasDriver(d.id) THEN {d.id[2]} ELSE {}
    IN  UNION {Releases(u) : u \in candidate}

\* What is released is what is released disk by disk.
LEMMA ReleasedByDisk ==
    ASSUME NEW disks
    PROVE  Released(disks) = UNION {DiskReleases(disks[i]) : i \in DOMAIN disks}
  BY DEF Released, DiskReleases

\* The disks of a converted manifest.
LEMMA ConvertedDisks ==
    ASSUME NEW m \in Manifest, Converts(m)
    PROVE  LET c == to_vm_config(m)
           IN  /\ DOMAIN c.disks = DOMAIN m.storage
               /\ \A i \in DOMAIN c.disks :
                     /\ c.disks[i].path[1] = "uri" /\ c.disks[i].id[1] = "id"
                     /\ c.disks[i].path[2] \in Uri
                     /\ c.disks[i].path[2].scheme \in Backends
<1> DEFINE c == to_vm_config(m)
<1>1. c.disks = [i \in DOMAIN m.storage |-> storage_to_disk(m.storage[i])]
  BY DEF to_vm_config
<1>2. ASSUME NEW i \in DOMAIN m.storage
      PROVE  m.storage[i].uri \in Uri /\ m.storage[i].uri.scheme \in Backends
  BY ManifestAssumption DEF Converts, diskSource
<1>3. ASSUME NEW i \in DOMAIN m.storage
      PROVE  /\ c.disks[i].path = <<"uri", m.storage[i].uri>>
             /\ c.disks[i].id = <<"id", m.storage[i].id>>
  BY <1>1 DEF storage_to_disk
<1> HIDE DEF c
<1>4. DOMAIN c.disks = DOMAIN m.storage
  BY <1>1
<1>5. ASSUME NEW i \in DOMAIN c.disks
      PROVE  /\ c.disks[i].path[1] = "uri" /\ c.disks[i].id[1] = "id"
             /\ c.disks[i].path[2] \in Uri
             /\ c.disks[i].path[2].scheme \in Backends
  <2>1. /\ c.disks[i].path = <<"uri", m.storage[i].uri>>
        /\ c.disks[i].id = <<"id", m.storage[i].id>>
    BY <1>3, <1>4
  <2>2. c.disks[i].path[1] = "uri" /\ c.disks[i].id[1] = "id"
    BY <2>1
  <2>3. c.disks[i].path[2] = m.storage[i].uri
    BY <2>1
  <2> QED BY <1>2, <1>4, <2>2, <2>3
<1> QED BY <1>4, <1>5 DEF c

\* A transform that succeeds has attached what a release of the rewritten disk gives
\* back, disk by disk.
LEMMA RewrittenReleases ==
    ASSUME NEW u \in Uri, u.scheme \in Backends, u.parses, NEW q, NEW outcome, NEW t,
           Resolves(u, outcome), NEW d,
           d.id = <<"uri", [u EXCEPT !.query = q]>>, d.path = <<"device", t>>
    PROVE  DiskReleases(d) = Attached(u, outcome)
<1> DEFINE w == [u EXCEPT !.query = q]
<1>1. w.scheme = u.scheme /\ w.parses = u.parses /\ w.complete = u.complete /\ w.target = u.target
  BY UriFields
<1> HIDE DEF w
<1>2. ~HasDriver(d.path)
  BY DEF HasDriver
<1>3. d.id[1] = "uri" /\ d.id[2] = w
  BY DEF w
<1>4. HasDriver(d.id)
  BY <1>1, <1>3 DEF HasDriver
<1>5. DiskReleases(d) = Releases(w)
  BY <1>2, <1>3, <1>4 DEF DiskReleases
<1>6. Releases(w) = Releases(u)
  BY <1>1, ReleasesSame
<1> QED BY <1>5, <1>6, ResolvedReleased

\* A transform that stops anywhere holds nothing that a release of the disks as they
\* were before it does not give back.
LEMMA HeldIsReleasable ==
    ASSUME NEW m \in Manifest, Converts(m), NEW outcome
    PROVE  LET c == to_vm_config(m)
           IN  storage_transform(c.disks, outcome).held \subseteq Released(c.disks)
<1> DEFINE disks == to_vm_config(m).disks
           taken == {i \in DOMAIN disks : HasDriver(disks[i].path)}
<1>1. \A i \in DOMAIN disks : disks[i].path[2].scheme \in Backends
  BY ConvertedDisks
<1> HIDE DEF disks
<1>2. storage_transform(disks, outcome).held \subseteq
          UNION {Attached(disks[i].path[2], outcome) : i \in taken}
  BY DEF storage_transform
<1>3. ASSUME NEW i \in taken
      PROVE  Attached(disks[i].path[2], outcome) \subseteq DiskReleases(disks[i])
  <2>1. DiskReleases(disks[i]) = Releases(disks[i].path[2])
    BY DEF DiskReleases
  <2> QED BY <1>1, <2>1, AttachedReleased
<1>4. UNION {Attached(disks[i].path[2], outcome) : i \in taken} \subseteq Released(disks)
  BY <1>3, ReleasedByDisk
<1> QED BY <1>2, <1>4 DEF disks

\* A chain of transforms that succeeds leaves disks from which teardown releases exactly
\* what was attached.
LEMMA SuccessIsReleased ==
    ASSUME NEW m \in Manifest, Converts(m), NEW outcome, NEW vmid,
           transform_chain(vmid, to_vm_config(m), outcome).ok
    PROVE  LET r == transform_chain(vmid, to_vm_config(m), outcome)
           IN  Released(r.config.disks) = r.held
<1> DEFINE c == to_vm_config(m)
           disks == c.disks
           s == storage_transform(disks, outcome)
           r == transform_chain(vmid, c, outcome)
           taken == {i \in DOMAIN disks : HasDriver(disks[i].path)}
           errors == {i \in taken : ~Resolves(disks[i].path[2], outcome)}
           U(i) == disks[i].path[2]
<1>1. \A i \in DOMAIN disks : /\ disks[i].path[1] = "uri" /\ disks[i].id[1] = "id"
                              /\ U(i) \in Uri /\ U(i).scheme \in Backends
  BY ConvertedDisks
<1>2. r.ok => s.ok /\ path_verify(c, s.disks)
  BY DEF transform_chain
<1>3. r.held = s.held /\ r.config.disks = s.disks
  <2>1. DOMAIN c = {"boot_vcpus", "max_vcpus", "memory", "firmware", "kernel",
                    "disks", "net", "vsock"}
    BY DEF to_vm_config
  <2> HIDE DEF c, s
  <2> QED BY <2>1 DEF transform_chain, s
<1>4. Len(disks) \in Nat /\ DOMAIN disks = 1 .. Len(disks)
  <2>1. DOMAIN disks = 1 .. Len(m.storage) /\ Len(m.storage) \in Nat
    BY ConvertedDisks, ManifestAssumption
  <2>2. disks = [i \in 1 .. Len(m.storage) |-> storage_to_disk(m.storage[i])]
    BY <2>1 DEF to_vm_config
  <2> HIDE DEF disks
  <2> QED BY <2>1, <2>2
<1> HIDE DEF disks, c
<1>5. errors = {}
  <2>1. s.ok <=> errors = {}
    BY DEF storage_transform
  <2> QED BY <1>2, <2>1 DEF c
<1>6. ASSUME NEW i \in DOMAIN disks
      PROVE  i <= Len(disks) + 1 /\ i # Len(disks) + 1 /\ ~(i > Len(disks) + 1)
  BY <1>4
<1>7. s.held = UNION {Attached(U(i), outcome) : i \in taken}
  <2>1. s.held = UNION {Attached(U(i), outcome) : i \in {j \in taken : j <= Len(disks) + 1}}
    BY <1>5 DEF storage_transform
  <2>2. {j \in taken : j <= Len(disks) + 1} = taken
    BY <1>6
  <2> QED BY <2>1, <2>2
<1>8. /\ DOMAIN s.disks = DOMAIN disks
      /\ \A i \in DOMAIN disks :
            s.disks[i] = IF i \notin taken THEN disks[i]
                         ELSE [id |-> rewrittenId(disks[i]),
                               path |-> <<"device", U(i).target>>]
  <2>1. s.disks = [i \in DOMAIN disks |->
             IF i \notin taken \/ i > Len(disks) + 1 THEN disks[i]
             ELSE [id |-> rewrittenId(disks[i]),
                   path |-> IF i = Len(disks) + 1 THEN disks[i].path
                            ELSE <<"device", U(i).target>>]]
    BY <1>5 DEF storage_transform
  <2> HIDE DEF s, taken
  <2> QED BY <1>6, <2>1
<1> HIDE DEF s, r
<1>9. taken = DOMAIN disks
  <2> SUFFICES ASSUME NEW i \in DOMAIN disks, i \notin taken
               PROVE  FALSE
    OBVIOUS
  <2>1. s.disks[i] = disks[i]
    BY <1>8
  <2>2. s.disks[i].path[1] = "device"
    BY <1>2, <1>8 DEF path_verify, r, c
  <2> QED BY <1>1, <2>1, <2>2
<1>10. ASSUME NEW i \in DOMAIN disks
       PROVE  DiskReleases(s.disks[i]) = Attached(U(i), outcome)
  <2>1. s.disks[i] = [id |-> rewrittenId(disks[i]), path |-> <<"device", U(i).target>>]
    BY <1>8, <1>9
  <2>2. s.disks[i].path = <<"device", U(i).target>>
    BY <2>1
  <2>3. s.disks[i].id = <<"uri", [U(i) EXCEPT !.query = disks[i].id[2]]>>
    BY <2>1 DEF rewrittenId
  <2>4. U(i).parses /\ Resolves(U(i), outcome)
    BY <1>5, <1>9 DEF HasDriver
  <2>5. U(i) \in Uri /\ U(i).scheme \in Backends
    BY <1>1
  <2> HIDE DEF U
  <2> QED BY <2>2, <2>3, <2>4, <2>5, RewrittenReleases
<1>11. Released(s.disks) = UNION {Attached(U(i), outcome) : i \in DOMAIN disks}
  <2>1. Released(s.disks) = UNION {DiskReleases(s.disks[i]) : i \in DOMAIN disks}
    BY <1>8, ReleasedByDisk
  <2> HIDE DEF U
  <2> QED BY <1>10, <2>1
<1> QED BY <1>3, <1>7, <1>9, <1>11 DEF r, c

\* Whatever happens to each disk of a manifest, teardown releases exactly what a
\* transform that succeeded attached, from the transformed configuration, and all that
\* any transform attached, from the one before it.
THEOREM ReleaseMatchesResolve ==
    ASSUME NEW m \in Manifest
    PROVE  ReleasesWhatWasResolved(m)
<1> SUFFICES ASSUME NEW vmid \in Vmid,
                    NEW outcome \in [Target -> {"ok", "refused", "no_device"}],
                    Converts(m)
             PROVE  LET c == to_vm_config(m)
                        r == transform_chain(vmid, c, outcome)
                    IN  /\ r.ok => Released(r.config.disks) = r.held
                        /\ r.held \subseteq Released(c.disks)
  BY DEF ReleasesWhatWasResolved
<1> DEFINE c == to_vm_config(m)
           r == transform_chain(vmid, c, outcome)
<1>1. r.ok => Released(r.config.disks) = r.held
  BY SuccessIsReleased
<1>2. r.held = storage_transform(c.disks, outcome).held
  BY DEF transform_chain
<1>3. r.held \subseteq Released(c.disks)
  BY <1>2, HeldIsReleasable
<1> QED BY <1>1, <1>3

\* Whatever manifest a VM is made from, release_config finds every disk that the storage
\* drivers attached for it.
THEOREM ReleaseExact == VmConfigSpec => []ReleaseFindsWhatWasResolved
<1>1. VmConfigInit => ReleaseFindsWhatWasResolved
  BY GivenManifest, ReleaseMatchesResolve DEF ReleaseFindsWhatWasResolved
<1> QED BY <1>1, InputStays, PTL

-----------------------------------------------------------------------------
(* The table of mapped images.                                             *)

\* The columns of a row, joined, without a namespace and with one.
LEMMA JoinFive ==
    ASSUME NEW a, NEW b, NEW c, NEW d, NEW e
    PROVE  <<a, b>> \o <<>> \o <<c, d, e>> = <<a, b, c, d, e>>
<1> DEFINE S == {a, b, c, d, e}
           first == <<a, b>>
           last == <<c, d, e>>
           t == first \o last
<1>1. first \in Seq(S) /\ last \in Seq(S)
  OBVIOUS
<1>2. first \o <<>> = first
  BY <1>1, ConcatEmptySeq
<1>3. /\ t \in Seq(S) /\ Len(t) = 5
      /\ t[1] = a /\ t[2] = b /\ t[3] = c /\ t[4] = d /\ t[5] = e
  BY <1>1, ConcatProperties
<1> HIDE DEF t
<1>4. t = <<a, b, c, d, e>>
  BY <1>3
<1> QED BY <1>2, <1>4 DEF t

\* The words of a line that shows a namespace.
LEMMA JoinSix ==
    ASSUME NEW a, NEW b, NEW n, NEW c, NEW d, NEW e
    PROVE  <<a, b>> \o <<n>> \o <<c, d, e>> = <<a, b, n, c, d, e>>
<1> DEFINE S == {a, b, n, c, d, e}
           first == <<a, b>>
           last == <<c, d, e>>
           one == <<n>>
           f == first \o one
           t == f \o last
<1>1. first \in Seq(S) /\ last \in Seq(S) /\ one \in Seq(S)
  OBVIOUS
<1>2. f \in Seq(S) /\ Len(f) = 3 /\ f[1] = a /\ f[2] = b /\ f[3] = n
  BY <1>1, ConcatProperties
<1>a. Len(last) = 3 /\ last[1] = c /\ last[2] = d /\ last[3] = e
  OBVIOUS
<1> HIDE DEF f, last, S
<1>3. /\ t \in Seq(S) /\ Len(t) = 6
      /\ t[1] = a /\ t[2] = b /\ t[3] = n /\ t[4] = c /\ t[5] = d /\ t[6] = e
  <2>1. /\ t \in Seq(S) /\ Len(t) = Len(f) + Len(last)
        /\ \A i \in 1 .. Len(f) + Len(last) :
              t[i] = IF i <= Len(f) THEN f[i] ELSE last[i - Len(f)]
    BY <1>1, <1>2, ConcatProperties
  <2>2. Len(f) + Len(last) = 6
    BY <1>2, <1>a
  <2> HIDE DEF t
  <2>3. /\ \A i \in 1 .. 3 : t[i] = f[i]
        /\ \A i \in 4 .. 6 : t[i] = last[i - 3]
    BY <1>2, <2>1, <2>2
  <2> QED BY <1>2, <1>a, <2>1, <2>2, <2>3
<1> HIDE DEF t
<1>4. t = <<a, b, n, c, d, e>>
  BY <1>3
<1> QED BY <1>4 DEF t, f, last

\* A printed row is read back as its pool, its image and its device, with and without
\* a namespace and whatever the snapshot.
LEMMA RowReadBack ==
    ASSUME NEW r
    PROVE  rbd_line(PrintedRow(r)) =
               {[pool |-> r.pool, image |-> r.image, device |-> Device(r)]}
<1> DEFINE dev == Device(r)
           snap == IF r.snapshot = None THEN "-" ELSE r.snapshot
<1>1. CASE r.namespace = None
  <2>1. PrintedRow(r) = <<r.number, r.pool, r.image, snap, dev>>
    <3>1. PrintedRow(r) = <<r.number, r.pool>> \o <<>> \o <<r.image, snap, dev>>
      BY <1>1 DEF PrintedRow
    <3> HIDE DEF dev, snap
    <3> QED BY <3>1, JoinFive
  <2>2. dev[1] = "device"
    BY DEF Device
  <2> HIDE DEF dev, snap
  <2>3. rbd_line(<<r.number, r.pool, r.image, snap, dev>>) =
            {[pool |-> r.pool, image |-> r.image, device |-> dev]}
    BY <2>2 DEF rbd_line
  <2> QED BY <2>1, <2>3 DEF dev
<1>2. CASE r.namespace # None
  <2>1. PrintedRow(r) = <<r.number, r.pool, r.namespace, r.image, snap, dev>>
    <3>1. PrintedRow(r) = <<r.number, r.pool>> \o <<r.namespace>> \o <<r.image, snap, dev>>
      BY <1>2 DEF PrintedRow
    <3> HIDE DEF dev, snap
    <3> QED BY <3>1, JoinSix
  <2> HIDE DEF dev, snap
  <2>3. rbd_line(<<r.number, r.pool, r.namespace, r.image, snap, dev>>) =
            {[pool |-> r.pool, image |-> r.image, device |-> dev]}
    BY DEF rbd_line
  <2> QED BY <2>1, <2>3 DEF dev
<1> QED BY <1>1, <1>2

\* The lines that match an image are those of the mappings that have its pool and name,
\* in whatever namespace and at whatever snapshot.
LEMMA MatchesAreNamed ==
    ASSUME NEW rows, NEW pool, NEW image
    PROVE  rbd_matches(pool, image, rows) =
               {[pool |-> pool, image |-> image, device |-> Device(r)] :
                   r \in {q \in rows : Named(q, pool, image)}}
<1> DEFINE Line(r) == [pool |-> r.pool, image |-> r.image, device |-> Device(r)]
<1>1. rbd_matches(pool, image, rows) =
          {e \in {Line(r) : r \in rows} : e.pool = pool /\ e.image = image}
  <2>1. \A r : rbd_line(PrintedRow(r)) = {Line(r)}
    BY RowReadBack
  <2> HIDE DEF Line
  <2> QED BY <2>1 DEF rbd_matches
<1>2. \A r : Line(r).pool = r.pool /\ Line(r).image = r.image
  OBVIOUS
<1>3. \A r : Named(r, pool, image) =>
                Line(r) = [pool |-> pool, image |-> image, device |-> Device(r)]
  BY DEF Named
<1> HIDE DEF Line
<1> QED BY <1>1, <1>2, <1>3 DEF Named

\* Whatever images are mapped, in namespaces and at snapshots too: an image whose pool and
\* name nothing else that is mapped shares is taken for mapped exactly when it is, and a VM
\* is given no device but its own.
THEOREM ReuseExact ==
    ASSUME NEW rows, NEW pool, NEW image, Unshadowed(pool, image, rows)
    PROVE  ReuseIsExact(pool, image, rows)
<1> DEFINE Line(r) == [pool |-> pool, image |-> image, device |-> Device(r)]
           maps == MapsOf(pool, image, rows)
<1>1. {q \in rows : Named(q, pool, image)} = maps
  BY DEF Unshadowed, MapsOf
<1>2. rbd_matches(pool, image, rows) = {Line(r) : r \in maps}
  BY <1>1, MatchesAreNamed
<1>3. \A r : Line(r).device = Device(r)
  OBVIOUS
<1> HIDE DEF Line, maps
<1>4. Reuses(pool, image, rows) <=> maps # {}
  BY <1>2 DEF Reuses
<1>5. fallbackDevices(pool, image, rows) = {Device(r) : r \in maps}
  BY <1>2, <1>3 DEF fallbackDevices
<1> QED BY <1>4, <1>5 DEF ReuseIsExact, maps

\* Whatever `rbd device list` prints, RbdImage::map and RbdStorage::resolve take nothing
\* else for an image whose pool and name are its own.
THEOREM RbdReuse == VmConfigSpec => []RbdReuseIsExactIfUnshadowed
<1>1. RbdReuseIsExactIfUnshadowed
  BY ReuseExact DEF RbdReuseIsExactIfUnshadowed
<1> QED BY <1>1, PTL

-----------------------------------------------------------------------------
(* Tap names.                                                              *)

\* What is kept of an id: its last four characters.
TailOf(s) == SubSeq(s, IF Len(s) <= 4 THEN 1 ELSE Len(s) - 3, Len(s))
Kept(s) == sanitize_component(TailOf(s))

\* An id is sanitized character by character.
LEMMA SanitizeType ==
    ASSUME NEW s \in Seq(Character)
    PROVE  sanitize_component(s) \in Seq(Character) /\ Len(sanitize_component(s)) = Len(s)
<1> DEFINE t == sanitize_component(s)
           n == Len(s)
<1>1. n \in Nat /\ DOMAIN s = 1 .. n
  OBVIOUS
<1>2. t = [i \in 1 .. n |-> IF s[i] \in Alphanumeric THEN Lower[s[i]]
                            ELSE IF s[i] \in {"-", "_"} THEN s[i] ELSE "-"]
  BY <1>1 DEF sanitize_component
<1>3. \A c \in Alphanumeric : Lower[c] \in Character
  BY DEF Lower, Alphanumeric, Character
<1>4. ASSUME NEW i \in 1 .. n
      PROVE  (IF s[i] \in Alphanumeric THEN Lower[s[i]]
              ELSE IF s[i] \in {"-", "_"} THEN s[i] ELSE "-") \in Character
  <2>1. "-" \in Character
    BY DEF Character
  <2>2. s[i] \in Character
    OBVIOUS
  <2> QED BY <1>3, <2>1, <2>2
<1>5. t \in [1 .. n -> Character]
  BY <1>2, <1>4
<1> HIDE DEF t
<1>6. t \in Seq(Character) /\ Len(t) = n
  BY <1>1, <1>5
<1> QED BY <1>6 DEF t

\* The last four characters of an id, or all of a shorter one, by position.
LEMMA TailFacts ==
    ASSUME NEW s \in Seq(Character)
    PROVE  LET k == IF Len(s) <= 4 THEN Len(s) ELSE 4
           IN  /\ TailOf(s) \in Seq(Character) /\ Len(TailOf(s)) = k
               /\ \A i \in 1 .. k : TailOf(s)[i] = s[(Len(s) - k) + i]
<1> DEFINE k == IF Len(s) <= 4 THEN Len(s) ELSE 4
           a == IF Len(s) <= 4 THEN 1 ELSE Len(s) - 3
           n == Len(s)
<1>1. n \in Nat /\ k \in Nat /\ a \in Int /\ a = (n - k) + 1 /\ k <= n /\ k = (n - a) + 1
  OBVIOUS
<1>2. \A i \in a .. n : s[i] \in Character
  BY <1>1
<1> HIDE DEF a, k, n
<1>3. /\ SubSeq(s, a, n) \in Seq(Character)
      /\ Len(SubSeq(s, a, n)) = IF a <= n THEN n - a + 1 ELSE 0
      /\ \A i \in 1 .. n - a + 1 : SubSeq(s, a, n)[i] = s[a + i - 1]
  BY <1>1, <1>2, SubSeqProperties
<1>4. TailOf(s) = SubSeq(s, a, n)
  BY DEF TailOf, a, n
<1>5. Len(TailOf(s)) = k
  BY <1>1, <1>3, <1>4
<1>6. ASSUME NEW i \in 1 .. k
      PROVE  TailOf(s)[i] = s[(n - k) + i]
  <2>1. i \in 1 .. n - a + 1 /\ a + i - 1 = (n - k) + i
    BY <1>1
  <2> QED BY <1>3, <1>4, <2>1
<1> QED BY <1>3, <1>4, <1>5, <1>6 DEF k, n

\* Keeping the last four characters of the sanitized id and sanitizing the last four of
\* the id are the same.
LEMMA KeptSuffix ==
    ASSUME NEW s \in Seq(Character)
    PROVE  /\ keepSuffix(sanitize_component(s), 4) = Kept(s)
           /\ Kept(s) \in Seq(Character)
           /\ Len(Kept(s)) = IF Len(s) <= 4 THEN Len(s) ELSE 4
<1> DEFINE t == sanitize_component(s)
           k == IF Len(s) <= 4 THEN Len(s) ELSE 4
           n == Len(s)
           u == TailOf(s)
<1>1. t \in Seq(Character) /\ Len(t) = n /\ n \in Nat /\ k \in Nat /\ k <= n
  BY SanitizeType
<1>2. /\ u \in Seq(Character) /\ Len(u) = k
      /\ \A i \in 1 .. k : u[i] = s[(n - k) + i]
  BY TailFacts
<1>3. Kept(s) \in Seq(Character) /\ Len(Kept(s)) = k
  BY <1>2, SanitizeType DEF Kept
<1>4. keepSuffix(t, 4) = SubSeq(t, (n - k) + 1, n)
  <2>1. CASE n > 4
    <3>1. k = 4 /\ Len(t) - 4 + 1 = (n - k) + 1
      BY <1>1, <2>1
    <3> HIDE DEF t, n, k
    <3>2. keepSuffix(t, 4) = SubSeq(t, Len(t) - 4 + 1, Len(t))
      BY <1>1, <2>1 DEF keepSuffix
    <3> QED BY <1>1, <3>1, <3>2
  <2>2. CASE ~(n > 4)
    <3>1. keepSuffix(t, 4) = t /\ (n - k) + 1 = 1
      BY <1>1, <2>2 DEF keepSuffix
    <3> HIDE DEF t, n, k
    <3>2. SubSeq(t, 1, n) = t
      BY <1>1, SubSeqFull
    <3> QED BY <3>1, <3>2
  <2> QED BY <2>1, <2>2
<1>5. ASSUME NEW i \in 1 .. k
      PROVE  t[(n - k) + i] = Kept(s)[i]
  <2>0. DOMAIN s = 1 .. n
    OBVIOUS
  <2>a. DOMAIN u = 1 .. k
    <3> HIDE DEF u, n, k
    <3> QED BY <1>2
  <2>1. (n - k) + i \in 1 .. n
    BY <1>1
  <2>2. u[i] = s[(n - k) + i]
    BY <1>2
  <2> HIDE DEF u, n, k
  <2> QED BY <2>0, <2>a, <2>1, <2>2 DEF Kept, sanitize_component, u, t
<1> HIDE DEF t, n, k, u
<1> DEFINE v == SubSeq(t, (n - k) + 1, n)
<1>6. \A i \in (n - k) + 1 .. n : t[i] \in Character
  BY <1>1
<1>7. /\ v \in Seq(Character)
      /\ Len(v) = IF (n - k) + 1 <= n THEN n - ((n - k) + 1) + 1 ELSE 0
      /\ \A i \in 1 .. n - ((n - k) + 1) + 1 : v[i] = t[((n - k) + 1) + i - 1]
  BY <1>1, <1>6, SubSeqProperties
<1>8. Len(v) = k /\ \A i \in 1 .. k : v[i] = t[(n - k) + i]
  <2>1. n - ((n - k) + 1) + 1 = k
    BY <1>1
  <2>2. \A i \in 1 .. k : ((n - k) + 1) + i - 1 = (n - k) + i
    BY <1>1
  <2>3. Len(v) = k
    BY <1>1, <1>7
  <2> HIDE DEF v
  <2> QED BY <1>7, <2>1, <2>2, <2>3
<1> HIDE DEF v
<1>9. v = Kept(s)
  <2>1. \A i \in 1 .. k : v[i] = Kept(s)[i]
    BY <1>5, <1>8
  <2>2. v \in Seq(Character) /\ Len(v) = Len(Kept(s)) /\ \A i \in 1 .. Len(v) : v[i] = Kept(s)[i]
    BY <1>3, <1>7, <1>8, <2>1
  <2> QED BY <1>3, <2>2, SeqEqual
<1>10. keepSuffix(t, 4) = Kept(s)
  BY <1>4, <1>9 DEF v
<1> QED BY <1>3, <1>10 DEF t, k, n

\* A tap name: the prefix and the two parts, with dashes between.
Joined(a, b) == TAP_PREFIX \o <<"-">> \o a \o <<"-">> \o b

\* Where the parts are in a name whose first part has four characters.
LEMMA JoinedFacts ==
    ASSUME NEW a \in Seq(Character), NEW b \in Seq(Character), Len(a) = 4
    PROVE  /\ Len(Joined(a, b)) = 11 + Len(b)
           /\ \A i \in 1 .. 4 : Joined(a, b)[6 + i] = a[i]
           /\ \A i \in 1 .. Len(b) : Joined(a, b)[11 + i] = b[i]
<1> DEFINE S == Character \cup {"v", "m", "t", "a", "p", "-"}
           dash == <<"-">>
           p == TAP_PREFIX \o dash
           q == p \o a
           r == q \o dash
           t == r \o b
<1>1. a \in Seq(S) /\ b \in Seq(S) /\ Len(b) \in Nat
  OBVIOUS
<1>2. TAP_PREFIX \in Seq(S) /\ Len(TAP_PREFIX) = 5 /\ dash \in Seq(S) /\ Len(dash) = 1
  BY DEF TAP_PREFIX
<1> HIDE DEF S, dash
<1>3. p \in Seq(S) /\ Len(p) = 6
  <2>1. p \in Seq(S) /\ Len(p) = Len(TAP_PREFIX) + Len(dash)
    BY <1>2, ConcatProperties
  <2> HIDE DEF p
  <2> QED BY <1>2, <2>1
<1> HIDE DEF p
<1>4. /\ q \in Seq(S) /\ Len(q) = 10
      /\ \A i \in 1 .. 4 : q[6 + i] = a[i]
  <2>1. /\ q \in Seq(S) /\ Len(q) = Len(p) + Len(a)
        /\ \A i \in 1 .. Len(p) + Len(a) : q[i] = IF i <= Len(p) THEN p[i] ELSE a[i - Len(p)]
    BY <1>1, <1>3, ConcatProperties
  <2> HIDE DEF q
  <2>2. \A i \in 1 .. 4 : q[6 + i] = a[i]
    BY <1>3, <2>1
  <2> QED BY <1>3, <2>1, <2>2
<1> HIDE DEF q
<1>5. /\ r \in Seq(S) /\ Len(r) = 11
      /\ \A i \in 1 .. 4 : r[6 + i] = a[i]
  <2>1. /\ r \in Seq(S) /\ Len(r) = Len(q) + Len(dash)
        /\ \A i \in 1 .. Len(q) + Len(dash) :
              r[i] = IF i <= Len(q) THEN q[i] ELSE dash[i - Len(q)]
    BY <1>2, <1>4, ConcatProperties
  <2> HIDE DEF r
  <2>2. \A i \in 1 .. 4 : r[6 + i] = q[6 + i]
    BY <1>2, <1>4, <2>1
  <2> QED BY <1>2, <1>4, <2>1, <2>2
<1> HIDE DEF r
<1>6. /\ t \in Seq(S) /\ Len(t) = Len(r) + Len(b)
      /\ \A i \in 1 .. Len(r) + Len(b) : t[i] = IF i <= Len(r) THEN r[i] ELSE b[i - Len(r)]
  BY <1>1, <1>5, ConcatProperties
<1>7. t = Joined(a, b)
  BY DEF Joined, r, q, p, dash
<1> HIDE DEF t
<1>8. Len(t) = 11 + Len(b)
  BY <1>5, <1>6
<1>9. ASSUME NEW i \in 1 .. 4
      PROVE  t[6 + i] = a[i]
  <2>1. 6 + i \in 1 .. Len(r) + Len(b) /\ 6 + i <= Len(r)
    BY <1>1, <1>5
  <2> QED BY <1>5, <1>6, <2>1
<1>10. ASSUME NEW i \in 1 .. Len(b)
       PROVE  t[11 + i] = b[i]
  <2>1. 11 + i \in 1 .. Len(r) + Len(b) /\ ~(11 + i <= Len(r)) /\ (11 + i) - Len(r) = i
    BY <1>1, <1>5
  <2> QED BY <1>6, <2>1
<1> QED BY <1>7, <1>8, <1>9, <1>10

\* The name of a tap: nothing is cut at the end.
LEMMA TapName ==
    ASSUME NEW v \in Seq(Character), Len(v) >= 4, NEW n \in Seq(Character)
    PROVE  /\ deterministic_tap_name(v, n) = Joined(Kept(v), Kept(n))
           /\ Len(deterministic_tap_name(v, n)) <= MAX_IFNAME_LEN
           /\ Kept(v) \in Seq(Character) /\ Len(Kept(v)) = 4
           /\ Kept(n) \in Seq(Character) /\ Len(Kept(n)) \in Nat
<1>1. /\ keepSuffix(sanitize_component(v), 4) = Kept(v)
      /\ Kept(v) \in Seq(Character) /\ Len(Kept(v)) = 4
  <2>1. /\ keepSuffix(sanitize_component(v), 4) = Kept(v)
        /\ Kept(v) \in Seq(Character)
        /\ Len(Kept(v)) = IF Len(v) <= 4 THEN Len(v) ELSE 4
    BY KeptSuffix
  <2>2. Len(v) \in Nat
    OBVIOUS
  <2>a. \A l \in Nat : l >= 4 => (IF l <= 4 THEN l ELSE 4) = 4
    OBVIOUS
  <2>3. (IF Len(v) <= 4 THEN Len(v) ELSE 4) = 4
    BY <2>2, <2>a, Zenon
  <2> QED BY <2>1, <2>3
<1>2. /\ keepSuffix(sanitize_component(n), 4) = Kept(n)
      /\ Kept(n) \in Seq(Character) /\ Len(Kept(n)) \in Nat /\ Len(Kept(n)) <= 4
  <2>1. /\ Len(n) \in Nat
        /\ (IF Len(n) <= 4 THEN Len(n) ELSE 4) \in Nat
        /\ (IF Len(n) <= 4 THEN Len(n) ELSE 4) <= 4
    OBVIOUS
  <2> QED BY <2>1, KeptSuffix
<1> DEFINE name == Joined(Kept(v), Kept(n))
<1>3. Len(name) = 11 + Len(Kept(n))
  BY <1>1, <1>2, JoinedFacts
<1> HIDE DEF name
<1>4. Len(name) <= 15 /\ ~(Len(name) > 15)
  BY <1>2, <1>3
<1>5. LET available == MAX_IFNAME_LEN - (Len(TAP_PREFIX) + 2)
      IN  available \div 2 = 4 /\ available - available \div 2 = 4
  <2>1. Len(TAP_PREFIX) = 5
    BY DEF TAP_PREFIX
  <2>2. MAX_IFNAME_LEN - (Len(TAP_PREFIX) + 2) = 8
    BY <2>1 DEF MAX_IFNAME_LEN
  <2>3. 8 \div 2 = 4
    OBVIOUS
  <2> QED BY <2>2, <2>3
<1>6. deterministic_tap_name(v, n) =
          IF Len(name) > MAX_IFNAME_LEN THEN SubSeq(name, 1, MAX_IFNAME_LEN) ELSE name
  BY <1>1, <1>2, <1>5 DEF deterministic_tap_name, name, Joined
<1>7. deterministic_tap_name(v, n) = name
  BY <1>4, <1>6 DEF MAX_IFNAME_LEN
<1> QED BY <1>1, <1>2, <1>4, <1>7 DEF name, MAX_IFNAME_LEN

\* Two taps have the same name exactly when what is kept of both ids is the same.
LEMMA TapNamesDiffer ==
    ASSUME NEW v \in Seq(Character), Len(v) >= 4, NEW n \in Seq(Character),
           NEW w \in Seq(Character), Len(w) >= 4, NEW o \in Seq(Character)
    PROVE  deterministic_tap_name(v, n) = deterministic_tap_name(w, o)
               <=> Kept(v) = Kept(w) /\ Kept(n) = Kept(o)
<1> DEFINE a == Kept(v)
           b == Kept(n)
           c == Kept(w)
           d == Kept(o)
<1>1. /\ deterministic_tap_name(v, n) = Joined(a, b)
      /\ a \in Seq(Character) /\ Len(a) = 4 /\ b \in Seq(Character) /\ Len(b) \in Nat
  BY TapName
<1>2. /\ deterministic_tap_name(w, o) = Joined(c, d)
      /\ c \in Seq(Character) /\ Len(c) = 4 /\ d \in Seq(Character) /\ Len(d) \in Nat
  BY TapName
<1> HIDE DEF a, b, c, d
<1>3. ASSUME Joined(a, b) = Joined(c, d)
      PROVE  a = c /\ b = d
  <2> DEFINE x == Joined(a, b)
  <2>1. /\ Len(x) = 11 + Len(b)
        /\ \A i \in 1 .. 4 : x[6 + i] = a[i]
        /\ \A i \in 1 .. Len(b) : x[11 + i] = b[i]
    BY <1>1, JoinedFacts
  <2> DEFINE y == Joined(c, d)
  <2>a. /\ Len(y) = 11 + Len(d)
        /\ \A i \in 1 .. 4 : y[6 + i] = c[i]
        /\ \A i \in 1 .. Len(d) : y[11 + i] = d[i]
    BY <1>2, JoinedFacts
  <2>b. x = y
    BY <1>3
  <2> HIDE DEF y, x
  <2>2. /\ Len(x) = 11 + Len(d)
        /\ \A i \in 1 .. 4 : x[6 + i] = c[i]
        /\ \A i \in 1 .. Len(d) : x[11 + i] = d[i]
    BY <2>a, <2>b
  <2> HIDE DEF x
  <2>3. Len(b) = Len(d)
    BY <1>1, <1>2, <2>1, <2>2
  <2>4. \A i \in 1 .. 4 : a[i] = c[i]
    BY <2>1, <2>2
  <2>5. \A i \in 1 .. Len(b) : b[i] = d[i]
    BY <2>1, <2>2, <2>3
  <2>6. a = c
    BY <1>1, <1>2, <2>4, SeqEqual
  <2>7. b = d
    BY <1>1, <1>2, <2>3, <2>5, SeqEqual
  <2> QED BY <2>6, <2>7
<1> QED BY <1>1, <1>2, <1>3 DEF a, b, c, d

\* A function that is one to one on a finite set has as many values.
LEMMA SameCount ==
    ASSUME NEW D, IsFiniteSet(D), NEW f, \A x, y \in D : f[x] = f[y] => x = y
    PROVE  Cardinality(D) = Cardinality({f[x] : x \in D})
<1> DEFINE T == {f[x] : x \in D}
           g == [x \in D |-> f[x]]
<1>1. g \in [D -> T]
  OBVIOUS
<1>2. g \in Surjection(D, T)
  BY <1>1 DEF Surjection
<1>3. g \in Injection(D, T)
  BY <1>1 DEF Injection, IsInjective
<1> HIDE DEF g, T
<1>4. ExistsBijection(D, T)
  BY <1>2, <1>3 DEF ExistsBijection, Bijection
<1> QED BY <1>4, FS_Bijection DEF T

\* The names that deterministic_tap_name gives to the taps of a set of VMs in a set of
\* networks fit, and they differ exactly where what is kept of the ids differs.
THEOREM TapNamesExact == NamesFitAndDiffer(Vmid, NetworkId)
<1> DEFINE Entry(v, n) == <<deterministic_tap_name(v, n), <<Kept(v), Kept(n)>>>>
           named == {Entry(v, n) : v \in Vmid, n \in NetworkId}
           names == {p[1] : p \in named}
           parts == {p[2] : p \in named}
<1>1. /\ \A v \in Vmid : v \in Seq(Character) /\ Len(v) >= 4
      /\ \A n \in NetworkId : n \in Seq(Character)
      /\ IsFiniteSet(Vmid) /\ IsFiniteSet(NetworkId)
  BY IdAssumption
<1>2. ASSUME NEW v \in Vmid, NEW n \in NetworkId
      PROVE  Len(deterministic_tap_name(v, n)) <= MAX_IFNAME_LEN
  BY <1>1, TapName
<1>3. ASSUME NEW v \in Vmid, NEW n \in NetworkId, NEW w \in Vmid, NEW o \in NetworkId
      PROVE  deterministic_tap_name(v, n) = deterministic_tap_name(w, o)
                 <=> Kept(v) = Kept(w) /\ Kept(n) = Kept(o)
  <2>1. /\ v \in Seq(Character) /\ Len(v) >= 4 /\ n \in Seq(Character)
        /\ w \in Seq(Character) /\ Len(w) >= 4 /\ o \in Seq(Character)
    BY <1>1
  <2> QED BY <2>1, TapNamesDiffer
<1>4. ASSUME NEW p \in named, NEW q \in named
      PROVE  (p[1] = q[1] => p = q) /\ (p[2] = q[2] => p = q)
  <2>1. PICK v \in Vmid, n \in NetworkId : p = Entry(v, n)
    OBVIOUS
  <2>2. PICK w \in Vmid, o \in NetworkId : q = Entry(w, o)
    OBVIOUS
  <2>3. /\ p[1] = deterministic_tap_name(v, n) /\ q[1] = deterministic_tap_name(w, o)
        /\ p[2] = <<Kept(v), Kept(n)>> /\ q[2] = <<Kept(w), Kept(o)>>
        /\ p = <<p[1], p[2]>> /\ q = <<q[1], q[2]>>
    BY <2>1, <2>2
  <2>4. p[1] = q[1] <=> Kept(v) = Kept(w) /\ Kept(n) = Kept(o)
    BY <1>3, <2>3
  <2>5. p[2] = q[2] <=> Kept(v) = Kept(w) /\ Kept(n) = Kept(o)
    BY <2>3
  <2> QED BY <2>3, <2>4, <2>5
<1>5. IsFiniteSet(named)
  <2> DEFINE P == Vmid \X NetworkId
             f == [x \in P |-> Entry(x[1], x[2])]
  <2>1. IsFiniteSet(P)
    BY <1>1, FS_Product
  <2>2. f \in [P -> named]
    OBVIOUS
  <2>3. ASSUME NEW p \in named
        PROVE  \E x \in P : f[x] = p
    <3>1. PICK v \in Vmid, n \in NetworkId : p = Entry(v, n)
      OBVIOUS
    <3>2. <<v, n>> \in P /\ f[<<v, n>>] = p
      BY <3>1
    <3> QED BY <3>2
  <2> HIDE DEF f, P, named
  <2>4. f \in Surjection(P, named)
    BY <2>2, <2>3 DEF Surjection
  <2> QED BY <2>1, <2>4, FS_Surjection
<1> HIDE DEF Entry
<1>6. \A l \in names : Len(l) <= MAX_IFNAME_LEN
  BY <1>2 DEF Entry
<1> HIDE DEF named
<1>7. Cardinality(named) = Cardinality(names)
  <2> DEFINE f == [p \in named |-> p[1]]
  <2>1. \A x, y \in named : f[x] = f[y] => x = y
    BY <1>4
  <2>2. {f[x] : x \in named} = names
    OBVIOUS
  <2> HIDE DEF f, names
  <2>3. Cardinality(named) = Cardinality({f[x] : x \in named})
    BY <1>5, <2>1, SameCount
  <2> QED BY <2>2, <2>3
<1>8. Cardinality(named) = Cardinality(parts)
  <2> DEFINE f == [p \in named |-> p[2]]
  <2>1. \A x, y \in named : f[x] = f[y] => x = y
    BY <1>4
  <2>2. {f[x] : x \in named} = parts
    OBVIOUS
  <2> HIDE DEF f, parts
  <2>3. Cardinality(named) = Cardinality({f[x] : x \in named})
    BY <1>5, <2>1, SameCount
  <2> QED BY <2>2, <2>3
<1>9. NamesFitAndDiffer(Vmid, NetworkId)
          <=> /\ \A l \in names : Len(l) <= MAX_IFNAME_LEN
              /\ Cardinality(named) = Cardinality(names)
              /\ Cardinality(named) = Cardinality(parts)
  BY DEF NamesFitAndDiffer, Kept, TailOf, named, Entry
<1> QED BY <1>6, <1>7, <1>8, <1>9

\* The names that deterministic_tap_name gives to the VMs of a host fit Linux's limit, and
\* no two VMs whose ids end differently share one.
THEOREM TapNames == VmConfigSpec => []TapNamesFitAndDiffer
<1>1. VmConfigInit => TapNamesFitAndDiffer
  BY GivenVmids, TapNamesExact DEF TapNamesFitAndDiffer
<1> QED BY <1>1, InputStays, PTL

-----------------------------------------------------------------------------
(* The console history.                                                    *)

\* h[k] is the concatenation of the first k chunks.
FlatRun(h, r) ==
    /\ h \in [0 .. Len(r) -> Seq(Byte)]
    /\ h[0] = <<>>
    /\ \A k \in 1 .. Len(r) : h[k] = h[k - 1] \o r[k]

\* Every ring of chunks has its partial concatenations.
LEMMA FlatRunExists ==
    ASSUME NEW r \in Seq(Seq(Byte))
    PROVE  \E h : FlatRun(h, r)
<1> DEFINE n == Len(r)
           S == Seq(Byte)
           step == [p \in S \X (1 .. n) |-> p[1] \o r[p[2]]]
<1>1. n \in Nat /\ <<>> \in S
  OBVIOUS
<1>2. \A k \in 1 .. n : r[k] \in S
  OBVIOUS
<1>3. \A s, t \in S : s \o t \in S
  BY ConcatProperties
<1> HIDE DEF n, S
<1>4. step \in [S \X (1 .. n) -> S]
  BY <1>2, <1>3
<1>5. \A s \in S, k \in 1 .. n : step[<<s, k>>] = s \o r[k]
  OBVIOUS
<1> HIDE DEF step
<1>6. PICK h : RecSolves(h, n, S, <<>>, step)
  BY <1>1, <1>4, RecExists
<1>7. \A k \in 1 .. n : k - 1 \in 0 .. n
  BY <1>1
<1>8. \A k \in 1 .. n : h[k] = h[k - 1] \o r[k]
  BY <1>5, <1>6, <1>7 DEF RecSolves
<1>9. FlatRun(h, r)
  BY <1>6, <1>8 DEF RecSolves, FlatRun, n, S
<1> QED BY <1>9

\* FlattenSeq's own recursion follows them.
LEMMA FlatIs ==
    ASSUME NEW r \in Seq(Seq(Byte)), NEW h, FlatRun(h, r)
    PROVE  FlattenSeq(r) = h[Len(r)]
<1> DEFINE n == Len(r)
           IsFlatten(f) == f = [i \in 1 .. n |-> IF i = 1 THEN r[i] ELSE f[i - 1] \o r[i]]
           flat == CHOOSE f : IsFlatten(f)
           g == [i \in 1 .. n |-> h[i]]
<1>0. n \in Nat /\ 0 \in 0 .. n
  OBVIOUS
<1>a. ASSUME NEW i \in 1 .. n
      PROVE  h[i] = IF i = 1 THEN r[i] ELSE h[i - 1] \o r[i]
  <2>1. h[i] = h[i - 1] \o r[i] /\ h[0] = <<>> /\ r[i] \in Seq(Byte)
    BY DEF FlatRun
  <2>2. CASE i = 1
    <3>1. i - 1 = 0
      BY <2>2
    <3>2. h[i] = <<>> \o r[i]
      BY <2>1, <3>1
    <3>3. <<>> \o r[i] = r[i]
      BY <2>1, ConcatEmptySeq
    <3> QED BY <2>2, <3>2, <3>3
  <2> QED BY <2>1, <2>2
<1>1. CASE n = 0
  <2>1. r = <<>>
    BY <1>1
  <2> QED BY <1>1, <2>1 DEF FlattenSeq, FlatRun
<1>2. CASE n # 0
  <2>1. FlattenSeq(r) = flat[n]
    BY <1>2 DEF FlattenSeq
  <2>2. IsFlatten(g)
    <3>1. ASSUME NEW i \in 1 .. n
          PROVE  h[i] = IF i = 1 THEN r[i] ELSE g[i - 1] \o r[i]
      <4>1. CASE i # 1
        <5>1. i - 1 \in 1 .. n
          BY <1>0, <4>1
        <5> QED BY <1>a, <4>1, <5>1
      <4> QED BY <1>a, <4>1
    <3> QED BY <3>1
  <2>3. IsFlatten(flat)
    <3> HIDE DEF IsFlatten, g
    <3> QED BY <2>2
  <2> DEFINE Q == {i \in 0 .. n : i = 0 \/ flat[i] = h[i]}
  <2>4. 0 \in Q
    BY <1>0
  <2>5. ASSUME NEW i \in 1 .. n, i - 1 \in Q
        PROVE  i \in Q
    <3>1. flat[i] = IF i = 1 THEN r[i] ELSE flat[i - 1] \o r[i]
      <4> HIDE DEF flat
      <4> QED BY <2>3
    <3>2. h[i] = IF i = 1 THEN r[i] ELSE h[i - 1] \o r[i]
      BY <1>a
    <3> HIDE DEF flat
    <3>3. i # 1 => flat[i - 1] = h[i - 1]
      BY <2>5
    <3>4. i \in 0 .. n
      BY <1>0
    <3> QED BY <3>1, <3>2, <3>3, <3>4
  <2>6. \A i \in 0 .. n : i \in Q
    <3> HIDE DEF Q, n
    <3> QED BY <1>0, <2>4, <2>5, IndexInduction
  <2>7. n \in 0 .. n
    BY <1>0
  <2> HIDE DEF flat
  <2> QED BY <1>2, <2>1, <2>6, <2>7
<1> QED BY <1>1, <1>2

\* What a ring holds is a sequence of bytes.
LEMMA FlatType ==
    ASSUME NEW r \in Seq(Seq(Byte))
    PROVE  FlattenSeq(r) \in Seq(Byte)
<1>1. PICK h : FlatRun(h, r)
  BY FlatRunExists
<1>2. FlattenSeq(r) = h[Len(r)]
  BY <1>1, FlatIs
<1>3. Len(r) \in 0 .. Len(r)
  OBVIOUS
<1> QED BY <1>1, <1>2, <1>3 DEF FlatRun

\* A chunk at the back adds its bytes at the end.
LEMMA FlatAppend ==
    ASSUME NEW r \in Seq(Seq(Byte)), NEW c \in Seq(Byte)
    PROVE  FlattenSeq(Append(r, c)) = FlattenSeq(r) \o c
<1> DEFINE n == Len(r)
           t == Append(r, c)
<1>1. PICK h : FlatRun(h, r)
  BY FlatRunExists
<1>2. FlattenSeq(r) = h[n]
  BY <1>1, FlatIs
<1>3. /\ t \in Seq(Seq(Byte)) /\ Len(t) = n + 1 /\ n \in Nat
      /\ \A i \in 1 .. n : t[i] = r[i]
      /\ t[n + 1] = c
  BY AppendProperties
<1>4. /\ h \in [0 .. n -> Seq(Byte)] /\ h[0] = <<>>
      /\ \A k \in 1 .. n : h[k] = h[k - 1] \o r[k]
  BY <1>1 DEF FlatRun
<1> HIDE DEF t, n
<1> DEFINE g == [k \in 0 .. n + 1 |-> IF k <= n THEN h[k] ELSE h[n] \o c]
<1>5. g \in [0 .. n + 1 -> Seq(Byte)]
  <2>1. h[n] \in Seq(Byte)
    BY <1>3, <1>4
  <2>2. h[n] \o c \in Seq(Byte)
    BY <2>1, ConcatProperties
  <2>3. \A k \in 0 .. n + 1 : k <= n => k \in 0 .. n
    BY <1>3
  <2> QED BY <1>4, <2>2, <2>3
<1>6. g[0] = <<>>
  BY <1>3, <1>4
<1>7. ASSUME NEW k \in 1 .. n + 1
      PROVE  g[k] = g[k - 1] \o t[k]
  <2>1. k \in 0 .. n + 1 /\ k - 1 \in 0 .. n + 1 /\ k - 1 <= n
    BY <1>3
  <2>2. g[k - 1] = h[k - 1]
    BY <2>1
  <2>3. CASE k <= n
    <3>1. k \in 1 .. n /\ g[k] = h[k]
      BY <1>3, <2>1, <2>3
    <3> HIDE DEF g
    <3> QED BY <1>3, <1>4, <2>2, <3>1
  <2>4. CASE ~(k <= n)
    <3>1. k = n + 1 /\ k - 1 = n
      BY <1>3, <2>4
    <3>2. g[k] = h[n] \o c
      BY <2>1, <2>4
    <3> HIDE DEF g
    <3> QED BY <1>3, <2>2, <3>1, <3>2
  <2> QED BY <2>3, <2>4
<1>8. FlatRun(g, t)
  <2> HIDE DEF g
  <2> QED BY <1>3, <1>5, <1>6, <1>7 DEF FlatRun
<1>9. FlattenSeq(t) = g[n + 1]
  <2> HIDE DEF g
  <2> QED BY <1>3, <1>8, FlatIs
<1>10. g[n + 1] = h[n] \o c
  BY <1>3
<1> QED BY <1>2, <1>9, <1>10 DEF t

\* A chunk at the front adds its bytes at the front.
LEMMA FlatPrepend ==
    ASSUME NEW r \in Seq(Seq(Byte)), NEW c \in Seq(Byte)
    PROVE  FlattenSeq(<<c>> \o r) = c \o FlattenSeq(r)
<1> DEFINE n == Len(r)
           d == <<c>>
           t == d \o r
<1>1. PICK h : FlatRun(h, r)
  BY FlatRunExists
<1>2. FlattenSeq(r) = h[n]
  BY <1>1, FlatIs
<1>a. d \in Seq(Seq(Byte)) /\ Len(d) = 1 /\ d[1] = c
  OBVIOUS
<1> HIDE DEF d
<1>b. /\ t \in Seq(Seq(Byte)) /\ Len(t) = Len(d) + Len(r)
      /\ \A i \in 1 .. Len(d) + Len(r) : t[i] = IF i <= Len(d) THEN d[i] ELSE r[i - Len(d)]
  BY <1>a, ConcatProperties
<1>c. n \in Nat
  OBVIOUS
<1> HIDE DEF t
<1>3. /\ t \in Seq(Seq(Byte)) /\ Len(t) = n + 1
      /\ t[1] = c /\ \A i \in 2 .. n + 1 : t[i] = r[i - 1]
  <2> HIDE DEF n
  <2> QED BY <1>a, <1>b, <1>c DEF n
<1>4. /\ h \in [0 .. n -> Seq(Byte)] /\ h[0] = <<>>
      /\ \A k \in 1 .. n : h[k] = h[k - 1] \o r[k]
  BY <1>1 DEF FlatRun
<1>d. \A i \in 1 .. n : r[i] \in Seq(Byte)
  OBVIOUS
<1> HIDE DEF n
<1> DEFINE g == [k \in 0 .. n + 1 |-> IF k = 0 THEN <<>> ELSE c \o h[k - 1]]
<1>5. g \in [0 .. n + 1 -> Seq(Byte)]
  <2>1. \A k \in 0 .. n + 1 : k # 0 => k - 1 \in 0 .. n
    BY <1>c
  <2>2. \A k \in 0 .. n : c \o h[k] \in Seq(Byte)
    BY <1>4, ConcatProperties
  <2>3. <<>> \in Seq(Byte)
    OBVIOUS
  <2> QED BY <2>1, <2>2, <2>3
<1>6. g[0] = <<>>
  BY <1>c
<1>7. ASSUME NEW k \in 1 .. n + 1
      PROVE  g[k] = g[k - 1] \o t[k]
  <2>1. k \in 0 .. n + 1 /\ k - 1 \in 0 .. n + 1 /\ k # 0
    BY <1>c
  <2>2. g[k] = c \o h[k - 1]
    BY <2>1
  <2>3. CASE k = 1
    <3>1. g[k - 1] = <<>>
      BY <1>6, <2>3
    <3>2. k - 1 = 0 /\ t[k] = c
      BY <1>3, <2>3
    <3> HIDE DEF g
    <3>3. g[k] = c \o <<>>
      BY <1>4, <2>2, <3>2
    <3>4. c \o <<>> = c /\ <<>> \o c = c
      BY ConcatEmptySeq
    <3> QED BY <3>1, <3>2, <3>3, <3>4
  <2>4. CASE k # 1
    <3> DEFINE j == k - 1
    <3>1. j \in 1 .. n /\ j \in 0 .. n + 1 /\ j # 0 /\ k \in 2 .. n + 1 /\ j - 1 \in 0 .. n
      BY <1>c, <2>4
    <3>2. g[j] = c \o h[j - 1]
      BY <3>1
    <3>3. t[k] = r[j]
      BY <1>3, <3>1
    <3> HIDE DEF g
    <3>4. h[j] = h[j - 1] \o r[j] /\ h[j - 1] \in Seq(Byte) /\ r[j] \in Seq(Byte)
      BY <1>4, <1>d, <3>1
    <3> HIDE DEF j
    <3>5. c \o (h[j - 1] \o r[j]) = (c \o h[j - 1]) \o r[j]
      <4> DEFINE x == h[j - 1]
                 y == r[j]
      <4>1. x \in Seq(Byte) /\ y \in Seq(Byte)
        BY <3>4
      <4> HIDE DEF x, y
      <4>2. (c \o x) \o y = c \o (x \o y)
        BY <4>1, ConcatAssociative
      <4> QED BY <4>2 DEF x, y
    <3> QED BY <2>2, <3>2, <3>3, <3>4, <3>5 DEF j
  <2> QED BY <2>3, <2>4
<1>8. FlatRun(g, t)
  <2> HIDE DEF g
  <2> QED BY <1>3, <1>5, <1>6, <1>7 DEF FlatRun
<1>9. FlattenSeq(t) = g[n + 1]
  <2> HIDE DEF g
  <2> QED BY <1>3, <1>8, FlatIs
<1>10. g[n + 1] = c \o h[n]
  BY <1>c
<1> QED BY <1>2, <1>9, <1>10 DEF t, d

\* A sequence is its first k elements followed by the others.
LEMMA SplitAt ==
    ASSUME NEW s \in Seq(Byte), NEW k \in 0 .. Len(s)
    PROVE  /\ SubSeq(s, 1, k) \in Seq(Byte) /\ Len(SubSeq(s, 1, k)) = k
           /\ SubSeq(s, k + 1, Len(s)) \in Seq(Byte)
           /\ Len(SubSeq(s, k + 1, Len(s))) = Len(s) - k
           /\ s = SubSeq(s, 1, k) \o SubSeq(s, k + 1, Len(s))
<1> DEFINE n == Len(s)
<1>1. n \in Nat /\ k \in Nat /\ k <= n
  OBVIOUS
<1>2. SubSeq(s, 1, k) \in Seq(Byte) /\ Len(SubSeq(s, 1, k)) = k
  <2>1. \A i \in 1 .. k : s[i] \in Byte
    OBVIOUS
  <2>2. SubSeq(s, 1, k) \in Seq(Byte) /\ Len(SubSeq(s, 1, k)) = IF 1 <= k THEN k - 1 + 1 ELSE 0
    BY <1>1, <2>1, SubSeqProperties
  <2> QED BY <1>1, <2>2
<1>3. SubSeq(s, k + 1, n) \in Seq(Byte) /\ Len(SubSeq(s, k + 1, n)) = n - k
  <2>1. \A i \in k + 1 .. n : s[i] \in Byte
    OBVIOUS
  <2> HIDE DEF n
  <2>2. /\ SubSeq(s, k + 1, n) \in Seq(Byte)
        /\ Len(SubSeq(s, k + 1, n)) = IF k + 1 <= n THEN n - (k + 1) + 1 ELSE 0
    BY <1>1, <2>1, SubSeqProperties
  <2> QED BY <1>1, <2>2
<1>4. SubSeq(s, 1, k) \o SubSeq(s, k + 1, n) = SubSeq(s, 1, n)
  <2>1. 1 \in 1 .. n + 1 /\ k \in 1 - 1 .. n /\ n \in k .. n
    BY <1>1
  <2>2. \A e \in 1 - 1 .. n : \A f \in e .. n :
            SubSeq(s, 1, e) \o SubSeq(s, e + 1, f) = SubSeq(s, 1, f)
    BY <2>1, ConcatAdjacentSubSeq
  <2> HIDE DEF n
  <2> QED BY <2>1, <2>2
<1>5. SubSeq(s, 1, n) = s
  BY SubSeqFull
<1> QED BY <1>2, <1>3, <1>4, <1>5

\* The last bytes are in the second part, when it is long enough.
LEMMA LastOfSuffix ==
    ASSUME NEW x \in Seq(Byte), NEW t \in Seq(Byte), NEW n \in Nat \ {0}, Len(t) >= n
    PROVE  LastBytes(x \o t, n) = LastBytes(t, n)
<1> DEFINE s == x \o t
<1>1. s \in Seq(Byte) /\ Len(s) = Len(x) + Len(t) /\ Len(x) \in Nat /\ Len(t) \in Nat
  BY ConcatProperties
<1>2. CASE Len(s) <= n
  <2>1. Len(x) = 0 /\ Len(t) <= n
    <3> HIDE DEF s
    <3> QED BY <1>1, <1>2
  <2>2. x = <<>>
    BY <2>1
  <2>3. s = t
    BY <2>2, ConcatEmptySeq
  <2> QED BY <2>3
<1>3. CASE ~(Len(s) <= n)
  <2> DEFINE m == Len(s) - n + 1
  <2>1. LastBytes(s, n) = SubSeq(s, m, Len(s))
    BY <1>3 DEF LastBytes
  <2>2. /\ m \in Len(x) + 1 .. Len(x) + Len(t) /\ m - Len(x) = Len(t) - n + 1
        /\ Len(s) \in Len(x) + 1 .. Len(x) + Len(t) /\ Len(s) - Len(x) = Len(t)
    <3> HIDE DEF s
    <3> QED BY <1>1, <1>3
  <2>3. \A i, j \in Len(x) + 1 .. Len(x) + Len(t) :
            SubSeq(x \o t, i, j) = SubSeq(t, i - Len(x), j - Len(x))
    BY SubSeqOfConcat2
  <2> HIDE DEF s, m
  <2>4. SubSeq(s, m, Len(s)) = SubSeq(t, Len(t) - n + 1, Len(t))
    <3>1. SubSeq(s, m, Len(s)) = SubSeq(t, m - Len(x), Len(s) - Len(x))
      BY <2>2, <2>3 DEF s
    <3> QED BY <2>2, <3>1
  <2>5. LastBytes(t, n) = SubSeq(t, Len(t) - n + 1, Len(t))
    <3>1. CASE Len(t) = n
      <4>1. LastBytes(t, n) = t /\ Len(t) - n + 1 = 1
        BY <1>1, <3>1 DEF LastBytes
      <4>2. SubSeq(t, 1, Len(t)) = t
        BY SubSeqFull
      <4> QED BY <4>1, <4>2
    <3>2. CASE Len(t) # n
      <4>1. ~(Len(t) <= n)
        BY <1>1, <3>2
      <4> QED BY <4>1 DEF LastBytes
    <3> QED BY <3>1, <3>2
  <2> QED BY <2>1, <2>4, <2>5 DEF s
<1> QED BY <1>2, <1>3

\* The last bytes of a sequence are a sequence of at most so many.
LEMMA LastBytesType ==
    ASSUME NEW s \in Seq(Byte), NEW n \in Nat \ {0}
    PROVE  /\ LastBytes(s, n) \in Seq(Byte) /\ Len(LastBytes(s, n)) <= n
           /\ Len(s) <= n => LastBytes(s, n) = s
           /\ ~(Len(s) <= n) => \E d \in Seq(Byte) :
                  s = d \o LastBytes(s, n) /\ Len(LastBytes(s, n)) = n
<1>1. Len(s) \in Nat
  OBVIOUS
<1>2. CASE Len(s) <= n
  BY <1>2 DEF LastBytes
<1>3. CASE ~(Len(s) <= n)
  <2> DEFINE k == Len(s) - n
             d == SubSeq(s, 1, k)
  <2>1. k \in 0 .. Len(s) /\ Len(s) - k = n
    BY <1>1, <1>3
  <2>2. LastBytes(s, n) = SubSeq(s, k + 1, Len(s))
    BY <1>3 DEF LastBytes
  <2> HIDE DEF k
  <2>3. /\ d \in Seq(Byte) /\ SubSeq(s, k + 1, Len(s)) \in Seq(Byte)
        /\ Len(SubSeq(s, k + 1, Len(s))) = Len(s) - k
        /\ s = d \o SubSeq(s, k + 1, Len(s))
    BY <2>1, SplitAt
  <2> HIDE DEF d
  <2>4. /\ LastBytes(s, n) \in Seq(Byte) /\ Len(LastBytes(s, n)) = n
        /\ s = d \o LastBytes(s, n)
    BY <2>1, <2>2, <2>3
  <2>5. \E e \in Seq(Byte) : s = e \o LastBytes(s, n) /\ Len(LastBytes(s, n)) = n
    BY <2>3, <2>4
  <2>6. Len(LastBytes(s, n)) <= n
    BY <2>4
  <2> QED BY <1>3, <2>4, <2>5, <2>6
<1> QED BY <1>2, <1>3

\* Of a chunk, only its last bytes matter.
LEMMA LastOfCutBack ==
    ASSUME NEW x \in Seq(Byte), NEW c \in Seq(Byte), NEW n \in Nat \ {0}
    PROVE  LastBytes(x \o LastBytes(c, n), n) = LastBytes(x \o c, n)
<1>1. CASE Len(c) <= n
  BY <1>1, LastBytesType
<1>2. CASE ~(Len(c) <= n)
  <2> DEFINE t == LastBytes(c, n)
  <2>1. PICK d \in Seq(Byte) : c = d \o t /\ Len(t) = n /\ t \in Seq(Byte)
    BY <1>2, LastBytesType
  <2> HIDE DEF t
  <2>2. x \o c = (x \o d) \o t /\ x \o d \in Seq(Byte)
    BY <2>1, ConcatAssociative, ConcatProperties
  <2>3. LastBytes(x \o t, n) = LastBytes(t, n)
    BY <2>1, LastOfSuffix
  <2>4. LastBytes((x \o d) \o t, n) = LastBytes(t, n)
    <3> DEFINE w == x \o d
    <3>1. w \in Seq(Byte) /\ Len(t) >= n
      BY <2>1, <2>2
    <3> HIDE DEF w
    <3>2. LastBytes(w \o t, n) = LastBytes(t, n)
      BY <2>1, <3>1, LastOfSuffix
    <3> QED BY <3>2 DEF w
  <2> QED BY <2>2, <2>3, <2>4 DEF t
<1> QED BY <1>1, <1>2

\* Of what came before a chunk, only the last bytes matter.
LEMMA LastOfCutFront ==
    ASSUME NEW x \in Seq(Byte), NEW c \in Seq(Byte), NEW n \in Nat \ {0}
    PROVE  LastBytes(LastBytes(x, n) \o c, n) = LastBytes(x \o c, n)
<1>1. CASE Len(x) <= n
  BY <1>1, LastBytesType
<1>2. CASE ~(Len(x) <= n)
  <2> DEFINE t == LastBytes(x, n)
  <2>1. PICK d \in Seq(Byte) : x = d \o t /\ Len(t) = n /\ t \in Seq(Byte)
    BY <1>2, LastBytesType
  <2> HIDE DEF t
  <2>2. x \o c = d \o (t \o c)
    BY <2>1, ConcatAssociative
  <2>3. t \o c \in Seq(Byte) /\ Len(t \o c) = Len(t) + Len(c)
    BY <2>1, ConcatProperties
  <2>4. Len(t \o c) >= n
    <3>1. Len(c) \in Nat
      OBVIOUS
    <3> QED BY <2>1, <2>3, <3>1
  <2>5. LastBytes(d \o (t \o c), n) = LastBytes(t \o c, n)
    <3> DEFINE w == t \o c
    <3> HIDE DEF w
    <3>1. LastBytes(d \o w, n) = LastBytes(w, n)
      BY <2>3, <2>4, LastOfSuffix DEF w
    <3> QED BY <3>1 DEF w
  <2> QED BY <2>2, <2>5 DEF t
<1> QED BY <1>1, <1>2

\* A buffer with its count right, that holds the last bytes of s.
Spools(b, s) ==
    /\ b \in [ring : Seq(Seq(Byte)), len : Nat]
    /\ b.len = Len(FlattenSeq(b.ring))
    /\ LastBytes(FlattenSeq(b.ring), CONSOLE_SPOOL_SIZE) = LastBytes(s, CONSOLE_SPOOL_SIZE)

\* A round of the loop loses none of the last bytes, and ends it or pops a chunk.
LEMMA TrimOnceSpools ==
    ASSUME NEW b, NEW s, Spools(b, s)
    PROVE  /\ Spools(TrimOnce(b), s)
           /\ b.len <= CONSOLE_SPOOL_SIZE => TrimOnce(b) = b
           /\ \/ TrimOnce(b).len <= CONSOLE_SPOOL_SIZE
              \/ Len(TrimOnce(b).ring) = Len(b.ring) - 1
<1> DEFINE N == CONSOLE_SPOOL_SIZE
           r == b.ring
           all == FlattenSeq(r)
<1>1. N \in Nat \ {0} /\ b \in [ring : Seq(Seq(Byte)), len : Nat]
  BY SpoolAssumption DEF Spools
<1>2. r \in Seq(Seq(Byte)) /\ b.len \in Nat
  BY <1>1
<1>3. all \in Seq(Byte) /\ b.len = Len(all) /\ LastBytes(all, N) = LastBytes(s, N)
  BY <1>2, FlatType DEF Spools
<1> HIDE DEF N, all
<1>4. CASE b.len <= N
  <2>1. TrimOnce(b) = b
    BY <1>4 DEF TrimOnce, N
  <2> QED BY <1>4, <2>1 DEF N
<1>5. CASE ~(b.len <= N)
  <2> DEFINE excess == b.len - N
             oldest == Head(r)
             rest == Tail(r)
             after == FlattenSeq(rest)
  <2>1. r # <<>>
    <3> SUFFICES ASSUME r = <<>>
                 PROVE  FALSE
      OBVIOUS
    <3>1. all = <<>>
      BY <1>2 DEF FlattenSeq, all
    <3>2. b.len = 0
      BY <1>3, <3>1
    <3> QED BY <1>1, <1>5, <3>2
  <2>2. oldest \in Seq(Byte) /\ rest \in Seq(Seq(Byte)) /\ Len(rest) = Len(r) - 1
    BY <1>2, <2>1, HeadTailProperties
  <2>3. all = oldest \o after
    <3>1. r = <<oldest>> \o rest
      BY <1>2, <2>1
    <3>2. FlattenSeq(<<oldest>> \o rest) = oldest \o after
      <4> HIDE DEF oldest, rest
      <4> QED BY <2>2, FlatPrepend DEF after
    <3> QED BY <3>1, <3>2 DEF all
  <2> HIDE DEF rest
  <2>4. after \in Seq(Byte)
    BY <2>2, FlatType
  <2> HIDE DEF oldest, after
  <2>5. b.len = Len(oldest) + Len(after) /\ Len(oldest) \in Nat /\ Len(after) \in Nat
    BY <1>3, <2>2, <2>3, <2>4, ConcatProperties
  <2>6. CASE Len(oldest) > excess
    <3> DEFINE cut == SubSeq(oldest, excess + 1, Len(oldest))
               head == SubSeq(oldest, 1, excess)
               new == <<cut>> \o rest
    <3>1. TrimOnce(b) = [ring |-> new, len |-> b.len - excess]
      BY <1>5, <2>1, <2>6 DEF TrimOnce, N, cutOldest, oldest, rest
    <3>2. excess \in 0 .. Len(oldest) /\ b.len - excess = N
      BY <1>1, <1>2, <1>5, <2>5, <2>6
    <3> HIDE DEF excess
    <3>3. /\ cut \in Seq(Byte) /\ head \in Seq(Byte) /\ oldest = head \o cut
          /\ Len(cut) = Len(oldest) - excess
      BY <2>2, <3>2, SplitAt
    <3> HIDE DEF cut, head
    <3>4. new \in Seq(Seq(Byte)) /\ FlattenSeq(new) = cut \o after
      <4>1. <<cut>> \in Seq(Seq(Byte))
        BY <3>3
      <4>2. new \in Seq(Seq(Byte))
        BY <2>2, <4>1, ConcatProperties
      <4> QED BY <2>2, <3>3, <4>2, FlatPrepend DEF after
    <3> HIDE DEF new
    <3>5. cut \o after \in Seq(Byte) /\ Len(cut \o after) = Len(cut) + Len(after)
      BY <2>4, <3>3, ConcatProperties
    <3>6. Len(cut \o after) = N
      BY <1>1, <1>2, <2>5, <3>2, <3>3, <3>5
    <3>7. all = head \o (cut \o after)
      BY <2>3, <2>4, <3>3, ConcatAssociative
    <3>8. LastBytes(head \o (cut \o after), N) = LastBytes(cut \o after, N)
      <4> DEFINE w == cut \o after
      <4>1. w \in Seq(Byte) /\ Len(w) >= N
        BY <1>1, <3>5, <3>6
      <4> HIDE DEF w
      <4>2. LastBytes(head \o w, N) = LastBytes(w, N)
        BY <1>1, <3>3, <4>1, LastOfSuffix
      <4> QED BY <4>2 DEF w
    <3>9. /\ TrimOnce(b).ring = new /\ TrimOnce(b).len = N
          /\ TrimOnce(b) \in [ring : Seq(Seq(Byte)), len : Nat]
      BY <1>1, <3>1, <3>2, <3>4
    <3>10. Spools(TrimOnce(b), s)
      BY <1>3, <3>4, <3>6, <3>7, <3>8, <3>9 DEF Spools, N
    <3>11. TrimOnce(b).len <= N
      BY <1>1, <3>9
    <3> QED BY <1>5, <3>10, <3>11 DEF N
  <2>7. CASE ~(Len(oldest) > excess)
    <3>1. TrimOnce(b) = [ring |-> rest, len |-> b.len - Len(oldest)]
      BY <1>5, <2>1, <2>7 DEF TrimOnce, N, oldest, rest
    <3>2. b.len - Len(oldest) = Len(after) /\ Len(after) >= N
      BY <1>1, <1>2, <2>5, <2>7
    <3>3. LastBytes(oldest \o after, N) = LastBytes(after, N)
      BY <1>1, <2>2, <2>4, <3>2, LastOfSuffix
    <3>4. /\ TrimOnce(b).ring = rest /\ TrimOnce(b).len = Len(after)
          /\ TrimOnce(b) \in [ring : Seq(Seq(Byte)), len : Nat]
      BY <2>2, <2>5, <3>1, <3>2
    <3>5. Spools(TrimOnce(b), s)
      BY <1>3, <2>3, <3>3, <3>4 DEF Spools, N, after
    <3> QED BY <1>5, <2>2, <3>4, <3>5 DEF N
  <2> QED BY <2>6, <2>7
<1> QED BY <1>4, <1>5

\* The loop loses none of the last bytes, and leaves no more than fit.
LEMMA TrimSpools ==
    ASSUME NEW b, NEW s, Spools(b, s)
    PROVE  Spools(Trim(b), s) /\ Trim(b).len <= CONSOLE_SPOOL_SIZE
<1> DEFINE m == Len(b.ring) + 1
           Round(f, n) == IF n = 0 THEN b ELSE TrimOnce(f[n - 1])
           IsLoop(f) == f = [n \in 0 .. m |-> Round(f, n)]
           after == CHOOSE f : IsLoop(f)
           State == {x \in [ring : Seq(Seq(Byte)), len : Nat] : Spools(x, s)}
           step == [p \in State \X (1 .. m) |-> TrimOnce(p[1])]
<1>1. Trim(b) = after[m]
  BY DEF Trim
<1>2. m \in Nat /\ b.ring \in Seq(Seq(Byte)) /\ Len(b.ring) \in Nat /\ m = Len(b.ring) + 1
  BY DEF Spools
<1>3. b \in State /\ \A x \in State : TrimOnce(x) \in State
  <2>1. \A x : x \in State <=> Spools(x, s)
    BY DEF Spools
  <2> HIDE DEF State
  <2> QED BY <2>1, TrimOnceSpools
<1> HIDE DEF m
<1>4. \E f : IsLoop(f)
  <2>1. step \in [State \X (1 .. m) -> State]
    <3> HIDE DEF State
    <3> QED BY <1>3
  <2>2. \A x \in State, k \in 1 .. m : step[<<x, k>>] = TrimOnce(x)
    <3> HIDE DEF State
    <3> QED OBVIOUS
  <2> HIDE DEF step, State
  <2>3. PICK h : RecSolves(h, m, State, b, step)
    BY <1>2, <1>3, <2>1, RecExists
  <2>4. ASSUME NEW n \in 0 .. m
        PROVE  h[n] = Round(h, n)
    <3>1. CASE n = 0
      BY <2>3, <3>1 DEF RecSolves
    <3>2. CASE n # 0
      <4>1. n \in 1 .. m /\ n - 1 \in 0 .. m
        BY <1>2, <3>2
      <4>2. h[n] = step[<<h[n - 1], n>>] /\ h[n - 1] \in State
        BY <2>3, <4>1 DEF RecSolves
      <4> QED BY <2>2, <3>2, <4>1, <4>2
    <3> QED BY <3>1, <3>2
  <2> HIDE DEF Round
  <2>5. IsLoop(h)
    BY <2>3, <2>4 DEF RecSolves
  <2> QED BY <2>5
<1>5. IsLoop(after)
  <2> HIDE DEF IsLoop
  <2> QED BY <1>4
<1> HIDE DEF after
<1> DEFINE N == CONSOLE_SPOOL_SIZE
           Good(k) == /\ Spools(after[k], s)
                      /\ after[k].len <= N \/ Len(after[k].ring) <= Len(b.ring) - k
           P == {k \in 0 .. m : Good(k)}
<1>6. 0 \in P
  <2>1. 0 \in 0 .. m
    BY <1>2
  <2>2. after[0] = b
    BY <1>5, <2>1
  <2>3. Len(b.ring) <= Len(b.ring) - 0
    BY <1>2
  <2> QED BY <2>1, <2>2, <2>3
<1>7. ASSUME NEW k \in 1 .. m, k - 1 \in P
      PROVE  k \in P
  <2> DEFINE x == after[k - 1]
  <2>1. k \in 0 .. m /\ k # 0 /\ k \in Nat
    BY <1>2
  <2>2. after[k] = TrimOnce(x)
    BY <1>5, <2>1
  <2>3. Spools(x, s) /\ (x.len <= N \/ Len(x.ring) <= Len(b.ring) - (k - 1))
    BY <1>7
  <2> HIDE DEF x
  <2>4. /\ Spools(TrimOnce(x), s)
        /\ x.len <= N => TrimOnce(x) = x
        /\ TrimOnce(x).len <= N \/ Len(TrimOnce(x).ring) = Len(x.ring) - 1
    BY <2>3, TrimOnceSpools
  <2>5. TrimOnce(x).len <= N \/ Len(TrimOnce(x).ring) <= Len(b.ring) - k
    <3>1. CASE x.len <= N
      BY <2>4, <3>1
    <3>2. CASE ~(x.len <= N)
      <4>1. x.ring \in Seq(Seq(Byte))
        BY <2>3 DEF Spools
      <4>2. Len(x.ring) \in Nat /\ Len(x.ring) <= Len(b.ring) - (k - 1)
        BY <2>3, <3>2, <4>1
      <4>3. Len(x.ring) - 1 <= Len(b.ring) - k
        BY <1>2, <2>1, <4>2
      <4> QED BY <2>4, <4>3
    <3> QED BY <3>1, <3>2
  <2> QED BY <2>1, <2>2, <2>4, <2>5
<1>8. m \in P
  <2>1. \A k \in 0 .. m : k \in P
    <3> HIDE DEF P
    <3> QED BY <1>2, <1>6, <1>7, IndexInduction
  <2>2. m \in 0 .. m
    BY <1>2
  <2> HIDE DEF P
  <2> QED BY <2>1, <2>2
<1>9. Good(m)
  BY <1>8
<1>10. after[m].len <= N
  <2>1. Len(after[m].ring) \in Nat
    <3>1. after[m].ring \in Seq(Seq(Byte))
      BY <1>9 DEF Spools
    <3> QED BY <3>1
  <2> QED BY <1>2, <1>9, <2>1
<1> QED BY <1>1, <1>9, <1>10

\* A push keeps the last bytes of what was read and of the new chunk.
LEMMA PushSpools ==
    ASSUME NEW b, NEW s \in Seq(Byte), Spools(b, s), NEW chunk \in Seq(Byte)
    PROVE  Spools(push(b, chunk), s \o chunk) /\ push(b, chunk).len <= CONSOLE_SPOOL_SIZE
<1> DEFINE N == CONSOLE_SPOOL_SIZE
           kept == LastBytes(chunk, N)
           all == FlattenSeq(b.ring)
           c == [ring |-> Append(b.ring, kept), len |-> b.len + Len(kept)]
<1>1. N \in Nat \ {0} /\ b \in [ring : Seq(Seq(Byte)), len : Nat] /\ Len(chunk) \in Nat
  BY SpoolAssumption DEF Spools
<1>2. b.ring \in Seq(Seq(Byte)) /\ b.len \in Nat
  BY <1>1
<1>3. all \in Seq(Byte) /\ b.len = Len(all) /\ LastBytes(all, N) = LastBytes(s, N)
  BY <1>2, FlatType DEF Spools
<1>4. push(b, chunk) = Trim(c)
  <2>1. kept = IF Len(chunk) > N THEN SubSeq(chunk, Len(chunk) - N + 1, Len(chunk)) ELSE chunk
    BY <1>1 DEF LastBytes
  <2> HIDE DEF kept
  <2> QED BY <2>1 DEF push
<1> HIDE DEF N
<1>5. kept \in Seq(Byte)
  BY <1>1, LastBytesType
<1> HIDE DEF kept
<1>6. /\ Append(b.ring, kept) \in Seq(Seq(Byte))
      /\ FlattenSeq(Append(b.ring, kept)) = all \o kept
  BY <1>2, <1>5, FlatAppend, AppendProperties
<1> HIDE DEF all
<1>7. all \o kept \in Seq(Byte) /\ Len(all \o kept) = b.len + Len(kept) /\ Len(kept) \in Nat
  BY <1>3, <1>5, ConcatProperties
<1>8. LastBytes(all \o kept, N) = LastBytes(s \o chunk, N)
  <2>1. LastBytes(all \o kept, N) = LastBytes(all \o chunk, N)
    BY <1>1, <1>3, LastOfCutBack DEF kept
  <2>2. LastBytes(all \o chunk, N) = LastBytes(LastBytes(all, N) \o chunk, N)
    BY <1>1, <1>3, LastOfCutFront
  <2>3. LastBytes(s \o chunk, N) = LastBytes(LastBytes(s, N) \o chunk, N)
    BY <1>1, LastOfCutFront
  <2> QED BY <1>3, <2>1, <2>2, <2>3
<1>9. c \in [ring : Seq(Seq(Byte)), len : Nat] /\ c.ring = Append(b.ring, kept)
      /\ c.len = b.len + Len(kept)
  BY <1>2, <1>6, <1>7
<1> HIDE DEF c
<1>10. Spools(c, s \o chunk)
  BY <1>6, <1>7, <1>8, <1>9 DEF Spools, N
<1> QED BY <1>4, <1>10, TrimSpools

\* The history is the last bytes of the output, and no more than fit.
ConsoleIInv ==
    /\ output \in Seq(Byte)
    /\ Spools(buffer, output)
    /\ buffer.len <= CONSOLE_SPOOL_SIZE

\* It holds of a console that was not read yet.
LEMMA ConsoleStarts == ConsoleInit => ConsoleIInv
<1> SUFFICES ASSUME ConsoleInit
             PROVE  ConsoleIInv
  OBVIOUS
<1>1. buffer = [ring |-> <<>>, len |-> 0] /\ output = <<>>
  BY DEF ConsoleInit
<1>2. FlattenSeq(<<>>) = <<>>
  BY DEF FlattenSeq
<1>3. output \in Seq(Byte) /\ <<>> \in Seq(Seq(Byte)) /\ 0 \in Nat
  BY <1>1
<1>4. /\ buffer \in [ring : Seq(Seq(Byte)), len : Nat]
      /\ buffer.ring = <<>> /\ buffer.len = 0
  BY <1>1, <1>3
<1>5. Spools(buffer, output)
  BY <1>1, <1>2, <1>4 DEF Spools
<1>6. buffer.len <= CONSOLE_SPOOL_SIZE
  BY <1>4, SpoolAssumption
<1> QED BY <1>3, <1>5, <1>6 DEF ConsoleIInv

\* A chunk that is read keeps it.
LEMMA ConsoleKeeps == ConsoleIInv /\ [ConsoleNext]_consoleVars => ConsoleIInv'
<1> SUFFICES ASSUME ConsoleIInv, [ConsoleNext]_consoleVars
             PROVE  ConsoleIInv'
  OBVIOUS
<1>1. ASSUME NEW chunk \in Chunk, ReadChunk(chunk)
      PROVE  ConsoleIInv'
  <2>1. /\ chunk \in Seq(Byte) /\ output \in Seq(Byte) /\ Spools(buffer, output)
        /\ buffer' = push(buffer, chunk) /\ output' = output \o chunk
    BY <1>1, ChunkAssumption DEF ConsoleIInv, ReadChunk
  <2>2. Spools(push(buffer, chunk), output \o chunk)
        /\ push(buffer, chunk).len <= CONSOLE_SPOOL_SIZE
    BY <2>1, PushSpools
  <2>3. output \o chunk \in Seq(Byte)
    BY <2>1, ConcatProperties
  <2>4. Spools(buffer', output') /\ buffer'.len <= CONSOLE_SPOOL_SIZE /\ output' \in Seq(Byte)
    BY <2>1, <2>2, <2>3
  <2> QED BY <2>4 DEF ConsoleIInv, Spools
<1>2. CASE UNCHANGED consoleVars
  BY <1>2 DEF ConsoleIInv, Spools, consoleVars
<1> QED BY <1>1, <1>2 DEF ConsoleNext

\* Where no more is held than fits, what is held is the tail itself.
LEMMA ConsoleImplies == ConsoleIInv => HistoryIsTheTail
<1> SUFFICES ASSUME ConsoleIInv
             PROVE  HistoryIsTheTail
  OBVIOUS
<1> DEFINE N == CONSOLE_SPOOL_SIZE
           all == FlattenSeq(buffer.ring)
<1>1. /\ buffer.len = Len(all) /\ buffer.len <= N
      /\ LastBytes(all, N) = LastBytes(output, N)
  BY DEF ConsoleIInv, Spools
<1>2. history(buffer) = all
  BY DEF history, Bytes
<1> HIDE DEF all, N
<1>3. LastBytes(all, N) = all
  BY <1>1 DEF LastBytes
<1> QED BY <1>1, <1>2, <1>3 DEF HistoryIsTheTail, N

\* Whatever chunks the console of a VM is read and pushed in, and whatever the size of the
\* buffer: the history is the end of the output, and the count kept beside the
\* ring is right.
THEOREM HistoryTail == ConsoleSpec => []HistoryIsTheTail
<1> QED BY ConsoleStarts, ConsoleKeeps, ConsoleImplies, PTL DEF ConsoleSpec
=============================================================================
