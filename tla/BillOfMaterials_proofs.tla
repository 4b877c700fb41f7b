------------------------ MODULE BillOfMaterials_proofs ------------------------
(* Proofs about BillOfMaterials, for all contents that manifests, lockfiles   *)
(* and registries may get, any number of edits, and any crashes.              *)
EXTENDS BillOfMaterials, TLAPS

-----------------------------------------------------------------------------
(* The SBOM of captured snapshots.  A candidate of a snapshot carries what    *)
(* its reference stands for ...                                               *)
LEMMA CandidateFields ==
  ASSUME NEW snapshot, NEW id
  PROVE  LET package == snapshot.metadata.packages[id]
             c == Candidate(snapshot, id)
         IN  /\ c.ref = Ref(package)
             /\ c.name = package.name /\ c.version = package.version
             /\ c.source = package.source
             /\ c.checksum = Checksum(snapshot.lockfile, package)
             /\ c.scope = snapshot.scope
BY DEF Candidate

LEMMA RefFields ==
  ASSUME NEW package, NEW other, Ref(package) = Ref(other)
  PROVE  /\ package.name = other.name
         /\ package.version = other.version
         /\ package.source = other.source
<1> DEFINE Identity(p) == [name |-> p.name, version |-> p.version, source |-> p.source,
                           path |-> IF IsRepository(p) THEN p.path ELSE "none"]
<1>1. Ref(package).sha256 = Identity(package) /\ Ref(other).sha256 = Identity(other)
  BY DEF Ref, Digest
<1>2. Identity(package) = Identity(other)
  BY <1>1
<1>. QED
  BY <1>2

(* ... and if it is a registry package, the checksum of an entry of its       *)
(* lockfile.                                                                  *)
LEMMA ChecksumOfEntry ==
  ASSUME NEW lockfile, NEW package, package.source = "registry", IdentityOK(lockfile, package)
  PROVE  \E entry \in Elements(lockfile.entries) :
           LockKey(entry) = LockKey(package) /\ entry.checksum = Checksum(lockfile, package)
<1> DEFINE Same(i) == i \in External(lockfile) /\ LockKey(lockfile.entries[i]) = LockKey(package)
<1>1. Checksum(lockfile, package) # "none"
  BY DEF IdentityOK, IsRepository
<1>2. \E i \in External(lockfile) : LockKey(lockfile.entries[i]) = LockKey(package)
  BY <1>1 DEF Checksum
<1> DEFINE found == CHOOSE i \in External(lockfile) :
                      LockKey(lockfile.entries[i]) = LockKey(package)
<1>3. found \in External(lockfile) /\ LockKey(lockfile.entries[found]) = LockKey(package)
  BY <1>2
<1>4. Checksum(lockfile, package) = lockfile.entries[found].checksum
  BY <1>2 DEF Checksum
<1>5. lockfile.entries[found] \in Elements(lockfile.entries)
  BY <1>3 DEF External, Elements
<1>. QED
  BY <1>3, <1>4, <1>5

(* Every component is merged from the candidates of one reference, which      *)
(* agree on everything but kinds, scopes and membership.                      *)
Group(snapshots, ref) == {c \in Candidates(snapshots) : c.ref = ref}

LEMMA MergedFields ==
  ASSUME NEW group, group # {}
  PROVE  \E some \in group :
           /\ Merged(group).ref = some.ref
           /\ Merged(group).name = some.name /\ Merged(group).version = some.version
           /\ Merged(group).source = some.source /\ Merged(group).checksum = some.checksum
           /\ Merged(group).kinds = UNION {c.kinds : c \in group}
           /\ Merged(group).scopes = {c.scope : c \in group}
<1> DEFINE some == CHOOSE c \in group : TRUE
<1>1. some \in group
  OBVIOUS
<1>. QED
  BY <1>1 DEF Merged

LEMMA SbomFields ==
  ASSUME NEW snapshots
  PROVE  LET payload == Sbom(snapshots).payload IN
         /\ DOMAIN payload = PayloadFields
         /\ payload.schema = "sbom"
         /\ payload.components =
              {Merged(Group(snapshots, ref)) : ref \in {c.ref : c \in Candidates(snapshots)}}
         /\ payload.workspaces = {WorkspaceReport(snapshots[i]) : i \in DOMAIN snapshots}
BY DEF Sbom, Sealed, PayloadFields, Group

(* A component has the reference of its group, so references are unique.      *)
LEMMA ComponentOfGroup ==
  ASSUME NEW snapshots, NEW c \in Sbom(snapshots).payload.components
  PROVE  /\ c = Merged(Group(snapshots, c.ref))
         /\ Group(snapshots, c.ref) # {}
<1>1. PICK ref \in {d.ref : d \in Candidates(snapshots)} : c = Merged(Group(snapshots, ref))
  BY SbomFields
<1>2. Group(snapshots, ref) # {}
  BY DEF Group
<1>3. PICK some \in Group(snapshots, ref) : c.ref = some.ref
  BY <1>1, <1>2, MergedFields
<1>4. c.ref = ref
  BY <1>3 DEF Group
<1>. QED
  BY <1>1, <1>2, <1>4

LEMMA LockedSbom ==
  ASSUME NEW snapshots, BuildsSbom(snapshots)
  PROVE  Locked(Sbom(snapshots).payload)
<1> DEFINE payload == Sbom(snapshots).payload
<1> SUFFICES ASSUME NEW c \in payload.components, c.source = "registry", NEW scope \in c.scopes
             PROVE  \E w \in payload.workspaces :
                      /\ w.scope = scope
                      /\ \E entry \in Elements(w.lockfile.sha256.entries) :
                           LockKey(entry) = LockKey(c) /\ entry.checksum = c.checksum
  BY DEF Locked
<1> DEFINE group == Group(snapshots, c.ref)
<1>1. c = Merged(group) /\ group # {}
  BY ComponentOfGroup
<1>2. PICK some \in group :
        /\ c.ref = some.ref /\ c.name = some.name /\ c.version = some.version
        /\ c.source = some.source /\ c.checksum = some.checksum
        /\ c.scopes = {d.scope : d \in group}
  BY <1>1, MergedFields
<1>3. PICK d \in group : d.scope = scope
  BY <1>2
<1>4. /\ some \in Candidates(snapshots) /\ d \in Candidates(snapshots)
      /\ some.ref = c.ref /\ d.ref = c.ref
  BY DEF Group
<1>5. d.checksum = c.checksum
  BY <1>2, <1>4 DEF BuildsSbom, Agree
<1>6. PICK i \in DOMAIN snapshots : \E id \in DOMAIN snapshots[i].metadata.packages :
        d = Candidate(snapshots[i], id)
  BY <1>4 DEF Candidates
<1>61. PICK id \in DOMAIN snapshots[i].metadata.packages : d = Candidate(snapshots[i], id)
  BY <1>6
<1>7. PICK j \in DOMAIN snapshots : \E jd \in DOMAIN snapshots[j].metadata.packages :
        some = Candidate(snapshots[j], jd)
  BY <1>4 DEF Candidates
<1>71. PICK jd \in DOMAIN snapshots[j].metadata.packages : some = Candidate(snapshots[j], jd)
  BY <1>7
<1> DEFINE package == snapshots[i].metadata.packages[id]
           lockfile == snapshots[i].lockfile
<1>8. /\ d.ref = Ref(package) /\ d.checksum = Checksum(lockfile, package)
      /\ d.scope = snapshots[i].scope
  BY <1>61, CandidateFields
<1>9. /\ some.ref = Ref(snapshots[j].metadata.packages[jd])
      /\ some.name = snapshots[j].metadata.packages[jd].name
      /\ some.version = snapshots[j].metadata.packages[jd].version
      /\ some.source = snapshots[j].metadata.packages[jd].source
  BY <1>71, CandidateFields
<1> DEFINE other == snapshots[j].metadata.packages[jd]
<1>10. package.name = c.name /\ package.version = c.version /\ package.source = c.source
  <2>1. Ref(package) = Ref(other)
    BY <1>4, <1>8, <1>9
  <2>2. package.name = other.name /\ package.version = other.version
        /\ package.source = other.source
    BY <2>1, RefFields
  <2>. QED
    BY <1>2, <1>9, <2>2
<1>11. IdentityOK(lockfile, package)
  BY DEF BuildsSbom, SnapshotOK
<1>12. PICK entry \in Elements(lockfile.entries) :
         LockKey(entry) = LockKey(package) /\ entry.checksum = Checksum(lockfile, package)
  BY <1>10, <1>11, ChecksumOfEntry
<1>13. LockKey(package) = LockKey(c)
  BY <1>10 DEF LockKey
<1> DEFINE w == WorkspaceReport(snapshots[i])
<1>14. w \in payload.workspaces
  BY SbomFields
<1>15. w.scope = scope /\ w.lockfile.sha256 = lockfile
  BY <1>3, <1>8 DEF WorkspaceReport, Digest
<1>. QED
  BY <1>5, <1>8, <1>12, <1>13, <1>14, <1>15

LEMMA SbomIsSource ==
  ASSUME NEW snapshots, BuildsSbom(snapshots)
  PROVE  SourceSbom(Sbom(snapshots))
BY SbomFields, ComponentOfGroup, LockedSbom DEF SourceSbom

-----------------------------------------------------------------------------
(* The review.  An executable kind of a component is a discovered key, which  *)
(* Unambiguous leaves to that component alone.                                *)
LEMMA DiscoveredIs ==
  ASSUME NEW components, Unambiguous(components),
         NEW key \in DiscoveredKeys(components)
  PROVE  /\ Discovered(components)[key] \in Executables(components, key)
         /\ \A c \in Executables(components, key) : Discovered(components)[key] = c
<1>1. PICK c \in components : key \in {SurfaceKey(c, kind) : kind \in c.kinds \cap ExecutableKinds}
  BY DEF DiscoveredKeys
<1>2. c \in Executables(components, key)
  BY <1>1 DEF Executables
<1>3. Discovered(components)[key] = CHOOSE d \in Executables(components, key) : TRUE
  BY DEF Discovered
<1>4. Discovered(components)[key] \in Executables(components, key)
  BY <1>2, <1>3
<1>. QED
  BY <1>4 DEF Unambiguous

LEMMA ReviewedFields ==
  ASSUME NEW sbom, NEW surface, DOMAIN sbom.payload = PayloadFields
  PROVE  LET payload == Reviewed(sbom, surface) IN
         /\ payload.schema = sbom.payload.schema
         /\ payload.components = sbom.payload.components
         /\ payload.workspaces = sbom.payload.workspaces
         /\ payload.reviewed =
              {[ref |-> Discovered(sbom.payload.components)[DeclaredKey(record)].ref,
                kind |-> record.kind, scopes |-> record.scopes] :
               record \in Elements(surface.records)}
BY DEF Reviewed, PayloadFields

LEMMA ReviewFinishes ==
  ASSUME NEW sbom, NEW surface, SourceSbom(sbom), SurfaceOK(surface, sbom.payload.components)
  PROVE  FinishedSbom(ReviewedSbom(sbom, surface))
<1> DEFINE components == sbom.payload.components
           payload == Reviewed(sbom, surface)
           Result(record) == [ref |-> Discovered(components)[DeclaredKey(record)].ref,
                              kind |-> record.kind, scopes |-> record.scopes]
<1>1. /\ payload.schema = "sbom"
      /\ payload.components = components
      /\ payload.workspaces = sbom.payload.workspaces
      /\ payload.reviewed = {Result(record) : record \in Elements(surface.records)}
  BY ReviewedFields DEF SourceSbom
<1>2. Locked(payload)
  BY <1>1 DEF SourceSbom, Locked
<1>3. Unambiguous(components) /\ ReviewsExactly(surface, components)
  BY DEF SurfaceOK
<1>4. ASSUME NEW record \in Elements(surface.records)
      PROVE  LET c == Discovered(components)[DeclaredKey(record)] IN
             /\ c \in components
             /\ record.scopes = c.scopes
             /\ \A d \in Executables(components, DeclaredKey(record)) : c = d
  <2>1. DeclaredKey(record) \in DiscoveredKeys(components)
    BY <1>3 DEF ReviewsExactly
  <2>. QED
    BY <1>3, <2>1, DiscoveredIs DEF ReviewsExactly, Executables
<1>5. FullyReviewed(payload)
  <2> SUFFICES ASSUME NEW c \in components, NEW kind \in c.kinds \cap ExecutableKinds
               PROVE  \E record \in payload.reviewed :
                        /\ record = [ref |-> c.ref, kind |-> kind, scopes |-> c.scopes]
                        /\ \A other \in payload.reviewed :
                             other.ref = c.ref /\ other.kind = kind => other = record
    BY <1>1 DEF FullyReviewed
  <2> DEFINE key == SurfaceKey(c, kind)
  <2>1. key \in DiscoveredKeys(components) /\ c \in Executables(components, key)
    BY DEF DiscoveredKeys, Executables
  <2>2. PICK record \in Elements(surface.records) : DeclaredKey(record) = key
    BY <1>3, <2>1 DEF ReviewsExactly
  <2>3. record.kind = kind
    BY <2>2 DEF DeclaredKey, SurfaceKey
  <2>4. Discovered(components)[DeclaredKey(record)] = c /\ record.scopes = c.scopes
    BY <1>4, <2>1, <2>2
  <2>5. Result(record) = [ref |-> c.ref, kind |-> kind, scopes |-> c.scopes]
    BY <2>3, <2>4
  <2>6. ASSUME NEW other \in payload.reviewed, other.ref = c.ref, other.kind = kind
        PROVE  other = [ref |-> c.ref, kind |-> kind, scopes |-> c.scopes]
    <3>1. PICK twin \in Elements(surface.records) : other = Result(twin)
      BY <1>1
    <3> DEFINE d == Discovered(components)[DeclaredKey(twin)]
    <3>2. other = [ref |-> d.ref, kind |-> twin.kind, scopes |-> twin.scopes]
      BY <3>1
    <3>3. d \in components /\ d.ref = c.ref /\ twin.kind = kind /\ twin.scopes = d.scopes
      BY <1>4, <2>6, <3>2
    <3>4. d = c
      BY <3>3 DEF SourceSbom
    <3>. QED
      BY <3>2, <3>3, <3>4
  <2>. QED
    BY <1>1, <2>5, <2>6
<1>. QED
  BY <1>1, <1>2, <1>5 DEF FinishedSbom, ReviewedSbom, Sealed

(* The CBOM is bound to the very payload whose digest it carries.             *)
LEMMA RegistryFinishes ==
  ASSUME NEW registry, NEW sbom, FinishedSbom(sbom),
         RegistryOK(registry, sbom.payload.components)
  PROVE  /\ FinishedCbom(Cbom(registry, sbom))
         /\ Cbom(registry, sbom).payload.source = sbom.inventory
<1> DEFINE components == sbom.payload.components
           cbom == Cbom(registry, sbom)
           Bound(record) == [id |-> record.id, domains |-> Elements(record.domains),
                             refs |-> BoundRefs(components, record)]
           bound == UNION {item.refs : item \in cbom.payload.components}
<1>1. /\ cbom.payload.schema = "cbom"
      /\ cbom.payload.source = sbom.inventory
      /\ cbom.payload.components = {Bound(record) : record \in Elements(registry.records)}
  BY DEF Cbom, Sealed
<1>2. cbom.payload.source.sha256 = sbom.payload
  BY <1>1 DEF FinishedSbom, Digest
<1>3. bound = UNION {BoundRefs(components, record) : record \in Elements(registry.records)}
  <2>1. ASSUME NEW record
        PROVE  Bound(record).refs = BoundRefs(components, record)
    OBVIOUS
  <2> HIDE DEF Bound
  <2>. QED
    BY <1>1, <2>1
<1>4. bound \subseteq {c.ref : c \in components}
  BY <1>3 DEF BoundRefs
<1>5. ASSUME NEW c \in Recognizable(components)
      PROVE  c.ref \in bound
  <2>1. NameVersion(c) \in Covered(registry.records)
    BY DEF RegistryOK
  <2>2. PICK record \in Elements(registry.records) : NameVersion(c) \in Elements(record.packages)
    BY <2>1 DEF Covered
  <2>3. c.ref \in BoundRefs(components, record)
    BY <2>2 DEF BoundRefs, Recognizable
  <2>. QED
    BY <1>3, <2>3
<1>. QED
  BY <1>1, <1>2, <1>4, <1>5 DEF FinishedCbom, IsBoundTo

-----------------------------------------------------------------------------
(* Steps that write no file and report no success keep what is on disk, and   *)
(* only what the run then holds is left to show.                              *)
OnlyFinished(reports) ==
  \A path \in DOMAIN reports :
    reports[path] = Torn \/ FinishedSbom(reports[path]) \/ FinishedCbom(reports[path])

LEMMA Failing ==
  ASSUME Fail, OnlyFinished(disk')
  PROVE  BomInv'
BY DEF Fail, BomInv, HeldReports, PassedPair, OnlyFinished

LEMMA Continuing ==
  ASSUME BomInv, HeldReports', run'.stage # "ended", UNCHANGED disk
  PROVE  BomInv'
BY DEF BomInv, PassedPair, FinishedSbom, FinishedCbom

LEMMA KeptDisk ==
  ASSUME BomInv, UNCHANGED disk
  PROVE  OnlyFinished(disk')
BY DEF BomInv, OnlyFinished

LEMMA WrittenDisk ==
  ASSUME BomInv, NEW path, NEW report, disk' = Written(path, report),
         report = Torn \/ FinishedSbom(report) \/ FinishedCbom(report)
  PROVE  OnlyFinished(disk')
BY DEF BomInv, OnlyFinished, Written

LEMMA InitStep == Init => BomInv
BY DEF Init, BomInv, HeldReports, PassedPair

LEMMA StutterStep ==
  ASSUME BomInv, UNCHANGED <<run, disk>>
  PROVE  BomInv'
BY DEF BomInv, HeldReports, PassedPair, SourceSbom, FinishedSbom, FinishedCbom

LEMMA StartStep ==
  ASSUME BomInv, NEW arguments, Start(arguments)
  PROVE  BomInv'
<1>1. run'.stage = "metadata" /\ UNCHANGED disk
  BY DEF Start, Capturing
<1>. QED
  BY <1>1, Continuing DEF HeldReports

LEMMA CaptureMetadataStep ==
  ASSUME BomInv, CaptureMetadata
  PROVE  BomInv'
<1>1. Fail \/ run'.stage = "lockfile"
  BY DEF CaptureMetadata
<1>2. UNCHANGED disk
  BY DEF CaptureMetadata
<1>. QED
  BY <1>1, <1>2, Failing, KeptDisk, Continuing DEF HeldReports

LEMMA ReadLockfileStep ==
  ASSUME BomInv, ReadLockfile
  PROVE  BomInv'
<1>1. Fail \/ run'.stage \in {"build", "metadata"}
  BY DEF ReadLockfile, Capturing
<1>2. UNCHANGED disk
  BY DEF ReadLockfile
<1>. QED
  BY <1>1, <1>2, Failing, KeptDisk, Continuing DEF HeldReports

LEMMA BuildSbomStep ==
  ASSUME BomInv, BuildSbom
  PROVE  BomInv'
<1>1. UNCHANGED disk
  BY DEF BuildSbom
<1>2. CASE ~BuildsSbom(run.snapshots)
  BY <1>1, <1>2, Failing, KeptDisk DEF BuildSbom
<1>3. CASE BuildsSbom(run.snapshots)
  <2>1. run'.stage = "review" /\ run'.sbom = Sbom(run.snapshots)
    BY <1>3 DEF BuildSbom, Holding
  <2>2. SourceSbom(run'.sbom)
    BY <1>3, <2>1, SbomIsSource
  <2>. QED
    BY <1>1, <2>1, <2>2, Continuing DEF HeldReports, SourceSbom, Locked
<1>. QED
  BY <1>2, <1>3

LEMMA ApplyPolicyStep ==
  ASSUME BomInv, ApplyPolicy
  PROVE  BomInv'
<1> DEFINE passes == SurfaceOK(policy, run.sbom.payload.components)
<1>1. UNCHANGED disk
  BY DEF ApplyPolicy
<1>2. CASE ~passes
  BY <1>1, <1>2, Failing, KeptDisk DEF ApplyPolicy
<1>3. CASE passes
  <2>1. run'.stage = "bind" /\ run'.sbom = ReviewedSbom(run.sbom, policy)
    BY <1>3 DEF ApplyPolicy, Holding
  <2>2. SourceSbom(run.sbom)
    BY DEF ApplyPolicy, BomInv, HeldReports
  <2>3. FinishedSbom(run'.sbom)
    BY <1>3, <2>1, <2>2, ReviewFinishes
  <2>. QED
    BY <1>1, <2>1, <2>3, Continuing DEF HeldReports, FinishedSbom
<1>. QED
  BY <1>2, <1>3

LEMMA BuildCbomStep ==
  ASSUME BomInv, BuildCbom
  PROVE  BomInv'
<1> DEFINE passes == RegistryOK(cryptography, run.sbom.payload.components)
<1>1. UNCHANGED disk
  BY DEF BuildCbom
<1>2. CASE ~passes
  BY <1>1, <1>2, Failing, KeptDisk DEF BuildCbom
<1>3. CASE passes
  <2>1. /\ run'.stage = "write_sbom" /\ run'.sbom = run.sbom
        /\ run'.cbom = Cbom(cryptography, run.sbom)
    BY <1>3 DEF BuildCbom
  <2>2. FinishedSbom(run.sbom)
    BY DEF BuildCbom, BomInv, HeldReports
  <2>3. FinishedCbom(run'.cbom) /\ run'.cbom.payload.source = run'.sbom.inventory
    BY <1>3, <2>1, <2>2, RegistryFinishes
  <2>. QED
    BY <1>1, <2>1, <2>2, <2>3, Continuing DEF HeldReports, FinishedSbom, FinishedCbom
<1>. QED
  BY <1>2, <1>3

LEMMA WriteSbomStep ==
  ASSUME BomInv, WriteSbom
  PROVE  BomInv'
<1> DEFINE path == run.arguments.sbom
<1>1. /\ FinishedSbom(run.sbom) /\ FinishedCbom(run.cbom)
      /\ run.cbom.payload.source = Digest(run.sbom.payload)
  BY DEF WriteSbom, BomInv, HeldReports, FinishedSbom
<1>2. CASE path \notin Writable
  BY <1>2, Failing, KeptDisk DEF WriteSbom
<1>3. CASE path \in Writable
  <2>1. /\ disk' = Written(path, run.sbom)
        /\ run'.stage = "write_cbom" /\ run'.cbom = run.cbom /\ run'.arguments = run.arguments
    BY <1>3 DEF WriteSbom
  <2>2. path \in DOMAIN disk' /\ disk'[path] = run.sbom
    BY <2>1 DEF Written
  <2>3. OnlyFinished(disk')
    BY <1>1, <2>1, WrittenDisk
  <2>4. HeldReports'
    BY <1>1, <2>1, <2>2 DEF HeldReports, FinishedCbom
  <2>. QED
    BY <2>1, <2>3, <2>4 DEF BomInv, PassedPair, OnlyFinished
<1>. QED
  BY <1>2, <1>3

LEMMA WriteCbomStep ==
  ASSUME BomInv, WriteCbom
  PROVE  BomInv'
<1> DEFINE path == run.arguments.cbom
           kept == run.arguments.sbom
<1>1. /\ FinishedCbom(run.cbom) /\ kept \in DOMAIN disk
      /\ run.cbom.payload.source = Digest(disk[kept].payload)
  BY DEF WriteCbom, BomInv, HeldReports
<1>2. CASE path \notin Writable
  BY <1>2, Failing, KeptDisk DEF WriteCbom
<1>3. CASE path \in Writable
  <2>1. /\ disk' = Written(path, run.cbom)
        /\ run'.stage = "ended" /\ run'.arguments = run.arguments
    BY <1>3 DEF WriteCbom
  <2>2. /\ path \in DOMAIN disk' /\ disk'[path] = run.cbom
        /\ kept \in DOMAIN disk' /\ (kept # path => disk'[kept] = disk[kept])
    BY <1>1, <2>1 DEF Written
  <2>3. OnlyFinished(disk')
    BY <1>1, <2>1, WrittenDisk
  <2>4. PassedPair'
    BY <1>1, <2>1, <2>2 DEF PassedPair
  <2>5. HeldReports'
    BY <2>1 DEF HeldReports
  <2>. QED
    BY <2>3, <2>4, <2>5 DEF BomInv, OnlyFinished
<1>. QED
  BY <1>2, <1>3

LEMMA TornWriteStep ==
  ASSUME BomInv, TornWrite
  PROVE  BomInv'
<1>1. PICK path : disk' = Written(path, Torn)
  BY DEF TornWrite
<1>2. OnlyFinished(disk')
  BY <1>1, WrittenDisk
<1>. QED
  BY <1>2, Failing DEF TornWrite

LEMMA CrashStep ==
  ASSUME BomInv, Crash
  PROVE  BomInv'
BY Failing, KeptDisk DEF Crash

LEMMA NextStep == BomInv /\ [Next]_vars => BomInv'
<1> SUFFICES ASSUME BomInv, [Next]_vars
             PROVE  BomInv'
  OBVIOUS
<1>1. ASSUME NEW scope \in Scopes, NEW content \in Workspaces[scope], EditWorkspace(scope, content)
      PROVE  BomInv'
  BY <1>1, StutterStep DEF EditWorkspace
<1>2. ASSUME NEW surface, NEW registry, EditRegistries(surface, registry)
      PROVE  BomInv'
  BY <1>2, StutterStep DEF EditRegistries
<1>3. CASE UNCHANGED vars
  BY <1>3, StutterStep DEF vars
<1>4. ASSUME NEW arguments, Start(arguments)
      PROVE  BomInv'
  BY <1>4, StartStep
<1>5. CASE CaptureMetadata
  BY <1>5, CaptureMetadataStep
<1>6. CASE ReadLockfile
  BY <1>6, ReadLockfileStep
<1>7. CASE BuildSbom
  BY <1>7, BuildSbomStep
<1>8. CASE ApplyPolicy
  BY <1>8, ApplyPolicyStep
<1>9. CASE BuildCbom
  BY <1>9, BuildCbomStep
<1>10. CASE WriteSbom
  BY <1>10, WriteSbomStep
<1>11. CASE WriteCbom
  BY <1>11, WriteCbomStep
<1>12. CASE TornWrite
  BY <1>12, TornWriteStep
<1>13. CASE Crash
  BY <1>13, CrashStep
<1>. QED
  BY <1>1, <1>2, <1>3, <1>4, <1>5, <1>6, <1>7, <1>8, <1>9, <1>10, <1>11, <1>12, <1>13 DEF Next

(* At every stage the run holds reports that are true of one another, and a   *)
(* file on disk is torn or one of the finished reports.                       *)
THEOREM Invariant == Spec => []BomInv
BY InitStep, NextStep, PTL DEF Spec

-----------------------------------------------------------------------------
LEMMA DiskSbom ==
  ASSUME BomInv, NEW sbom \in OnDisk("sbom")
  PROVE  FinishedSbom(sbom)
<1>1. PICK path \in DOMAIN disk : disk[path] = sbom /\ sbom.payload.schema = "sbom"
  BY DEF OnDisk
<1>2. sbom = Torn \/ FinishedSbom(sbom) \/ FinishedCbom(sbom)
  BY <1>1 DEF BomInv
<1>. QED
  BY <1>1, <1>2 DEF Torn, FinishedSbom, FinishedCbom

LEMMA DiskCbom ==
  ASSUME BomInv, NEW cbom \in OnDisk("cbom")
  PROVE  FinishedCbom(cbom)
<1>1. PICK path \in DOMAIN disk : disk[path] = cbom /\ cbom.payload.schema = "cbom"
  BY DEF OnDisk
<1>2. cbom = Torn \/ FinishedSbom(cbom) \/ FinishedCbom(cbom)
  BY <1>1 DEF BomInv
<1>. QED
  BY <1>1, <1>2 DEF Torn, FinishedSbom, FinishedCbom

(* No order of edits and captures lets an SBOM be written whose registry      *)
(* checksums are not those of the lockfiles it names by digest.               *)
THEOREM Checksums == Spec => []LockedComponents
<1>1. BomInv => LockedComponents
  BY DiskSbom DEF LockedComponents, FinishedSbom
<1>. QED
  BY <1>1, Invariant, PTL

(* No SBOM is written that leaves a build script or procedural macro of its   *)
(* own without its one review record.                                         *)
THEOREM ReviewComplete == Spec => []NothingUnreviewed
<1>1. BomInv => NothingUnreviewed
  BY DiskSbom DEF NothingUnreviewed, FinishedSbom
<1>. QED
  BY <1>1, Invariant, PTL

(* Success means that the two files belong together, and a CBOM with the      *)
(* fingerprint of an SBOM owns its cryptography after any failures and kills. *)
THEOREM Pair == Spec => []PairAgrees
<1>1. ASSUME BomInv, NEW cbom \in OnDisk("cbom"), NEW sbom \in OnDisk("sbom"),
             cbom.payload.source = sbom.inventory
      PROVE  IsBoundTo(cbom, sbom)
  <2>1. sbom.inventory = Digest(sbom.payload)
    BY <1>1, DiskSbom DEF FinishedSbom
  <2>2. IsBoundTo(cbom, [payload |-> sbom.payload])
    BY <1>1, <2>1, DiskCbom DEF FinishedCbom, Digest
  <2>. QED
    BY <2>2 DEF IsBoundTo
<1>2. BomInv => PairAgrees
  BY <1>1 DEF PairAgrees, BomInv
<1>. QED
  BY <1>2, Invariant, PTL
=============================================================================
