--------------------------- MODULE BillOfMaterials ---------------------------
(***************************************************************************)
(* tools/generate_bom.py: one run captures the two Cargo workspaces, each  *)
(* by asking cargo for its resolved packages and then reading its lockfile,*)
(* builds the source SBOM, binds the review records of everything that     *)
(* executes at build time, binds the cryptography registry to the packages *)
(* and writes the SBOM, then the CBOM.  People edit manifests, lockfiles   *)
(* and registries meanwhile, and a run may fail or be killed anywhere.     *)
(***************************************************************************)
EXTENDS Integers, Sequences, FiniteSets

CONSTANTS
  Workspaces,    (* Scope -> [metadata, lockfile] that an edit may leave.   *)
  Policies,      (* Contents of supply-chain/build_surface.json.            *)
  Registries,    (* Contents of supply-chain/cryptography.json.             *)
  Arguments,     (* [sbom, cbom]: the two report paths of a command line.   *)
  Writable,      (* Paths of JSON files beneath target/, through no link.   *)
  CryptoNames,   (* Package names that CRYPTO_PACKAGE_NAME recognizes.      *)
  MaxEdits       (* Bound on edits of workspaces and registries.            *)

VARIABLES
  workspace,     (* Scope -> what cargo would resolve, and the lockfile.    *)
  policy,
  cryptography,
  run,           (* The running generator, or how the last one ended.       *)
  disk,          (* Report path -> the report last written there.           *)
  edits

repository == <<workspace, policy, cryptography, edits>>
vars == <<repository, run, disk>>

ScopeOrder == <<"root", "fuzz">>
Scopes == {"root", "fuzz"}
ExecutableKinds == {"custom-build", "proc-macro"}

(* SHA-256 over canonical JSON, taken to be injective.                        *)
Digest(value) == [sha256 |-> value]

Sealed(payload) == [payload |-> payload, inventory |-> Digest(payload)]

Distinct(list) == \A i, j \in DOMAIN list : list[i] = list[j] => i = j
Elements(list) == {list[i] : i \in DOMAIN list}

-----------------------------------------------------------------------------
(* The SBOM of a list of captured snapshots [scope, metadata, lockfile].      *)

(* _lock_checksums: packages without a source are the workspace's own.        *)
External(lockfile) ==
  {i \in DOMAIN lockfile.entries : lockfile.entries[i].source # "none"}

LockKey(package) == <<package.name, package.version, package.source>>

LockOK(lockfile) ==
  /\ lockfile.form = "valid"
  /\ \A i \in External(lockfile) :
       /\ lockfile.entries[i].checksum # "none"
       /\ \A j \in External(lockfile) :
            LockKey(lockfile.entries[i]) = LockKey(lockfile.entries[j]) => i = j

Checksum(lockfile, package) ==
  IF \E i \in External(lockfile) : LockKey(lockfile.entries[i]) = LockKey(package)
  THEN lockfile.entries[CHOOSE i \in External(lockfile) :
                          LockKey(lockfile.entries[i]) = LockKey(package)].checksum
  ELSE "none"

(* _component_identity: a package of the repository is known by its path in   *)
(* it, and by no path when it lies outside; bom_ref is the identity's digest. *)
IsRepository(package) == package.source = "none"

IdentityOK(lockfile, package) ==
  IsRepository(package) \/ (package.source = "registry" /\ Checksum(lockfile, package) # "none")

Ref(package) ==
  Digest([name |-> package.name, version |-> package.version, source |-> package.source,
          path |-> IF IsRepository(package) THEN package.path ELSE "none"])

(* _snapshot_packages: packages are keyed by Cargo's package identifier.      *)
PackagesOK(metadata) ==
  /\ metadata.form = "valid"
  /\ DOMAIN metadata.packages # {}
  /\ metadata.members # {} /\ metadata.members \subseteq DOMAIN metadata.packages
  /\ \A id \in DOMAIN metadata.packages : metadata.packages[id].kinds # {}

(* _add_dependency_edges: a dependency is the package, the name it is used by,*)
(* the kind and the target condition; one package may be used in two ways.    *)
EdgesOK(metadata) ==
  \A id \in DOMAIN metadata.packages :
    LET deps == metadata.packages[id].deps IN
    /\ Distinct(deps)
    /\ \A i \in DOMAIN deps :
         /\ deps[i].pkg \in DOMAIN metadata.packages
         /\ deps[i].kind \in {"normal", "build", "dev"}

Edges(snapshot) ==
  LET packages == snapshot.metadata.packages IN
  UNION {{[scope |-> snapshot.scope, from |-> Ref(packages[id]), to |-> Ref(packages[dep.pkg]),
           name |-> dep.name, kind |-> dep.kind, target |-> dep.target] :
            dep \in Elements(packages[id].deps)} :
         id \in DOMAIN packages}

SnapshotOK(snapshot) ==
  LET packages == snapshot.metadata.packages IN
  /\ LockOK(snapshot.lockfile)
  /\ PackagesOK(snapshot.metadata)
  /\ \A id \in DOMAIN packages : IdentityOK(snapshot.lockfile, packages[id])
  /\ \A id, other \in DOMAIN packages : Ref(packages[id]) = Ref(packages[other]) => id = other
  /\ EdgesOK(snapshot.metadata)

Candidate(snapshot, id) ==
  LET package == snapshot.metadata.packages[id] IN
  [ref |-> Ref(package), name |-> package.name, version |-> package.version,
   source |-> package.source, checksum |-> Checksum(snapshot.lockfile, package),
   license |-> package.license, kinds |-> package.kinds, scope |-> snapshot.scope,
   member |-> id \in snapshot.metadata.members]

Candidates(snapshots) ==
  UNION {{Candidate(snapshots[i], id) : id \in DOMAIN snapshots[i].metadata.packages} :
         i \in DOMAIN snapshots}

(* Mutant: the checksum is not among the fields compared.                     *)
AgreeOnLicense(candidate, other) == candidate.license = other.license

(* _merge_component: what the identity leaves open must be the same in both   *)
(* scopes; target kinds (and activated features, left out) are collected.     *)
Agree(candidate, other) ==
  candidate.checksum = other.checksum /\ candidate.license = other.license

Merged(group) ==
  LET some == CHOOSE c \in group : TRUE IN
  [ref |-> some.ref, name |-> some.name, version |-> some.version, source |-> some.source,
   checksum |-> some.checksum, license |-> some.license,
   kinds |-> UNION {c.kinds : c \in group}, scopes |-> {c.scope : c \in group},
   memberScopes |-> {c.scope : c \in {d \in group : d.member}}]

BuildsSbom(snapshots) ==
  /\ \A i \in DOMAIN snapshots : SnapshotOK(snapshots[i])
  /\ \A c, d \in Candidates(snapshots) : c.ref = d.ref => Agree(c, d)

WorkspaceReport(snapshot) ==
  [scope |-> snapshot.scope, lockfile |-> Digest(snapshot.lockfile),
   members |-> {Ref(snapshot.metadata.packages[id]) : id \in snapshot.metadata.members}]

(* build_sbom and _sbom_report                                                *)
Sbom(snapshots) ==
  LET candidates == Candidates(snapshots) IN
  Sealed([schema |-> "sbom",
          components |-> {Merged({c \in candidates : c.ref = ref}) : ref \in {c.ref : c \in candidates}},
          dependencies |-> UNION {Edges(snapshots[i]) : i \in DOMAIN snapshots},
          workspaces |-> {WorkspaceReport(snapshots[i]) : i \in DOMAIN snapshots},
          reviewed |-> {}, policies |-> {}])

-----------------------------------------------------------------------------
(* apply_build_surface_policy: what runs at build time, by name, version and  *)
(* target kind, against the review records.                                   *)
SurfaceKey(entry, kind) == <<entry.name, entry.version, kind>>

Executables(components, key) ==
  {c \in components : \E kind \in c.kinds \cap ExecutableKinds : SurfaceKey(c, kind) = key}

DiscoveredKeys(components) ==
  UNION {{SurfaceKey(c, kind) : kind \in c.kinds \cap ExecutableKinds} : c \in components}

Discovered(components) ==
  [key \in DiscoveredKeys(components) |-> CHOOSE c \in Executables(components, key) : TRUE]

(* Mutant: a second component of one name and version overwrites the first.   *)
UnambiguousNever(components) == TRUE

Unambiguous(components) ==
  \A key \in DiscoveredKeys(components) : \A c, d \in Executables(components, key) : c = d

DeclaredKey(record) == SurfaceKey(record, record.kind)

DeclaredOK(surface) ==
  /\ surface.form = "valid"
  /\ \A i \in DOMAIN surface.records :
       /\ surface.records[i].wellFormed
       /\ surface.records[i].kind \in ExecutableKinds
       /\ surface.records[i].scopes # {} /\ surface.records[i].scopes \subseteq Scopes
       /\ \A j \in 1 .. i - 1 : DeclaredKey(surface.records[j]) # DeclaredKey(surface.records[i])

ReviewsExactly(surface, components) ==
  /\ {DeclaredKey(record) : record \in Elements(surface.records)} = DiscoveredKeys(components)
  /\ \A record \in Elements(surface.records) :
       record.scopes = Discovered(components)[DeclaredKey(record)].scopes

SurfaceOK(surface, components) ==
  /\ Unambiguous(components)
  /\ DeclaredOK(surface)
  /\ ReviewsExactly(surface, components)

Reviewed(sbom, surface) ==
  [sbom.payload EXCEPT
     !.reviewed = {[ref |-> Discovered(sbom.payload.components)[DeclaredKey(record)].ref,
                    kind |-> record.kind, scopes |-> record.scopes] :
                   record \in Elements(surface.records)},
     !.policies = {Digest(surface)}]

(* Mutant: the fingerprint of the report before its review is kept.           *)
ReviewedSbomStale(sbom, surface) ==
  [payload |-> Reviewed(sbom, surface), inventory |-> sbom.inventory]

ReviewedSbom(sbom, surface) == Sealed(Reviewed(sbom, surface))

-----------------------------------------------------------------------------
(* build_cbom: the cryptography registry against the packages of the SBOM.    *)
NameVersion(component) == <<component.name, component.version>>

(* _sbom_index                                                                *)
Matches(components, package) == {c \in components : NameVersion(c) = package}

(* _bind_implementations                                                      *)
BindsOne(components, packages) ==
  /\ packages # <<>> /\ Distinct(packages)
  /\ \A package \in Elements(packages) : Cardinality(Matches(components, package)) = 1

(* _normalize_component; domains are unique within a record and across them.  *)
RecordOK(components, records, i) ==
  /\ records[i].wellFormed
  /\ \A j \in 1 .. i - 1 : records[j].id # records[i].id
  /\ BindsOne(components, records[i].packages)
  /\ records[i].domains # <<>> /\ Distinct(records[i].domains)
  /\ \A j \in 1 .. i - 1 : Elements(records[j].domains) \cap Elements(records[i].domains) = {}

Covered(records) == UNION {Elements(record.packages) : record \in Elements(records)}

Recognizable(components) == {c \in components : c.name \in CryptoNames}

RegistryOK(registry, components) ==
  /\ registry.form = "valid"
  /\ registry.records # <<>>
  /\ \A i \in DOMAIN registry.records : RecordOK(components, registry.records, i)
  /\ {NameVersion(c) : c \in Recognizable(components)} \subseteq Covered(registry.records)

BoundRefs(components, record) ==
  {c.ref : c \in {d \in components : NameVersion(d) \in Elements(record.packages)}}

Cbom(registry, sbom) ==
  Sealed([schema |-> "cbom", source |-> sbom.inventory, registry |-> Digest(registry),
          components |-> {[id |-> record.id, domains |-> Elements(record.domains),
                           refs |-> BoundRefs(sbom.payload.components, record)] :
                          record \in Elements(registry.records)}])

-----------------------------------------------------------------------------
Init ==
  /\ workspace \in [root : Workspaces["root"], fuzz : Workspaces["fuzz"]]
  /\ policy \in Policies
  /\ cryptography \in Registries
  /\ run = [stage |-> "idle"]
  /\ disk = <<>>
  /\ edits = 0

EditWorkspace(scope, content) ==
  /\ edits < MaxEdits
  /\ edits' = edits + 1
  /\ workspace' = [workspace EXCEPT ![scope] = content]
  /\ UNCHANGED <<policy, cryptography, run, disk>>

EditRegistries(surface, registry) ==
  /\ edits < MaxEdits
  /\ edits' = edits + 1
  /\ policy' = surface
  /\ cryptography' = registry
  /\ UNCHANGED <<workspace, run, disk>>

(* main returns 1: nothing is undone that was written before.                 *)
Fail == run' = [stage |-> "ended", arguments |-> run.arguments, passed |-> FALSE]

Running == run.stage \notin {"idle", "ended"}

(* The process is killed between two steps.                                   *)
Crash ==
  /\ Running
  /\ Fail
  /\ UNCHANGED <<repository, disk>>

Capturing(stage, arguments, snapshots) ==
  [stage |-> stage, arguments |-> arguments, snapshots |-> snapshots]

Start(arguments) ==
  /\ ~Running
  /\ run' = Capturing("metadata", arguments, <<>>)
  /\ UNCHANGED <<repository, disk>>

Scope == ScopeOrder[Len(run.snapshots) + 1]

(* _capture_workspace: cargo metadata --locked --offline, then the lockfile.  *)
CaptureMetadata ==
  /\ run.stage = "metadata"
  /\ LET metadata == workspace[Scope].metadata IN
       IF metadata.form = "failed" THEN Fail
       ELSE run' = [stage |-> "lockfile", arguments |-> run.arguments,
                    snapshots |-> run.snapshots, metadata |-> metadata]
  /\ UNCHANGED <<repository, disk>>

ReadLockfile ==
  /\ run.stage = "lockfile"
  /\ LET lockfile == workspace[Scope].lockfile
         snapshots == Append(run.snapshots,
           [scope |-> Scope, metadata |-> run.metadata, lockfile |-> lockfile]) IN
       IF lockfile.form = "unreadable" THEN Fail
       ELSE run' = Capturing(IF Len(snapshots) = Len(ScopeOrder) THEN "build" ELSE "metadata",
                             run.arguments, snapshots)
  /\ UNCHANGED <<repository, disk>>

Holding(stage, sbom) == [stage |-> stage, arguments |-> run.arguments, sbom |-> sbom]

BuildSbom ==
  /\ run.stage = "build"
  /\ IF BuildsSbom(run.snapshots) THEN run' = Holding("review", Sbom(run.snapshots)) ELSE Fail
  /\ UNCHANGED <<repository, disk>>

(* The policy is read only now.                                               *)
ApplyPolicy ==
  /\ run.stage = "review"
  /\ IF SurfaceOK(policy, run.sbom.payload.components)
     THEN run' = Holding("bind", ReviewedSbom(run.sbom, policy))
     ELSE Fail
  /\ UNCHANGED <<repository, disk>>

BuildCbom ==
  /\ run.stage = "bind"
  /\ IF RegistryOK(cryptography, run.sbom.payload.components)
     THEN run' = [stage |-> "write_sbom", arguments |-> run.arguments, sbom |-> run.sbom,
                  cbom |-> Cbom(cryptography, run.sbom)]
     ELSE Fail
  /\ UNCHANGED <<repository, disk>>

Written(path, report) ==
  [p \in DOMAIN disk \cup {path} |-> IF p = path THEN report ELSE disk[p]]

WriteSbom ==
  /\ run.stage = "write_sbom"
  /\ IF run.arguments.sbom \in Writable
     THEN /\ disk' = Written(run.arguments.sbom, run.sbom)
          /\ run' = [stage |-> "write_cbom", arguments |-> run.arguments, cbom |-> run.cbom]
     ELSE Fail /\ UNCHANGED disk
  /\ UNCHANGED repository

WriteCbom ==
  /\ run.stage = "write_cbom"
  /\ IF run.arguments.cbom \in Writable
     THEN /\ disk' = Written(run.arguments.cbom, run.cbom)
          /\ run' = [stage |-> "ended", arguments |-> run.arguments, passed |-> TRUE]
     ELSE Fail /\ UNCHANGED disk
  /\ UNCHANGED repository

(* A write that fails or is killed has already truncated the file.            *)
Torn == [payload |-> [schema |-> "torn"]]

TornWrite ==
  /\ run.stage \in {"write_sbom", "write_cbom"}
  /\ LET path == IF run.stage = "write_sbom" THEN run.arguments.sbom ELSE run.arguments.cbom IN
       /\ path \in Writable
       /\ disk' = Written(path, Torn)
  /\ Fail
  /\ UNCHANGED repository

Next ==
  \/ \E scope \in Scopes : \E content \in Workspaces[scope] : EditWorkspace(scope, content)
  \/ \E surface \in Policies : EditRegistries(surface, cryptography)
  \/ \E registry \in Registries : EditRegistries(policy, registry)
  \/ \E arguments \in Arguments : Start(arguments)
  \/ CaptureMetadata
  \/ ReadLockfile
  \/ BuildSbom
  \/ ApplyPolicy
  \/ BuildCbom
  \/ WriteSbom
  \/ WriteCbom
  \/ TornWrite
  \/ Crash

Spec == Init /\ [][Next]_vars

-----------------------------------------------------------------------------
OnDisk(schema) == {disk[path] : path \in {p \in DOMAIN disk : disk[p].payload.schema = schema}}

(* What one SBOM says of its own components: a registry component has, in     *)
(* every scope it lists, an entry of the lockfile named by digest.            *)
Locked(payload) ==
  \A c \in payload.components :
    c.source = "registry" =>
      \A scope \in c.scopes : \E w \in payload.workspaces :
        /\ w.scope = scope
        /\ \E entry \in Elements(w.lockfile.sha256.entries) :
             LockKey(entry) = LockKey(c) /\ entry.checksum = c.checksum

(* Whatever of its components executes at build time has one review record.   *)
FullyReviewed(payload) ==
  \A c \in payload.components : \A kind \in c.kinds \cap ExecutableKinds :
    \E record \in payload.reviewed :
      /\ record = [ref |-> c.ref, kind |-> kind, scopes |-> c.scopes]
      /\ \A other \in payload.reviewed :
           other.ref = c.ref /\ other.kind = kind => other = record

(* Whatever is edited between the call of cargo and the reading of a lockfile *)
(* or between the two workspaces: a registry component of a written SBOM has  *)
(* in every scope it lists the checksum of the lockfile that the SBOM names   *)
(* by its digest (DEPENDENCY_POLICY.md: exact registry checksums).            *)
LockedComponents == \A sbom \in OnDisk("sbom") : Locked(sbom.payload)

(* Every build script and every procedural macro of a written SBOM has one    *)
(* review record, for that component and for exactly the scopes it is in.     *)
NothingUnreviewed == \A sbom \in OnDisk("sbom") : FullyReviewed(sbom.payload)

IsBoundTo(cbom, sbom) ==
  LET bound == UNION {record.refs : record \in cbom.payload.components} IN
  /\ bound \subseteq {c.ref : c \in sbom.payload.components}
  /\ \A c \in Recognizable(sbom.payload.components) : c.ref \in bound

(* After a run that reports success the two files belong together; after runs *)
(* that failed or were killed, a CBOM on disk that carries the fingerprint of *)
(* an SBOM on disk owns the cryptography of that very SBOM.                   *)
PassedPair ==
  run.stage = "ended" /\ run.passed /\ run.arguments.sbom # run.arguments.cbom =>
    /\ {run.arguments.sbom, run.arguments.cbom} \subseteq DOMAIN disk
    /\ disk[run.arguments.cbom].payload.source = Digest(disk[run.arguments.sbom].payload)

PairAgrees ==
  /\ PassedPair
  /\ \A cbom \in OnDisk("cbom"), sbom \in OnDisk("sbom") :
       cbom.payload.source = sbom.inventory => IsBoundTo(cbom, sbom)
-----------------------------------------------------------------------------
(* The inductive invariant: what a run holds at each stage, and that a file   *)
(* is torn or one of the finished reports.  A CBOM is bound to the payload    *)
(* whose digest it carries, wherever the SBOM with that payload may be.       *)
PayloadFields == {"schema", "components", "dependencies", "workspaces", "reviewed", "policies"}

SourceSbom(sbom) ==
  /\ DOMAIN sbom.payload = PayloadFields
  /\ sbom.payload.schema = "sbom"
  /\ \A c, d \in sbom.payload.components : c.ref = d.ref => c = d
  /\ Locked(sbom.payload)

FinishedSbom(sbom) ==
  /\ sbom.payload.schema = "sbom"
  /\ sbom.inventory = Digest(sbom.payload)
  /\ Locked(sbom.payload)
  /\ FullyReviewed(sbom.payload)

FinishedCbom(cbom) ==
  /\ cbom.payload.schema = "cbom"
  /\ IsBoundTo(cbom, [payload |-> cbom.payload.source.sha256])

HeldReports ==
  /\ run.stage = "review" => SourceSbom(run.sbom)
  /\ run.stage \in {"bind", "write_sbom"} => FinishedSbom(run.sbom)
  /\ run.stage \in {"write_sbom", "write_cbom"} => FinishedCbom(run.cbom)
  /\ run.stage = "write_sbom" => run.cbom.payload.source = run.sbom.inventory
  /\ run.stage = "write_cbom" =>
       /\ run.arguments.sbom \in DOMAIN disk
       /\ run.cbom.payload.source = Digest(disk[run.arguments.sbom].payload)

BomInv ==
  /\ HeldReports
  /\ PassedPair
  /\ \A path \in DOMAIN disk :
       disk[path] = Torn \/ FinishedSbom(disk[path]) \/ FinishedCbom(disk[path])
=============================================================================
