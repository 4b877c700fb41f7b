-------------------------- MODULE MCBillOfMaterials --------------------------
(* Small instance of BillOfMaterials: a hash function used by both            *)
(* workspaces, a build helper that only fuzzing uses, and contents that are   *)
(* each wrong in one respect.                                                 *)
EXTENDS BillOfMaterials, TLC

Package(name, source, path, kinds, deps) ==
  [name |-> name, version |-> "1", source |-> source, path |-> path, license |-> "MIT",
   kinds |-> kinds, deps |-> deps]

On(pkg) == [pkg |-> pkg, name |-> pkg, kind |-> "normal", target |-> ""]

Zrm == Package("zrm", "none", "Cargo.toml", {"lib"}, <<On("sha2")>>)
FuzzCrate == Package("fuzz", "none", "fuzz/Cargo.toml", {"bin"},
                     <<On("sha2"), [On("libc") EXCEPT !.kind = "build"],
                       [On("libc") EXCEPT !.kind = "build", !.target = "unix"]>>)
Sha2 == Package("sha2", "registry", "none", {"lib"}, <<>>)
Libc == Package("libc", "registry", "none", {"lib", "custom-build"}, <<>>)
LibcFork == Package("libc", "none", "vendor/Cargo.toml", {"lib", "custom-build"}, <<>>)
LibcOutside == Package("libc", "none", "none", {"lib", "custom-build"}, <<>>)
Sha2Fork == Package("sha2", "none", "vendor/Cargo.toml", {"lib"}, <<>>)

Entry(package, checksum) ==
  [name |-> package.name, version |-> "1", source |-> package.source, checksum |-> checksum]

Lockfile(entries) == [form |-> "valid", entries |-> entries]

Metadata(packages, member) == [form |-> "valid", packages |-> packages, members |-> {member}]

Root(metadata, entries) == [metadata |-> metadata, lockfile |-> Lockfile(entries)]

RootPackages == ("zrm" :> Zrm) @@ ("sha2" :> Sha2)
RootMetadata == Metadata(RootPackages, "zrm")
RootLock == <<Entry(Zrm, "none"), Entry(Sha2, "a")>>

FuzzPackages == ("fuzz" :> FuzzCrate) @@ ("sha2" :> Sha2) @@ ("libc" :> Libc)
FuzzMetadata == Metadata(FuzzPackages, "fuzz")
FuzzLock == <<Entry(Sha2, "a"), Entry(Libc, "c")>>

MCWorkspaces ==
  [root |-> {Root(RootMetadata, RootLock),
             Root(RootMetadata, <<Entry(Sha2, "b")>>),
             Root(Metadata(RootPackages @@ ("fork" :> Sha2Fork), "zrm"), RootLock),
             Root(Metadata([RootPackages EXCEPT !["zrm"].deps = <<On("sha2"), On("sha2")>>], "zrm"), RootLock),
             Root(Metadata(RootPackages, "gone"), RootLock),
             Root([form |-> "failed"], <<>>)},
   fuzz |-> {Root(FuzzMetadata, FuzzLock),
             Root(FuzzMetadata, <<Entry(Libc, "c"), Entry(Sha2, "b")>>),
             Root(FuzzMetadata, FuzzLock \o FuzzLock),
             Root(FuzzMetadata, <<Entry(Sha2, "a"), Entry(Libc, "none")>>),
             Root(Metadata(FuzzPackages @@ ("fork" :> LibcFork), "fuzz"), FuzzLock),
             Root(Metadata(FuzzPackages @@ ("one" :> LibcOutside) @@ ("two" :> LibcOutside), "fuzz"), FuzzLock),
             [metadata |-> FuzzMetadata, lockfile |-> [form |-> "unreadable"]]}]

Review(scopes) ==
  [name |-> "libc", version |-> "1", kind |-> "custom-build", scopes |-> scopes, wellFormed |-> TRUE]

Surface(records) == [form |-> "valid", records |-> records]

MCPolicies ==
  {Surface(<<Review({"fuzz"})>>), Surface(<<Review(Scopes)>>), Surface(<<>>),
   Surface(<<Review({"fuzz"}), Review({"fuzz"})>>), [form |-> "foreign"]}

Hash(id, domains) ==
  [id |-> id, packages |-> << <<"sha2", "1">> >>, domains |-> domains, wellFormed |-> TRUE]

Registry(records) == [form |-> "valid", records |-> records]

MCRegistries ==
  {Registry(<<Hash(1, <<"resource">>)>>),
   Registry(<<Hash(1, <<"resource">>), Hash(2, <<"nullifier">>)>>),
   Registry(<<Hash(1, <<"resource">>), Hash(2, <<"resource">>)>>),
   Registry(<<[Hash(1, <<"resource">>) EXCEPT !.packages = << <<"libc", "1">> >>]>>)}

MCArguments == {[sbom |-> "target/sbom.json", cbom |-> "target/cbom.json"],
                [sbom |-> "target/sbom.json", cbom |-> "target/sbom.json"],
                [sbom |-> "target/sbom.json", cbom |-> "docs/cbom.json"]}
MCWritable == {"target/sbom.json", "target/cbom.json"}
=============================================================================
