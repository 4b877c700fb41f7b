# Zeno Resource Machine: TLA+ models, checks and proofs

The Zeno Resource Machine (ZRM) is a set of `no_std` Rust crates and Python
reference models for a resource machine: canonical encodings of resources,
their placement in the roles of a transition, and the policies under which a
verifier may be paid to check something. Around them stand Python gates that
decide whether the repository itself may go on: document checkers, quality
gates over the Rust sources, and the bills of materials. The crates and models
are sequential library code without threads, messages, files or restarts; the
gates read files while people edit them. What makes all of it hard:

- **order**: dozens of checks whose *first* failure is the contract, and
  allocations that must come after all of them;
- **partial failure**: any reservation may be refused by the host, after part
  of the work was done;
- **numeric edges**: u16 counters and ordinals, u64 and u128 charges, length
  constants, inclusive windows, truncated input;
- **sequences of legal calls**: sealed values (bodies, partitions, policies)
  that callers keep and combine later, in any order and any combination;
- **a repository that moves**: a gate reads file after file, then registries of
  approvals that were given for earlier contents; a generator that fails or is
  killed leaves some of its reports from this run and some from the last.

The authority, transition and commit path described in `SPECIFICATION.md`,
`rfcs/` and `formal/` has no code yet and is not modelled: a model of it would
be a translation of documents.

## 1. Inventory

| Component | State it keeps | Operations | What makes it correct |
|---|---|---|---|
| Canonical resource roles (`zrm-kernel/resource_roles.rs`) | three sorted vectors, three counts | `try_new`, `position_of`, getters | first violated condition is the error; nothing allocated before all nine hold; accepted lists are the caller's, sorted, unique, disjoint; lookups exact |
| Resource wire codec (`zrm-codec`) | output buffer; input cursor | `encode`, `decode_resource_wire_v1`, `derive_resource_id` | encode and decode inverse; one wire form per resource; first defect decides the code; no growth past the reservation |
| Intrinsic resources (`zrm-kernel/resource.rs`) | validated fields, identifier | `try_from_wire` | first failing check is reported; the identifier is derived last, from the complete value |
| Role-bound resources (`role_bound_resource.rs`) | body, role, ordinal | `bind_intrinsic` | a position of a partition belongs to one body |
| Machine policy, limits, windows (`zrm-policy/machine.rs`, `limits.rs`, `window.rs`) | validated records | `try_from`, `try_from_pair`, `contains` | checks in documented order, ceilings |
| Verifier policy, cost model (`verifier.rs`, `cost.rs`) | validated records | `try_from`, shape check, reservation and dispatch quotes | quotes exact or refused; reservation covers dispatches; admitted pairs within machine limits |
| Resource-kind policy (`resource_kind.rs`) and its two Python oracles | validated record | `try_from`, `validate_dimensions` | implementation and RFC-0003 oracle agree with reasons; acceptance agrees with the earlier oracle |
| Validation context (`context.rs`), policy errors | record | schema check | |
| Verifier artifacts (`zrm-verifier-api`) | bounded copy | `try_new` | limit before allocation; recheck before dispatch |
| Types and hashing (`zrm-types`, `zrm-crypto`) | values | constructors, digests | nonzero identifiers; domain separation |
| ARM frontier model (`reference_models/arm_zrm_frontier_v1.py`) | summaries; kind tables, certificates, formal points | `singleton`, `compose`; `certify_kind_basis`, `DeltaEquation.point` | partial composition is independent of grouping; a certified root binds |
| Delegation plan checker (`tools/delegation_plan_model.py`, `check_delegation_plan.py`) | tasks loaded; visited and active sets of the search | `load_plan`, `validate_*`, `visit` | finds every cycle and no other; an accepted plan can be completed |
| Conformance checker (`tools/check_conformance.py`) | the same sets | `validate_*`, `visit` | obligations do not block each other for ever |
| Rust quality gates (`tools/check_complexity.py`, `check_code_quality.py`, `rust_complexity.py`, `rust_quality.py`) | the files, exceptions and design decisions read so far; written reports | read, judge, write | nothing passes that no reviewer approved in this content; exception debt is exact |
| Bills of materials (`tools/generate_bom.py`, `bom_*.py`) | captured snapshots; two reports on disk | capture, build, review, bind, write | what is written is locked, reviewed, and the two files belong together |
| Other repository checkers (`check_architecture.py`, `check_coverage.py`, `check_repository_hygiene.py`, `*_package_manifest.py`) | none between files | one pass each | |
| Fuzz targets, vectors, Kani harnesses | none | test drivers | |

How they interact. A `ResourceWireV1` is encoded by the codec, and the hash of
that encoding is the identifier of the resource. `IntrinsicResourceV1` keeps a
validated wire value with its identifier. A transition lists identifiers by
role; `CanonicalResourceRolesV1` sorts them within the limits of a
`PolicyLimitsV1`. `bind_intrinsic` looks the identifier of a body up in such a
partition and stores the position it finds. A machine policy and a verifier
policy, validated separately, are compared for one epoch; the verifier policy
and a cost model then quote a reservation for the largest lengths the policy
allows, and later a charge for each dispatch.

All calls are direct, and all values are immutable once constructed. What is
shared between calls is what the caller keeps.

The gates interact through files. The complexity gate writes a report; a
reviewer reads it and enters exceptions, by the digest of a finding, into
`complexity_exceptions.json`; both Rust gates read that registry on their next
run. The generator asks cargo for the packages of a workspace, reads the
lockfile after it, and binds the two hand-written registries under
`supply-chain/` to what it found; its second report names the fingerprint of
the first.

## 2. Modules

| Module | Models | State and actions |
|---|---|---|
| `RoleTypes` | roles, limits, errors of `resource_roles.rs` | operators only |
| `RolePartition` | what `try_new` promises: one decision at once | `candidate`, `refusing` (what the allocator will say), `decision`; `Decide` |
| `ResourceRoles` | `try_new` and `position_of`, a step per loop iteration | `phase` and `turn` say which loop and role, `cursor` the entry, `counter` the u16 scan; `Reserve`/`FailReserve` the allocator |
| `WireFormat` | the byte format, parameterised by widths and fields | `Encoding` and its parts |
| `CanonicalCodec` | what the codec promises | `sent`, `received`, `result`; `Encode`, `Deliver`, `Decode` |
| `ResourceWire` | `encode`, cursor and decoder, a step per field | `output`/`capacity` against `wire`/`position` |
| `ResourceWire_proofs` | | theorems |
| `RoleBinding` | construction and binding of bodies | `call` (the check in progress), `bodies`, `bound` |
| `Placement_proofs` | `ResourceRoles` and `RoleBinding` together | theorems, and what the second takes from the first |
| `VerifierAdmission` | policies, shape check, quotes, the bounded copy of an artifact | `machine`, `verifier`, `cost`, `admitted`, `reserved`, `held`, `call` |
| `VerifierAdmission_proofs` | | theorems |
| `KindPolicy` | the Rust kind policy beside both oracles | `progress` of each of three deciders; `PassCheck`, `RejectCheck`, `Accept` interleave, `Ask` presents a resource |
| `KindPolicy_proofs` | | theorems |
| `SparseRows` | mappings that keep no zeros: delta rows and coefficients | operators only |
| `SemanticSummary` | `singleton`, `__post_init__`, `compose` | `held`: what callers kept, each with its leaves; `answer`: the last call |
| `KindBasis` | `KindBasis`, `DeltaEquation`, `certify_kind_basis` | `certificates`; one evaluation, a step per row |
| `Frontier_proofs` | `SparseRows`, `SemanticSummary` and `KindBasis` together | theorems, and the sums they share |
| `DependencySearch` | the recursive `visit` of both document checkers, a step per call | `stack` of frames with their loop positions, `visited`, `active`; `Enter`, `SkipVisited`, `Leave`, ..., `ExceedDepth` for Python's recursion limit |
| `DelegationPlan`, `ConformanceMatrix` | the rules of a plan and of a matrix | operators only |
| `DocumentGate` | one run of either checker: the rules in their order around the search | `document`, `stage`, `position`, `entries`; `LoadShard`, `NextTurn`, `EndStage`, `Search`, `Raise`; a search that is too deep crashes the checker |
| `DocumentGate_proofs` | | theorems |
| `QualityRules` | budgets, findings and their identities, quality rules, roles of a path | operators only |
| `QualityGate` | both Rust gates, again and again, in a repository that changes | `tree`, `registry`, `designs` change at any time (`Edit`, `Delete`, `Record`, `Withdraw`, `Garble`); `run` reads file by file (`ReadSource`), then registries, then `Judge`, `WriteReport` or `TearReport` |
| `QualityGate_proofs` | | theorems |
| `BillOfMaterials` | the generator, its validation rules and its two reports | `workspace`, `policy`, `cryptography` change at any time; `run` captures, builds, binds and writes; `Crash` and `TornWrite` at any step; `disk` |
| `BillOfMaterials_proofs` | | theorems |
| `MC*` | instances for TLC | constants only |

Conventions. A chain of early returns is a sequence of named checks with one
step per check (`PassCheck`, `RejectCheck`): a rejection is then a statement
about everything that came before it. Data is reduced to what is compared:
identifiers are numbers (order and equality), a policy is a record of the
fields the checks read, an optional value is a sequence of at most one element.
Operators called "Mutant of ..." are not part of a specification: each is a
variant of the definition below it with a plausible mistake, and the property
named beside it in `PROJECT.json` fails when the definition is replaced by it.

`RoleBinding` takes from `ResourceRoles` that a partition is canonical
(`CanonicalRoles` of `RoleTypes`), as `PartitionsAssumption`, and from hashing
what the documentation of `RoleBoundIntrinsicResourceV1` assumes, that different
wire values have different digests, as `DigestAssumption`. The first is proved
of what `try_new` accepts (`AcceptedArePartitions`); of the second, the half
that is not about SHA-256 is proved of the codec: different resources have
different wire forms (`OneWireForm`).

An artifact is copied under a limit of the caller's own choice, before or after
the policies are validated; only its length is kept (`held`). The registry that
will dispatch it is not written: `DispatchArtifact` is external, and stands for
the recheck that `BoundedArtifactV1::try_new` leaves to it, a quote for
the length of the copy, among the quotes for any lengths that `RequestDispatch` asks for.

The frontier model is Python code with no state of its own: what it returns is
immutable and kept by callers. `SemanticSummary` therefore has the pool of kept
summaries as its state, with the set of singletons each was made from as
history, and `KindBasis` the certificates issued so far. Sorted tuples are sets
once they are known to have no duplicates, and multisets (a count per element)
before; arguments count as sorted, because every constructor that the model
calls sorts them. A root, which is a hash of a canonical rendering, is the
record that is rendered. `LinearPoint.add` and the row sum of `compose` are the
same algorithm, and both are `SumRows`.

The two document checkers share their search and the order of their stages, so
they share a module; a document is what its rules read, with texts, path syntax
and fields that no other rule reads as one flag. The recursion of `visit` is a
stack of frames: a frame is the node and the position its loop has reached,
which is what Python keeps. The failure of any rule raises, and nothing
distinguishes which, so one action `Raise` stands for all of them, guarded by
the negation of the rule at hand.

In `QualityGate` a source is what the scanners of `rust_complexity.py` and
`rust_quality.py` extract from its text, plus the text itself as a value that
only the digest sees (two texts may have the same items). The scanners' own
lexing is not modelled. The identity of a finding is the record that the code
hashes: path, source digest, metric, name and line. `approvals` is a history
variable: what a reviewer has seen in a written report and approved. In
`BillOfMaterials` a digest is the value itself in a box, and the fingerprint of
a report is the digest of the rest of it. Packages are merged as a set of
candidates: the code inserts the first and compares every later one with it,
field by field, which accepts exactly the sets in which all agree. What `cargo
metadata` returns is an input and may differ from the lockfile that is read
after it.

## 3. Runs

| Run | Instance | Shows |
|---|---|---|
| `role_partition` | identifiers 1..5, limits 2/1/3, a u16 that ends at 4; every list up to one over its limit in any order with duplicates and collisions, and lists of 4 to 6 that a cast to u16 would mistake | every property of `ResourceRoles`, the refinement of `RolePartition` down to the role that a refused reservation is reported for, and that calls return |
| `wire_codec` | bytes of three values, two-byte short words, four fields (one of each kind); 24 resources; each encoding intact, or with a byte replaced, removed, truncated or appended; one resource with two faults | the refinement of `CanonicalCodec`, what the cursor guarantees on the way, and the code of the first defect |
| `wire_codec_v1` | the real widths, tags, eighteen fields and lengths; two resources, every truncation, every byte cleared, header faults | the two length constants are exactly what is written, and each of the eighteen fields is answered by the code of the part that is wrong |
| `role_binding` | one good wire value and about forty values one or two fields away from it; three partitions; two bodies, two bound resources | bodies are valid, errors are first errors, both stated on the fields of the wire value; positions unambiguous |
| `verifier_admission` | a u64 of two bits, a u128 of four; policies at, below and above each compared limit; rows that overflow the wide word, the word, a cap or nothing; artifacts and copy limits at, below and above the ceiling | quotes, reservations, shape checks and their order, windows with both their ends, copies within the ceiling |
| `kind_policy` | a u64 that ends at 1, a u128 that ends at 3; policies with one or more faulty fields, quantities on both sides of every limit | agreement with RFC-0003 to the reason, the accept relation, the one narrowing |
| `semantic_summary` | three shards whose rows cancel in pairs, and twelve that clash with them in one binding, action, tag or role; callers keep five summaries | composition is a partial operation on sets of leaves |
| `document_gate` | every graph over three tasks with both orders of every list, crossed with states; chains and cycles of four and five tasks where four nested calls of `visit` are allowed; documents with one fault; matrices of three obligations | the search answers right, or gives up for depth alone; what is accepted is never stuck; every run decides |
| `quality_gate` | one production file with four contents around trigger and preferred budget, sources on which each rule fires, a test; registries that are linked, foreign or undecodable; report writes that fail or tear; two edits, two exceptions, any number of runs | no unreviewed pass, exact debt, an excellent tier that is clean |
| `nested_tests` (violation) | a file in `crates/a/src/tests/` | the two gates disagree on its role: see Findings |
| `bill_of_materials` | two workspaces that share a package, one of which uses another twice (once for one target), each also in versions that are wrong in one respect; five policies, four registries, three pairs of report paths; two edits, any number of runs | what is written is locked, reviewed and paired |
| `kind_basis` | three kinds; honest, known-scalar and related tables, each with and without authentication; all deltas of two kinds in -2..2 with zeros | points are the documented sums; certified roots bind |

Why the bounds are enough. In `ResourceRoles` three lists of three entries are
what a duplicate that is not adjacent, a collision of every pair, and an
insertion before, between and after existing entries need; the short u16 brings
its end within reach of the lists. The codec decides field by field, so one
field of each kind, with its neighbours, meets every interaction of tag, length,
bytes and option tag; the version-one run adds the numbers. In `RoleBinding`
two bound resources are what a violation of `NoSubstitution` or
`PlacementUnique` takes. In `VerifierAdmission` all arithmetic is relative to
the two widths, and the theorems hold for any widths. In `SemanticSummary` five
kept summaries hold three shards and two compositions of them, which is what
both groupings of a triple take; twelve clashing shards give every refusal of
`compose` and of `__post_init__` that a caller can meet. `KindBasis` adds rows
of two kinds, so that cancellation, sharing of a generator and a row without an
entry all happen. The verdicts of `KindPolicy` depend on comparisons only, and
its theorems hold for any widths. In `DocumentGate` three nodes give a
self-loop, a cycle of two and of three, a diamond of lists that meets a
finished node, and a component that an earlier root never reaches; with
`DepthLimit` at four, chains of four and of five stand on both sides of it. In
`QualityGate` two edits are what a change and its reversal around an approval
take; two exceptions give one too many, a duplicate and a stale one. In
`BillOfMaterials` one edit separates cargo's answer from the lockfile or one
workspace from the other, and two let a second run start from a third state.
`MaxBodies`, `MaxBound`, `MaxHeld`, `MaxEdits` and `MaxExceptions` are the
only bounds on history; runs of the gates are not counted.

Deadlock is not checked where the system may stop: a rejected `try_new`, a
decoded or rejected input, a document checker that has decided, a caller that
keeps as many values as the instance allows. It is checked in
`verifier_admission`, `kind_policy`, `kind_basis`, `quality_gate` and
`bill_of_materials`, where someone can always go on.

Properties and operators. A property that uses the operator by which the model
decides cannot see a mistake in that operator, so the properties restate what
they rely on: `StopsAtFirstDefect` has the code of each defect from the form of
the input (`Defect`, `FieldDefect`), `FirstFailureReported` and
`OnlyValidBodies` are stated on the fields and not by `Fails`,
`AdmittedFitsMachine` compares the ends of the windows and not by `Contains`.
One such use is left: `FirstFaultReported` takes the order of the checks from
`Order`, as both are the list that `limits.rs` and `verifier.rs` document.

Fairness. `FairSpec` of `ResourceRoles` has weak fairness of `Step`, the union
of the loop iterations: a function that was called is executed to its return.
Callers owe nothing: no fairness is assumed of `BeginLookup`. `CallsReturn` is
then the termination of the loops. `Spec` of `DocumentGate` has weak fairness
of `Next`: a checker waits for nothing outside its process. `Decides` is then
that every run ends in a verdict, cyclic graphs included, unless the document
has at least as many entries as the interpreter allows nested calls. The other modules
state no liveness: nothing makes people run a gate, and a gate may be killed.

Type invariants. Most modules keep theirs as part of the inductive invariant
that is proved; it is a property of a run of its own only where a plausible
mistake (a cast to u16) would break it first.

### Findings

`nested_tests` finds a divergence between code and documentation.
`_source_role` of `tools/check_code_quality.py` (line 242) asks whether a path
has a `tests` directory before it asks whether it is below `crates/*/src`; the
complexity gate reads every file below `crates/*/src` (`check_complexity.py`,
line 255: "Read every current crate source file"). For a file such as
`crates/a/src/tests/m.rs` with an item above its review trigger the complexity
gate asks for an exception. Without it the quality gate still reports
`excellent-candidate`, although `QUALITY_GATES.md` (line 224) requires that "no
complexity review trigger lacks approval"; with it, the quality gate does not
see the item and rejects the exception as stale. No registry satisfies both
gates. No crate has such a directory at this commit.

Neither document checker catches `RecursionError`: a valid chain of tasks or
obligations deeper than the interpreter allows ends in a traceback instead of a
verdict (`stage = "crashed"`). Nothing in the repository says otherwise, and the
documents at this commit are far shorter; `VerdictOnCycles` and `Decides` say
that nothing shallower is affected and that nothing is accepted for it.

Two limits of the generator that are no contradiction of its documentation,
and that the properties are stated around: a lockfile that is edited between
cargo's answer and its reading may list packages the SBOM does not have
(`LockedComponents` is the other direction, which holds); and with the same
path given for both reports the CBOM replaces the SBOM and the run reports
success (`PairAgrees` is about different paths).

## 4. Theorems

Each proof module shows an inductive invariant (`IInv`, `BindingInv`, `WireInv`,
...) for all values of the constants, one lemma or step per action, and derives
the properties from it. The names are listed under `theorems` in `PROJECT.json`,
each with the property it states. Every assumption is named, stands in the
module that declares the constants, and is evaluated by TLC on the instances of
section 3. TLC checks the inductive
invariants on those instances too, but for conjuncts that quantify over
infinite sets.

`Placement_proofs`, first part: `ResourceRoles` (from `IdsAssumption`,
`LimitAssumption`: each limit is below `u16::MAX`, `CandidatesAssumption`,
`NoIdAssumption`). `IInv` has a conjunct per loop: the conditions passed so far,
in `RolePartition`'s numbering (`ConditionsPassed`); what the duplicate and the
collision scan have covered (`DuplicateScan`, `DisjointScan`); the roles built,
under construction and untouched (`Building`), where the prefix built so far is
sorted, holds the entries passed and everything before `counter` is at most the
entry to insert (`InsertScan`); and what a lookup has excluded (`LookupScan`).
None of the safety properties is inductive: that an accepted list is sorted
follows from the prefix of the insertion scan, that it is duplicate-free from
the scan two loops earlier. Proved: type correctness, `CounterBelowSaturation`,
`AllocationAfterValidation`, `WithinReservation`, `AcceptedIsCanonical`,
`LookupExact`, `OrdinalIsRank` (the entries before an ordinal are counted by a
bijection onto the smaller identifiers), and that the loops implement
`RolePartition` (safety): every step is a `Decide` step or leaves the decision
as it is. The abstract decision is taken at once, but which reservation the
allocator will refuse is settled only when it is asked; both modules therefore
carry `refusing`, a prophecy of the roles that will be refused, chosen at the
call (a reservation of nothing never is). The conjunct `Granted` says that a
role already reserved is not among them, which is how the refinement tells for which role `CapacityUnavailable` is
reported. `StepsAdvance` is the variant of the loops: a step enters a later one
of nineteen loops, passes an entry of the list being walked, or counts one more
entry below `u16::MAX`. It is what `CallsReturn` rests on; the passage from the
variant to the liveness property stays with TLC.

`Placement_proofs`, second part: `RoleBinding` (from `WiresAssumption`,
`DigestAssumption`, `PartitionsAssumption`). `BindingInv` says that a wire value
under construction has passed the checks before the next one, that a bound
resource stands where its partition lists its identifier, and that a body that
was refused is listed nowhere. A canonical partition lists an identifier at one
position (`OnePosition`), and identifiers of bodies determine bodies. Proved:
type correctness, `FirstFailureReported`, `OnlyValidBodies`, `NoSubstitution`,
`PlacementUnique`. The first two speak of zero fields, epochs and flags; that
`Fails`, by which the model decides, amounts to these is part of the proof. Third part, both together: `AcceptedArePartitions` (what
`ResourceRoles` accepts satisfies `PartitionsAssumption`) and
`LookupIsPlacement` (the position that the scan of `position_of` finds step by
step is the only position that `PositionsOf`, which binding uses, has).

`ResourceWire_proofs` (from `FormatAssumption`: tags, counts and lengths fit
their widths; `WireFormsAssumption`: which resources there are, and that the
decoder is given bytes; `LengthsAssumption`: one field is the expiry, and the
two length constants are what the fields add up to). `WireInv` says what the
encoder has written (`Written`), what the cursor has passed and of which
resource (`Passed`), and includes both properties about prefixes; TLC checks it
on both codec instances. `IInv` adds that the fields decoded are field values
(`Leading`), which TLC cannot evaluate, a value being any number or sequence.
The format is defined by recursive functions and by `FlattenSeq`. Induction
with a predicate is out of the provers' reach; `UpTo` states induction with a
set in its place (the numbers of which something holds), from which follow that
such functions exist and satisfy their equations, and then that big-endian
bytes and numbers are inverse, what flattening does to an appended or split
sequence, and how long an encoding is. One lemma inverts a field: what is read
from its form is its value (`FormIsRead`), and what reads as a value stands
there as its form (`ReadIsForm`). Proved: type correctness, `WithinReservation`,
`CanonicalPrefix`, `StopsAtFirstDefect` (what a check refuses is the first of
tag, length, value and option tag that is not as it should be, so the code is
`Defect` of the input), that the codec implements
`CanonicalCodec` (`StrictCodec`: exactly the wire forms are accepted, each as
the resource it encodes), and `OneWireForm`: no wire form of a resource is a
prefix of another's. All hold for any table of fields of the three kinds.

`VerifierAdmission_proofs` (from `WidthAssumption`, `InputAssumption`). `IInv`
says that calls are made on the session's own policies, that the checks passed
have no fault, that the charge so far is the sum of the terms so far
(`ChargeSoFar`), that a refusal is justified by its input
(`RefusalJustified`), and that a copy never exceeds the protocol's ceiling
(`HeldWithinCeiling`). `ReservationCovers` needs it most: a dispatch within the
policy's lengths has each term at most the reservation's, so it passes every
check that the reservation passed. Proved: type correctness,
`FirstFaultReported`, `QuoteExact`, `ReservationCovers`, `AdmittedFitsMachine`
(with `InactiveIsOutside`: only an epoch outside the inclusive window is refused
as inactive).

`KindPolicy_proofs` (from `BoundsAssumption`, `CandidatesAssumption`). `IInv`
says which checks of its chain each decider has passed and that a rejection
names the first fault of the chain. All deciders look at the same faults, so
agreement is a statement about orders: the first fault of the crate's chain is
the first fault of the oracle's longer chain, whose additional checks (types,
and the policy again) cannot fail for what the crate was given. Proved: type
correctness, `AgreesWithRfc0003`, `AdmitsExactly`, `NarrowsLifecycleOnly`.

`Frontier_proofs` begins with rows that keep no zeros: their sum is commutative
and associative (`SumRowsAssociates`), and a sum over the union of two disjoint
finite sets is the sum of the sums (`SumUnion`). The sums are folds; their
equations follow from `FiniteInduction`, which again has a set (of subsets) in
place of the predicate and rests on the well-foundedness of the natural
numbers.

Its second part is about `SemanticSummary` (from `CandidatesAssumption`). `IInv`
says that every kept summary is well formed, has the bindings, actions and tags
of its leaves, and as its delta their net quantities. For well-formed operands
the construction behind `compose` never fails, so a composition is defined
exactly when bindings are equal and actions and tags disjoint; these relations
distribute over unions, and rows are added by an associative operation. Proved:
type correctness, `FlatUnion`, `GroupingIrrelevant`, `RefusalJustified`.

Its third part is about `KindBasis` (from `ResourceKindsAssumption`,
`SymbolsAssumption`: hashing to the curve gives each kind a symbol of its own,
other than the generator; `BasesAssumption`; `DeltasAssumption`: quantities are
integers, of finitely many kinds). `BasisInv` says that every certified root has
the entries of an honest table (`CertifiedHonest`), that the point so far is the
sum of the rows added (`RowsAdded`), and that under an honest table the
coefficient of a kind's symbol is the net quantity of the kind as soon as its
row was added (`RowsReadable`). A point without symbols other than the
generator then has no rows. Proved: type correctness, `PointIsDelta`,
`CertifiedRootBinds`.

`DocumentGate_proofs` (from `DocumentsAssumption`: lists are lists and
identifiers are the numbers they stand for, `ObligationCountAssumption`, and
`DepthLimitAssumption`: at least one call is allowed). For the
search, `SearchInv` says that the frames are a path of the graph
without repetition and the active nodes are those on it, that everything a
frame has passed is finished, that finished nodes are closed under dependencies
and contain no set in which each depends on another of the set (a `Knot`), and
that the roots already tried are finished. An edge to an active node closes a
cycle of the path; when all roots are done, no `Knot` is left. A path without
repetition is no longer than there are nodes, so a search that gives up for
depth has a document with at least `DepthLimit` entries. `GateInv` adds
what the stages before and after the search have established of the entries.
That an accepted plan is not stuck then follows from acyclicity by taking the
set of incomplete tasks. Proved: `VerdictOnCycles`, `AcceptedCanProgress`,
`BlockedIsGrounded`, and the variant of a run, `RunsAdvance`: a step enters a
later stage, takes one of the turns its loop has, or advances the search, which
means that a node is finished, or entered with as many finished, or a loop over
a list moves on. `Decides` rests on it in the same way.

`QualityGate_proofs` (from `SourcesAssumption`). The inductive invariant follows an approval: an
approved entry of the registry has a finding that a reviewer saw, the copy a
gate holds stays a copy of such a registry, a report that passes has each item
above its trigger among the entries of that copy, and the identity of a finding
determines the finding. It does not matter what was edited in between, which is
why no part of it mentions when a file was read. Proved: `PassIsReviewed`,
`DebtIsExact`, `ExcellentIsClean`.

`BillOfMaterials_proofs` (no assumptions: scopes, policies and registries are
whatever people write). `BomInv` says what a run holds at each stage
(`HeldReports`): an SBOM whose components are locked before review, a reviewed
one after it, a CBOM bound to it; and that each file on disk is torn, a finished
SBOM or a finished CBOM, where a CBOM is bound to the payload whose digest it
carries, wherever that SBOM may be. The last part is what makes it inductive
across crashes, torn writes and runs over one another's files. Proved:
`LockedComponents`, `NothingUnreviewed`, `PairAgrees`.

Every invariant that a run checks is stated by a theorem, and so are the two
refinements. Model-checked only: `CallsReturn` and `Decides`, because liveness
under fairness is out of the prover's reach, although the variants are proved:
a step that changes the variant is not a stuttering step, but that one is taken
whenever a call has not returned is `ENABLED`, which cannot be proved here. The
violation of `nested_tests` is a trace of TLC and needs no proof.

## 5. Plan

1. `ResourceRoles` with `RolePartition`, proofs: done.
2. `ResourceWire` with `CanonicalCodec`, proofs: done.
3. `RoleBinding`, proofs: done, with its two assumptions traced to
   `ResourceRoles` and `ResourceWire`.
4. `VerifierAdmission`, proofs: done.
5. `KindPolicy`, proofs: done.
6. `SemanticSummary` and `KindBasis` over `SparseRows`, proofs: done. Left: the
   two scalar carriers, of which only the total one is associative, and proof
   trees whose root depends on the grouping while the semantic root does not.
7. `DocumentGate` over `DependencySearch`, `DelegationPlan` and
   `ConformanceMatrix`, proofs: done.
8. `QualityGate` over `QualityRules`, proofs: done.
9. `BillOfMaterials`, proofs: done.
10. The bounded copy of an artifact in `VerifierAdmission`, proofs: done. Once
    a dispatcher is written, `DispatchArtifact` is to follow its code.
11. The lexical scanner of `rust_complexity.py` (comments, raw strings,
    lifetimes against character literals) as a machine over characters.

## 6. Not modelled, and why

Numeric reject codes, error wording and getters (data without control);
SHA-256, domain-separation strings and nullifier bytes (an injective digest
stands for them); the lexical scanners of the Rust gates (their measurements
are inputs of `QualityGate`); the formatting of reports; checks that read each
file once and keep nothing between files (`check_architecture.py`,
`check_repository_hygiene.py`, `check_coverage.py`, the package manifest); two
generators running at once over the same report paths, which nothing in the
code coordinates and nothing in the documentation promises; the validation context
(one comparison); fuzz and Kani drivers (they exercise the modelled code); the
transition and commit path (no code). Of the frontier model: the explorer's sampling and
report, and the record of hashes `ShieldedTransitionFact`, whose only
operation compares it with another.

Of `derive_resource_id` one error is left out: `HashFrameLengthOverflow` needs a
wire form longer than a `u32` can count, and none has more than 603 bytes.
Python's recursion limit is a number of frames below the interpreter's limit
(1000 unless changed, less the frames of the callers and of `require`); the
model has it as the number of nested calls of `visit` that fit, `DepthLimit`.
The dependency edges of a bill keep name, kind and target, which tell two uses
of one package apart; features and optionality are left out.
