------------------------- MODULE QualityGate_proofs -------------------------
(***************************************************************************)
(* Proofs about QualityGate, for any repository, any sources and any order *)
(* of edits, approvals and runs.  The argument follows an approval: an     *)
(* approved entry of the registry file has a finding that a reviewer saw;  *)
(* the copy a gate holds stays a copy of such a file; a report that passes *)
(* has every item above its trigger among the entries of that copy; and    *)
(* the identity of a finding determines the finding.                       *)
(***************************************************************************)
EXTENDS QualityGate, TLAPS

Entries(list) == {list[i] : i \in DOMAIN list}

IsFinding(f) == f = [path |-> f.path, source |-> f.source, item |-> f.item]

Supported(entry, seen) ==
  entry.status = "approved" => \E f \in seen : entry.id = FindingId(f)

(* A registry none of whose approvals is invented.                            *)
Backed(list, seen) ==
  /\ list \in Seq(Entries(list))
  /\ \A entry \in Entries(list) : Supported(entry, seen)

(* What a report that was built from a registry has established.              *)
Exact(report, list) ==
  /\ \A i \in DOMAIN list :
       /\ list[i].status = "approved"
       /\ \E f \in report.review : list[i].id = FindingId(f)
       /\ \A j \in 1 .. i - 1 : list[j].id # list[i].id
  /\ report.status = "pass" =>
       \A f \in report.review : \E i \in DOMAIN list : list[i].id = FindingId(f)

InProduction == {path \in Paths : SourceRole(path) = "production_with_embedded_assurance"}

Clean(report) ==
  /\ IsTree(report.sources)
  /\ report.gate = "quality" /\ report.tier = "excellent-candidate" =>
       /\ Findings(Restricted(report.sources, InProduction)) = {}
       /\ QualityFindings(report.sources) = {}

FindingsOnly(report) == \A f \in report.review : IsFinding(f)

Stages == {"idle", "sources", "registry", "designs", "judge", "write", "ended"}

FilesInv ==
  /\ IsTree(tree)
  /\ Backed(registry.exceptions, approvals)
  /\ \A f \in approvals : IsFinding(f)

ReportsInv ==
  /\ reports = [gate \in Gates |-> reports[gate]]
  /\ \A report \in reports["complexity"] : FindingsOnly(report)
  /\ \A report \in reports["quality"] : Clean(report) /\ report.gate = "quality"

RunInv ==
  /\ run.stage \in Stages
  /\ run.stage # "idle" => run.gate \in Gates
  /\ run.stage \in {"sources", "registry", "designs", "judge"} => IsTree(run.sources)
  /\ run.stage \in {"designs", "judge"} => Backed(run.registry.exceptions, approvals)
  /\ run.stage = "write" \/ Passed =>
       /\ FindingsOnly(run.report)
       /\ Backed(run.registry.exceptions, approvals)
       /\ Exact(run.report, run.registry.exceptions)
  /\ run.stage = "write" => Clean(run.report) /\ run.report.gate = run.gate
  /\ Passed => run.report.status = "pass"

GateInv == FilesInv /\ ReportsInv /\ RunInv

-----------------------------------------------------------------------------
(* The identity of a finding determines its file, its content and its item.   *)
LEMMA IdentityBinds ==
  ASSUME NEW f, NEW g, IsFinding(f), IsFinding(g), FindingId(f) = FindingId(g)
  PROVE  f = g
<1>1. FindingId(f).path = f.path /\ FindingId(f).item = f.item /\ FindingId(f).source = f.source
  BY DEF FindingId
<1>2. FindingId(g).path = g.path /\ FindingId(g).item = g.item /\ FindingId(g).source = g.source
  BY DEF FindingId
<1>3. f.path = g.path /\ f.source = g.source /\ f.item = g.item
  BY <1>1, <1>2
<1> QED BY <1>3 DEF IsFinding

LEMMA FindingsAreFindings ==
  ASSUME NEW sources
  PROVE  \A f \in Findings(sources) : IsFinding(f)
<1> SUFFICES ASSUME NEW f \in Findings(sources) PROVE IsFinding(f)
  OBVIOUS
<1>1. PICK path \in DOMAIN sources : \E item : f = [path |-> path, source |-> sources[path], item |-> item]
  BY DEF Findings
<1>2. PICK item : f = [path |-> path, source |-> sources[path], item |-> item]
  BY <1>1
<1> QED BY <1>2 DEF IsFinding

(* A list of approvals stays backed when more findings have been seen.        *)
LEMMA BackedLater ==
  ASSUME NEW list, NEW seen, NEW later, Backed(list, seen), seen \subseteq later
  PROVE  Backed(list, later)
BY DEF Backed, Supported

LEMMA OwnEntries ==
  ASSUME NEW S, NEW list \in Seq(S)
  PROVE  /\ list \in Seq(Entries(list))
         /\ Entries(list) \subseteq S
<1>1. DOMAIN list = 1 .. Len(list) /\ Len(list) \in Nat /\ \A i \in 1 .. Len(list) : list[i] \in S
  OBVIOUS
<1>2. Entries(list) \subseteq S
  BY <1>1 DEF Entries
<1>3. \A i \in 1 .. Len(list) : list[i] \in Entries(list)
  BY <1>1 DEF Entries
<1>4. list = [i \in 1 .. Len(list) |-> list[i]]
  BY <1>1
<1> QED BY <1>1, <1>2, <1>3, <1>4

LEMMA BackedAppend ==
  ASSUME NEW list, NEW seen, NEW entry, Backed(list, seen), Supported(entry, seen)
  PROVE  Backed(Append(list, entry), seen)
<1> DEFINE S == Entries(list) \cup {entry}
<1>1. list \in Seq(S)
  <2>1. list \in Seq(Entries(list))
    BY DEF Backed
  <2> QED BY <2>1
<1>2. Append(list, entry) \in Seq(S)
  BY <1>1
<1>3. Append(list, entry) \in Seq(Entries(Append(list, entry))) /\ Entries(Append(list, entry)) \subseteq S
  BY <1>2, OwnEntries
<1>4. \A e \in S : Supported(e, seen)
  BY DEF Backed
<1> QED BY <1>3, <1>4 DEF Backed

LEMMA BackedWithout ==
  ASSUME NEW list, NEW seen, NEW i \in DOMAIN list, Backed(list, seen)
  PROVE  Backed(SubSeq(list, 1, i - 1) \o SubSeq(list, i + 1, Len(list)), seen)
<1> DEFINE S == Entries(list)
           rest == SubSeq(list, 1, i - 1) \o SubSeq(list, i + 1, Len(list))
<1>1. list \in Seq(S)
  BY DEF Backed
<1>2. i \in 1 .. Len(list) /\ Len(list) \in Nat
  BY <1>1
<1>3. SubSeq(list, 1, i - 1) \in Seq(S)
  BY <1>1, <1>2
<1>4. SubSeq(list, i + 1, Len(list)) \in Seq(S)
  BY <1>1, <1>2
<1>5. rest \in Seq(S)
  BY <1>3, <1>4
<1>6. rest \in Seq(Entries(rest)) /\ Entries(rest) \subseteq S
  BY <1>5, OwnEntries
<1> HIDE DEF rest
<1>7. Backed(rest, seen)
  BY <1>6 DEF Backed
<1> QED BY <1>7 DEF rest

-----------------------------------------------------------------------------
LEMMA InitInv == Init => GateInv
<1> SUFFICES ASSUME Init PROVE GateInv
  OBVIOUS
<1>1. IsTree(tree)
  BY SourcesAssumption DEF Init
<1>2. Backed(registry.exceptions, approvals)
  <2>1. registry.exceptions = <<>>
    BY DEF Init
  <2>2. Entries(<<>>) = {}
    BY DEF Entries
  <2> QED BY <2>1, <2>2 DEF Backed
<1>3. \A f \in approvals : IsFinding(f)
  BY DEF Init
<1>4. ReportsInv
  BY DEF Init, ReportsInv, Gates
<1>5. run.stage = "idle"
  BY DEF Init, Idle
<1>6. RunInv
  BY <1>5 DEF RunInv, Stages, Passed
<1> QED BY <1>1, <1>2, <1>3, <1>4, <1>6 DEF GateInv, FilesInv

(* A change of the repository leaves a running gate what it holds.            *)
LEMMA RunUnderChange ==
  ASSUME RunInv, ReportsInv, UNCHANGED <<run, reports>>, approvals \subseteq approvals'
  PROVE  RunInv' /\ ReportsInv'
<1>1. ReportsInv'
  BY DEF ReportsInv
<1>2. \A list : Backed(list, approvals) => Backed(list, approvals')
  BY BackedLater
<1>3. run' = run
  OBVIOUS
<1>4. Passed' <=> Passed
  BY <1>3 DEF Passed
<1>5. run.stage \in {"designs", "judge"} => Backed(run.registry.exceptions, approvals')
  BY <1>2 DEF RunInv
<1>6. run.stage = "write" \/ Passed => Backed(run.registry.exceptions, approvals')
  BY <1>2 DEF RunInv
<1>7. RunInv'
  BY <1>3, <1>4, <1>5, <1>6 DEF RunInv
<1> QED BY <1>1, <1>7

LEMMA ChangeInv == GateInv /\ Change => GateInv'
<1> SUFFICES ASSUME GateInv, Change PROVE GateInv'
  OBVIOUS
<1> USE DEF GateInv
<1>1. ASSUME NEW path \in Paths, NEW source \in Sources[path], Edit(path, source)
      PROVE  GateInv'
  <2>1. IsSource(source)
    BY SourcesAssumption
  <2>2. IsTree(tree')
    BY <1>1, <2>1 DEF Edit, IsTree, FilesInv
  <2>3. RunInv' /\ ReportsInv'
    BY <1>1, RunUnderChange DEF Edit
  <2>4. FilesInv'
    BY <1>1, <2>2 DEF Edit, FilesInv
  <2> QED BY <2>3, <2>4
<1>2. ASSUME NEW path \in Paths, Delete(path)
      PROVE  GateInv'
  <2>2. IsTree(tree')
    BY <1>2 DEF Delete, IsTree, FilesInv
  <2>3. RunInv' /\ ReportsInv'
    BY <1>2, RunUnderChange DEF Delete
  <2>4. FilesInv'
    BY <1>2, <2>2 DEF Delete, FilesInv
  <2> QED BY <2>3, <2>4
<1>3. ASSUME NEW finding, NEW status, NEW test, Record(finding, status, test)
      PROVE  GateInv'
  <2>1. IsFinding(finding)
    BY <1>3 DEF Record, ReportsInv, FindingsOnly
  <2>2. approvals \subseteq approvals' /\ \A f \in approvals' : IsFinding(f)
    BY <1>3, <2>1 DEF Record, FilesInv
  <2> DEFINE entry == [id |-> FindingId(finding), status |-> status, test |-> test]
  <2>3. Supported(entry, approvals')
    BY <1>3 DEF Record, Supported
  <2>4. Backed(registry.exceptions, approvals')
    BY <2>2, BackedLater DEF FilesInv
  <2>5. Backed(Append(registry.exceptions, entry), approvals')
    <3> HIDE DEF entry
    <3> QED BY <2>3, <2>4, BackedAppend
  <2>6. registry'.exceptions = Append(registry.exceptions, entry)
    BY <1>3 DEF Record
  <2>7. RunInv' /\ ReportsInv'
    BY <1>3, <2>2, RunUnderChange DEF Record
  <2>8. IsTree(tree')
    BY <1>3 DEF Record, FilesInv
  <2>9. FilesInv'
    <3> HIDE DEF entry
    <3> QED BY <2>2, <2>5, <2>6, <2>8 DEF FilesInv
  <2> QED BY <2>7, <2>9
<1>4. ASSUME NEW i \in DOMAIN registry.exceptions, Withdraw(i)
      PROVE  GateInv'
  <2>1. Backed(registry'.exceptions, approvals)
    <3>1. Backed(SubSeq(registry.exceptions, 1, i - 1)
                   \o SubSeq(registry.exceptions, i + 1, Len(registry.exceptions)), approvals)
      BY BackedWithout DEF FilesInv
    <3> QED BY <1>4, <3>1 DEF Withdraw
  <2>2. RunInv' /\ ReportsInv'
    BY <1>4, RunUnderChange DEF Withdraw
  <2>3. FilesInv'
    BY <1>4, <2>1 DEF Withdraw, FilesInv
  <2> QED BY <2>2, <2>3
<1>5. ASSUME NEW form, Garble(form)
      PROVE  GateInv'
  <2>1. registry'.exceptions = registry.exceptions
    BY <1>5 DEF Garble
  <2>2. RunInv' /\ ReportsInv'
    BY <1>5, RunUnderChange DEF Garble
  <2>3. FilesInv'
    BY <1>5, <2>1 DEF Garble, FilesInv
  <2> QED BY <2>2, <2>3
<1> QED BY <1>1, <1>2, <1>3, <1>4, <1>5 DEF Change

-----------------------------------------------------------------------------
(* A gate changes nothing but its own state and, at the end, its report.      *)
LEMMA FilesUnderGate ==
  ASSUME FilesInv, UNCHANGED environment
  PROVE  FilesInv'
BY DEF FilesInv, environment

LEMMA ReportsUnderGate ==
  ASSUME ReportsInv, UNCHANGED reports
  PROVE  ReportsInv'
BY DEF ReportsInv

LEMMA FailInv == GateInv /\ Step /\ Fail /\ run.stage # "idle" => GateInv'
<1> SUFFICES ASSUME GateInv, Step, Fail, run.stage # "idle" PROVE GateInv'
  OBVIOUS
<1>1. run'.stage = "ended" /\ run'.gate = run.gate /\ run'.passed = FALSE
  BY DEF Fail
<1>2. RunInv'
  BY <1>1 DEF GateInv, RunInv, Stages, Passed
<1> QED BY <1>2, FilesUnderGate, ReportsUnderGate DEF GateInv, Step

LEMMA StartInv == ASSUME GateInv, NEW gate \in Gates, NEW argument, Start(gate, argument) PROVE GateInv'
<1>1. run'.stage = "sources" /\ run'.gate = gate /\ run'.sources = <<>>
  BY DEF Start, Reading
<1>2. IsTree(<<>>)
  BY DEF IsTree
<1>3. RunInv'
  BY <1>1, <1>2 DEF RunInv, Stages, Passed
<1> QED BY <1>3, FilesUnderGate, ReportsUnderGate DEF GateInv, Start, Step

LEMMA ReadSourceInv == GateInv /\ ReadSource => GateInv'
<1> SUFFICES ASSUME GateInv, ReadSource PROVE GateInv'
  OBVIOUS
<1> DEFINE path == Head(run.todo)
           sources == [p \in DOMAIN run.sources \cup {path} |->
                         IF p = path THEN tree[path] ELSE run.sources[p]]
<1>1. CASE Fail
  BY <1>1, FailInv DEF ReadSource
<1>2. CASE path \in DOMAIN tree /\ run' = Reading(run.gate, run.argument, Tail(run.todo), sources)
  <2>1. IsTree(sources)
    <3>1. IsTree(tree) /\ IsTree(run.sources)
      BY DEF ReadSource, GateInv, FilesInv, RunInv
    <3> HIDE DEF path
    <3> QED BY <1>2, <3>1 DEF IsTree
  <2> HIDE DEF sources
  <2>2. run'.stage = "sources" /\ run'.gate = run.gate /\ run'.sources = sources
    BY <1>2 DEF Reading
  <2>3. run.gate \in Gates
    BY DEF ReadSource, GateInv, RunInv
  <2>4. RunInv'
    BY <2>1, <2>2, <2>3 DEF RunInv, Stages, Passed
  <2> QED BY <2>4, FilesUnderGate, ReportsUnderGate DEF GateInv, ReadSource, Step
<1> QED BY <1>1, <1>2 DEF ReadSource

LEMMA EndSourcesInv == GateInv /\ EndSources => GateInv'
<1> SUFFICES ASSUME GateInv, EndSources PROVE GateInv'
  OBVIOUS
<1>1. CASE Fail
  BY <1>1, FailInv DEF EndSources
<1>2. CASE run' = Holding("registry", NotRead, NotRead)
  <2>1. run'.stage = "registry" /\ run'.gate = run.gate /\ run'.sources = run.sources
    BY <1>2 DEF Holding
  <2>2. RunInv'
    BY <2>1 DEF EndSources, GateInv, RunInv, Stages, Passed
  <2> QED BY <2>2, FilesUnderGate, ReportsUnderGate DEF GateInv, EndSources, Step
<1> QED BY <1>1, <1>2 DEF EndSources

LEMMA ReadRegistryInv == GateInv /\ ReadRegistry => GateInv'
<1> SUFFICES ASSUME GateInv, ReadRegistry PROVE GateInv'
  OBVIOUS
<1>1. CASE Fail
  BY <1>1, FailInv DEF ReadRegistry
<1>2. CASE run' = Holding(IF run.gate = "complexity" THEN "judge" ELSE "designs", registry, NotRead)
  <2>1. /\ run'.stage \in {"judge", "designs"} /\ run'.gate = run.gate
        /\ run'.sources = run.sources /\ run'.registry = registry
    BY <1>2 DEF Holding
  <2>2. approvals' = approvals
    BY DEF ReadRegistry, Step, environment
  <2>3. Backed(run'.registry.exceptions, approvals')
    BY <2>1, <2>2 DEF GateInv, FilesInv
  <2>4. RunInv'
    BY <2>1, <2>3 DEF ReadRegistry, GateInv, RunInv, Stages, Passed
  <2> QED BY <2>4, FilesUnderGate, ReportsUnderGate DEF GateInv, ReadRegistry, Step
<1> QED BY <1>1, <1>2 DEF ReadRegistry

LEMMA ReadDesignsInv == GateInv /\ ReadDesigns => GateInv'
<1> SUFFICES ASSUME GateInv, ReadDesigns PROVE GateInv'
  OBVIOUS
<1>1. CASE Fail
  BY <1>1, FailInv DEF ReadDesigns
<1>2. CASE run' = Holding("judge", run.registry, designs)
  <2>1. /\ run'.stage = "judge" /\ run'.gate = run.gate
        /\ run'.sources = run.sources /\ run'.registry = run.registry
    BY <1>2 DEF Holding
  <2>2. approvals' = approvals
    BY DEF ReadDesigns, Step, environment
  <2>3. Backed(run'.registry.exceptions, approvals')
    BY <2>1, <2>2 DEF ReadDesigns, GateInv, RunInv
  <2>4. RunInv'
    BY <2>1, <2>3 DEF ReadDesigns, GateInv, RunInv, Stages, Passed
  <2> QED BY <2>4, FilesUnderGate, ReportsUnderGate DEF GateInv, ReadDesigns, Step
<1> QED BY <1>1, <1>2 DEF ReadDesigns

-----------------------------------------------------------------------------
(* What build_report established about the registry it was given.             *)
LEMMA ReportIsExact ==
  ASSUME BuildsReport, Backed(run.registry.exceptions, approvals)
  PROVE  Exact(Report, run.registry.exceptions)
<1> DEFINE list == run.registry.exceptions
           review == ReviewFindings(ComplexitySources)
<1>1. Report.review = review /\ Report.status = Status
  BY DEF Report
<1>2. RegistryOK(run.registry, review)
  BY DEF BuildsReport, BuildsComplexity
<1>3. ASSUME NEW i \in DOMAIN list
      PROVE  /\ list[i].status = "approved"
             /\ \E f \in review : list[i].id = FindingId(f)
             /\ \A j \in 1 .. i - 1 : list[j].id # list[i].id
  <2>1. ExceptionOK(list, i, {FindingId(f) : f \in review})
    BY <1>2 DEF RegistryOK
  <2> HIDE DEF list, review
  <2> QED BY <2>1 DEF ExceptionOK
<1>4. ASSUME Status = "pass", NEW f \in review
      PROVE  \E i \in DOMAIN list : list[i].id = FindingId(f)
  <2>1. Unapproved = {}
    BY <1>4 DEF Status
  <2>2. FindingId(f) \in ApprovedIds(list)
    BY <2>1 DEF Unapproved
  <2> HIDE DEF list, review
  <2> QED BY <2>2 DEF ApprovedIds
<1> HIDE DEF list, review
<1>5. Exact(Report, list)
  BY <1>1, <1>3, <1>4 DEF Exact
<1> QED BY <1>5 DEF list

(* The excellent tier leaves no finding in production code and no rule fired. *)
LEMMA ReportIsClean ==
  ASSUME BuildsReport, IsTree(run.sources), Backed(run.registry.exceptions, approvals)
  PROVE  Clean(Report) /\ FindingsOnly(Report) /\ Report.gate = run.gate
<1>1. /\ Report.gate = run.gate /\ Report.sources = run.sources
      /\ Report.review = ReviewFindings(ComplexitySources)
      /\ run.gate = "quality" => Report.tier = Tier
  BY DEF Report
<1>2. ASSUME run.gate = "quality", Tier = "excellent-candidate"
      PROVE  /\ Findings(Restricted(run.sources, InProduction)) = {}
             /\ QualityFindings(run.sources) = {}
  <2>1. Status = "pass" /\ run.registry.exceptions = <<>> /\ Warnings(ComplexitySources) = {}
    BY <1>2 DEF Tier
  <2>2. Unapproved = {} /\ QualityFindings(run.sources) = {}
    BY <1>2, <2>1 DEF Status
  <2>3. ApprovedIds(run.registry.exceptions) = {}
    BY <2>1 DEF ApprovedIds
  <2>4. ReviewFindings(ComplexitySources) = {}
    BY <2>2, <2>3 DEF Unapproved
  <2>5. Findings(ComplexitySources) = {}
    BY <2>1, <2>4 DEF Warnings
  <2>6. ComplexitySources = Restricted(run.sources, InProduction)
    BY <1>2 DEF ComplexitySources, InProduction
  <2> QED BY <2>2, <2>5, <2>6
<1>3. FindingsOnly(Report)
  BY <1>1, FindingsAreFindings DEF FindingsOnly, ReviewFindings
<1> QED BY <1>1, <1>2, <1>3 DEF Clean

LEMMA JudgeInv == GateInv /\ Judge => GateInv'
<1> SUFFICES ASSUME GateInv, Judge PROVE GateInv'
  OBVIOUS
<1>1. CASE Fail
  BY <1>1, FailInv DEF Judge
<1>2. CASE /\ BuildsReport
           /\ run' = [stage |-> "write", gate |-> run.gate, argument |-> run.argument,
                      report |-> Report, registry |-> run.registry]
  <2>1. /\ run'.stage = "write" /\ run'.gate = run.gate
        /\ run'.report = Report /\ run'.registry = run.registry
    BY <1>2
  <2>2. approvals' = approvals
    BY DEF Judge, Step, environment
  <2>3. Backed(run.registry.exceptions, approvals) /\ IsTree(run.sources) /\ run.gate \in Gates
    BY DEF Judge, GateInv, RunInv
  <2>4. Exact(Report, run.registry.exceptions)
    BY <1>2, <2>3, ReportIsExact
  <2>5. Clean(Report) /\ FindingsOnly(Report) /\ Report.gate = run.gate
    BY <1>2, <2>3, ReportIsClean
  <2>6. RunInv'
    BY <2>1, <2>2, <2>3, <2>4, <2>5 DEF RunInv, Stages, Passed
  <2> QED BY <2>6, FilesUnderGate, ReportsUnderGate DEF GateInv, Judge, Step
<1> QED BY <1>1, <1>2 DEF Judge

LEMMA WriteReportInv == GateInv /\ WriteReport => GateInv'
<1> SUFFICES ASSUME GateInv, WriteReport PROVE GateInv'
  OBVIOUS
<1>1. CASE Fail /\ UNCHANGED reports
  BY <1>1, FailInv DEF WriteReport, Step
<1>2. CASE /\ run' = [stage |-> "ended", gate |-> run.gate, passed |-> Passes(run.report),
                      report |-> run.report, registry |-> run.registry]
           /\ reports' = IF run.argument = NoPath THEN reports
                         ELSE [reports EXCEPT ![run.gate] = {run.report}]
  <2>1. /\ run'.stage = "ended" /\ run'.gate = run.gate /\ run'.passed = Passes(run.report)
        /\ run'.report = run.report /\ run'.registry = run.registry
    BY <1>2
  <2>2. approvals' = approvals
    BY DEF WriteReport, environment
  <2>3. /\ run.gate \in Gates /\ FindingsOnly(run.report)
        /\ Backed(run.registry.exceptions, approvals)
        /\ Exact(run.report, run.registry.exceptions)
        /\ Clean(run.report) /\ run.report.gate = run.gate
    BY DEF WriteReport, GateInv, RunInv
  <2>4. Passes(run.report) => run.report.status = "pass"
    BY DEF Passes
  <2>5. RunInv'
    BY <2>1, <2>2, <2>3, <2>4 DEF RunInv, Stages, Passed
  <2>6. ReportsInv'
    <3>1. CASE run.argument = NoPath
      BY <1>2, <3>1, ReportsUnderGate DEF GateInv
    <3>2. CASE run.argument # NoPath
      <4>1. reports' = [reports EXCEPT ![run.gate] = {run.report}]
        BY <1>2, <3>2
      <4>2. reports = [gate \in Gates |-> reports[gate]]
        BY DEF GateInv, ReportsInv
      <4>3. reports' = [gate \in Gates |-> IF gate = run.gate THEN {run.report} ELSE reports[gate]]
        BY <4>1, <4>2
      <4>4. \A report \in reports'["complexity"] : FindingsOnly(report)
        BY <2>3, <4>3 DEF GateInv, ReportsInv, Gates
      <4>5. \A report \in reports'["quality"] : Clean(report) /\ report.gate = "quality"
        BY <2>3, <4>3 DEF GateInv, ReportsInv, Gates
      <4>6. reports' = [gate \in Gates |-> reports'[gate]]
        BY <4>3
      <4> QED BY <4>4, <4>5, <4>6 DEF ReportsInv
    <3> QED BY <3>1, <3>2
  <2> QED BY <2>5, <2>6, FilesUnderGate DEF GateInv, WriteReport
<1> QED BY <1>1, <1>2 DEF WriteReport

LEMMA TearReportInv == GateInv /\ TearReport => GateInv'
<1> SUFFICES ASSUME GateInv, TearReport PROVE GateInv'
  OBVIOUS
<1>1. /\ run'.stage = "ended" /\ run'.gate = run.gate /\ run'.passed = FALSE
      /\ run.gate \in Gates /\ UNCHANGED environment
  BY DEF TearReport, Fail, GateInv, RunInv
<1>2. RunInv'
  BY <1>1 DEF RunInv, Stages, Passed
<1>3. ReportsInv'
  <2>1. CASE reports' = reports
    BY <2>1, ReportsUnderGate DEF GateInv
  <2>2. CASE reports' = [reports EXCEPT ![run.gate] = {}]
    <3>1. reports = [gate \in Gates |-> reports[gate]]
      BY DEF GateInv, ReportsInv
    <3>2. reports' = [gate \in Gates |-> IF gate = run.gate THEN {} ELSE reports[gate]]
      BY <2>2, <3>1
    <3>3. \A gate \in Gates : reports'[gate] \subseteq reports[gate]
      BY <3>2
    <3> QED BY <3>2, <3>3 DEF GateInv, ReportsInv, Gates
  <2> QED BY <2>1, <2>2 DEF TearReport
<1> QED BY <1>1, <1>2, <1>3, FilesUnderGate DEF GateInv

-----------------------------------------------------------------------------
(* What every reachable state of repository, registry, reports and gate       *)
(* satisfies.                                                                 *)
THEOREM Invariant == Spec => []GateInv
<1>1. Init => GateInv
  BY InitInv
<1>2. GateInv /\ [Next]_vars => GateInv'
  <2> SUFFICES ASSUME GateInv, [Next]_vars PROVE GateInv'
    OBVIOUS
  <2>1. CASE Change
    BY <2>1, ChangeInv
  <2>2. CASE RunGate
    BY <2>2, StartInv, ReadSourceInv, EndSourcesInv, ReadRegistryInv, ReadDesignsInv, JudgeInv,
       WriteReportInv, TearReportInv DEF RunGate
  <2>3. CASE UNCHANGED vars
    <3>1. UNCHANGED <<environment, run, reports>>
      BY <2>3 DEF vars
    <3>2. RunInv' /\ ReportsInv'
      BY <3>1, RunUnderChange DEF GateInv, environment
    <3> QED BY <3>1, <3>2, FilesUnderGate DEF GateInv
  <2> QED BY <2>1, <2>2, <2>3 DEF Next
<1> QED BY <1>1, <1>2, PTL DEF Spec

(* No order of edits, reverts, approvals and runs lets a gate pass over an    *)
(* item above its trigger that no reviewer approved in that very content.     *)
THEOREM ReviewedBeforePass == Spec => []PassIsReviewed
<1>1. GateInv => PassIsReviewed
  <2> SUFFICES ASSUME GateInv, Passed, NEW f \in run.report.review PROVE f \in approvals
    BY DEF PassIsReviewed
  <2> DEFINE list == run.registry.exceptions
  <2>1. Exact(run.report, list) /\ run.report.status = "pass" /\ Backed(list, approvals)
    BY DEF GateInv, RunInv
  <2>2. IsFinding(f)
    BY DEF GateInv, RunInv, FindingsOnly
  <2> HIDE DEF list
  <2>3. PICK i \in DOMAIN list : list[i].id = FindingId(f)
    BY <2>1 DEF Exact
  <2>4. list[i].status = "approved" /\ list[i] \in Entries(list)
    BY <2>1 DEF Exact, Entries
  <2>5. PICK g \in approvals : list[i].id = FindingId(g)
    BY <2>1, <2>4 DEF Backed, Supported
  <2>6. IsFinding(g)
    BY DEF GateInv, FilesInv
  <2>7. f = g
    BY <2>2, <2>3, <2>5, <2>6, IdentityBinds
  <2> QED BY <2>7
<1> QED BY <1>1, Invariant, PTL

(* A pass is over exactly the debt the registry records.                      *)
THEOREM ExactDebt == Spec => []DebtIsExact
<1>1. GateInv => DebtIsExact
  <2> DEFINE list == run.registry.exceptions
  <2> SUFFICES ASSUME GateInv, Passed
               PROVE  /\ \A i \in DOMAIN list : \E f \in run.report.review : list[i].id = FindingId(f)
                      /\ \A f \in run.report.review : \E i \in DOMAIN list :
                           \A j \in DOMAIN list : list[j].id = FindingId(f) <=> j = i
    BY DEF DebtIsExact
  <2>1. Exact(run.report, list) /\ run.report.status = "pass" /\ Backed(list, approvals)
    BY DEF GateInv, RunInv
  <2> HIDE DEF list
  <2>2. \A i \in DOMAIN list : \E f \in run.report.review : list[i].id = FindingId(f)
    BY <2>1 DEF Exact
  <2>3. DOMAIN list = 1 .. Len(list) /\ Len(list) \in Nat
    BY <2>1 DEF Backed
  <2>4. ASSUME NEW f \in run.report.review
        PROVE  \E i \in DOMAIN list : \A j \in DOMAIN list : list[j].id = FindingId(f) <=> j = i
    <3>1. PICK i \in DOMAIN list : list[i].id = FindingId(f)
      BY <2>1 DEF Exact
    <3>2. ASSUME NEW j \in DOMAIN list, list[j].id = list[i].id
          PROVE  j = i
      <4>1. \A k \in DOMAIN list : \A l \in 1 .. k - 1 : list[l].id # list[k].id
        BY <2>1 DEF Exact
      <4>2. ~(j \in 1 .. i - 1) /\ ~(i \in 1 .. j - 1)
        BY <3>2, <4>1
      <4> QED BY <2>3, <4>2
    <3> QED BY <3>1, <3>2
  <2> QED BY <2>2, <2>4
<1> QED BY <1>1, Invariant, PTL

LEMMA BudgetsAreNumbers ==
  \A metric \in {"module_lines", "function_lines", "block_depth", "parameters", "trait_methods"} :
    MetricPolicies[metric].preferred \in Nat
BY DEF MetricPolicies, Budget

LEMMA MeasurementsCount ==
  ASSUME NEW path, NEW source, IsSource(source), NEW m \in Measurements(path, source)
  PROVE  m.measured \in Nat /\ MetricPolicies[m.metric].preferred \in Nat
<1>1. CASE m = Measurement("module", "", 1, "module_lines", source.lines)
  <2>1. m.metric = "module_lines" /\ m.measured = source.lines
    BY <1>1 DEF Measurement
  <2> QED BY <2>1, BudgetsAreNumbers DEF IsSource
<1>2. CASE \E f \in source.functions :
             \/ m = Measurement("function", f.name, f.line, "function_lines", f.lines)
             \/ m = Measurement("function", f.name, f.line, "block_depth", f.depth)
             \/ m = Measurement("function", f.name, f.line, "parameters", Len(f.parameters))
  <2>1. PICK f \in source.functions :
             \/ m = Measurement("function", f.name, f.line, "function_lines", f.lines)
             \/ m = Measurement("function", f.name, f.line, "block_depth", f.depth)
             \/ m = Measurement("function", f.name, f.line, "parameters", Len(f.parameters))
    BY <1>2
  <2>2. f.lines \in Nat /\ f.depth \in Nat /\ Len(f.parameters) \in Nat
    BY DEF IsSource
  <2>3. m.metric \in {"function_lines", "block_depth", "parameters"}
    BY <2>1 DEF Measurement
  <2>4. m.measured \in {f.lines, f.depth, Len(f.parameters)}
    BY <2>1 DEF Measurement
  <2> QED BY <2>2, <2>3, <2>4, BudgetsAreNumbers
<1>3. CASE \E t \in source.traits :
             m = Measurement("public_trait", t.name, t.line, "trait_methods", t.methods)
  <2>1. PICK t \in source.traits :
             m = Measurement("public_trait", t.name, t.line, "trait_methods", t.methods)
    BY <1>3
  <2>2. m.metric = "trait_methods" /\ m.measured = t.methods
    BY <2>1 DEF Measurement
  <2> QED BY <2>2, BudgetsAreNumbers DEF IsSource
<1> QED BY <1>1, <1>2, <1>3 DEF Measurements

(* A tier of excellent-candidate leaves nothing above a preferred budget and  *)
(* no rule fired, whatever was edited while the gate read.                    *)
THEOREM ExcellentClean == Spec => []ExcellentIsClean
<1>1. GateInv => ExcellentIsClean
  <2> SUFFICES ASSUME GateInv, NEW report \in reports["quality"],
                      report.tier = "excellent-candidate"
               PROVE  /\ \A path \in DOMAIN report.sources :
                           SourceRole(path) = "production_with_embedded_assurance" =>
                             \A m \in Measurements(path, report.sources[path]) :
                               m.measured <= MetricPolicies[m.metric].preferred
                      /\ QualityFindings(report.sources) = {}
    BY DEF ExcellentIsClean
  <2> DEFINE production == Restricted(report.sources, InProduction)
  <2>1. /\ IsTree(report.sources)
        /\ Findings(production) = {}
        /\ QualityFindings(report.sources) = {}
    BY DEF GateInv, ReportsInv, Clean
  <2>2. ASSUME NEW path \in DOMAIN report.sources,
               SourceRole(path) = "production_with_embedded_assurance",
               NEW m \in Measurements(path, report.sources[path])
        PROVE  m.measured <= MetricPolicies[m.metric].preferred
    <3>1. path \in InProduction /\ IsSource(report.sources[path])
      BY <2>1, <2>2 DEF InProduction, IsTree
    <3>2. path \in DOMAIN production /\ production[path] = report.sources[path]
      BY <3>1 DEF Restricted
    <3>3. ~(m.measured > MetricPolicies[m.metric].preferred)
      <4> HIDE DEF production
      <4> SUFFICES ASSUME m.measured > MetricPolicies[m.metric].preferred PROVE FALSE
        OBVIOUS
      <4>1. m \in {n \in Measurements(path, production[path]) :
                     n.measured > MetricPolicies[n.metric].preferred}
        BY <3>2
      <4>2. [path |-> path, source |-> production[path], item |-> m] \in Findings(production)
        BY <3>2, <4>1 DEF Findings
      <4> QED BY <2>1, <4>2
    <3>4. m.measured \in Nat /\ MetricPolicies[m.metric].preferred \in Nat
      BY <3>1, MeasurementsCount
    <3> QED BY <3>3, <3>4
  <2> QED BY <2>1, <2>2
<1> QED BY <1>1, Invariant, PTL
=============================================================================
