---------------------------- MODULE QualityGate ----------------------------
(***************************************************************************)
(* The two gates over the Rust sources, tools/check_complexity.py and      *)
(* tools/check_code_quality.py, run again and again in a repository that   *)
(* people keep changing.  A gate lists the files, reads them one by one,   *)
(* reads the registries, builds its report in memory and writes it; edits  *)
(* fall anywhere in between.  Reviewers work from a written report and put *)
(* exceptions into the registry.                                           *)
(***************************************************************************)
EXTENDS QualityRules

CONSTANTS
  PathOrder,     (* The paths of the repository in the order of sorted().   *)
  Sources,       (* Path -> sources an edit may write there.                *)
  FocusedTests,  (* Paths an exception may name as its focused test.        *)
  Designs,       (* Design registries of the repository.                    *)
  ReportPaths,   (* Arguments of --report, NoPath when it is not given.     *)
  Symlinks,      (* Paths that are symbolic links.                          *)
  RequiredPatterns, (* Decision identifier -> its required pattern.         *)
  InitialTrees,  (* Path -> source for the files that exist, at the start.  *)
  MaxEdits,      (* Bound on edits of the tree and withdrawn exceptions.    *)
  MaxExceptions, (* Bound on the entries of the registry.                   *)
  NoPath

Paths == {PathOrder[i] : i \in DOMAIN PathOrder}

IsTree(files) ==
  /\ DOMAIN files \subseteq Paths
  /\ \A path \in DOMAIN files : IsSource(files[path])

ASSUME SourcesAssumption ==
  /\ \A path \in Paths : \A source \in Sources[path] : IsSource(source)
  /\ \A files \in InitialTrees : IsTree(files)

VARIABLES
  tree,        (* Path -> source, for the files that exist.                 *)
  registry,    (* [form, exceptions] of complexity_exceptions.json; "linked" *)
               (* is a valid one behind a symbolic link.                    *)
  designs,     (* [form, decisions] of design_pattern_decisions.json.       *)
  run,         (* The gate that is running, or how the last one ended.      *)
  reports,     (* Gate -> the last report it wrote, a set of at most one.   *)
  approvals,   (* History: findings a reviewer has seen and approved.       *)
  edits

environment == <<tree, registry, designs, approvals, edits>>
vars == <<environment, run, reports>>

Gates == {"complexity", "quality"}

Idle == [stage |-> "idle"]

NotRead == [form |-> "not_read"]

Init ==
  /\ tree \in InitialTrees
  /\ registry = [form |-> "valid", exceptions |-> <<>>]
  /\ designs \in Designs
  /\ run = Idle
  /\ reports = [gate \in Gates |-> {}]
  /\ approvals = {}
  /\ edits = 0

-----------------------------------------------------------------------------
(* The repository changes under a running gate.                               *)
Edit(path, source) ==
  /\ edits < MaxEdits
  /\ edits' = edits + 1
  /\ tree' = [p \in DOMAIN tree \cup {path} |-> IF p = path THEN source ELSE tree[p]]
  /\ UNCHANGED <<registry, designs, run, reports, approvals>>

Delete(path) ==
  /\ edits < MaxEdits
  /\ path \in DOMAIN tree
  /\ edits' = edits + 1
  /\ tree' = [p \in DOMAIN tree \ {path} |-> tree[p]]
  /\ UNCHANGED <<registry, designs, run, reports, approvals>>

(* A reviewer records a decision on a finding of the last complexity report.  *)
Record(finding, status, test) ==
  /\ Len(registry.exceptions) < MaxExceptions
  /\ \E report \in reports["complexity"] : finding \in report.review
  /\ registry' = [form |-> registry.form,
                   exceptions |-> Append(registry.exceptions,
                     [id |-> FindingId(finding), status |-> status, test |-> test])]
  /\ approvals' = IF status = "approved" THEN approvals \cup {finding} ELSE approvals
  /\ UNCHANGED <<tree, designs, run, reports, edits>>

Withdraw(i) ==
  /\ edits < MaxEdits
  /\ i \in DOMAIN registry.exceptions
  /\ edits' = edits + 1
  /\ registry' = [form |-> registry.form,
                   exceptions |-> SubSeq(registry.exceptions, 1, i - 1)
                     \o SubSeq(registry.exceptions, i + 1, Len(registry.exceptions))]
  /\ UNCHANGED <<tree, designs, run, reports, approvals>>

Garble(form) ==
  /\ edits < MaxEdits
  /\ edits' = edits + 1
  /\ registry' = [form |-> form, exceptions |-> registry.exceptions]
  /\ UNCHANGED <<tree, designs, run, reports, approvals>>

-----------------------------------------------------------------------------
(* The gates.  Whatever raises ends the run with exit code 1 and no report.   *)
Fail == run' = [stage |-> "ended", gate |-> run.gate, passed |-> FALSE]

Step == UNCHANGED <<environment, reports>>

Reading(gate, argument, todo, sources) ==
  [stage |-> "sources", gate |-> gate, argument |-> argument, todo |-> todo,
   sources |-> sources]

Holding(stage, record, decisions) ==
  [stage |-> stage, gate |-> run.gate, argument |-> run.argument,
   sources |-> run.sources, registry |-> record, designs |-> decisions]

Wanted(gate, path) == IF gate = "complexity" THEN InCrateSource(path) ELSE IsRustFile(path)

(* _read_repository_sources: sorted(ROOT.glob(...)).                          *)
Start(gate, argument) ==
  LET exists(path) == path \in DOMAIN tree /\ Wanted(gate, path) IN
  /\ run.stage \in {"idle", "ended"}
  /\ run' = Reading(gate, argument, SelectSeq(PathOrder, exists), <<>>)
  /\ Step

(* One turn: a file may be gone by now.                                       *)
ReadSource ==
  /\ run.stage = "sources"
  /\ run.todo # <<>>
  /\ LET path == Head(run.todo) IN
       IF path \in DOMAIN tree /\ path \notin Symlinks
            /\ tree[path].defect \notin {"oversized", "not_utf8"}
       THEN run' = Reading(run.gate, run.argument, Tail(run.todo),
                           [p \in DOMAIN run.sources \cup {path} |->
                              IF p = path THEN tree[path] ELSE run.sources[p]])
       ELSE Fail
  /\ Step

EndSources ==
  /\ run.stage = "sources"
  /\ run.todo = <<>>
  /\ IF DOMAIN run.sources = {} THEN Fail
     ELSE run' = Holding("registry", NotRead, NotRead)
  /\ Step

(* _read_registry and _read_json: strict JSON, no duplicate keys; the quality *)
(* gate alone follows no symbolic link.                                       *)
Unreadable(form) == form = "undecodable" \/ (form = "linked" /\ run.gate = "quality")

ReadRegistry ==
  /\ run.stage = "registry"
  /\ IF Unreadable(registry.form) THEN Fail
     ELSE run' = Holding(IF run.gate = "complexity" THEN "judge" ELSE "designs",
                         registry, NotRead)
  /\ Step

ReadDesigns ==
  /\ run.stage = "designs"
  /\ IF Unreadable(designs.form) THEN Fail
     ELSE run' = Holding("judge", run.registry, designs)
  /\ Step

-----------------------------------------------------------------------------
IsRegularFile(path) == path \in DOMAIN tree

ApprovedIds(exceptions) == {exceptions[i].id : i \in DOMAIN exceptions}

(* Mutant: an exception whose finding is gone is let pass.                    *)
ExceptionOKStale(exceptions, i, reviewIds) ==
  /\ \A j \in 1 .. i - 1 : exceptions[j].id # exceptions[i].id
  /\ exceptions[i].status = "approved"
  /\ IsRegularFile(exceptions[i].test)

(* One turn of validate_exception_registry; focused tests must exist now.     *)
ExceptionOK(exceptions, i, reviewIds) ==
  /\ \A j \in 1 .. i - 1 : exceptions[j].id # exceptions[i].id
  /\ exceptions[i].id \in reviewIds
  /\ exceptions[i].status = "approved"
  /\ IsRegularFile(exceptions[i].test)

RegistryOK(record, findings) ==
  /\ record.form \in {"valid", "linked"}
  /\ \A i \in DOMAIN record.exceptions :
       ExceptionOK(record.exceptions, i, {FindingId(f) : f \in findings})

(* analyze_rust_source: comments, literals and delimiters must be closed.     *)
Measurable(sources) == \A path \in DOMAIN sources : sources[path].defect # "malformed"

Restricted(sources, paths) == [path \in DOMAIN sources \cap paths |-> sources[path]]

(* The sources of the complexity report: all the complexity gate read, those  *)
(* of one role in the quality gate.                                           *)
ComplexitySources ==
  IF run.gate = "complexity" THEN run.sources
  ELSE Restricted(run.sources,
         {path \in Paths : SourceRole(path) = "production_with_embedded_assurance"})

(* One turn of validate_design_decisions.                                     *)
DecisionOK(decisions, i) ==
  LET decision == decisions[i] IN
  /\ decision.wellFormed
  /\ \A j \in 1 .. i - 1 : decisions[j].id # decision.id
  /\ decision.id \in DOMAIN RequiredPatterns
  /\ decision.pattern = RequiredPatterns[decision.id]
  /\ decision.considersNone
  /\ decision.scope = "technical" /\ decision.status = "ai-reviewed"
  /\ \A path \in decision.references : IsRegularFile(path) /\ path \notin Symlinks

DesignsOK(record) ==
  /\ record.form = "valid"
  /\ \A i \in DOMAIN record.decisions : DecisionOK(record.decisions, i)
  /\ {record.decisions[i].id : i \in DOMAIN record.decisions} = DOMAIN RequiredPatterns

BuildsComplexity ==
  /\ DOMAIN ComplexitySources # {}
  /\ Measurable(ComplexitySources)
  /\ RegistryOK(run.registry, ReviewFindings(ComplexitySources))

BuildsReport ==
  /\ BuildsComplexity
  /\ run.gate = "quality" => DesignsOK(run.designs) /\ Measurable(run.sources)

Unapproved ==
  {f \in ReviewFindings(ComplexitySources) :
     FindingId(f) \notin ApprovedIds(run.registry.exceptions)}

Status ==
  IF Unapproved = {} /\ (run.gate = "quality" => QualityFindings(run.sources) = {})
  THEN "pass" ELSE "review-needed"

(* Mutant: approved debt does not count against the tier.                     *)
TierWithDebt ==
  IF Status # "pass" THEN "review-required"
  ELSE IF Warnings(ComplexitySources) = {} THEN "excellent-candidate"
  ELSE "maintained-with-advisories"

Tier ==
  IF Status # "pass" THEN "review-required"
  ELSE IF run.registry.exceptions = <<>> /\ Warnings(ComplexitySources) = {}
  THEN "excellent-candidate"
  ELSE "maintained-with-advisories"

Report ==
  [gate |-> run.gate, status |-> Status, sources |-> run.sources,
   review |-> ReviewFindings(ComplexitySources), unapproved |-> Unapproved,
   warnings |-> Warnings(ComplexitySources) # {},
   tier |-> IF run.gate = "quality" THEN Tier ELSE "none"]

(* build_report works on what was read, and on the files that exist now.      *)
Judge ==
  /\ run.stage = "judge"
  /\ IF BuildsReport
     THEN run' = [stage |-> "write", gate |-> run.gate, argument |-> run.argument,
                  report |-> Report, registry |-> run.registry]
     ELSE Fail
  /\ Step

Prefixes(path) == {SubSeq(path, 1, n) : n \in 1 .. Len(path)}

(* _write_report: JSON beneath target/, through no symbolic link.             *)
WritableReport(path) ==
  /\ Len(path) >= 2
  /\ path[1] = "target"
  /\ Is("json", path[Len(path)])
  /\ Prefixes(path) \cap Symlinks = {}

(* The quality gate also refuses warnings (a ceiling of zero).                *)
Passes(report) ==
  report.status = "pass" /\ (report.gate = "quality" => ~report.warnings)

WriteReport ==
  /\ run.stage = "write"
  /\ IF run.argument # NoPath /\ ~WritableReport(run.argument)
     THEN Fail /\ UNCHANGED reports
     ELSE /\ run' = [stage |-> "ended", gate |-> run.gate, passed |-> Passes(run.report),
                     report |-> run.report, registry |-> run.registry]
          /\ reports' = IF run.argument = NoPath THEN reports
                        ELSE [reports EXCEPT ![run.gate] = {run.report}]
  /\ UNCHANGED environment

(* mkdir or write_text raises an OSError that main does not catch: exit code  *)
(* 1, and what write_text had opened is no report any more.                   *)
TearReport ==
  /\ run.stage = "write"
  /\ run.argument # NoPath /\ WritableReport(run.argument)
  /\ Fail
  /\ reports' \in {reports, [reports EXCEPT ![run.gate] = {}]}
  /\ UNCHANGED environment

-----------------------------------------------------------------------------
Change ==
  \/ \E path \in Paths :
       \/ \E source \in Sources[path] : Edit(path, source)
       \/ Delete(path)
  \/ \E report \in reports["complexity"] : \E finding \in report.review :
       \E status \in {"approved", "proposed"} : \E test \in FocusedTests :
         Record(finding, status, test)
  \/ \E i \in DOMAIN registry.exceptions : Withdraw(i)
  \/ \E form \in {"valid", "linked", "foreign", "undecodable"} : Garble(form)

RunGate ==
  \/ \E gate \in Gates, argument \in ReportPaths : Start(gate, argument)
  \/ ReadSource
  \/ EndSources
  \/ ReadRegistry
  \/ ReadDesigns
  \/ Judge
  \/ WriteReport
  \/ TearReport

Next == Change \/ RunGate

Spec == Init /\ [][Next]_vars

-----------------------------------------------------------------------------
Passed == run.stage = "ended" /\ run.passed

(* Whatever is edited, reverted, approved or withdrawn while gates run: when  *)
(* one passes, a reviewer has approved every item above its trigger, in the   *)
(* very content of the file that was read (Finding binds source_sha256).      *)
PassIsReviewed == Passed => run.report.review \subseteq approvals

(* A pass carries exact exception debt (QUALITY_GATES.md, dimension 1): the   *)
(* registry holds one entry for every item above its trigger and no other.    *)
DebtIsExact ==
  Passed =>
    LET exceptions == run.registry.exceptions IN
    /\ \A i \in DOMAIN exceptions :
         \E f \in run.report.review : exceptions[i].id = FindingId(f)
    /\ \A f \in run.report.review : \E i \in DOMAIN exceptions :
         \A j \in DOMAIN exceptions : exceptions[j].id = FindingId(f) <=> j = i

(* excellent-candidate means that nothing is above even a preferred budget in *)
(* production code, and that no rule fires in any role.                       *)
ExcellentIsClean ==
  \A report \in reports["quality"] :
    report.tier = "excellent-candidate" =>
      /\ \A path \in DOMAIN report.sources :
           SourceRole(path) = "production_with_embedded_assurance" =>
             \A m \in Measurements(path, report.sources[path]) :
               m.measured <= MetricPolicies[m.metric].preferred
      /\ QualityFindings(report.sources) = {}

(* QUALITY_GATES.md, of that tier: "no complexity review trigger lacks        *)
(* approval", for everything the complexity gate reads.                       *)
ExcellentLeavesNoTrigger ==
  \A report \in reports["quality"] :
    report.tier = "excellent-candidate" =>
      ReviewFindings(Restricted(report.sources, {path \in Paths : InCrateSource(path)})) = {}
=============================================================================
