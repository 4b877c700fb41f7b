---------------------------- MODULE QualityRules ----------------------------
(***************************************************************************)
(* What the two Rust gates measure in a source file and when it counts:    *)
(* the budgets of tools/rust_complexity.py, the rules of                   *)
(* tools/rust_quality.py and the roles of tools/check_code_quality.py.     *)
(* A source is what the scanners extract from the text of a file:          *)
(*   lines      noncomment lines of the file;                              *)
(*   functions  records [name, line, lines, depth, parameters], the last   *)
(*              being the list of [name, line, bool];                      *)
(*   traits     public traits, [name, line, methods];                      *)
(*   structs    records [name, line, braced, default, fields], braced ones *)
(*              alone having fields, [name, line, type, public];           *)
(*   lexemes    hazardous phrases of the code, [rule, line];               *)
(*   features   cfg attributes, [line, bypass, code];                      *)
(*   skips      tests that return early on an error, [binding, line,       *)
(*              guarded];                                                  *)
(*   defect     why the file cannot be read or measured, or "none";        *)
(*   text       what else tells two texts with the same items apart.       *)
(* Two texts that differ are two sources, so a source stands for its own   *)
(* SHA-256 digest.  A path is the sequence of its parts.                   *)
(***************************************************************************)
EXTENDS Naturals, Sequences

CONSTANT Classes   (* Name -> what the patterns of rust_quality find in it.  *)

(* The scanners count.                                                        *)
IsSource(source) ==
  /\ source.lines \in Nat
  /\ \A f \in source.functions :
       f.lines \in Nat /\ f.depth \in Nat /\ Len(f.parameters) \in Nat
  /\ \A t \in source.traits : t.methods \in Nat

Parts(path) == {path[i] : i \in DOMAIN path}

-----------------------------------------------------------------------------
(* Budgets: a preferred limit and the trigger of a review.                    *)
Budget(preferred, trigger) == [preferred |-> preferred, trigger |-> trigger]

MetricPolicies ==
  [function_lines |-> Budget(40, 60), block_depth |-> Budget(3, 4),
   parameters |-> Budget(4, 6), trait_methods |-> Budget(7, 10),
   module_lines |-> Budget(400, 700)]

Measurement(kind, name, line, metric, measured) ==
  [kind |-> kind, name |-> name, line |-> line, metric |-> metric, measured |-> measured]

(* classify_findings: everything of one file that has a budget.               *)
Measurements(path, source) ==
  {Measurement("module", "", 1, "module_lines", source.lines)}
    \cup {Measurement("public_trait", t.name, t.line, "trait_methods", t.methods) :
            t \in source.traits}
    \cup UNION {{Measurement("function", f.name, f.line, "function_lines", f.lines),
                 Measurement("function", f.name, f.line, "block_depth", f.depth),
                 Measurement("function", f.name, f.line, "parameters", Len(f.parameters))} :
                  f \in source.functions}

Trigger(finding) == MetricPolicies[finding.item.metric].trigger

NeedsReview(finding) == finding.item.measured > Trigger(finding)

Findings(sources) ==
  UNION {{[path |-> path, source |-> sources[path], item |-> item] :
            item \in {m \in Measurements(path, sources[path]) :
                        m.measured > MetricPolicies[m.metric].preferred}} :
           path \in DOMAIN sources}

ReviewFindings(sources) == {f \in Findings(sources) : NeedsReview(f)}

Warnings(sources) == Findings(sources) \ ReviewFindings(sources)

(* Mutant: the identity of a finding without the digest of its file.          *)
FindingIdOfItem(finding) ==
  [path |-> finding.path, item |-> finding.item, trigger |-> Trigger(finding)]

(* The identity that is hashed: a finding of other content is another one.    *)
FindingId(finding) ==
  [path |-> finding.path, item |-> finding.item, trigger |-> Trigger(finding),
   source |-> finding.source]

-----------------------------------------------------------------------------
QualityFinding(path, source, rule, line, item) ==
  [path |-> path, source |-> source, rule |-> rule, line |-> line, item |-> item]

Is(class, name) == class \in Classes[name]

FunctionFindings(path, source) ==
  {QualityFinding(path, source, "Q003", f.line, <<f.name>>) :
     f \in {g \in source.functions : Is("vague_function", g.name)}}
    \cup UNION {{QualityFinding(path, source, "Q001", f.parameters[i].line,
                                  <<f.name, f.parameters[i].name>>) :
                   i \in {j \in DOMAIN f.parameters : f.parameters[j].bool}} :
                  f \in source.functions}

(* The rules one field of a struct breaks.                                    *)
FieldRules(struct, field) ==
  {rule \in {"Q002", "Q005", "Q006", "Q011"} :
     CASE rule = "Q002" -> Is("authority_field", field.name) /\ field.type = "bool"
       [] rule = "Q005" -> Is("identity_field", field.name) /\ field.type = "string"
       [] rule = "Q006" -> /\ Is("raw_identity_field", field.name)
                           /\ field.type = "bytes32"
                           /\ ~Is("wire_or_candidate", struct.name)
       [] rule = "Q011" -> Is("authority_type", struct.name) /\ field.public}

StructFindings(path, source) ==
  {QualityFinding(path, source, "Q010", s.line, <<s.name>>) :
     s \in {t \in source.structs : t.braced /\ Is("generic_object", t.name)}}
    \cup UNION {UNION {{QualityFinding(path, source, rule, f.line, <<s.name, f.name>>) :
                          rule \in FieldRules(s, f)} : f \in s.fields} : s \in source.structs}

(* Phrases count in code only; attributes are matched in the text and then    *)
(* looked up in the code.                                                     *)
RegexFindings(path, source) ==
  {QualityFinding(path, source, l.rule, l.line, <<>>) :
     l \in {k \in source.lexemes : k.rule \in {"Q004", "Q007", "Q008", "Q009", "Q012", "Q014"}}}
    \cup {QualityFinding(path, source, "Q013", s.line, <<s.name>>) :
            s \in {t \in source.structs :
                     /\ t.default
                     /\ Is("authority_type", t.name) \/ Is("critical_default", t.name)}}
    \cup {QualityFinding(path, source, "Q015", f.line, <<>>) :
            f \in {g \in source.features : g.code /\ g.bypass}}

(* Only tests and proof harnesses are asked for guarded early returns.        *)
ConditionalTestFindings(path, source) ==
  {QualityFinding(path, source, "Q016", s.line, <<s.binding>>) :
     s \in {t \in source.skips :
              /\ "tests" \in Parts(path) \/ Is("kani", path[Len(path)])
              /\ ~t.guarded}}

QualityFindings(sources) ==
  UNION {FunctionFindings(path, sources[path]) \cup StructFindings(path, sources[path])
           \cup RegexFindings(path, sources[path])
           \cup ConditionalTestFindings(path, sources[path]) : path \in DOMAIN sources}

-----------------------------------------------------------------------------
(* The files the complexity gate looks for, and those the quality gate does.  *)
InCrateSource(path) == Len(path) >= 4 /\ path[1] = "crates" /\ path[3] = "src"

IsRustFile(path) ==
  \/ Len(path) >= 4 /\ path[1] = "crates" /\ path[3] \in {"src", "tests", "benches", "examples"}
  \/ Len(path) = 3 /\ path[1] = "crates" /\ path[3] = "build.rs"
  \/ Len(path) >= 2 /\ path[1] = "fuzz"

(* _source_role: the first rule that fits.                                    *)
SourceRole(path) ==
  IF path[1] = "fuzz" THEN "fuzz"
  ELSE IF "tests" \in Parts(path) THEN "integration_test"
  ELSE IF "benches" \in Parts(path) THEN "benchmark"
  ELSE IF "examples" \in Parts(path) THEN "example"
  ELSE IF InCrateSource(path) THEN "production_with_embedded_assurance"
  ELSE IF path[Len(path)] = "build.rs" THEN "build_script"
  ELSE "other_rust"
=============================================================================
