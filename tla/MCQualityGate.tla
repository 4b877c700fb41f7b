---------------------------- MODULE MCQualityGate ----------------------------
(* Small instance of QualityGate: one production file, a test that serves as  *)
(* focused test, and sources that differ in what the gates tell apart.        *)
EXTENDS QualityGate, TLC

Lib == <<"crates", "a", "src", "lib.rs">>
Test == <<"crates", "a", "tests", "t.rs">>
Link == <<"target", "link">>
Out == <<"target", "out.json">>

MCPathOrder == <<Lib, Test>>
MCReportPaths == {"none", Out, <<"target", "link", "out.json">>}
MCSymlinks == {Link}

MCClasses ==
  ("out.json" :> {"json"}) @@ ("lib.rs" :> {}) @@ ("t.rs" :> {}) @@ ("link" :> {})
    @@ ("f" :> {}) @@ ("process" :> {"vague_function"}) @@ ("Port" :> {})
    @@ ("VerifiedService" :> {"authority_type", "generic_object", "critical_default"})
    @@ ("verified" :> {"authority_field"}) @@ ("state_root" :> {"identity_field", "raw_identity_field"})
    @@ ("nonce" :> {"raw_identity_field"})

Empty == [lines |-> 1, functions |-> {}, traits |-> {}, structs |-> {}, lexemes |-> {},
          features |-> {}, skips |-> {}, defect |-> "none", text |-> 1]

Function(name, lines) ==
  [name |-> name, line |-> 1, lines |-> lines, depth |-> 0,
   parameters |-> <<[name |-> "f", line |-> 1, bool |-> FALSE]>>]

Sized(lines, text) == [Empty EXCEPT !.functions = {Function("f", lines)}, !.text = text]

Long == Sized(61, 1)         \* Above the trigger of sixty lines,
LongToo == Sized(61, 2)      \* and the same items in another text.
AtTrigger == Sized(60, 1)    \* A warning.
AtPreferred == Sized(40, 1)

(* A source in which every rule fires.                                        *)
Smelly ==
  [lines |-> 701, defect |-> "none", text |-> 1,
   functions |-> {[name |-> "process", line |-> 1, lines |-> 3, depth |-> 5,
                   parameters |-> <<[name |-> "flag", line |-> 2, bool |-> TRUE]>>]},
   traits |-> {[name |-> "Port", line |-> 9, methods |-> 11]},
   structs |-> {[name |-> "VerifiedService", line |-> 20, braced |-> TRUE, default |-> TRUE,
                 fields |-> {[name |-> "verified", line |-> 21, type |-> "bool", public |-> TRUE],
                             [name |-> "state_root", line |-> 22, type |-> "string", public |-> FALSE],
                             [name |-> "nonce", line |-> 23, type |-> "bytes32", public |-> FALSE]}]},
   lexemes |-> {[rule |-> "Q007", line |-> 30]},
   features |-> {[line |-> 31, bypass |-> TRUE, code |-> TRUE]},
   skips |-> {[binding |-> "value", line |-> 32, guarded |-> FALSE]}]

Odd ==
  {[Empty EXCEPT !.defect = "malformed"], [Empty EXCEPT !.defect = "oversized"]}
    \cup {[Empty EXCEPT !.functions = Smelly.functions, !.structs = Smelly.structs],
          [Empty EXCEPT !.lexemes = Smelly.lexemes, !.features = Smelly.features,
                        !.skips = Smelly.skips],
          [Empty EXCEPT !.skips = {[binding |-> "value", line |-> 32, guarded |-> TRUE]}]}

MCSources == (Lib :> {Long, LongToo, AtTrigger, AtPreferred}) @@ (Test :> {Smelly})

MCInitialTrees ==
  {(Lib :> Long) @@ (Test :> Empty),
   (Lib :> [Empty EXCEPT !.traits = Smelly.traits]) @@ (Test :> Empty)} \cup {(Lib :> Sized(40, 3)) @@ (Test :> s) : s \in Odd}

MCFocusedTests == {Test}

MCRequired == ("D1" :> "typestate") @@ ("D2" :> "ports")

Decision(id, pattern) ==
  [id |-> id, pattern |-> pattern, wellFormed |-> TRUE, considersNone |-> TRUE,
   scope |-> "technical", status |-> "ai-reviewed", references |-> {Test}]

First == Decision("D1", "typestate")
Second == Decision("D2", "ports")

MCDesigns == {[form |-> "valid", decisions |-> list] : list \in {<<First, Second>>, <<First>>, <<First, First, Second>>}}
=============================================================================
