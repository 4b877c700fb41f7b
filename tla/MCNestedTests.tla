---------------------------- MODULE MCNestedTests ----------------------------
(* QualityGate with a test module in a directory of a crate's own sources,    *)
(* crates/a/src/tests/m.rs: the complexity gate measures it, the quality gate *)
(* takes it for an integration test.                                          *)
EXTENDS QualityGate, TLC

Lib == <<"crates", "a", "src", "lib.rs">>
Module == <<"crates", "a", "src", "tests", "m.rs">>
Out == <<"target", "out.json">>

MCPathOrder == <<Lib, Module>>
MCReportPaths == {Out}
MCClasses == ("out.json" :> {"json"}) @@ ("m.rs" :> {}) @@ ("lib.rs" :> {}) @@ ("f" :> {})

Sized(lines) ==
  [lines |-> lines, traits |-> {}, structs |-> {}, lexemes |-> {}, features |-> {},
   skips |-> {}, defect |-> "none", text |-> 1,
   functions |-> {[name |-> "f", line |-> 1, lines |-> lines, depth |-> 0, parameters |-> <<>>]}]

MCInitialTrees == {(Lib :> Sized(40)) @@ (Module :> Sized(40))}
MCSources == (Lib :> {}) @@ (Module :> {Sized(60), Sized(61)})
MCFocusedTests == {Module}

Decision ==
  [id |-> "D1", pattern |-> "typestate", wellFormed |-> TRUE, considersNone |-> TRUE,
   scope |-> "technical", status |-> "ai-reviewed", references |-> {Lib}]

MCRequired == "D1" :> "typestate"
MCDesigns == {[form |-> "valid", decisions |-> <<Decision>>]}
=============================================================================
