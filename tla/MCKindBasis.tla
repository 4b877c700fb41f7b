----------------------------- MODULE MCKindBasis -----------------------------
(* Small instance of KindBasis: three kinds of which a table has two or one;  *)
(* honest tables, a table of known multiples, and tables that give two kinds  *)
(* one generator, each with and without authentication.                       *)
EXTENDS KindBasis

MCSymbolOf == [kind \in ResourceKinds |-> <<"K:a", "K:b", "K:c">>[kind]]

Table(entries, authenticated) ==
  [profile |-> "h2c-v1", entries |-> entries, authenticated |-> authenticated]

Known == [kind \in {1, 2} |-> IF kind = 1 THEN [s \in {"G"} |-> 3] ELSE [s \in {"G"} |-> 5]]
Related(symbol) == [kind \in {1, 2} |-> [s \in {symbol} |-> 1]]

MCBases ==
  {Table(entries, authenticated) :
     entries \in {Honest({1, 2}), Honest({2}), Known, Related("K:shared"), Related("K:a")},
     authenticated \in BOOLEAN}
  \cup {[Table(Honest({1, 2}), TRUE) EXCEPT !.profile = "other"]}

MCDeltas ==
  [{1, 2} -> -2 .. 2] \cup [{1} -> {-1, 0, 1}] \cup [{2, 3} -> {0, 1}] \cup [{} -> {0}]

MCBlindings == {-5, 0, 1}
=============================================================================
