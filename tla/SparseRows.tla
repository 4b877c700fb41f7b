------------------------------ MODULE SparseRows ------------------------------
(* Mappings that keep no zeros: the delta rows of a SemanticSummary, by kind, *)
(* and the coefficients of a LinearPoint, by symbol.  Both are sorted tuples  *)
(* of pairs in the code, so that equal mappings are equal tuples.             *)
EXTENDS Integers

Quantity(rows, key) == IF key \in DOMAIN rows THEN rows[key] ELSE 0

NonzeroRows(rows) ==
  [key \in {key \in DOMAIN rows : rows[key] # 0} |-> rows[key]]

(* Mutants of SumRows: a cancelled row stays, as a zero; a later quantity     *)
(* replaces an earlier one.                                                   *)
SumRowsWithZeros(left, right) ==
  [key \in DOMAIN left \cup DOMAIN right |-> Quantity(left, key) + Quantity(right, key)]

SumRowsReplacing(left, right) ==
  NonzeroRows([key \in DOMAIN left \cup DOMAIN right |->
                 IF key \in DOMAIN right THEN right[key] ELSE left[key]])

SumRows(left, right) ==
  NonzeroRows([key \in DOMAIN left \cup DOMAIN right |->
                 Quantity(left, key) + Quantity(right, key)])
=============================================================================
