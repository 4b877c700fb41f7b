------------------------------ MODULE KindBasis ------------------------------
(* KindBasis, DeltaEquation and certify_kind_basis of                         *)
(* reference_models/arm_zrm_frontier_v1.py: a table from resource kinds to    *)
(* commitment generators, the point that a delta commits to under a table,    *)
(* added up row by row, and the certificates that name a table by its root.   *)
(* A point is a formal sum of symbols (LinearPoint), as in the code.          *)
EXTENDS Integers, FiniteSets, Functions, SparseRows

CONSTANTS
  ResourceKinds, (* Resource kinds; numbers stand for the order of their names.*)
  Generator,  (* The symbol of which everybody knows the multiples.           *)
  SymbolOf,   (* The symbol K:<kind> that hashing to the curve gives a kind.  *)
  Bases,      (* The tables that can be constructed, honest or not.           *)
  Deltas,     (* Mappings of kinds to net quantities, zeros included.         *)
  Blindings,  (* Blinding scalars.                                            *)
  ProofIds,   (* Names of derivation proofs that callers may give.            *)
  NoProof     (* The empty one.                                               *)

ASSUME ResourceKindsAssumption == ResourceKinds \subseteq Nat

ASSUME SymbolsAssumption ==
  /\ DOMAIN SymbolOf = ResourceKinds
  /\ \A kind \in ResourceKinds : SymbolOf[kind] # Generator
  /\ \A k, l \in ResourceKinds : SymbolOf[k] = SymbolOf[l] => k = l

ASSUME BasesAssumption ==
  \A b \in Bases :
    /\ DOMAIN b.entries \subseteq ResourceKinds
    /\ \A kind \in DOMAIN b.entries :
         b.entries[kind] \in [DOMAIN b.entries[kind] -> Int \ {0}]

ASSUME DeltasAssumption ==
  /\ \A delta \in Deltas : /\ DOMAIN delta \subseteq ResourceKinds
                           /\ IsFiniteSet(DOMAIN delta)
                           /\ \A kind \in DOMAIN delta : delta[kind] \in Int
  /\ Blindings \subseteq Int

VARIABLES
  certificates,  (* The certificates issued so far.                           *)
  basis,         (* The table of the last equation, if there is one.          *)
  net,           (* Its net quantities, without zeros, and its blinding.      *)
  blinding,
  pending,       (* The kinds whose rows are not added yet.                   *)
  result,        (* The point added up so far.                                *)
  outcome        (* "idle", "adding", "point" or "unknown kind".              *)

equation == <<basis, net, blinding>>
basisVars == <<certificates, equation, pending, result, outcome>>

-----------------------------------------------------------------------------
(* LinearPoint: basis and scale normalise; add is SumRows.                    *)
Multiple(symbol, coefficient) == NonzeroRows([s \in {symbol} |-> coefficient])

(* Mutant of Scaled: the sign of the scalar is lost.                          *)
ScaledAbsolute(point, scalar) ==
  NonzeroRows([symbol \in DOMAIN point |->
                 IF scalar < 0 THEN -scalar * point[symbol] ELSE scalar * point[symbol]])

Scaled(point, scalar) ==
  NonzeroRows([symbol \in DOMAIN point |-> scalar * point[symbol]])

IsKnownMultiple(point) == DOMAIN point \subseteq {Generator}

(* KindBasis: the honest table, and what a root stands for.                   *)
Honest(kinds) == [kind \in kinds |-> Multiple(SymbolOf[kind], 1)]
Root(b) == [profile |-> b.profile, entries |-> b.entries]

(* Mutant of MatchesCanonical: what is authenticated is not derived again.    *)
MatchesAuthenticated(b) == b.authenticated

MatchesCanonical(b) == b.authenticated /\ b.entries = Honest(DOMAIN b.entries)

-----------------------------------------------------------------------------
BasisInit ==
  /\ certificates = {}
  /\ basis \in Bases /\ net = [kind \in {} |-> 0] /\ blinding = 0
  /\ pending = {} /\ result = Multiple(Generator, 0) /\ outcome = "idle"

(* certify_kind_basis; it raises where this is not enabled.                   *)
Certify(b, proof) ==
  /\ outcome # "adding"
  /\ proof # NoProof
  /\ MatchesCanonical(b)
  /\ certificates' =
       certificates \cup {[root |-> Root(b), profile |-> b.profile, proof |-> proof]}
  /\ UNCHANGED <<equation, pending, result, outcome>>

(* DeltaEquation.from_mapping, and point up to its loop.                      *)
Evaluate(b, delta, scalar) ==
  /\ outcome # "adding"
  /\ basis' = b /\ net' = NonzeroRows(delta) /\ blinding' = scalar
  /\ pending' = DOMAIN NonzeroRows(delta)
  /\ result' = Multiple(Generator, scalar)
  /\ outcome' = "adding"
  /\ UNCHANGED certificates

(* The loop of point takes the rows in the order of their kinds.              *)
IsNext(kind) == kind \in pending /\ \A other \in pending : kind <= other

AddRow(kind) ==
  /\ outcome = "adding" /\ IsNext(kind)
  /\ kind \in DOMAIN basis.entries
  /\ result' = SumRows(result, Scaled(basis.entries[kind], net[kind]))
  /\ pending' = pending \ {kind}
  /\ UNCHANGED <<certificates, equation, outcome>>

UnknownKind(kind) ==
  /\ outcome = "adding" /\ IsNext(kind)
  /\ kind \notin DOMAIN basis.entries
  /\ outcome' = "unknown kind"
  /\ UNCHANGED <<certificates, equation, pending, result>>

Finish ==
  /\ outcome = "adding" /\ pending = {}
  /\ outcome' = "point"
  /\ UNCHANGED <<certificates, equation, pending, result>>

BasisNext ==
  \/ \E b \in Bases, proof \in ProofIds : Certify(b, proof)
  \/ \E b \in Bases, delta \in Deltas, scalar \in Blindings : Evaluate(b, delta, scalar)
  \/ \E kind \in ResourceKinds : AddRow(kind) \/ UnknownKind(kind)
  \/ Finish

BasisSpec == BasisInit /\ [][BasisNext]_basisVars
-----------------------------------------------------------------------------
(* Type invariant: points and deltas have no zero coefficients.               *)
BasisTypeOK ==
  /\ basis \in Bases /\ blinding \in Int
  /\ net \in [DOMAIN net -> Int \ {0}] /\ DOMAIN net \subseteq ResourceKinds
  /\ pending \subseteq DOMAIN net
  /\ result \in [DOMAIN result -> Int \ {0}]
  /\ outcome \in {"idle", "adding", "point", "unknown kind"}

(* What the rows of some kinds give a symbol, and the symbols of those rows.  *)
RowsOf(symbol) == [kind \in DOMAIN net |-> net[kind] * Quantity(basis.entries[kind], symbol)]

CommittedTo(symbol, kinds) ==
  (IF symbol = Generator THEN blinding ELSE 0) + SumFunctionOnSet(RowsOf(symbol), kinds)

SymbolsOf(kinds) == {Generator} \cup UNION {DOMAIN basis.entries[kind] : kind \in kinds}

(* point returns the formal sum it documents, and raises only for a row that  *)
(* the table has no entry for.                                                *)
PointIsDelta ==
  /\ outcome = "point" =>
       /\ DOMAIN net \subseteq DOMAIN basis.entries
       /\ DOMAIN result \subseteq SymbolsOf(DOMAIN net)
       /\ \A symbol \in SymbolsOf(DOMAIN net) :
            Quantity(result, symbol) = CommittedTo(symbol, DOMAIN net)
  /\ outcome = "unknown kind" => ~(DOMAIN net \subseteq DOMAIN basis.entries)

(* An unbalanced equation whose binding key is known: the test                *)
(* admits_forged_binding_signature.                                           *)
AdmitsForgery == outcome = "point" /\ DOMAIN net # {} /\ IsKnownMultiple(result)

(* Under a table with the root of a certificate no unbalanced equation has a  *)
(* known key, whoever made the table and whatever else was certified.         *)
CertifiedRootBinds ==
  AdmitsForgery => \A certificate \in certificates : certificate.root # Root(basis)
-----------------------------------------------------------------------------
(* The inductive invariant: certified roots are those of honest tables; the   *)
(* point is the sum of the rows added so far; and under an honest table they  *)
(* can be read off the point.                                                 *)
CertifiedHonest ==
  \A certificate \in certificates :
    certificate.root.entries = Honest(DOMAIN certificate.root.entries)

RowsAdded ==
  LET added == DOMAIN net \ pending IN
  /\ added \subseteq DOMAIN basis.entries
  /\ DOMAIN result \subseteq SymbolsOf(added)
  /\ \A symbol \in SymbolsOf(DOMAIN basis.entries) :
       Quantity(result, symbol) = CommittedTo(symbol, added)

RowsReadable ==
  basis.entries = Honest(DOMAIN basis.entries) =>
    \A kind \in ResourceKinds :
      Quantity(result, SymbolOf[kind]) = IF kind \in pending THEN 0 ELSE Quantity(net, kind)

BasisInv ==
  /\ BasisTypeOK
  /\ IsFiniteSet(DOMAIN net)
  /\ CertifiedHonest
  /\ RowsAdded
  /\ RowsReadable
  /\ outcome = "point" => pending = {}
  /\ outcome = "unknown kind" => ~(DOMAIN net \subseteq DOMAIN basis.entries)
=============================================================================
