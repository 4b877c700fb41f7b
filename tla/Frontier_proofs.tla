---------------------------- MODULE Frontier_proofs ----------------------------
(* Theorems about the frontier reference model, for all actions, tags, kinds, *)
(* candidates, tables and deltas.  Summaries: what callers hold is            *)
(* well-formed and the union of its leaves, and composition is commutative    *)
(* and associative on it, where it is defined and in what it returns.         *)
(* Tables: the point of a delta is the sum it documents, and under an honest  *)
(* table the row of a kind can be read off it.                                *)
EXTENDS SemanticSummary, KindBasis, FiniteSetTheorems, TLAPS

-----------------------------------------------------------------------------
(* Rows in normal form: functions without zeros.  Two of them are equal when  *)
(* they give every key the same quantity.                                     *)
Normal(rows) == rows \in [DOMAIN rows -> Int \ {0}]

LEMMA NonzeroRowsNormal ==
  ASSUME NEW rows, \A key \in DOMAIN rows : rows[key] \in Int
  PROVE  /\ Normal(NonzeroRows(rows))
         /\ DOMAIN NonzeroRows(rows) \subseteq DOMAIN rows
         /\ \A key : Quantity(NonzeroRows(rows), key) = Quantity(rows, key)
BY DEF Normal, NonzeroRows, Quantity

LEMMA QuantityInt ==
  ASSUME NEW rows, Normal(rows)
  PROVE  \A key : /\ Quantity(rows, key) \in Int
                   /\ key \in DOMAIN rows <=> Quantity(rows, key) # 0
BY DEF Normal, Quantity

LEMMA SumRowsNormal ==
  ASSUME NEW left, NEW right, Normal(left), Normal(right)
  PROVE  /\ Normal(SumRows(left, right))
         /\ DOMAIN SumRows(left, right) \subseteq DOMAIN left \cup DOMAIN right
         /\ \A key : Quantity(SumRows(left, right), key)
                        = Quantity(left, key) + Quantity(right, key)
<1> DEFINE sum == [key \in DOMAIN left \cup DOMAIN right |->
                     Quantity(left, key) + Quantity(right, key)]
<1>1. \A key \in DOMAIN sum : sum[key] \in Int
  BY QuantityInt
<1>2. SumRows(left, right) = NonzeroRows(sum)
  BY DEF SumRows
<1>3. \A key : Quantity(sum, key) = Quantity(left, key) + Quantity(right, key)
  BY QuantityInt DEF Quantity
<1>4. /\ Normal(NonzeroRows(sum)) /\ DOMAIN NonzeroRows(sum) \subseteq DOMAIN sum
      /\ \A key : Quantity(NonzeroRows(sum), key) = Quantity(sum, key)
  BY <1>1, NonzeroRowsNormal
<1>. QED
  BY <1>2, <1>3, <1>4

LEMMA RowsEqual ==
  ASSUME NEW left, NEW right, Normal(left), Normal(right),
         \A key : Quantity(left, key) = Quantity(right, key)
  PROVE  left = right
<1>1. DOMAIN left = DOMAIN right
  BY QuantityInt
<1>2. \A key \in DOMAIN left : left[key] = right[key]
  BY <1>1 DEF Quantity
<1>. QED
  BY <1>1, <1>2 DEF Normal

LEMMA SumRowsCommutes ==
  ASSUME NEW left, NEW right, Normal(left), Normal(right)
  PROVE  SumRows(left, right) = SumRows(right, left)
<1>1. \A key : Quantity(SumRows(left, right), key) = Quantity(SumRows(right, left), key)
  BY SumRowsNormal, QuantityInt
<1>. QED
  BY <1>1, SumRowsNormal, RowsEqual

LEMMA SumRowsAssociates ==
  ASSUME NEW x, NEW y, NEW z, Normal(x), Normal(y), Normal(z)
  PROVE  SumRows(SumRows(x, y), z) = SumRows(x, SumRows(y, z))
<1>1. Normal(SumRows(x, y)) /\ Normal(SumRows(y, z))
  BY SumRowsNormal
<1>2. \A key : /\ Quantity(SumRows(SumRows(x, y), z), key)
                     = Quantity(x, key) + Quantity(y, key) + Quantity(z, key)
                /\ Quantity(SumRows(x, SumRows(y, z)), key)
                     = Quantity(x, key) + Quantity(y, key) + Quantity(z, key)
  <2>. TAKE key
  <2>1. /\ Quantity(SumRows(SumRows(x, y), z), key)
             = Quantity(SumRows(x, y), key) + Quantity(z, key)
        /\ Quantity(SumRows(x, SumRows(y, z)), key)
             = Quantity(x, key) + Quantity(SumRows(y, z), key)
        /\ Quantity(SumRows(x, y), key) = Quantity(x, key) + Quantity(y, key)
        /\ Quantity(SumRows(y, z), key) = Quantity(y, key) + Quantity(z, key)
    BY <1>1, SumRowsNormal
  <2>2. /\ Quantity(x, key) \in Int /\ Quantity(y, key) \in Int
        /\ Quantity(z, key) \in Int
    BY QuantityInt
  <2>. QED
    BY <2>1, <2>2
<1>3. Normal(SumRows(SumRows(x, y), z)) /\ Normal(SumRows(x, SumRows(y, z)))
  BY <1>1, SumRowsNormal
<1>. QED
  BY <1>2, <1>3, RowsEqual

-----------------------------------------------------------------------------
(* Sums.  Induction over a finite set, with a set of sets for the predicate:   *)
(* a smallest subset that is not in the set cannot be.                        *)
LEMMA FiniteInduction ==
  ASSUME NEW S, IsFiniteSet(S), NEW F, {} \in F,
         \A T \in SUBSET S : T # {} /\ (\A x \in T : T \ {x} \in F) => T \in F
  PROVE  SUBSET S \subseteq F
<1> SUFFICES ASSUME NEW U \in SUBSET S, U \notin F
             PROVE  FALSE
  OBVIOUS
<1> DEFINE Bad == {T \in SUBSET S : T \notin F}
<1>1. IsWellFoundedOn(StrictSubsetOrdering(S), SUBSET S)
  <2>1. FiniteSubsetsOf(S) = SUBSET S
    BY FS_FiniteSubsetsOfFinite, Zenon
  <2>2. IsWellFoundedOn(StrictSubsetOrdering(S), FiniteSubsetsOf(S))
    BY FS_StrictSubsetOrderingWellFounded, Zenon
  <2>. QED
    BY <2>1, <2>2, Zenon
<1>2. PICK T \in Bad : \A V \in Bad : ~(<<V, T>> \in StrictSubsetOrdering(S))
  <2>1. Bad \subseteq SUBSET S /\ Bad # {}
    OBVIOUS
  <2> HIDE DEF Bad
  <2>. QED
    BY <1>1, <2>1, WFMin, Zenon
<1>3. ASSUME NEW x \in T
      PROVE  T \ {x} \in F
  <2>1. SUFFICES ASSUME T \ {x} \in Bad
                 PROVE  FALSE
    BY <1>2
  <2>2. <<T \ {x}, T>> \in StrictSubsetOrdering(S)
    <3>1. T \in SUBSET S /\ T \ {x} \in SUBSET S /\ T \ {x} \subseteq T
      BY <1>2
    <3>2. T \ {x} # T
      BY <1>3
    <3>. QED
      BY <3>1, <3>2 DEF StrictSubsetOrdering
  <2>. QED
    BY <1>2, <2>1, <2>2
<1>. QED
  BY <1>2, <1>3

(* The equations of the function that a sum over S is read from.              *)
Some(s) == CHOOSE x \in s : TRUE
SumStep(fun, S, h) == [s \in SUBSET S |-> IF s = {} THEN 0 ELSE fun[Some(s)] + h[s \ {Some(s)}]]

LEMMA SumIs ==
  ASSUME NEW fun, NEW S
  PROVE  SumFunctionOnSet(fun, S) = (CHOOSE h : h = SumStep(fun, S, h))[S]
BY DEF SumFunctionOnSet, FoldFunctionOnSet, MapThenFoldSet, SumStep, Some

(* A function with the equations of the sum exists on the subsets of a finite *)
(* set, and is determined by them.                                            *)
LEMMA StepUnique ==
  ASSUME NEW fun, NEW S, IsFiniteSet(S), NEW T \in SUBSET S,
         NEW g, NEW h, g = SumStep(fun, S, g), h = SumStep(fun, T, h)
  PROVE  \A s \in SUBSET T : g[s] = h[s]
<1> DEFINE Same == {s \in SUBSET T : g[s] = h[s]}
<1>1. IsFiniteSet(T)
  BY FS_Subset
<1>2. \A s \in SUBSET T :
        /\ g[s] = IF s = {} THEN 0 ELSE fun[Some(s)] + g[s \ {Some(s)}]
        /\ h[s] = IF s = {} THEN 0 ELSE fun[Some(s)] + h[s \ {Some(s)}]
  BY DEF SumStep
<1>3. {} \in Same
  BY <1>2
<1>4. ASSUME NEW s \in SUBSET T, s # {}, \A x \in s : s \ {x} \in Same
      PROVE  s \in Same
  <2>1. Some(s) \in s
    BY <1>4 DEF Some
  <2>2. g[s \ {Some(s)}] = h[s \ {Some(s)}]
    BY <1>4, <2>1
  <2>. QED
    BY <1>2, <1>4, <2>2
<1> HIDE DEF Same
<1>5. SUBSET T \subseteq Same
  BY <1>1, <1>3, <1>4, FiniteInduction
<1>. QED
  BY <1>5 DEF Same

LEMMA StepExists ==
  ASSUME NEW fun, NEW S, IsFiniteSet(S)
  PROVE  \E h : h = SumStep(fun, S, h)
<1> DEFINE Following(h, s) == IF s = {} THEN 0 ELSE fun[Some(s)] + h[s \ {Some(s)}]
           UpTo(n) == {s \in SUBSET S : Cardinality(s) <= n}
           Solvable == {T \in SUBSET S :
                          \E h : \A s \in UpTo(Cardinality(T)) : h[s] = Following(h, s)}
<1>1. ASSUME NEW s \in SUBSET S
      PROVE  /\ IsFiniteSet(s) /\ Cardinality(s) \in Nat
             /\ Cardinality(s) = 0 <=> s = {}
             /\ \A x \in s : Cardinality(s \ {x}) = Cardinality(s) - 1
             /\ s # {} => Some(s) \in s
  BY FS_Subset, FS_CardinalityType, FS_EmptySet, FS_RemoveElement DEF Some
<1>2. {} \in Solvable
  <2> DEFINE h == [s \in {{}} |-> 0]
  <2>1. \A s \in UpTo(Cardinality({})) : h[s] = Following(h, s)
    BY <1>1, FS_EmptySet
  <2>. QED
    BY <2>1
<1>3. ASSUME NEW T \in SUBSET S, T # {}, \A x \in T : T \ {x} \in Solvable
      PROVE  T \in Solvable
  <2>1. PICK n : n = Cardinality(T) /\ n \in Nat
    BY <1>1
  <2>2. PICK x \in T : Cardinality(T \ {x}) = n - 1
    BY <1>1, <1>3, <2>1
  <2>3. PICK h : \A s \in UpTo(n - 1) : h[s] = Following(h, s)
    <3>1. \E h : \A s \in UpTo(Cardinality(T \ {x})) : h[s] = Following(h, s)
      BY <1>3
    <3>. QED
      BY <2>2, <3>1, Zenon
  <2> DEFINE k == [s \in SUBSET S |-> IF s \in UpTo(n - 1) THEN h[s] ELSE Following(h, s)]
  <2>4. ASSUME NEW s \in UpTo(n)
        PROVE  k[s] = Following(k, s)
    <3>1. k[s] = Following(h, s)
      BY <2>3
    <3>2. CASE s = {}
      BY <3>1, <3>2
    <3>3. CASE s # {}
      <4>1. s \ {Some(s)} \in UpTo(n - 1)
        BY <1>1, <2>1, <3>3
      <4>2. k[s \ {Some(s)}] = h[s \ {Some(s)}]
        BY <4>1
      <4>. QED
        BY <3>1, <3>3, <4>2
    <3>. QED
      BY <3>2, <3>3
  <2> HIDE DEF k
  <2>. QED
    BY <2>1, <2>4
<1> HIDE DEF Solvable
<1>4. S \in Solvable
  BY <1>2, <1>3, FiniteInduction
<1>5. PICK h : \A s \in UpTo(Cardinality(S)) : h[s] = Following(h, s)
  BY <1>4 DEF Solvable
<1> DEFINE k == [s \in SUBSET S |-> h[s]]
<1>6. \A s \in SUBSET S : s \in UpTo(Cardinality(S))
  BY FS_Subset
<1>7. \A s \in SUBSET S : k[s] = Following(k, s)
  BY <1>5, <1>6
<1>8. k = SumStep(fun, S, k)
  BY <1>7 DEF SumStep
<1>. QED
  BY <1>8

-----------------------------------------------------------------------------
(* The sum over a finite set: nothing, or one chosen value and the sum of the *)
(* others ...                                                                 *)
LEMMA SumEmpty ==
  ASSUME NEW fun
  PROVE  SumFunctionOnSet(fun, {}) = 0
<1> DEFINE h == CHOOSE h : h = SumStep(fun, {}, h)
<1>1. h = SumStep(fun, {}, h)
  BY StepExists, FS_EmptySet
<1>2. h[{}] = 0
  BY <1>1 DEF SumStep
<1>. QED
  BY <1>2, SumIs

LEMMA SumChosen ==
  ASSUME NEW fun, NEW S, IsFiniteSet(S), S # {}
  PROVE  /\ Some(S) \in S
         /\ SumFunctionOnSet(fun, S) = fun[Some(S)] + SumFunctionOnSet(fun, S \ {Some(S)})
<1> DEFINE T == S \ {Some(S)}
           h == CHOOSE h : h = SumStep(fun, S, h)
           k == CHOOSE k : k = SumStep(fun, T, k)
<1>1. Some(S) \in S
  BY DEF Some
<1>2. IsFiniteSet(T) /\ T \in SUBSET S
  BY FS_RemoveElement
<1>3. h = SumStep(fun, S, h)
  BY StepExists
<1>4. k = SumStep(fun, T, k)
  BY <1>2, StepExists
<1>5. SumFunctionOnSet(fun, S) = h[S] /\ SumFunctionOnSet(fun, T) = k[T]
  BY SumIs
<1> HIDE DEF h, k
<1>6. h[S] = fun[Some(S)] + h[T]
  BY <1>3 DEF SumStep
<1>7. h[T] = k[T]
  BY <1>2, <1>3, <1>4, StepUnique
<1>. QED
  BY <1>1, <1>5, <1>6, <1>7

(* ... and as addition commutes, it may be any of them.                       *)
LEMMA SumInt ==
  ASSUME NEW fun, NEW S, IsFiniteSet(S), \A x \in S : fun[x] \in Int
  PROVE  \A T \in SUBSET S : SumFunctionOnSet(fun, T) \in Int
<1> DEFINE Good == {T \in SUBSET S : SumFunctionOnSet(fun, T) \in Int}
<1>1. {} \in Good
  BY SumEmpty
<1>2. ASSUME NEW T \in SUBSET S, T # {}, \A x \in T : T \ {x} \in Good
      PROVE  T \in Good
  <2>1. PICK x \in T : SumFunctionOnSet(fun, T) = fun[x] + SumFunctionOnSet(fun, T \ {x})
    <3>1. IsFiniteSet(T)
      BY FS_Subset
    <3>. QED
      BY <1>2, <3>1, SumChosen
  <2>2. fun[x] \in Int /\ SumFunctionOnSet(fun, T \ {x}) \in Int
    BY <1>2
  <2>. QED
    BY <2>1, <2>2
<1> HIDE DEF Good
<1>3. SUBSET S \subseteq Good
  BY <1>1, <1>2, FiniteInduction
<1>. QED
  BY <1>3 DEF Good

LEMMA SumMember ==
  ASSUME NEW fun, NEW S, IsFiniteSet(S), \A x \in S : fun[x] \in Int, NEW member \in S
  PROVE  SumFunctionOnSet(fun, S) = fun[member] + SumFunctionOnSet(fun, S \ {member})
<1> DEFINE Total(T) == SumFunctionOnSet(fun, T)
           Good == {T \in SUBSET S : \A x \in T : Total(T) = fun[x] + Total(T \ {x})}
<1>1. {} \in Good
  OBVIOUS
<1>2. ASSUME NEW T \in SUBSET S, T # {}, \A x \in T : T \ {x} \in Good
      PROVE  T \in Good
  <2> SUFFICES ASSUME NEW x \in T
               PROVE  Total(T) = fun[x] + Total(T \ {x})
    OBVIOUS
  <2>1. PICK y : y = Some(T) /\ y \in T /\ Total(T) = fun[y] + Total(T \ {y})
    <3>1. IsFiniteSet(T)
      BY FS_Subset
    <3>. QED
      BY <1>2, <3>1, SumChosen
  <2>2. CASE x = y
    BY <2>1, <2>2
  <2>3. CASE x # y
    <3> DEFINE U == T \ {x, y}
    <3>1. (T \ {y}) \ {x} = U /\ (T \ {x}) \ {y} = U
      OBVIOUS
    <3>2. Total(T \ {y}) = fun[x] + Total(U)
      BY <1>2, <2>1, <2>3, <3>1
    <3>3. Total(T \ {x}) = fun[y] + Total(U)
      BY <1>2, <2>1, <2>3, <3>1
    <3>4. fun[x] \in Int /\ fun[y] \in Int /\ Total(U) \in Int
      BY <2>1, SumInt
    <3> HIDE DEF Total, U
    <3>. QED
      BY <2>1, <3>2, <3>3, <3>4
  <2>. QED
    BY <2>2, <2>3
<1> HIDE DEF Good
<1>3. S \in Good
  BY <1>1, <1>2, FiniteInduction
<1>. QED
  BY <1>3 DEF Good

(* The sum over the union of disjoint sets.                                   *)
LEMMA SumUnion ==
  ASSUME NEW fun, NEW S, NEW T, IsFiniteSet(S), IsFiniteSet(T), S \cap T = {},
         \A x \in S \cup T : fun[x] \in Int
  PROVE  SumFunctionOnSet(fun, S \cup T)
           = SumFunctionOnSet(fun, S) + SumFunctionOnSet(fun, T)
<1> DEFINE Total(U) == SumFunctionOnSet(fun, U)
           Good == {U \in SUBSET T : Total(S \cup U) = Total(S) + Total(U)}
<1>1. IsFiniteSet(S \cup T)
  BY FS_Union
<1>2. \A U \in SUBSET (S \cup T) : Total(U) \in Int
  BY <1>1, SumInt
<1>3. {} \in Good
  <2>1. S \cup {} = S /\ Total({}) = 0 /\ Total(S) \in Int
    BY <1>2, SumEmpty
  <2> HIDE DEF Total
  <2>. QED
    BY <2>1
<1>4. ASSUME NEW U \in SUBSET T, U # {}, \A x \in U : U \ {x} \in Good
      PROVE  U \in Good
  <2>1. PICK x \in U : Total(S \cup (U \ {x})) = Total(S) + Total(U \ {x})
    BY <1>4
  <2>2. IsFiniteSet(U) /\ IsFiniteSet(S \cup U)
    BY FS_Subset, FS_Union
  <2>3. Total(U) = fun[x] + Total(U \ {x})
    BY <2>2, SumMember
  <2>4. Total(S \cup U) = fun[x] + Total((S \cup U) \ {x})
    BY <2>2, SumMember
  <2>5. (S \cup U) \ {x} = S \cup (U \ {x})
    OBVIOUS
  <2>6. fun[x] \in Int /\ Total(S) \in Int /\ Total(U \ {x}) \in Int
    BY <1>2
  <2>7. Total(S \cup U) = Total(S) + Total(U)
    <3> HIDE DEF Total
    <3>1. Total(S \cup U) = fun[x] + Total(S \cup (U \ {x}))
      BY <2>4, <2>5, Zenon
    <3>. QED
      BY <2>1, <2>3, <2>6, <3>1
  <2>. QED
    BY <2>7
<1> HIDE DEF Good
<1>5. T \in Good
  BY <1>3, <1>4, FiniteInduction
<1>. QED
  BY <1>5 DEF Good

-----------------------------------------------------------------------------
(* Tuples without duplicates are sets.                                        *)
LEMMA JoinedDisjoint ==
  ASSUME NEW universe, NEW left \in SUBSET universe, NEW right \in SUBSET universe
  PROVE  /\ Members(Joined(left, right, universe)) = left \cup right
         /\ left \cap right = {} => Unique(Joined(left, right, universe))
BY DEF Members, Joined, Unique, Concatenated, OnceEach

(* Construction returns a summary when no check finds a fault, and only then. *)
LEMMA ConstructReturns ==
  ASSUME NEW fields
  PROVE  Construct(fields).status = "returned" =>
           /\ \A n \in 1 .. 8 : ~ConstructionFault(fields, ConstructionOrder[n])
           /\ Construct(fields) = Returned(Summary(fields))
<1> DEFINE faults == {n \in 1 .. 8 : ConstructionFault(fields, ConstructionOrder[n])}
<1>1. CASE faults = {}
  BY <1>1 DEF Construct
<1>2. CASE faults # {}
  <2>1. Construct(fields) = Raised(ConstructionOrder[Min(faults)])
    BY <1>2 DEF Construct
  <2>. QED
    BY <2>1 DEF Raised
<1>. QED
  BY <1>1, <1>2

LEMMA FaultlessConstruct ==
  ASSUME NEW fields, \A check : ~ConstructionFault(fields, check)
  PROVE  Construct(fields) = Returned(Summary(fields))
BY DEF Construct

LEMMA Checks ==
  /\ {ConstructionOrder[n] : n \in 1 .. 8}
       = {"ActionsRepeat", "ConsumedRepeat", "CreatedRepeat", "FactsRepeat",
          "RowsNotNormal", "RolesCollide", "CoverageInexact", "BindingEmpty"}
  /\ DOMAIN ComposeOrder = 1 .. 8
  /\ {ComposeOrder[n] : n \in 1 .. 8}
       = {"ContextMismatch", "BasisMismatch", "ProfileMismatch", "DuplicateAction",
          "DuplicateConsumption", "DuplicateCreation", "DuplicateFact", "TagCollision"}
BY DEF ConstructionOrder, ComposeOrder

(* What construction accepts is well-formed.                                  *)
LEMMA ReturnedWellFormed ==
  ASSUME NEW fields,
         fields.actions \in [Actions -> Nat], Members(fields.actions) # {},
         fields.consumed \in [Tags -> Nat], fields.created \in [Tags -> Nat],
         DOMAIN fields.rows \subseteq Kinds, Normal(fields.rows),
         Construct(fields).status = "returned"
  PROVE  WellFormed(Construct(fields).summary)
<1>1. /\ ~ConstructionFault(fields, "RolesCollide")
      /\ ~ConstructionFault(fields, "CoverageInexact")
      /\ ~ConstructionFault(fields, "BindingEmpty")
  BY ConstructReturns DEF ConstructionOrder
<1>2. /\ Members(fields.consumed) \cap Members(fields.created) = {}
      /\ Members(fields.facts) = Members(fields.consumed) \cup Members(fields.created)
      /\ Empty \notin {fields.context, fields.basis, fields.profile}
  BY <1>1 DEF ConstructionFault, ContentFault
<1>3. Construct(fields).summary = Summary(fields)
  BY ConstructReturns DEF Returned
<1>4. /\ Members(fields.actions) \subseteq Actions
      /\ Members(fields.consumed) \subseteq Tags /\ Members(fields.created) \subseteq Tags
  BY DEF Members
<1>. QED
  BY <1>2, <1>3, <1>4 DEF WellFormed, Summary, TagsOf, Normal

LEMMA SingletonWellFormed ==
  ASSUME NEW c \in Candidates, Singleton(c).status = "returned"
  PROVE  WellFormed(Singleton(c).summary)
<1> DEFINE fields == [context |-> c.context, basis |-> c.basis, profile |-> c.profile,
                      actions |-> OnceEach({c.action}, Actions),
                      consumed |-> c.consumed, created |-> c.created,
                      facts |-> Concatenated(c.consumed, c.created),
                      rows |-> NonzeroRows(c.delta)]
<1>1. Singleton(c) = Construct(fields)
  BY DEF Singleton
<1>2. fields.actions \in [Actions -> Nat] /\ Members(fields.actions) # {}
  BY CandidatesAssumption DEF OnceEach, Members
<1>3. fields.consumed \in [Tags -> Nat] /\ fields.created \in [Tags -> Nat]
  BY CandidatesAssumption
<1>4. Normal(fields.rows) /\ DOMAIN fields.rows \subseteq Kinds
  BY CandidatesAssumption, NonzeroRowsNormal
<1> HIDE DEF fields
<1>. QED
  BY <1>1, <1>2, <1>3, <1>4, ReturnedWellFormed

-----------------------------------------------------------------------------
(* Composition is a partial operation: the union, where the two operands are  *)
(* bound alike and share nothing.                                             *)
Compatible(left, right) ==
  /\ left.context = right.context /\ left.basis = right.basis
  /\ left.profile = right.profile
  /\ left.actions \cap right.actions = {}
  /\ TagsOf(left) \cap TagsOf(right) = {}

Merged(left, right) ==
  [context |-> left.context, basis |-> left.basis, profile |-> left.profile,
   actions |-> left.actions \cup right.actions,
   consumed |-> left.consumed \cup right.consumed,
   created |-> left.created \cup right.created,
   facts |-> left.facts \cup right.facts,
   rows |-> SumRows(left.rows, right.rows)]

LEMMA CompatibleComposes ==
  ASSUME NEW left, NEW right, WellFormed(left), WellFormed(right), Compatible(left, right)
  PROVE  /\ Composition(left, right) = Returned(Merged(left, right))
         /\ WellFormed(Merged(left, right))
<1> DEFINE fields == [context |-> left.context, basis |-> left.basis,
                      profile |-> left.profile,
                      actions |-> Joined(left.actions, right.actions, Actions),
                      consumed |-> Joined(left.consumed, right.consumed, Tags),
                      created |-> Joined(left.created, right.created, Tags),
                      facts |-> Joined(left.facts, right.facts, Tags),
                      rows |-> SumRows(left.rows, right.rows)]
<1>1. \A check : ~ComposeFault(left, right, check)
  BY DEF ComposeFault, Compatible, WellFormed, TagsOf
<1>2. Composition(left, right) = Construct(fields)
  BY <1>1 DEF Composition
<1>3. /\ left.actions \in SUBSET Actions /\ right.actions \in SUBSET Actions
      /\ left.consumed \in SUBSET Tags /\ right.consumed \in SUBSET Tags
      /\ left.created \in SUBSET Tags /\ right.created \in SUBSET Tags
      /\ left.facts \in SUBSET Tags /\ right.facts \in SUBSET Tags
  BY DEF WellFormed, TagsOf
<1>4. /\ left.actions \cap right.actions = {} /\ left.consumed \cap right.consumed = {}
      /\ left.created \cap right.created = {} /\ left.facts \cap right.facts = {}
  BY DEF WellFormed, Compatible, TagsOf
<1>5. /\ Unique(fields.actions) /\ Members(fields.actions) = left.actions \cup right.actions
      /\ Unique(fields.consumed)
      /\ Members(fields.consumed) = left.consumed \cup right.consumed
      /\ Unique(fields.created)
      /\ Members(fields.created) = left.created \cup right.created
      /\ Unique(fields.facts) /\ Members(fields.facts) = left.facts \cup right.facts
  BY <1>3, <1>4, JoinedDisjoint
<1>6. Normal(left.rows) /\ Normal(right.rows)
  BY DEF WellFormed, Normal
<1>7. Normal(fields.rows) /\ DOMAIN fields.rows \subseteq Kinds
  BY <1>6, SumRowsNormal DEF WellFormed
<1>8. /\ fields.context = left.context /\ fields.basis = left.basis
      /\ fields.profile = left.profile /\ fields.rows = SumRows(left.rows, right.rows)
  OBVIOUS
<1> HIDE DEF fields
<1>9. Members(fields.consumed) \cap Members(fields.created) = {}
  BY <1>5 DEF WellFormed, Compatible, TagsOf
<1>10. Members(fields.facts) = Members(fields.consumed) \cup Members(fields.created)
  BY <1>5 DEF WellFormed, TagsOf
<1>11. \A check : ~ConstructionFault(fields, check)
  <2>1. \A kind \in DOMAIN fields.rows : fields.rows[kind] # 0
    BY <1>7 DEF Normal
  <2>2. Empty \notin {fields.context, fields.basis, fields.profile}
    BY <1>8 DEF WellFormed
  <2>. QED
    BY <1>5, <1>9, <1>10, <2>1, <2>2 DEF ConstructionFault, RepeatFault, ContentFault
<1>12. Summary(fields) = Merged(left, right)
  BY <1>5, <1>8 DEF Summary, Merged
<1>13. WellFormed(Summary(fields))
  BY <1>3, <1>5, <1>7, <1>8, <1>9, <1>10
  DEF WellFormed, Summary, TagsOf, Normal
<1>. QED
  BY <1>2, <1>11, <1>12, <1>13, FaultlessConstruct

LEMMA IncompatibleRaises ==
  ASSUME NEW left, NEW right, WellFormed(left), WellFormed(right), ~Compatible(left, right)
  PROVE  Composition(left, right).status = "raised"
<1> DEFINE faults == {n \in DOMAIN ComposeOrder : ComposeFault(left, right, ComposeOrder[n])}
<1>1. PICK check \in {"ContextMismatch", "BasisMismatch", "ProfileMismatch",
                      "DuplicateAction", "TagCollision"} : ComposeFault(left, right, check)
  BY DEF Compatible, ComposeFault
<1>2. \E n \in DOMAIN ComposeOrder : ComposeOrder[n] = check
  BY Checks
<1>3. faults # {}
  BY <1>1, <1>2
<1>4. Composition(left, right) = Raised(ComposeOrder[Min(faults)])
  BY <1>3 DEF Composition
<1>. QED
  BY <1>4 DEF Raised

LEMMA CompositionValue ==
  ASSUME NEW left, NEW right, WellFormed(left), WellFormed(right)
  PROVE  Value(Composition(left, right))
           = IF Compatible(left, right) THEN {Merged(left, right)} ELSE {}
BY CompatibleComposes, IncompatibleRaises DEF Value, Returned, Raised

LEMMA CompositionCommutes ==
  ASSUME NEW a, NEW b, WellFormed(a), WellFormed(b)
  PROVE  Value(Composition(a, b)) = Value(Composition(b, a))
<1>1. Compatible(a, b) <=> Compatible(b, a)
  BY DEF Compatible
<1>2. CASE Compatible(a, b)
  <2>1. SumRows(a.rows, b.rows) = SumRows(b.rows, a.rows)
    BY SumRowsCommutes DEF WellFormed, Normal
  <2>2. /\ a.actions \cup b.actions = b.actions \cup a.actions
        /\ a.consumed \cup b.consumed = b.consumed \cup a.consumed
        /\ a.created \cup b.created = b.created \cup a.created
        /\ a.facts \cup b.facts = b.facts \cup a.facts
    OBVIOUS
  <2>3. Merged(a, b) = Merged(b, a)
    BY <1>2, <2>1, <2>2 DEF Merged, Compatible
  <2>. QED
    BY <1>1, <1>2, <2>3, CompositionValue
<1>3. CASE ~Compatible(a, b)
  BY <1>1, <1>3, CompositionValue
<1>. QED
  BY <1>2, <1>3

(* The two groupings of three summaries, each in the form of one condition.   *)
LEMMA LeftGroupingIs ==
  ASSUME NEW a, NEW b, NEW c, WellFormed(a), WellFormed(b), WellFormed(c)
  PROVE  LeftGrouping(a, b, c)
           = IF Compatible(a, b) /\ Compatible(Merged(a, b), c)
             THEN {Merged(Merged(a, b), c)} ELSE {}
<1>1. CASE Compatible(a, b)
  <2>1. WellFormed(Merged(a, b)) /\ Value(Composition(a, b)) = {Merged(a, b)}
    BY <1>1, CompatibleComposes, CompositionValue
  <2>2. LeftGrouping(a, b, c) = Value(Composition(Merged(a, b), c))
    BY <2>1 DEF LeftGrouping
  <2>. QED
    BY <1>1, <2>1, <2>2, CompositionValue
<1>2. CASE ~Compatible(a, b)
  <2>1. Value(Composition(a, b)) = {}
    BY <1>2, CompositionValue
  <2>. QED
    BY <1>2, <2>1 DEF LeftGrouping
<1>. QED
  BY <1>1, <1>2

LEMMA RightGroupingIs ==
  ASSUME NEW a, NEW b, NEW c, WellFormed(a), WellFormed(b), WellFormed(c)
  PROVE  RightGrouping(a, b, c)
           = IF Compatible(b, c) /\ Compatible(a, Merged(b, c))
             THEN {Merged(a, Merged(b, c))} ELSE {}
<1>1. CASE Compatible(b, c)
  <2>1. WellFormed(Merged(b, c)) /\ Value(Composition(b, c)) = {Merged(b, c)}
    BY <1>1, CompatibleComposes, CompositionValue
  <2>2. RightGrouping(a, b, c) = Value(Composition(a, Merged(b, c)))
    BY <2>1 DEF RightGrouping
  <2>. QED
    BY <1>1, <2>1, <2>2, CompositionValue
<1>2. CASE ~Compatible(b, c)
  <2>1. Value(Composition(b, c)) = {}
    BY <1>2, CompositionValue
  <2>. QED
    BY <1>2, <2>1 DEF RightGrouping
<1>. QED
  BY <1>1, <1>2

LEMMA CompositionAssociates ==
  ASSUME NEW a, NEW b, NEW c, WellFormed(a), WellFormed(b), WellFormed(c)
  PROVE  LeftGrouping(a, b, c) = RightGrouping(a, b, c)
<1>1. /\ TagsOf(Merged(a, b)) = TagsOf(a) \cup TagsOf(b)
      /\ TagsOf(Merged(b, c)) = TagsOf(b) \cup TagsOf(c)
  BY DEF TagsOf, Merged
<1>2. Compatible(a, b) /\ Compatible(Merged(a, b), c)
        <=> Compatible(b, c) /\ Compatible(a, Merged(b, c))
  <2>1. ASSUME Compatible(a, b), Compatible(Merged(a, b), c)
        PROVE  Compatible(b, c) /\ Compatible(a, Merged(b, c))
    BY <1>1, <2>1 DEF Compatible, Merged
  <2>2. ASSUME Compatible(b, c), Compatible(a, Merged(b, c))
        PROVE  Compatible(a, b) /\ Compatible(Merged(a, b), c)
    BY <1>1, <2>2 DEF Compatible, Merged
  <2>. QED
    BY <2>1, <2>2
<1>3. Merged(Merged(a, b), c) = Merged(a, Merged(b, c))
  <2>1. SumRows(SumRows(a.rows, b.rows), c.rows) = SumRows(a.rows, SumRows(b.rows, c.rows))
    BY SumRowsAssociates DEF WellFormed, Normal
  <2>2. /\ (a.actions \cup b.actions) \cup c.actions = a.actions \cup (b.actions \cup c.actions)
        /\ (a.consumed \cup b.consumed) \cup c.consumed
             = a.consumed \cup (b.consumed \cup c.consumed)
        /\ (a.created \cup b.created) \cup c.created = a.created \cup (b.created \cup c.created)
        /\ (a.facts \cup b.facts) \cup c.facts = a.facts \cup (b.facts \cup c.facts)
    OBVIOUS
  <2>. QED
    BY <2>1, <2>2 DEF Merged
<1>. QED
  BY <1>2, <1>3, LeftGroupingIs, RightGroupingIs

-----------------------------------------------------------------------------
(* A summary of one candidate, and what its delta adds to the net quantities. *)
LEMMA SingletonFields ==
  ASSUME NEW c \in Candidates, Singleton(c).status = "returned"
  PROVE  LET summary == Singleton(c).summary IN
         /\ summary.context = c.context /\ summary.basis = c.basis
         /\ summary.profile = c.profile
         /\ summary.actions = {c.action}
         /\ summary.consumed = Members(c.consumed)
         /\ summary.created = Members(c.created)
         /\ summary.rows = NonzeroRows(c.delta)
<1> DEFINE fields == [context |-> c.context, basis |-> c.basis, profile |-> c.profile,
                      actions |-> OnceEach({c.action}, Actions),
                      consumed |-> c.consumed, created |-> c.created,
                      facts |-> Concatenated(c.consumed, c.created),
                      rows |-> NonzeroRows(c.delta)]
<1>1. Singleton(c) = Construct(fields)
  BY DEF Singleton
<1>2. Construct(fields) = Returned(Summary(fields))
  BY <1>1, ConstructReturns
<1>3. Singleton(c).summary = Summary(fields)
  BY <1>1, <1>2 DEF Returned
<1>4. Members(fields.actions) = {c.action}
  BY CandidatesAssumption DEF Members, OnceEach
<1>. QED
  BY <1>3, <1>4 DEF Summary

LEMMA DeltaInt ==
  ASSUME NEW kind, NEW leaf \in Candidates
  PROVE  /\ DeltaOf(kind)[leaf] = Quantity(leaf.delta, kind)
         /\ DeltaOf(kind)[leaf] \in Int
BY CandidatesAssumption DEF DeltaOf, Quantity

(* What is kept stays sound: it is the summary of its leaves.                 *)
LEMMA SingletonSound ==
  ASSUME NEW c \in Candidates, Singleton(c).status = "returned"
  PROVE  ItemSound([leaves |-> {c}, summary |-> Singleton(c).summary])
<1> DEFINE summary == Singleton(c).summary
<1>1. WellFormed(summary)
  BY SingletonWellFormed
<1>2. ASSUME NEW kind
      PROVE  Quantity(summary.rows, kind) = NetOf({c}, kind)
  <2>1. Quantity(summary.rows, kind) = Quantity(c.delta, kind)
    <3>1. summary.rows = NonzeroRows(c.delta)
      BY SingletonFields
    <3>2. \A key \in DOMAIN c.delta : c.delta[key] \in Int
      BY CandidatesAssumption
    <3>. QED
      BY <3>1, <3>2, NonzeroRowsNormal
  <2>2. SumFunctionOnSet(DeltaOf(kind), {c})
          = DeltaOf(kind)[c] + SumFunctionOnSet(DeltaOf(kind), {c} \ {c})
    <3>1. IsFiniteSet({c}) /\ \A x \in {c} : DeltaOf(kind)[x] \in Int
      BY DeltaInt, FS_Singleton
    <3>2. c \in {c}
      OBVIOUS
    <3>. QED
      BY <3>1, <3>2, SumMember, Zenon
  <2>3. {c} \ {c} = {}
    OBVIOUS
  <2>4. SumFunctionOnSet(DeltaOf(kind), {c} \ {c}) = 0
    BY <2>3, SumEmpty, Zenon
  <2>. QED
    BY <2>1, <2>2, <2>4, DeltaInt DEF NetOf
<1>3. IsFiniteSet({c})
  BY FS_Singleton
<1> HIDE DEF summary
<1>. QED
  BY <1>1, <1>2, <1>3 DEF ItemSound, summary

LEMMA LeavesApart ==
  ASSUME NEW left, NEW right, ItemSound(left), ItemSound(right),
         left.summary.actions \cap right.summary.actions = {}
  PROVE  left.leaves \cap right.leaves = {}
<1> SUFFICES ASSUME NEW leaf \in left.leaves, leaf \in right.leaves
             PROVE  FALSE
  OBVIOUS
<1>1. leaf \in Candidates /\ Singleton(leaf).status = "returned"
  BY DEF ItemSound
<1>2. Singleton(leaf).summary.actions = {leaf.action}
  BY <1>1, SingletonFields
<1>. QED
  BY <1>2 DEF ItemSound

LEMMA NetOfUnion ==
  ASSUME NEW left, NEW right, ItemSound(left), ItemSound(right),
         left.leaves \cap right.leaves = {}, NEW kind \in Kinds
  PROVE  Quantity(SumRows(left.summary.rows, right.summary.rows), kind)
           = NetOf(left.leaves \cup right.leaves, kind)
<1>1. Normal(left.summary.rows) /\ Normal(right.summary.rows)
  BY DEF ItemSound, WellFormed, Normal
<1>2. Quantity(SumRows(left.summary.rows, right.summary.rows), kind)
        = Quantity(left.summary.rows, kind) + Quantity(right.summary.rows, kind)
  BY <1>1, SumRowsNormal
<1>3. \A leaf \in left.leaves \cup right.leaves : DeltaOf(kind)[leaf] \in Int
  BY DeltaInt DEF ItemSound
<1>4. NetOf(left.leaves \cup right.leaves, kind)
        = NetOf(left.leaves, kind) + NetOf(right.leaves, kind)
  BY <1>3, SumUnion DEF ItemSound, NetOf
<1>. QED
  BY <1>2, <1>4 DEF ItemSound

LEMMA CompositionSound ==
  ASSUME NEW left, NEW right, ItemSound(left), ItemSound(right),
         Composition(left.summary, right.summary).status = "returned"
  PROVE  ItemSound([leaves |-> left.leaves \cup right.leaves,
                    summary |-> Composition(left.summary, right.summary).summary])
<1>1. WellFormed(left.summary) /\ WellFormed(right.summary)
  BY DEF ItemSound
<1>2. Compatible(left.summary, right.summary)
  BY <1>1, IncompatibleRaises
<1>3. PICK merged : /\ merged = Merged(left.summary, right.summary)
                    /\ merged = Composition(left.summary, right.summary).summary
                    /\ WellFormed(merged)
  BY <1>1, <1>2, CompatibleComposes DEF Returned
<1>4. /\ Bound(merged) = Bound(left.summary) /\ Bound(merged) = Bound(right.summary)
      /\ merged.actions = left.summary.actions \cup right.summary.actions
      /\ merged.consumed = left.summary.consumed \cup right.summary.consumed
      /\ merged.created = left.summary.created \cup right.summary.created
      /\ merged.rows = SumRows(left.summary.rows, right.summary.rows)
  BY <1>2, <1>3 DEF Merged, Compatible, Bound
<1>5. left.leaves \cap right.leaves = {}
  BY <1>2, LeavesApart DEF Compatible
<1>6. \A kind \in Kinds : Quantity(merged.rows, kind) = NetOf(left.leaves \cup right.leaves, kind)
  BY <1>4, <1>5, NetOfUnion
<1>7. IsFiniteSet(left.leaves \cup right.leaves)
  BY FS_Union DEF ItemSound
<1>8. PICK leaves : leaves = left.leaves \cup right.leaves
  OBVIOUS
<1>9. \A leaf \in leaves : /\ Singleton(leaf).status = "returned"
                           /\ Bound(Singleton(leaf).summary) = Bound(merged)
  BY <1>4, <1>8 DEF ItemSound
<1>10. /\ merged.actions = UNION {Singleton(leaf).summary.actions : leaf \in leaves}
       /\ merged.consumed = UNION {Singleton(leaf).summary.consumed : leaf \in leaves}
       /\ merged.created = UNION {Singleton(leaf).summary.created : leaf \in leaves}
  BY <1>4, <1>8 DEF ItemSound
<1>11. leaves \subseteq Candidates /\ leaves # {} /\ IsFiniteSet(leaves)
  BY <1>7, <1>8 DEF ItemSound
<1>12. \A kind \in Kinds : Quantity(merged.rows, kind) = NetOf(leaves, kind)
  BY <1>6, <1>8
<1>13. ItemSound([leaves |-> leaves, summary |-> merged])
  BY <1>3, <1>9, <1>10, <1>11, <1>12 DEF ItemSound
<1>. QED
  BY <1>3, <1>8, <1>13

(* Every call is answered from sound items and keeps sound items.             *)
THEOREM Invariant == Spec => []IInv
<1>1. Init => IInv
  BY DEF Init, IInv
<1>2. IInv /\ [Next]_vars => IInv'
  <2> SUFFICES ASSUME IInv, [Next]_vars
               PROVE  IInv'
    OBVIOUS
  <2>1. ASSUME NEW c \in Candidates, CallSingleton(c)
        PROVE  IInv'
    <3>1. \A item \in held' : ItemSound(item)
      BY <2>1, SingletonSound DEF CallSingleton, Keep, IInv
    <3>. QED
      BY <2>1, <3>1 DEF CallSingleton, IInv
  <2>2. ASSUME NEW left \in held, NEW right \in held, CallCompose(left, right)
        PROVE  IInv'
    <3>1. ItemSound(left) /\ ItemSound(right)
      BY DEF IInv
    <3>2. \A item \in held' : ItemSound(item)
      BY <2>2, <3>1, CompositionSound DEF CallCompose, Keep, IInv
    <3>. QED
      BY <2>2, <3>1, <3>2 DEF CallCompose, IInv
  <2>3. CASE UNCHANGED vars
    BY <2>3 DEF vars, IInv
  <2>. QED
    BY <2>1, <2>2, <2>3 DEF Next
<1>. QED
  BY <1>1, <1>2, PTL DEF Spec

(* Callers hold only well-formed summaries of known candidates.               *)
THEOREM TypeCorrect == Spec => []TypeOK
<1>1. IInv => TypeOK
  BY DEF IInv, TypeOK, ItemSound
<1>. QED
  BY <1>1, Invariant, PTL

(* A summary is the union of the candidates it was made from, row by row,     *)
(* although rows that cancelled on the way are gone from the operands.        *)
THEOREM Union == Spec => []FlatUnion
<1>1. ASSUME NEW item, ItemSound(item), NEW leaf \in item.leaves
      PROVE  LET of == Singleton(leaf).summary IN
             /\ leaf.context = item.summary.context
             /\ leaf.basis = item.summary.basis
             /\ leaf.profile = item.summary.profile
             /\ of.actions = {leaf.action}
             /\ of.consumed = Members(leaf.consumed)
             /\ of.created = Members(leaf.created)
  <2>1. /\ leaf \in Candidates /\ Singleton(leaf).status = "returned"
        /\ Bound(Singleton(leaf).summary) = Bound(item.summary)
    BY <1>1 DEF ItemSound
  <2>. QED
    BY <2>1, SingletonFields DEF Bound
<1>2. ASSUME IInv, NEW item \in held
      PROVE  /\ item.summary.actions = {leaf.action : leaf \in item.leaves}
             /\ item.summary.consumed = UNION {Members(leaf.consumed) : leaf \in item.leaves}
             /\ item.summary.created = UNION {Members(leaf.created) : leaf \in item.leaves}
  <2>1. ItemSound(item)
    BY <1>2 DEF IInv
  <2>2. \A leaf \in item.leaves :
          /\ Singleton(leaf).summary.actions = {leaf.action}
          /\ Singleton(leaf).summary.consumed = Members(leaf.consumed)
          /\ Singleton(leaf).summary.created = Members(leaf.created)
    BY <1>1, <2>1
  <2>3. /\ item.summary.actions = UNION {{leaf.action} : leaf \in item.leaves}
        /\ item.summary.consumed = UNION {Members(leaf.consumed) : leaf \in item.leaves}
        /\ item.summary.created = UNION {Members(leaf.created) : leaf \in item.leaves}
    BY <2>1, <2>2 DEF ItemSound
  <2>. QED
    BY <2>3
<1>3. IInv => FlatUnion
  BY <1>1, <1>2 DEF IInv, FlatUnion, ItemSound
<1>. QED
  BY <1>3, Invariant, PTL

(* Composition is commutative and associative on whatever callers hold, as a  *)
(* partial operation.                                                         *)
THEOREM Grouping == Spec => []GroupingIrrelevant
<1>1. IInv => GroupingIrrelevant
  BY CompositionCommutes, CompositionAssociates DEF IInv, ItemSound, GroupingIrrelevant
<1>. QED
  BY <1>1, Invariant, PTL

-----------------------------------------------------------------------------
(* The first fault.                                                           *)
LEMMA LeastFault ==
  ASSUME NEW faults \in SUBSET (1 .. 8), faults # {}
  PROVE  Min(faults) \in faults /\ \A n \in faults : Min(faults) <= n
<1>1. \E n \in faults : \A m \in faults : n <= m
  <2>1. CASE 1 \in faults \/ 2 \in faults \/ 3 \in faults
    <3>1. CASE 1 \in faults
      BY <3>1
    <3>2. CASE 1 \notin faults /\ 2 \in faults
      BY <3>2
    <3>3. CASE 1 \notin faults /\ 2 \notin faults /\ 3 \in faults
      BY <3>3
    <3>. QED
      BY <2>1, <3>1, <3>2, <3>3
  <2>2. CASE faults \cap {1, 2, 3} = {}
    <3>1. CASE 4 \in faults
      BY <2>2, <3>1
    <3>2. CASE 4 \notin faults /\ 5 \in faults
      BY <2>2, <3>2
    <3>3. CASE 4 \notin faults /\ 5 \notin faults /\ 6 \in faults
      BY <2>2, <3>3
    <3>4. CASE faults \cap {4, 5, 6} = {} /\ 7 \in faults
      BY <2>2, <3>4
    <3>5. CASE faults \cap {4, 5, 6, 7} = {}
      <4>1. ASSUME NEW m \in faults PROVE m = 8
        <5>1. m \in 1 .. 8 /\ m \notin {1, 2, 3} /\ m \notin {4, 5, 6, 7}
          BY <2>2, <3>5
        <5>. QED
          BY <5>1
      <4>2. 8 \in faults
        BY <4>1
      <4>. QED
        BY <4>1, <4>2
    <3>. QED
      BY <3>1, <3>2, <3>3, <3>4, <3>5
  <2>. QED
    BY <2>1, <2>2
<1>. QED
  BY <1>1 DEF Min

FaultsOf(left, right) ==
  {n \in DOMAIN ComposeOrder : ComposeFault(left, right, ComposeOrder[n])}

LEMMA ComposeOrderIs ==
  /\ DOMAIN ComposeOrder = 1 .. 8
  /\ ComposeOrder[1] = "ContextMismatch" /\ ComposeOrder[2] = "BasisMismatch"
  /\ ComposeOrder[3] = "ProfileMismatch" /\ ComposeOrder[4] = "DuplicateAction"
  /\ ComposeOrder[5] = "DuplicateConsumption" /\ ComposeOrder[6] = "DuplicateCreation"
  /\ ComposeOrder[7] = "DuplicateFact" /\ ComposeOrder[8] = "TagCollision"
BY DEF ComposeOrder

(* The faults of a pair, number by number.                                    *)
LEMMA FaultsListed ==
  ASSUME NEW left, NEW right
  PROVE  /\ FaultsOf(left, right) \in SUBSET (1 .. 8)
         /\ 1 \in FaultsOf(left, right) <=> left.context # right.context
         /\ 2 \in FaultsOf(left, right) <=> left.basis # right.basis
         /\ 3 \in FaultsOf(left, right) <=> left.profile # right.profile
         /\ 4 \in FaultsOf(left, right) <=> left.actions \cap right.actions # {}
         /\ 5 \in FaultsOf(left, right) <=> left.consumed \cap right.consumed # {}
         /\ 6 \in FaultsOf(left, right) <=> left.created \cap right.created # {}
         /\ 7 \in FaultsOf(left, right) <=> left.facts \cap right.facts # {}
         /\ 8 \in FaultsOf(left, right) <=> TagsOf(left) \cap TagsOf(right) # {}
<1>1. \A n \in 1 .. 8 :
        n \in FaultsOf(left, right) <=> ComposeFault(left, right, ComposeOrder[n])
  BY ComposeOrderIs DEF FaultsOf
<1>2. FaultsOf(left, right) \in SUBSET (1 .. 8)
  BY ComposeOrderIs DEF FaultsOf
<1>3. /\ ComposeFault(left, right, "ContextMismatch") <=> left.context # right.context
      /\ ComposeFault(left, right, "BasisMismatch") <=> left.basis # right.basis
      /\ ComposeFault(left, right, "ProfileMismatch") <=> left.profile # right.profile
      /\ ComposeFault(left, right, "DuplicateAction")
           <=> left.actions \cap right.actions # {}
      /\ ComposeFault(left, right, "DuplicateConsumption")
           <=> left.consumed \cap right.consumed # {}
      /\ ComposeFault(left, right, "DuplicateCreation")
           <=> left.created \cap right.created # {}
      /\ ComposeFault(left, right, "DuplicateFact") <=> left.facts \cap right.facts # {}
      /\ ComposeFault(left, right, "TagCollision")
           <=> TagsOf(left) \cap TagsOf(right) # {}
  BY DEF ComposeFault
<1>. QED
  BY <1>1, <1>2, <1>3, ComposeOrderIs

(* A refusal of well-formed operands reports their first fault, and it is one *)
(* of the first seven.                                                        *)
LEMMA RefusalReports ==
  ASSUME NEW left, NEW right, WellFormed(left), WellFormed(right),
         FaultsOf(left, right) # {}
  PROVE  /\ Composition(left, right) = Raised(ComposeOrder[Min(FaultsOf(left, right))])
         /\ Min(FaultsOf(left, right)) \in 1 .. 7
         /\ Min(FaultsOf(left, right)) \in FaultsOf(left, right)
         /\ \A n \in FaultsOf(left, right) : Min(FaultsOf(left, right)) <= n
<1>1. Composition(left, right) = Raised(ComposeOrder[Min(FaultsOf(left, right))])
  BY DEF Composition, FaultsOf
<1>2. FaultsOf(left, right) \in SUBSET (1 .. 8)
  BY FaultsListed
<1>3. PICK first \in FaultsOf(left, right) :
        first = Min(FaultsOf(left, right)) /\ \A n \in FaultsOf(left, right) : first <= n
  BY <1>2, LeastFault
<1>4. first # 8
  <2>1. 8 \in FaultsOf(left, right) => 7 \in FaultsOf(left, right)
    BY FaultsListed DEF WellFormed
  <2>. QED
    BY <1>3, <2>1
<1>. QED
  BY <1>1, <1>2, <1>3, <1>4

(* What two sound items clash over, two of their leaves clash over.           *)
LEMMA LeavesClash ==
  ASSUME NEW left, NEW right, ItemSound(left), ItemSound(right),
         NEW n \in 1 .. 7, n \in FaultsOf(left.summary, right.summary)
  PROVE  \E l \in left.leaves, r \in right.leaves :
           n \in FaultsOf(Singleton(l).summary, Singleton(r).summary)
<1>1. /\ \A l \in left.leaves :
           Bound(Singleton(l).summary) = Bound(left.summary)
      /\ \A r \in right.leaves :
           Bound(Singleton(r).summary) = Bound(right.summary)
      /\ \E l \in left.leaves : TRUE
      /\ \E r \in right.leaves : TRUE
  BY DEF ItemSound
<1>2. CASE n \in 1 .. 3
  <2>1. PICK l \in left.leaves, r \in right.leaves : TRUE
    BY <1>1
  <2>2. /\ Singleton(l).summary.context = left.summary.context
        /\ Singleton(l).summary.basis = left.summary.basis
        /\ Singleton(l).summary.profile = left.summary.profile
        /\ Singleton(r).summary.context = right.summary.context
        /\ Singleton(r).summary.basis = right.summary.basis
        /\ Singleton(r).summary.profile = right.summary.profile
    BY <1>1 DEF Bound
  <2>3. /\ n = 1 => left.summary.context # right.summary.context
        /\ n = 2 => left.summary.basis # right.summary.basis
        /\ n = 3 => left.summary.profile # right.summary.profile
    BY FaultsListed
  <2>4. n \in FaultsOf(Singleton(l).summary, Singleton(r).summary)
    <3>1. n = 1 \/ n = 2 \/ n = 3
      BY <1>2
    <3>. QED
      BY <2>2, <2>3, <3>1, FaultsListed
  <2>. QED
    BY <2>4
<1>3. CASE n = 4
  <2>1. PICK action : action \in left.summary.actions /\ action \in right.summary.actions
    BY <1>3, FaultsListed
  <2>2. PICK l \in left.leaves, r \in right.leaves :
          action \in Singleton(l).summary.actions /\ action \in Singleton(r).summary.actions
    BY <2>1 DEF ItemSound
  <2>. QED
    BY <1>3, <2>2, FaultsListed
<1>4. CASE n = 5
  <2>1. PICK tag : tag \in left.summary.consumed /\ tag \in right.summary.consumed
    BY <1>4, FaultsListed
  <2>2. PICK l \in left.leaves, r \in right.leaves :
          tag \in Singleton(l).summary.consumed /\ tag \in Singleton(r).summary.consumed
    BY <2>1 DEF ItemSound
  <2>. QED
    BY <1>4, <2>2, FaultsListed
<1>5. CASE n = 6
  <2>1. PICK tag : tag \in left.summary.created /\ tag \in right.summary.created
    BY <1>5, FaultsListed
  <2>2. PICK l \in left.leaves, r \in right.leaves :
          tag \in Singleton(l).summary.created /\ tag \in Singleton(r).summary.created
    BY <2>1 DEF ItemSound
  <2>. QED
    BY <1>5, <2>2, FaultsListed
<1>6. CASE n = 7
  <2>1. PICK tag : tag \in left.summary.facts /\ tag \in right.summary.facts
    BY <1>6, FaultsListed
  <2>2. tag \in TagsOf(left.summary) /\ tag \in TagsOf(right.summary)
    BY <2>1 DEF ItemSound, WellFormed
  <2>3. PICK l \in left.leaves, r \in right.leaves :
          tag \in TagsOf(Singleton(l).summary) /\ tag \in TagsOf(Singleton(r).summary)
    BY <2>2 DEF ItemSound, TagsOf
  <2>4. /\ Singleton(l).summary.facts = TagsOf(Singleton(l).summary)
        /\ Singleton(r).summary.facts = TagsOf(Singleton(r).summary)
    BY SingletonWellFormed DEF ItemSound, WellFormed
  <2>. QED
    BY <1>6, <2>3, <2>4, FaultsListed
<1>. QED
  BY <1>2, <1>3, <1>4, <1>5, <1>6

(* Leaves clash over nothing that their items do not clash over.              *)
LEMMA ItemsClash ==
  ASSUME NEW left, NEW right, ItemSound(left), ItemSound(right),
         NEW l \in left.leaves, NEW r \in right.leaves
  PROVE  FaultsOf(Singleton(l).summary, Singleton(r).summary)
           \subseteq FaultsOf(left.summary, right.summary)
<1>1. PICK a, b : a = Singleton(l).summary /\ b = Singleton(r).summary
  OBVIOUS
<1>2. /\ a.context = left.summary.context /\ a.basis = left.summary.basis
      /\ a.profile = left.summary.profile
      /\ b.context = right.summary.context /\ b.basis = right.summary.basis
      /\ b.profile = right.summary.profile
  BY <1>1 DEF ItemSound, Bound
<1>3. /\ a.actions \subseteq left.summary.actions
      /\ a.consumed \subseteq left.summary.consumed
      /\ a.created \subseteq left.summary.created
      /\ b.actions \subseteq right.summary.actions
      /\ b.consumed \subseteq right.summary.consumed
      /\ b.created \subseteq right.summary.created
  BY <1>1 DEF ItemSound
<1>4. WellFormed(a) /\ WellFormed(b) /\ WellFormed(left.summary) /\ WellFormed(right.summary)
  BY <1>1, SingletonWellFormed DEF ItemSound
<1>5. /\ a.facts \subseteq left.summary.facts /\ b.facts \subseteq right.summary.facts
      /\ TagsOf(a) \subseteq TagsOf(left.summary)
      /\ TagsOf(b) \subseteq TagsOf(right.summary)
  BY <1>3, <1>4 DEF WellFormed, TagsOf
<1>6. \A n \in 1 .. 8 : n \in FaultsOf(a, b) => n \in FaultsOf(left.summary, right.summary)
  <2>1. /\ 1 \in FaultsOf(a, b) => 1 \in FaultsOf(left.summary, right.summary)
        /\ 2 \in FaultsOf(a, b) => 2 \in FaultsOf(left.summary, right.summary)
        /\ 3 \in FaultsOf(a, b) => 3 \in FaultsOf(left.summary, right.summary)
    BY <1>2, FaultsListed
  <2>2. /\ 4 \in FaultsOf(a, b) => 4 \in FaultsOf(left.summary, right.summary)
        /\ 5 \in FaultsOf(a, b) => 5 \in FaultsOf(left.summary, right.summary)
        /\ 6 \in FaultsOf(a, b) => 6 \in FaultsOf(left.summary, right.summary)
    BY <1>3, FaultsListed
  <2>3. /\ 7 \in FaultsOf(a, b) => 7 \in FaultsOf(left.summary, right.summary)
        /\ 8 \in FaultsOf(a, b) => 8 \in FaultsOf(left.summary, right.summary)
    BY <1>5, FaultsListed
  <2>4. \A n \in 1 .. 8 : n \in {1, 2, 3, 4, 5, 6, 7, 8}
    OBVIOUS
  <2>. QED
    BY <2>1, <2>2, <2>3, <2>4
<1>. QED
  BY <1>1, <1>6, FaultsListed

(* compose refuses exactly for what two of the leaves are refused for.        *)
THEOREM Refusals == Spec => []RefusalJustified
<1>1. ASSUME IInv PROVE RefusalJustified
  <2>1. SUFFICES ASSUME answer.call = "compose", answer.result.status = "raised"
                 PROVE  /\ answer.result.reason \notin
                              {"TagCollision"} \cup {ConstructionOrder[n] : n \in 1 .. 8}
                        /\ \E l \in answer.left.leaves, r \in answer.right.leaves :
                             Composition(Singleton(l).summary, Singleton(r).summary)
                               = answer.result
    BY DEF RefusalJustified
  <2>2. PICK left, right : /\ left = answer.left /\ right = answer.right
                           /\ ItemSound(left) /\ ItemSound(right)
                           /\ answer.result = Composition(left.summary, right.summary)
    BY <1>1, <2>1 DEF IInv
  <2>3. WellFormed(left.summary) /\ WellFormed(right.summary)
    BY <2>2 DEF ItemSound
  <2>4. FaultsOf(left.summary, right.summary) # {}
    <3>1. ~Compatible(left.summary, right.summary)
      BY <2>1, <2>2, <2>3, CompatibleComposes DEF Returned
    <3>. QED
      BY <3>1, FaultsListed DEF Compatible
  <2>5. PICK first \in 1 .. 7 :
          /\ first = Min(FaultsOf(left.summary, right.summary))
          /\ first \in FaultsOf(left.summary, right.summary)
          /\ \A n \in FaultsOf(left.summary, right.summary) : first <= n
          /\ answer.result = Raised(ComposeOrder[first])
    BY <2>2, <2>3, <2>4, RefusalReports
  <2>6. PICK l \in left.leaves, r \in right.leaves :
          first \in FaultsOf(Singleton(l).summary, Singleton(r).summary)
    BY <2>2, <2>5, LeavesClash
  <2>7. PICK a, b : /\ a = Singleton(l).summary /\ b = Singleton(r).summary
                    /\ WellFormed(a) /\ WellFormed(b)
    BY <2>2, SingletonWellFormed DEF ItemSound
  <2>8. Composition(a, b) = Raised(ComposeOrder[first])
    <3>1. /\ Composition(a, b) = Raised(ComposeOrder[Min(FaultsOf(a, b))])
          /\ Min(FaultsOf(a, b)) \in 1 .. 7
          /\ Min(FaultsOf(a, b)) \in FaultsOf(a, b)
          /\ \A n \in FaultsOf(a, b) : Min(FaultsOf(a, b)) <= n
      BY <2>6, <2>7, RefusalReports
    <3>2. FaultsOf(a, b) \subseteq FaultsOf(left.summary, right.summary)
      BY <2>2, <2>7, ItemsClash
    <3>3. Min(FaultsOf(a, b)) <= first /\ first <= Min(FaultsOf(a, b))
      BY <2>5, <2>6, <2>7, <3>1, <3>2
    <3>4. Min(FaultsOf(a, b)) = first
      BY <3>1, <3>3
    <3>. QED
      BY <3>1, <3>4
  <2>9. ComposeOrder[first] \notin {"TagCollision"} \cup {ConstructionOrder[n] : n \in 1 .. 8}
    <3>1. ComposeOrder[first] \in {"ContextMismatch", "BasisMismatch", "ProfileMismatch",
            "DuplicateAction", "DuplicateConsumption", "DuplicateCreation", "DuplicateFact"}
      BY ComposeOrderIs
    <3>. QED
      BY <3>1, Checks
  <2>. QED
    BY <2>2, <2>5, <2>7, <2>8, <2>9 DEF Raised
<1>. QED
  BY <1>1, Invariant, PTL

-----------------------------------------------------------------------------
(* Multiples and scalings are in normal form.                                 *)
LEMMA MultipleNormal ==
  ASSUME NEW symbol, NEW coefficient \in Int
  PROVE  /\ Normal(Multiple(symbol, coefficient))
         /\ Quantity(Multiple(symbol, coefficient), symbol) = coefficient
         /\ \A other : other # symbol => Quantity(Multiple(symbol, coefficient), other) = 0
         /\ DOMAIN Multiple(symbol, coefficient) \subseteq {symbol}
<1> DEFINE row == [s \in {symbol} |-> coefficient]
<1>1. \A key \in DOMAIN row : row[key] \in Int
  OBVIOUS
<1>2. /\ Normal(NonzeroRows(row)) /\ DOMAIN NonzeroRows(row) \subseteq DOMAIN row
      /\ \A key : Quantity(NonzeroRows(row), key) = Quantity(row, key)
  BY <1>1, NonzeroRowsNormal
<1>3. /\ Quantity(row, symbol) = coefficient
      /\ \A other : other # symbol => Quantity(row, other) = 0
  BY DEF Quantity
<1>4. Multiple(symbol, coefficient) = NonzeroRows(row)
  BY DEF Multiple
<1>. QED
  BY <1>2, <1>3, <1>4

LEMMA ScaledNormal ==
  ASSUME NEW point, Normal(point), NEW scalar \in Int
  PROVE  /\ Normal(Scaled(point, scalar))
         /\ DOMAIN Scaled(point, scalar) \subseteq DOMAIN point
         /\ \A symbol : Quantity(Scaled(point, scalar), symbol)
                          = scalar * Quantity(point, symbol)
<1> DEFINE row == [symbol \in DOMAIN point |-> scalar * point[symbol]]
<1>1. \A key \in DOMAIN row : row[key] \in Int
  BY DEF Normal
<1>2. /\ Normal(NonzeroRows(row)) /\ DOMAIN NonzeroRows(row) \subseteq DOMAIN row
      /\ \A key : Quantity(NonzeroRows(row), key) = Quantity(row, key)
  BY <1>1, NonzeroRowsNormal
<1>3. \A symbol : Quantity(row, symbol) = scalar * Quantity(point, symbol)
  <2>1. ASSUME NEW symbol \in DOMAIN point
        PROVE  Quantity(row, symbol) = scalar * Quantity(point, symbol)
    BY DEF Quantity
  <2>2. ASSUME NEW symbol, symbol \notin DOMAIN point
        PROVE  Quantity(row, symbol) = 0 /\ scalar * Quantity(point, symbol) = 0
    BY <2>2 DEF Quantity
  <2>. QED
    BY <2>1, <2>2
<1>4. Scaled(point, scalar) = NonzeroRows(row)
  BY DEF Scaled
<1>. QED
  BY <1>2, <1>3, <1>4

(* What an honest table adds to a point for one row.                          *)
LEMMA HonestRow ==
  ASSUME NEW kind \in ResourceKinds, NEW quantity \in Int, NEW other \in ResourceKinds
  PROVE  Quantity(Scaled(Multiple(SymbolOf[kind], 1), quantity), SymbolOf[other])
           = IF other = kind THEN quantity ELSE 0
<1>1. Normal(Multiple(SymbolOf[kind], 1))
  BY MultipleNormal
<1>2. Quantity(Scaled(Multiple(SymbolOf[kind], 1), quantity), SymbolOf[other])
        = quantity * Quantity(Multiple(SymbolOf[kind], 1), SymbolOf[other])
  BY <1>1, ScaledNormal
<1>3. Quantity(Multiple(SymbolOf[kind], 1), SymbolOf[other])
        = IF other = kind THEN 1 ELSE 0
  BY MultipleNormal, SymbolsAssumption
<1>. QED
  BY <1>2, <1>3

-----------------------------------------------------------------------------
(* Before any row is added the point is the blinding alone.                   *)
LEMMA NothingAdded ==
  ASSUME NEW scalar \in Int, result = Multiple(Generator, scalar), blinding = scalar,
         DOMAIN net \ pending = {}
  PROVE  RowsAdded
<1>1. /\ DOMAIN result \subseteq {Generator} /\ Quantity(result, Generator) = scalar
      /\ \A symbol : symbol # Generator => Quantity(result, symbol) = 0
  BY MultipleNormal
<1>2. \A symbol : CommittedTo(symbol, {}) = IF symbol = Generator THEN scalar ELSE 0
  BY SumEmpty DEF CommittedTo
<1>. QED
  BY <1>1, <1>2 DEF RowsAdded, SymbolsOf

LEMMA NothingAddedNext ==
  ASSUME NEW scalar \in Int, result' = Multiple(Generator, scalar), blinding' = scalar,
         (DOMAIN net \ pending)' = {}
  PROVE  RowsAdded'
<1>1. /\ DOMAIN result' \subseteq {Generator} /\ Quantity(result', Generator) = scalar
      /\ \A symbol : symbol # Generator => Quantity(result', symbol) = 0
  BY MultipleNormal
<1>2. \A symbol : CommittedTo(symbol, {})' = IF symbol = Generator THEN scalar ELSE 0
  BY SumEmpty DEF CommittedTo
<1>. QED
  BY <1>1, <1>2 DEF RowsAdded, SymbolsOf

LEMMA RowsKept ==
  ASSUME RowsAdded, UNCHANGED <<basis, net, blinding, pending, result>>
  PROVE  RowsAdded'
<1>1. \A symbol, kinds : CommittedTo(symbol, kinds)' = CommittedTo(symbol, kinds)
  BY DEF CommittedTo, RowsOf
<1>2. \A kinds : SymbolsOf(kinds)' = SymbolsOf(kinds)
  BY DEF SymbolsOf
<1>. QED
  BY <1>1, <1>2 DEF RowsAdded, Quantity

(* One row adds its multiple of the table's point to every symbol.            *)
LEMMA RowAdded ==
  ASSUME BasisInv, NEW kind \in ResourceKinds, AddRow(kind)
  PROVE  RowsAdded'
<1> DEFINE added == DOMAIN net \ pending
           entry == basis.entries[kind]
<1>1. /\ kind \in pending /\ pending \subseteq DOMAIN net /\ kind \in DOMAIN basis.entries
      /\ pending' = pending \ {kind}
      /\ basis' = basis /\ net' = net /\ blinding' = blinding
  BY DEF AddRow, IsNext, equation, BasisInv, BasisTypeOK
<1>2. /\ added \subseteq DOMAIN basis.entries
      /\ DOMAIN result \subseteq SymbolsOf(added)
      /\ \A symbol \in SymbolsOf(DOMAIN basis.entries) :
           Quantity(result, symbol) = CommittedTo(symbol, added)
  BY DEF BasisInv, RowsAdded
<1>3. PICK grown : /\ grown = added \cup {kind} /\ grown = (DOMAIN net \ pending)'
                   /\ IsFiniteSet(grown)
  <2>1. (DOMAIN net \ pending)' = added \cup {kind}
    BY <1>1
  <2>2. IsFiniteSet(added)
    BY FS_Subset DEF BasisInv
  <2>3. IsFiniteSet(added \cup {kind})
    BY <2>2, FS_AddElement
  <2>. QED
    BY <2>1, <2>3
<1>4. /\ Normal(result) /\ \A k \in DOMAIN net : net[k] \in Int
      /\ \A k \in DOMAIN basis.entries : Normal(basis.entries[k])
  BY BasesAssumption DEF BasisInv, BasisTypeOK, Normal
<1>5. PICK summand : /\ summand = Scaled(entry, net[kind]) /\ Normal(summand)
                     /\ DOMAIN summand \subseteq DOMAIN entry
                     /\ \A symbol : Quantity(summand, symbol) = net[kind] * Quantity(entry, symbol)
  BY <1>1, <1>4, ScaledNormal
<1>6. /\ DOMAIN result' \subseteq DOMAIN result \cup DOMAIN summand
      /\ \A symbol : Quantity(result', symbol)
                       = Quantity(result, symbol) + Quantity(summand, symbol)
  BY <1>4, <1>5, SumRowsNormal DEF AddRow
<1>7. ASSUME NEW symbol
      PROVE  CommittedTo(symbol, grown)
               = CommittedTo(symbol, added) + Quantity(summand, symbol)
  <2>1. \A k \in grown : RowsOf(symbol)[k] = net[k] * Quantity(basis.entries[k], symbol)
    BY <1>1, <1>3 DEF RowsOf
  <2>2. \A k \in grown : net[k] \in Int /\ Quantity(basis.entries[k], symbol) \in Int
    BY <1>1, <1>2, <1>3, <1>4, QuantityInt
  <2>3. \A k \in grown : RowsOf(symbol)[k] \in Int
    BY <2>1, <2>2
  <2>4. SumFunctionOnSet(RowsOf(symbol), grown)
          = RowsOf(symbol)[kind] + SumFunctionOnSet(RowsOf(symbol), grown \ {kind})
    BY <1>3, <2>3, SumMember
  <2>5. grown \ {kind} = added
    BY <1>1, <1>3
  <2>6. RowsOf(symbol)[kind] = Quantity(summand, symbol)
    BY <1>3, <1>5, <2>1
  <2>7. SumFunctionOnSet(RowsOf(symbol), added) \in Int /\ RowsOf(symbol)[kind] \in Int
    BY <1>3, <2>3, <2>5, SumInt
  <2>8. SumFunctionOnSet(RowsOf(symbol), grown)
          = Quantity(summand, symbol) + SumFunctionOnSet(RowsOf(symbol), added)
    BY <2>4, <2>5, <2>6, Zenon
  <2>9. blinding \in Int
    BY DEF BasisInv, BasisTypeOK
  <2> HIDE DEF added
  <2>. QED
    BY <2>6, <2>7, <2>8, <2>9 DEF CommittedTo
<1>8. ASSUME NEW symbol \in SymbolsOf(DOMAIN basis.entries)
      PROVE  Quantity(result', symbol) = CommittedTo(symbol, grown)
  BY <1>2, <1>6, <1>7
<1>9. DOMAIN result' \subseteq SymbolsOf(grown)
  BY <1>2, <1>3, <1>5, <1>6 DEF SymbolsOf
<1>10. /\ SymbolsOf(grown)' = SymbolsOf(grown)
       /\ SymbolsOf(DOMAIN basis.entries)' = SymbolsOf(DOMAIN basis.entries)
       /\ \A symbol : CommittedTo(symbol, grown)' = CommittedTo(symbol, grown)
  BY <1>1 DEF SymbolsOf, CommittedTo, RowsOf
<1>11. grown \subseteq DOMAIN basis'.entries
  BY <1>1, <1>2, <1>3
<1>. QED
  BY <1>3, <1>8, <1>9, <1>10, <1>11 DEF RowsAdded

-----------------------------------------------------------------------------
(* The other parts of the invariant.                                          *)
LEMMA NoRows == \A kind : Quantity([k \in {} |-> 0], kind) = 0
BY DEF Quantity

LEMMA BasisInitInv == BasisInit => BasisInv
<1> SUFFICES ASSUME BasisInit PROVE BasisInv
  OBVIOUS
<1>1. /\ Normal(result) /\ \A kind \in ResourceKinds : Quantity(result, SymbolOf[kind]) = 0
  BY MultipleNormal, SymbolsAssumption DEF BasisInit
<1>2. DOMAIN net = {} /\ net \in [DOMAIN net -> Int \ {0}]
  BY DEF BasisInit
<1>3. \A kind : Quantity(net, kind) = 0
  BY NoRows DEF BasisInit
<1>4. BasisTypeOK
  BY <1>1, <1>2 DEF BasisInit, BasisTypeOK, Normal
<1>5. RowsAdded
  BY <1>2, NothingAdded DEF BasisInit
<1>. QED
  BY <1>1, <1>2, <1>3, <1>4, <1>5, FS_EmptySet
     DEF BasisInit, BasisInv, CertifiedHonest, RowsReadable

LEMMA EvaluateInv ==
  ASSUME BasisInv, NEW b \in Bases, NEW delta \in Deltas, NEW scalar \in Blindings,
         Evaluate(b, delta, scalar)
  PROVE  BasisInv'
<1>1. \A kind \in DOMAIN delta : delta[kind] \in Int
  BY DeltasAssumption
<1>2. PICK rows : rows = NonzeroRows(delta) /\ Normal(rows) /\ DOMAIN rows \subseteq DOMAIN delta
  BY <1>1, NonzeroRowsNormal
<1>3. PICK point : /\ point = Multiple(Generator, scalar) /\ Normal(point)
                   /\ \A kind \in ResourceKinds : Quantity(point, SymbolOf[kind]) = 0
  BY MultipleNormal, SymbolsAssumption, DeltasAssumption
<1>4. /\ net' = rows /\ pending' = DOMAIN rows /\ result' = point /\ basis' = b
      /\ blinding' = scalar /\ outcome' = "adding" /\ certificates' = certificates
  BY <1>2, <1>3 DEF Evaluate
<1>5. BasisTypeOK'
  BY <1>2, <1>3, <1>4, DeltasAssumption DEF BasisTypeOK, Normal
<1>6. RowsReadable'
  <2>1. \A kind : kind \notin DOMAIN rows => Quantity(rows, kind) = 0
    BY DEF Quantity
  <2>2. \A kind \in ResourceKinds :
          Quantity(point, SymbolOf[kind])
            = IF kind \in DOMAIN rows THEN 0 ELSE Quantity(rows, kind)
    BY <1>3, <2>1
  <2>. QED
    BY <1>4, <2>2 DEF RowsReadable, Quantity
<1>7. RowsAdded'
  BY <1>3, <1>4, DeltasAssumption, NothingAddedNext
<1>8. IsFiniteSet(DOMAIN net)'
  BY <1>2, <1>4, DeltasAssumption, FS_Subset
<1>. QED
  BY <1>4, <1>5, <1>6, <1>7, <1>8 DEF BasisInv, CertifiedHonest

LEMMA AddRowInv ==
  ASSUME BasisInv, NEW kind \in ResourceKinds, AddRow(kind)
  PROVE  BasisInv'
<1>1. /\ kind \in pending /\ pending' = pending \ {kind} /\ kind \in DOMAIN basis.entries
      /\ basis' = basis /\ net' = net /\ blinding' = blinding /\ outcome' = "adding"
      /\ certificates' = certificates
  BY DEF AddRow, IsNext, equation
<1>2. net[kind] \in Int /\ Normal(result) /\ Normal(basis.entries[kind])
  BY <1>1, BasesAssumption DEF BasisInv, BasisTypeOK, Normal
<1>3. PICK summand : /\ summand = Scaled(basis.entries[kind], net[kind])
                     /\ Normal(summand)
  BY <1>2, ScaledNormal
<1>4. PICK sum : /\ sum = SumRows(result, summand) /\ sum = result' /\ Normal(sum)
                 /\ \A symbol : Quantity(sum, symbol)
                                  = Quantity(result, symbol) + Quantity(summand, symbol)
  BY <1>2, <1>3, SumRowsNormal DEF AddRow
<1>5. BasisTypeOK'
  BY <1>1, <1>4 DEF BasisInv, BasisTypeOK, Normal
<1>6. RowsReadable'
  <2>1. ASSUME basis.entries = Honest(DOMAIN basis.entries), NEW other \in ResourceKinds
        PROVE  Quantity(sum, SymbolOf[other])
                 = IF other \in pending \ {kind} THEN 0 ELSE Quantity(net, other)
    <3>1. basis.entries[kind] = Multiple(SymbolOf[kind], 1)
      BY <1>1, <2>1 DEF Honest
    <3>2. Quantity(summand, SymbolOf[other]) = IF other = kind THEN net[kind] ELSE 0
      BY <1>2, <1>3, <3>1, HonestRow
    <3>3. Quantity(result, SymbolOf[other])
            = IF other \in pending THEN 0 ELSE Quantity(net, other)
      BY <2>1 DEF BasisInv, RowsReadable
    <3>4. Quantity(net, kind) = net[kind]
      BY <1>1 DEF BasisInv, BasisTypeOK, Quantity
    <3>5. Quantity(net, other) \in Int
      <4>1. Normal(net)
        BY DEF BasisInv, BasisTypeOK, Normal
      <4>. QED
        BY <4>1, QuantityInt
    <3>6. CASE other = kind
      BY <1>1, <1>2, <1>4, <3>2, <3>3, <3>4, <3>6
    <3>7. CASE other # kind
      BY <1>4, <3>2, <3>3, <3>5, <3>7
    <3>. QED
      BY <3>6, <3>7
  <2>. QED
    BY <1>1, <1>4, <2>1 DEF RowsReadable, Quantity
<1>7. RowsAdded'
  BY RowAdded
<1>. QED
  BY <1>1, <1>5, <1>6, <1>7 DEF BasisInv, CertifiedHonest

LEMMA CertifyInv ==
  ASSUME BasisInv, NEW b \in Bases, NEW proof \in ProofIds, Certify(b, proof)
  PROVE  BasisInv'
<1>1. UNCHANGED <<basis, net, blinding, pending, result, outcome>>
  BY DEF Certify, equation
<1>2. b.entries = Honest(DOMAIN b.entries)
  BY DEF Certify, MatchesCanonical
<1>3. CertifiedHonest'
  <2>1. Root(b).entries = b.entries
    BY DEF Root
  <2>2. certificates' =
          certificates \cup {[root |-> Root(b), profile |-> b.profile, proof |-> proof]}
    BY DEF Certify
  <2>3. ASSUME NEW certificate \in certificates'
        PROVE  certificate.root.entries = Honest(DOMAIN certificate.root.entries)
    <3>1. CASE certificate \in certificates
      BY <3>1 DEF BasisInv, CertifiedHonest
    <3>2. CASE certificate.root = Root(b)
      BY <1>2, <2>1, <3>2
    <3>. QED
      BY <2>2, <3>1, <3>2
  <2>. QED
    BY <2>3 DEF CertifiedHonest
<1>4. BasisTypeOK'
  BY <1>1 DEF BasisInv, BasisTypeOK
<1>5. RowsReadable'
  BY <1>1 DEF BasisInv, RowsReadable, Quantity
<1>6. RowsAdded'
  BY <1>1, RowsKept DEF BasisInv
<1>. QED
  BY <1>1, <1>3, <1>4, <1>5, <1>6 DEF BasisInv

(* Steps that only change the outcome, and steps that change nothing.         *)
LEMMA OutcomeInv ==
  ASSUME BasisInv, UNCHANGED <<basis, net, blinding, pending, result, certificates>>,
         outcome' \in {"idle", "adding", "point", "unknown kind"},
         outcome' = "point" => pending = {},
         outcome' = "unknown kind" => ~(DOMAIN net \subseteq DOMAIN basis.entries)
  PROVE  BasisInv'
<1>1. BasisTypeOK'
  BY DEF BasisInv, BasisTypeOK
<1>2. RowsReadable'
  BY DEF BasisInv, RowsReadable, Quantity
<1>3. RowsAdded'
  BY RowsKept DEF BasisInv
<1>. QED
  BY <1>1, <1>2, <1>3 DEF BasisInv, CertifiedHonest

(* Certified roots are honest, and under an honest table rows can be read.    *)
THEOREM BasisInvariant == BasisSpec => []BasisInv
<1>1. BasisInv /\ [BasisNext]_basisVars => BasisInv'
  <2> SUFFICES ASSUME BasisInv, [BasisNext]_basisVars
               PROVE  BasisInv'
    OBVIOUS
  <2>1. ASSUME NEW kind \in ResourceKinds, UnknownKind(kind)
        PROVE  BasisInv'
    <3>1. kind \in DOMAIN net /\ kind \notin DOMAIN basis.entries
      BY <2>1 DEF UnknownKind, IsNext, BasisInv, BasisTypeOK
    <3>. QED
      BY <2>1, <3>1, OutcomeInv DEF UnknownKind, equation
  <2>2. CASE Finish
    BY <2>2, OutcomeInv DEF Finish, equation
  <2>3. CASE UNCHANGED basisVars
    BY <2>3, OutcomeInv DEF basisVars, equation, BasisInv, BasisTypeOK
  <2>. QED
    BY <2>1, <2>2, <2>3, CertifyInv, EvaluateInv, AddRowInv DEF BasisNext
<1>. QED
  BY BasisInitInv, <1>1, PTL DEF BasisSpec

(* Points and deltas stay in normal form.                                     *)
THEOREM BasisTypeCorrect == BasisSpec => []BasisTypeOK
<1>1. BasisInv => BasisTypeOK
  BY DEF BasisInv
<1>. QED
  BY <1>1, BasisInvariant, PTL

(* point returns the formal sum it documents, and raises only for a row that  *)
(* the table has no entry for.                                                *)
THEOREM Point == BasisSpec => []PointIsDelta
<1>1. ASSUME BasisInv PROVE PointIsDelta
  <2>1. ASSUME outcome = "point"
        PROVE  /\ DOMAIN net \subseteq DOMAIN basis.entries
               /\ DOMAIN result \subseteq SymbolsOf(DOMAIN net)
               /\ \A symbol \in SymbolsOf(DOMAIN net) :
                    Quantity(result, symbol) = CommittedTo(symbol, DOMAIN net)
    <3>1. DOMAIN net \ pending = DOMAIN net
      BY <1>1, <2>1 DEF BasisInv
    <3>2. /\ DOMAIN net \subseteq DOMAIN basis.entries
          /\ DOMAIN result \subseteq SymbolsOf(DOMAIN net)
          /\ \A symbol \in SymbolsOf(DOMAIN basis.entries) :
               Quantity(result, symbol) = CommittedTo(symbol, DOMAIN net)
      BY <1>1, <3>1, Zenon DEF BasisInv, RowsAdded
    <3>3. SymbolsOf(DOMAIN net) \subseteq SymbolsOf(DOMAIN basis.entries)
      BY <3>2 DEF SymbolsOf
    <3>. QED
      BY <3>2, <3>3
  <2>. QED
    BY <1>1, <2>1 DEF PointIsDelta, BasisInv
<1>. QED
  BY <1>1, BasisInvariant, PTL

(* A certified root binds: no unbalanced equation under it has a known key.   *)
THEOREM Binding == BasisSpec => []CertifiedRootBinds
<1>1. ASSUME BasisInv PROVE CertifiedRootBinds
  <2>1. SUFFICES ASSUME AdmitsForgery, NEW certificate \in certificates,
                        certificate.root = Root(basis)
                 PROVE  FALSE
    BY DEF CertifiedRootBinds
  <2>2. basis.entries = Honest(DOMAIN basis.entries)
    <3>1. Root(basis).entries = basis.entries
      BY DEF Root
    <3>. QED
      BY <1>1, <2>1, <3>1 DEF BasisInv, CertifiedHonest
  <2>3. PICK kind \in DOMAIN net : TRUE
    BY <2>1 DEF AdmitsForgery
  <2>4. kind \in ResourceKinds /\ net[kind] \in Int \ {0} /\ Quantity(net, kind) = net[kind]
    BY <1>1, <2>3 DEF BasisInv, BasisTypeOK, Quantity
  <2>5. Quantity(result, SymbolOf[kind]) = net[kind]
    BY <1>1, <2>1, <2>2, <2>4 DEF BasisInv, RowsReadable, AdmitsForgery
  <2>6. SymbolOf[kind] \in DOMAIN result
    BY <2>4, <2>5 DEF Quantity
  <2>. QED
    BY <2>1, <2>4, <2>6, SymbolsAssumption DEF AdmitsForgery, IsKnownMultiple
<1>. QED
  BY <1>1, BasisInvariant, PTL
=============================================================================
