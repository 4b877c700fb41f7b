--------------------------- MODULE SemanticSummary ---------------------------
(* SemanticSummary of reference_models/arm_zrm_frontier_v1.py: the summary of *)
(* a shard of a transition, made from one action (singleton) or from two      *)
(* summaries (compose).  Callers keep the summaries they get and compose them *)
(* in any order and any grouping; the model keeps beside each summary the set *)
(* of singletons it was made from.                                            *)
EXTENDS Integers, FiniteSetsExt, SparseRows

CONSTANTS
  Actions,     (* Action ids.                                                 *)
  Tags,        (* Tags of consumed and created resources.                     *)
  Kinds,       (* Resource kinds, the keys of delta rows.                     *)
  Empty,       (* The empty string, as a context hash, basis root or profile. *)
  Candidates,  (* The arguments singleton may be called with.                 *)
  MaxHeld      (* Bound: summaries that callers keep.                         *)

(* Tuples are passed sorted, so an argument is a multiset; a mapping of kinds *)
(* to quantities may hold zeros.                                              *)
ASSUME CandidatesAssumption ==
  \A c \in Candidates :
    /\ c.action \in Actions
    /\ c.consumed \in [Tags -> Nat] /\ c.created \in [Tags -> Nat]
    /\ DOMAIN c.delta \subseteq Kinds
    /\ \A kind \in DOMAIN c.delta : c.delta[kind] \in Int

VARIABLES
  held,    (* Pairs of a summary and the candidates it was made from.         *)
  answer   (* What the last call was and what it returned or raised.          *)

vars == <<held, answer>>

Raised(reason) == [status |-> "raised", reason |-> reason]
Returned(summary) == [status |-> "returned", summary |-> summary]

-----------------------------------------------------------------------------
(* Multisets: the tuples before they are known to have no duplicates.         *)
OnceEach(set, universe) == [x \in universe |-> IF x \in set THEN 1 ELSE 0]
Concatenated(left, right) == [x \in DOMAIN left |-> left[x] + right[x]]
Unique(tuple) == \A x \in DOMAIN tuple : tuple[x] <= 1
Members(tuple) == {x \in DOMAIN tuple : tuple[x] > 0}

-----------------------------------------------------------------------------
(* __post_init__: the checks of a new summary in order.  Coverage demands one *)
(* logic fact for each tag that is consumed or created, and no other.         *)
ConstructionOrder ==
  <<"ActionsRepeat", "ConsumedRepeat", "CreatedRepeat", "FactsRepeat",
    "RowsNotNormal", "RolesCollide", "CoverageInexact", "BindingEmpty">>

RepeatFault(fields, check) ==
  \/ check = "ActionsRepeat" /\ ~Unique(fields.actions)
  \/ check = "ConsumedRepeat" /\ ~Unique(fields.consumed)
  \/ check = "CreatedRepeat" /\ ~Unique(fields.created)
  \/ check = "FactsRepeat" /\ ~Unique(fields.facts)

ContentFault(fields, check) ==
  \/ check = "RowsNotNormal" /\ \E kind \in DOMAIN fields.rows : fields.rows[kind] = 0
  \/ check = "RolesCollide" /\ Members(fields.consumed) \cap Members(fields.created) # {}
  \/ /\ check = "CoverageInexact"
     /\ Members(fields.facts) # Members(fields.consumed) \cup Members(fields.created)

ConstructionFault(fields, check) ==
  \/ RepeatFault(fields, check) \/ ContentFault(fields, check)
  \/ check = "BindingEmpty" /\ Empty \in {fields.context, fields.basis, fields.profile}

Summary(fields) ==
  [context |-> fields.context, basis |-> fields.basis, profile |-> fields.profile,
   actions |-> Members(fields.actions), consumed |-> Members(fields.consumed),
   created |-> Members(fields.created), facts |-> Members(fields.facts),
   rows |-> fields.rows]

Construct(fields) ==
  LET faults == {n \in 1 .. 8 : ConstructionFault(fields, ConstructionOrder[n])}
  IN  IF faults = {} THEN Returned(Summary(fields))
                     ELSE Raised(ConstructionOrder[Min(faults)])

(* singleton: one action, a fact for each tag, the rows normalised.           *)
Singleton(c) ==
  Construct([context |-> c.context, basis |-> c.basis, profile |-> c.profile,
             actions |-> OnceEach({c.action}, Actions),
             consumed |-> c.consumed, created |-> c.created,
             facts |-> Concatenated(c.consumed, c.created),
             rows |-> NonzeroRows(c.delta)])

(* compose: the checks of a pair in order, then the construction of the union.*)
(* Mutant of ComposeOrder: facts are not compared.                            *)
ComposeOrderWithoutFacts ==
  <<"ContextMismatch", "BasisMismatch", "ProfileMismatch", "DuplicateAction",
    "DuplicateConsumption", "DuplicateCreation", "TagCollision">>

ComposeOrder ==
  <<"ContextMismatch", "BasisMismatch", "ProfileMismatch", "DuplicateAction",
    "DuplicateConsumption", "DuplicateCreation", "DuplicateFact", "TagCollision">>

TagsOf(summary) == summary.consumed \cup summary.created

ComposeFault(left, right, check) ==
  \/ check = "ContextMismatch" /\ left.context # right.context
  \/ check = "BasisMismatch" /\ left.basis # right.basis
  \/ check = "ProfileMismatch" /\ left.profile # right.profile
  \/ check = "DuplicateAction" /\ left.actions \cap right.actions # {}
  \/ check = "DuplicateConsumption" /\ left.consumed \cap right.consumed # {}
  \/ check = "DuplicateCreation" /\ left.created \cap right.created # {}
  \/ check = "DuplicateFact" /\ left.facts \cap right.facts # {}
  \/ check = "TagCollision" /\ TagsOf(left) \cap TagsOf(right) # {}

Joined(left, right, universe) ==
  Concatenated(OnceEach(left, universe), OnceEach(right, universe))

Composition(left, right) ==
  LET faults == {n \in DOMAIN ComposeOrder : ComposeFault(left, right, ComposeOrder[n])}
  IN  IF faults # {} THEN Raised(ComposeOrder[Min(faults)])
      ELSE Construct([context |-> left.context, basis |-> left.basis,
                      profile |-> left.profile,
                      actions |-> Joined(left.actions, right.actions, Actions),
                      consumed |-> Joined(left.consumed, right.consumed, Tags),
                      created |-> Joined(left.created, right.created, Tags),
                      facts |-> Joined(left.facts, right.facts, Tags),
                      rows |-> SumRows(left.rows, right.rows)])

-----------------------------------------------------------------------------
Init == held = {} /\ answer = [call |-> "none"]

Keep(leaves, result) ==
  held' = IF result.status = "returned"
          THEN held \cup {[leaves |-> leaves, summary |-> result.summary]}
          ELSE held

CallSingleton(c) ==
  /\ Cardinality(held) < MaxHeld
  /\ Keep({c}, Singleton(c))
  /\ answer' = [call |-> "singleton", of |-> c, result |-> Singleton(c)]

CallCompose(left, right) ==
  LET result == Composition(left.summary, right.summary)
  IN  /\ Cardinality(held) < MaxHeld
      /\ Keep(left.leaves \cup right.leaves, result)
      /\ answer' = [call |-> "compose", left |-> left, right |-> right, result |-> result]

Next ==
  \/ \E c \in Candidates : CallSingleton(c)
  \/ \E left, right \in held : CallCompose(left, right)

Spec == Init /\ [][Next]_vars
-----------------------------------------------------------------------------
(* Type invariant: what callers hold are well-formed summaries.  No tag is in *)
(* two roles, each has its fact, no row is zero, no binding is empty.         *)
WellFormed(summary) ==
  /\ Empty \notin {summary.context, summary.basis, summary.profile}
  /\ summary.actions \subseteq Actions /\ summary.actions # {}
  /\ summary.consumed \subseteq Tags /\ summary.created \subseteq Tags
  /\ summary.consumed \cap summary.created = {}
  /\ summary.facts = TagsOf(summary)
  /\ DOMAIN summary.rows \subseteq Kinds
  /\ summary.rows \in [DOMAIN summary.rows -> Int \ {0}]

TypeOK ==
  /\ \A item \in held : item.leaves \subseteq Candidates /\ WellFormed(item.summary)
  /\ answer.call \in {"none", "singleton", "compose"}

(* The net quantity of a kind in some leaves.                                 *)
DeltaOf(kind) == [leaf \in Candidates |-> Quantity(leaf.delta, kind)]
NetOf(leaves, kind) == SumFunctionOnSet(DeltaOf(kind), leaves)

(* A summary that compose returned is the union of its leaves: nothing is     *)
(* lost, counted twice or taken from another context, although rows that      *)
(* cancelled on the way are gone from the operands.                           *)
FlatUnion ==
  \A item \in held :
    LET summary == item.summary
        leaves == item.leaves
    IN  /\ \A leaf \in leaves :
             /\ leaf.context = summary.context
             /\ leaf.basis = summary.basis
             /\ leaf.profile = summary.profile
        /\ summary.actions = {leaf.action : leaf \in leaves}
        /\ summary.consumed = UNION {Members(leaf.consumed) : leaf \in leaves}
        /\ summary.created = UNION {Members(leaf.created) : leaf \in leaves}
        /\ \A kind \in Kinds : Quantity(summary.rows, kind) = NetOf(leaves, kind)

(* What three summaries compose to, grouped to the left and to the right;     *)
(* nothing if one of the two calls raises.                                    *)
Value(result) == IF result.status = "returned" THEN {result.summary} ELSE {}

LeftGrouping(a, b, c) ==
  UNION {Value(Composition(ab, c)) : ab \in Value(Composition(a, b))}

RightGrouping(a, b, c) ==
  UNION {Value(Composition(a, bc)) : bc \in Value(Composition(b, c))}

(* Composition is commutative and associative as a partial operation: of two  *)
(* groupings of the summaries that callers hold neither raises alone, and     *)
(* the results are equal.                                                     *)
GroupingIrrelevant ==
  \A x, y, z \in held :
    LET a == x.summary
        b == y.summary
        c == z.summary
    IN  /\ Value(Composition(a, b)) = Value(Composition(b, a))
        /\ LeftGrouping(a, b, c) = RightGrouping(a, b, c)

(* compose raises only what two of the leaves, composed by themselves, raise; *)
(* the last comparison of compose and the checks of __post_init__ behind it   *)
(* never find anything.                                                       *)
RefusalJustified ==
  (answer.call = "compose" /\ answer.result.status = "raised") =>
    /\ answer.result.reason \notin {"TagCollision"} \cup {ConstructionOrder[n] : n \in 1 .. 8}
    /\ \E l \in answer.left.leaves, r \in answer.right.leaves :
         Composition(Singleton(l).summary, Singleton(r).summary) = answer.result
-----------------------------------------------------------------------------
(* The inductive invariant: a summary is bound like its leaves and has the    *)
(* actions, tags and net quantities of its leaves; answers keep what they     *)
(* were asked.                                                                *)
Bound(summary) == <<summary.context, summary.basis, summary.profile>>

ItemSound(item) ==
  LET Of(leaf) == Singleton(leaf).summary
  IN  /\ item.leaves \subseteq Candidates /\ item.leaves # {} /\ IsFiniteSet(item.leaves)
      /\ WellFormed(item.summary)
      /\ \A leaf \in item.leaves : /\ Singleton(leaf).status = "returned"
                                   /\ Bound(Of(leaf)) = Bound(item.summary)
      /\ item.summary.actions = UNION {Of(leaf).actions : leaf \in item.leaves}
      /\ item.summary.consumed = UNION {Of(leaf).consumed : leaf \in item.leaves}
      /\ item.summary.created = UNION {Of(leaf).created : leaf \in item.leaves}
      /\ \A kind \in Kinds : Quantity(item.summary.rows, kind) = NetOf(item.leaves, kind)

IInv ==
  /\ \A item \in held : ItemSound(item)
  /\ answer.call \in {"none", "singleton", "compose"}
  /\ answer.call = "compose" =>
       /\ ItemSound(answer.left) /\ ItemSound(answer.right)
       /\ answer.result = Composition(answer.left.summary, answer.right.summary)
=============================================================================
