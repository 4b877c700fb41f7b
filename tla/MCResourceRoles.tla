--------------------------- MODULE MCResourceRoles ---------------------------
(* Small instance of ResourceRoles: five identifiers, the fifth in no list, *)
(* limits 2, 1 and 3, and a u16 that ends at 4, so that a list can be too   *)
(* long for its limit and also too long for the counter.                   *)
EXTENDS ResourceRoles

MCResourceIds == 1 .. 5

MCLimit == [consumed |-> 2, referenced |-> 1, created |-> 3]

MCCounterMax == 4

(* Any order, any duplicates, any collisions, each list up to one entry     *)
(* over its limit; and one list of four to six entries among empty ones, of *)
(* which the longer are those that a u16 cast instead of u16::try_from      *)
(* would take for none or one.                                              *)
SmallLists ==
  [consumed : SeqOf({1, 2, 3}, 3) , referenced : SeqOf({2, 4}, 2),
   created : {<<>>, <<1>>, <<4>>, <<1, 4>>, <<4, 3>>, <<4, 3, 1>>, <<3, 4, 1>>,
              <<1, 3, 1>>, <<2, 3, 4, 1>>}]

LongLists ==
  {[Empty EXCEPT ![role] = list] :
     role \in Roles,
     list \in {<<1, 2, 3, 4>>, <<1, 2, 3, 4, 1>>, <<1, 2, 3, 4, 1, 2>>}}

MCCandidates == SmallLists \cup LongLists
=============================================================================
