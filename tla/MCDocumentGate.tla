--------------------------- MODULE MCDocumentGate ---------------------------
(* Small instance of DocumentGate.  Plans: every graph over three tasks, with *)
(* lists in both orders, crossed with the states the rules tell apart; and    *)
(* faults in one plan at a time.  Matrices: three obligations likewise.       *)
EXTENDS DocumentGate, TLC

Ids == 1 .. 3

Lists(S) == {<<>>} \cup {<<a>> : a \in S}
              \cup {list \in S \X S : list[1] # list[2]}

Graphs == Lists({2, 3}) \X Lists({1, 3}) \X Lists({1, 2})

(* What the rules read of a task, by its state.                               *)
Shape(state, tier, unresolved, evidence, oracle) ==
  [state |-> state, tier |-> tier, unresolved |-> unresolved,
   evidence |-> evidence, oracle |-> oracle]

Planned == [status |-> "planned", path |-> "oracle"]
Available == [status |-> "available", path |-> "oracle"]

Done == Shape("complete", "mechanical_evidence", FALSE, <<"log">>, Planned)
Ready == Shape("delegable", "bounded_implementer", FALSE, <<>>, Available)
Stuck == Shape("blocked", "bounded_implementer", FALSE, <<>>, Planned)
Undecided == Shape("blocked", "mechanical_evidence", TRUE, <<>>, Planned)
Design == Shape("architect_required", "architect", TRUE, <<>>, Planned)

Odd ==
  {[Done EXCEPT !.evidence = <<>>], [Done EXCEPT !.evidence = <<"lost">>],
   [Ready EXCEPT !.unresolved = TRUE], [Design EXCEPT !.tier = "human_or_external"]}

Task(id, list, shape) ==
  shape @@ [id |-> id, wellFormed |-> TRUE, deps |-> list, cbc |-> <<1>>,
            sc |-> <<1>>, decision |-> "rfc"]

Plan(tasks) ==
  LET incomplete == \E i \in DOMAIN tasks : tasks[i].state # "complete"
  IN [kind |-> "plan", shards |-> <<"first", "second">>,
      content |-> ("first" :> SubSeq(tasks, 1, 1)) @@ ("second" :> SubSeq(tasks, 2, Len(tasks))),
      header |-> TRUE,
      handoff |-> [ready |-> ~incomplete, required |-> <<1, 2, 3>>],
      posture |-> [production |-> FALSE, blanket |-> ~incomplete,
                   safeNow |-> Delegable(tasks)],
      files |-> {"rfc", "oracle", "log"}, cbc |-> {1}, sc |-> {1}, identifiable |-> TRUE]

Tasks(g, shapes) == [id \in Ids |-> Task(id, g[id], shapes[id])]

Sample == Lists({2, 3}) \X Lists({1, 3}) \X {<<>>, <<1, 2>>}

Plans ==
  {Plan(Tasks(g, shapes)) : g \in Sample, shapes \in [Ids -> {Done, Ready, Stuck, Undecided}]}
    \cup {Plan(Tasks(g, [id \in Ids |-> IF id = 2 THEN Design ELSE Stuck])) : g \in Graphs}

Line == [id \in Ids |-> IF id = 1 THEN <<>> ELSE <<id - 1>>]
Usual == Tasks(Line, [id \in Ids |-> IF id = 1 THEN Ready ELSE Stuck])

Faulty ==
  {Plan([Usual EXCEPT ![2] = task]) : task \in
     {Task(2, <<1>>, shape) : shape \in Odd}
       \cup {Task(id, <<1>>, Stuck) : id \in {1, 3}}
       \cup {Task(2, list, Stuck) : list \in {<<2>>, <<4>>, <<1, 1>>}}}
    \cup {[Plan(Usual) EXCEPT !.shards = list] : list \in {<<>>, <<"first", "first">>, <<"third">>}}
    \cup {[Plan(Usual) EXCEPT !.handoff.ready = TRUE],
          [Plan(Usual) EXCEPT !.posture.safeNow = <<>>],
          [Plan(Usual) EXCEPT !.posture.production = TRUE],
          [Plan(Usual) EXCEPT !.identifiable = FALSE]}

(* Each task waits for the next one, the last for none or for the first: as   *)
(* deep as DepthLimit, and deeper.                                            *)
Deep ==
  {Plan([id \in 1 .. n |->
           IF id = n THEN Task(id, last, IF last = <<>> THEN Ready ELSE Stuck)
                     ELSE Task(id, <<id + 1>>, Stuck)]) :
     n \in 4 .. 5, last \in {<<>>, <<1>>}}

-----------------------------------------------------------------------------
Live == <<[file |-> "code", anchor |-> ""]>>

Obligation(id, list, status) ==
  LET built == IF status \in {"implemented_partial", "implemented"} THEN Live ELSE <<>>
  IN [id |-> id, wellFormed |-> TRUE, deps |-> list, status |-> status,
      implementation |-> built, tests |-> built, formal |-> <<>>, evidence |-> <<>>,
      normative |-> <<[file |-> "spec", anchor |-> "rules"]>>]

Matrix(obligations, level) ==
  [kind |-> "matrix", header |-> TRUE, obligations |-> obligations, dated |-> TRUE,
   status |-> IF level = "L0-candidate" THEN "wp0_wp1_candidate_awaiting_human_review"
              ELSE "scoped_wp0_wp1_implementation",
   boundary |-> [level |-> level, claim |-> level = "L0", production |-> FALSE,
                 scope |-> <<"slice">>, evidence |-> Live],
   anchors |-> ("code" :> {}) @@ ("spec" :> {"rules"})]

Matrices ==
  {Matrix([id \in Ids |-> Obligation(id, g[id], IF id = 3 THEN last ELSE status)], level) :
     g \in Graphs, status \in {"specified", "blocked"},
     last \in {"blocked", "implemented_partial", "implemented"}, level \in {"L0", "L0-candidate"}}

FaultyMatrices ==
  LET usual == Matrix([id \in Ids |-> Obligation(id, <<>>, "implemented")], "L0")
  IN {[usual EXCEPT !.obligations[2].normative[1].anchor = "gone"],
      [usual EXCEPT !.obligations[2].id = 3],
      [usual EXCEPT !.boundary.production = TRUE],
      [usual EXCEPT !.boundary.evidence[1].file = "gone"]}

MCDocuments == Plans \cup Faulty \cup Deep \cup Matrices \cup FaultyMatrices
=============================================================================
