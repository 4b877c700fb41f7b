------------------------ MODULE DocumentGate_proofs ------------------------
(* Theorems about DocumentGate, for any documents.  The stack of the search   *)
(* is a path; visited is closed under dependencies and has no cycle; so the   *)
(* search says "cycle" only of a path that closes, and "acyclic" only when    *)
(* everything is visited.                                                     *)
EXTENDS DocumentGate, FiniteSetTheorems, TLAPS

-----------------------------------------------------------------------------
(* The search.                                                                *)
Frame == [node : Listed, next : Nat \ {0}]

SearchTypes ==
  /\ GraphOK
  /\ root \in Nat \ {0}
  /\ stack \in Seq(Frame)
  /\ visited \subseteq Listed
  /\ answer \in {"searching", "acyclic", "cycle", "too deep"}

(* active and the stack say the same, and no node is on the stack twice.      *)
OnStack ==
  /\ active = {stack[k].node : k \in DOMAIN stack}
  /\ \A k, l \in DOMAIN stack : stack[k].node = stack[l].node => k = l
  /\ active \cap visited = {}

(* The frame above the frame at k is a call for a dependency of it.           *)
IsPath ==
  \A k \in DOMAIN stack : k + 1 \in DOMAIN stack =>
    stack[k + 1].node \in DependsOn(stack[k].node)

(* What the loop of the frame at k has passed is visited, or being visited.   *)
Passed ==
  \A k \in DOMAIN stack : \A i \in DOMAIN deps[stack[k].node] :
    i < stack[k].next =>
      \/ deps[stack[k].node][i] \in visited
      \/ k + 1 \in DOMAIN stack /\ deps[stack[k].node][i] = stack[k + 1].node

VisitedClosed == \A node \in visited : DependsOn(node) \subseteq visited

VisitedAcyclic == \A S \in SUBSET visited : ~Knot(S)

RootsPassed ==
  \A i \in DOMAIN order : i < root =>
    order[i] \in visited \/ (stack # <<>> /\ order[i] = stack[1].node)

SearchInv ==
  /\ SearchTypes
  /\ OnStack
  /\ IsPath
  /\ Passed
  /\ VisitedClosed
  /\ VisitedAcyclic
  /\ RootsPassed
  /\ VerdictOnCycles

LEMMA SearchStarts ==
  ASSUME GraphOK', SearchStart'
  PROVE  SearchInv'
<1>. USE DEF SearchStart
<1>1. SearchTypes'
  BY DEF SearchTypes
<1>2. OnStack' /\ IsPath' /\ Passed' /\ VisitedClosed'
  BY DEF OnStack, IsPath, Passed, VisitedClosed
<1>3. VisitedAcyclic'
  BY DEF VisitedAcyclic, Knot
<1>4. RootsPassed' /\ VerdictOnCycles'
  BY DEF RootsPassed, VerdictOnCycles
<1>. QED
  BY <1>1, <1>2, <1>3, <1>4 DEF SearchInv

(* The graph does not change during the search, nor what is said of it.       *)
LEMMA GraphFixed ==
  ASSUME UNCHANGED graphVars
  PROVE  /\ order' = order /\ deps' = deps
         /\ Listed' = Listed
         /\ GraphOK' <=> GraphOK
         /\ Acyclic' <=> Acyclic
         /\ \A node : DependsOn(node)' = DependsOn(node)
         /\ \A S : Knot(S)' <=> Knot(S)
BY DEF graphVars, Listed, GraphOK, Acyclic, DependsOn, Knot

LEMMA VisitedKept ==
  ASSUME SearchInv, UNCHANGED graphVars, visited' = visited
  PROVE  VisitedClosed' /\ VisitedAcyclic'
<1>1. VisitedClosed'
  BY GraphFixed DEF SearchInv, VisitedClosed
<1>2. VisitedAcyclic'
  BY GraphFixed DEF SearchInv, VisitedAcyclic
<1>. QED
  BY <1>1, <1>2

LEMMA FramesOfStack ==
  ASSUME SearchInv
  PROVE  /\ Len(stack) \in Nat /\ DOMAIN stack = 1 .. Len(stack)
         /\ stack # <<>> => Len(stack) # 0
         /\ \A k \in 1 .. Len(stack) :
              /\ stack[k] \in Frame
              /\ stack[k].node \in Listed
              /\ stack[k].next \in Nat \ {0}
              /\ deps[stack[k].node] \in Seq(Listed)
<1>1. stack \in Seq(Frame)
  BY DEF SearchInv, SearchTypes
<1>2. /\ Len(stack) \in Nat /\ DOMAIN stack = 1 .. Len(stack)
      /\ stack # <<>> => Len(stack) # 0
      /\ \A k \in 1 .. Len(stack) : stack[k] \in Frame
  BY <1>1
<1>3. \A frame \in Frame : frame.node \in Listed /\ frame.next \in Nat \ {0}
  BY DEF Frame
<1>4. deps \in [Listed -> Seq(Listed)]
  BY DEF SearchInv, SearchTypes, GraphOK
<1>. QED
  BY <1>2, <1>3, <1>4

LEMMA FindCycleStep ==
  ASSUME SearchInv, stack # <<>>, Top.next \in DOMAIN deps[Top.node],
         deps[Top.node][Top.next] \in active
  PROVE  ~Acyclic
<1>. DEFINE node == deps[Top.node][Top.next]
            top == Len(stack)
<1>1. /\ top \in Nat \ {0} /\ DOMAIN stack = 1 .. top
      /\ \A k \in 1 .. top : stack[k].node \in Listed
  BY FramesOfStack
<1>2. PICK j \in 1 .. top : stack[j].node = node
  BY <1>1 DEF SearchInv, OnStack
<1>. DEFINE S == {stack[k].node : k \in j .. top}
<1>3. S \subseteq Listed /\ S # {}
  BY <1>1
<1>4. ASSUME NEW k \in j .. top
      PROVE  DependsOn(stack[k].node) \cap S # {}
  <2>1. CASE k = top
    <3>1. node \in DependsOn(stack[k].node)
      BY <2>1 DEF DependsOn, Top
    <3>. QED
      BY <1>1, <1>2, <3>1
  <2>2. CASE k # top
    <3>0. top \in Nat /\ j \in Nat /\ k \in Nat /\ 1 <= j /\ j <= k /\ k <= top
      BY <1>1
    <3>4. k \in 1 .. top /\ k + 1 \in 1 .. top /\ k + 1 \in j .. top
      BY <3>0, <2>2
    <3>1. k \in DOMAIN stack /\ k + 1 \in DOMAIN stack /\ k + 1 \in j .. top
      BY <3>4, <1>1
    <3>2. stack[k + 1].node \in DependsOn(stack[k].node)
      BY <3>1 DEF SearchInv, IsPath
    <3>. QED
      BY <3>1, <3>2
  <2>. QED
    BY <2>1, <2>2
<1>5. Knot(S)
  BY <1>3, <1>4 DEF Knot
<1>. QED
  BY <1>3, <1>5 DEF Acyclic

(* A call of visit for node, by the frames callers: what the loops have       *)
(* passed, the call itself included.                                          *)
Calls(node, callers) ==
  /\ node \in Listed
  /\ callers \in Seq(Frame)
  /\ Len(callers) = Len(stack)
  /\ \A k \in 1 .. Len(stack) : callers[k].node = stack[k].node
  /\ \A k \in 1 .. Len(stack) : \A i \in DOMAIN deps[stack[k].node] :
       i < callers[k].next =>
         \/ deps[stack[k].node][i] \in visited
         \/ k + 1 \in 1 .. Len(stack) /\ deps[stack[k].node][i] = stack[k + 1].node
         \/ k = Len(stack) /\ deps[stack[k].node][i] = node
  /\ stack # <<>> => node \in DependsOn(stack[Len(stack)].node)
  /\ root' \in Nat \ {0}
  /\ \A i \in DOMAIN order : i < root' =>
       \/ order[i] \in visited
       \/ stack # <<>> /\ order[i] = stack[1].node
       \/ stack = <<>> /\ order[i] = node

LEMMA RootCalls ==
  ASSUME SearchInv, stack = <<>>, root \in DOMAIN order, root' = root + 1
  PROVE  Calls(order[root], <<>>)
<1>1. order \in Seq(Listed) /\ root \in Nat \ {0}
  BY DEF SearchInv, SearchTypes, GraphOK
<1>2. order[root] \in Listed /\ root' \in Nat \ {0}
  BY <1>1
<1>3. <<>> \in Seq(Frame) /\ Len(<<>>) = 0 /\ Len(stack) = 0
  OBVIOUS
<1>4. ASSUME NEW i \in DOMAIN order, i < root'
      PROVE  order[i] \in visited \/ order[i] = order[root]
  <2>1. i < root \/ i = root
    BY <1>1, <1>4
  <2>. QED
    BY <2>1 DEF SearchInv, RootsPassed
<1>. QED
  BY <1>2, <1>3, <1>4 DEF Calls

LEMMA DependencyCalls ==
  ASSUME SearchInv, stack # <<>>, Top.next \in DOMAIN deps[Top.node], root' = root
  PROVE  Calls(deps[Top.node][Top.next],
               [stack EXCEPT ![Len(stack)].next = Top.next + 1])
<1>. DEFINE top == Len(stack)
            node == deps[Top.node][Top.next]
            callers == [stack EXCEPT ![Len(stack)].next = Top.next + 1]
<1>1. /\ top \in Nat \ {0} /\ top \in DOMAIN stack /\ DOMAIN stack = 1 .. top
      /\ \A k \in 1 .. top :
           /\ stack[k] \in Frame
           /\ stack[k].node \in Listed
           /\ stack[k].next \in Nat \ {0}
           /\ deps[stack[k].node] \in Seq(Listed)
  BY FramesOfStack
<1>2. node \in Listed /\ node \in DependsOn(stack[top].node)
  BY <1>1 DEF Top, DependsOn
<1>3. [stack[top] EXCEPT !.next = stack[top].next + 1] \in Frame
  BY <1>1 DEF Frame
<1>4. stack \in Seq(Frame)
  BY DEF SearchInv, SearchTypes
<1>5. callers = [stack EXCEPT ![top] = [stack[top] EXCEPT !.next = stack[top].next + 1]]
  BY DEF Top
<1>6. /\ callers \in Seq(Frame)
      /\ Len(callers) = top
      /\ \A k \in 1 .. top : k # top => callers[k] = stack[k]
      /\ callers[top] = [stack[top] EXCEPT !.next = stack[top].next + 1]
  BY <1>1, <1>3, <1>4, <1>5
<1>7. /\ callers[top].node = stack[top].node
      /\ callers[top].next = stack[top].next + 1
  BY <1>1, <1>6 DEF Frame
<1>8. ASSUME NEW k \in 1 .. top, NEW i \in DOMAIN deps[stack[k].node], i < callers[k].next
      PROVE  \/ deps[stack[k].node][i] \in visited
             \/ k + 1 \in 1 .. top /\ deps[stack[k].node][i] = stack[k + 1].node
             \/ k = top /\ deps[stack[k].node][i] = node
  <2>1. i \in Nat
    BY <1>1
  <2>2. CASE i < stack[k].next
    BY <1>1, <2>2 DEF SearchInv, Passed
  <2>3. CASE ~(i < stack[k].next)
    <3>1. k = top
      BY <1>6, <1>8, <2>3
    <3>2. i = stack[top].next
      BY <1>1, <1>7, <1>8, <2>1, <2>3, <3>1
    <3>. QED
      BY <3>1, <3>2 DEF Top
  <2>. QED
    BY <2>2, <2>3
<1>9. root' \in Nat \ {0}
  BY DEF SearchInv, SearchTypes
<1>10. ASSUME NEW i \in DOMAIN order, i < root'
       PROVE  order[i] \in visited \/ order[i] = stack[1].node
  BY <1>10 DEF SearchInv, RootsPassed
<1>. QED
  BY <1>2, <1>6, <1>7, <1>8, <1>9, <1>10 DEF Calls

-----------------------------------------------------------------------------
(* What a call changes.                                                       *)
LEMMA SkipStep ==
  ASSUME SearchInv, UNCHANGED graphVars, NEW node, NEW callers, Calls(node, callers),
         SkipVisited(node, callers)
  PROVE  SearchInv'
<1>1. /\ stack' = callers /\ visited' = visited /\ active' = active /\ answer' = answer
      /\ node \in visited
  BY DEF SkipVisited
<1>2. /\ Len(stack') = Len(stack) /\ Len(stack) \in Nat
      /\ DOMAIN stack = 1 .. Len(stack) /\ DOMAIN stack' = 1 .. Len(stack)
      /\ \A k \in 1 .. Len(stack) : stack'[k].node = stack[k].node
  <2>1. callers \in Seq(Frame) /\ Len(callers) = Len(stack)
        /\ \A k \in 1 .. Len(stack) : callers[k].node = stack[k].node
    BY DEF Calls
  <2>. QED
    BY <1>1, <2>1, FramesOfStack
<1>3. SearchTypes'
  <2>1. callers \in Seq(Frame) /\ root' \in Nat \ {0}
    BY DEF Calls
  <2>2. Frame' = Frame /\ Listed' = Listed /\ GraphOK'
    BY GraphFixed DEF Frame, SearchInv, SearchTypes
  <2>. QED
    BY <1>1, <2>1, <2>2 DEF SearchInv, SearchTypes
<1>4. OnStack'
  <2>1. OnStack
    BY DEF SearchInv
  <2>. QED
    BY <1>1, <1>2, <2>1 DEF OnStack
<1>5. IsPath'
  <2>1. deps' = deps
    BY GraphFixed
  <2>. SUFFICES ASSUME NEW k \in DOMAIN stack', k + 1 \in DOMAIN stack'
                PROVE  stack'[k + 1].node
                         \in {deps[stack'[k].node][i] : i \in DOMAIN deps[stack'[k].node]}
    BY <2>1 DEF IsPath, DependsOn
  <2>. SUFFICES stack[k + 1].node \in DependsOn(stack[k].node)
    BY <1>2 DEF DependsOn
  <2>. QED
    BY <1>2 DEF SearchInv, IsPath
<1>6. Passed'
  <2>. SUFFICES ASSUME NEW k \in 1 .. Len(stack), NEW i \in DOMAIN deps[stack[k].node],
                       i < callers[k].next
                PROVE  \/ deps[stack[k].node][i] \in visited
                       \/ k + 1 \in 1 .. Len(stack)
                          /\ deps[stack[k].node][i] = stack[k + 1].node
    BY <1>1, <1>2, GraphFixed DEF Passed
  <2>. QED
    BY <1>1 DEF Calls
<1>7. VisitedClosed' /\ VisitedAcyclic'
  BY <1>1, VisitedKept
<1>8. RootsPassed'
  <2>1. \A i \in DOMAIN order : i < root' =>
          order[i] \in visited \/ (stack # <<>> /\ order[i] = stack[1].node)
    BY <1>1 DEF Calls
  <2>2. stack # <<>> => stack' # <<>> /\ stack'[1].node = stack[1].node
    BY <1>2, FramesOfStack
  <2>. QED
    BY <1>1, <2>1, <2>2, GraphFixed DEF RootsPassed
<1>9. VerdictOnCycles'
  BY <1>1, GraphFixed DEF SearchInv, VerdictOnCycles
<1>. QED
  BY <1>3, <1>4, <1>5, <1>6, <1>7, <1>8, <1>9 DEF SearchInv

LEMMA EnterStep ==
  ASSUME SearchInv, UNCHANGED graphVars, NEW node, NEW callers, Calls(node, callers),
         Enter(node, callers)
  PROVE  SearchInv'
<1>. DEFINE top == Len(stack)
            frame == [node |-> node, next |-> 1]
<1>1. /\ stack' = Append(callers, frame)
      /\ visited' = visited /\ active' = active \cup {node} /\ answer' = answer
      /\ node \notin visited /\ node \notin active
  BY DEF Enter
<1>2. /\ callers \in Seq(Frame) /\ Len(callers) = top /\ node \in Listed
      /\ root' \in Nat \ {0}
      /\ \A k \in 1 .. top : callers[k].node = stack[k].node
  BY DEF Calls
<1>3. top \in Nat /\ DOMAIN stack = 1 .. top
  BY FramesOfStack
<1>4. frame \in Frame
  BY <1>2 DEF Frame
<1>5. /\ stack' \in Seq(Frame)
      /\ Len(stack') = top + 1 /\ DOMAIN stack' = 1 .. (top + 1)
      /\ \A k \in 1 .. top : stack'[k] = callers[k]
      /\ stack'[top + 1] = frame
  BY <1>1, <1>2, <1>3, <1>4
<1>6. /\ \A k \in 1 .. top : stack'[k].node = stack[k].node
      /\ stack'[top + 1].node = node /\ stack'[top + 1].next = 1
  BY <1>2, <1>5
<1>7. SearchTypes'
  <2>1. Frame' = Frame /\ Listed' = Listed /\ GraphOK'
    BY GraphFixed DEF Frame, SearchInv, SearchTypes
  <2>. QED
    BY <1>1, <1>2, <1>5, <2>1 DEF SearchInv, SearchTypes
<1>8. OnStack'
  <2>1. /\ active = {stack[k].node : k \in 1 .. top}
        /\ \A k, l \in 1 .. top : stack[k].node = stack[l].node => k = l
        /\ active \cap visited = {}
    BY <1>3 DEF SearchInv, OnStack
  <2>2. active' = {stack'[k].node : k \in 1 .. (top + 1)}
    <3>1. 1 .. (top + 1) = (1 .. top) \cup {top + 1}
      BY <1>3
    <3>2. {stack'[k].node : k \in 1 .. top} = {stack[k].node : k \in 1 .. top}
      BY <1>6
    <3>3. {stack'[k].node : k \in (1 .. top) \cup {top + 1}}
            = {stack'[k].node : k \in 1 .. top} \cup {stack'[top + 1].node}
      OBVIOUS
    <3>4. active' = active \cup {node} /\ stack'[top + 1].node = node
      BY <1>1, <1>6
    <3>. QED
      BY <2>1, <3>1, <3>2, <3>3, <3>4, Zenon
  <2>3. ASSUME NEW k \in 1 .. (top + 1), NEW l \in 1 .. (top + 1),
               stack'[k].node = stack'[l].node
        PROVE  k = l
    <3>1. (k \in 1 .. top \/ k = top + 1) /\ (l \in 1 .. top \/ l = top + 1)
      BY <1>3
    <3>2. \A m \in 1 .. top : stack'[m].node # node
      BY <1>1, <1>6, <2>1
    <3>. QED
      BY <1>6, <2>1, <2>3, <3>1, <3>2
  <2>4. active' \cap visited' = {}
    BY <1>1, <2>1
  <2>. QED
    BY <1>5, <2>2, <2>3, <2>4 DEF OnStack
<1>9. IsPath'
  <2>1. deps' = deps
    BY GraphFixed
  <2>. SUFFICES ASSUME NEW k \in DOMAIN stack', k + 1 \in DOMAIN stack'
                PROVE  stack'[k + 1].node
                         \in {deps[stack'[k].node][i] : i \in DOMAIN deps[stack'[k].node]}
    BY <2>1 DEF IsPath, DependsOn
  <2>. SUFFICES stack'[k + 1].node \in DependsOn(stack'[k].node)
    BY <1>5 DEF DependsOn
  <2>9. k \in 1 .. (top + 1) /\ k + 1 \in 1 .. (top + 1)
    BY <1>5
  <2>2. k \in 1 .. top
    BY <1>3, <2>9
  <2>3. CASE k = top
    <3>1. stack # <<>>
      BY <1>3, <2>2
    <3>2. node \in DependsOn(stack[top].node)
      BY <3>1 DEF Calls
    <3>. QED
      BY <1>6, <2>2, <2>3, <3>2
  <2>4. CASE k # top
    <3>0. k \in Nat /\ 1 <= k /\ k <= top
      BY <1>3, <2>2
    <3>1. k + 1 \in 1 .. top
      BY <1>3, <2>4, <3>0
    <3>2. stack[k + 1].node \in DependsOn(stack[k].node)
      BY <1>3, <2>2, <3>1 DEF SearchInv, IsPath
    <3>. QED
      BY <1>6, <2>2, <3>1, <3>2
  <2>. QED
    BY <2>3, <2>4
<1>10. Passed'
  <2>0. deps' = deps /\ DOMAIN stack' = 1 .. (top + 1)
    BY <1>5, GraphFixed
  <2>. SUFFICES ASSUME NEW k \in 1 .. (top + 1), NEW i \in DOMAIN deps[stack'[k].node],
                       i < stack'[k].next
                PROVE  \/ deps[stack'[k].node][i] \in visited
                       \/ k + 1 \in 1 .. (top + 1)
                          /\ deps[stack'[k].node][i] = stack'[k + 1].node
    BY <1>1, <2>0, Zenon DEF Passed
  <2>1. CASE k = top + 1
    <3>1. deps[node] \in Seq(Listed)
      BY <1>2 DEF SearchInv, SearchTypes, GraphOK
    <3>2. i \in Nat /\ i >= 1
      BY <1>6, <2>1, <3>1
    <3>. QED
      BY <1>6, <2>1, <3>2
  <2>2. CASE k # top + 1
    <3>1. k \in 1 .. top /\ k + 1 \in 1 .. (top + 1)
      BY <1>3, <2>2
    <3>2. i \in DOMAIN deps[stack[k].node] /\ i < callers[k].next
          /\ deps[stack'[k].node][i] = deps[stack[k].node][i]
      BY <1>5, <1>6, <3>1
    <3>3. \/ deps[stack[k].node][i] \in visited
          \/ k + 1 \in 1 .. top /\ deps[stack[k].node][i] = stack[k + 1].node
          \/ k = top /\ deps[stack[k].node][i] = node
      BY <3>1, <3>2 DEF Calls
    <3>. QED
      BY <1>6, <3>1, <3>2, <3>3
  <2>. QED
    BY <2>1, <2>2
<1>11. VisitedClosed' /\ VisitedAcyclic'
  BY <1>1, VisitedKept
<1>12. RootsPassed'
  <2>1. /\ stack' # <<>>
        /\ stack # <<>> => stack'[1].node = stack[1].node
        /\ stack = <<>> => stack'[1].node = node
    BY <1>3, <1>5, <1>6, FramesOfStack
  <2>2. \A i \in DOMAIN order : i < root' =>
          \/ order[i] \in visited
          \/ stack # <<>> /\ order[i] = stack[1].node
          \/ stack = <<>> /\ order[i] = node
    BY DEF Calls
  <2>. QED
    BY <1>1, <2>1, <2>2, GraphFixed DEF RootsPassed
<1>13. VerdictOnCycles'
  BY <1>1, GraphFixed DEF SearchInv, VerdictOnCycles
<1>. QED
  BY <1>7, <1>8, <1>9, <1>10, <1>11, <1>12, <1>13 DEF SearchInv

(* A finished node has only visited dependencies and is none of them, so it   *)
(* closes no cycle.                                                           *)
LEMMA LeaveStep ==
  ASSUME SearchInv, Leave
  PROVE  SearchInv'
<1>. DEFINE top == Len(stack)
            node == stack[top].node
<1>1. /\ stack # <<>> /\ stack[top].next \notin DOMAIN deps[node]
      /\ active' = active \ {node} /\ visited' = visited \cup {node}
      /\ stack' = SubSeq(stack, 1, top - 1)
      /\ UNCHANGED graphVars /\ root' = root /\ answer' = answer
      /\ answer = "searching"
  BY DEF Leave, Top
<1>2. /\ top \in Nat \ {0} /\ DOMAIN stack = 1 .. top
      /\ \A k \in 1 .. top :
           /\ stack[k] \in Frame
           /\ stack[k].node \in Listed
           /\ stack[k].next \in Nat \ {0}
           /\ deps[stack[k].node] \in Seq(Listed)
  BY <1>1, FramesOfStack
<1>3. /\ stack' \in Seq(Frame)
      /\ Len(stack') = top - 1 /\ DOMAIN stack' = 1 .. (top - 1)
      /\ \A k \in 1 .. (top - 1) : stack'[k] = stack[k]
  BY <1>1, <1>2 DEF SearchInv, SearchTypes
<1>4. /\ active = {stack[k].node : k \in 1 .. top}
      /\ \A k, l \in 1 .. top : stack[k].node = stack[l].node => k = l
      /\ active \cap visited = {}
  BY <1>2 DEF SearchInv, OnStack
<1>5. node \in Listed /\ node \notin visited
  BY <1>2, <1>4
<1>6. DependsOn(node) \subseteq visited
  <2>1. ASSUME NEW i \in DOMAIN deps[node]
        PROVE  deps[node][i] \in visited
    <3>0. /\ deps[node] \in Seq(Listed) /\ stack[top].next \in Nat \ {0}
          /\ stack[top].next \notin DOMAIN deps[node]
      BY <1>1, <1>2
    <3>1. i < stack[top].next
      BY <3>0
    <3>2. ~(top + 1 \in 1 .. top)
      BY <1>2
    <3>. QED
      BY <1>2, <3>1, <3>2 DEF SearchInv, Passed
  <2>. QED
    BY <2>1 DEF DependsOn
<1>7. SearchTypes'
  <2>1. Frame' = Frame /\ Listed' = Listed /\ GraphOK'
    BY <1>1, GraphFixed DEF Frame, SearchInv, SearchTypes
  <2>. QED
    BY <1>1, <1>3, <1>5, <2>1 DEF SearchInv, SearchTypes
<1>8. OnStack'
  <2>1. active' = {stack'[k].node : k \in 1 .. (top - 1)}
    <3>1. 1 .. top = (1 .. (top - 1)) \cup {top} /\ top \notin 1 .. (top - 1)
          /\ 1 .. (top - 1) \subseteq 1 .. top
      BY <1>2
    <3>2. \A k \in 1 .. (top - 1) : stack[k].node # node
      BY <1>4, <3>1
    <3>3. active = {stack[k].node : k \in 1 .. (top - 1)} \cup {node}
      BY <1>4, <3>1
    <3>. QED
      BY <1>1, <1>3, <3>2, <3>3
  <2>2. \A k, l \in 1 .. (top - 1) : stack'[k].node = stack'[l].node => k = l
    BY <1>2, <1>3, <1>4
  <2>3. active' \cap visited' = {}
    BY <1>1, <1>4
  <2>. QED
    BY <1>3, <2>1, <2>2, <2>3 DEF OnStack
<1>9. IsPath'
  <2>1. deps' = deps
    BY <1>1, GraphFixed
  <2>. SUFFICES ASSUME NEW k \in DOMAIN stack', k + 1 \in DOMAIN stack'
                PROVE  stack'[k + 1].node
                         \in {deps[stack'[k].node][i] : i \in DOMAIN deps[stack'[k].node]}
    BY <2>1 DEF IsPath, DependsOn
  <2>. SUFFICES stack[k + 1].node \in DependsOn(stack[k].node)
    BY <1>3 DEF DependsOn
  <2>9. k \in 1 .. (top - 1) /\ k + 1 \in 1 .. (top - 1)
    BY <1>3
  <2>. QED
    BY <1>2, <2>9 DEF SearchInv, IsPath
<1>10. Passed'
  <2>. SUFFICES ASSUME NEW k \in DOMAIN stack', NEW i \in DOMAIN deps[stack'[k].node],
                       i < stack'[k].next
                PROVE  \/ deps[stack'[k].node][i] \in visited'
                       \/ k + 1 \in DOMAIN stack'
                          /\ deps[stack'[k].node][i] = stack'[k + 1].node
    BY <1>1, GraphFixed DEF Passed
  <2>9. k \in 1 .. (top - 1) /\ stack'[k] = stack[k]
    BY <1>3
  <2>1. k \in 1 .. top /\ (k + 1 \in 1 .. (top - 1) \/ k + 1 = top)
    BY <1>2, <2>9
  <2>2. \/ deps[stack[k].node][i] \in visited
        \/ deps[stack[k].node][i] = stack[k + 1].node
    BY <1>2, <2>1, <2>9 DEF SearchInv, Passed
  <2>. QED
    BY <1>1, <1>3, <2>1, <2>2, <2>9
<1>11. VisitedClosed'
  BY <1>1, <1>6, GraphFixed DEF SearchInv, VisitedClosed
<1>12. VisitedAcyclic'
  <2>. SUFFICES ASSUME NEW S \in SUBSET (visited \cup {node}), Knot(S)
                PROVE  FALSE
    BY <1>1, GraphFixed DEF VisitedAcyclic
  <2>. DEFINE R == S \cap visited
  <2>1. \A member \in S : DependsOn(member) \subseteq visited
    BY <1>6 DEF SearchInv, VisitedClosed
  <2>2. \A member \in S : DependsOn(member) \cap R # {}
    BY <2>1 DEF Knot
  <2>3. Knot(R)
    BY <2>2 DEF Knot
  <2>. QED
    BY <2>3 DEF SearchInv, VisitedAcyclic
<1>13. RootsPassed'
  <2>. SUFFICES ASSUME NEW i \in DOMAIN order, i < root
                PROVE  order[i] \in visited \cup {node}
                       \/ (stack' # <<>> /\ order[i] = stack'[1].node)
    BY <1>1, GraphFixed DEF RootsPassed
  <2>1. order[i] \in visited \/ order[i] = stack[1].node
    BY DEF SearchInv, RootsPassed
  <2>2. top = 1 \/ (stack' # <<>> /\ stack'[1] = stack[1])
    BY <1>2, <1>3
  <2>. QED
    BY <2>1, <2>2
<1>14. VerdictOnCycles'
  BY <1>1, GraphFixed DEF VerdictOnCycles
<1>. QED
  BY <1>7, <1>8, <1>9, <1>10, <1>11, <1>12, <1>13, <1>14 DEF SearchInv

LEMMA OrderLists ==
  ASSUME SearchInv
  PROVE  order \in Seq(Listed) /\ Len(order) \in Nat /\ DOMAIN order = 1 .. Len(order)
<1>1. order \in Seq(Listed)
  BY DEF SearchInv, SearchTypes, GraphOK
<1>. QED
  BY <1>1

(* No node is on the stack twice, so the stack is no longer than the graph.   *)
LEMMA StackFits ==
  ASSUME SearchInv
  PROVE  Len(stack) <= Len(order)
<1>. DEFINE Nodes == [k \in 1 .. Len(stack) |-> stack[k].node]
<1>1. /\ Len(stack) \in Nat /\ DOMAIN stack = 1 .. Len(stack)
      /\ \A k \in 1 .. Len(stack) : stack[k].node \in Listed
  BY FramesOfStack
<1>2. order \in Seq(Listed) /\ Len(order) \in Nat /\ DOMAIN order = 1 .. Len(order)
  BY OrderLists
<1>3. Nodes \in Injection(1 .. Len(stack), Listed)
  BY <1>1 DEF Injection, IsInjective, SearchInv, OnStack
<1>4. order \in Surjection(1 .. Len(order), Listed)
  BY <1>2 DEF Surjection, Listed
<1>5. /\ IsFiniteSet(1 .. Len(order)) /\ Cardinality(1 .. Len(order)) = Len(order)
      /\ Cardinality(1 .. Len(stack)) = Len(stack)
  <2>1. ASSUME NEW n \in Nat
        PROVE  IsFiniteSet(1 .. n) /\ Cardinality(1 .. n) = n
    <3>1. IsFiniteSet(1 .. n) /\ Cardinality(1 .. n) = IF 1 > n THEN 0 ELSE n - 1 + 1
      BY FS_Interval
    <3>. QED
      BY <3>1
  <2>. QED
    BY <1>1, <1>2, <2>1
<1>6. IsFiniteSet(Listed) /\ Cardinality(Listed) <= Len(order)
  BY <1>4, <1>5, FS_Surjection
<1>7. Len(stack) <= Cardinality(Listed)
  BY <1>3, <1>5, <1>6, FS_Injection
<1>8. Cardinality(Listed) \in Nat
  BY <1>6, FS_CardinalityType
<1>. QED
  BY <1>1, <1>2, <1>6, <1>7, <1>8

LEMMA StackKept ==
  ASSUME SearchInv, deps' = deps, UNCHANGED <<stack, visited, active>>
  PROVE  OnStack' /\ IsPath' /\ Passed'
<1>1. OnStack' /\ Passed'
  BY DEF SearchInv, OnStack, Passed
<1>2. IsPath'
  BY DEF SearchInv, IsPath, DependsOn
<1>. QED
  BY <1>1, <1>2

(* answer alone changes when the search ends.                                 *)
LEMMA AnswerStep ==
  ASSUME SearchInv, UNCHANGED <<graphVars, stack, visited, active>>,
         root' \in Nat \ {0}, answer' \in {"acyclic", "cycle", "too deep"},
         \A i \in DOMAIN order : i < root' =>
           order[i] \in visited \/ (stack # <<>> /\ order[i] = stack[1].node),
         VerdictOnCycles'
  PROVE  SearchInv'
<1>1. SearchTypes'
  <2>1. Frame' = Frame /\ Listed' = Listed /\ GraphOK'
    BY GraphFixed DEF Frame, SearchInv, SearchTypes
  <2>. QED
    BY <2>1 DEF SearchInv, SearchTypes
<1>2. OnStack' /\ IsPath' /\ Passed'
  BY GraphFixed, StackKept
<1>3. VisitedClosed' /\ VisitedAcyclic'
  BY VisitedKept
<1>4. RootsPassed'
  BY GraphFixed DEF RootsPassed
<1>. QED
  BY <1>1, <1>2, <1>3, <1>4 DEF SearchInv

LEMMA FinishStep ==
  ASSUME SearchInv, FinishSearch
  PROVE  SearchInv'
<1>1. Listed \subseteq visited
  <2>1. order \in Seq(Listed) /\ root \in Nat \ {0}
    BY DEF SearchInv, SearchTypes, GraphOK
  <2>2. \A i \in DOMAIN order : i < root
    BY <2>1 DEF FinishSearch
  <2>3. \A i \in DOMAIN order : order[i] \in visited
    BY <2>2 DEF FinishSearch, SearchInv, RootsPassed
  <2>. QED
    BY <2>3 DEF Listed
<1>2. Acyclic
  BY <1>1 DEF SearchInv, VisitedAcyclic, Acyclic
<1>3. VerdictOnCycles'
  BY <1>2, GraphFixed DEF FinishSearch, VerdictOnCycles
<1>. QED
  BY <1>3, AnswerStep DEF FinishSearch, SearchInv, SearchTypes, RootsPassed

LEMMA SearchStep ==
  ASSUME SearchInv, SearchNext
  PROVE  SearchInv'
<1>1. CASE VisitRoot
  <2>1. Calls(order[root], <<>>)
    BY <1>1, RootCalls DEF VisitRoot
  <2>2. active = {}
    BY <1>1 DEF VisitRoot, SearchInv, OnStack
  <2>4. ~(Len(<<>>) >= DepthLimit)
    BY DepthLimitAssumption DEF DepthLimitAssumption
  <2>3. SkipVisited(order[root], <<>>) \/ Enter(order[root], <<>>)
    BY <1>1, <2>2, <2>4 DEF VisitRoot, Visit, FindCycle, ExceedDepth
  <2>. QED
    BY <1>1, <2>1, <2>3, SkipStep, EnterStep DEF VisitRoot
<1>2. CASE VisitDependency
  <2>. DEFINE node == deps[Top.node][Top.next]
              callers == [stack EXCEPT ![Len(stack)].next = Top.next + 1]
  <2>1. /\ stack # <<>> /\ Top.next \in DOMAIN deps[Top.node]
        /\ root' = root /\ UNCHANGED graphVars
        /\ \/ ExceedDepth(callers) \/ FindCycle(node)
           \/ SkipVisited(node, callers) \/ Enter(node, callers)
    BY <1>2 DEF VisitDependency, Visit
  <2>2. Calls(node, callers)
    BY <2>1, DependencyCalls
  <2>3. CASE FindCycle(node)
    <3>1. ~Acyclic
      BY <2>1, <2>3, FindCycleStep DEF FindCycle
    <3>2. VerdictOnCycles'
      BY <2>1, <2>3, <3>1, GraphFixed DEF FindCycle, VerdictOnCycles
    <3>. QED
      BY <2>1, <2>3, <3>2, AnswerStep DEF FindCycle, SearchInv, SearchTypes, RootsPassed
  <2>4. CASE ExceedDepth(callers)
    <3>1. Len(callers) = Len(stack) /\ Len(stack) \in Nat
      BY <2>2, FramesOfStack DEF Calls
    <3>2. Len(order) \in Nat
      BY OrderLists
    <3>3. Len(order) >= DepthLimit
      <4>1. Len(stack) >= DepthLimit
        BY <2>4, <3>1 DEF ExceedDepth
      <4>2. DepthLimit \in Nat /\ Len(stack) <= Len(order)
        BY StackFits, DepthLimitAssumption DEF DepthLimitAssumption
      <4>. QED
        BY <3>1, <3>2, <4>1, <4>2
    <3>4. VerdictOnCycles'
      BY <2>1, <2>4, <3>3, GraphFixed DEF ExceedDepth, VerdictOnCycles
    <3>. QED
      BY <2>1, <2>4, <3>4, AnswerStep DEF ExceedDepth, SearchInv, SearchTypes, RootsPassed
  <2>. QED
    BY <2>1, <2>2, <2>3, <2>4, SkipStep, EnterStep
<1>. QED
  BY <1>1, <1>2, LeaveStep, FinishStep DEF SearchNext

-----------------------------------------------------------------------------
(* The gate.                                                                  *)
Stages ==
  {"load", "header", "entries", "edges", "search", "states", "closing",
   "accepted", "rejected", "crashed"}

Numbered == \A i \in DOMAIN entries : entries[i].id = i

(* The graph that is searched is that of the entries.                         *)
EntryIds == [i \in DOMAIN entries |-> entries[i].id]

EntryGraph == [id \in Identifiers |-> TaskOf(entries, id).deps]

GraphOfEntries == order = EntryIds /\ deps = EntryGraph

EntriesPassed(n) == \A i \in DOMAIN entries : i < n => EntryOK(entries[i], i)

EdgesPassed(n) == \A i \in DOMAIN entries : i < n => EdgesOK(entries[i])

StatesPassed(n) ==
  IsPlan => \A i \in DOMAIN entries : i < n => TaskStateOK(document, entries, entries[i])

AllEntries == Len(entries) + 1

GateTypes ==
  /\ document \in Documents
  /\ stage \in Stages
  /\ position \in Nat \ {0}
  /\ ListsEntries(entries)

SearchSoFar ==
  /\ stage \in {"load", "header", "entries", "edges"} => SearchStart
  /\ stage \in {"search", "states", "closing", "accepted"} => SearchInv /\ GraphOfEntries
  /\ stage \in {"states", "closing", "accepted"} => answer = "acyclic"
  /\ stage \in {"rejected", "crashed"} => VerdictOnCycles

RulesSoFar ==
  /\ stage = "header" /\ position > 1 => IsPlan \/ Numbered
  /\ stage \in {"entries", "edges", "search", "states", "closing", "accepted"} =>
       IsPlan \/ Numbered
  /\ stage = "entries" => EntriesPassed(position)
  /\ stage \in {"edges", "search", "states", "closing", "accepted"} =>
       EntriesPassed(AllEntries) /\ Numbered
  /\ stage = "edges" => EdgesPassed(position)
  /\ stage = "search" => position = 1
  /\ stage = "states" => StatesPassed(position)
  /\ stage \in {"closing", "accepted"} => StatesPassed(AllEntries)

GateInv == GateTypes /\ SearchSoFar /\ RulesSoFar

LEMMA EntriesList ==
  ASSUME GateTypes
  PROVE  /\ entries \in Seq(Members(entries))
         /\ Len(entries) \in Nat /\ DOMAIN entries = 1 .. Len(entries)
         /\ \A i \in DOMAIN entries : i < AllEntries
         /\ \A i \in DOMAIN entries :
              entries[i].id \in Nat /\ entries[i].deps \in Seq(Nat)
BY DEF GateTypes, ListsEntries, AllEntries

LEMMA OwnMembers ==
  ASSUME NEW All, NEW list \in Seq(All)
  PROVE  list \in Seq(Members(list))
<1>1. /\ Len(list) \in Nat
      /\ list = [i \in 1 .. Len(list) |-> list[i]]
      /\ DOMAIN list = 1 .. Len(list)
  OBVIOUS
<1>2. \A i \in 1 .. Len(list) : list[i] \in Members(list)
  BY <1>1 DEF Members
<1>3. list \in [1 .. Len(list) -> Members(list)]
  BY <1>1, <1>2, Zenon
<1>. QED
  BY <1>1, <1>3

LEMMA ConcatEntries ==
  ASSUME NEW first, NEW second, ListsEntries(first), ListsEntries(second)
  PROVE  ListsEntries(first \o second)
<1>. DEFINE both == first \o second
            All == Members(first) \cup Members(second)
<1>1. first \in Seq(All) /\ second \in Seq(All)
  BY DEF ListsEntries, Members
<1>2. /\ both \in Seq(All)
      /\ \A i \in DOMAIN both :
           \/ \E j \in DOMAIN first : both[i] = first[j]
           \/ \E j \in DOMAIN second : both[i] = second[j]
  BY <1>1
<1>3. both \in Seq(Members(both))
  BY <1>2, OwnMembers
<1>. QED
  BY <1>2, <1>3 DEF ListsEntries

(* Tasks numbered by position are found by their number.                      *)
LEMMA TaskOfNumbered ==
  ASSUME GateTypes, Numbered, NEW id \in DOMAIN entries
  PROVE  TaskOf(entries, id) = entries[id]
<1>1. DOMAIN entries = 1 .. Len(entries)
  BY EntriesList
<1>2. \A i \in DOMAIN entries :
        (/\ entries[i].id = id
         /\ \A j \in DOMAIN entries : entries[j].id = id => j <= i) <=> i = id
  BY <1>1 DEF Numbered
<1>3. (CHOOSE i \in DOMAIN entries :
         entries[i].id = id /\ \A j \in DOMAIN entries : entries[j].id = id => j <= i) = id
  BY <1>2
<1>. QED
  BY <1>3 DEF TaskOf

LEMMA GraphIsOK ==
  ASSUME GateInv, stage = "edges", EdgesPassed(AllEntries)
  PROVE  /\ EntryIds \in Seq(Identifiers)
         /\ {EntryIds[i] : i \in DOMAIN EntryIds} = Identifiers
         /\ EntryGraph \in [Identifiers -> Seq(Identifiers)]
<1>1. /\ entries \in Seq(Members(entries)) /\ Len(entries) \in Nat
      /\ DOMAIN entries = 1 .. Len(entries)
      /\ \A i \in DOMAIN entries : entries[i].deps \in Seq(Nat)
      /\ \A i \in DOMAIN entries : i < AllEntries
  BY EntriesList DEF GateInv
<1>2. Numbered /\ GateTypes
  BY DEF GateInv, RulesSoFar
<1>3. Identifiers = DOMAIN entries
  BY <1>2 DEF Identifiers, Numbered
<1>4. EntryIds \in Seq(Identifiers) /\ {EntryIds[i] : i \in DOMAIN EntryIds} = Identifiers
  BY <1>1 DEF Identifiers, EntryIds
<1>5. ASSUME NEW id \in Identifiers
      PROVE  TaskOf(entries, id).deps \in Seq(Identifiers)
  <2>1. TaskOf(entries, id) = entries[id] /\ id \in DOMAIN entries
    BY <1>2, <1>3, TaskOfNumbered
  <2>2. EdgesOK(entries[id])
    BY <1>1, <2>1 DEF EdgesPassed
  <2>. DEFINE list == entries[id].deps
  <2>3. list \in Seq(Nat) /\ \A i \in DOMAIN list : list[i] \in Identifiers
    BY <1>1, <2>1, <2>2 DEF EdgesOK, Members
  <2>. QED
    BY <2>1, <2>3
<1>. QED
  BY <1>4, <1>5 DEF EntryGraph

-----------------------------------------------------------------------------
LEMMA InitGate ==
  ASSUME Init
  PROVE  GateInv
<1>1. ListsEntries(<<>>)
  BY DEF ListsEntries, Members
<1>. QED
  BY <1>1 DEF Init, GateInv, GateTypes, SearchSoFar, RulesSoFar, Stages

(* While the search stands still, so do the facts about it.                   *)
LEMMA SearchKept ==
  ASSUME SearchSoFar, UNCHANGED <<graphVars, searchVars>>
  PROVE  /\ SearchStart => SearchStart'
         /\ SearchInv => SearchInv'
         /\ VerdictOnCycles => VerdictOnCycles'
         /\ answer' = answer
<1>1. /\ SearchStart => SearchStart'
      /\ VerdictOnCycles => VerdictOnCycles'
      /\ answer' = answer
  BY GraphFixed DEF SearchStart, VerdictOnCycles, searchVars
<1>2. SearchInv => SearchInv'
  <2>. SUFFICES ASSUME SearchInv
                PROVE  SearchInv'
    OBVIOUS
  <2>1. SearchTypes'
    BY GraphFixed DEF Frame, SearchInv, SearchTypes, searchVars
  <2>2. OnStack' /\ IsPath' /\ Passed'
    BY GraphFixed DEF SearchInv, OnStack, IsPath, Passed, DependsOn, searchVars
  <2>3. VisitedClosed' /\ VisitedAcyclic'
    BY VisitedKept DEF searchVars
  <2>4. RootsPassed'
    BY GraphFixed DEF SearchInv, RootsPassed, searchVars
  <2>. QED
    BY <1>1, <2>1, <2>2, <2>3, <2>4 DEF SearchInv
<1>. QED
  BY <1>1, <1>2

LEMMA VerdictKnown ==
  ASSUME GateInv
  PROVE  VerdictOnCycles
BY DEF GateInv, GateTypes, SearchSoFar, Stages, SearchStart, SearchInv, VerdictOnCycles

(* The steps that leave document, entries and the search alone.               *)
LEMMA RaiseStep ==
  ASSUME GateInv, Raise
  PROVE  GateInv'
<1>1. /\ stage' = "rejected"
      /\ UNCHANGED <<document, position, entries, graphVars, searchVars>>
  BY DEF Raise
<1>2. GateTypes'
  BY <1>1 DEF GateInv, GateTypes, Stages, ListsEntries
<1>3. SearchSoFar'
  BY <1>1, VerdictKnown, SearchKept DEF GateInv, SearchSoFar
<1>4. RulesSoFar'
  BY <1>1 DEF RulesSoFar
<1>. QED
  BY <1>2, <1>3, <1>4 DEF GateInv

LEMMA LoadShardStep ==
  ASSUME GateInv, LoadShard
  PROVE  GateInv'
<1>1. /\ stage = "load" /\ stage' = "load" /\ position' = position + 1
      /\ entries' = entries \o document.content[document.shards[position]]
      /\ ShardOK(document, position)
      /\ UNCHANGED <<document, graphVars, searchVars>>
      /\ position <= Turns("load")
  BY DEF LoadShard, RuleHolds
<1>2. IsPlan
  BY <1>1 DEF Turns, GateInv, GateTypes
<1>3. ListsEntries(document.content[document.shards[position]])
  <2>1. document \in Documents /\ document.kind = "plan"
    BY <1>2 DEF GateInv, GateTypes, IsPlan
  <2>2. document.shards[position] \in DOMAIN document.content
    BY <1>1 DEF ShardOK
  <2>. QED
    BY <2>1, <2>2, DocumentsAssumption
<1>4. ListsEntries(entries')
  <2>1. ListsEntries(entries)
    BY DEF GateInv, GateTypes
  <2>2. ListsEntries(entries \o document.content[document.shards[position]])
    BY <1>3, <2>1, ConcatEntries
  <2>. QED
    BY <1>1, <2>2
<1>5. GateTypes'
  <2>1. document' \in Documents /\ stage' \in Stages /\ position' \in Nat \ {0}
    BY <1>1 DEF GateInv, GateTypes
  <2>2. ListsEntries(entries)'
    BY <1>4 DEF ListsEntries
  <2>. QED
    BY <2>1, <2>2 DEF GateTypes
<1>6. SearchSoFar'
  BY <1>1, SearchKept DEF GateInv, SearchSoFar
<1>7. RulesSoFar'
  BY <1>1 DEF RulesSoFar
<1>. QED
  BY <1>5, <1>6, <1>7 DEF GateInv

(* A turn that passes, and the end of a loop whose turns have all passed.     *)
LEMMA RulesKept ==
  ASSUME UNCHANGED <<document, entries>>
  PROVE  /\ IsPlan' <=> IsPlan
         /\ Numbered' <=> Numbered
         /\ AllEntries' = AllEntries
         /\ \A n : EntriesPassed(n)' <=> EntriesPassed(n)
         /\ \A n : EdgesPassed(n)' <=> EdgesPassed(n)
         /\ \A n : StatesPassed(n)' <=> StatesPassed(n)
<1>1. (IsPlan' <=> IsPlan) /\ (Numbered' <=> Numbered) /\ AllEntries' = AllEntries
  BY DEF IsPlan, Numbered, AllEntries
<1>2. \A n : EntriesPassed(n)' <=> EntriesPassed(n)
  BY DEF EntriesPassed, EntryOK, IsPlan
<1>3. \A n : EdgesPassed(n)' <=> EdgesPassed(n)
  BY DEF EdgesPassed, EdgesOK, Identifiers
<1>4. \A n : StatesPassed(n)' <=> StatesPassed(n)
  BY DEF StatesPassed, IsPlan
<1>. QED
  BY <1>1, <1>2, <1>3, <1>4

LEMMA NextTurnStep ==
  ASSUME GateInv, NextTurn
  PROVE  GateInv'
<1>1. /\ stage \in {"header", "entries", "edges", "states", "closing"}
      /\ stage' = stage /\ position' = position + 1
      /\ RuleHolds(stage, position) /\ position <= Turns(stage)
      /\ UNCHANGED <<document, entries, graphVars, searchVars>>
  BY DEF NextTurn, Checking
<1>2. position \in Nat \ {0} /\ position' \in Nat \ {0}
  BY <1>1 DEF GateInv, GateTypes
<1>3. GateTypes'
  BY <1>1, <1>2 DEF GateInv, GateTypes, ListsEntries
<1>4. SearchSoFar'
  <2>1. GraphOfEntries => GraphOfEntries'
    BY <1>1 DEF GraphOfEntries, EntryIds, EntryGraph, Identifiers, graphVars
  <2>. QED
    BY <1>1, <2>1, SearchKept DEF GateInv, SearchSoFar
<1>5. stage = "entries" => EntriesPassed(position + 1)
  <2>1. CASE stage = "entries"
    <3>1. EntriesPassed(position)
      BY <2>1 DEF GateInv, RulesSoFar
    <3>2. EntryOK(entries[position], position)
      BY <1>1, <2>1 DEF RuleHolds
    <3>3. \A i \in DOMAIN entries : i < position + 1 => i < position \/ i = position
      BY <1>2, EntriesList DEF GateInv
    <3>. QED
      BY <3>1, <3>2, <3>3 DEF EntriesPassed
  <2>. QED
    BY <2>1
<1>6. stage = "edges" => EdgesPassed(position + 1)
  <2>1. CASE stage = "edges"
    <3>1. EdgesPassed(position)
      BY <2>1 DEF GateInv, RulesSoFar
    <3>2. EdgesOK(entries[position])
      BY <1>1, <2>1 DEF RuleHolds
    <3>3. \A i \in DOMAIN entries : i < position + 1 => i < position \/ i = position
      BY <1>2, EntriesList DEF GateInv
    <3>. QED
      BY <3>1, <3>2, <3>3 DEF EdgesPassed
  <2>. QED
    BY <2>1
<1>7. stage = "states" => StatesPassed(position + 1)
  <2>1. CASE stage = "states"
    <3>1. StatesPassed(position)
      BY <2>1 DEF GateInv, RulesSoFar
    <3>2. TaskStateOK(document, entries, entries[position])
      BY <1>1, <2>1 DEF RuleHolds
    <3>3. \A i \in DOMAIN entries : i < position + 1 => i < position \/ i = position
      BY <1>2, EntriesList DEF GateInv
    <3>. QED
      BY <3>1, <3>2, <3>3 DEF StatesPassed
  <2>. QED
    BY <2>1
<1>8. stage = "header" => IsPlan \/ Numbered
  <2>. SUFFICES ASSUME stage = "header", ~IsPlan
                PROVE  Numbered
    OBVIOUS
  <2>1. HeaderOK
    BY <1>1 DEF RuleHolds
  <2>2. DOMAIN entries = 1 .. Len(entries)
    BY EntriesList DEF GateInv
  <2>. QED
    BY <2>1, <2>2 DEF HeaderOK, Numbered
<1>9. RulesSoFar'
  BY <1>1, <1>5, <1>6, <1>7, <1>8, RulesKept DEF GateInv, RulesSoFar
<1>. QED
  BY <1>3, <1>4, <1>9 DEF GateInv

LEMMA EndLoadStep ==
  ASSUME GateInv, EndLoad
  PROVE  GateInv'
<1>1. /\ stage = "load" /\ stage' \in {"header", "rejected"} /\ position' = 1
      /\ IsPlan => entries' = entries
      /\ ~IsPlan => entries' = document.obligations
      /\ UNCHANGED <<document, graphVars, searchVars>>
  BY DEF EndLoad, NextStage
<1>2. ListsEntries(entries')
  BY <1>1, DocumentsAssumption DEF GateInv, GateTypes, IsPlan
<1>3. GateTypes'
  BY <1>1, <1>2 DEF GateInv, GateTypes, Stages, ListsEntries
<1>4. SearchSoFar'
  BY <1>1, SearchKept, VerdictKnown DEF GateInv, SearchSoFar
<1>5. RulesSoFar'
  BY <1>1 DEF RulesSoFar
<1>. QED
  BY <1>3, <1>4, <1>5 DEF GateInv

LEMMA EndStageStep ==
  ASSUME GateInv, EndStage
  PROVE  GateInv'
<1>1. /\ stage \in {"header", "entries", "states", "closing"}
      /\ position > Turns(stage)
      /\ stage' = NextStage /\ position' = 1
      /\ UNCHANGED <<document, entries, graphVars, searchVars>>
  BY DEF EndStage, Checking
<1>2. /\ stage = "header" => stage' = "entries"
      /\ stage = "entries" => stage' = "edges"
      /\ stage = "states" => stage' = "closing"
      /\ stage = "closing" => stage' = "accepted"
  BY <1>1 DEF NextStage
<1>3. GateTypes'
  BY <1>1, <1>2 DEF GateInv, GateTypes, Stages, ListsEntries
<1>4. SearchSoFar'
  <2>1. GraphOfEntries => GraphOfEntries'
    BY <1>1 DEF GraphOfEntries, EntryIds, EntryGraph, Identifiers, graphVars
  <2>. QED
    BY <1>1, <1>2, <2>1, SearchKept DEF GateInv, SearchSoFar
<1>5. position \in Nat /\ \A i \in DOMAIN entries : i \in Nat /\ i >= 1 /\ i <= Len(entries)
      /\ Len(entries) \in Nat
  BY EntriesList DEF GateInv, GateTypes
<1>6. stage = "header" => IsPlan \/ Numbered
  BY <1>1, <1>5 DEF Turns, GateInv, RulesSoFar
<1>7. stage = "entries" => EntriesPassed(AllEntries) /\ Numbered
  <2>. SUFFICES ASSUME stage = "entries"
                PROVE  EntriesPassed(AllEntries) /\ Numbered
    OBVIOUS
  <2>1. position > Len(entries) /\ EntriesPassed(position) /\ (IsPlan \/ Numbered)
    BY <1>1 DEF Turns, GateInv, RulesSoFar
  <2>2. \A i \in DOMAIN entries : i < position
    BY <1>5, <2>1
  <2>3. \A i \in DOMAIN entries : EntryOK(entries[i], i)
    BY <2>1, <2>2 DEF EntriesPassed
  <2>4. IsPlan => Numbered
    BY <2>3 DEF EntryOK, TaskOK, Numbered
  <2>. QED
    BY <2>1, <2>3, <2>4 DEF EntriesPassed
<1>8. stage = "states" => StatesPassed(AllEntries)
  <2>. SUFFICES ASSUME stage = "states", IsPlan
                PROVE  StatesPassed(AllEntries)
    BY DEF StatesPassed
  <2>1. position > Len(entries) /\ StatesPassed(position)
    BY <1>1 DEF Turns, GateInv, RulesSoFar
  <2>2. \A i \in DOMAIN entries : i < position
    BY <1>5, <2>1
  <2>. QED
    BY <2>1, <2>2 DEF StatesPassed
<1>9. EdgesPassed(1)
  BY <1>5 DEF EdgesPassed
<1>10. EntriesPassed(1)
  BY <1>5 DEF EntriesPassed
<1>11. RulesSoFar'
  BY <1>1, <1>2, <1>6, <1>7, <1>8, <1>9, <1>10, RulesKept DEF GateInv, RulesSoFar
<1>. QED
  BY <1>3, <1>4, <1>11 DEF GateInv

LEMMA BeginSearchStep ==
  ASSUME GateInv, BeginSearch
  PROVE  GateInv'
<1>1. /\ stage = "edges" /\ stage' = "search" /\ position' = 1
      /\ position > Len(entries)
      /\ order' = [i \in DOMAIN entries |-> entries[i].id]
      /\ deps' = [id \in Identifiers |-> TaskOf(entries, id).deps]
      /\ UNCHANGED <<document, entries, searchVars>>
  BY DEF BeginSearch, NextStage, Turns
<1>2. EdgesPassed(AllEntries)
  <2>1. EdgesPassed(position) /\ position \in Nat
    BY <1>1 DEF GateInv, GateTypes, RulesSoFar
  <2>2. \A i \in DOMAIN entries : i < position
    BY <1>1, <2>1, EntriesList DEF GateInv
  <2>. QED
    BY <2>1, <2>2 DEF EdgesPassed
<1>3. /\ order' \in Seq(Identifiers)
      /\ {order'[i] : i \in DOMAIN order'} = Identifiers
      /\ deps' \in [Identifiers -> Seq(Identifiers)]
  <2>1. order' = EntryIds /\ deps' = EntryGraph
    BY <1>1 DEF EntryIds, EntryGraph
  <2>. QED
    BY <1>1, <1>2, <2>1, GraphIsOK
<1>4. GraphOK'
  <2>1. Listed' = Identifiers
    BY <1>3 DEF Listed
  <2>. QED
    BY <1>3, <2>1, Zenon DEF GraphOK
<1>5. SearchStart'
  BY <1>1 DEF GateInv, SearchSoFar, SearchStart, searchVars
<1>6. SearchInv'
  BY <1>4, <1>5, SearchStarts
<1>7. GraphOfEntries'
  BY <1>1 DEF GraphOfEntries, EntryIds, EntryGraph, Identifiers
<1>8. GateTypes'
  BY <1>1 DEF GateInv, GateTypes, Stages, ListsEntries
<1>9. SearchSoFar'
  BY <1>1, <1>6, <1>7 DEF SearchSoFar
<1>10. RulesSoFar'
  BY <1>1, RulesKept DEF GateInv, RulesSoFar
<1>. QED
  BY <1>8, <1>9, <1>10 DEF GateInv

LEMMA SearchGateStep ==
  ASSUME GateInv, Search
  PROVE  GateInv'
<1>1. stage = "search" /\ SearchNext /\ UNCHANGED gateVars
  BY DEF Search
<1>2. SearchInv'
  BY <1>1, SearchStep DEF GateInv, SearchSoFar
<1>3. UNCHANGED graphVars
  BY <1>1 DEF SearchNext, VisitRoot, VisitDependency, Leave, FinishSearch
<1>4. GraphOfEntries'
  BY <1>1, <1>3 DEF GateInv, SearchSoFar, GraphOfEntries, EntryIds, EntryGraph, Identifiers, gateVars, graphVars
<1>5. GateTypes'
  BY <1>1 DEF GateInv, GateTypes, ListsEntries, gateVars
<1>6. SearchSoFar'
  BY <1>1, <1>2, <1>4 DEF SearchSoFar, gateVars
<1>7. RulesSoFar'
  BY <1>1, RulesKept DEF GateInv, RulesSoFar, gateVars
<1>. QED
  BY <1>5, <1>6, <1>7 DEF GateInv

LEMMA EndSearchStep ==
  ASSUME GateInv, EndSearch
  PROVE  GateInv'
<1>1. /\ stage = "search" /\ stage' \in {"states", "rejected", "crashed"}
      /\ stage' = "states" => answer = "acyclic"
      /\ UNCHANGED <<document, position, entries, graphVars, searchVars>>
  BY DEF EndSearch, GateInv, SearchSoFar, SearchInv, SearchTypes
<1>2. GateTypes'
  BY <1>1 DEF GateInv, GateTypes, Stages, ListsEntries
<1>3. SearchSoFar'
  <2>1. GraphOfEntries => GraphOfEntries'
    BY <1>1 DEF GraphOfEntries, EntryIds, EntryGraph, Identifiers, graphVars
  <2>. QED
    BY <1>1, <2>1, SearchKept, VerdictKnown DEF GateInv, SearchSoFar
<1>4. StatesPassed(position)
  BY <1>1, EntriesList DEF GateInv, RulesSoFar, StatesPassed
<1>5. RulesSoFar'
  BY <1>1, <1>4, RulesKept DEF GateInv, RulesSoFar
<1>. QED
  BY <1>2, <1>3, <1>5 DEF GateInv

-----------------------------------------------------------------------------
(* What the gate has checked holds at every stage of every run.               *)
THEOREM Invariant == Spec => []GateInv
<1>1. Init => GateInv
  BY InitGate
<1>2. GateInv /\ [Next]_vars => GateInv'
  <2>. SUFFICES ASSUME GateInv, [Next]_vars
                PROVE  GateInv'
    OBVIOUS
  <2>1. CASE Next
    BY <2>1, RaiseStep, LoadShardStep, NextTurnStep, EndLoadStep, EndStageStep,
       BeginSearchStep, SearchGateStep, EndSearchStep DEF Next
  <2>2. CASE UNCHANGED vars
    <3>1. UNCHANGED <<document, stage, position, entries, graphVars, searchVars>>
      BY <2>2 DEF vars, gateVars
    <3>2. GateTypes'
      BY <3>1 DEF GateInv, GateTypes, ListsEntries
    <3>3. GraphOfEntries => GraphOfEntries'
      BY <3>1 DEF GraphOfEntries, EntryIds, EntryGraph, Identifiers, graphVars
    <3>4. SearchSoFar'
      BY <3>1, <3>3, SearchKept DEF GateInv, SearchSoFar
    <3>5. RulesSoFar'
      BY <3>1, RulesKept DEF GateInv, RulesSoFar
    <3>. QED
      BY <3>2, <3>4, <3>5 DEF GateInv
  <2>. QED
    BY <2>1, <2>2
<1>. QED
  BY <1>1, <1>2, PTL DEF Spec

(* The search answers truthfully for every graph of any size.                 *)
THEOREM SearchSound == Spec => []VerdictOnCycles
BY Invariant, VerdictKnown, PTL

(* Knots among the entries of an accepted document do not exist.              *)
LEMMA AcceptedFacts ==
  ASSUME GateInv, Accepted
  PROVE  /\ DOMAIN entries = 1 .. Len(entries)
         /\ Listed = DOMAIN entries
         /\ \A i \in DOMAIN entries :
              /\ entries[i].id = i
              /\ TaskOf(entries, i) = entries[i]
              /\ DependsOn(i) = Members(entries[i].deps)
              /\ DependsOn(i) \subseteq Listed
              /\ EntryOK(entries[i], i)
              /\ IsPlan => TaskStateOK(document, entries, entries[i])
         /\ Acyclic
<1>1. SearchInv /\ GraphOfEntries /\ answer = "acyclic"
  BY DEF GateInv, SearchSoFar, Accepted
<1>2. Numbered /\ GateTypes /\ EntriesPassed(AllEntries) /\ StatesPassed(AllEntries)
  BY DEF GateInv, RulesSoFar, Accepted
<1>3. DOMAIN entries = 1 .. Len(entries) /\ \A i \in DOMAIN entries : i < AllEntries
  BY <1>2, EntriesList
<1>4. \A i \in DOMAIN entries : entries[i].id = i /\ TaskOf(entries, i) = entries[i]
  BY <1>2, TaskOfNumbered DEF Numbered
<1>5. Identifiers = DOMAIN entries
  BY <1>4 DEF Identifiers
<1>6. Listed = DOMAIN entries
  BY <1>1, <1>4 DEF GraphOfEntries, EntryIds, EntryGraph, Listed
<1>7. \A i \in DOMAIN entries : deps[i] = entries[i].deps
  BY <1>1, <1>4, <1>5 DEF GraphOfEntries, EntryIds, EntryGraph
<1>8. \A i \in DOMAIN entries : deps[i] \in Seq(Listed)
  BY <1>1, <1>6 DEF SearchInv, SearchTypes, GraphOK
<1>9. \A i \in DOMAIN entries :
        DependsOn(i) = Members(entries[i].deps) /\ DependsOn(i) \subseteq Listed
  BY <1>7, <1>8 DEF DependsOn, Members
<1>10. \A i \in DOMAIN entries :
         /\ EntryOK(entries[i], i)
         /\ IsPlan => TaskStateOK(document, entries, entries[i])
  BY <1>2, <1>3 DEF EntriesPassed, StatesPassed
<1>11. Acyclic
  BY <1>1 DEF SearchInv, VerdictOnCycles
<1>. QED
  BY <1>3, <1>4, <1>6, <1>9, <1>10, <1>11

(* In any accepted plan, while a task is incomplete, one can be worked on.    *)
THEOREM PlanCanProgress == Spec => []AcceptedCanProgress
<1>1. GateInv => AcceptedCanProgress
  <2>. SUFFICES ASSUME GateInv, Accepted, IsPlan,
                       \E i \in DOMAIN entries : entries[i].state # "complete"
                PROVE  CanProgress
    BY DEF AcceptedCanProgress
  <2>. DEFINE Incomplete == {i \in DOMAIN entries : entries[i].state # "complete"}
  <2>1. Incomplete # {} /\ Incomplete \subseteq Listed
    BY AcceptedFacts
  <2>2. PICK i \in Incomplete : DependsOn(i) \cap Incomplete = {}
    BY <2>1, AcceptedFacts DEF Acyclic, Knot
  <2>3. DependenciesComplete(entries, entries[i])
    <3>. SUFFICES ASSUME NEW k \in DOMAIN entries[i].deps
                  PROVE  IsComplete(entries, entries[i].deps[k])
      BY DEF DependenciesComplete
    <3>1. entries[i].deps[k] \in DependsOn(i)
      BY AcceptedFacts DEF Members
    <3>2. entries[i].deps[k] \in DOMAIN entries
      BY <3>1, AcceptedFacts
    <3>3. entries[entries[i].deps[k]].state = "complete"
      BY <2>2, <3>1, <3>2
    <3>. QED
      BY <3>2, <3>3, AcceptedFacts DEF IsComplete
  <2>4. TaskStateOK(document, entries, entries[i])
    BY AcceptedFacts
  <2>. QED
    BY <2>3, <2>4 DEF CanProgress, TaskStateOK
<1>. QED
  BY <1>1, Invariant, PTL

(* In any accepted matrix, blocked obligations rest on ones that are not.     *)
THEOREM BlockedGrounded == Spec => []BlockedIsGrounded
<1>1. GateInv => BlockedIsGrounded
  <2>. SUFFICES ASSUME GateInv, Accepted, ~IsPlan, NEW S \in (SUBSET Blocked) \ {{}}
                PROVE  \E id \in S : DependsOn(id) \ S # {}
    BY DEF BlockedIsGrounded
  <2>1. /\ Blocked \subseteq Listed
        /\ \A id \in Blocked : id \in DOMAIN entries /\ entries[id].status = "blocked"
    BY AcceptedFacts DEF Blocked
  <2>2. PICK id \in S : DependsOn(id) \cap S = {}
    BY <2>1, AcceptedFacts DEF Acyclic, Knot
  <2>3. id \in DOMAIN entries /\ entries[id].status = "blocked"
    BY <2>1
  <2>4. ObligationOK(document, entries[id])
    BY <2>3, AcceptedFacts DEF EntryOK
  <2>5. entries[id].deps # <<>>
    BY <2>3, <2>4 DEF ObligationOK, StatusOK
  <2>6. entries[id].deps \in Seq(Nat)
    BY <2>3, EntriesList DEF GateInv
  <2>7. DependsOn(id) # {}
    <3>1. 1 \in DOMAIN entries[id].deps
      BY <2>5, <2>6
    <3>2. entries[id].deps[1] \in Members(entries[id].deps)
      BY <3>1 DEF Members
    <3>. QED
      BY <2>3, <3>2, AcceptedFacts
  <2>. QED
    BY <2>2, <2>7
<1>. QED
  BY <1>1, Invariant, PTL

-----------------------------------------------------------------------------
(* Progress: what makes every run end (Decides).                              *)
Grows(set) == set \subseteq set' /\ set' # set /\ set' \subseteq Listed

(* A step of the search answers; or finishes a node; or enters one, with as   *)
(* many finished; or else the loop over graph, or that of the topmost call,   *)
(* moves on in a list that has an end.                                        *)
SearchAdvances ==
  /\ UNCHANGED graphVars
  /\ \/ answer' # "searching"
     \/ Grows(visited)
     \/ visited' = visited /\ Grows(active)
     \/ /\ UNCHANGED <<visited, active, stack>>
        /\ root' = root + 1 /\ root' \in 1 .. Len(order) + 1
     \/ /\ UNCHANGED <<visited, active, root>>
        /\ stack' = [stack EXCEPT ![Len(stack)].next = Top.next + 1]
        /\ Top.next \in 1 .. Len(deps[Top.node])

LEMMA ActiveListed ==
  ASSUME SearchInv
  PROVE  active \subseteq Listed
BY FramesOfStack DEF SearchInv, OnStack

LEMMA SearchStepAdvances ==
  ASSUME SearchInv, SearchNext
  PROVE  SearchAdvances
<1>1. UNCHANGED graphVars
  BY DEF SearchNext, VisitRoot, VisitDependency, Leave, FinishSearch
<1>2. /\ visited \subseteq Listed /\ visited' \subseteq Listed
      /\ active \subseteq Listed /\ active' \subseteq Listed
  <2>1. SearchInv'
    BY SearchStep
  <2>2. active \subseteq Listed
    BY ActiveListed
  <2>3. active' \subseteq Listed'
    <3>1. stack' \in Seq(Frame')
      BY <2>1 DEF SearchInv, SearchTypes
    <3>2. \A k \in DOMAIN stack' : stack'[k] \in Frame'
      BY <3>1
    <3>3. \A k \in DOMAIN stack' : stack'[k].node \in Listed'
      BY <3>2 DEF Frame
    <3>4. active' = {stack'[k].node : k \in DOMAIN stack'}
      BY <2>1 DEF SearchInv, OnStack
    <3>. QED
      BY <3>3, <3>4
  <2>4. visited \subseteq Listed /\ visited' \subseteq Listed'
    BY <2>1 DEF SearchInv, SearchTypes
  <2>. QED
    BY <1>1, <2>2, <2>3, <2>4, GraphFixed
<1>3. ASSUME NEW node, NEW callers, Enter(node, callers)
      PROVE  visited' = visited /\ Grows(active)
  BY <1>2, <1>3 DEF Enter, Grows
<1>4. CASE VisitRoot
  <2>1. /\ stack = <<>> /\ root \in DOMAIN order /\ root' = root + 1
        /\ Visit(order[root], <<>>)
    BY <1>4 DEF VisitRoot
  <2>2. root' \in 1 .. Len(order) + 1
    <3>1. root \in 1 .. Len(order) /\ Len(order) \in Nat
      BY <2>1, OrderLists
    <3>. QED
      BY <2>1, <3>1
  <2>3. CASE SkipVisited(order[root], <<>>)
    BY <1>1, <2>1, <2>2, <2>3 DEF SkipVisited, SearchAdvances
  <2>. QED
    <3>1. ASSUME ExceedDepth(<<>>) \/ FindCycle(order[root])
          PROVE  answer' # "searching"
      BY <3>1 DEF ExceedDepth, FindCycle
    <3>2. \/ ExceedDepth(<<>>) \/ FindCycle(order[root])
          \/ SkipVisited(order[root], <<>>) \/ Enter(order[root], <<>>)
      BY <2>1 DEF Visit
    <3>3. CASE Enter(order[root], <<>>)
      <4>1. visited' = visited /\ Grows(active)
        BY <1>3, <3>3
      <4>. QED
        BY <1>1, <4>1 DEF SearchAdvances
    <3>4. ASSUME answer' # "searching"
          PROVE  SearchAdvances
      BY <1>1, <3>4 DEF SearchAdvances
    <3>. QED
      BY <2>3, <3>1, <3>2, <3>3, <3>4
<1>5. CASE VisitDependency
  <2>. DEFINE node == deps[Top.node][Top.next]
              callers == [stack EXCEPT ![Len(stack)].next = Top.next + 1]
  <2>1. /\ stack # <<>> /\ Top.next \in DOMAIN deps[Top.node] /\ root' = root
        /\ \/ ExceedDepth(callers) \/ FindCycle(node)
           \/ SkipVisited(node, callers) \/ Enter(node, callers)
    BY <1>5 DEF VisitDependency, Visit
  <2>2. Top.next \in 1 .. Len(deps[Top.node])
    <3>1. Len(stack) \in 1 .. Len(stack)
      BY <2>1, FramesOfStack
    <3>2. deps[Top.node] \in Seq(Listed)
      BY <3>1, FramesOfStack DEF Top
    <3>. QED
      BY <2>1, <3>2
  <2>3. CASE SkipVisited(node, callers)
    <3>1. stack' = callers /\ UNCHANGED <<visited, active, root>>
      BY <2>1, <2>3 DEF SkipVisited
    <3>. QED
      BY <1>1, <2>2, <3>1 DEF SearchAdvances
  <2>4. CASE ExceedDepth(callers) \/ FindCycle(node)
    BY <1>1, <2>4 DEF ExceedDepth, FindCycle, SearchAdvances
  <2>5. CASE Enter(node, callers)
    <3>1. visited' = visited /\ Grows(active)
      BY <1>3, <2>5
    <3>. QED
      BY <1>1, <3>1 DEF SearchAdvances
  <2>. QED
    BY <2>1, <2>3, <2>4, <2>5
<1>6. CASE Leave
  <2>1. Top.node \in active
    <3>1. stack # <<>>
      BY <1>6 DEF Leave
    <3>2. Len(stack) \in DOMAIN stack
      BY <3>1, FramesOfStack
    <3>. QED
      BY <3>2 DEF SearchInv, OnStack, Top
  <2>2. Top.node \notin visited
    BY <2>1 DEF SearchInv, OnStack
  <2>3. visited' = visited \cup {Top.node}
    BY <1>6 DEF Leave
  <2>4. Grows(visited)
    BY <1>2, <2>2, <2>3 DEF Grows
  <2>. QED
    BY <1>1, <2>4 DEF SearchAdvances
<1>7. CASE FinishSearch
  BY <1>1, <1>7 DEF FinishSearch, SearchAdvances
<1>. QED
  BY <1>4, <1>5, <1>6, <1>7 DEF SearchNext

(* How far a run has come.                                                    *)
StageRank ==
  CASE stage = "load" -> 1
    [] stage = "header" -> 2
    [] stage = "entries" -> 3
    [] stage = "edges" -> 4
    [] stage = "search" -> 5
    [] stage = "states" -> 6
    [] stage = "closing" -> 7
    [] OTHER -> 8

(* A later stage is entered, the loop of the stage moves on within its turns, *)
(* or the search does.                                                        *)
GateAdvances ==
  \/ StageRank' \in StageRank + 1 .. 8
  \/ /\ UNCHANGED <<document, stage>>
     /\ position' = position + 1
     /\ position <= Turns(stage)
     /\ stage # "load" => UNCHANGED entries
  \/ /\ stage = "search" /\ answer = "searching"
     /\ UNCHANGED gateVars
     /\ SearchAdvances

(* Every step of a checker brings it closer to its verdict: no stage is       *)
(* entered twice, no loop has more turns than its list has entries, and the   *)
(* recursive search, on any graph, cyclic or not, finishes or enters nodes of *)
(* which there are finitely many.  With the fairness of Spec this is why      *)
(* Decides holds.                                                             *)
THEOREM RunsAdvance == GateInv /\ Next => GateAdvances
<1> SUFFICES ASSUME GateInv, Next
             PROVE  GateAdvances
  OBVIOUS
<1>1. CASE Raise
  <2>1. StageRank \in 1 .. 7
    BY <1>1 DEF Raise, Checking, StageRank
  <2>2. StageRank' = 8
    BY <1>1 DEF Raise, StageRank
  <2>. QED
    BY <2>1, <2>2 DEF GateAdvances
<1>2. CASE LoadShard \/ NextTurn
  BY <1>2 DEF LoadShard, NextTurn, GateAdvances
<1>3. CASE EndLoad
  <2>1. stage = "load" /\ stage' \in {"rejected", "header"}
    BY <1>3 DEF EndLoad, NextStage
  <2>2. StageRank = 1 /\ StageRank' \in {2, 8}
    BY <2>1 DEF StageRank
  <2>. QED
    BY <2>2 DEF GateAdvances
<1>4. CASE EndStage
  <2>1. \/ stage = "header" /\ stage' = "entries"
        \/ stage = "entries" /\ stage' = "edges"
        \/ stage = "states" /\ stage' = "closing"
        \/ stage = "closing" /\ stage' = "accepted"
    BY <1>4 DEF EndStage, Checking, NextStage
  <2>2. StageRank \in {2, 3, 6, 7} /\ StageRank' = StageRank + 1
    BY <2>1 DEF StageRank
  <2>. QED
    BY <2>2 DEF GateAdvances
<1>5. CASE BeginSearch
  <2>1. stage = "edges" /\ stage' = "search"
    BY <1>5 DEF BeginSearch, NextStage
  <2>. QED
    BY <2>1 DEF GateAdvances, StageRank
<1>6. CASE Search
  <2>1. stage = "search" /\ SearchNext /\ UNCHANGED gateVars
    BY <1>6 DEF Search
  <2>2. SearchAdvances
    BY <2>1, SearchStepAdvances DEF GateInv, SearchSoFar
  <2>3. answer = "searching"
    BY <2>1 DEF SearchNext, VisitRoot, VisitDependency, Leave, FinishSearch
  <2>. QED
    BY <2>1, <2>2, <2>3 DEF GateAdvances
<1>7. CASE EndSearch
  <2>1. stage = "search" /\ stage' \in {"states", "rejected", "crashed"}
    BY <1>7 DEF EndSearch, GateInv, SearchSoFar, SearchInv, SearchTypes
  <2>2. StageRank = 5 /\ StageRank' \in {6, 8}
    BY <2>1 DEF StageRank
  <2>. QED
    BY <2>2 DEF GateAdvances
<1>. QED
  BY <1>1, <1>2, <1>3, <1>4, <1>5, <1>6, <1>7 DEF Next
=============================================================================
