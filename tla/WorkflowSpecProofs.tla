--------------------------- MODULE WorkflowSpecProofs ---------------------------
(* detect_cycle accepts exactly what Replay may assume of a definition, and     *)
(* topological_order agrees with it, for any number of steps and any            *)
(* dependencies.                                                                *)
EXTENDS WorkflowSpec, FiniteSetTheorems, SequenceTheorems, TLAPS

Colour == {"WHITE", "GREY", "BLACK"}

Searched == verdict \in {"searching", "accepted", "cycle"}

Frame == [node : Ids, next : Nat \ {0}]

TypeInv ==
    /\ steps \in Submission
    /\ verdict = "submitted" => stack = <<>>
    /\ Searched =>
        /\ GoodShape /\ ~Dangling
        /\ needs \in [Ids -> Seq(Id)]
        /\ \A s \in Ids : \A j \in DOMAIN needs[s] : needs[s][j] \in Ids
        /\ colour \in [Ids -> Colour]
        /\ stack \in Seq(Frame)
        /\ \A i \in DOMAIN stack : stack[i].next <= Len(needs[stack[i].node]) + 1

\* The grey nodes are those of the stack, once each.
GreyIsPath ==
    /\ \A s \in Ids : colour[s] = "GREY" <=> \E i \in DOMAIN stack : stack[i].node = s
    /\ \A i, j \in DOMAIN stack : stack[i].node = stack[j].node => i = j

\* Each frame but the top one has last yielded the node of the next frame.
PathLinked ==
    \A i \in DOMAIN stack : i + 1 \in DOMAIN stack =>
        /\ stack[i].next > 1
        /\ needs[stack[i].node][stack[i].next - 1] = stack[i + 1].node

\* What a frame has yielded is black, unless it is the node of the next frame.
Explored ==
    \A i \in DOMAIN stack : \A j \in 1..(stack[i].next - 1) :
        \/ colour[needs[stack[i].node][j]] = "BLACK"
        \/ i + 1 \in DOMAIN stack /\ needs[stack[i].node][j] = stack[i + 1].node

Black == {s \in Ids : colour[s] = "BLACK"}

BlackClosed == \A s \in Black : Needs(s) \subseteq Black

BlackAcyclic == \A S \in (SUBSET Black) \ {{}} : \E s \in S : Needs(s) \cap S = {}

SearchInv ==
    /\ TypeInv
    /\ verdict = "searching" =>
        GreyIsPath /\ PathLinked /\ Explored /\ BlackClosed /\ BlackAcyclic
    /\ VerdictIsRight

------------------------------------------------------------------------------
(* What the actions do to the stack, frame by frame.                       *)

LEMMA StackTop ==
    ASSUME TypeInv, Searching, stack # <<>>
    PROVE  /\ stack \in Seq(Frame) /\ Len(stack) \in Nat \ {0}
           /\ Len(stack) \in DOMAIN stack /\ DOMAIN stack = 1..Len(stack)
           /\ Top \in Frame
<1>1. stack \in Seq(Frame)
  BY DEF TypeInv, Searching, Searched
<1>2. Len(stack) \in Nat \ {0} /\ DOMAIN stack = 1..Len(stack)
  BY <1>1
<1>3. Len(stack) \in DOMAIN stack
  BY <1>2
<1> QED
  BY <1>1, <1>2, <1>3 DEF Top

\* The iterator of the top frame moves on, and nothing else.
LEMMA YieldedFrames ==
    ASSUME TypeInv, Searching, stack # <<>>
    PROVE  /\ Yielded \in Seq(Frame)
           /\ Len(Yielded) = Len(stack)
           /\ \A i \in 1..Len(stack) :
                /\ Yielded[i].node = stack[i].node
                /\ Yielded[i].next = IF i = Len(stack) THEN stack[i].next + 1 ELSE stack[i].next
<1> USE StackTop
<1> DEFINE n == Len(stack)
<1>1. \A i \in 1..n : Yielded[i] = IF i = n THEN [stack[i] EXCEPT !.next = @ + 1] ELSE stack[i]
  BY DEF Yielded
<1>2. \A i \in 1..n : stack[i] \in Frame
  OBVIOUS
<1>3. ASSUME NEW i \in 1..n
      PROVE  Yielded[i] \in Frame
  <2>1. stack[i].node \in Ids /\ stack[i].next + 1 \in Nat \ {0}
    BY <1>2 DEF Frame
  <2>2. [stack[i] EXCEPT !.next = @ + 1] \in Frame
    BY <1>2, <2>1 DEF Frame
  <2> QED
    BY <1>1, <1>2, <2>2
<1>4. Yielded = [i \in 1..n |-> Yielded[i]]
  BY DEF Yielded
<1>5. Yielded \in Seq(Frame) /\ Len(Yielded) = n
  BY <1>3, <1>4
<1>6. \A i \in 1..n :
        /\ Yielded[i].node = stack[i].node
        /\ Yielded[i].next = IF i = n THEN stack[i].next + 1 ELSE stack[i].next
  BY <1>1, <1>2 DEF Frame
<1> QED
  BY <1>5, <1>6

LEMMA PopFrames ==
    ASSUME TypeInv, Searching, stack # <<>>
    PROVE  /\ Pop(stack) \in Seq(Frame)
           /\ Len(Pop(stack)) = Len(stack) - 1
           /\ \A i \in 1..(Len(stack) - 1) : Pop(stack)[i] = stack[i]
BY StackTop DEF Pop

LEMMA SameSteps ==
    ASSUME steps' = steps
    PROVE  /\ Ids' = Ids /\ Frame' = Frame
           /\ (GoodShape /\ ~Dangling) => (GoodShape /\ ~Dangling)'
<1>1. Position' = Position /\ Ids' = Ids
  BY DEF Position, Ids
<1> QED
  BY <1>1 DEF Frame, GoodShape, Dangling, Position

\* The parts of the invariant while a search is under way.
LEMMA Unfold ==
    ASSUME SearchInv, Searching
    PROVE  /\ TypeInv /\ GreyIsPath /\ PathLinked /\ Explored /\ BlackClosed /\ BlackAcyclic
           /\ GoodShape /\ ~Dangling
           /\ needs \in [Ids -> Seq(Id)]
           /\ \A s \in Ids : \A j \in DOMAIN needs[s] : needs[s][j] \in Ids
           /\ colour \in [Ids -> Colour]
           /\ stack \in Seq(Frame)
           /\ \A i \in DOMAIN stack : stack[i].node \in Ids /\ stack[i].next \in Nat \ {0}
           /\ \A i \in DOMAIN stack : stack[i].next <= Len(needs[stack[i].node]) + 1
<1>1. TypeInv /\ GreyIsPath /\ PathLinked /\ Explored /\ BlackClosed /\ BlackAcyclic
  BY DEF SearchInv, Searching
<1>2. /\ GoodShape /\ ~Dangling
      /\ needs \in [Ids -> Seq(Id)]
      /\ \A s \in Ids : \A j \in DOMAIN needs[s] : needs[s][j] \in Ids
      /\ colour \in [Ids -> Colour]
      /\ stack \in Seq(Frame)
      /\ \A i \in DOMAIN stack : stack[i].next <= Len(needs[stack[i].node]) + 1
  BY <1>1 DEF TypeInv, Searched, Searching
<1>3. \A i \in DOMAIN stack : stack[i] \in Frame
  BY <1>2
<1>4. \A i \in DOMAIN stack : stack[i].node \in Ids /\ stack[i].next \in Nat \ {0}
  BY <1>3 DEF Frame
<1> QED
  BY <1>1, <1>2, <1>4

\* A step goes on searching and leaves the definition alone: what is left to show.
LEMMA Fold ==
    ASSUME SearchInv, Searching, verdict' = "searching", steps' = steps, needs' = needs,
           colour' \in [Ids -> Colour],
           stack' \in Seq(Frame),
           \A i \in DOMAIN stack' : stack'[i].next <= Len(needs[stack'[i].node]) + 1,
           GreyIsPath', PathLinked', Explored', BlackClosed', BlackAcyclic'
    PROVE  SearchInv'
<1>1. TypeInv'
  BY Unfold, SameSteps DEF TypeInv
<1>2. VerdictIsRight'
  BY DEF VerdictIsRight, AcceptedIsAcyclic, CycleIsReal
<1> QED
  BY <1>1, <1>2 DEF SearchInv

\* The needs of a step are a matter of the definition.
LEMMA SameNeeds ==
    ASSUME needs' = needs
    PROVE  \A s : Needs(s)' = Needs(s)
BY DEF Needs

LEMMA SameBlack ==
    ASSUME needs' = needs, Black' = Black, BlackClosed, BlackAcyclic
    PROVE  BlackClosed' /\ BlackAcyclic'
<1>1. BlackClosed'
  BY SameNeeds DEF BlackClosed
<1>2. BlackAcyclic'
  BY SameNeeds DEF BlackAcyclic
<1> QED
  BY <1>1, <1>2

LEMMA StartTreeInv ==
    ASSUME SearchInv, NEW root \in DOMAIN needs, StartTree(root)
    PROVE  SearchInv'
<1>1. /\ Searching /\ stack = <<>> /\ colour[root] = "WHITE"
      /\ colour' = [colour EXCEPT ![root] = "GREY"]
      /\ stack' = <<[node |-> root, next |-> 1]>>
      /\ verdict' = "searching" /\ steps' = steps /\ needs' = needs
  BY DEF StartTree, Push, Unchanging, Searching
<1> USE <1>1, Unfold
<1>2. root \in Ids /\ Ids' = Ids
  BY SameSteps
<1>3. colour' \in [Ids -> Colour]
  BY <1>2 DEF Colour
<1>4. [node |-> root, next |-> 1] \in Frame
  BY <1>2 DEF Frame
<1>5. stack' \in Seq(Frame) /\ Len(stack') = 1 /\ DOMAIN stack' = {1}
      /\ stack'[1].node = root /\ stack'[1].next = 1
  BY <1>4
<1>6. GreyIsPath'
  <2>1. \A s \in Ids : colour[s] # "GREY"
    BY DEF GreyIsPath
  <2>2. \A s \in Ids : colour'[s] = "GREY" <=> s = root
    BY <1>2, <2>1
  <2> QED
    BY <1>2, <1>5, <2>2 DEF GreyIsPath
<1>7. PathLinked' /\ Explored'
  BY <1>5 DEF PathLinked, Explored
<1>8. Black' = Black
  BY <1>2 DEF Black
<1>9. BlackClosed' /\ BlackAcyclic'
  BY <1>8, SameBlack
<1>10. \A i \in DOMAIN stack' : stack'[i].next <= Len(needs[stack'[i].node]) + 1
  BY <1>2, <1>5
<1> QED
  BY <1>3, <1>5, <1>6, <1>7, <1>9, <1>10, Fold

LEMMA DescendInv ==
    ASSUME SearchInv, NEW dep \in DOMAIN needs, Descend(dep)
    PROVE  SearchInv'
<1> DEFINE n == Len(stack)
           m == n + 1
<1>1. /\ Searching /\ stack # <<>> /\ colour[dep] = "WHITE"
      /\ Top.next <= Len(needs[Top.node]) /\ dep = needs[Top.node][Top.next]
      /\ colour' = [colour EXCEPT ![dep] = "GREY"]
      /\ stack' = Append(Yielded, [node |-> dep, next |-> 1])
      /\ verdict' = "searching" /\ steps' = steps /\ needs' = needs
  BY DEF Descend, Yields, Push, Unchanging, Searching
<1> USE <1>1
<1>2. /\ dep \in Ids /\ Ids' = Ids /\ Frame' = Frame
      /\ n \in Nat \ {0} /\ DOMAIN stack = 1..n /\ Top = stack[n]
  BY Unfold, SameSteps, StackTop DEF Top
<1>3. colour' \in [Ids -> Colour]
  BY <1>2, Unfold DEF Colour
<1>4. \A s \in Ids : colour'[s] = IF s = dep THEN "GREY" ELSE colour[s]
  BY <1>2, Unfold
<1>5. /\ Yielded \in Seq(Frame) /\ Len(Yielded) = n
      /\ [node |-> dep, next |-> 1] \in Frame
  BY <1>2, Unfold, YieldedFrames DEF Frame
<1>6. /\ stack' \in Seq(Frame) /\ Len(stack') = m /\ DOMAIN stack' = 1..m
      /\ stack'[m] = [node |-> dep, next |-> 1]
      /\ \A i \in 1..n : stack'[i] = Yielded[i]
  BY <1>2, <1>5
<1>7. \A i \in 1..n :
        /\ stack'[i].node = stack[i].node
        /\ stack'[i].next = IF i = n THEN stack[i].next + 1 ELSE stack[i].next
  BY <1>6, Unfold, YieldedFrames
<1>8. stack'[m].node = dep /\ stack'[m].next = 1
  BY <1>6
<1>9. \A i \in DOMAIN stack : stack[i].node \in Ids /\ stack[i].next \in Nat \ {0}
  BY Unfold
<1>10. m = n + 1 /\ Searching /\ verdict' = "searching" /\ steps' = steps /\ needs' = needs
  OBVIOUS
<1> HIDE <1>1 DEF n, m
<1> USE <1>10
<1>11. /\ stack[n].next <= Len(needs[stack[n].node])
       /\ dep = needs[stack[n].node][stack[n].next]
  BY <1>1, <1>2
<1>12. \A i \in DOMAIN stack' : stack'[i].next <= Len(needs[stack'[i].node]) + 1
  <2> SUFFICES ASSUME NEW i \in 1..m
               PROVE  stack'[i].next <= Len(needs[stack'[i].node]) + 1
    BY <1>6
  <2>1. CASE i = m
    <3>1. Len(needs[dep]) \in Nat
      BY <1>2, Unfold
    <3> QED
      BY <1>8, <2>1, <3>1
  <2>2. CASE i # m
    <3>1. i \in 1..n
      BY <1>2, <2>2
    <3>2. stack[i].node \in Ids /\ stack[i].next \in Nat
          /\ stack[i].next <= Len(needs[stack[i].node]) + 1
      BY <1>2, <1>9, <3>1, Unfold
    <3>3. Len(needs[stack[i].node]) \in Nat
      BY <3>2, Unfold
    <3>4. stack'[i].node = stack[i].node
          /\ stack'[i].next = IF i = n THEN stack[i].next + 1 ELSE stack[i].next
      BY <1>7, <3>1
    <3>5. CASE i = n
      <4>1. stack'[i].next = stack[i].next + 1 /\ stack[i].next <= Len(needs[stack[i].node])
        BY <1>11, <3>4, <3>5
      <4> QED
        BY <3>2, <3>3, <3>4, <4>1
    <3>6. CASE i # n
      BY <3>2, <3>4, <3>6
    <3> QED
      BY <3>5, <3>6
  <2> QED
    BY <2>1, <2>2
<1>13. GreyIsPath'
  <2>1. \A i \in 1..n : stack[i].node # dep
    BY <1>1, <1>2, <1>9, Unfold DEF GreyIsPath
  <2>2. ASSUME NEW s \in Ids
        PROVE  colour'[s] = "GREY" <=> \E i \in 1..m : stack'[i].node = s
    <3>1. CASE s = dep
      <4>1. m \in 1..m
        BY <1>2
      <4> QED
        BY <1>4, <1>8, <3>1, <4>1
    <3>2. CASE s # dep
      <4>1. colour[s] = "GREY" <=> \E i \in 1..n : stack[i].node = s
        BY <1>2, Unfold DEF GreyIsPath
      <4>2. (\E i \in 1..n : stack[i].node = s) <=> \E i \in 1..m : stack'[i].node = s
        BY <1>2, <1>7, <1>8, <3>2
      <4> QED
        BY <1>4, <3>2, <4>1, <4>2
    <3> QED
      BY <3>1, <3>2
  <2>3. \A i, j \in 1..m : stack'[i].node = stack'[j].node => i = j
    BY <1>2, <1>7, <1>8, <2>1, Unfold DEF GreyIsPath
  <2> QED
    BY <1>2, <1>6, <2>2, <2>3 DEF GreyIsPath
<1>14. PathLinked'
  <2>1. ASSUME NEW i \in 1..n
        PROVE  stack'[i].next > 1
               /\ needs[stack'[i].node][stack'[i].next - 1] = stack'[i + 1].node
    <3>1. CASE i = n
      <4>1. stack'[n].next = stack[n].next + 1 /\ stack[n].next \in Nat \ {0}
            /\ stack'[n].node = stack[n].node
        BY <1>2, <1>7, <1>9
      <4>2. stack'[n].next > 1 /\ stack'[n].next - 1 = stack[n].next
        BY <4>1
      <4> QED
        BY <1>8, <1>11, <3>1, <4>1, <4>2
    <3>2. CASE i # n
      <4>1. i \in DOMAIN stack /\ i + 1 \in DOMAIN stack
        BY <1>2, <3>2
      <4> QED
        BY <1>2, <1>7, <3>2, <4>1, Unfold DEF PathLinked
    <3> QED
      BY <3>1, <3>2
  <2> QED
    BY <1>2, <1>6, <2>1 DEF PathLinked
<1>15. Explored'
  <2> SUFFICES ASSUME NEW i \in 1..m, NEW j \in 1..(stack'[i].next - 1)
               PROVE  \/ colour'[needs[stack'[i].node][j]] = "BLACK"
                      \/ i + 1 \in 1..m /\ needs[stack'[i].node][j] = stack'[i + 1].node
    BY <1>6 DEF Explored
  <2>1. i \in 1..n
    BY <1>2, <1>8
  <2>2. CASE i = n /\ j = stack[n].next
    <3>1. i + 1 = m /\ m \in 1..m
      BY <1>2, <2>2
    <3>2. stack'[i].node = stack[n].node
      BY <1>7, <2>1, <2>2
    <3> QED
      BY <1>8, <1>11, <2>2, <3>1, <3>2
  <2>3. CASE ~(i = n /\ j = stack[n].next)
    <3>1. j \in 1..(stack[i].next - 1)
      BY <1>2, <1>7, <1>9, <2>1, <2>3
    <3>2. stack[i].node \in Ids /\ j \in DOMAIN needs[stack[i].node]
      BY <1>2, <1>9, <2>1, <3>1, Unfold
    <3>3. needs[stack[i].node][j] \in Ids
      BY <3>2, Unfold
    <3>4. stack'[i].node = stack[i].node
      BY <1>7, <2>1
    <3>5. CASE colour[needs[stack[i].node][j]] = "BLACK"
      BY <1>1, <1>4, <3>3, <3>5, <3>4
    <3>6. CASE i + 1 \in DOMAIN stack /\ needs[stack[i].node][j] = stack[i + 1].node
      <4>1. i + 1 \in 1..n /\ i + 1 \in 1..m
        BY <1>2, <3>6
      <4>2. stack'[i + 1].node = stack[i + 1].node
        BY <1>7, <4>1
      <4> QED
        BY <3>6, <3>4, <4>1, <4>2
    <3>7. i \in DOMAIN stack
      BY <1>2, <2>1
    <3> QED
      BY <3>1, <3>5, <3>6, <3>7, Unfold DEF Explored
  <2> QED
    BY <2>2, <2>3
<1>16. Black' = Black
  BY <1>1, <1>2, <1>4 DEF Black
<1>17. BlackClosed' /\ BlackAcyclic'
  BY <1>16, Unfold, SameBlack
<1> QED
  BY <1>3, <1>6, <1>12, <1>13, <1>14, <1>15, <1>17, Fold

LEMMA SkipInv ==
    ASSUME SearchInv, NEW dep \in DOMAIN needs, Skip(dep)
    PROVE  SearchInv'
<1> DEFINE n == Len(stack)
<1>1. /\ Searching /\ stack # <<>> /\ colour[dep] = "BLACK"
      /\ Top.next <= Len(needs[Top.node]) /\ dep = needs[Top.node][Top.next]
      /\ colour' = colour /\ stack' = Yielded
      /\ verdict' = "searching" /\ steps' = steps /\ needs' = needs
  BY DEF Skip, Yields, Unchanging, Searching
<1> USE <1>1
<1>2. n \in Nat \ {0} /\ DOMAIN stack = 1..n /\ Top = stack[n] /\ Ids' = Ids /\ Frame' = Frame
  BY Unfold, SameSteps, StackTop DEF Top
<1>3. /\ stack' \in Seq(Frame) /\ DOMAIN stack' = 1..n
      /\ \A i \in 1..n :
        /\ stack'[i].node = stack[i].node
        /\ stack'[i].next = IF i = n THEN stack[i].next + 1 ELSE stack[i].next
  <2>1. /\ Yielded \in Seq(Frame) /\ Len(Yielded) = n
        /\ \A i \in 1..n :
            /\ Yielded[i].node = stack[i].node
            /\ Yielded[i].next = IF i = n THEN stack[i].next + 1 ELSE stack[i].next
    BY Unfold, YieldedFrames
  <2>2. DOMAIN Yielded = 1..n
    BY <2>1
  <2> QED
    BY <2>1, <2>2
<1>4. /\ stack[n].next <= Len(needs[stack[n].node])
      /\ colour[needs[stack[n].node][stack[n].next]] = "BLACK"
  BY <1>2
<1>5. verdict' = "searching" /\ Searching /\ colour' = colour /\ needs' = needs /\ steps' = steps
  OBVIOUS
<1> HIDE <1>1 DEF n
<1> USE <1>5
<1>6. \A i \in DOMAIN stack' : stack'[i].next <= Len(needs[stack'[i].node]) + 1
  <2> SUFFICES ASSUME NEW i \in 1..n
               PROVE  stack'[i].next <= Len(needs[stack'[i].node]) + 1
    BY <1>3
  <2>1. stack[i].node \in Ids /\ stack[i].next \in Nat
        /\ stack[i].next <= Len(needs[stack[i].node]) + 1
    BY <1>2, Unfold
  <2>2. Len(needs[stack[i].node]) \in Nat
    BY <2>1, Unfold
  <2>3. CASE i = n
    <3>1. stack'[i].next = stack[i].next + 1 /\ stack[i].next <= Len(needs[stack[i].node])
      BY <1>3, <1>4, <2>3
    <3> QED
      BY <1>3, <2>1, <2>2, <3>1
  <2>4. CASE i # n
    BY <1>3, <2>1, <2>4
  <2> QED
    BY <2>3, <2>4
<1>7. GreyIsPath'
  <2>1. ASSUME NEW s \in Ids
        PROVE  colour[s] = "GREY" <=> \E i \in 1..n : stack'[i].node = s
    <3>1. colour[s] = "GREY" <=> \E i \in 1..n : stack[i].node = s
      BY <1>2, Unfold DEF GreyIsPath
    <3> QED
      BY <1>3, <3>1
  <2>2. ASSUME NEW i \in 1..n, NEW j \in 1..n, stack'[i].node = stack'[j].node
        PROVE  i = j
    <3>1. stack[i].node = stack[j].node
      BY <1>3, <2>2
    <3> QED
      BY <1>2, <3>1, Unfold DEF GreyIsPath
  <2> QED
    BY <1>2, <1>3, <2>1, <2>2 DEF GreyIsPath
<1>8. PathLinked'
  <2> SUFFICES ASSUME NEW i \in 1..n, i + 1 \in 1..n
               PROVE  /\ stack'[i].next > 1
                      /\ needs[stack'[i].node][stack'[i].next - 1] = stack'[i + 1].node
    BY <1>3 DEF PathLinked
  <2>1. i # n
    BY <1>2
  <2> QED
    BY <1>2, <1>3, <2>1, Unfold DEF PathLinked
<1>9. Explored'
  <2> SUFFICES ASSUME NEW i \in 1..n, NEW j \in 1..(stack'[i].next - 1)
               PROVE  \/ colour[needs[stack'[i].node][j]] = "BLACK"
                      \/ i + 1 \in 1..n /\ needs[stack'[i].node][j] = stack'[i + 1].node
    BY <1>3 DEF Explored
  <2>1. stack'[i].node = stack[i].node
    BY <1>3
  <2>2. CASE i = n /\ j = stack[n].next
    BY <1>4, <2>1, <2>2
  <2>3. CASE ~(i = n /\ j = stack[n].next)
    <3>1. j \in 1..(stack[i].next - 1)
      BY <1>2, <1>3, <2>3, Unfold
    <3>2. i + 1 \in 1..n => stack'[i + 1].node = stack[i + 1].node
      BY <1>3
    <3> QED
      BY <1>2, <2>1, <3>1, <3>2, Unfold DEF Explored
  <2> QED
    BY <2>2, <2>3
<1>10. Black' = Black
  BY <1>2 DEF Black
<1>11. BlackClosed' /\ BlackAcyclic'
  BY <1>10, Unfold, SameBlack
<1>12. colour' \in [Ids -> Colour]
  BY Unfold
<1> QED
  BY <1>3, <1>6, <1>7, <1>8, <1>9, <1>11, <1>12, Fold

\* A node whose needs are all in an acyclic set joins it without closing a circle.
LEMMA AcyclicGrows ==
    ASSUME NEW B, \A x \in B : Needs(x) \subseteq B,
           \A S \in (SUBSET B) \ {{}} : \E x \in S : Needs(x) \cap S = {},
           NEW s, s \notin B, Needs(s) \subseteq B
    PROVE  \A S \in (SUBSET (B \cup {s})) \ {{}} : \E x \in S : Needs(x) \cap S = {}
<1> SUFFICES ASSUME NEW S \in (SUBSET (B \cup {s})) \ {{}}
             PROVE  \E x \in S : Needs(x) \cap S = {}
  OBVIOUS
<1>1. CASE S \ {s} = {}
  <2>1. \A x \in S : x = s
    BY <1>1
  <2>2. s \in S
    BY <2>1
  <2>3. S = {s}
    BY <2>1, <2>2
  <2>4. Needs(s) \cap S = {}
    BY <2>3
  <2> QED
    BY <2>3, <2>4
<1>2. CASE S \ {s} # {}
  <2>1. S \ {s} \in (SUBSET B) \ {{}}
    BY <1>2
  <2>2. PICK x \in S \ {s} : Needs(x) \cap (S \ {s}) = {}
    BY <2>1
  <2>3. Needs(x) \subseteq B
    BY <2>1, <2>2
  <2> QED
    BY <2>2, <2>3
<1> QED
  BY <1>1, <1>2

LEMMA RetreatInv ==
    ASSUME SearchInv, Retreat
    PROVE  SearchInv'
<1> DEFINE n == Len(stack)
           s == Top.node
<1>1. /\ Searching /\ stack # <<>> /\ Top.next > Len(needs[Top.node])
      /\ colour' = [colour EXCEPT ![s] = "BLACK"] /\ stack' = Pop(stack)
      /\ verdict' = "searching" /\ steps' = steps /\ needs' = needs
  BY DEF Retreat, Exhausted, Unchanging, Searching
<1> USE <1>1
<1>2. n \in Nat \ {0} /\ DOMAIN stack = 1..n /\ Top = stack[n] /\ Ids' = Ids /\ Frame' = Frame
  BY Unfold, SameSteps, StackTop DEF Top
<1>3. s \in Ids /\ s = stack[n].node
  BY <1>2, Unfold
<1>4. /\ stack' \in Seq(Frame) /\ DOMAIN stack' = 1..(n - 1)
      /\ \A i \in 1..(n - 1) : stack'[i] = stack[i]
  <2>1. Len(stack') = n - 1 /\ stack' \in Seq(Frame)
    BY <1>2, Unfold, PopFrames
  <2> QED
    BY <2>1, Unfold, PopFrames
<1>5. \A x \in Ids : colour'[x] = IF x = s THEN "BLACK" ELSE colour[x]
  BY <1>3, Unfold
<1>6. colour' \in [Ids -> Colour]
  BY <1>3, Unfold DEF Colour
<1>7. stack[n].next > Len(needs[s])
  BY <1>2
<1>8. verdict' = "searching" /\ Searching /\ needs' = needs /\ steps' = steps
  OBVIOUS
<1> HIDE <1>1 DEF n, s
<1> USE <1>8
<1>9. n \in DOMAIN stack /\ colour[s] = "GREY"
  BY <1>2, <1>3, Unfold DEF GreyIsPath
<1>10. \A i \in 1..(n - 1) : i \in DOMAIN stack /\ stack[i].node # s
  <2> TAKE i \in 1..(n - 1)
  <2>1. i \in 1..n /\ i # n
    BY <1>2
  <2> QED
    BY <1>2, <1>3, <2>1, Unfold DEF GreyIsPath
<1>11. Needs(s) \subseteq Black
  <2> SUFFICES ASSUME NEW j \in DOMAIN needs[s]
               PROVE  needs[s][j] \in Black
    BY DEF Needs
  <2>1. j \in 1..Len(needs[s]) /\ Len(needs[s]) \in Nat
    BY <1>3, Unfold
  <2>2. j \in 1..(stack[n].next - 1)
    BY <1>7, <1>9, <2>1, Unfold
  <2>3. n + 1 \notin DOMAIN stack
    BY <1>2
  <2>4. colour[needs[s][j]] = "BLACK"
    BY <1>3, <1>9, <2>2, <2>3, Unfold DEF Explored
  <2> QED
    BY <1>3, <2>4, Unfold DEF Black
<1>12. Black' = Black \cup {s}
  BY <1>2, <1>3, <1>5 DEF Black
<1>13. s \notin Black
  BY <1>9 DEF Black
<1>14. BlackClosed'
  <2>1. \A x \in Black : Needs(x) \subseteq Black
    BY Unfold DEF BlackClosed
  <2> QED
    BY <1>11, <1>12, <2>1 DEF BlackClosed, Needs
<1>15. BlackAcyclic'
  <2>1. \A S \in (SUBSET (Black \cup {s})) \ {{}} : \E x \in S : Needs(x) \cap S = {}
    <3>1. \A x \in Black : Needs(x) \subseteq Black
      BY Unfold DEF BlackClosed
    <3>2. \A S \in (SUBSET Black) \ {{}} : \E x \in S : Needs(x) \cap S = {}
      BY Unfold DEF BlackAcyclic
    <3> QED
      BY <1>11, <1>13, <3>1, <3>2, AcyclicGrows
  <2> QED
    BY <1>12, <2>1, SameNeeds DEF BlackAcyclic
<1>16. GreyIsPath'
  <2>1. ASSUME NEW x \in Ids
        PROVE  colour'[x] = "GREY" <=> \E i \in 1..(n - 1) : stack'[i].node = x
    <3>1. colour[x] = "GREY" <=> \E i \in 1..n : stack[i].node = x
      BY <1>2, Unfold DEF GreyIsPath
    <3>2. CASE x = s
      BY <1>4, <1>5, <1>10, <3>2
    <3>3. CASE x # s
      <4>1. (\E i \in 1..n : stack[i].node = x) <=> \E i \in 1..(n - 1) : stack'[i].node = x
        BY <1>2, <1>3, <1>4, <3>3
      <4> QED
        BY <1>5, <3>1, <3>3, <4>1
    <3> QED
      BY <3>2, <3>3
  <2>2. \A i, j \in 1..(n - 1) : stack'[i].node = stack'[j].node => i = j
    BY <1>4, <1>10, Unfold DEF GreyIsPath
  <2> QED
    BY <1>2, <1>4, <2>1, <2>2 DEF GreyIsPath
<1>17. PathLinked'
  <2> SUFFICES ASSUME NEW i \in 1..(n - 1), i + 1 \in 1..(n - 1)
               PROVE  /\ stack'[i].next > 1
                      /\ needs[stack'[i].node][stack'[i].next - 1] = stack'[i + 1].node
    BY <1>4 DEF PathLinked
  <2> QED
    BY <1>4, <1>10, Unfold DEF PathLinked
<1>18. Explored'
  <2> SUFFICES ASSUME NEW i \in 1..(n - 1), NEW j \in 1..(stack'[i].next - 1)
               PROVE  \/ colour'[needs[stack'[i].node][j]] = "BLACK"
                      \/ i + 1 \in 1..(n - 1) /\ needs[stack'[i].node][j] = stack'[i + 1].node
    BY <1>4 DEF Explored
  <2>1. stack'[i] = stack[i] /\ i \in DOMAIN stack
    BY <1>4, <1>10
  <2>2. j \in DOMAIN needs[stack[i].node] /\ needs[stack[i].node][j] \in Ids
    <3>1. stack[i].node \in Ids /\ stack[i].next \in Nat
          /\ stack[i].next <= Len(needs[stack[i].node]) + 1
      BY <2>1, Unfold
    <3>2. j \in 1..Len(needs[stack[i].node]) /\ DOMAIN needs[stack[i].node] = 1..Len(needs[stack[i].node])
      BY <2>1, <3>1, Unfold
    <3> QED
      BY <3>1, <3>2, Unfold
  <2>3. CASE colour[needs[stack[i].node][j]] = "BLACK"
    BY <1>5, <2>1, <2>2, <2>3
  <2>4. CASE i + 1 \in DOMAIN stack /\ needs[stack[i].node][j] = stack[i + 1].node
    <3>1. CASE i + 1 = n
      BY <1>3, <1>5, <2>1, <2>2, <2>4, <3>1
    <3>2. CASE i + 1 # n
      <4>1. i + 1 \in 1..(n - 1)
        BY <1>2, <2>4, <3>2
      <4> QED
        BY <1>4, <2>1, <2>4, <4>1
    <3> QED
      BY <3>1, <3>2
  <2> QED
    BY <2>1, <2>3, <2>4, Unfold DEF Explored
<1>19. \A i \in DOMAIN stack' : stack'[i].next <= Len(needs[stack'[i].node]) + 1
  BY <1>4, <1>10, Unfold
<1> QED
  BY <1>4, <1>6, <1>14, <1>15, <1>16, <1>17, <1>18, <1>19, Fold

LEMMA AcceptInv ==
    ASSUME SearchInv, Accept
    PROVE  SearchInv'
<1>1. /\ Searching /\ stack = <<>> /\ \A s \in DOMAIN needs : colour[s] # "WHITE"
      /\ verdict' = "accepted"
      /\ UNCHANGED <<colour, stack, cycle, steps, needs>>
  BY DEF Accept, Unchanging, Searching
<1>2. TypeInv'
  BY <1>1, Unfold, SameSteps DEF TypeInv
<1>3. Ids \subseteq Black
  <2> SUFFICES ASSUME NEW s \in Ids
               PROVE  s \in Black
    OBVIOUS
  <2>1. GreyIsPath /\ DOMAIN stack = {}
    BY <1>1, Unfold
  <2>2. colour[s] # "GREY"
    BY <2>1 DEF GreyIsPath
  <2> QED
    BY <1>1, <2>2, Unfold DEF Colour, Black
<1>4. Acyclic
  <2>1. BlackAcyclic /\ DOMAIN needs = Ids
    BY <1>1, Unfold
  <2>2. SUBSET DOMAIN needs \subseteq SUBSET Black
    BY <1>3, <2>1
  <2> QED
    BY <2>1, <2>2 DEF Acyclic, BlackAcyclic
<1>5. Acyclic'
  BY <1>1, <1>4, SameNeeds DEF Acyclic
<1>6. (GoodShape /\ ~Dangling)'
  BY <1>1, Unfold, SameSteps
<1> QED
  BY <1>1, <1>2, <1>5, <1>6
     DEF SearchInv, VerdictIsRight, AcceptedIsAcyclic, CycleIsReal

LEMMA FindCycleInv ==
    ASSUME SearchInv, NEW dep \in DOMAIN needs, FindCycle(dep)
    PROVE  SearchInv'
<1> DEFINE n == Len(stack)
<1>1. /\ Searching /\ stack # <<>>
      /\ Top.next <= Len(needs[Top.node]) /\ dep = needs[Top.node][Top.next]
      /\ verdict' = "cycle"
      /\ UNCHANGED <<colour, stack, steps, needs>>
  BY DEF FindCycle, Yields, Unchanging, Searching
<1>2. PICK k \in DOMAIN stack :
        /\ stack[k].node = dep
        /\ cycle' = Append([i \in 1..(Len(stack) - k + 1) |-> stack[k + i - 1].node], dep)
  BY DEF FindCycle
<1>3. n \in Nat \ {0} /\ DOMAIN stack = 1..n /\ Top = stack[n] /\ Ids' = Ids
  BY <1>1, Unfold, SameSteps, StackTop DEF Top
<1>4. TypeInv'
  BY <1>1, Unfold, SameSteps DEF TypeInv
<1> DEFINE p == [i \in 1..(n - k + 1) |-> stack[k + i - 1].node]
           m == n - k + 1
<1>5. m \in Nat \ {0} /\ k \in 1..n /\ \A i \in 1..m : k + i - 1 \in 1..n
  BY <1>2, <1>3
<1>6. cycle' = Append(p, dep)
  BY <1>2
<1> HIDE DEF n
<1>7. p \in Seq(Ids) /\ Len(p) = m /\ \A i \in 1..m : p[i] = stack[k + i - 1].node
  <2>1. \A i \in 1..m : stack[k + i - 1].node \in Ids
    BY <1>1, <1>3, <1>5, Unfold
  <2>2. p \in [1..m -> Ids]
    BY <2>1
  <2> QED
    BY <1>5, <2>2
<1>8. dep \in Ids /\ stack[n].node \in Ids /\ dep \in Needs(stack[n].node)
  <2>1. n \in DOMAIN stack
    BY <1>3
  <2>2. stack[n].node \in Ids /\ stack[n].next \in Nat \ {0} /\ DOMAIN needs = Ids
    BY <1>1, <2>1, Unfold
  <2>3. stack[n].next \in DOMAIN needs[stack[n].node]
    BY <1>1, <1>3, <2>2, Unfold
  <2> QED
    BY <1>1, <1>3, <2>2, <2>3 DEF Needs
<1>9. \A i \in 1..n : i # n => stack[i + 1].node \in Needs(stack[i].node)
  <2> SUFFICES ASSUME NEW i \in 1..n, i # n
               PROVE  stack[i + 1].node \in Needs(stack[i].node)
    OBVIOUS
  <2>1. i \in DOMAIN stack /\ i + 1 \in DOMAIN stack
    BY <1>3
  <2>2. stack[i].next > 1 /\ needs[stack[i].node][stack[i].next - 1] = stack[i + 1].node
    BY <1>1, <2>1, Unfold DEF PathLinked
  <2>3. /\ stack[i].node \in Ids /\ stack[i].next \in Nat
        /\ stack[i].next <= Len(needs[stack[i].node]) + 1
    BY <1>1, <2>1, Unfold
  <2>4. stack[i].next - 1 \in DOMAIN needs[stack[i].node]
    BY <1>1, <2>2, <2>3, Unfold
  <2> QED
    BY <2>2, <2>4 DEF Needs
<1> HIDE DEF p, m
<1>10. /\ Len(cycle') = m + 1 /\ cycle'[m + 1] = dep
       /\ \A i \in 1..m : cycle'[i] = stack[k + i - 1].node
  BY <1>5, <1>7, <1>8, <1>6
<1>11. k + m - 1 = n
  BY <1>3, <1>5 DEF m
<1>12. cycle'[1] = dep
  <2>1. 1 \in 1..m /\ k + 1 - 1 = k
    BY <1>5
  <2> QED
    BY <1>2, <1>10, <2>1
<1>13. \A i \in 1..m : cycle'[i] \in Ids /\ cycle'[i + 1] \in Needs(cycle'[i])
  <2> SUFFICES ASSUME NEW i \in 1..m
               PROVE  cycle'[i] \in Ids /\ cycle'[i + 1] \in Needs(cycle'[i])
    OBVIOUS
  <2>1. k + i - 1 \in 1..n /\ cycle'[i] = stack[k + i - 1].node
    BY <1>5, <1>10
  <2>2. cycle'[i] \in Ids
    BY <1>1, <1>3, <2>1, Unfold
  <2>3. CASE i = m
    BY <1>8, <1>10, <1>11, <2>1, <2>2, <2>3
  <2>4. CASE i # m
    <3>1. i + 1 \in 1..m /\ k + i - 1 # n /\ (k + i - 1) + 1 = k + (i + 1) - 1
      BY <1>5, <1>11, <2>4
    <3>2. cycle'[i + 1] = stack[(k + i - 1) + 1].node
      BY <1>10, <3>1
    <3> QED
      BY <1>9, <2>1, <2>2, <3>1, <3>2
  <2> QED
    BY <2>3, <2>4
<1>14. \A i, j \in 1..m : cycle'[i] = cycle'[j] => i = j
  <2> SUFFICES ASSUME NEW i \in 1..m, NEW j \in 1..m, cycle'[i] = cycle'[j]
               PROVE  i = j
    OBVIOUS
  <2>1. k + i - 1 = k + j - 1
    BY <1>1, <1>3, <1>5, <1>10, Unfold DEF GreyIsPath
  <2> QED
    BY <1>5, <2>1
<1>15. DOMAIN needs = Ids /\ needs' = needs
  BY <1>1, Unfold
<1>16. IsCycle(cycle)'
  <2>1. Len(cycle') > 1 /\ Len(cycle') - 1 = m
    BY <1>5, <1>10
  <2> QED
    BY <1>10, <1>12, <1>13, <1>14, <1>15, <2>1 DEF IsCycle, Needs
<1> QED
  BY <1>1, <1>4, <1>16 DEF SearchInv, VerdictIsRight, AcceptedIsAcyclic, CycleIsReal

LEMMA BeginSearchInv ==
    ASSUME SearchInv, BeginSearch
    PROVE  SearchInv'
<1>1. /\ GoodShape /\ ~Dangling /\ verdict' = "searching"
      /\ needs' = [s \in Ids |-> NeedsOf(s)]
      /\ colour' = [s \in Ids |-> "WHITE"]
      /\ stack' = stack /\ steps' = steps
  BY DEF BeginSearch
<1>2. (GoodShape /\ ~Dangling)' /\ Ids' = Ids /\ Frame' = Frame
  BY <1>1, SameSteps
<1>3. steps \in Seq(Entry)
  BY SubmissionAssumption DEF SearchInv, TypeInv
<1>4. ASSUME NEW s \in Ids
      PROVE  /\ NeedsOf(s) \in Seq(Id)
             /\ \A j \in DOMAIN NeedsOf(s) : NeedsOf(s)[j] \in Ids
  <2>1. PICK y \in Position : steps[y].id = s
    BY DEF Ids
  <2>2. \E i \in Position : NeedsOf(s) = steps[i].needs
    BY <2>1 DEF NeedsOf
  <2>3. PICK x \in Position : NeedsOf(s) = steps[x].needs
    BY <2>2
  <2>4. steps[x] \in Entry
    BY <1>3 DEF Position
  <2> QED
    BY <1>1, <2>3, <2>4 DEF Entry, Dangling
<1>5. needs' \in [Ids -> Seq(Id)] /\ \A s \in Ids : \A j \in DOMAIN needs'[s] : needs'[s][j] \in Ids
  BY <1>1, <1>4
<1>6. colour' \in [Ids -> Colour] /\ \A s \in Ids : colour'[s] = "WHITE"
  BY <1>1 DEF Colour
<1>7. stack' = <<>> /\ DOMAIN stack' = {}
  BY <1>1 DEF BeginSearch, SearchInv, TypeInv
<1>8. TypeInv'
  BY <1>1, <1>2, <1>5, <1>6, <1>7 DEF TypeInv, SearchInv
<1>9. GreyIsPath' /\ PathLinked' /\ Explored'
  BY <1>2, <1>6, <1>7 DEF GreyIsPath, PathLinked, Explored
<1>10. Black' = {}
  BY <1>2, <1>6 DEF Black
<1>11. BlackClosed' /\ BlackAcyclic'
  <2>1. (SUBSET Black') \ {{}} = {}
    BY <1>10
  <2> QED
    BY <1>10, <2>1 DEF BlackClosed, BlackAcyclic
<1> QED
  BY <1>1, <1>8, <1>9, <1>11
     DEF SearchInv, VerdictIsRight, AcceptedIsAcyclic, CycleIsReal

\* The definition is refused at once, or only the sort goes on.
LEMMA RefuseInv ==
    ASSUME SearchInv, RefuseShape \/ RefuseDangling
    PROVE  SearchInv'
<1>1. verdict' \in {"malformed", "dangling"} /\ steps' = steps
  BY DEF RefuseShape, RefuseDangling, Refuse
<1> QED
  BY <1>1 DEF SearchInv, TypeInv, Searched, VerdictIsRight, AcceptedIsAcyclic, CycleIsReal

LEMMA SortInv ==
    ASSUME SearchInv, UNCHANGED searchVars
    PROVE  SearchInv'
<1>1. UNCHANGED <<steps, verdict, needs, colour, stack, cycle>>
  BY DEF searchVars
<1>2. Ids' = Ids /\ Frame' = Frame /\ ((GoodShape /\ ~Dangling) => (GoodShape /\ ~Dangling)')
  BY <1>1, SameSteps
<1>3. TypeInv'
  BY <1>1, <1>2 DEF SearchInv, TypeInv, Searched
<1>4. (verdict = "searching" =>
        GreyIsPath /\ PathLinked /\ Explored /\ BlackClosed /\ BlackAcyclic)'
  <2>1. Black' = Black
    BY <1>1, <1>2 DEF Black
  <2>2. CASE verdict = "searching"
    <3>1. GreyIsPath' /\ PathLinked' /\ Explored'
      BY <1>1, <1>2, <2>2 DEF SearchInv, GreyIsPath, PathLinked, Explored
    <3>2. BlackClosed' /\ BlackAcyclic'
      BY <1>1, <2>1, <2>2, SameBlack DEF SearchInv
    <3> QED
      BY <3>1, <3>2
  <2> QED
    BY <1>1, <2>2
<1>5. VerdictIsRight'
  <2>1. AcceptedIsAcyclic'
    <3>1. Acyclic => Acyclic'
      BY <1>1, SameNeeds DEF Acyclic
    <3> QED
      BY <1>1, <1>2, <3>1 DEF SearchInv, VerdictIsRight, AcceptedIsAcyclic
  <2>2. CycleIsReal'
    BY <1>1 DEF SearchInv, VerdictIsRight, CycleIsReal, IsCycle, Needs
  <2> QED
    BY <2>1, <2>2 DEF VerdictIsRight
<1> QED
  BY <1>3, <1>4, <1>5 DEF SearchInv

LEMMA SearchInvariant == Spec => []SearchInv
<1>1. Init => SearchInv
  BY DEF Init, SearchInv, TypeInv, Searched, VerdictIsRight, AcceptedIsAcyclic, CycleIsReal
<1>2. SearchInv /\ [Next]_vars => SearchInv'
  <2> SUFFICES ASSUME SearchInv, [Next]_vars
               PROVE  SearchInv'
    OBVIOUS
  <2>1. CASE RefuseShape \/ RefuseDangling
    BY <2>1, RefuseInv
  <2>2. CASE BeginSearch
    BY <2>2, BeginSearchInv
  <2>3. ASSUME NEW s \in DOMAIN needs, StartTree(s)
        PROVE  SearchInv'
    BY <2>3, StartTreeInv
  <2>4. ASSUME NEW s \in DOMAIN needs, FindCycle(s)
        PROVE  SearchInv'
    BY <2>4, FindCycleInv
  <2>5. ASSUME NEW s \in DOMAIN needs, Descend(s)
        PROVE  SearchInv'
    BY <2>5, DescendInv
  <2>6. ASSUME NEW s \in DOMAIN needs, Skip(s)
        PROVE  SearchInv'
    BY <2>6, SkipInv
  <2>7. CASE Retreat
    BY <2>7, RetreatInv
  <2>8. CASE Accept
    BY <2>8, AcceptInv
  <2>9. CASE BeginSort \/ (\E s \in DOMAIN needs : Place(s)) \/ EndSort
    <3>1. UNCHANGED searchVars
      BY <2>9 DEF BeginSort, Place, EndSort
    <3> QED
      BY <3>1, SortInv
  <2>10. CASE UNCHANGED vars
    <3>1. UNCHANGED searchVars
      BY <2>10 DEF vars
    <3> QED
      BY <3>1, SortInv
  <2> QED
    BY <2>1, <2>2, <2>3, <2>4, <2>5, <2>6, <2>7, <2>8, <2>9, <2>10 DEF Next
<1> QED
  BY <1>1, <1>2, PTL DEF Spec

\* validate_spec tells the definitions that can be executed from those that cannot,
\* for any number of steps and any dependencies: what it accepts has unique names,
\* no dangling need and no cycle, and the cycle it reports is one (detect_cycle).
THEOREM VerdictCorrect == Spec => []VerdictIsRight
<1>1. SearchInv => VerdictIsRight
  BY DEF SearchInv
<1> QED
  BY <1>1, SearchInvariant, PTL
------------------------------------------------------------------------------
(* The order.                                                              *)

Placed == {order[i] : i \in DOMAIN order}

\* The places in the needs of s that wait for a step to be placed.
Missing(s) == {i \in DOMAIN needs[s] : needs[s][i] \notin Placed}

\* What is counted, and who is queued: the steps that miss nothing.
Counted == indegree = [s \in Ids |-> Cardinality(Missing(s))]

QueuedRight == queue = {s \in Ids \ Placed : Missing(s) = {}}

\* What is placed is placed once, after all it needs.
PlacedOnce ==
    /\ order \in Seq(Ids)
    /\ \A i, j \in DOMAIN order : order[i] = order[j] => i = j
    /\ IsFiniteSet(Placed) /\ Cardinality(Placed) = Len(order)

PlacedClosed == \A s \in Placed : Needs(s) \subseteq Placed

PlacedAcyclic == \A S \in (SUBSET Placed) \ {{}} : \E s \in S : Needs(s) \cap S = {}

InOrder == \A i, j \in DOMAIN order : order[j] \in Needs(order[i]) => j < i

OrderInv ==
    /\ verdict = "cycle" => Len(cycle) \in Nat
    /\ sorting = "no" => order = <<>>
    /\ sorting # "no" =>
        /\ verdict \in {"accepted", "cycle"}
        /\ Counted /\ QueuedRight /\ PlacedOnce /\ PlacedClosed /\ PlacedAcyclic /\ InOrder
    /\ OrderIsRight

\* What the search has left for the sort.
LEMMA SortsSound ==
    ASSUME SearchInv, Searched
    PROVE  /\ needs \in [Ids -> Seq(Id)] /\ DOMAIN needs = Ids
           /\ \A s \in Ids : /\ Needs(s) \subseteq Ids
                             /\ Len(needs[s]) \in Nat /\ DOMAIN needs[s] = 1..Len(needs[s])
                             /\ IsFiniteSet(DOMAIN needs[s])
                             /\ Cardinality(DOMAIN needs[s]) = Len(needs[s])
<1>1. needs \in [Ids -> Seq(Id)] /\ \A s \in Ids : \A j \in DOMAIN needs[s] : needs[s][j] \in Ids
  BY DEF SearchInv, TypeInv
<1>2. ASSUME NEW s \in Ids
      PROVE  /\ Len(needs[s]) \in Nat /\ DOMAIN needs[s] = 1..Len(needs[s])
             /\ IsFiniteSet(1..Len(needs[s]))
             /\ Cardinality(1..Len(needs[s])) = Len(needs[s])
  <2>1. needs[s] \in Seq(Id)
    BY <1>1
  <2>2. Len(needs[s]) \in Nat /\ DOMAIN needs[s] = 1..Len(needs[s])
    BY <2>1
  <2> QED
    BY <2>2, FS_Interval
<1> QED
  BY <1>1, <1>2 DEF Needs

LEMMA IdsFinite ==
    ASSUME SearchInv, Searched
    PROVE  IsFiniteSet(Ids)
<1> DEFINE f == [i \in Position |-> steps[i].id]
<1>1. steps \in Seq(Entry)
  BY SubmissionAssumption DEF SearchInv, TypeInv
<1>2. Position = 1..Len(steps) /\ Len(steps) \in Nat
  BY <1>1 DEF Position
<1>3. IsFiniteSet(Position)
  BY <1>2, FS_Interval
<1>4. f \in Surjection(Position, Ids)
  BY DEF Surjection, Ids
<1> QED
  BY <1>3, <1>4, FS_Surjection

\* The sort touches nothing of the search, nor does the search of the sort.
LEMMA SearchLeavesOrder ==
    ASSUME OrderInv, sorting = "no", UNCHANGED sortVars,
           verdict' = "cycle" => Len(cycle') \in Nat
    PROVE  OrderInv'
BY DEF OrderInv, sortVars, OrderIsRight

LEMMA FindCycleLength ==
    ASSUME SearchInv, NEW dep \in DOMAIN needs, FindCycle(dep)
    PROVE  Len(cycle') \in Nat
<1>1. PICK k \in DOMAIN stack :
        cycle' = Append([i \in 1..(Len(stack) - k + 1) |-> stack[k + i - 1].node], dep)
  BY DEF FindCycle
<1>2. Searching /\ stack # <<>>
  BY DEF FindCycle, Yields
<1>3. stack \in Seq(Frame) /\ Len(stack) \in Nat /\ k \in 1..Len(stack)
  BY <1>1, <1>2, StackTop DEF SearchInv
<1> DEFINE m == Len(stack) - k + 1
           p == [i \in 1..m |-> stack[k + i - 1].node]
<1>4. m \in Nat /\ \A i \in 1..m : k + i - 1 \in 1..Len(stack)
  BY <1>3
<1>5. p \in Seq(Ids)
  <2>1. ASSUME NEW i \in 1..m
        PROVE  stack[k + i - 1].node \in Ids
    <3> HIDE DEF m
    <3>1. stack[k + i - 1] \in Frame
      BY <1>3, <1>4
    <3> QED
      BY <3>1 DEF Frame
  <2> HIDE DEF m
  <2>2. p \in [1..m -> Ids]
    BY <2>1
  <2> HIDE DEF p
  <2> QED
    BY <1>4, <2>2
<1>6. cycle' = Append(p, dep)
  BY <1>1
<1> HIDE DEF p
<1> QED
  BY <1>5, <1>6

\* The search goes on only until it has a verdict, and the sort begins then.
LEMMA SearchingOrder ==
    ASSUME SearchInv, OrderInv,
           \/ RefuseShape \/ RefuseDangling \/ BeginSearch \/ Retreat \/ Accept
           \/ \E s \in DOMAIN needs : StartTree(s) \/ FindCycle(s) \/ Descend(s) \/ Skip(s)
    PROVE  OrderInv'
<1>1. verdict \in {"submitted", "searching"} /\ UNCHANGED sortVars
  BY DEF RefuseShape, RefuseDangling, Refuse, BeginSearch, Retreat, Exhausted, Accept, StartTree,
         FindCycle, Descend, Skip, Yields, Searching, Unchanging
<1>2. sorting = "no"
  BY <1>1 DEF OrderInv
<1>3. verdict' = "cycle" => Len(cycle') \in Nat
  <2>1. CASE \E s \in DOMAIN needs : FindCycle(s)
    BY <2>1, FindCycleLength
  <2>2. CASE ~\E s \in DOMAIN needs : FindCycle(s)
    <3>1. verdict' # "cycle"
      BY <1>1, <2>2 DEF RefuseShape, RefuseDangling, Refuse, BeginSearch, Retreat, Exhausted,
             Accept, StartTree, Descend, Skip, Yields, Searching, Unchanging
    <3> QED
      BY <3>1
  <2> QED
    BY <2>1, <2>2
<1> QED
  BY <1>1, <1>2, <1>3, SearchLeavesOrder

LEMMA BeginSortOrder ==
    ASSUME SearchInv, OrderInv, BeginSort
    PROVE  OrderInv'
<1>1. /\ verdict \in {"accepted", "cycle"} /\ sorting' = "sorting" /\ order' = <<>>
      /\ indegree' = [s \in DOMAIN needs |-> Len(needs[s])]
      /\ queue' = {s \in DOMAIN needs : Len(needs[s]) = 0}
      /\ UNCHANGED <<steps, verdict, needs, cycle>>
  BY DEF BeginSort, OrderInv, searchVars
<1>2. Searched /\ Ids' = Ids
  BY <1>1, SameSteps DEF Searched
<1>3. Placed' = {} /\ \A s \in Ids : Missing(s)' = DOMAIN needs[s]
  BY <1>1 DEF Placed, Missing
<1>4. Counted'
  BY <1>1, <1>2, <1>3, SortsSound DEF Counted
<1>5. QueuedRight'
  <2>1. ASSUME NEW s \in Ids
        PROVE  DOMAIN needs[s] = {} <=> Len(needs[s]) = 0
    <3>1. Len(needs[s]) \in Nat /\ DOMAIN needs[s] = 1..Len(needs[s])
      BY <1>2, SortsSound
    <3>2. \A n \in Nat : 1..n = {} <=> n = 0
      OBVIOUS
    <3> QED
      BY <3>1, <3>2
  <2> QED
    BY <1>1, <1>2, <1>3, <2>1, SortsSound DEF QueuedRight
<1>6. PlacedOnce'
  <2>1. order' \in Seq(Ids) /\ Len(order') = 0
    BY <1>1
  <2> QED
    BY <1>2, <1>3, <2>1, FS_EmptySet DEF PlacedOnce
<1>7. PlacedClosed' /\ PlacedAcyclic' /\ InOrder'
  BY <1>1, <1>3 DEF PlacedClosed, PlacedAcyclic, InOrder
<1> QED
  BY <1>1, <1>4, <1>5, <1>6, <1>7 DEF OrderInv, OrderIsRight

LEMMA PlaceOrder ==
    ASSUME SearchInv, OrderInv, NEW sid \in DOMAIN needs, Place(sid)
    PROVE  OrderInv'
<1> DEFINE n == Len(order)
           listed(s) == {i \in DOMAIN needs[s] : needs[s][i] = sid}
<1>1. /\ sorting = "sorting" /\ UNCHANGED <<sorting, steps, verdict, needs, cycle>>
      /\ sid \in queue /\ order' = Append(order, sid)
  BY DEF Place, searchVars
<1>2. /\ verdict \in {"accepted", "cycle"}
      /\ Counted /\ QueuedRight /\ PlacedOnce /\ PlacedClosed /\ PlacedAcyclic /\ InOrder
      /\ Searched
  BY <1>1 DEF OrderInv, Searched
<1>3. /\ Ids' = Ids /\ DOMAIN needs = Ids
      /\ sid \in Ids /\ sid \notin Placed /\ Missing(sid) = {}
  BY <1>1, <1>2, SameSteps, SortsSound DEF QueuedRight
<1>4. /\ n \in Nat /\ order' \in Seq(Ids) /\ Len(order') = n + 1
      /\ DOMAIN order = 1..n /\ DOMAIN order' = 1..(n + 1)
      /\ order'[n + 1] = sid /\ \A i \in 1..n : order'[i] = order[i]
  BY <1>1, <1>2, <1>3 DEF PlacedOnce
<1> HIDE DEF n
<1>5. Placed' = Placed \cup {sid}
  BY <1>4 DEF Placed
<1>6. \A s : Needs(s)' = Needs(s)
  BY <1>1, SameNeeds
<1>7. Needs(sid) \subseteq Placed
  BY <1>3 DEF Missing, Needs
<1>8. ASSUME NEW s \in Ids
      PROVE  /\ Missing(s)' = Missing(s) \ listed(s) /\ listed(s) \subseteq Missing(s)
             /\ IsFiniteSet(Missing(s)) /\ IsFiniteSet(listed(s))
             /\ Listed(s, sid) = Cardinality(listed(s))
             /\ Cardinality(Missing(s)') = Cardinality(Missing(s)) - Listed(s, sid)
             /\ Listed(s, sid) > 0 <=> listed(s) # {}
             /\ Cardinality(Missing(s)') = 0 <=> Missing(s)' = {}
  <2>1. Missing(s)' = Missing(s) \ listed(s) /\ listed(s) \subseteq Missing(s)
    BY <1>1, <1>3, <1>5 DEF Missing
  <2>2. Missing(s) \subseteq DOMAIN needs[s] /\ IsFiniteSet(DOMAIN needs[s])
    BY <1>2, SortsSound DEF Missing
  <2>3. IsFiniteSet(Missing(s))
    BY <2>2, FS_Subset
  <2>4. IsFiniteSet(listed(s)) /\ Cardinality(listed(s)) \in Nat
    BY <2>1, <2>3, FS_Subset, FS_CardinalityType
  <2>5. Listed(s, sid) = Cardinality(listed(s))
    BY DEF Listed
  <2>6. IsFiniteSet(Missing(s)') /\ Cardinality(Missing(s)') = Cardinality(Missing(s)) - Listed(s, sid)
    <3> HIDE DEF listed
    <3>1. Missing(s) \cap listed(s) = listed(s)
      BY <2>1
    <3>2. /\ IsFiniteSet(Missing(s) \ listed(s))
          /\ Cardinality(Missing(s) \ listed(s))
               = Cardinality(Missing(s)) - Cardinality(Missing(s) \cap listed(s))
      BY <2>3, FS_Difference
    <3> QED
      BY <2>1, <2>5, <3>1, <3>2
  <2> HIDE DEF listed
  <2>7. Listed(s, sid) > 0 <=> listed(s) # {}
    BY <2>4, <2>5, FS_EmptySet
  <2>8. Cardinality(Missing(s)') = 0 <=> Missing(s)' = {}
    BY <2>6, FS_EmptySet
  <2> QED
    BY <2>1, <2>3, <2>4, <2>5, <2>6, <2>7, <2>8
<1> HIDE DEF listed
<1>9. Counted'
  <2>1. indegree' = [s \in Ids |-> indegree[s] - Listed(s, sid)]
    BY <1>3 DEF Place
  <2>2. \A s \in Ids : indegree[s] - Listed(s, sid) = Cardinality(Missing(s)')
    BY <1>2, <1>8 DEF Counted
  <2> QED
    BY <1>3, <2>1, <2>2 DEF Counted
<1>10. QueuedRight'
  <2>1. queue' = (queue \ {sid}) \cup {s \in Ids : Listed(s, sid) > 0 /\ indegree'[s] = 0}
    BY <1>3 DEF Place
  <2>2. \A s \in Ids : indegree'[s] = 0 <=> Missing(s)' = {}
    BY <1>3, <1>8, <1>9 DEF Counted
  <2>3. ASSUME NEW s \in Ids
        PROVE  s \in queue' <=> s \notin Placed' /\ Missing(s)' = {}
    <3>1. s \in queue' <=> \/ s # sid /\ s \notin Placed /\ Missing(s) = {}
                           \/ listed(s) # {} /\ Missing(s)' = {}
      BY <1>2, <1>8, <2>1, <2>2 DEF QueuedRight
    <3>2. listed(s) # {} => s \notin Placed'
      <4>1. listed(s) # {} => sid \in Needs(s)
        BY DEF listed, Needs
      <4> QED
        BY <1>2, <1>3, <1>5, <1>7, <4>1 DEF PlacedClosed
    <3> QED
      BY <1>5, <1>8, <3>1, <3>2
  <2>4. queue' \subseteq Ids
    BY <1>2, <2>1 DEF QueuedRight
  <2> QED
    BY <1>3, <2>3, <2>4 DEF QueuedRight
<1>11. PlacedOnce'
  <2>1. \A i, j \in 1..(n + 1) : order'[i] = order'[j] => i = j
    <3>1. \A i \in 1..n : order'[i] \in Placed
      BY <1>4 DEF Placed
    <3>2. \A i, j \in 1..n : order[i] = order[j] => i = j
      BY <1>2, <1>4 DEF PlacedOnce
    <3>3. \A i \in 1..(n + 1) : i \in 1..n \/ i = n + 1
      BY <1>4
    <3> QED
      BY <1>3, <1>4, <3>1, <3>2, <3>3
  <2>2. IsFiniteSet(Placed') /\ Cardinality(Placed') = n + 1
    BY <1>2, <1>3, <1>5, FS_AddElement DEF PlacedOnce, n
  <2> QED
    BY <1>3, <1>4, <2>1, <2>2 DEF PlacedOnce
<1>12. PlacedClosed'
  BY <1>2, <1>5, <1>6, <1>7 DEF PlacedClosed
<1>13. PlacedAcyclic'
  <2>1. \A S \in (SUBSET (Placed \cup {sid})) \ {{}} : \E s \in S : Needs(s) \cap S = {}
    BY <1>2, <1>3, <1>7, AcyclicGrows DEF PlacedClosed, PlacedAcyclic
  <2> QED
    BY <1>5, <1>6, <2>1 DEF PlacedAcyclic
<1>14. InOrder'
  <2> SUFFICES ASSUME NEW i \in 1..(n + 1), NEW j \in 1..(n + 1),
                      order'[j] \in Needs(order'[i])
               PROVE  j < i
    BY <1>4, <1>6 DEF InOrder
  <2>1. CASE i = n + 1
    <3>1. j # n + 1
      BY <1>3, <1>4, <1>7, <2>1
    <3> QED
      BY <1>4, <2>1, <3>1
  <2>2. CASE i # n + 1
    <3>1. i \in 1..n /\ order'[i] = order[i] /\ order[i] \in Placed
      BY <1>4, <2>2 DEF Placed
    <3>2. j # n + 1
      BY <1>2, <1>3, <1>4, <3>1 DEF PlacedClosed
    <3>3. j \in 1..n /\ order'[j] = order[j]
      BY <1>4, <3>2
    <3> QED
      BY <1>2, <1>4, <3>1, <3>3 DEF InOrder
  <2> QED
    BY <2>1, <2>2
<1> QED
  BY <1>1, <1>2, <1>9, <1>10, <1>11, <1>12, <1>13, <1>14 DEF OrderInv, OrderIsRight

\* A definition with a cycle is not acyclic.
LEMMA CyclesBite ==
    ASSUME NEW c, Len(c) \in Nat, IsCycle(c), Acyclic
    PROVE  FALSE
<1> DEFINE S == {c[i] : i \in 1..(Len(c) - 1)}
<1>1. Len(c) > 1 /\ S \in (SUBSET DOMAIN needs) \ {{}}
  <2>1. Len(c) > 1 /\ 1 \in 1..(Len(c) - 1)
    BY DEF IsCycle
  <2>2. S \subseteq DOMAIN needs
    BY DEF IsCycle
  <2> QED
    BY <2>1, <2>2
<1>2. PICK s \in S : Needs(s) \cap S = {}
  BY <1>1 DEF Acyclic
<1>3. PICK i \in 1..(Len(c) - 1) : s = c[i]
  BY <1>2
<1>4. c[i + 1] \in Needs(s)
  BY <1>3 DEF IsCycle
<1>5. c[i + 1] \in S
  <2>1. CASE i + 1 \in 1..(Len(c) - 1)
    BY <2>1
  <2>2. CASE i + 1 = Len(c)
    <3>1. c[i + 1] = c[1] /\ 1 \in 1..(Len(c) - 1)
      BY <1>1, <2>2 DEF IsCycle
    <3> QED
      BY <3>1
  <2> QED
    BY <1>1, <1>3, <2>1, <2>2
<1> QED
  BY <1>2, <1>4, <1>5

\* When nothing is queued, either every step is placed, or those that are not need
\* each other in a circle.
LEMMA EndSortOrder ==
    ASSUME SearchInv, OrderInv, EndSort
    PROVE  OrderInv'
<1>1. /\ sorting = "sorting" /\ queue = {}
      /\ sorting' = IF Len(order) = Cardinality(DOMAIN needs) THEN "sorted" ELSE "raised"
      /\ UNCHANGED <<steps, verdict, needs, cycle, indegree, queue, order>>
  BY DEF EndSort, searchVars
<1>2. /\ verdict \in {"accepted", "cycle"}
      /\ Counted /\ QueuedRight /\ PlacedOnce /\ PlacedClosed /\ PlacedAcyclic /\ InOrder
      /\ Searched
  BY <1>1 DEF OrderInv, Searched
<1>3. DOMAIN needs = Ids /\ IsFiniteSet(Ids) /\ Placed \subseteq Ids
  <2>1. Placed \subseteq Ids
    BY <1>2 DEF Placed, PlacedOnce
  <2> QED
    BY <1>2, <2>1, SortsSound, IdsFinite
<1>4. Len(order) = Cardinality(Ids) <=> Placed = Ids
  BY <1>2, <1>3, FS_Subset DEF PlacedOnce
<1>5. verdict = "accepted" <=> Placed = Ids
  <2>1. ASSUME Placed = Ids, verdict = "cycle" PROVE FALSE
    <3>1. Acyclic
      BY <1>2, <1>3, <2>1 DEF Acyclic, PlacedAcyclic
    <3>2. IsCycle(cycle) /\ Len(cycle) \in Nat
      BY <2>1 DEF SearchInv, VerdictIsRight, CycleIsReal, OrderInv
    <3> QED
      BY <3>1, <3>2, CyclesBite
  <2>2. ASSUME Placed # Ids, verdict = "accepted" PROVE FALSE
    <3> DEFINE S == Ids \ Placed
    <3>1. S \in (SUBSET DOMAIN needs) \ {{}}
      BY <1>3, <2>2
    <3>2. Acyclic
      BY <2>2 DEF SearchInv, VerdictIsRight, AcceptedIsAcyclic
    <3>3. PICK s \in S : Needs(s) \cap S = {}
      BY <3>1, <3>2 DEF Acyclic
    <3>4. PICK i \in DOMAIN needs[s] : needs[s][i] \notin Placed
      BY <1>1, <1>2, <3>3 DEF QueuedRight, Missing
    <3>5. needs[s][i] \in Needs(s) /\ Needs(s) \subseteq Ids
      BY <1>2, <3>3, <3>4, SortsSound DEF Needs
    <3> QED
      BY <3>3, <3>4, <3>5
  <2> QED
    BY <1>2, <2>1, <2>2
<1>6. OrderIsRight'
  <2>1. sorting' = "sorted" => verdict = "accepted" /\ Placed = Ids
    BY <1>1, <1>3, <1>4, <1>5
  <2>2. sorting' = "raised" => verdict = "cycle"
    BY <1>1, <1>2, <1>3, <1>4, <1>5
  <2>3. Placed = Ids => \A s \in DOMAIN needs : \E i \in DOMAIN order : order[i] = s
    BY <1>3 DEF Placed
  <2>4. \A s : Needs(s)' = Needs(s)
    BY <1>1, SameNeeds
  <2> QED
    BY <1>1, <1>2, <2>1, <2>2, <2>3, <2>4 DEF OrderIsRight, InOrder, PlacedOnce
<1>7. /\ Ids' = Ids /\ Placed' = Placed /\ \A s : Missing(s)' = Missing(s) /\ Needs(s)' = Needs(s)
  BY <1>1, SameSteps, SameNeeds DEF Placed, Missing
<1>8. /\ Counted' /\ QueuedRight' /\ PlacedOnce' /\ PlacedClosed' /\ PlacedAcyclic' /\ InOrder'
  BY <1>1, <1>2, <1>7
     DEF Counted, QueuedRight, PlacedOnce, PlacedClosed, PlacedAcyclic, InOrder
<1> QED
  BY <1>1, <1>2, <1>6, <1>8 DEF OrderInv

LEMMA NothingOrder ==
    ASSUME OrderInv, UNCHANGED vars
    PROVE  OrderInv'
<1>1. UNCHANGED <<steps, verdict, needs, cycle, sorting, indegree, queue, order>>
  BY DEF vars, searchVars, sortVars
<1>2. /\ Ids' = Ids /\ Placed' = Placed /\ \A s : Missing(s)' = Missing(s) /\ Needs(s)' = Needs(s)
  BY <1>1, SameSteps, SameNeeds DEF Placed, Missing
<1>3. sorting # "no" =>
        Counted' /\ QueuedRight' /\ PlacedOnce' /\ PlacedClosed' /\ PlacedAcyclic' /\ InOrder'
  BY <1>1, <1>2
     DEF OrderInv, Counted, QueuedRight, PlacedOnce, PlacedClosed, PlacedAcyclic, InOrder
<1>4. OrderIsRight'
  BY <1>1, <1>2 DEF OrderInv, OrderIsRight
<1> QED
  BY <1>1, <1>3, <1>4 DEF OrderInv

\* topological_order, for any number of steps and any needs, some of them listed twice:
\* the order has every step after all it needs, and it raises for exactly the definitions
\* that detect_cycle refuses - two algorithms that find cycles in ways of their own.
THEOREM OrderCorrect == Spec => []OrderIsRight
<1>1. Init => OrderInv
  BY DEF Init, OrderInv, OrderIsRight
<1>2. SearchInv /\ OrderInv /\ [Next]_vars => OrderInv'
  <2> SUFFICES ASSUME SearchInv, OrderInv, [Next]_vars PROVE OrderInv'
    OBVIOUS
  <2>1. CASE BeginSort
    BY <2>1, BeginSortOrder
  <2>2. ASSUME NEW s \in DOMAIN needs, Place(s) PROVE OrderInv'
    BY <2>2, PlaceOrder
  <2>3. CASE EndSort
    BY <2>3, EndSortOrder
  <2>4. CASE UNCHANGED vars
    BY <2>4, NothingOrder
  <2> QED
    BY <2>1, <2>2, <2>3, <2>4, SearchingOrder DEF Next
<1>3. OrderInv => OrderIsRight
  BY DEF OrderInv
<1> QED
  BY <1>1, <1>2, <1>3, SearchInvariant, PTL DEF Spec
==============================================================================
