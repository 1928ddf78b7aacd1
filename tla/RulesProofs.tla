----------------------------- MODULE RulesProofs -----------------------------
(***************************************************************************)
(* The checks of a workflow that are proved for inputs of any size: the    *)
(* needs of its jobs, what is known of the conditions of its steps, and    *)
(* the scripts that are run directly.                                      *)
(***************************************************************************)
EXTENDS JobNeeds, Conditions, ExecutableBit, WellFoundedInduction, TLAPS

-----------------------------------------------------------------------------
(***************************************************************************)
(* JobNeeds                                                                *)
(*                                                                         *)
(* For workflows of any size: a cycle that Check reports is a cycle of the *)
(* workflow, and when it reports none although every need exists, the jobs *)
(* can be ordered.                                                         *)
(*                                                                         *)
(* The argument is the usual one for a depth-first search: the IDs in      *)
(* state 1 are the stack, the stack is a path, and everything an ID in     *)
(* state 2 needs has left the stack before it.                             *)
(***************************************************************************)

\* Nothing is searched before every job is declared.
Before ==
    phase = "declare" =>
        /\ stack = <<>> /\ cycle = <<>> /\ missing = {}
        /\ state = [i \in Ids |-> 0] /\ next = [i \in Ids |-> 1]

\* A graph that is searched has no dangling need.
Closed ==
    /\ phase # "declare" /\ missing = {} =>
         \A i \in Nodes, d \in Ids : Edge(i, d) => d \in Nodes
    /\ missing # {} => phase = "done" /\ cycle = <<>>

\* The IDs in state 1 are the stack, without repetitions.
OnStack ==
    /\ \A i \in Ids : state[i] = 1 <=> \E k \in 1..Len(stack) : stack[k] = i
    /\ \A j, k \in 1..Len(stack) : stack[j] = stack[k] => j = k

Path == \A k \in 1..(Len(stack) - 1) : Edge(stack[k], stack[k + 1])

\* What the loop of an ID on the stack has passed is in state 2, except for the
\* ID it descended to.
Passed ==
    /\ \A k \in 1..Len(stack), n \in Nat :
         1 <= n /\ n < next[stack[k]] /\ n <= Len(needs[stack[k]]) =>
           \/ state[needs[stack[k]][n]] = 2
           \/ k < Len(stack) /\ needs[stack[k]][n] = stack[k + 1]
    /\ \A i \in Ids : state[i] = 0 => next[i] = 1

\* What an ID in state 2 needs was finished before it.
Ordered ==
    \A i \in Ids :
        /\ finished[i] <= visits
        /\ state[i] = 2 =>
             \A d \in Ids : Edge(i, d) => state[d] = 2 /\ finished[d] < finished[i]

\* A cycle of needs without repetitions.
IsCycle(c) ==
    /\ c # <<>>
    /\ \A k \in 1..(Len(c) - 1) : Edge(c[k], c[k + 1])
    /\ Edge(c[Len(c)], c[1])
    /\ \A j, k \in 1..Len(c) : c[j] = c[k] => j = k

Verdict ==
    /\ phase = "search" => cycle = <<>>
    /\ phase = "report" => IsCycle(cycle)
    /\ phase = "done" /\ missing = {} /\ cycle = <<>> => \A i \in Nodes : state[i] = 2

IInv ==
    /\ TypeOK /\ Before /\ Closed /\ OnStack /\ Path /\ Passed /\ Ordered
    /\ Verdict /\ CycleIsReal

-----------------------------------------------------------------------------
\* What the type invariant says of the elements of the sequences.
LEMMA Types ==
    ASSUME TypeOK
    PROVE  /\ Nodes \subseteq Ids /\ Len(stack) \in Nat
           /\ \A k \in 1..Len(stack) : stack[k] \in Nodes /\ stack[k] \in Ids
           /\ \A i \in Ids : /\ Len(needs[i]) \in Nat
                            /\ \A n \in 1..Len(needs[i]) : needs[i][n] \in Ids
           /\ state \in [Ids -> 0..2] /\ next \in [Ids -> Nat \ {0}]
           /\ finished \in [Ids -> Nat] /\ visits \in Nat
           /\ stack # <<>> => /\ Len(stack) \in 1..Len(stack) /\ Top = stack[Len(stack)]
                              /\ Top \in Nodes /\ Top \in Ids
<1>1. Nodes \subseteq Ids
  BY DEF Nodes
<1>2. stack \in Seq(Nodes) /\ needs \in [Ids -> Seq(Ids)]
  BY DEF TypeOK
<1>3. Len(stack) \in Nat /\ \A k \in 1..Len(stack) : stack[k] \in Nodes
  <2> HIDE DEF Nodes
  <2> QED BY <1>2
<1>4. stack # <<>> => Len(stack) \in 1..Len(stack)
  <2> HIDE DEF Nodes
  <2> QED BY <1>2
<1>5. ASSUME NEW i \in Ids
      PROVE  Len(needs[i]) \in Nat /\ \A n \in 1..Len(needs[i]) : needs[i][n] \in Ids
  <2>1. needs[i] \in Seq(Ids)
    BY <1>2
  <2> QED
    BY <2>1
<1> QED
  BY <1>1, <1>3, <1>4, <1>5 DEF TypeOK, Top

\* A push of a node.
LEMMA Push ==
    ASSUME NEW S, NEW s \in Seq(S), NEW i \in S
    PROVE  /\ Append(s, i) \in Seq(S) /\ Len(Append(s, i)) = Len(s) + 1
           /\ \A k \in 1..Len(s) : Append(s, i)[k] = s[k]
           /\ Append(s, i)[Len(s) + 1] = i
  OBVIOUS

\* A pop.
LEMMA Pop ==
    ASSUME NEW S, NEW s \in Seq(S), s # <<>>
    PROVE  /\ SubSeq(s, 1, Len(s) - 1) \in Seq(S) /\ Len(SubSeq(s, 1, Len(s) - 1)) = Len(s) - 1
           /\ \A k \in 1..(Len(s) - 1) : SubSeq(s, 1, Len(s) - 1)[k] = s[k]
<1>1. Len(s) \in Nat \ {0}
  OBVIOUS
<1> DEFINE n == Len(s) - 1
<1>2. n \in 0..Len(s)
  BY <1>1
<1>3. \A k \in 1..n : s[k] \in S
  BY <1>1
<1> HIDE DEF n
<1>4. SubSeq(s, 1, n) = [k \in 1..n |-> s[k]]
  BY <1>1, <1>2
<1>5. SubSeq(s, 1, n) \in Seq(S) /\ Len(SubSeq(s, 1, n)) = n
  BY <1>2, <1>3, <1>4
<1>6. \A k \in 1..n : SubSeq(s, 1, n)[k] = s[k]
  BY <1>4
<1> QED
  BY <1>5, <1>6 DEF n

\* The end of a sequence, from k on.
LEMMA Suffix ==
    ASSUME NEW S, NEW s \in Seq(S), NEW k \in 1..Len(s)
    PROVE  /\ SubSeq(s, k, Len(s)) \in Seq(S) /\ Len(SubSeq(s, k, Len(s))) = Len(s) - k + 1
           /\ \A j \in 1..(Len(s) - k + 1) : SubSeq(s, k, Len(s))[j] = s[j + k - 1]
  OBVIOUS

\* A sequence that is rotated to start at f.
LEMMA Rotation ==
    ASSUME NEW S, NEW s \in Seq(S), NEW f \in 1..Len(s),
           NEW r, r = SubSeq(s, f, Len(s)) \o SubSeq(s, 1, f - 1)
    PROVE  /\ r \in Seq(S) /\ Len(r) = Len(s)
           /\ \A k \in 1..Len(s) :
                r[k] = IF k <= Len(s) - f + 1 THEN s[k + f - 1] ELSE s[k - (Len(s) - f + 1)]
<1>1. /\ SubSeq(s, f, Len(s)) \in Seq(S) /\ Len(SubSeq(s, f, Len(s))) = Len(s) - f + 1
      /\ \A k \in 1..(Len(s) - f + 1) : SubSeq(s, f, Len(s))[k] = s[k + f - 1]
  BY Suffix
<1>2. /\ SubSeq(s, 1, f - 1) \in Seq(S) /\ Len(SubSeq(s, 1, f - 1)) = f - 1
      /\ \A k \in 1..(f - 1) : SubSeq(s, 1, f - 1)[k] = s[k]
  OBVIOUS
<1> QED
  BY <1>1, <1>2

\* The invariant holds before the first job is read.
LEMMA InitIInv == Init => IInv
<1> SUFFICES ASSUME Init PROVE IInv
  OBVIOUS
<1>1. TypeOK
  BY DEF Init, TypeOK, Ids
<1>2. Before /\ Closed /\ OnStack /\ Path /\ Passed
  BY DEF Init, Before, Closed, OnStack, Path, Passed
<1>3. Ordered /\ Verdict /\ CycleIsReal
  BY DEF Init, Ordered, Verdict, CycleIsReal, Ids
<1> QED
  BY <1>1, <1>2, <1>3 DEF IInv

\* Reading a job changes no graph that is searched.
LEMMA DeclareStep ==
    ASSUME IInv, Declare
    PROVE  IInv'
<1>0. TypeOK /\ Before /\ Ordered
  BY DEF IInv
<1>1. PICK text \in Texts : ReadNeed(text) \/ DeclareJob(text)
  BY DEF Declare
<1>2. /\ phase = "declare" /\ phase' = "declare" /\ missing' = missing /\ UNCHANGED search
      /\ cycle' = cycle
  BY <1>1 DEF ReadNeed, DeclareJob
<1>3. /\ stack' = <<>> /\ cycle' = <<>> /\ missing' = {} /\ finished' = finished /\ visits' = visits
      /\ state' = [i \in Ids |-> 0] /\ next' = [i \in Ids |-> 1]
  BY <1>0, <1>2 DEF Before, search
<1>4. text = 0 \/ text \in Ids
  BY BoundsAssumption DEF Texts, Ids
<1>5. TypeOK'
  <2>1. stack' \in Seq(Nodes') /\ cycle' \in Seq(Nodes')
    BY <1>3
  <2>2. state' \in [Ids -> 0..2] /\ next' \in [Ids -> Nat \ {0}]
    BY <1>3
  <2>3. CASE ReadNeed(text)
    <3>1. current' \in Seq(Ids)
      <4>1. current' = current \/ (text \in Ids /\ current' = Append(current, text))
        BY <1>4, <2>3 DEF ReadNeed
      <4>2. current \in Seq(Ids)
        BY <1>0 DEF TypeOK
      <4> QED
        BY <4>1, <4>2, Push
    <3>2. line' = line /\ read' = read + 1 /\ start' = start /\ needs' = needs
      BY <2>3 DEF ReadNeed
    <3> QED
      BY <1>0, <1>2, <1>3, <2>1, <2>2, <3>1, <3>2 DEF TypeOK
  <2>4. CASE DeclareJob(text)
    <3>1. start' \in [Ids -> Nat] /\ needs' \in [Ids -> Seq(Ids)]
      BY <1>0, <1>4, <2>4 DEF TypeOK, DeclareJob
    <3>2. line' \in Nat \ {0} /\ read' \in Nat /\ current' \in Seq(Ids)
      BY <1>0, <2>4 DEF TypeOK, DeclareJob
    <3> QED
      BY <1>0, <1>2, <1>3, <2>1, <2>2, <3>1, <3>2 DEF TypeOK
  <2> QED
    BY <1>1, <2>3, <2>4
<1>6. Before' /\ Closed' /\ OnStack' /\ Path' /\ Passed'
  BY <1>2, <1>3 DEF Before, Closed, OnStack, Path, Passed
<1>7. Ordered' /\ Verdict' /\ CycleIsReal'
  BY <1>0, <1>2, <1>3 DEF Ordered, Verdict, CycleIsReal
<1> QED
  BY <1>5, <1>6, <1>7 DEF IInv

\* The search starts on a graph whose needs all exist.
LEMMA ResolveStep ==
    ASSUME IInv, Resolve
    PROVE  IInv'
<1>0. TypeOK /\ Before /\ OnStack /\ Path /\ Passed /\ Ordered
  BY DEF IInv
<1> USE DEF Resolve, declarations, search
<1>1. Nodes' = Nodes /\ \A i, d \in Ids : Edge(i, d)' <=> Edge(i, d)
  BY DEF Nodes, Edge
<1>2. TypeOK'
  BY <1>0, <1>1 DEF TypeOK
<1>3. Closed'
  <2>1. Nodes \subseteq Ids
    BY DEF Nodes
  <2>2. ASSUME missing' = {}, NEW i \in Nodes, NEW d \in Ids, Edge(i, d) PROVE d \in Nodes
    <3>1. <<i, d>> \notin missing'
      BY <2>2
    <3> QED
      BY <2>2, <3>1
  <2>3. missing' # {} => phase' = "done" /\ cycle' = <<>>
    BY <1>0 DEF Before
  <2> QED
    BY <1>1, <2>1, <2>2, <2>3 DEF Closed
<1>4. Before' /\ OnStack' /\ Path' /\ Passed' /\ Ordered'
  BY <1>0, <1>1 DEF Before, OnStack, Path, Passed, Ordered, Edge
<1>5. Verdict' /\ CycleIsReal'
  BY <1>0, <1>3 DEF Before, Closed, Verdict, CycleIsReal
<1> QED
  BY <1>2, <1>3, <1>4, <1>5 DEF IInv

\* While the search runs the graph does not change.
LEMMA GraphIsFixed ==
    ASSUME UNCHANGED declarations
    PROVE  Nodes' = Nodes /\ \A i, d : Edge(i, d)' <=> Edge(i, d)
  BY DEF declarations, Nodes, Edge

\* visit is called for i: from the loop over the keys, or for a need of the top.
LEMMA EnterStep ==
    ASSUME IInv, VisitKey \/ Descend
    PROVE  IInv'
<1>0. TypeOK /\ Before /\ Closed /\ OnStack /\ Path /\ Passed /\ Ordered /\ Verdict
  BY DEF IInv
<1> USE DEF declarations
<1>1. Nodes' = Nodes /\ \A i, d : Edge(i, d)' <=> Edge(i, d)
  BY GraphIsFixed DEF VisitKey, Descend
<1>2. PICK i \in Nodes :
        /\ state[i] = 0
        /\ state' = [state EXCEPT ![i] = 1] /\ stack' = Append(stack, i)
        /\ \/ stack = <<>> /\ next' = next
           \/ /\ stack # <<>> /\ MoreNeeds /\ i = Dep
              /\ next' = [next EXCEPT ![Top] = @ + 1]
  <2>1. CASE VisitKey
    BY <2>1 DEF VisitKey, Enter
  <2>2. CASE Descend
    <3>1. Top \in Nodes /\ Top \in Ids
      BY <1>0, <2>2 DEF TypeOK, Descend, Visiting, Top, Nodes
    <3>2. Dep \in Ids /\ Edge(Top, Dep)
      BY <1>0, <2>2, <3>1 DEF TypeOK, Descend, MoreNeeds, Dep, Edge
    <3>3. Dep \in Nodes
      BY <1>0, <2>2, <3>1, <3>2 DEF Closed, Descend, Visiting
    <3> QED
      BY <2>2, <3>3 DEF Descend, Enter, Visiting
  <2> QED
    BY <2>1, <2>2
<1>3. /\ phase = "search" /\ phase' = phase /\ missing' = missing /\ cycle' = cycle
      /\ finished' = finished /\ visits' = visits /\ needs' = needs /\ start' = start
      /\ line' = line /\ read' = read /\ current' = current
  BY DEF VisitKey, Descend, Visiting
<1>a. /\ stack' \in Seq(Nodes) /\ Len(stack') = Len(stack) + 1
      /\ \A k \in 1..Len(stack) : stack'[k] = stack[k]
      /\ stack'[Len(stack) + 1] = i
  BY <1>0, <1>2, Push DEF TypeOK
<1>4. /\ i \in Ids /\ Len(stack) \in Nat /\ Len(stack') = Len(stack) + 1
      /\ \A k \in 1..Len(stack) : stack'[k] = stack[k] /\ stack[k] \in Ids
      /\ stack'[Len(stack) + 1] = i
      /\ \A k \in 1..Len(stack) : stack[k] # i
      /\ stack # <<>> => Len(stack) \in 1..Len(stack) /\ Top = stack[Len(stack)] /\ Top \in Ids
  <2>1. i \in Ids /\ \A k \in 1..Len(stack) : stack[k] # i
    <3>1. i \in Ids /\ state[i] # 1
      BY <1>0, <1>2 DEF Nodes
    <3> QED
      BY <3>1, <1>0 DEF OnStack
  <2> QED
    BY <1>0, <1>a, <2>1, Types
<1>5. TypeOK'
  <2>2. next' \in [Ids -> Nat \ {0}] /\ state' \in [Ids -> 0..2]
    BY <1>0, <1>2, <1>4, Types
  <2> QED
    BY <1>0, <1>1, <1>3, <1>a, <2>2 DEF TypeOK
<1>6. Before' /\ Closed' /\ Verdict' /\ CycleIsReal'
  BY <1>0, <1>1, <1>3 DEF Before, Closed, Verdict, CycleIsReal
<1>7. OnStack'
  <2>1. \A j \in Ids : state'[j] = IF j = i THEN 1 ELSE state[j]
    BY <1>0, <1>2, Types
  <2>2. 1..Len(stack') = 1..Len(stack) \cup {Len(stack) + 1}
    BY <1>4
  <2> QED
    BY <1>0, <1>4, <2>1, <2>2 DEF OnStack
<1>8. Path'
  <2>1. stack # <<>> => Edge(stack[Len(stack)], i)
    BY <1>0, <1>2, <1>4, Types DEF MoreNeeds, Dep, Edge
  <2> QED
    BY <1>0, <1>1, <1>4, <2>1 DEF Path
<1>9. Passed'
  <2>1. \A j \in Ids : state[j] = 2 <=> state'[j] = 2
    BY <1>0, <1>2, <1>4, Types
  <2>2. next'[i] = 1
    BY <1>0, <1>2, <1>4, Types DEF Passed
  <2>3. ASSUME NEW k \in 1..Len(stack'), NEW n \in Nat, 1 <= n, n < next'[stack'[k]],
               n <= Len(needs'[stack'[k]])
        PROVE  \/ state'[needs'[stack'[k]][n]] = 2
               \/ k < Len(stack') /\ needs'[stack'[k]][n] = stack'[k + 1]
    <3>1. CASE k = Len(stack) + 1
      BY <1>4, <2>2, <2>3, <3>1
    <3>2. CASE k < Len(stack)
      <4>1. stack'[k] = stack[k] /\ stack'[k + 1] = stack[k + 1] /\ next'[stack[k]] = next[stack[k]]
        <5>1. k \in 1..Len(stack) /\ k + 1 \in 1..Len(stack)
          BY <1>4, <3>2
        <5>2. stack # <<>> => stack[k] # Top
          BY <1>0, <1>4, <3>2, <5>1 DEF OnStack
        <5> QED
          BY <1>0, <1>2, <1>4, <5>1, <5>2, Types
      <4>2. needs[stack[k]][n] \in Ids
        BY <1>0, <1>3, <1>4, <2>3, <3>2, <4>1, Types
      <4>3. k \in 1..Len(stack) /\ n < next[stack[k]] /\ n <= Len(needs[stack[k]])
        BY <1>3, <1>4, <2>3, <3>2, <4>1
      <4>4. state[needs[stack[k]][n]] = 2 \/ needs[stack[k]][n] = stack[k + 1]
        BY <1>0, <2>3, <4>3 DEF Passed
      <4> QED
        BY <1>3, <1>4, <2>1, <3>2, <4>1, <4>2, <4>4
    <3>3. CASE k = Len(stack)
      <4>1. stack # <<>> /\ stack'[k] = Top /\ stack[k] = Top /\ Top \in Ids
        BY <1>4, <3>3 DEF Top
      <4>2. next'[Top] = next[Top] + 1 /\ i = needs[Top][next[Top]] /\ next[Top] \in Nat
        BY <1>0, <1>2, <4>1, Types DEF Dep
      <4>3. CASE n = next[Top]
        BY <1>3, <1>4, <3>3, <4>1, <4>2, <4>3
      <4>4. CASE n < next[Top]
        <5>1. needs[Top][n] \in Ids
          BY <1>0, <1>3, <2>3, <4>1, Types
        <5>2. state[needs[Top][n]] = 2
          BY <1>0, <1>3, <2>3, <3>3, <4>1, <4>4 DEF Passed
        <5> QED
          BY <1>3, <2>1, <4>1, <5>1, <5>2
      <4> QED
        BY <2>3, <4>1, <4>2, <4>3, <4>4
    <3> QED
      BY <1>4, <3>1, <3>2, <3>3
  <2>4. \A j \in Ids : state'[j] = 0 => next'[j] = 1
    BY <1>0, <1>2, <1>4, Types DEF Passed, OnStack
  <2> QED
    BY <2>3, <2>4 DEF Passed
<1>10. Ordered'
  BY <1>0, <1>1, <1>2, <1>3, <1>4, Types DEF Ordered
<1> QED
  BY <1>5, <1>6, <1>7, <1>8, <1>9, <1>10 DEF IInv

\* The loop of the top passes an ID that was visited.
LEMMA SkipStep ==
    ASSUME IInv, Skip
    PROVE  IInv'
<1>0. TypeOK /\ Before /\ Closed /\ OnStack /\ Path /\ Passed /\ Ordered /\ Verdict /\ CycleIsReal
  BY DEF IInv
<1> USE DEF declarations
<1>1. Nodes' = Nodes /\ \A i, d : Edge(i, d)' <=> Edge(i, d)
  BY GraphIsFixed DEF Skip
<1>2. /\ phase = "search" /\ stack # <<>> /\ state[Dep] = 2
      /\ next' = [next EXCEPT ![Top] = @ + 1]
      /\ UNCHANGED <<declarations, phase, missing, state, stack, finished, visits, cycle>>
  BY DEF Skip, Visiting
<1>3. Top \in Ids /\ next[Top] \in Nat \ {0}
  BY <1>0, <1>2, Types
<1>4. TypeOK'
  <2>1. next' \in [Ids -> Nat \ {0}]
    BY <1>0, <1>2, <1>3, Types
  <2> QED
    BY <1>0, <1>1, <1>2, <2>1 DEF TypeOK
<1>5. Before' /\ Closed' /\ Verdict' /\ CycleIsReal'
  BY <1>0, <1>1, <1>2 DEF Before, Closed, Verdict, CycleIsReal
<1>6. OnStack' /\ Path' /\ Ordered'
  BY <1>0, <1>1, <1>2 DEF OnStack, Path, Ordered
<1>7. Passed'
  <2>1. ASSUME NEW k \in 1..Len(stack), NEW n \in Nat, 1 <= n, n < next'[stack[k]],
               n <= Len(needs[stack[k]])
        PROVE  \/ state[needs[stack[k]][n]] = 2
               \/ k < Len(stack) /\ needs[stack[k]][n] = stack[k + 1]
    <3>1. CASE stack[k] = Top /\ n = next[Top]
      BY <1>2, <3>1 DEF Dep
    <3>2. CASE ~(stack[k] = Top /\ n = next[Top])
      <4>1. n < next[stack[k]]
        BY <1>0, <1>2, <1>3, <2>1, <3>2, Types
      <4> QED
        BY <1>0, <2>1, <4>1 DEF Passed
    <3> QED
      BY <3>1, <3>2
  <2>2. \A j \in Ids : state[j] = 0 => next'[j] = 1
    <3>1. state[Top] = 1
      BY <1>0, <1>2, Types DEF OnStack
    <3> QED
      BY <1>0, <1>2, <1>3, <3>1, Types DEF Passed
  <2> QED
    BY <1>2, <2>1, <2>2 DEF Passed
<1> QED
  BY <1>4, <1>5, <1>6, <1>7 DEF IInv

\* visit returns FALSE: everything the top needs is in state 2.
LEMMA FinishStep ==
    ASSUME IInv, Finish
    PROVE  IInv'
<1>0. TypeOK /\ Before /\ Closed /\ OnStack /\ Path /\ Passed /\ Ordered /\ Verdict /\ CycleIsReal
  BY DEF IInv
<1> USE DEF declarations
<1>1. Nodes' = Nodes /\ \A i, d : Edge(i, d)' <=> Edge(i, d)
  BY GraphIsFixed DEF Finish
<1>2. /\ phase = "search" /\ stack # <<>> /\ ~MoreNeeds
      /\ stack' = SubSeq(stack, 1, Len(stack) - 1)
      /\ state' = [state EXCEPT ![Top] = 2]
      /\ visits' = visits + 1 /\ finished' = [finished EXCEPT ![Top] = visits + 1]
      /\ UNCHANGED <<declarations, phase, missing, next, cycle>>
  BY DEF Finish, Visiting
<1>3. /\ Top \in Ids /\ Top \in Nodes /\ Len(stack) \in Nat \ {0} /\ Top = stack[Len(stack)]
      /\ state[Top] = 1
  BY <1>0, <1>2, Types DEF OnStack
<1>4. /\ stack' \in Seq(Nodes) /\ Len(stack') = Len(stack) - 1
      /\ \A k \in 1..(Len(stack) - 1) : stack'[k] = stack[k] /\ stack[k] # Top
  <2>1. /\ stack' \in Seq(Nodes) /\ Len(stack') = Len(stack) - 1
        /\ \A k \in 1..(Len(stack) - 1) : stack'[k] = stack[k]
    BY <1>0, <1>2, Pop DEF TypeOK
  <2> QED
    BY <1>0, <1>3, <2>1 DEF OnStack
<1>5. TypeOK'
  <2>1. state' \in [Ids -> 0..2] /\ finished' \in [Ids -> Nat] /\ visits' \in Nat
    BY <1>0, <1>2, <1>3, Types
  <2> QED
    BY <1>0, <1>1, <1>2, <1>4, <2>1 DEF TypeOK
<1>6. Before' /\ Closed' /\ Verdict' /\ CycleIsReal'
  BY <1>0, <1>1, <1>2 DEF Before, Closed, Verdict, CycleIsReal
<1>7. OnStack'
  <2>1. \A j \in Ids : state'[j] = IF j = Top THEN 2 ELSE state[j]
    BY <1>0, <1>2, Types
  <2>2. 1..Len(stack) = 1..Len(stack') \cup {Len(stack)}
    BY <1>3, <1>4
  <2>3. ASSUME NEW j \in Ids
        PROVE  state'[j] = 1 <=> \E k \in 1..Len(stack') : stack'[k] = j
    <3>1. state[j] = 1 <=> \E k \in 1..Len(stack) : stack[k] = j
      BY <1>0 DEF OnStack
    <3>2. \A k \in 1..Len(stack') : k \in 1..Len(stack) /\ stack'[k] = stack[k] /\ stack[k] # Top
      BY <1>3, <1>4, <2>2
    <3>3. stack[Len(stack)] = Top
      BY <1>3
    <3> QED
      BY <2>1, <2>2, <3>1, <3>2, <3>3
  <2>4. \A j, k \in 1..Len(stack') : stack'[j] = stack'[k] => j = k
    BY <1>0, <1>3, <1>4, <2>2 DEF OnStack
  <2> QED
    BY <2>3, <2>4 DEF OnStack
<1>8. Path'
  BY <1>0, <1>1, <1>3, <1>4 DEF Path
<1>9. \A d \in Ids : Edge(Top, d) => state[d] = 2
  <2> SUFFICES ASSUME NEW n \in 1..Len(needs[Top]) PROVE state[needs[Top][n]] = 2
    BY DEF Edge
  <2>1. n < next[Top] /\ n \in Nat /\ 1 <= n /\ n <= Len(needs[Top])
    BY <1>0, <1>2, <1>3, Types DEF MoreNeeds
  <2> QED
    BY <1>0, <1>3, <2>1 DEF Passed
<1>10. Passed'
  <2>1. ASSUME NEW k \in 1..(Len(stack) - 1), NEW n \in Nat, 1 <= n, n < next[stack[k]],
               n <= Len(needs[stack[k]])
        PROVE  \/ state'[needs[stack[k]][n]] = 2
               \/ k < Len(stack) - 1 /\ needs[stack[k]][n] = stack[k + 1]
    <3>1. k \in 1..Len(stack) /\ needs[stack[k]][n] \in Ids
      BY <1>0, <1>3, <2>1, Types
    <3>2. \/ state[needs[stack[k]][n]] = 2
          \/ needs[stack[k]][n] = stack[k + 1]
      BY <1>0, <2>1, <3>1 DEF Passed
    <3>3. state'[Top] = 2 /\ \A j \in Ids : state[j] = 2 => state'[j] = 2
      BY <1>0, <1>2, <1>3, Types
    <3>4. CASE k = Len(stack) - 1
      BY <1>3, <3>1, <3>2, <3>3, <3>4
    <3>5. CASE k < Len(stack) - 1
      BY <3>1, <3>2, <3>3, <3>5
    <3> QED
      BY <1>3, <2>1, <3>4, <3>5
  <2>2. \A j \in Ids : state'[j] = 0 => next[j] = 1
    BY <1>0, <1>2, <1>3, Types DEF Passed
  <2>3. \A k \in 1..Len(stack') : k \in 1..(Len(stack) - 1) /\ stack'[k] = stack[k]
    BY <1>3, <1>4
  <2>4. \A k \in 1..Len(stack') : k < Len(stack') => stack'[k + 1] = stack[k + 1]
    BY <1>3, <1>4
  <2>5. next' = next /\ needs' = needs
    BY <1>2
  <2> QED
    BY <1>4, <2>1, <2>2, <2>3, <2>4, <2>5 DEF Passed
<1>11. Ordered'
  <2>1. \A j \in Ids : state'[j] = IF j = Top THEN 2 ELSE state[j]
    BY <1>0, <1>2, Types
  <2>2. \A j \in Ids : finished'[j] = IF j = Top THEN visits + 1 ELSE finished[j]
    BY <1>0, <1>2, Types
  <2>3. \A j \in Ids : finished[j] <= visits /\ finished[j] \in Nat
    BY <1>0, Types DEF Ordered
  <2>4. ASSUME NEW j \in Ids, state'[j] = 2, NEW d \in Ids, Edge(j, d)
        PROVE  state'[d] = 2 /\ finished'[d] < finished'[j]
    <3>1. CASE j = Top
      BY <1>0, <1>3, <1>9, <2>1, <2>2, <2>3, <2>4, <3>1, Types
    <3>2. CASE j # Top
      <4>1. state[d] = 2 /\ finished[d] < finished[j]
        BY <1>0, <2>1, <2>4, <3>2 DEF Ordered
      <4> QED
        BY <1>3, <2>1, <2>2, <3>2, <4>1
    <3> QED
      BY <3>1, <3>2
  <2>5. \A j \in Ids : finished'[j] <= visits'
    BY <1>0, <1>2, <2>2, <2>3, Types
  <2> QED
    BY <1>1, <2>4, <2>5 DEF Ordered
<1> QED
  BY <1>5, <1>6, <1>7, <1>8, <1>10, <1>11 DEF IInv

\* The top needs an ID of the stack: the stack from there on is a cycle.
LEMMA FoundStep ==
    ASSUME IInv, Found
    PROVE  IInv'
<1>0. TypeOK /\ Before /\ Closed /\ OnStack /\ Path /\ Passed /\ Ordered /\ Verdict
  BY DEF IInv
<1> USE DEF declarations
<1>1. Nodes' = Nodes /\ \A i, d : Edge(i, d)' <=> Edge(i, d)
  BY GraphIsFixed DEF Found
<1>2. /\ phase = "search" /\ stack # <<>> /\ MoreNeeds /\ phase' = "report"
      /\ UNCHANGED <<declarations, missing, search>>
  BY DEF Found, Visiting
<1>3. PICK k \in 1..Len(stack) : stack[k] = Dep /\ cycle' = SubSeq(stack, k, Len(stack))
  BY DEF Found
<1>4. /\ cycle' \in Seq(Nodes) /\ Len(cycle') = Len(stack) - k + 1
      /\ \A j \in 1..(Len(stack) - k + 1) : cycle'[j] = stack[j + k - 1]
  BY <1>0, <1>3, Suffix DEF TypeOK
<1>5. Len(stack) \in Nat \ {0} /\ Edge(stack[Len(stack)], stack[k])
  <2>1. Len(stack) \in Nat \ {0} /\ Top = stack[Len(stack)] /\ Top \in Ids
    BY <1>0, <1>2, Types
  <2>2. next[Top] \in 1..Len(needs[Top])
    BY <1>0, <1>2, <2>1, Types DEF MoreNeeds
  <2> QED
    BY <1>3, <2>1, <2>2 DEF Dep, Edge
<1>6. IsCycle(cycle')
  <2>1. cycle' # <<>>
    BY <1>4, <1>5
  <2>2. \A j \in 1..(Len(cycle') - 1) : Edge(cycle'[j], cycle'[j + 1])
    <3> SUFFICES ASSUME NEW j \in 1..(Len(cycle') - 1) PROVE Edge(cycle'[j], cycle'[j + 1])
      OBVIOUS
    <3>1. j + k - 1 \in 1..(Len(stack) - 1) /\ cycle'[j] = stack[j + k - 1]
      BY <1>4, <1>5
    <3>2. j + 1 \in 1..(Len(stack) - k + 1) /\ (j + 1) + k - 1 = (j + k - 1) + 1
      BY <1>4, <1>5
    <3>3. cycle'[j + 1] = stack[(j + 1) + k - 1]
      BY <1>4, <3>2
    <3> QED
      BY <1>0, <3>1, <3>2, <3>3 DEF Path
  <2>3. Edge(cycle'[Len(cycle')], cycle'[1])
    <3>1. cycle'[Len(cycle')] = stack[Len(stack)] /\ cycle'[1] = stack[k]
      BY <1>4, <1>5
    <3> QED
      BY <1>5, <3>1
  <2>4. \A i, j \in 1..Len(cycle') : cycle'[i] = cycle'[j] => i = j
    BY <1>0, <1>4, <1>5 DEF OnStack
  <2> QED
    BY <2>1, <2>2, <2>3, <2>4 DEF IsCycle
<1>7. TypeOK' /\ Before' /\ OnStack' /\ Path' /\ Passed' /\ Ordered'
  BY <1>0, <1>1, <1>2, <1>4 DEF TypeOK, Before, OnStack, Path, Passed, Ordered, search
<1>8. Closed' /\ Verdict' /\ CycleIsReal'
  <2>1. IsCycle(cycle)'
    BY <1>1, <1>6 DEF IsCycle
  <2> QED
    BY <1>0, <1>1, <1>2, <2>1 DEF Closed, Verdict, CycleIsReal
<1> QED
  BY <1>7, <1>8 DEF IInv

\* No ID is left: all of them are in state 2.
LEMMA NothingLeftStep ==
    ASSUME IInv, NothingLeft
    PROVE  IInv'
<1>0. TypeOK /\ Before /\ Closed /\ OnStack /\ Path /\ Passed /\ Ordered /\ Verdict
  BY DEF IInv
<1> USE DEF declarations
<1>1. Nodes' = Nodes /\ \A i, d : Edge(i, d)' <=> Edge(i, d)
  BY GraphIsFixed DEF NothingLeft
<1>2. /\ phase = "search" /\ phase' = "done" /\ stack = <<>> /\ cycle' = cycle
      /\ UNCHANGED <<declarations, missing, search>>
  BY DEF NothingLeft
<1>3. \A i \in Nodes : state[i] = 2
  <2>1. \A i \in Nodes : i \in Ids /\ state[i] \in 0..2 /\ state[i] # 1 /\ state[i] # 0
    BY <1>0, <1>2, Types DEF OnStack, NothingLeft
  <2> QED
    BY <2>1
<1>4. TypeOK' /\ Before' /\ OnStack' /\ Path' /\ Passed' /\ Ordered'
  BY <1>0, <1>1, <1>2 DEF TypeOK, Before, OnStack, Path, Passed, Ordered, search
<1>5. Closed' /\ Verdict' /\ CycleIsReal'
  BY <1>0, <1>1, <1>2, <1>3 DEF Closed, Verdict, CycleIsReal, search
<1> QED
  BY <1>4, <1>5 DEF IInv

\* A rotated cycle is a cycle.
LEMMA ReportStep ==
    ASSUME IInv, Report
    PROVE  IInv'
<1>0. TypeOK /\ Before /\ Closed /\ OnStack /\ Path /\ Passed /\ Ordered /\ Verdict
  BY DEF IInv
<1> USE DEF declarations
<1>1. Nodes' = Nodes /\ \A i, d : Edge(i, d)' <=> Edge(i, d)
  BY GraphIsFixed DEF Report
<1>2. /\ phase = "report" /\ phase' = "done" /\ IsCycle(cycle) /\ cycle \in Seq(Nodes)
      /\ UNCHANGED <<declarations, missing, search>>
  BY <1>0 DEF Report, Verdict, TypeOK
<1>3. PICK f \in 1..Len(cycle) :
        /\ \A k \in 1..Len(cycle) : start[cycle[f]] <= start[cycle[k]]
        /\ cycle' = SubSeq(cycle, f, Len(cycle)) \o SubSeq(cycle, 1, f - 1)
  BY DEF Report
<1> DEFINE at(k) == IF k <= Len(cycle) - f + 1 THEN k + f - 1 ELSE k - (Len(cycle) - f + 1)
<1>4. /\ cycle' \in Seq(Nodes) /\ Len(cycle') = Len(cycle) /\ Len(cycle) \in Nat \ {0}
      /\ \A k \in 1..Len(cycle) : cycle'[k] = cycle[at(k)] /\ at(k) \in 1..Len(cycle)
  BY <1>2, <1>3, Rotation DEF IsCycle
<1>4a. Len(cycle') = Len(cycle) /\ Len(cycle) \in Nat /\ f \in 1..Len(cycle)
  BY <1>3, <1>4
<1>5. CycleIsReal'
  <2>1. ASSUME NEW k \in 1..(Len(cycle') - 1) PROVE Edge(cycle'[k], cycle'[k + 1])
    <3>1. \/ at(k) < Len(cycle) /\ at(k + 1) = at(k) + 1
          \/ at(k) = Len(cycle) /\ at(k + 1) = 1
      BY <1>4a, <2>1
    <3>2. cycle'[k] = cycle[at(k)] /\ cycle'[k + 1] = cycle[at(k + 1)] /\ at(k) \in 1..Len(cycle)
      <4>1. k \in 1..Len(cycle) /\ k + 1 \in 1..Len(cycle)
        BY <1>4a, <2>1
      <4> HIDE DEF at
      <4> QED
        BY <1>4, <4>1
    <3> HIDE DEF at
    <3>3. CASE at(k) < Len(cycle) /\ at(k + 1) = at(k) + 1
      <4>1. at(k) \in 1..(Len(cycle) - 1)
        BY <1>4, <3>2, <3>3
      <4>2. Edge(cycle[at(k)], cycle[at(k) + 1])
        BY <1>2, <4>1 DEF IsCycle
      <4> QED
        BY <3>2, <3>3, <4>2
    <3>4. CASE at(k) = Len(cycle) /\ at(k + 1) = 1
      <4>1. Edge(cycle[at(k)], cycle[at(k + 1)])
        BY <1>2, <3>4 DEF IsCycle
      <4> QED
        BY <3>2, <4>1
    <3> QED
      BY <3>1, <3>3, <3>4
  <2>2. Edge(cycle'[Len(cycle')], cycle'[1])
    <3>1. \/ at(Len(cycle)) < Len(cycle) /\ at(1) = at(Len(cycle)) + 1
          \/ at(Len(cycle)) = Len(cycle) /\ at(1) = 1
      BY <1>4a
    <3>2. /\ cycle'[Len(cycle)] = cycle[at(Len(cycle))] /\ cycle'[1] = cycle[at(1)]
          /\ at(Len(cycle)) \in 1..Len(cycle)
      BY <1>4
    <3> HIDE DEF at
    <3> QED
      BY <1>2, <1>4, <3>1, <3>2 DEF IsCycle
  <2>3. ASSUME NEW j \in 1..Len(cycle'), NEW k \in 1..Len(cycle'), cycle'[j] = cycle'[k]
        PROVE  j = k
    <3>1. at(j) = at(k)
      BY <1>2, <1>4, <2>3 DEF IsCycle
    <3> QED
      BY <1>4a, <2>3, <3>1
  <2>4. at(1) = f /\ 1 \in 1..Len(cycle)
    BY <1>4a
  <2>5. ASSUME NEW k \in 1..Len(cycle') PROVE start[cycle'[1]] <= start[cycle'[k]]
    <3>1. cycle'[1] = cycle[f] /\ cycle'[k] = cycle[at(k)] /\ at(k) \in 1..Len(cycle)
      BY <1>4, <1>4a, <2>4
    <3> HIDE DEF at
    <3> QED
      BY <1>3, <3>1
  <2>6. start' = start
    BY <1>2
  <2> QED
    BY <1>1, <2>1, <2>2, <2>3, <2>5, <2>6 DEF CycleIsReal
<1>6. TypeOK' /\ Before' /\ OnStack' /\ Path' /\ Passed' /\ Ordered'
  BY <1>0, <1>1, <1>2, <1>4 DEF TypeOK, Before, OnStack, Path, Passed, Ordered, search
<1>7. Closed' /\ Verdict'
  <2>1. cycle' # <<>>
    BY <1>4
  <2> QED
    BY <1>0, <1>1, <1>2, <2>1 DEF Closed, Verdict
<1> QED
  BY <1>5, <1>6, <1>7 DEF IInv

\* Every step of Check keeps the invariant.
LEMMA IInvStep == IInv /\ [Next]_vars => IInv'
<1> SUFFICES ASSUME IInv, [Next]_vars PROVE IInv'
  OBVIOUS
<1>1. CASE Declare \/ Resolve \/ Report
  BY <1>1, DeclareStep, ResolveStep, ReportStep
<1>2. CASE Search
  BY <1>2, EnterStep, SkipStep, FinishStep, FoundStep, NothingLeftStep DEF Search
<1>3. CASE UNCHANGED vars
  <2>1. Nodes' = Nodes /\ \A i, d : Edge(i, d)' <=> Edge(i, d)
    BY <1>3, GraphIsFixed DEF vars
  <2>2. TypeOK' /\ Before' /\ Closed'
    BY <1>3, <2>1 DEF IInv, vars, declarations, search, TypeOK, Before, Closed
  <2>5. OnStack' /\ Path'
    BY <1>3, <2>1 DEF IInv, vars, declarations, search, OnStack, Path
  <2>3. Passed' /\ Ordered'
    BY <1>3, <2>1 DEF IInv, vars, declarations, search, Passed, Ordered
  <2>4. Verdict' /\ CycleIsReal'
    BY <1>3, <2>1 DEF IInv, vars, declarations, search, Verdict, CycleIsReal, IsCycle
  <2> QED
    BY <2>2, <2>3, <2>4, <2>5 DEF IInv
<1> QED
  BY <1>1, <1>2, <1>3 DEF Next

\* The invariant holds in every state of Check.
LEMMA IInvHolds == Spec => []IInv
  BY InitIInv, IInvStep, PTL DEF Spec

\* The order in which visits end is an order in which the jobs can run.
LEMMA FinishedIsRank == IInv => NoCycleMissed
<1> SUFFICES ASSUME IInv, phase = "done", missing = {}, cycle = <<>>
             PROVE  \E r \in [Ids -> 0..visits] : IsRank(r)
  BY DEF NoCycleMissed
<1>0. TypeOK /\ Ordered /\ Verdict
  BY DEF IInv
<1>1. finished \in [Ids -> 0..visits]
  BY <1>0, Types DEF Ordered
<1>2. IsRank(finished)
  BY <1>0, Types DEF IsRank, Ordered, Verdict
<1> QED
  BY <1>1, <1>2

\* Every state of Check is well formed; in particular visit only enters and
\* reports IDs that have a node.
THEOREM TypeCorrect == Spec => []TypeOK
  BY IInvHolds, PTL DEF IInv

\* Check reports only cycles that the workflow has.
THEOREM ReportedCyclesAreReal == Spec => []CycleIsReal
  BY IInvHolds, PTL DEF IInv

\* When Check reports neither a missing need nor a cycle, the jobs can run.
THEOREM NoCycleIsMissed == Spec => []NoCycleMissed
  BY IInvHolds, FinishedIsRank, PTL

-----------------------------------------------------------------------------
(***************************************************************************)
(* Conditions                                                              *)
(*                                                                         *)
(* For expressions of any size, contexts with any contents: a condition    *)
(* that is said to skip a step never lets it run, one that is said to run  *)
(* it does when nothing failed before, and what is said of failures holds. *)
(*                                                                         *)
(* The invariant says of every operand on the stack what each part of its  *)
(* summary promises about the value that the runner computes; an operator  *)
(* that is applied to sound summaries returns a sound one.                 *)
(***************************************************************************)

\* What the analysis can say of an expression.
Summaries ==
  [value : [Env -> Literals], const : Literals \cup {"unknown"},
   truth : [Env -> {"yes", "no", "unknown"}],
   calls : BOOLEAN, requires : BOOLEAN, success : BOOLEAN]

\* What each of its parts promises about the value that the runner computes.
Sound(x) ==
  /\ x.const # "unknown" => \A e \in Env : x.value[e] = x.const
  /\ \A e \in Env : /\ x.truth[e] = "yes" => Truthy(x.value[e])
                    /\ x.truth[e] = "no" => ~Truthy(x.value[e])
  /\ x.requires => \A e \in Env : Truthy(x.value[e]) => e.status = "success"
  /\ x.success => /\ x.calls
                  /\ \A e \in Env : Truthy(x.value[e]) <=> e.status = "success"

SoundSummaries == {x \in Summaries : Sound(x)}

AllSound == operands \in Seq(SoundSummaries)

-----------------------------------------------------------------------------
\* A literal is known.
LEMMA LiteralSound == ASSUME NEW v \in Literals PROVE Literal(v) \in SoundSummaries
  BY DEF Literal, Node, SoundSummaries, Summaries, Sound, Literals, Truthy, Falsy, KnownTruth

\* Of a context nothing is concluded.
LEMMA ContextSound == Context \in SoundSummaries
<1>1. ASSUME NEW e \in Env PROVE e.context \in Literals
  BY ContentsAssumption DEF Env
<1> QED
  BY <1>1 DEF Context, Node, SoundSummaries, Summaries, Sound, Literals

\* A status function is known where the status is.
LEMMA StatusCallSound == ASSUME NEW f \in Calls PROVE StatusCall(f) \in SoundSummaries
<1>1. ASSUME NEW e \in Env PROVE Holds(f, e) \in BOOLEAN
  BY DEF Holds, Env
<1> QED
  BY <1>1 DEF StatusCall, Node, SoundSummaries, Summaries, Sound, Literals, Truthy, Falsy,
     KnownTruth, Bool, Calls, Holds

\* A negation knows what its operand knows.
LEMMA NotSound == ASSUME NEW x \in SoundSummaries PROVE Not(x) \in SoundSummaries
<1> DEFINE n == Not(x)
<1>1. /\ x \in Summaries
      /\ x.const # "unknown" => \A e \in Env : x.value[e] = x.const
      /\ \A e \in Env : /\ x.truth[e] = "yes" => Truthy(x.value[e])
                        /\ x.truth[e] = "no" => ~Truthy(x.value[e])
  BY DEF SoundSummaries, Sound
<1>2. \A b \in BOOLEAN : Bool(b) \in Literals /\ (Truthy(Bool(b)) <=> b)
  BY DEF Bool, Literals, Truthy, Falsy
<1>3. n \in Summaries
  BY <1>1, <1>2 DEF Not, Node, Summaries, Negated, Truthy
<1>4. n.const # "unknown" => \A e \in Env : n.value[e] = n.const
  BY <1>1 DEF Not, Node
<1>5. ASSUME NEW e \in Env
      PROVE  /\ n.truth[e] = "yes" => Truthy(n.value[e])
             /\ n.truth[e] = "no" => ~Truthy(n.value[e])
  <2>1. n.truth[e] = Negated(x.truth[e]) /\ n.value[e] = Bool(~Truthy(x.value[e]))
    BY DEF Not, Node
  <2>2. /\ Negated(x.truth[e]) = "yes" => x.truth[e] = "no"
        /\ Negated(x.truth[e]) = "no" => x.truth[e] = "yes"
    BY DEF Negated
  <2> QED
    BY <1>1, <1>2, <2>1, <2>2 DEF Truthy
<1>6. ~n.requires /\ ~n.success
  BY DEF Not, Node
<1> QED
  BY <1>3, <1>4, <1>5, <1>6 DEF SoundSummaries, Sound

\* "&&" and "||", given that the conclusion about a failure is right.
LEMMA LogicalSound ==
  ASSUME NEW x \in SoundSummaries, NEW y \in SoundSummaries,
         NEW decides \in {"yes", "no"}, NEW requires \in BOOLEAN,
         requires => IF decides = "no" THEN x.requires \/ y.requires
                     ELSE x.requires /\ y.requires
  PROVE  Logical(x, y, decides, requires) \in SoundSummaries
<1> DEFINE l == Logical(x, y, decides, requires)
<1>1. l \in Summaries
  BY DEF Logical, Node, SoundSummaries, Summaries, Literals, Negated
<1>2. l.const # "unknown" => \A e \in Env : l.value[e] = l.const
  BY DEF Logical, Node, SoundSummaries, Sound
<1>3. ASSUME NEW e \in Env
      PROVE  /\ l.truth[e] = "yes" => Truthy(l.value[e])
             /\ l.truth[e] = "no" => ~Truthy(l.value[e])
  <2>1. l.value[e] = IF Truthy(x.value[e]) <=> decides = "yes" THEN x.value[e] ELSE y.value[e]
    BY DEF Logical, Node
  <2>2. l.truth[e] = CASE decides \in {x.truth[e], y.truth[e]} -> decides
                       [] {x.truth[e], y.truth[e]} = {Negated(decides)} -> Negated(decides)
                       [] OTHER -> "unknown"
    BY DEF Logical, Node
  <2>3. Negated(decides) = IF decides = "yes" THEN "no" ELSE "yes"
    BY DEF Negated
  <2>4. /\ x.truth[e] = "yes" => Truthy(x.value[e])
        /\ x.truth[e] = "no" => ~Truthy(x.value[e])
        /\ y.truth[e] = "yes" => Truthy(y.value[e])
        /\ y.truth[e] = "no" => ~Truthy(y.value[e])
    BY DEF SoundSummaries, Sound
  <2>5. CASE decides \in {x.truth[e], y.truth[e]}
    BY <2>1, <2>2, <2>4, <2>5
  <2>6. CASE decides \notin {x.truth[e], y.truth[e]}
             /\ {x.truth[e], y.truth[e]} = {Negated(decides)}
    BY <2>1, <2>2, <2>3, <2>4, <2>6
  <2>7. CASE decides \notin {x.truth[e], y.truth[e]}
             /\ {x.truth[e], y.truth[e]} # {Negated(decides)}
    BY <2>2, <2>7
  <2> QED
    BY <2>5, <2>6, <2>7
<1>4. l.requires => \A e \in Env : Truthy(l.value[e]) => e.status = "success"
  <2> SUFFICES ASSUME requires, NEW e \in Env, Truthy(l.value[e])
               PROVE  e.status = "success"
    BY DEF Logical, Node
  <2>1. l.value[e] = IF Truthy(x.value[e]) <=> decides = "yes" THEN x.value[e] ELSE y.value[e]
    BY DEF Logical, Node
  <2>2. /\ x.requires => (Truthy(x.value[e]) => e.status = "success")
        /\ y.requires => (Truthy(y.value[e]) => e.status = "success")
    BY DEF SoundSummaries, Sound
  <2> QED
    BY <2>1, <2>2
<1>5. ~l.success
  BY DEF Logical, Node
<1> QED
  BY <1>1, <1>2, <1>3, <1>4, <1>5 DEF SoundSummaries, Sound

\* A truthy conjunction has two truthy operands, so either may require success.
LEMMA AndSound ==
  ASSUME NEW x \in SoundSummaries, NEW y \in SoundSummaries PROVE And(x, y) \in SoundSummaries
  BY LogicalSound DEF And, SoundSummaries, Summaries

\* A truthy disjunction has one of them, so both must.
LEMMA OrSound ==
  ASSUME NEW x \in SoundSummaries, NEW y \in SoundSummaries PROVE Or(x, y) \in SoundSummaries
  BY LogicalSound DEF Or, OrRequires, SoundSummaries, Summaries

\* A comparison of two constants is the one the runner makes.
LEMMA CompareSound ==
  ASSUME NEW x \in SoundSummaries, NEW y \in SoundSummaries PROVE Compare(x, y) \in SoundSummaries
  BY DEF Compare, Node, SoundSummaries, Summaries, Sound, Literals, Bool

\* case() is constant when its predicate and the branch that this selects are.
LEMMA ChoiceSound ==
  ASSUME NEW p \in SoundSummaries, NEW x \in SoundSummaries, NEW y \in SoundSummaries
  PROVE  Choice(p, x, y) \in SoundSummaries
<1> DEFINE c == Choice(p, x, y)
<1>1. c \in Summaries
  BY DEF Choice, Node, SoundSummaries, Summaries, Literals
<1>2. c.const # "unknown" => \A e \in Env : c.value[e] = c.const
  BY DEF Choice, Node, SoundSummaries, Sound
<1> QED
  BY <1>1, <1>2 DEF Choice, Node, SoundSummaries, Sound

-----------------------------------------------------------------------------
\* The operands that an operator takes are sound, and so is what stays below.
LEMMA OperandsSound ==
  ASSUME AllSound, NEW k \in Nat, k <= Len(operands)
  PROVE  /\ k < Len(operands) => Operand(k) \in SoundSummaries
         /\ Under(k) \in Seq(SoundSummaries)
  BY DEF AllSound, Operand, Under

\* Every step leaves sound operands.
LEMMA AllSoundStep == AllSound /\ [CondNext]_condVars => AllSound'
<1> SUFFICES ASSUME AllSound, [CondNext]_condVars PROVE AllSound'
  OBVIOUS
<1>0. Len(operands) \in Nat
  BY DEF AllSound
<1>1. CASE PushLeaf
  <2>1. PICK x \in {Literal(v) : v \in Literals} \cup {Context} \cup {StatusCall(f) : f \in Calls} :
          operands' = Append(operands, x)
    BY <1>1 DEF PushLeaf
  <2>2. x \in SoundSummaries
    BY LiteralSound, ContextSound, StatusCallSound
  <2> QED
    BY <2>1, <2>2 DEF AllSound
<1>2. CASE PushNot
  <2>1. Operand(0) \in SoundSummaries /\ Under(1) \in Seq(SoundSummaries)
    BY <1>0, <1>2, OperandsSound DEF PushNot
  <2> QED
    BY <1>2, <2>1, NotSound DEF AllSound, PushNot
<1>3. CASE PushBinary
  <2>1. /\ Operand(0) \in SoundSummaries /\ Operand(1) \in SoundSummaries
        /\ Under(2) \in Seq(SoundSummaries)
    BY <1>0, <1>3, OperandsSound DEF PushBinary
  <2>2. PICK x \in {And(Operand(1), Operand(0)), Or(Operand(1), Operand(0)),
                    Compare(Operand(1), Operand(0))} : operands' = Append(Under(2), x)
    BY <1>3 DEF PushBinary
  <2>3. x \in SoundSummaries
    BY <2>1, AndSound, OrSound, CompareSound
  <2> QED
    BY <2>1, <2>2, <2>3 DEF AllSound
<1>4. CASE PushChoice
  <2>1. /\ Operand(0) \in SoundSummaries /\ Operand(1) \in SoundSummaries
        /\ Operand(2) \in SoundSummaries /\ Under(3) \in Seq(SoundSummaries)
    BY <1>0, <1>4, OperandsSound DEF PushChoice
  <2> QED
    BY <1>4, <2>1, ChoiceSound DEF AllSound, PushChoice
<1>5. CASE UNCHANGED condVars
  BY <1>5 DEF AllSound, condVars
<1> QED
  BY <1>1, <1>2, <1>3, <1>4, <1>5 DEF CondNext

\* Sound parts make the conclusions about the whole right.
LEMMA SoundConclusions == AllSound => ConditionIsSound
<1> SUFFICES ASSUME AllSound, Len(operands) = 1 PROVE ConditionIsSound
  BY DEF ConditionIsSound
<1>1. Condition \in SoundSummaries
  BY DEF AllSound, Condition
<1>2. ASSUME NEW s \in {Statuses, Statuses \ {"failure"}}, NEW e \in Env, e.status \in s
      PROVE  /\ ConditionIn(Condition, s) = "skip" => ~Runs(Condition, e)
             /\ ConditionIn(Condition, s) = "run" /\ e.status = "success" => Runs(Condition, e)
  BY <1>1, <1>2 DEF SoundSummaries, Sound, ConditionIn, StepCondition, NeverRunsIn, Runs
<1>3. ASSUME ~CanRunAfterFailure(Condition), NEW e \in Env, e.status # "success"
      PROVE  ~Runs(Condition, e)
  BY <1>1, <1>3 DEF SoundSummaries, Sound, CanRunAfterFailure, Runs
<1> QED
  BY <1>2, <1>3 DEF ConditionIsSound

\* For expressions of any size: what Condition, StepCondition and
\* CanRunAfterFailure conclude holds on the runner.
THEOREM ConditionsAreSound == CondSpec => []ConditionIsSound
<1>1. CondInit => AllSound
  BY DEF CondInit, AllSound
<1> QED
  BY <1>1, AllSoundStep, SoundConclusions, PTL DEF CondSpec

-----------------------------------------------------------------------------
(***************************************************************************)
(* ExecutableBit                                                           *)
(*                                                                         *)
(* For jobs and scripts of any length: a script that the checker reports   *)
(* has the mode of the Git index whenever the job runs it.                 *)
(*                                                                         *)
(* The checker's state and the runner's are related in three parts.  As    *)
(* long as the job has not failed and the repository is not unknown, every *)
(* located copy of the workspace whose mode was not changed is the indexed *)
(* one; so is the copy in the action's directory while its state says so;  *)
(* and of a script that is being read, as long as every statement of it    *)
(* was understood.  What was skipped or failed never enters, because a     *)
(* condition that lets a step run after a failure makes the repository     *)
(* unknown first.                                                          *)
(***************************************************************************)

States == [sequential : BOOLEAN, pristine : BOOLEAN, actionPristine : BOOLEAN,
           repositoryUnknown : BOOLEAN, changed : SUBSET Copies, skipFindings : BOOLEAN]

Placements == [dir : Workspace, known : BOOLEAN]

Frames == [entered : {TRUE}, st : States, place : Seq(Placements), condition : Conditions,
           mayContinue : BOOLEAN, background : BOOLEAN, failed : BOOLEAN]

Scripts == [open : {TRUE}, condition : Conditions, mayContinue : BOOLEAN,
            dir : {"workspace", "action", "unknown"}, independent : BOOLEAN, read : Nat,
            ran : BOOLEAN, running : BOOLEAN, ok : BOOLEAN, workspacePristine : BOOLEAN]

ExecTypes ==
  /\ st \in States
  /\ place \in Seq(Placements)
  /\ frame = NoFrame \/ frame \in Frames
  /\ script = NoScript \/ script \in Scripts
  /\ {live, failed, tampered, shared} \subseteq BOOLEAN
  /\ mode \in [Copies -> {"absent", "indexed", "unknown"}]

\* The runner's workspace is what a state and the placements say of it.
Indexed(s, chain) ==
  /\ ~tampered
  /\ \A c \in Workspace : SameSelfCheckout(chain, c) /\ c \notin s.changed => mode[c] = "indexed"

Disabled(c) == c.known /\ ~c.enabled

\* Every statement so far had an effect that the state describes.
Understood == script.open => \/ Disabled(script.condition)
                             \/ st.pristine /\ (script.independent => script.workspacePristine)

WorkspaceIsIndexed ==
  live /\ ~failed /\ st.sequential /\ ~st.repositoryUnknown /\ Understood => Indexed(st, place)

ActionIsIndexed ==
  /\ st.sequential /\ st.actionPristine
  /\ script.open => Disabled(script.condition) \/ st.pristine
  => mode["action"] = "indexed"

\* A pristine workspace has been checked out.
CheckedOut ==
  /\ st.pristine /\ (script.open => ~script.independent \/ Ignored(script.condition))
       => ~st.repositoryUnknown /\ place # <<>>
  /\ script.open /\ script.workspacePristine => ~st.repositoryUnknown /\ place # <<>>

Concurrent == shared => ~st.sequential

\* What is known of a script that is being read.
ScriptFacts ==
  script.open =>
    /\ script.dir = "action" => script.independent
    /\ script.dir = "workspace" => ~script.independent
    /\ script.running => script.ran
    /\ script.ran => live /\ ~Disabled(script.condition)
    /\ script.ran /\ failed /\ st.sequential => ~st.pristine
    /\ script.independent /\ st.pristine /\ ~Ignored(script.condition) =>
         st.actionPristine \/ "action" \in st.changed

\* What is known of the caller while a composite action is read.
FrameFacts ==
  IF ~frame.entered THEN live
  ELSE /\ st.sequential => frame.st.sequential /\ ~frame.background
       /\ frame.st.repositoryUnknown => st.repositoryUnknown
       /\ frame.st.pristine => ~frame.st.repositoryUnknown /\ frame.place # <<>>
       /\ Disabled(frame.condition) => ~live
       /\ frame.condition.known /\ frame.condition.enabled /\ ~frame.failed => live
       /\ Len(frame.place) <= Len(place)
       /\ \A i \in 1..Len(frame.place) : place[Len(place) - Len(frame.place) + i] = frame.place[i]
       /\ ~live => /\ shared => ~frame.st.sequential
                   /\ ~frame.failed /\ frame.st.sequential /\ ~frame.st.repositoryUnknown
                        => Indexed(frame.st, frame.place)
                   /\ frame.st.sequential /\ frame.st.actionPristine => mode["action"] = "indexed"

ExecInv == /\ ExecTypes /\ FindingIsReal
           /\ WorkspaceIsIndexed /\ ActionIsIndexed /\ CheckedOut /\ Concurrent
           /\ ScriptFacts /\ FrameFacts

-----------------------------------------------------------------------------
(* The placements.                                                         *)

\* Every set of indices that is not empty has a least one.
LEMMA LeastIndex == ASSUME NEW S \in SUBSET Nat, S # {} PROVE \E i \in S : \A j \in S : i <= j
<1>1. IsWellFoundedOn({ss \in Nat \X Nat : ss[1] < ss[2]}, Nat)
  BY NatLessThanWellFounded, Zenon DEF OpToRel
<1>2. PICK i \in S : \A j \in S : ~(<<j, i>> \in {ss \in Nat \X Nat : ss[1] < ss[2]})
  BY <1>1, WFMin
<1>3. ASSUME NEW j \in S PROVE i <= j
  <2>1. <<j, i>> \in Nat \X Nat /\ <<j, i>>[1] = j /\ <<j, i>>[2] = i
    OBVIOUS
  <2>2. ~(j < i)
    BY <1>2, <2>1
  <2> QED
    BY <2>2
<1> QED
  BY <1>3

\* A checkout is found if no newer placement hides it.
LEMMA Newest ==
  ASSUME NEW chain \in Seq(Placements), NEW d \in Workspace
  PROVE  SameSelfCheckout(chain, d) <=>
           \E i \in 1..Len(chain) : /\ chain[i] = [dir |-> d, known |-> TRUE]
                                    /\ \A j \in 1..(i - 1) : d \notin Below(chain[j].dir)
<1> DEFINE at == {i \in 1..Len(chain) : d \in Below(chain[i].dir)}
<1>1. \A i \in 1..Len(chain) : chain[i] = [dir |-> d, known |-> TRUE] => i \in at
  BY DEF Below, Workspace
<1>2. CASE at = {}
  <2>1. ~SameSelfCheckout(chain, d)
    BY <1>2 DEF SameSelfCheckout, Matching, Workspace
  <2> QED
    BY <1>1, <1>2, <2>1
<1>3. CASE at # {}
  <2>0. at \in SUBSET Nat
    OBVIOUS
  <2> HIDE DEF at
  <2>1. PICK i \in at : \A j \in at : i <= j
    BY <1>3, <2>0, LeastIndex
  <2> USE DEF at
  <2>2. (CHOOSE k \in at : \A j \in at : k <= j) = i
    BY <2>1
  <2>3. Matching(chain, d) = chain[i]
    BY <1>3, <2>2 DEF Matching
  <2>4. SameSelfCheckout(chain, d) <=> chain[i] = [dir |-> d, known |-> TRUE]
    BY <2>3 DEF SameSelfCheckout
  <2>5. \A j \in 1..(i - 1) : d \notin Below(chain[j].dir)
    BY <2>1
  <2>6. ASSUME NEW k \in 1..Len(chain), chain[k] = [dir |-> d, known |-> TRUE],
               \A j \in 1..(k - 1) : d \notin Below(chain[j].dir)
        PROVE  k = i
    BY <1>1, <2>1, <2>6
  <2> QED
    BY <2>1, <2>4, <2>5, <2>6
<1> QED
  BY <1>2, <1>3

\* A new checkout is found where it was placed and hides what it covers.
LEMMA Placed ==
  ASSUME NEW chain \in Seq(Placements), NEW e \in Placements, NEW d \in Workspace
  PROVE  LET after == <<e>> \o chain
         IN  /\ after \in Seq(Placements) /\ Len(after) = Len(chain) + 1 /\ after # <<>>
             /\ \A i \in 1..Len(chain) : after[i + 1] = chain[i]
             /\ SameSelfCheckout(after, d) <=>
                  IF d \in Below(e.dir) THEN e = [dir |-> d, known |-> TRUE]
                  ELSE SameSelfCheckout(chain, d)
<1> DEFINE after == <<e>> \o chain
           self == [dir |-> d, known |-> TRUE]
<1>1. /\ after \in Seq(Placements) /\ Len(after) = Len(chain) + 1 /\ after # <<>>
      /\ after[1] = e /\ \A i \in 1..Len(chain) : after[i + 1] = chain[i]
  OBVIOUS
<1>2. self = e => d \in Below(e.dir)
  BY DEF Below, Workspace
<1> HIDE DEF after
<1>3. ASSUME SameSelfCheckout(after, d)
      PROVE  IF d \in Below(e.dir) THEN e = self ELSE SameSelfCheckout(chain, d)
  <2>1. PICK i \in 1..Len(after) : after[i] = self /\ \A j \in 1..(i - 1) : d \notin Below(after[j].dir)
    BY <1>1, <1>3, Newest
  <2>2. CASE i = 1
    BY <1>1, <1>2, <2>1, <2>2
  <2>3. CASE i # 1
    <3>1. d \notin Below(e.dir)
      BY <1>1, <2>1, <2>3
    <3>2. i - 1 \in 1..Len(chain) /\ chain[i - 1] = self
      <4>1. i - 1 \in 1..Len(chain) /\ (i - 1) + 1 = i
        BY <1>1, <2>3
      <4>2. after[(i - 1) + 1] = chain[i - 1]
        BY <1>1, <4>1
      <4> QED
        BY <2>1, <4>1, <4>2
    <3>3. \A j \in 1..((i - 1) - 1) : d \notin Below(chain[j].dir)
      <4> TAKE j \in 1..((i - 1) - 1)
      <4>1. j + 1 \in 1..(i - 1) /\ after[j + 1] = chain[j]
        BY <1>1, <3>2
      <4> QED
        BY <2>1, <4>1
    <3> QED
      BY <3>1, <3>2, <3>3, Newest
  <2> QED
    BY <2>2, <2>3
<1>4. ASSUME IF d \in Below(e.dir) THEN e = self ELSE SameSelfCheckout(chain, d)
      PROVE  SameSelfCheckout(after, d)
  <2>1. CASE d \in Below(e.dir)
    <3>1. 1 \in 1..Len(after) /\ after[1] = self /\ \A j \in 1..(1 - 1) : d \notin Below(after[j].dir)
      BY <1>1, <1>4, <2>1
    <3> QED
      BY <1>1, <3>1, Newest
  <2>2. CASE d \notin Below(e.dir)
    <3>1. PICK i \in 1..Len(chain) : chain[i] = self /\ \A j \in 1..(i - 1) : d \notin Below(chain[j].dir)
      BY <1>4, <2>2, Newest
    <3>2. i + 1 \in 1..Len(after) /\ after[i + 1] = self
      BY <1>1, <3>1
    <3>3. \A j \in 1..((i + 1) - 1) : d \notin Below(after[j].dir)
      <4> TAKE j \in 1..((i + 1) - 1)
      <4>1. CASE j = 1
        BY <1>1, <2>2, <4>1
      <4>2. CASE j # 1
        <5>1. j - 1 \in 1..(i - 1) /\ j - 1 \in 1..Len(chain) /\ after[(j - 1) + 1] = chain[j - 1]
          <6>1. j - 1 \in 1..(i - 1) /\ j - 1 \in 1..Len(chain)
            BY <4>2
          <6> QED
            BY <1>1, <6>1
        <5>2. (j - 1) + 1 = j
          OBVIOUS
        <5> QED
          BY <3>1, <5>1, <5>2
      <4> QED
        BY <4>1, <4>2
    <3> QED
      BY <1>1, <3>2, <3>3, Newest
  <2> QED
    BY <2>1, <2>2
<1> QED
  BY <1>1, <1>3, <1>4 DEF after

\* What the merged placements know is known in both branches.
LEMMA MergedBranches ==
  ASSUME NEW before \in Seq(Placements), NEW after \in Seq(Placements), NEW mayFail \in BOOLEAN,
         Len(before) <= Len(after),
         \A i \in 1..Len(before) : after[Len(after) - Len(before) + i] = before[i]
  PROVE  LET merged == MergeCheckoutBranches(before, after, mayFail)
         IN  /\ merged \in Seq(Placements) /\ Len(merged) = Len(after)
             /\ \A d \in Workspace : SameSelfCheckout(merged, d) =>
                  SameSelfCheckout(before, d) /\ SameSelfCheckout(after, d)
<1> DEFINE merged == MergeCheckoutBranches(before, after, mayFail)
           new == Len(after) - Len(before)
           agreed(i) ==
             /\ after[i].known /\ ~mayFail
             /\ SameSelfCheckout(before, after[i].dir)
             /\ \A j \in (i + 1)..new :
                  after[i].dir \in Below(after[j].dir) => after[j] = [dir |-> after[i].dir, known |-> TRUE]
<1>1. merged = [i \in 1..Len(after) |-> IF i <= new THEN [after[i] EXCEPT !.known = agreed(i)] ELSE after[i]]
  BY DEF MergeCheckoutBranches
<1>2. /\ new \in Nat
      /\ \A i : agreed(i) \in BOOLEAN
      /\ \A i : agreed(i) => after[i].known /\ SameSelfCheckout(before, after[i].dir)
  OBVIOUS
<1> HIDE DEF agreed, merged
<1>3. \A i \in 1..Len(after) : after[i] \in Placements
  OBVIOUS
<1>4. \A i \in 1..Len(after) : /\ merged[i] \in Placements
                               /\ merged[i].dir = after[i].dir
                               /\ i <= new => merged[i].known = agreed(i)
                               /\ i > new => merged[i] = after[i]
  <2> TAKE i \in 1..Len(after)
  <2>1. CASE i <= new
    <3>1. merged[i] = [after[i] EXCEPT !.known = agreed(i)]
      BY <1>1, <2>1
    <3> QED
      BY <1>2, <1>3, <2>1, <3>1 DEF Placements
  <2>2. CASE i > new
    <3>1. merged[i] = after[i]
      BY <1>1, <1>2, <2>2
    <3> QED
      BY <1>2, <1>3, <2>2, <3>1
  <2> QED
    BY <1>2, <2>1, <2>2
<1>5. merged \in Seq(Placements) /\ Len(merged) = Len(after)
  BY <1>1, <1>4
<1>6. ASSUME NEW d \in Workspace, SameSelfCheckout(merged, d)
      PROVE  SameSelfCheckout(before, d) /\ SameSelfCheckout(after, d)
  <2> DEFINE self == [dir |-> d, known |-> TRUE]
  <2>1. PICK i \in 1..Len(merged) : merged[i] = self /\ \A j \in 1..(i - 1) : d \notin Below(merged[j].dir)
    BY <1>5, <1>6, Newest
  <2>2. i \in 1..Len(after) /\ \A j \in 1..(i - 1) : d \notin Below(after[j].dir)
    BY <1>4, <1>5, <2>1
  <2>3. CASE i <= new
    <3>1. agreed(i) /\ after[i].dir = d
      BY <1>4, <2>1, <2>2, <2>3
    <3>2. after[i] = self /\ SameSelfCheckout(before, d)
      BY <1>2, <1>3, <2>2, <3>1 DEF Placements
    <3> QED
      BY <2>2, <3>2, Newest
  <2>4. CASE i > new
    <3>1. after[i] = self
      BY <1>4, <2>1, <2>2, <2>4
    <3>2. i - new \in 1..Len(before) /\ before[i - new] = self
      BY <1>2, <2>2, <2>4, <3>1
    <3>3. \A j \in 1..((i - new) - 1) : d \notin Below(before[j].dir)
      <4> TAKE j \in 1..((i - new) - 1)
      <4>1. new + j \in 1..(i - 1) /\ j \in 1..Len(before) /\ after[new + j] = before[j]
        BY <1>2, <2>2, <3>2
      <4> QED
        BY <2>2, <4>1
    <3> QED
      BY <2>2, <3>1, <3>2, <3>3, Newest
  <2> QED
    BY <1>2, <2>2, <2>3, <2>4
<1> QED
  BY <1>5, <1>6 DEF merged

-----------------------------------------------------------------------------
(* The states and the conditions.                                          *)

\* A step that may run after a failure leaves nothing known.
LEMMA VisitedState ==
  ASSUME st \in States, NEW c \in Conditions
  PROVE  /\ Visited(c) \in States
         /\ Visited(c).sequential = st.sequential /\ Visited(c).changed = st.changed
         /\ IF c.after THEN /\ ~Visited(c).pristine /\ ~Visited(c).actionPristine
                            /\ Visited(c).repositoryUnknown
            ELSE Visited(c) = st
  BY DEF Visited, afterPossibleFailure, States

\* Of an unknown condition nothing else is said, and a disabled step does not run
\* after a failure either.
LEMMA ConditionFields ==
  ASSUME NEW c \in Conditions
  PROVE  {c.enabled, c.known, c.after} \subseteq BOOLEAN /\ (~c.known => ~c.enabled)
         /\ (Disabled(c) => ~c.after)
<1>1. CASE c = [enabled |-> TRUE, known |-> TRUE, after |-> FALSE]
  BY <1>1 DEF Disabled
<1>2. CASE c = [enabled |-> TRUE, known |-> TRUE, after |-> TRUE]
  BY <1>2 DEF Disabled
<1>3. CASE c = [enabled |-> FALSE, known |-> TRUE, after |-> FALSE]
  BY <1>3 DEF Disabled
<1>4. CASE c = [enabled |-> FALSE, known |-> FALSE, after |-> FALSE]
  BY <1>4 DEF Disabled
<1>5. CASE c = [enabled |-> FALSE, known |-> FALSE, after |-> TRUE]
  BY <1>5 DEF Disabled
<1> QED
  BY <1>1, <1>2, <1>3, <1>4, <1>5 DEF Conditions

\* When a step runs.
LEMMA RunsWhen ==
  ASSUME NEW c \in Conditions, {live, failed} \subseteq BOOLEAN,
         NEW ran \in {r /\ live : r \in MayRun(c)}
  PROVE  /\ ran \in BOOLEAN
         /\ ran => live /\ ~Disabled(c) /\ (failed => c.after)
         /\ live /\ ~failed /\ c.known /\ c.enabled => ran
  BY ConditionFields DEF MayRun, Disabled

\* The caller's part stays true while its action is read.
LEMMA FrameKept ==
  ASSUME ExecTypes, FrameFacts, frame' = frame, live' = live, ExecTypes',
         st'.sequential => st.sequential,
         st.repositoryUnknown => st'.repositoryUnknown,
         Len(place) <= Len(place'),
         \A i \in 1..Len(place) : place'[Len(place') - Len(place) + i] = place[i],
         \/ UNCHANGED <<mode, tampered, shared>>
         \/ live
         \/ frame.entered /\ ~frame.st.sequential
  PROVE  FrameFacts'
<1>1. CASE ~frame.entered
  BY <1>1 DEF FrameFacts
<1>2. CASE frame.entered
  <2>1. frame \in Frames
    BY <1>2 DEF ExecTypes, NoFrame
  <2>2. Len(frame.place) \in Nat /\ Len(place) \in Nat /\ Len(place') \in Nat
    BY <2>1 DEF ExecTypes, Frames
  <2>3. \A i \in 1..Len(frame.place) : place'[Len(place') - Len(frame.place) + i] = frame.place[i]
    <3> TAKE i \in 1..Len(frame.place)
    <3>1. Len(frame.place) <= Len(place)
          /\ place[Len(place) - Len(frame.place) + i] = frame.place[i]
      BY <1>2 DEF FrameFacts
    <3> DEFINE k == Len(place) - Len(frame.place) + i
    <3>2. k \in 1..Len(place) /\ Len(place') - Len(place) + k = Len(place') - Len(frame.place) + i
      BY <2>2, <3>1
    <3>3. place'[Len(place') - Len(place) + k] = place[k]
      BY <3>2
    <3> QED
      BY <3>1, <3>2, <3>3
  <2>4. ~live => /\ shared' => ~frame.st.sequential
                 /\ ~frame.failed /\ frame.st.sequential /\ ~frame.st.repositoryUnknown
                      => Indexed(frame.st, frame.place)'
                 /\ frame.st.sequential /\ frame.st.actionPristine => mode'["action"] = "indexed"
    BY <1>2 DEF FrameFacts, Indexed
  <2>5. Len(frame.place) <= Len(place')
    BY <1>2, <2>2 DEF FrameFacts
  <2> QED
    BY <1>2, <2>3, <2>4, <2>5 DEF FrameFacts, Disabled
<1> QED
  BY <1>1, <1>2

-----------------------------------------------------------------------------
(* The steps.                                                              *)

\* A checkout that must have succeeded puts the indexed script in place and is
\* placed as known; after any other the repository is unknown.
LEMMA CheckoutInv ==
  ASSUME ExecInv, NEW dir \in Workspace, NEW input \in {"self", "noclean", "foreign"},
         NEW c \in Conditions, NEW mayContinue \in BOOLEAN,
         CheckoutStep(dir, input, c, mayContinue)
  PROVE  ExecInv'
<1> DEFINE v == Visited(c)
           known == st'.sequential /\ ~st'.repositoryUnknown
<1>1. /\ script = NoScript /\ script' = NoScript /\ ~script.open
      /\ UNCHANGED <<frame, live, shared, found>>
  BY DEF CheckoutStep, Reading, NoScript
<1>2. PICK ran \in {r /\ live : r \in MayRun(c)}, ok \in BOOLEAN :
        /\ StepEnds(ran, ok, mayContinue)
        /\ IF ran THEN CheckoutRuns(dir, input, ok) ELSE NothingRuns
  BY DEF CheckoutStep
<1>3. /\ ran \in BOOLEAN /\ (ran => live /\ ~Disabled(c) /\ (failed => c.after))
      /\ live /\ ~failed /\ c.known /\ c.enabled => ran
  BY RunsWhen DEF ExecInv, ExecTypes
<1>4. v \in States /\ v.sequential = st.sequential /\ v.changed = st.changed
      /\ IF c.after THEN ~v.pristine /\ ~v.actionPristine /\ v.repositoryUnknown ELSE v = st
  BY VisitedState DEF ExecInv, ExecTypes
<1>5. {c.enabled, c.known, c.after} \subseteq BOOLEAN
  BY ConditionFields
<1>6. st' = IF Ignored(c) THEN st ELSE checkout(v, dir, input, ~c.known \/ mayContinue)
  BY DEF CheckoutStep
<1>7. st \in States /\ place \in Seq(Placements)
  BY DEF ExecInv, ExecTypes
<1>8. /\ st' \in States /\ (st'.sequential <=> st.sequential)
      /\ st.repositoryUnknown => st'.repositoryUnknown
      /\ st'.actionPristine => st.actionPristine
      /\ st'.pristine => ~st'.repositoryUnknown \/ (Ignored(c) /\ st.pristine)
      /\ ~Ignored(c) /\ ~st'.repositoryUnknown =>
           /\ ~c.after /\ c.known /\ ~mayContinue /\ input = "self" /\ ~st.repositoryUnknown
           /\ st'.changed = st.changed \ Below(dir)
  BY <1>4, <1>5, <1>6, <1>7 DEF States, checkout, afterKnownCheckout, Copies, Workspace
<1> DEFINE e == [dir |-> dir, known |-> place'[1].known]
<1>9. \/ Disabled(c) /\ place' = place
      \/ \E self \in BOOLEAN :
           /\ ~Disabled(c) /\ place' = <<[dir |-> dir, known |-> self]>> \o place
           /\ c.known /\ ~mayContinue /\ input = "self" => self
  BY <1>5 DEF CheckoutStep, ObserveCheckout, Disabled
<1>10. /\ place' \in Seq(Placements) /\ Len(place) <= Len(place')
       /\ \A i \in 1..Len(place) : place'[Len(place') - Len(place) + i] = place[i]
       /\ ~Disabled(c) => place' # <<>>
       /\ Disabled(c) => place' = place
       /\ place # <<>> => place' # <<>>
  <2>1. CASE Disabled(c)
    <3>0. place' = place
      BY <1>9, <2>1
    <3>1. \A i \in 1..Len(place) : Len(place) - Len(place) + i = i
      BY <1>7
    <3> QED
      BY <1>7, <2>1, <3>0, <3>1
  <2>2. CASE ~Disabled(c)
    <3>1. PICK self \in BOOLEAN : place' = <<[dir |-> dir, known |-> self]>> \o place
      BY <1>9, <2>2
    <3>2. [dir |-> dir, known |-> self] \in Placements
      BY DEF Placements
    <3>3. /\ place' \in Seq(Placements) /\ Len(place') = Len(place) + 1 /\ place' # <<>>
          /\ \A i \in 1..Len(place) : place'[i + 1] = place[i]
      BY <1>7, <3>1, <3>2, Placed DEF Workspace
    <3>4. \A i \in 1..Len(place) : Len(place') - Len(place) + i = i + 1
      BY <1>7, <3>3
    <3> QED
      BY <1>7, <2>2, <3>3, <3>4
  <2> QED
    BY <1>9, <2>1, <2>2
<1>11. /\ mode' \in [Copies -> {"absent", "indexed", "unknown"}]
       /\ mode'["action"] = mode["action"]
       /\ {failed', tampered'} \subseteq BOOLEAN
       /\ tampered' = tampered
       /\ ~ran => mode' = mode
       /\ failed => failed'
       /\ ~failed' /\ ~mayContinue => ~ran \/ ok
  <2>1. "action" \notin Below(dir) /\ "action" \in Copies
    BY DEF Below, Workspace, Copies
  <2> QED
    <3>1. ExecTypes
      BY DEF ExecInv
    <3>2. /\ failed' \in BOOLEAN /\ (failed => failed')
          /\ ~failed' /\ ~mayContinue => ~ran \/ ok
      BY <1>2, <1>3, <3>1 DEF ExecTypes, StepEnds
    <3>3. CASE ran
      <4>1. /\ tampered' = tampered
            /\ mode' = [d \in Copies |->
                 IF d \notin Below(dir) THEN mode[d]
                 ELSE IF ~ok \/ tampered \/ input = "foreign" THEN "unknown"
                 ELSE IF input = "noclean" /\ (d # dir \/ mode[d] = "unknown") THEN mode[d]
                 ELSE IF d = dir THEN "indexed" ELSE "absent"]
        BY <1>2, <3>3 DEF CheckoutRuns
      <4>2. mode'["action"] = mode["action"]
        BY <2>1, <4>1
      <4>3. ASSUME NEW d \in Copies PROVE mode'[d] \in {"absent", "indexed", "unknown"}
        BY <3>1, <4>1 DEF ExecTypes
      <4> QED
        BY <3>1, <3>2, <3>3, <4>1, <4>2, <4>3 DEF ExecTypes
    <3>4. CASE ~ran
      BY <1>2, <3>1, <3>2, <3>4 DEF ExecTypes, NothingRuns
    <3> QED
      BY <1>3, <3>3, <3>4
<1>12. ExecTypes'
  BY <1>1, <1>8, <1>10, <1>11 DEF ExecInv, ExecTypes
<1>13. WorkspaceIsIndexed'
  <2> SUFFICES ASSUME live', ~failed', st'.sequential, ~st'.repositoryUnknown
               PROVE  Indexed(st, place)'
    BY DEF WorkspaceIsIndexed
  <2>1. Indexed(st, place)
    BY <1>1, <1>8, <1>11 DEF ExecInv, WorkspaceIsIndexed, Understood
  <2>2. CASE Disabled(c)
    <3>1. st' = st /\ place' = place /\ ~ran
      BY <1>3, <1>6, <1>9, <2>2 DEF Ignored, Disabled
    <3> QED
      BY <1>11, <2>1, <3>1 DEF Indexed
  <2>3. CASE ~Disabled(c)
    <3>1. ~Ignored(c)
      BY <1>8, <2>3 DEF Ignored, Disabled
    <3>2. /\ c.known /\ c.enabled /\ ~mayContinue /\ input = "self"
          /\ st'.changed = st.changed \ Below(dir)
      BY <1>5, <1>8, <2>3, <3>1 DEF Disabled
    <3>3. ran /\ ok
      BY <1>1, <1>3, <1>11, <3>2
    <3>4. ~tampered /\ CheckoutRuns(dir, "self", TRUE)
      BY <1>2, <2>1, <3>2, <3>3 DEF Indexed
    <3>5. \A d \in Workspace : mode'[d] = IF d \notin Below(dir) THEN mode[d]
                                          ELSE IF d # dir THEN "absent" ELSE "indexed"
      <4> TAKE d \in Workspace
      <4>1. d \in Copies
        BY DEF Copies
      <4> QED
        BY <3>4, <4>1 DEF CheckoutRuns
    <3>6. place' = <<[dir |-> dir, known |-> TRUE]>> \o place
      BY <1>9, <2>3, <3>2
    <3>7. ASSUME NEW d \in Workspace, SameSelfCheckout(place', d), d \notin st'.changed
          PROVE  mode'[d] = "indexed"
      <4>1. [dir |-> dir, known |-> TRUE] \in Placements
        BY DEF Placements
      <4>2. IF d \in Below(dir) THEN d = dir ELSE SameSelfCheckout(place, d)
        BY <1>7, <3>6, <3>7, <4>1, Placed
      <4> QED
        BY <2>1, <3>2, <3>5, <3>7, <4>2 DEF Indexed
    <3> QED
      BY <1>11, <2>1, <3>7 DEF Indexed, SameSelfCheckout, Matching, Below
  <2> QED
    BY <2>2, <2>3
<1>14. ActionIsIndexed'
  BY <1>1, <1>8, <1>11 DEF ExecInv, ActionIsIndexed
<1>15. CheckedOut'
  <2>1. st.pristine => ~st.repositoryUnknown /\ place # <<>>
    BY <1>1 DEF ExecInv, CheckedOut
  <2>2. CASE Ignored(c)
    BY <1>1, <1>6, <1>10, <2>1, <2>2 DEF CheckedOut
  <2>3. CASE ~Ignored(c)
    <3>1. ~Disabled(c)
      BY <2>3 DEF Ignored, Disabled
    <3> QED
      BY <1>1, <1>8, <1>10, <2>3, <3>1 DEF CheckedOut
  <2> QED
    BY <2>2, <2>3
<1>16. Concurrent'
  BY <1>1, <1>8 DEF ExecInv, Concurrent
<1>17. ScriptFacts'
  BY <1>1 DEF ScriptFacts
<1>18. FrameFacts'
  <2>1. UNCHANGED <<mode, tampered, shared>> \/ live
    BY <1>1, <1>3, <1>11
  <2> QED
    BY <1>1, <1>8, <1>10, <1>12, <2>1, FrameKept DEF ExecInv
<1> QED
  BY <1>1, <1>12, <1>13, <1>14, <1>15, <1>16, <1>17, <1>18 DEF ExecInv, FindingIsReal

\* Nothing is placed: the placements stay an extension of themselves.
LEMMA SamePlaces ==
  ASSUME place \in Seq(Placements), place' = place
  PROVE  /\ Len(place) <= Len(place')
         /\ \A i \in 1..Len(place) : place'[Len(place') - Len(place) + i] = place[i]
<1>1. \A i \in 1..Len(place) : Len(place) - Len(place) + i = i
  OBVIOUS
<1> QED
  BY <1>1

\* Of an action that may have run any program nothing is known afterwards.
LEMMA OpaqueInv ==
  ASSUME ExecInv, NEW c \in Conditions, NEW mayContinue \in BOOLEAN, OpaqueStep(c, mayContinue)
  PROVE  ExecInv'
<1> DEFINE v == Visited(c)
<1>1. /\ script = NoScript /\ script' = NoScript /\ ~script.open
      /\ UNCHANGED <<place, frame, live, shared, found>>
      /\ st' = IF Ignored(c) THEN st
               ELSE [v EXCEPT !.pristine = FALSE, !.actionPristine = FALSE, !.repositoryUnknown = TRUE]
  BY DEF OpaqueStep, Reading, NoScript
<1>2. PICK ran \in {r /\ live : r \in MayRun(c)}, ok \in BOOLEAN :
        StepEnds(ran, ok, mayContinue) /\ IF ran THEN AnyEffect ELSE NothingRuns
  BY DEF OpaqueStep
<1>3. ran \in BOOLEAN /\ (ran => live /\ ~Disabled(c) /\ (failed => c.after))
  BY RunsWhen DEF ExecInv, ExecTypes
<1>4. v \in States /\ v.sequential = st.sequential /\ v.changed = st.changed
  BY VisitedState DEF ExecInv, ExecTypes
<1>5. st \in States /\ place \in Seq(Placements)
  BY DEF ExecInv, ExecTypes
<1>6. /\ st' \in States /\ (st'.sequential <=> st.sequential)
      /\ st.repositoryUnknown => st'.repositoryUnknown
      /\ IF Ignored(c) THEN st' = st
         ELSE ~st'.pristine /\ ~st'.actionPristine /\ st'.repositoryUnknown
  BY <1>1, <1>4, <1>5 DEF States
<1>7. /\ mode' \in [Copies -> {"absent", "indexed", "unknown"}]
      /\ {failed', tampered'} \subseteq BOOLEAN
      /\ ~ran => mode' = mode /\ tampered' = tampered
      /\ failed => failed'
  <2>1. ExecTypes
    BY DEF ExecInv
  <2>2. failed' \in BOOLEAN /\ (failed => failed')
    <3>1. failed \in BOOLEAN
      BY <2>1 DEF ExecTypes
    <3>2. failed' = failed \/ failed' = TRUE
      BY <1>2 DEF StepEnds
    <3> QED
      BY <3>1, <3>2
  <2>3. CASE ran
    BY <1>2, <2>2, <2>3 DEF AnyEffect
  <2>4. CASE ~ran
    BY <1>2, <2>1, <2>2, <2>4 DEF ExecTypes, NothingRuns
  <2> QED
    BY <1>3, <2>3, <2>4
<1>8. ExecTypes'
  BY <1>1, <1>6, <1>7 DEF ExecInv, ExecTypes
<1>9. Ignored(c) /\ st.sequential => ~ran
  BY <1>3 DEF Ignored, Disabled
<1>10. WorkspaceIsIndexed'
  <2>1. CASE Ignored(c)
    BY <1>1, <1>6, <1>7, <1>9, <2>1 DEF ExecInv, WorkspaceIsIndexed, Understood, Indexed
  <2>2. CASE ~Ignored(c)
    BY <1>6, <2>2 DEF WorkspaceIsIndexed
  <2> QED
    BY <2>1, <2>2
<1>11. ActionIsIndexed'
  BY <1>1, <1>6, <1>7, <1>9 DEF ExecInv, ActionIsIndexed
<1>12. CheckedOut'
  BY <1>1, <1>6 DEF ExecInv, CheckedOut
<1>13. Concurrent' /\ ScriptFacts'
  BY <1>1, <1>6 DEF ExecInv, Concurrent, ScriptFacts
<1>14. FrameFacts'
  <2>1. UNCHANGED <<mode, tampered, shared>> \/ live
    BY <1>1, <1>3, <1>7
  <2> QED
    BY <1>1, <1>5, <1>6, <1>8, <2>1, SamePlaces, FrameKept DEF ExecInv
<1> QED
  BY <1>1, <1>8, <1>10, <1>11, <1>12, <1>13, <1>14 DEF ExecInv, FindingIsReal

\* A step in the background ends all conclusions, and it runs only where the
\* checker does not ignore it.
LEMMA ConcurrentInv ==
  ASSUME ExecInv, NEW c \in Conditions, ConcurrentStep(c)
  PROVE  ExecInv'
<1> DEFINE v == Visited(c)
<1>1. /\ script = NoScript /\ script' = NoScript /\ ~script.open
      /\ UNCHANGED <<place, frame, live, failed, mode, tampered, found>>
      /\ st' = IF Ignored(c) THEN st ELSE afterConcurrentExecution(v)
  BY DEF ConcurrentStep, Reading, NoScript
<1>2. PICK ran \in {r /\ live : r \in MayRun(c)} : shared' = (shared \/ ran)
  BY DEF ConcurrentStep
<1>3. ran \in BOOLEAN /\ (ran => live /\ ~Disabled(c) /\ (failed => c.after))
  BY RunsWhen DEF ExecInv, ExecTypes
<1>4. v \in States /\ v.sequential = st.sequential /\ v.changed = st.changed
      /\ (st.repositoryUnknown => v.repositoryUnknown)
  BY VisitedState DEF ExecInv, ExecTypes
<1>5. st \in States /\ place \in Seq(Placements)
  BY DEF ExecInv, ExecTypes
<1>6. /\ st' \in States /\ (st'.sequential => st.sequential)
      /\ st.repositoryUnknown => st'.repositoryUnknown
      /\ IF Ignored(c) THEN st' = st ELSE ~st'.sequential /\ ~st'.pristine
  BY <1>1, <1>4, <1>5 DEF States, afterConcurrentExecution
<1>7. ExecTypes'
  BY <1>1, <1>2, <1>3, <1>6 DEF ExecInv, ExecTypes
<1>8. WorkspaceIsIndexed'
  BY <1>1, <1>6 DEF ExecInv, WorkspaceIsIndexed, Understood, Indexed
<1>9. ActionIsIndexed'
  BY <1>1, <1>6 DEF ExecInv, ActionIsIndexed
<1>10. CheckedOut'
  BY <1>1, <1>6 DEF ExecInv, CheckedOut
<1>11. Concurrent'
  BY <1>2, <1>3, <1>6 DEF ExecInv, Concurrent, Ignored, Disabled
<1>12. ScriptFacts'
  BY <1>1 DEF ScriptFacts
<1>13. FrameFacts'
  <2>1. UNCHANGED <<mode, tampered, shared>> \/ live
    BY <1>1, <1>2, <1>3 DEF ExecInv, ExecTypes
  <2> QED
    BY <1>1, <1>5, <1>6, <1>7, <2>1, SamePlaces, FrameKept DEF ExecInv
<1> QED
  BY <1>1, <1>7, <1>8, <1>9, <1>10, <1>11, <1>12, <1>13 DEF ExecInv, FindingIsReal

\* Where something runs concurrently, nothing is concluded any more.
LEMMA InterfereInv == ASSUME ExecInv, Interfere PROVE ExecInv'
<1>1. /\ shared /\ UNCHANGED <<st, place, frame, script, live, failed, shared, found>>
      /\ mode' = [c \in Copies |-> "unknown"] /\ tampered' = TRUE
  BY DEF Interfere, AnyEffect
<1>2. ~st.sequential
  BY <1>1 DEF ExecInv, Concurrent
<1>3. st \in States /\ place \in Seq(Placements)
  BY DEF ExecInv, ExecTypes
<1>4. ExecTypes'
  BY <1>1 DEF ExecInv, ExecTypes
<1>5. WorkspaceIsIndexed' /\ ActionIsIndexed' /\ Concurrent'
  BY <1>1, <1>2 DEF WorkspaceIsIndexed, ActionIsIndexed, Concurrent
<1>6. CheckedOut'
  BY <1>1 DEF ExecInv, CheckedOut, Ignored
<1>7. ScriptFacts'
  BY <1>1 DEF ExecInv, ScriptFacts, Ignored, Disabled
<1>8. FrameFacts'
  <2>1. \/ live
        \/ frame.entered /\ ~frame.st.sequential
    BY <1>1 DEF ExecInv, FrameFacts
  <2> QED
    BY <1>1, <1>3, <1>4, <2>1, SamePlaces, FrameKept DEF ExecInv
<1> QED
  BY <1>1, <1>4, <1>5, <1>6, <1>7, <1>8 DEF ExecInv, FindingIsReal

\* A script begins with what is known of the copy in its directory.
LEMMA StartRunInv ==
  ASSUME ExecInv, NEW c \in Conditions, NEW mayContinue \in BOOLEAN,
         NEW dir \in {"workspace", "action", "unknown"}, StartRun(c, mayContinue, dir)
  PROVE  ExecInv'
<1> DEFINE v == Visited(c)
<1>1. /\ script = NoScript /\ ~script.open
      /\ UNCHANGED <<place, frame, live, failed, mode, tampered, shared, found>>
      /\ st' = IF Ignored(c) THEN st
               ELSE [v EXCEPT !.pristine = IF dir = "action" THEN v.actionPristine ELSE @]
  BY DEF StartRun, Reading, NoScript, runnerVars
<1>2. PICK ran \in {r /\ live : r \in MayRun(c)} :
        script' = [open |-> TRUE, condition |-> c, mayContinue |-> mayContinue, dir |-> dir,
                   independent |-> dir = "action", read |-> 0, ran |-> ran, running |-> ran, ok |-> TRUE,
                   workspacePristine |-> v.pristine]
  BY DEF StartRun
<1>3. ran \in BOOLEAN /\ (ran => live /\ ~Disabled(c) /\ (failed => c.after))
  BY RunsWhen DEF ExecInv, ExecTypes
<1>4. v \in States /\ v.sequential = st.sequential /\ v.changed = st.changed
      /\ IF c.after THEN ~v.pristine /\ ~v.actionPristine /\ v.repositoryUnknown ELSE v = st
  BY VisitedState DEF ExecInv, ExecTypes
<1>5. st \in States /\ place \in Seq(Placements)
  BY DEF ExecInv, ExecTypes
<1>6. /\ st' \in States /\ st'.sequential = st.sequential /\ st'.changed = st.changed
      /\ st.repositoryUnknown => st'.repositoryUnknown
      /\ st'.actionPristine => st.actionPristine
      /\ IF Ignored(c) THEN st' = st
         ELSE /\ st'.repositoryUnknown = v.repositoryUnknown
              /\ st'.actionPristine = v.actionPristine
              /\ st'.pristine = IF dir = "action" THEN v.actionPristine ELSE v.pristine
  BY <1>1, <1>4, <1>5 DEF States
<1>7. Ignored(c) => Disabled(c) \/ ~st.sequential
  BY DEF Ignored, Disabled
<1>8. script' \in Scripts
  BY <1>2, <1>3, <1>4 DEF Scripts, States
<1>9. ExecTypes'
  BY <1>1, <1>6, <1>8 DEF ExecInv, ExecTypes
<1>10. /\ script'.open /\ script'.condition = c /\ script'.dir = dir
       /\ script'.independent = (dir = "action") /\ script'.ran = ran /\ script'.running = ran
       /\ script'.workspacePristine = v.pristine
  BY <1>2
<1>11. WorkspaceIsIndexed'
  <2> SUFFICES ASSUME live', ~failed', st'.sequential, ~st'.repositoryUnknown
               PROVE  Indexed(st, place)'
    BY DEF WorkspaceIsIndexed
  <2>1. Indexed(st, place)
    BY <1>1, <1>6 DEF ExecInv, WorkspaceIsIndexed, Understood
  <2> QED
    BY <1>1, <1>6, <2>1 DEF Indexed
<1>12. ActionIsIndexed'
  BY <1>1, <1>6 DEF ExecInv, ActionIsIndexed
<1>13. st.pristine => ~st.repositoryUnknown /\ place # <<>>
  BY <1>1 DEF ExecInv, CheckedOut
<1>14. CheckedOut'
  <2>1. v.pristine => v = st
    BY <1>4
  <2>2. st'.repositoryUnknown = IF Ignored(c) THEN st.repositoryUnknown ELSE v.repositoryUnknown
    BY <1>6
  <2>3. v.pristine => ~st'.repositoryUnknown /\ place' # <<>>
    BY <1>1, <1>13, <2>1, <2>2
  <2>4. st'.pristine /\ (~script'.independent \/ Ignored(script.condition)')
          => ~st'.repositoryUnknown /\ place' # <<>>
    <3>1. Ignored(script.condition)' <=> Ignored(c)
      BY <1>6, <1>10 DEF Ignored
    <3>2. CASE Ignored(c)
      BY <1>1, <1>6, <1>13, <3>2
    <3>3. CASE ~Ignored(c)
      BY <1>6, <1>10, <2>3, <3>1, <3>3
    <3> QED
      BY <3>2, <3>3
  <2> QED
    BY <1>10, <2>3, <2>4 DEF CheckedOut
<1>15. Concurrent'
  BY <1>1, <1>6 DEF ExecInv, Concurrent
<1>16. ScriptFacts'
  <2>1. Ignored(script.condition)' <=> Ignored(c)
    BY <1>6, <1>10 DEF Ignored
  <2>2. ran /\ failed /\ st.sequential => ~st'.pristine
    BY <1>3, <1>4, <1>6, <1>7
  <2>3. dir = "action" /\ st'.pristine /\ ~Ignored(c) => st'.actionPristine
    BY <1>6
  <2> QED
    BY <1>1, <1>3, <1>6, <1>10, <2>1, <2>2, <2>3 DEF ScriptFacts, Disabled
<1>17. FrameFacts'
  BY <1>1, <1>5, <1>6, <1>9, SamePlaces, FrameKept DEF ExecInv
<1> QED
  BY <1>1, <1>9, <1>11, <1>12, <1>14, <1>15, <1>16, <1>17 DEF ExecInv, FindingIsReal

-----------------------------------------------------------------------------
(* The statements of a script.                                             *)

\* What a statement does: the checker marks every copy that it changes, or
\* understands nothing any more.
LEMMA StatementInv ==
  ASSUME ExecInv, script.open,
         UNCHANGED <<place, frame, live, failed, shared>>,
         script' \in Scripts,
         UNCHANGED <<script.condition, script.independent, script.ran, script.workspacePristine>>,
         script'.running => script.running, script'.dir \in {script.dir, "unknown"},
         st' \in States,
         UNCHANGED <<st.sequential, st.repositoryUnknown>>,
         st'.pristine => st.pristine, st'.actionPristine => st.actionPristine,
         st.changed \subseteq st'.changed,
         Ignored(script.condition) => st' = st,
         mode' \in [Copies -> {"absent", "indexed", "unknown"}], tampered' \in BOOLEAN,
         ~script.running => UNCHANGED <<mode, tampered>>,
         ~Ignored(script.condition) /\ st'.pristine =>
           /\ tampered' = tampered
           /\ \A c \in Workspace : mode'[c] = mode[c] \/ c \in st'.changed
           /\ st'.actionPristine => mode'["action"] = mode["action"]
           /\ st.actionPristine /\ ~st'.actionPristine => "action" \in st'.changed,
         FindingIsReal'
  PROVE  ExecInv'
<1>1. /\ ExecTypes /\ script \in Scripts
      /\ (Ignored(script.condition)' <=> Ignored(script.condition))
      /\ (Disabled(script.condition)' <=> Disabled(script.condition))
      /\ (Ignored(script.condition) <=> ~st.sequential \/ Disabled(script.condition))
  BY DEF ExecInv, ExecTypes, NoScript, Ignored, Disabled
<1>2. /\ script.running => script.ran
      /\ script.ran => live /\ ~Disabled(script.condition)
      /\ script.ran /\ failed /\ st.sequential => ~st.pristine
      /\ script.dir = "action" => script.independent
      /\ script.dir = "workspace" => ~script.independent
      /\ script.independent /\ st.pristine /\ ~Ignored(script.condition) =>
           st.actionPristine \/ "action" \in st.changed
  BY DEF ExecInv, ScriptFacts
<1>3. place \in Seq(Placements) /\ script'.open
  BY DEF ExecInv, ExecTypes, Scripts
<1>4. ExecTypes'
  BY <1>1 DEF ExecTypes
<1>5. WorkspaceIsIndexed'
  <2> SUFFICES ASSUME live', ~failed', st'.sequential, ~st'.repositoryUnknown, Understood'
               PROVE  Indexed(st, place)'
    BY DEF WorkspaceIsIndexed
  <2>1. Understood
    BY <1>1, <1>3 DEF Understood
  <2>2. Indexed(st, place)
    BY <2>1 DEF ExecInv, WorkspaceIsIndexed
  <2>3. CASE Disabled(script.condition)
    BY <1>1, <1>2, <2>2, <2>3 DEF Indexed
  <2>4. CASE ~Disabled(script.condition)
    <3>1. st'.pristine /\ ~Ignored(script.condition)
      BY <1>1, <1>3, <2>4 DEF Understood
    <3>2. \A c \in Workspace : mode'[c] = mode[c] \/ c \in st'.changed
      BY <3>1
    <3>3. tampered' = tampered
      BY <3>1
    <3> QED
      BY <2>2, <3>2, <3>3 DEF Indexed
  <2> QED
    BY <2>3, <2>4
<1>6. ActionIsIndexed'
  <2> SUFFICES ASSUME st'.sequential, st'.actionPristine, Disabled(script.condition) \/ st'.pristine
               PROVE  mode'["action"] = "indexed"
    BY <1>1, <1>3 DEF ActionIsIndexed
  <2>1. mode["action"] = "indexed"
    BY DEF ExecInv, ActionIsIndexed
  <2> QED
    BY <1>1, <1>2, <2>1
<1>7. CheckedOut'
  BY <1>1, <1>3 DEF ExecInv, CheckedOut
<1>8. Concurrent'
  BY DEF ExecInv, Concurrent
<1>9. ScriptFacts'
  <2>1. script'.independent /\ st'.pristine /\ ~Ignored(script.condition)' =>
          st'.actionPristine \/ "action" \in st'.changed
    BY <1>1, <1>2
  <2>2. /\ script'.dir = "action" => script'.independent
        /\ script'.dir = "workspace" => ~script'.independent
    BY <1>2
  <2>3. /\ script'.running => script'.ran
        /\ script'.ran => live' /\ ~Disabled(script.condition)'
        /\ script'.ran /\ failed' /\ st'.sequential => ~st'.pristine
    BY <1>1, <1>2
  <2> QED
    BY <2>1, <2>2, <2>3 DEF ScriptFacts
<1>10. FrameFacts'
  <2>1. UNCHANGED <<mode, tampered, shared>> \/ live
    BY <1>2
  <2> QED
    BY <1>1, <1>3, <1>4, <2>1, SamePlaces, FrameKept DEF ExecInv
<1> QED
  BY <1>4, <1>5, <1>6, <1>7, <1>8, <1>9, <1>10 DEF ExecInv

\* What the statements of a script share: the rest of it stays, and the shell
\* goes on only if it had not stopped.
LEMMA ExecutedScript ==
  ASSUME script \in Scripts, NEW ok \in BOOLEAN, NEW wrapped \in BOOLEAN, Executed(ok, wrapped)
  PROVE  /\ script' \in Scripts
         /\ UNCHANGED <<script.condition, script.independent, script.ran, script.workspacePristine,
                        script.dir>>
         /\ script'.running => script.running
<1>1. script.read + 1 \in Nat /\ script.ok \in BOOLEAN /\ script.running \in BOOLEAN
  BY DEF Scripts
<1> DEFINE count == script.read + 1
           o == script.ok /\ (ok \/ ~script.running)
           r == script.running /\ (ok \/ wrapped)
<1>2. count \in Nat /\ o \in BOOLEAN /\ r \in BOOLEAN /\ (r => script.running)
  BY <1>1
<1>3. script' = [script EXCEPT !.read = count, !.ok = o, !.running = r]
  BY Zenon DEF Executed
<1> HIDE DEF count, o, r
<1> QED
  BY <1>2, <1>3 DEF Scripts

\* A change of mode that is understood is remembered; any other ends what is known.
LEMMA ChmodInv ==
  ASSUME ExecInv, NEW c \in Copies, NEW wrapped \in BOOLEAN, Chmod(c, wrapped)
  PROVE  ExecInv'
<1>1. /\ script.open /\ UNCHANGED <<place, frame, live, failed, tampered, shared, found>>
      /\ c \in Targets
      /\ st' = IF ~Checked THEN st
               ELSE IF script.dir = "unknown" \/ ~Located(c) THEN [st EXCEPT !.pristine = FALSE]
               ELSE Wrapped(ChmodMarks(st, c), wrapped)
  BY DEF Chmod, Statement
<1>2. PICK ok \in BOOLEAN :
        /\ Executed(ok, wrapped)
        /\ mode' = IF script.running /\ ok THEN [mode EXCEPT ![c] = "unknown"] ELSE mode
  BY DEF Chmod
<1>3. ExecTypes /\ FindingIsReal /\ script \in Scripts
  BY <1>1 DEF ExecInv, ExecTypes, NoScript
<1>4. /\ script' \in Scripts
      /\ UNCHANGED <<script.condition, script.independent, script.ran, script.workspacePristine,
                     script.dir>>
      /\ script'.running => script.running
  BY <1>2, <1>3, ExecutedScript
<1>5. Checked <=> st.pristine /\ ~Ignored(script.condition)
  BY DEF Checked
<1>6. /\ st' \in States /\ UNCHANGED <<st.sequential, st.repositoryUnknown>>
      /\ st'.pristine => st.pristine
      /\ st'.actionPristine => st.actionPristine
      /\ st.changed \subseteq st'.changed
      /\ Ignored(script.condition) => st' = st
      /\ ~Ignored(script.condition) /\ st'.pristine =>
           /\ c \in st'.changed
           /\ st'.actionPristine => st.actionPristine /\ c # "action"
           /\ st.actionPristine /\ ~st'.actionPristine => c = "action"
  <2>1. st \in States
    BY <1>3 DEF ExecTypes
  <2>2. CASE ~Checked
    BY <1>1, <1>5, <2>1, <2>2
  <2>3. CASE Checked /\ (script.dir = "unknown" \/ ~Located(c))
    BY <1>1, <1>5, <2>1, <2>3 DEF States
  <2>4. CASE Checked /\ ~(script.dir = "unknown" \/ ~Located(c))
    <3> DEFINE m == ChmodMarks(st, c)
    <3>1. /\ m \in States /\ m.sequential = st.sequential /\ m.pristine = st.pristine
          /\ m.repositoryUnknown = st.repositoryUnknown
          /\ m.actionPristine = (st.actionPristine /\ c # "action")
          /\ m.changed = st.changed \cup {c}
      BY <2>1 DEF ChmodMarks, States
    <3>2. /\ st' \in States /\ st'.sequential = m.sequential
          /\ st'.repositoryUnknown = m.repositoryUnknown /\ st'.changed = m.changed
          /\ st'.actionPristine = m.actionPristine
          /\ st'.pristine => m.pristine
      <4> HIDE DEF m
      <4>1. st' = Wrapped(m, wrapped)
        BY <1>1, <2>4 DEF m
      <4> QED
        BY <3>1, <4>1 DEF Wrapped, States
    <3> QED
      BY <1>5, <2>4, <3>1, <3>2
  <2> QED
    BY <2>2, <2>3, <2>4
<1>7. /\ mode' \in [Copies -> {"absent", "indexed", "unknown"}]
      /\ \A d \in Copies : d # c => mode'[d] = mode[d]
      /\ ~script.running => mode' = mode
  BY <1>2, <1>3 DEF ExecTypes
<1>8. tampered' \in BOOLEAN /\ FindingIsReal'
  BY <1>1, <1>3 DEF ExecTypes, FindingIsReal
<1>9. ~Ignored(script.condition) /\ st'.pristine =>
        /\ \A d \in Workspace : mode'[d] = mode[d] \/ d \in st'.changed
        /\ st'.actionPristine => mode'["action"] = mode["action"]
        /\ st.actionPristine /\ ~st'.actionPristine => "action" \in st'.changed
  BY <1>6, <1>7 DEF Copies
<1> QED
  BY <1>1, <1>4, <1>6, <1>7, <1>8, <1>9, StatementInv

\* A change of directory changes no file.
LEMMA ChangeDirectoryInv == ASSUME ExecInv, ChangeDirectory PROVE ExecInv'
<1>1. /\ script.open /\ UNCHANGED <<st, place, frame, live, failed, mode, tampered, shared, found>>
      /\ script' = [script EXCEPT !.read = @ + 1, !.dir = "unknown"]
  BY DEF ChangeDirectory, Statement, runnerVars
<1>2. ExecTypes /\ FindingIsReal /\ script \in Scripts
  BY <1>1 DEF ExecInv, ExecTypes, NoScript
<1>3. /\ script' \in Scripts /\ script'.dir = "unknown"
      /\ UNCHANGED <<script.condition, script.independent, script.ran, script.workspacePristine,
                     script.running>>
  <2> DEFINE count == script.read + 1
  <2>1. count \in Nat
    BY <1>2 DEF Scripts
  <2>2. script' = [script EXCEPT !.read = count, !.dir = "unknown"]
    BY <1>1
  <2> HIDE DEF count
  <2> QED
    BY <1>2, <2>1, <2>2 DEF Scripts
<1>4. st \in States /\ mode \in [Copies -> {"absent", "indexed", "unknown"}] /\ tampered \in BOOLEAN
  BY <1>2 DEF ExecTypes
<1> QED
  BY <1>1, <1>2, <1>3, <1>4, StatementInv DEF FindingIsReal

\* After any other program nothing is understood.
LEMMA UnknownEffect ==
  ASSUME ExecInv, script.open, UNCHANGED <<place, frame, live, failed, shared>>,
         NEW ok \in BOOLEAN, NEW wrapped \in BOOLEAN, Executed(ok, wrapped),
         st' = IF Checked THEN [st EXCEPT !.pristine = FALSE] ELSE st,
         IF script.running THEN AnyEffect ELSE NothingRuns,
         FindingIsReal'
  PROVE  ExecInv'
<1>1. ExecTypes /\ script \in Scripts
  BY DEF ExecInv, ExecTypes, NoScript
<1>2. /\ script' \in Scripts
      /\ UNCHANGED <<script.condition, script.independent, script.ran, script.workspacePristine,
                     script.dir>>
      /\ script'.running => script.running
  BY <1>1, ExecutedScript
<1>3. /\ st' \in States
      /\ UNCHANGED <<st.sequential, st.repositoryUnknown, st.changed, st.actionPristine>>
      /\ st'.pristine => st.pristine
      /\ Ignored(script.condition) => st' = st
      /\ ~Ignored(script.condition) => ~st'.pristine
  <2>1. st \in States
    BY <1>1 DEF ExecTypes
  <2> QED
    BY <2>1 DEF States, Checked
<1>4. /\ mode' \in [Copies -> {"absent", "indexed", "unknown"}] /\ tampered' \in BOOLEAN
      /\ ~script.running => UNCHANGED <<mode, tampered>>
  BY <1>1 DEF ExecTypes, AnyEffect, NothingRuns
<1> QED
  BY <1>2, <1>3, <1>4, StatementInv

\* The script that is reported has the indexed mode.
LEMMA InvokeInv ==
  ASSUME ExecInv, NEW c \in Copies, NEW wrapped \in BOOLEAN, Invoke(c, wrapped)
  PROVE  ExecInv'
<1>1. /\ script.open /\ UNCHANGED <<place, frame, live, failed, shared>>
      /\ c \in Targets
      /\ st' = IF Checked THEN [st EXCEPT !.pristine = FALSE] ELSE st
      /\ IF script.running THEN AnyEffect ELSE NothingRuns
      /\ \E ok \in BOOLEAN : Executed(ok, wrapped)
  BY DEF Invoke, Statement
<1>2. ExecTypes /\ script \in Scripts /\ ScriptFacts
  BY <1>1 DEF ExecInv, ExecTypes, NoScript
<1>3. ASSUME Checked, script.dir # "unknown", Located(c), c \notin st.changed, script.running
      PROVE  mode[c] = "indexed"
  <2>1. /\ st.pristine /\ ~Ignored(script.condition) /\ st.sequential /\ ~Disabled(script.condition)
        /\ live /\ ~failed
    BY <1>1, <1>2, <1>3 DEF Checked, Ignored, Disabled, ScriptFacts
  <2>2. CASE script.dir = "action"
    <3>1. c = "action" /\ st.actionPristine
      BY <1>1, <1>2, <1>3, <2>1, <2>2 DEF Targets, ScriptFacts
    <3> QED
      BY <2>1, <3>1 DEF ExecInv, ActionIsIndexed
  <2>3. CASE script.dir = "workspace"
    <3>1. c \in Workspace /\ ~script.independent
      BY <1>1, <1>2, <2>3 DEF Targets, ScriptFacts
    <3>2. ~st.repositoryUnknown /\ place # <<>>
      BY <2>1, <3>1 DEF ExecInv, CheckedOut
    <3>3. SameSelfCheckout(place, c)
      BY <1>3, <3>1, <3>2 DEF Located, Workspace
    <3>4. Indexed(st, place)
      BY <2>1, <3>1, <3>2 DEF ExecInv, WorkspaceIsIndexed, Understood
    <3> QED
      BY <1>3, <3>1, <3>3, <3>4 DEF Indexed
  <2> QED
    BY <1>2, <1>3, <2>2, <2>3 DEF Scripts
<1>4. FindingIsReal'
  BY <1>3 DEF Invoke, ExecInv, FindingIsReal
<1> QED
  BY <1>1, <1>4, UnknownEffect

\* Another program is not understood.
LEMMA OtherCommandInv == ASSUME ExecInv, OtherCommand PROVE ExecInv'
<1>1. /\ script.open /\ UNCHANGED <<place, frame, live, failed, shared, found>>
      /\ st' = IF Checked THEN [st EXCEPT !.pristine = FALSE] ELSE st
      /\ IF script.running THEN AnyEffect ELSE NothingRuns
      /\ \E ok \in BOOLEAN : Executed(ok, FALSE)
  BY DEF OtherCommand, Statement
<1>2. FindingIsReal'
  BY <1>1 DEF ExecInv, FindingIsReal
<1> QED
  BY <1>1, <1>2, UnknownEffect

\* The step ends: what was not understood, or may have been skipped, is not
\* known of the repository from then on.
LEMMA EndRunInv == ASSUME ExecInv, EndRun PROVE ExecInv'
<1> DEFINE c == script.condition
           effects == st.pristine /\ c.known
           workspace == IF script.independent THEN script.workspacePristine /\ effects ELSE effects
<1>1. /\ script.open /\ script' = NoScript /\ ~script'.open
      /\ UNCHANGED <<place, frame, live, mode, tampered, shared, found>>
      /\ st' = IF Ignored(c) THEN st ELSE RunEnded(st)
      /\ failed' = failed \/ failed' = TRUE
  BY DEF EndRun, StepEnds, NoScript
<1>2. ExecTypes /\ script \in Scripts /\ st \in States /\ place \in Seq(Placements)
  BY <1>1 DEF ExecInv, ExecTypes, NoScript
<1>3. c \in Conditions /\ {c.known, script.independent, script.workspacePristine} \subseteq BOOLEAN
  BY <1>2, ConditionFields DEF Scripts
<1>4. workspace \in BOOLEAN /\ effects \in BOOLEAN
  BY <1>2, <1>3 DEF States
<1>5. /\ st' \in States /\ st'.sequential = st.sequential /\ st'.changed = st.changed
      /\ IF Ignored(c) THEN st' = st
         ELSE /\ st'.pristine = workspace
              /\ st'.actionPristine = (st.actionPristine /\ effects)
              /\ st'.repositoryUnknown = (st.repositoryUnknown \/ ~workspace)
  <2>1. RunEnded(st) = [st EXCEPT !.pristine = workspace, !.actionPristine = @ /\ effects,
                                  !.repositoryUnknown = @ \/ ~workspace]
    BY DEF RunEnded
  <2> HIDE DEF workspace, effects
  <2> QED
    BY <1>1, <1>2, <1>4, <2>1 DEF States
<1>6. Ignored(c) <=> ~st.sequential \/ Disabled(c)
  BY DEF Ignored, Disabled
<1>7. /\ workspace => st.pristine /\ (script.independent => script.workspacePristine)
      /\ st.repositoryUnknown => st'.repositoryUnknown
      /\ st'.actionPristine => st.actionPristine
      /\ ~Ignored(c) /\ st'.actionPristine => st.pristine
      /\ ~Ignored(c) /\ ~st'.repositoryUnknown => workspace
  BY <1>2, <1>4, <1>5 DEF States
<1>8. ExecTypes'
  BY <1>1, <1>2, <1>5 DEF ExecTypes
<1>9. WorkspaceIsIndexed'
  <2> SUFFICES ASSUME live, ~failed', st.sequential, ~st'.repositoryUnknown
               PROVE  Indexed(st, place)'
    BY <1>1, <1>5 DEF WorkspaceIsIndexed
  <2>1. Understood
    BY <1>6, <1>7 DEF Understood
  <2>2. Indexed(st, place)
    BY <1>1, <1>7, <2>1 DEF ExecInv, WorkspaceIsIndexed
  <2> QED
    BY <1>1, <1>5, <2>2 DEF Indexed
<1>10. ActionIsIndexed'
  BY <1>1, <1>5, <1>6, <1>7 DEF ExecInv, ActionIsIndexed
<1>11. CheckedOut'
  <2> SUFFICES ASSUME st'.pristine PROVE ~st'.repositoryUnknown /\ place # <<>>
    BY <1>1 DEF CheckedOut
  <2>1. CASE Ignored(c)
    BY <1>1, <1>5, <2>1 DEF ExecInv, CheckedOut
  <2>2. CASE ~Ignored(c)
    <3>1. workspace
      BY <1>5, <2>2
    <3>2. ~st.repositoryUnknown /\ place # <<>>
      BY <1>1, <1>7, <3>1 DEF ExecInv, CheckedOut
    <3> QED
      BY <1>5, <2>2, <3>1, <3>2
  <2> QED
    BY <2>1, <2>2
<1>12. Concurrent'
  BY <1>1, <1>5 DEF ExecInv, Concurrent
<1>13. ScriptFacts'
  BY <1>1 DEF ScriptFacts
<1>14. FrameFacts'
  BY <1>1, <1>2, <1>5, <1>7, <1>8, SamePlaces, FrameKept DEF ExecInv
<1> QED
  BY <1>1, <1>8, <1>9, <1>10, <1>11, <1>12, <1>13, <1>14 DEF ExecInv, FindingIsReal

-----------------------------------------------------------------------------
(* Composite actions.                                                      *)

\* The action begins with what is known of its caller, or, in the background
\* and where it is never called, with nothing.
LEMMA ForkInv ==
  ASSUME ExecInv, NEW c \in Conditions, NEW mayContinue \in BOOLEAN, NEW background \in BOOLEAN,
         ForkComposite(c, mayContinue, background)
  PROVE  ExecInv'
<1> DEFINE v == Visited(c)
           s == [v EXCEPT !.skipFindings = @ \/ (c.known /\ ~c.enabled)]
<1>1. /\ script = NoScript /\ script' = NoScript /\ ~script.open
      /\ ~frame.entered /\ failed' = FALSE
      /\ UNCHANGED <<place, mode, tampered, found>>
      /\ st' = IF (c.known /\ ~c.enabled) \/ background THEN afterConcurrentExecution(s) ELSE s
      /\ frame' = [entered |-> TRUE, st |-> st, place |-> place, condition |-> c,
                   mayContinue |-> mayContinue, background |-> background, failed |-> failed]
  BY DEF ForkComposite, Reading, NoScript
<1>2. PICK ran \in MayRun(c) : live' = ran /\ shared' = (shared \/ (ran /\ background))
  BY DEF ForkComposite
<1>3. ExecTypes /\ st \in States /\ place \in Seq(Placements) /\ failed \in BOOLEAN /\ live
  BY <1>1 DEF ExecInv, ExecTypes, FrameFacts
<1>4. /\ ran \in BOOLEAN /\ (ran => ~Disabled(c) /\ (failed => c.after))
      /\ ~failed /\ c.known /\ c.enabled => ran
  BY <1>3, ConditionFields DEF MayRun, Disabled
<1>5. v \in States /\ v.sequential = st.sequential /\ v.changed = st.changed
      /\ IF c.after THEN ~v.pristine /\ ~v.actionPristine /\ v.repositoryUnknown ELSE v = st
  BY <1>3, VisitedState
<1>6. c.known \in BOOLEAN /\ c.enabled \in BOOLEAN
  BY ConditionFields
<1>7. /\ st' \in States /\ st'.changed = st.changed
      /\ st'.sequential = (st.sequential /\ ~Disabled(c) /\ ~background)
      /\ st'.repositoryUnknown = v.repositoryUnknown
      /\ IF Disabled(c) \/ background THEN ~st'.pristine /\ ~st'.actionPristine
         ELSE st'.pristine = v.pristine /\ st'.actionPristine = v.actionPristine
  <2>1. /\ s \in States /\ s.sequential = v.sequential /\ s.changed = v.changed
        /\ s.repositoryUnknown = v.repositoryUnknown
        /\ s.pristine = v.pristine /\ s.actionPristine = v.actionPristine
    <3> HIDE DEF v
    <3> QED
      BY <1>5, <1>6 DEF States
  <2> HIDE DEF s, v
  <2>2. CASE Disabled(c) \/ background
    BY <1>1, <1>5, <2>1, <2>2 DEF States, afterConcurrentExecution, Disabled
  <2>3. CASE ~(Disabled(c) \/ background)
    BY <1>1, <1>3, <1>5, <2>1, <2>3 DEF States, Disabled
  <2> QED
    BY <2>2, <2>3
<1>8. frame' \in Frames
  BY <1>1, <1>3 DEF Frames
<1>9. /\ frame'.entered /\ frame'.st = st /\ frame'.place = place /\ frame'.condition = c
      /\ frame'.background = background /\ frame'.failed = failed
  BY <1>1
<1>10. /\ st'.sequential => st.sequential /\ ~Disabled(c) /\ ~background
       /\ st.repositoryUnknown => st'.repositoryUnknown
       /\ ~st'.repositoryUnknown => ~c.after /\ v = st
       /\ st'.pristine => v = st /\ st.pristine /\ ~st'.repositoryUnknown
       /\ st'.actionPristine => v = st /\ st.actionPristine
  <2>1. st.pristine => ~st.repositoryUnknown
    BY <1>1 DEF ExecInv, CheckedOut
  <2> QED
    BY <1>3, <1>5, <1>7, <2>1 DEF States
<1>11. ExecTypes'
  BY <1>1, <1>2, <1>3, <1>4, <1>7, <1>8 DEF ExecTypes
<1>12. ~failed /\ st.sequential /\ ~st.repositoryUnknown => Indexed(st, place)
  BY <1>1, <1>3 DEF ExecInv, WorkspaceIsIndexed, Understood
<1>13. st.sequential /\ st.actionPristine => mode["action"] = "indexed"
  BY <1>1 DEF ExecInv, ActionIsIndexed
<1>14. WorkspaceIsIndexed'
  <2> SUFFICES ASSUME live', st'.sequential, ~st'.repositoryUnknown
               PROVE  Indexed(st, place)'
    BY DEF WorkspaceIsIndexed
  <2>1. ~failed /\ st.sequential /\ ~st.repositoryUnknown
    BY <1>2, <1>4, <1>10
  <2> QED
    BY <1>1, <1>7, <1>12, <2>1 DEF Indexed
<1>15. ActionIsIndexed'
  BY <1>1, <1>10, <1>13 DEF ActionIsIndexed
<1>16. CheckedOut'
  BY <1>1, <1>10 DEF ExecInv, CheckedOut
<1>17. Concurrent'
  BY <1>2, <1>10 DEF ExecInv, Concurrent
<1>18. ScriptFacts'
  BY <1>1 DEF ScriptFacts
<1>19. FrameFacts'
  <2>1. st.pristine => ~st.repositoryUnknown /\ place # <<>>
    BY <1>1 DEF ExecInv, CheckedOut
  <2>2. /\ Len(place) <= Len(place')
        /\ \A i \in 1..Len(place) : place'[Len(place') - Len(place) + i] = place[i]
    BY <1>1, <1>3, SamePlaces
  <2>3. ~ran => /\ shared' => ~st.sequential
                /\ ~failed /\ st.sequential /\ ~st.repositoryUnknown
                     => Indexed(frame.st, frame.place)'
    BY <1>1, <1>2, <1>9, <1>12 DEF ExecInv, Concurrent, Indexed
  <2>4. Disabled(c) => ~ran
    BY <1>4
  <2> HIDE DEF v, s
  <2> QED
    BY <1>1, <1>2, <1>4, <1>9, <1>10, <1>13, <2>1, <2>2, <2>3, <2>4 DEF FrameFacts, Disabled
<1> QED
  BY <1>1, <1>11, <1>14, <1>15, <1>16, <1>17, <1>18, <1>19 DEF ExecInv, FindingIsReal

\* Afterwards the caller knows what holds whether or not the action was called:
\* the called one's view, as far as the placements of both agree on it.
LEMMA JoinInv == ASSUME ExecInv, JoinComposite PROVE ExecInv'
<1> DEFINE c == frame.condition
           mayFail == frame.mayContinue \/ frame.background
<1>1. /\ script = NoScript /\ script' = NoScript /\ ~script.open
      /\ frame.entered /\ frame' = NoFrame /\ ~frame'.entered /\ live' = TRUE
      /\ UNCHANGED <<mode, tampered, shared, found>>
      /\ st' = Joined(frame.st, st) /\ place' = JoinedPlacement
  BY DEF JoinComposite, NoScript, NoFrame
<1>2. /\ failed' = frame.failed \/ failed' = TRUE
      /\ ~failed' => ~(live /\ failed) \/ mayFail
  BY DEF JoinComposite
<1>3. ExecTypes /\ frame \in Frames /\ st \in States /\ place \in Seq(Placements)
      /\ {live, failed} \subseteq BOOLEAN
  BY <1>1 DEF ExecInv, ExecTypes, NoFrame
<1>4. /\ frame.st \in States /\ frame.place \in Seq(Placements) /\ c \in Conditions
      /\ {frame.mayContinue, frame.background, frame.failed} \subseteq BOOLEAN
  BY <1>3 DEF Frames
<1>5. {c.enabled, c.known} \subseteq BOOLEAN
  BY <1>4, ConditionFields
<1>6. /\ st.sequential => frame.st.sequential /\ ~frame.background
      /\ frame.st.repositoryUnknown => st.repositoryUnknown
      /\ frame.st.pristine => ~frame.st.repositoryUnknown /\ frame.place # <<>>
      /\ Disabled(c) => ~live
      /\ c.known /\ c.enabled /\ ~frame.failed => live
      /\ Len(frame.place) <= Len(place)
      /\ \A i \in 1..Len(frame.place) : place[Len(place) - Len(frame.place) + i] = frame.place[i]
      /\ ~live => /\ shared => ~frame.st.sequential
                  /\ ~frame.failed /\ frame.st.sequential /\ ~frame.st.repositoryUnknown
                       => Indexed(frame.st, frame.place)
                  /\ frame.st.sequential /\ frame.st.actionPristine => mode["action"] = "indexed"
  BY <1>1 DEF ExecInv, FrameFacts
<1>7. st' \in States
      /\ IF Disabled(c) THEN st' = frame.st
         ELSE /\ st'.changed = IF c.known THEN st.changed ELSE frame.st.changed \cup st.changed
              /\ st'.actionPristine = (frame.st.actionPristine /\ st.actionPristine)
              /\ st'.repositoryUnknown = (st.repositoryUnknown \/ frame.mayContinue)
              /\ st'.pristine = (c.known /\ ~frame.mayContinue /\ st.pristine)
              /\ st'.sequential = st.sequential
  <2>1. CASE Disabled(c)
    BY <1>1, <1>4, <2>1 DEF Joined, Disabled
  <2>2. CASE ~Disabled(c)
    <3> DEFINE changed == IF c.known THEN st.changed ELSE frame.st.changed \cup st.changed
               actionPristine == frame.st.actionPristine /\ st.actionPristine
               unknown == st.repositoryUnknown \/ frame.mayContinue
               pristine == c.known /\ ~frame.mayContinue /\ st.pristine
    <3>1. st' = [frame.st EXCEPT !.changed = changed, !.actionPristine = actionPristine,
                   !.repositoryUnknown = unknown, !.pristine = pristine,
                   !.sequential = st.sequential]
      BY <1>1, <2>2 DEF Joined, Disabled
    <3>2. /\ changed \in SUBSET Copies
          /\ {actionPristine, unknown, pristine, st.sequential} \subseteq BOOLEAN
      BY <1>3, <1>4, <1>5 DEF States
    <3> HIDE DEF changed, actionPristine, unknown, pristine
    <3>3. /\ st' \in States /\ st'.changed = changed /\ st'.actionPristine = actionPristine
          /\ st'.repositoryUnknown = unknown /\ st'.pristine = pristine
          /\ st'.sequential = st.sequential
      BY <1>4, <3>1, <3>2 DEF States
    <3> QED
      BY <2>2, <3>3 DEF changed, actionPristine, unknown, pristine
  <2> QED
    BY <2>1, <2>2
<1>8. /\ place' \in Seq(Placements)
      /\ Disabled(c) => place' = frame.place
      /\ ~Disabled(c) /\ place # <<>> => place' # <<>>
      /\ \A d \in Workspace : SameSelfCheckout(place', d) /\ ~Disabled(c) =>
           /\ SameSelfCheckout(place, d)
           /\ ~c.known => SameSelfCheckout(frame.place, d)
  <2>1. CASE Disabled(c)
    BY <1>1, <1>4, <2>1 DEF JoinedPlacement, Disabled
  <2>2. CASE ~Disabled(c) /\ (~c.known \/ mayFail)
    <3> DEFINE merged == MergeCheckoutBranches(frame.place, place, mayFail)
    <3>1. place' = merged
      BY <1>1, <2>2 DEF JoinedPlacement, Disabled
    <3>2. /\ merged \in Seq(Placements) /\ Len(merged) = Len(place)
          /\ \A d \in Workspace : SameSelfCheckout(merged, d) =>
               SameSelfCheckout(frame.place, d) /\ SameSelfCheckout(place, d)
      <4>1. mayFail \in BOOLEAN
        BY <1>4
      <4> HIDE DEF mayFail
      <4> QED
        BY <1>3, <1>4, <1>6, <4>1, MergedBranches
    <3> HIDE DEF merged
    <3>3. place # <<>> => place' # <<>>
      BY <1>3, <3>1, <3>2
    <3> QED
      BY <2>2, <3>1, <3>2, <3>3
  <2>3. CASE ~Disabled(c) /\ c.known /\ ~mayFail
    <3>1. place' = place
      BY <1>1, <2>3 DEF JoinedPlacement, Disabled
    <3> QED
      BY <1>3, <2>3, <3>1
  <2> QED
    BY <2>1, <2>2, <2>3
<1>9. ExecTypes'
  BY <1>1, <1>2, <1>3, <1>4, <1>7, <1>8 DEF ExecTypes
<1>10. WorkspaceIsIndexed'
  <2> SUFFICES ASSUME ~failed', st'.sequential, ~st'.repositoryUnknown
               PROVE  Indexed(st, place)'
    BY DEF WorkspaceIsIndexed
  <2>1. ~frame.failed
    BY <1>2
  <2>2. CASE Disabled(c)
    BY <1>1, <1>6, <1>7, <1>8, <2>1, <2>2 DEF Indexed
  <2>3. CASE ~Disabled(c)
    <3>1. st.sequential /\ ~st.repositoryUnknown /\ ~frame.mayContinue
      BY <1>3, <1>4, <1>7, <2>3 DEF States
    <3>2. frame.st.sequential /\ ~frame.background /\ ~frame.st.repositoryUnknown
          /\ ~(live /\ failed)
      BY <1>2, <1>6, <3>1
    <3>3. \A d \in Workspace : SameSelfCheckout(place', d) =>
            /\ SameSelfCheckout(place, d)
            /\ ~c.known => SameSelfCheckout(frame.place, d)
      BY <1>8, <2>3
    <3>4. CASE live
      <4>1. Indexed(st, place)
        BY <1>1, <3>1, <3>2, <3>4 DEF ExecInv, WorkspaceIsIndexed, Understood
      <4>2. st.changed \subseteq st'.changed
        BY <1>7, <2>3
      <4> QED
        BY <1>1, <3>3, <4>1, <4>2 DEF Indexed
    <3>5. CASE ~live
      <4>1. ~c.known
        BY <1>5, <1>6, <2>1, <2>3, <3>5 DEF Disabled
      <4>2. Indexed(frame.st, frame.place)
        BY <1>6, <2>1, <3>2, <3>5
      <4>3. frame.st.changed \subseteq st'.changed
        BY <1>7, <2>3, <4>1
      <4> QED
        BY <1>1, <3>3, <4>1, <4>2, <4>3 DEF Indexed
    <3> QED
      BY <3>4, <3>5
  <2> QED
    BY <2>2, <2>3
<1>11. ActionIsIndexed'
  <2> SUFFICES ASSUME st'.sequential, st'.actionPristine PROVE mode["action"] = "indexed"
    BY <1>1 DEF ActionIsIndexed
  <2>1. CASE Disabled(c)
    BY <1>6, <1>7, <2>1
  <2>2. CASE ~Disabled(c)
    <3>1. st.sequential /\ st.actionPristine
      BY <1>7, <2>2
    <3> QED
      BY <1>1, <3>1 DEF ExecInv, ActionIsIndexed
  <2> QED
    BY <2>1, <2>2
<1>12. CheckedOut'
  <2> SUFFICES ASSUME st'.pristine PROVE ~st'.repositoryUnknown /\ place' # <<>>
    BY <1>1 DEF CheckedOut
  <2>1. CASE Disabled(c)
    BY <1>6, <1>7, <1>8, <2>1
  <2>2. CASE ~Disabled(c)
    <3>1. st.pristine /\ ~frame.mayContinue
      BY <1>7, <2>2
    <3>2. ~st.repositoryUnknown /\ place # <<>>
      BY <1>1, <3>1 DEF ExecInv, CheckedOut
    <3> QED
      BY <1>7, <1>8, <2>2, <3>1, <3>2
  <2> QED
    BY <2>1, <2>2
<1>13. Concurrent'
  BY <1>1, <1>6, <1>7 DEF ExecInv, Concurrent
<1>14. ScriptFacts' /\ FrameFacts'
  BY <1>1 DEF ScriptFacts, FrameFacts
<1> QED
  BY <1>1, <1>9, <1>10, <1>11, <1>12, <1>13, <1>14 DEF ExecInv, FindingIsReal

-----------------------------------------------------------------------------
(* The job.                                                                *)

\* Nothing is checked out in a new job, and nothing is known of a runner that
\* earlier jobs have used.
LEMMA InitExecInv == ExecInit => ExecInv
<1> SUFFICES ASSUME ExecInit PROVE ExecInv
  OBVIOUS
<1>1. PICK hosted \in BOOLEAN, called \in BOOLEAN :
        /\ st = newExecutableState(hosted, called)
        /\ tampered = (called \/ ~hosted)
        /\ mode = [c \in Copies |-> IF ~hosted THEN "unknown"
                                    ELSE IF c = "action" THEN "indexed" ELSE "absent"]
  BY DEF ExecInit
<1>2. /\ place = <<>> /\ frame = NoFrame /\ script = NoScript
      /\ live = TRUE /\ failed = FALSE /\ shared = FALSE /\ found = {}
      /\ ~script.open /\ ~frame.entered
  BY DEF ExecInit, NoScript, NoFrame
<1>3. /\ st \in States /\ st.actionPristine = hosted /\ ~st.pristine
      /\ st.repositoryUnknown = (called \/ ~hosted)
  BY <1>1 DEF newExecutableState, States
<1>4. /\ mode \in [Copies -> {"absent", "indexed", "unknown"}] /\ tampered \in BOOLEAN
      /\ hosted => mode["action"] = "indexed"
  BY <1>1 DEF Copies
<1>5. \A d \in Workspace : ~SameSelfCheckout(<<>>, d)
  <2> TAKE d \in Workspace
  <2>1. {i \in 1..Len(<<>>) : d \in Below(<<>>[i].dir)} = {}
    OBVIOUS
  <2> QED
    BY <2>1 DEF SameSelfCheckout, Matching, Workspace
<1>6. ExecTypes
  <2>1. <<>> \in Seq(Placements)
    OBVIOUS
  <2> QED
    BY <1>2, <1>3, <1>4, <2>1 DEF ExecTypes
<1>7. WorkspaceIsIndexed
  BY <1>1, <1>2, <1>3, <1>5 DEF WorkspaceIsIndexed, Indexed
<1>8. ActionIsIndexed /\ CheckedOut /\ Concurrent /\ ScriptFacts /\ FrameFacts
  BY <1>2, <1>3, <1>4 DEF ActionIsIndexed, CheckedOut, Concurrent, ScriptFacts, FrameFacts
<1> QED
  BY <1>2, <1>6, <1>7, <1>8 DEF ExecInv, FindingIsReal

\* The invariant is about the state only.
LEMMA StutterExecInv == ASSUME ExecInv, UNCHANGED execVars PROVE ExecInv'
<1>1. UNCHANGED <<st, place, frame, script, live, failed, mode, tampered, shared, found>>
  BY DEF execVars
<1>2. ExecTypes' /\ FindingIsReal'
  BY <1>1 DEF ExecInv, ExecTypes, FindingIsReal
<1>3. WorkspaceIsIndexed'
  BY <1>1 DEF ExecInv, WorkspaceIsIndexed, Understood, Indexed
<1>4. ActionIsIndexed' /\ Concurrent'
  BY <1>1 DEF ExecInv, ActionIsIndexed, Concurrent
<1>5. CheckedOut'
  BY <1>1 DEF ExecInv, CheckedOut, Ignored
<1>6. ScriptFacts'
  BY <1>1 DEF ExecInv, ScriptFacts, Ignored
<1>7. FrameFacts'
  BY <1>1 DEF ExecInv, FrameFacts, Indexed
<1> QED
  BY <1>2, <1>3, <1>4, <1>5, <1>6, <1>7 DEF ExecInv

\* Every step keeps the invariant.
LEMMA NextExecInv == ASSUME ExecInv, [ExecNext]_execVars PROVE ExecInv'
<1>1. CASE UNCHANGED execVars
  BY <1>1, StutterExecInv
<1>2. CASE ReadStep
  <2>1. PICK c \in Conditions, mayContinue \in BOOLEAN :
          \/ \E dir \in Workspace, input \in {"self", "noclean", "foreign"} :
               CheckoutStep(dir, input, c, mayContinue)
          \/ OpaqueStep(c, mayContinue)
          \/ \E dir \in {"workspace", "action", "unknown"} : StartRun(c, mayContinue, dir)
          \/ \E background \in BOOLEAN : ForkComposite(c, mayContinue, background)
    BY <1>2 DEF ReadStep
  <2> QED
    BY <2>1, CheckoutInv, OpaqueInv, StartRunInv, ForkInv
<1>3. CASE \E c \in Conditions : ConcurrentStep(c)
  BY <1>3, ConcurrentInv
<1>4. CASE ReadStatement
  BY <1>4, ChmodInv, InvokeInv, ChangeDirectoryInv, OtherCommandInv DEF ReadStatement
<1>5. CASE EndRun
  BY <1>5, EndRunInv
<1>6. CASE JoinComposite
  BY <1>6, JoinInv
<1>7. CASE Interfere
  BY <1>7, InterfereInv
<1> QED
  BY <1>1, <1>2, <1>3, <1>4, <1>5, <1>6, <1>7 DEF ExecNext

\* Whatever was skipped, failed, ran concurrently, was checked out again or ran
\* in a composite action before: ExecutableChecker reports only scripts that have
\* the mode of the Git index when the job runs them.
THEOREM FindingsAreReal == ExecSpec => []FindingIsReal
<1>1. ExecInv /\ [ExecNext]_execVars => ExecInv'
  BY NextExecInv
<1>2. ExecInv => FindingIsReal
  BY DEF ExecInv
<1> QED
  BY InitExecInv, <1>1, <1>2, PTL DEF ExecSpec
=============================================================================
