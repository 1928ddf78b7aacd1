------------------------------ MODULE JobNeeds ------------------------------
(***************************************************************************)
(* The check of a workflow's job dependencies                              *)
(* (internal/semantics/jobneeds/check.go): declarations are collected,     *)
(* needs are resolved, and a depth-first search looks for a cycle, which   *)
(* is then reported from its job that is declared first.                   *)
(*                                                                         *)
(* A job ID is its lower-cased text, numbered in the order in which IDs    *)
(* sort; 0 is the empty text.  The position of a job is its place in the   *)
(* source-ordered list; the list is an input, revealed as it is read.  The *)
(* recursion of visit is kept as the stack the code keeps anyway and, for  *)
(* each ID on it, the place its loop has reached.                          *)
(***************************************************************************)
EXTENDS Naturals, Sequences

CONSTANTS
    MaxId,     \* IDs are 0..MaxId
    MaxJobs,   \* bound on the jobs of a workflow
    MaxNeeds   \* bound on the needs of a job

ASSUME BoundsAssumption == MaxId \in Nat /\ MaxJobs \in Nat /\ MaxNeeds \in Nat

Ids == 1..MaxId
Texts == 0..MaxId

VARIABLES
    line,      \* position of the job that is read
    read,      \* how many of its needs have been read
    current,   \* the needs kept for it
    phase,     \* where Check is
    start,     \* start of the node of an ID, 0 when there is no node
    needs,     \* needs of the node of an ID
    repeated,  \* <<line, n>>: need n of a job, or its ID for n = 0, repeats
    missing,   \* <<id, dep>> pairs reported as not existing
    state,     \* state of an ID in the search: 0, 1 or 2
    stack,     \* IDs being visited
    next,      \* the loop index of visit for each ID
    finished,  \* how many visits had ended when the visit of an ID ended
    visits,    \* how many visits have ended
    cycle      \* the cycle that was found, then the one that is reported

declarations == <<line, read, current, start, needs, repeated>>
search == <<state, stack, next, finished, visits>>
vars == <<declarations, phase, missing, search, cycle>>

Init ==
    /\ line = 1 /\ read = 0 /\ current = <<>>
    /\ phase = "declare"
    /\ start = [i \in Ids |-> 0]
    /\ needs = [i \in Ids |-> <<>>]
    /\ repeated = {} /\ missing = {}
    /\ state = [i \in Ids |-> 0]
    /\ stack = <<>>
    /\ next = [i \in Ids |-> 1]
    /\ finished = [i \in Ids |-> 0] /\ visits = 0
    /\ cycle = <<>>

\* The keys of nodes.
Nodes == {i \in Ids : start[i] # 0}

\* The node of i needs d.
Edge(i, d) == \E n \in 1..Len(needs[i]) : needs[i][n] = d

-----------------------------------------------------------------------------
(* Declarations.                                                           *)

\* Empty and repeated needs are dropped; repeated ones are reported.
ReadNeed(text) ==
    /\ phase = "declare" /\ line <= MaxJobs /\ read < MaxNeeds
    /\ read' = read + 1
    /\ IF \E n \in 1..Len(current) : current[n] = text
         THEN repeated' = repeated \cup {<<line, read + 1>>} /\ UNCHANGED current
         ELSE /\ current' = IF text = 0 THEN current ELSE Append(current, text)
              /\ UNCHANGED repeated
    /\ UNCHANGED <<line, start, needs, phase, missing, search, cycle>>

\* A repeated ID replaces the node, and is reported.
DeclareJob(text) ==
    /\ phase = "declare" /\ line <= MaxJobs
    /\ IF text = 0 THEN UNCHANGED <<start, needs, repeated>>
       ELSE /\ repeated' = IF text \in Nodes THEN repeated \cup {<<line, 0>>} ELSE repeated
            /\ start' = [start EXCEPT ![text] = line]
            /\ needs' = [needs EXCEPT ![text] = current]
    /\ line' = line + 1 /\ read' = 0 /\ current' = <<>>
    /\ UNCHANGED <<phase, missing, search, cycle>>

\* The search runs only on a graph whose needs all exist.
Resolve ==
    /\ phase = "declare" /\ read = 0
    /\ missing' = {e \in Nodes \X Ids : e[2] \notin Nodes /\ Edge(e[1], e[2])}
    /\ phase' = IF missing' = {} THEN "search" ELSE "done"
    /\ UNCHANGED <<declarations, search, cycle>>

-----------------------------------------------------------------------------
(* visit and the loop that calls it.                                       *)

Enter(i) ==
    /\ state' = [state EXCEPT ![i] = 1]
    /\ stack' = Append(stack, i)

\* The outer loop, over the sorted keys.
VisitKey ==
    /\ phase = "search" /\ stack = <<>>
    /\ \E i \in Nodes :
         /\ state[i] = 0
         /\ \A j \in Nodes : state[j] = 0 => i <= j
         /\ Enter(i)
    /\ UNCHANGED <<declarations, phase, missing, next, finished, visits, cycle>>

Top == stack[Len(stack)]
Visiting == phase = "search" /\ stack # <<>>
MoreNeeds == next[Top] <= Len(needs[Top])
Dep == needs[Top][next[Top]]

\* Fault: the cycle is the whole stack.
FoundFromBottom ==
    /\ Visiting /\ MoreNeeds /\ state[Dep] = 1
    /\ cycle' = stack
    /\ phase' = "report"
    /\ UNCHANGED <<declarations, missing, search>>

Found ==
    /\ Visiting /\ MoreNeeds /\ state[Dep] = 1
    /\ \E k \in 1..Len(stack) : stack[k] = Dep /\ cycle' = SubSeq(stack, k, Len(stack))
    /\ phase' = "report"
    /\ UNCHANGED <<declarations, missing, search>>

Descend ==
    /\ Visiting /\ MoreNeeds /\ state[Dep] = 0
    /\ Enter(Dep)
    /\ next' = [next EXCEPT ![Top] = @ + 1]
    /\ UNCHANGED <<declarations, phase, missing, finished, visits, cycle>>

\* Fault: an ID that is being visited is skipped like one that was visited.
SkipEntered ==
    /\ Visiting /\ MoreNeeds /\ state[Dep] # 0
    /\ next' = [next EXCEPT ![Top] = @ + 1]
    /\ UNCHANGED <<declarations, phase, missing, state, stack, finished, visits, cycle>>

Skip ==
    /\ Visiting /\ MoreNeeds /\ state[Dep] = 2
    /\ next' = [next EXCEPT ![Top] = @ + 1]
    /\ UNCHANGED <<declarations, phase, missing, state, stack, finished, visits, cycle>>

Finish ==
    /\ Visiting /\ ~MoreNeeds
    /\ stack' = SubSeq(stack, 1, Len(stack) - 1)
    /\ state' = [state EXCEPT ![Top] = 2]
    /\ visits' = visits + 1
    /\ finished' = [finished EXCEPT ![Top] = visits + 1]
    /\ UNCHANGED <<declarations, phase, missing, next, cycle>>

NothingLeft ==
    /\ phase = "search" /\ stack = <<>>
    /\ \A i \in Nodes : state[i] # 0
    /\ phase' = "done"
    /\ UNCHANGED <<declarations, missing, search, cycle>>

\* Rotate the cycle to its job that is declared first.
Report ==
    /\ phase = "report"
    /\ \E f \in 1..Len(cycle) :
         /\ \A k \in 1..Len(cycle) : start[cycle[f]] <= start[cycle[k]]
         /\ cycle' = SubSeq(cycle, f, Len(cycle)) \o SubSeq(cycle, 1, f - 1)
    /\ phase' = "done"
    /\ UNCHANGED <<declarations, missing, search>>

Search == VisitKey \/ Found \/ Descend \/ Skip \/ Finish \/ NothingLeft

Declare == \E text \in Texts : ReadNeed(text) \/ DeclareJob(text)

Next == Declare \/ Resolve \/ Search \/ Report

Spec == Init /\ [][Next]_vars

-----------------------------------------------------------------------------
(* Properties.                                                             *)

\* Types: the search only ever stands on declared jobs.
TypeOK ==
    /\ line \in Nat \ {0} /\ read \in Nat
    /\ current \in Seq(Ids)
    /\ phase \in {"declare", "search", "report", "done"}
    /\ start \in [Ids -> Nat]
    /\ needs \in [Ids -> Seq(Ids)]
    /\ state \in [Ids -> 0..2]
    /\ stack \in Seq(Nodes)
    /\ next \in [Ids -> Nat \ {0}]
    /\ finished \in [Ids -> Nat] /\ visits \in Nat
    /\ cycle \in Seq(Nodes)

\* What is reported is a cycle of the workflow's needs without repetitions, and
\* it starts with its job that is declared first.
CycleIsReal ==
    phase = "done" /\ cycle # <<>> =>
        /\ \A k \in 1..(Len(cycle) - 1) : Edge(cycle[k], cycle[k + 1])
        /\ Edge(cycle[Len(cycle)], cycle[1])
        /\ \A j, k \in 1..Len(cycle) : cycle[j] = cycle[k] => j = k
        /\ \A k \in 1..Len(cycle) : start[cycle[1]] <= start[cycle[k]]

\* A rank is an order in which the jobs can run.
IsRank(r) == \A i, d \in Nodes : Edge(i, d) => r[d] < r[i]

\* When every need exists and no cycle is reported, the jobs can be ordered so
\* that each comes after what it needs: the search misses no cycle, although it
\* visits an ID once and cuts every branch that meets a visited one.
NoCycleMissed ==
    phase = "done" /\ missing = {} /\ cycle = <<>> =>
        \E r \in [Ids -> 0..visits] : IsRank(r)
=============================================================================
