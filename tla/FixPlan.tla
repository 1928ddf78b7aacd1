------------------------------- MODULE FixPlan -------------------------------
(***************************************************************************)
(* Making a fix plan from the findings of a check (internal/fix/plan.go,   *)
(* Build): one permitted alternative per finding is taken, its edits are   *)
(* collected by path, and the edits of each path are sorted, deduplicated, *)
(* checked for overlaps and applied to the content.                        *)
(*                                                                         *)
(* The findings are an input, revealed as they are read.  A content is     *)
(* <<1, ..., Length>>; an edit replaces the bytes start+1 .. end by a text *)
(* of at most one byte, which may be one of the content.                   *)
(***************************************************************************)
EXTENDS Naturals, Sequences, SequencesExt

CONSTANTS
    NumPaths,   \* paths are 1..NumPaths, in the order in which they sort
    Length,     \* length of each content
    Bytes,      \* bytes of replacements
    MaxEdits,   \* bound on the edits of all findings
    MaxSkipped, \* bound on the alternatives that are not permitted
    IncludeSuggested

ASSUME FixPlanAssumption == NumPaths \in Nat /\ Length \in Nat

Paths == 1..NumPaths
Before == [k \in 1..Length |-> k]
Replacements == {<<>>} \cup {<<b>> : b \in Bytes}
Edits == [start : 0..Length, end : 0..Length, text : Replacements]

VARIABLES
    progress, \* "choosing" an alternative, "taking" its edits, "building",
              \* "done" or "refused"
    edits,    \* the edits collected for each path
    skipped,  \* p.Skipped
    path,     \* the path that is built next
    changes   \* the paths and new contents in p.Changes

planVars == <<progress, edits, skipped, path, changes>>

PlanInit ==
    /\ progress = "choosing"
    /\ edits = [p \in Paths |-> <<>>]
    /\ skipped = 0
    /\ path = 1
    /\ changes = <<>>

\* Every error returns an empty plan.
Refuse ==
    /\ progress' = "refused"
    /\ edits' = [p \in Paths |-> <<>>]
    /\ changes' = <<>> /\ skipped' = 0
    /\ UNCHANGED path

-----------------------------------------------------------------------------
(* The loop over findings, alternatives and edits.                         *)

\* An alternative that is not safe needs permission.
Choose(safe) ==
    /\ progress = "choosing"
    /\ IF safe \/ IncludeSuggested THEN progress' = "taking" /\ UNCHANGED skipped
       ELSE /\ skipped < MaxSkipped
            /\ skipped' = skipped + 1 /\ UNCHANGED progress
    /\ UNCHANGED <<edits, path, changes>>

\* The check of the offsets.
ValidRange(e) == e.start <= e.end

Collected == FoldLeft(LAMBDA n, p : n + Len(edits[p]), 0, [p \in Paths |-> p])

TakeEdit(p, e) ==
    /\ progress = "taking"
    /\ Collected < MaxEdits
    /\ IF ValidRange(e)
         THEN /\ edits' = [edits EXCEPT ![p] = Append(@, e)]
              /\ UNCHANGED <<progress, skipped, path, changes>>
         ELSE Refuse

\* Cancelled, no writable path, unreadable, a missing or stale revision, or a
\* position outside the document.
TakeFails == progress = "taking" /\ Refuse

\* The alternative is complete; the others of the finding are not looked at.
TakenAll ==
    /\ progress = "taking"
    /\ progress' = "choosing"
    /\ UNCHANGED <<edits, skipped, path, changes>>

NoFindingLeft ==
    /\ progress = "choosing"
    /\ progress' = "building"
    /\ UNCHANGED <<edits, skipped, path, changes>>

-----------------------------------------------------------------------------
(* The loop over the sorted paths.                                         *)

\* The orders SortFunc may leave: it is not stable.
Sorted(s) ==
    {t \in {[k \in DOMAIN s |-> s[f[k]]] : f \in Bijection(DOMAIN s, DOMAIN s)} :
       \A k \in 1..(Len(s) - 1) :
         \/ t[k].start < t[k + 1].start
         \/ t[k].start = t[k + 1].start /\ t[k].end <= t[k + 1].end}

\* slices.Compact: an element that equals the one before it is left out.
Compact(t) ==
    LET upTo[n \in 0..Len(t)] ==
          IF n = 0 THEN <<>>
          ELSE IF n > 1 /\ t[n] = t[n - 1] THEN upTo[n - 1]
          ELSE Append(upTo[n - 1], t[n])
    IN  upTo[Len(t)]

\* Fault: two insertions at one place are accepted.
OverlapsStrictly(t) == \E k \in 2..Len(t) : t[k].start < t[k - 1].end

Overlaps(t) ==
    \E k \in 2..Len(t) : t[k].start < t[k - 1].end \/ t[k].start = t[k - 1].start

\* The content written before each edit, up to its end, and the rest.
Apply(t) ==
    LET cursor(n) == IF n = 0 THEN 0 ELSE t[n].end
        after[n \in 0..Len(t)] ==
          IF n = 0 THEN <<>>
          ELSE after[n - 1] \o SubSeq(Before, cursor(n - 1) + 1, t[n].start) \o t[n].text
    IN  after[Len(t)] \o SubSeq(Before, cursor(Len(t)) + 1, Length)

\* A path without edits is no key of edits.
BuildChange ==
    /\ progress = "building" /\ path \in Paths
    /\ \E t \in Sorted(edits[path]) :
         IF Overlaps(Compact(t)) THEN Refuse
         ELSE /\ changes' = IF Apply(Compact(t)) = Before THEN changes
                            ELSE Append(changes, [path |-> path, after |-> Apply(Compact(t))])
              /\ path' = path + 1
              /\ UNCHANGED <<progress, edits, skipped>>

Done ==
    /\ progress = "building" /\ path \notin Paths
    /\ progress' = "done"
    /\ UNCHANGED <<edits, skipped, path, changes>>

-----------------------------------------------------------------------------
PlanNext ==
    \/ \E safe \in BOOLEAN : Choose(safe)
    \/ \E p \in Paths, e \in Edits : TakeEdit(p, e)
    \/ TakeFails \/ TakenAll \/ NoFindingLeft
    \/ BuildChange \/ Done

PlanSpec == PlanInit /\ [][PlanNext]_planVars

-----------------------------------------------------------------------------
(* Properties.                                                             *)

\* Two different edits of a content that cannot both be made: they replace a
\* common byte, one inserts inside the range of the other, or they begin at the
\* same place, so that their order would matter.
Conflict(S) ==
    \E e, f \in S : /\ e # f /\ e.start <= f.start
                    /\ e.start = f.start \/ f.start < e.end

\* The text of the edit that begins after k bytes, and the byte k unless an edit
\* replaces it.
InsertedAt(S, k) ==
    LET here == {e \in S : e.start = k}
    IN  IF here = {} THEN <<>> ELSE (CHOOSE e \in here : TRUE).text

KeptByte(S, k) ==
    IF k > Length \/ (\E e \in S : e.start < k /\ k <= e.end) THEN <<>> ELSE <<k>>

\* The content in which every edit of S is made.
Fixed(S) ==
    FlattenSeq([k \in 1..(Length + 1) |-> InsertedAt(S, k - 1) \o KeptByte(S, k)])

\* No path that is passed has conflicting edits, although only neighbours are
\* compared; one without conflicts is never refused for its overlaps, however
\* its edits were sorted, as the same fix proposed by several findings is made
\* once; and a refused plan is empty, its other paths included.
RefusalIsExact ==
    /\ progress = "refused" => changes = <<>>
    /\ progress = "building" /\ path \in Paths /\ ~Conflict(ToSet(edits[path])) =>
         \A t \in Sorted(edits[path]) : ~Overlaps(Compact(t))
    /\ \A p \in Paths : p < path /\ progress # "refused" => ~Conflict(ToSet(edits[p]))

\* A plan that Build returns changes exactly the paths whose content differs, in
\* order, each to the content that has all the edits taken for it, whatever
\* order the findings came in.
ChangesAreExact ==
    progress = "done" =>
      /\ ToSet(changes) = {c \in {[path |-> p, after |-> Fixed(ToSet(edits[p]))] : p \in Paths} :
                             c.after # Before}
      /\ \A i, j \in DOMAIN changes : i < j => changes[i].path < changes[j].path

\* A plan is refused exactly for conflicting edits, and otherwise is the content
\* with all edits.
PlanIsExact == RefusalIsExact /\ ChangesAreExact
=============================================================================
