--------------------------- MODULE FixApplyProofs ---------------------------
(***************************************************************************)
(* For plans of any size and any number of edits: Apply verifies all       *)
(* targets before its first rename, overwrites only what it verified,      *)
(* reports exactly what it wrote, and cleans up after itself.              *)
(***************************************************************************)
EXTENDS FixApply, TLAPS

\* Where the index of each loop stands.
Index == phase \in {"stage", "rename"} => i \in Files

\* Nothing is written before the third loop.
NothingWritten ==
    phase \in {"validate", "stage", "verify"} => written = {} /\ reported = {}

\* The lists are exact, and a replaced target has no temporary file.
Lists ==
    /\ written = replaced
    /\ phase \in {"cleanup", "returned"} => reported = replaced
    /\ staged \cap replaced = {}
    /\ phase = "returned" => staged = unremoved

\* What the second loop has passed was right, unless it was edited since.
Verified ==
    /\ phase = "verify" => \A f \in Files : f < i => disk[f] = "before" \/ f \in late
    /\ phase \in {"check", "rename"} /\ replaced = {} =>
         \A f \in Files : disk[f] = "before" \/ f \in late

\* The target that is about to be replaced was right, unless it is being edited.
Checked == phase = "rename" => disk[i] = "before" \/ i \in racing

IInv == TypeOK /\ Index /\ NothingWritten /\ Lists /\ Verified /\ Checked

-----------------------------------------------------------------------------
\* The invariant holds when Apply is called.
LEMMA InitIInv == Init => IInv
<1> SUFFICES ASSUME Init PROVE IInv
  OBVIOUS
<1>0. 1 \in 1..(N + 1) /\ 0 \in 0..MaxEdits
  BY PlanAssumption
<1>1. TypeOK
  BY <1>0 DEF Init, TypeOK, Contents
<1>2. Index /\ NothingWritten /\ Lists /\ Verified /\ Checked
  BY DEF Init, Index, NothingWritten, Lists, Verified, Checked
<1> QED
  BY <1>1, <1>2 DEF IInv

\* An edit leaves its mark on the targets it changes.
LEMMA EditStep ==
    ASSUME IInv, NEW f \in Files, Edit(f)
    PROVE  IInv'
<1> USE DEF IInv, Edit, apply
<1>1. TypeOK'
  BY PlanAssumption DEF TypeOK
<1>2. Index' /\ NothingWritten' /\ Lists'
  BY DEF Index, NothingWritten, Lists
<1>3. \A g \in Files : g # f => disk'[g] = disk[g]
  BY DEF TypeOK
<1>4. Verified' /\ Checked'
  BY <1>3 DEF Verified, Checked, Index
<1> QED
  BY <1>1, <1>2, <1>4

\* A failing validation, or cancelling, returns what was written.
LEMMA RejectsStep ==
    ASSUME IInv, \/ Cancel \/ StageFails \/ RenameFails \/ AllWritten
                 \/ \E p \in {"validate", "verify", "check"} : Rejects(p)
    PROVE  IInv'
<1> USE DEF IInv, apply, editor
<1>1. CASE Cancel
  BY <1>1 DEF Cancel, TypeOK, Index, NothingWritten, Lists, Verified, Checked
<1>2. CASE ~Cancel
  <2>1. /\ phase' = "cleanup" /\ reported' = replaced
        /\ UNCHANGED <<disk, cancelled, editor, temps, staged, i, written, replaced, unremoved>>
        /\ phase # "returned"
    BY <1>2 DEF StageFails, RenameFails, AllWritten, Rejects, Return, Lists, NothingWritten
  <2>2. TypeOK'
    BY <2>1 DEF TypeOK
  <2> QED
    BY <2>1, <2>2 DEF Index, NothingWritten, Lists, Verified, Checked
<1> QED
  BY <1>1, <1>2

\* The steps of the first loop.
LEMMA StageStep ==
    ASSUME IInv, Validate \/ Stage \/ AllStaged
    PROVE  IInv'
<1> USE DEF IInv, editor
<1>1. CASE Validate
  BY <1>1 DEF Validate, Accepts, TypeOK, Index, NothingWritten, Lists, Verified, Checked, Files
<1>2. CASE Stage
  <2>0. i \in Files /\ (i' = i \/ i' = i + 1)
    BY <1>2 DEF Stage, Index
  <2>1. i' \in 1..(N + 1)
    BY <2>0, PlanAssumption DEF Files
  <2>1a. temps' \subseteq Files /\ staged' \subseteq Files /\ staged' \subseteq temps'
    BY <1>2, <2>0 DEF Stage, TypeOK
  <2>1b. reported' \subseteq Files /\ phase' \in {"validate", "cleanup"}
    BY <1>2 DEF Stage, TypeOK
  <2>2. TypeOK'
    BY <1>2, <2>1, <2>1a, <2>1b DEF Stage, TypeOK
  <2> QED
    BY <1>2, <2>0, <2>2 DEF Stage, Index, NothingWritten, Lists, Verified, Checked
<1>3. CASE AllStaged
  <2>1. TypeOK'
    BY <1>3, PlanAssumption DEF AllStaged, TypeOK
  <2>2. Verified'
    BY <1>3 DEF AllStaged, Verified, Files
  <2> QED
    BY <1>3, <2>1, <2>2 DEF AllStaged, Index, NothingWritten, Lists, Checked
<1> QED
  BY <1>1, <1>2, <1>3

\* The second loop, from its start to the first check of the third.
LEMMA VerifyStep ==
    ASSUME IInv, Verify \/ AllVerified
    PROVE  IInv'
<1> USE DEF IInv, editor
<1>1. CASE Verify
  <2>1. /\ phase = "verify" /\ phase' = "verify" /\ i \in Files /\ i' = i + 1 /\ disk[i] = "before"
        /\ UNCHANGED <<disk, cancelled, temps, staged, written, reported, replaced, unremoved, editor>>
    BY <1>1, PlanAssumption DEF Verify, Accepts, Valid, TypeOK, Files
  <2>2. TypeOK'
    BY <2>1, PlanAssumption DEF TypeOK, Files
  <2>3. Verified'
    BY <2>1, PlanAssumption DEF Verified, Files
  <2> QED
    BY <2>1, <2>2, <2>3 DEF Index, NothingWritten, Lists, Checked
<1>2. CASE AllVerified
  <2>1. TypeOK'
    BY <1>2, PlanAssumption DEF AllVerified, TypeOK
  <2>2. Verified'
    BY <1>2, PlanAssumption DEF AllVerified, Verified, Files
  <2> QED
    BY <1>2, <2>1, <2>2 DEF AllVerified, Index, NothingWritten, Lists, Checked
<1> QED
  BY <1>1, <1>2

\* The third loop and the clean-up.
LEMMA RenameStep ==
    ASSUME IInv, Check \/ Rename \/ Cleanup
    PROVE  IInv'
<1> USE DEF IInv, editor
<1>1. CASE Check
  <2>1. i \in Files
    BY <1>1, PlanAssumption DEF Check, Accepts, TypeOK, Files
  <2> QED
    BY <1>1, <2>1 DEF Check, Accepts, Valid, TypeOK, Index, NothingWritten, Lists, Verified, Checked
<1>2. CASE Rename
  <2>1. i \in Files
    BY <1>2 DEF Rename, Index
  <2>2. TypeOK'
    BY <1>2, <2>1, PlanAssumption DEF Rename, TypeOK, Files, Contents
  <2>3. replaced' # {} /\ phase' = "check"
    BY <1>2 DEF Rename
  <2>4. Lists'
    BY <1>2, <2>3 DEF Rename, Lists
  <2> QED
    BY <2>2, <2>3, <2>4 DEF Index, NothingWritten, Verified, Checked
<1>3. CASE Cleanup
  <2>1. TypeOK'
    BY <1>3 DEF Cleanup, TypeOK
  <2>2. Lists'
    BY <1>3 DEF Cleanup, Lists, TypeOK
  <2> QED
    BY <1>3, <2>1, <2>2 DEF Cleanup, Index, NothingWritten, Verified, Checked
<1> QED
  BY <1>1, <1>2, <1>3

\* Every step of Apply, of the editor or of the canceller keeps the invariant.
LEMMA IInvStep == IInv /\ [Next]_vars => IInv'
<1> SUFFICES ASSUME IInv, [Next]_vars PROVE IInv'
  OBVIOUS
<1>1. CASE Next
  BY <1>1, EditStep, RejectsStep, StageStep, VerifyStep, RenameStep DEF Next
<1>2. CASE UNCHANGED vars
  BY <1>2 DEF vars, apply, editor, IInv, TypeOK, Index, NothingWritten, Lists, Verified, Checked
<1> QED
  BY <1>1, <1>2

\* The invariant holds in every reachable state.
LEMMA IInvHolds == Spec => []IInv
  BY InitIInv, IInvStep, PTL DEF Spec

-----------------------------------------------------------------------------
\* A temporary file is never on disk without the clean-up knowing of it.
THEOREM TypeCorrect == Spec => []TypeOK
<1>1. IInv => TypeOK
  BY DEF IInv
<1> QED
  BY <1>1, IInvHolds, PTL

\* The paths Apply returns are exactly the files it replaced, on success and on
\* every error.
THEOREM ReportIsExact == Spec => []ReportsWrites
<1>1. IInv => ReportsWrites
  BY DEF IInv, Lists, ReportsWrites
<1> QED
  BY <1>1, IInvHolds, PTL

\* When Apply has returned, only temporary files whose removal failed are left.
THEOREM TempsAreRemoved == Spec => []NoTempLeft
<1>1. IInv => NoTempLeft
  BY DEF IInv, Lists, NoTempLeft
<1> QED
  BY <1>1, IInvHolds, PTL

\* Only a rename changes the set of replaced targets.
LEMMA OnlyRenames ==
    ASSUME IInv, Next, replaced' # replaced
    PROVE  Rename /\ i \in Files
  BY DEF Next, Edit, Cancel, Validate, Stage, StageFails, AllStaged, Verify, AllVerified, Check,
         RenameFails, AllWritten, Rejects, Cleanup, Accepts, Return, apply, Rename, IInv, Index

\* The first rename finds every target as the preview saw it, apart from edits
\* that raced with the verification.
THEOREM AllChecksComeFirst == Spec => FirstWriteAfterAllChecks
<1>1. IInv /\ [Next]_vars =>
        [replaced = {} /\ replaced' # {} =>
            \A f \in Files : disk[f] = "before" \/ f \in late]_vars
  BY OnlyRenames DEF Rename, IInv, Verified, vars, apply
<1> QED
  BY <1>1, IInvHolds, PTL DEF Spec, FirstWriteAfterAllChecks

\* No rename overwrites a foreign content, apart from an edit that raced with
\* that very rename.
THEOREM EditsAreKept == Spec => NoLostEdit
<1>1. IInv /\ [Next]_vars =>
        [\A f \in replaced' \ replaced : disk[f] = "before" \/ f \in racing]_vars
  BY OnlyRenames DEF Rename, IInv, Checked, vars, apply
<1> QED
  BY <1>1, IInvHolds, PTL DEF Spec, NoLostEdit
=============================================================================
