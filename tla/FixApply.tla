------------------------------ MODULE FixApply ------------------------------
(***************************************************************************)
(* Writing a fix plan to disk (internal/fix/apply.go, Apply): every        *)
(* replacement is staged in a temporary file beside its target, every      *)
(* target is verified again, and then each one is verified once more and   *)
(* replaced by a rename.                                                   *)
(*                                                                         *)
(* Meanwhile an editor may rewrite, remove or restore any target, the      *)
(* context may be cancelled and any file operation may fail.  Contents are *)
(* compared with the plan only, so they are the expected one ("before"),   *)
(* the fixed one ("after") or anything else; a target that is missing or   *)
(* is no regular file counts as the latter.                                *)
(***************************************************************************)
EXTENDS Naturals, FiniteSets

CONSTANTS
    N,         \* changes of the plan, one per path
    MaxEdits   \* bound: writes of the editor

ASSUME PlanAssumption == N \in Nat \ {0} /\ MaxEdits \in Nat

Files == 1..N
Contents == {"before", "after", "other"}

VARIABLES
    disk,      \* content of each target
    temps,     \* the files whose temps[i] names a temporary file
    staged,    \* temporary files on disk
    phase,     \* the loop Apply is in
    i,         \* its index
    cancelled, \* ctx is done
    written,   \* the list Apply has built
    reported,  \* the list it returns
    replaced,  \* targets Apply really replaced
    unremoved, \* temporary files whose removal failed
    late,      \* targets the editor wrote since all were staged
    racing,    \* targets the editor wrote right before they were renamed
    edits

apply == <<temps, staged, phase, i, written, reported, replaced, unremoved>>
editor == <<late, racing, edits>>
vars == <<disk, cancelled, apply, editor>>

\* Types, and that a temporary file on disk is known to the clean-up until it
\* has run.
TypeOK ==
    /\ disk \in [Files -> Contents]
    /\ temps \subseteq Files /\ staged \subseteq Files
    /\ phase \in {"validate", "stage", "verify", "check", "rename", "cleanup", "returned"}
    /\ i \in 1..(N + 1)
    /\ cancelled \in BOOLEAN
    /\ written \subseteq Files /\ reported \subseteq Files /\ replaced \subseteq Files
    /\ unremoved \subseteq Files
    /\ late \subseteq Files /\ racing \subseteq Files
    /\ edits \in 0..MaxEdits
    /\ phase # "returned" => staged \subseteq temps

Init ==
    /\ disk = [f \in Files |-> "before"]
    /\ temps = {} /\ staged = {}
    /\ phase = "validate" /\ i = 1
    /\ cancelled = FALSE
    /\ written = {} /\ reported = {} /\ replaced = {}
    /\ unremoved = {} /\ late = {} /\ racing = {} /\ edits = 0

-----------------------------------------------------------------------------
(* The environment.                                                        *)

Edit(f) ==
    /\ edits < MaxEdits
    /\ edits' = edits + 1
    /\ \E c \in Contents : disk' = [disk EXCEPT ![f] = c]
    /\ late' = late \cup {f}
    /\ racing' = IF phase = "rename" /\ f = i THEN racing \cup {f} ELSE racing
    /\ UNCHANGED <<cancelled, apply>>

Cancel ==
    /\ ~cancelled
    /\ cancelled' = TRUE
    /\ UNCHANGED <<disk, apply, editor>>

-----------------------------------------------------------------------------
\* validate: the context is live and the target is what the plan was made for.
Valid(f) == ~cancelled /\ disk[f] = "before"

\* Return the list built so far and run the deferred clean-up.  The loops before
\* the renames return nil, and have built none.
Return(list) ==
    /\ phase' = "cleanup"
    /\ reported' = list
    /\ UNCHANGED <<temps, staged, i, written, replaced, unremoved>>

\* validate fails when it has to, or on an error of the file system.
Rejects(p) ==
    /\ phase = p /\ i <= N
    /\ Return(written)
    /\ UNCHANGED <<disk, cancelled, editor>>

\* validate succeeds: go on with what follows it in the loop.
Accepts(p, next, index) ==
    /\ phase = p /\ i <= N
    /\ Valid(i)
    /\ phase' = next
    /\ i' = index
    /\ UNCHANGED <<disk, cancelled, temps, staged, written, reported, replaced, unremoved,
                   editor>>

\* First loop: validate and stage each change.
Validate == Accepts("validate", "stage", i)

\* CreateTemp succeeds; the name is recorded before anything is written to it.
Stage ==
    /\ phase = "stage"
    /\ temps' = temps \cup {i} /\ staged' = staged \cup {i}
    /\ \/ phase' = "validate" /\ i' = i + 1 /\ UNCHANGED reported
       \/ phase' = "cleanup" /\ reported' = {} /\ UNCHANGED i
    /\ UNCHANGED <<disk, cancelled, written, replaced, unremoved, editor>>

\* Stat or CreateTemp fails.
StageFails ==
    /\ phase = "stage"
    /\ Return({})
    /\ UNCHANGED <<disk, cancelled, editor>>

\* Fault: the renames follow the staging at once.
AllStagedUnverified ==
    /\ phase = "validate" /\ i = N + 1
    /\ phase' = "check" /\ i' = 1
    /\ late' = {}
    /\ UNCHANGED <<disk, cancelled, temps, staged, written, reported, replaced, unremoved,
                   racing, edits>>

AllStaged ==
    /\ phase = "validate" /\ i = N + 1
    /\ phase' = "verify" /\ i' = 1
    /\ late' = {}
    /\ UNCHANGED <<disk, cancelled, temps, staged, written, reported, replaced, unremoved,
                   racing, edits>>

\* Second loop: verify every revision before the first rename.
Verify == Accepts("verify", "verify", i + 1)

AllVerified ==
    /\ phase = "verify" /\ i = N + 1
    /\ phase' = "check" /\ i' = 1
    /\ UNCHANGED <<disk, cancelled, temps, staged, written, reported, replaced, unremoved, editor>>

\* Fault: the renames rely on the second loop.
CheckNothing ==
    /\ phase = "check" /\ i <= N
    /\ phase' = "rename"
    /\ UNCHANGED <<disk, cancelled, i, temps, staged, written, reported, replaced, unremoved, editor>>

\* Third loop: verify once more, then rename.
Check == Accepts("check", "rename", i)

Rename ==
    /\ phase = "rename"
    /\ disk' = [disk EXCEPT ![i] = "after"]
    /\ temps' = temps \ {i} /\ staged' = staged \ {i}
    /\ written' = written \cup {i} /\ replaced' = replaced \cup {i}
    /\ phase' = "check" /\ i' = i + 1
    /\ UNCHANGED <<cancelled, reported, unremoved, editor>>

RenameFails ==
    /\ phase = "rename"
    /\ Return(written)
    /\ UNCHANGED <<disk, cancelled, editor>>

AllWritten ==
    /\ phase = "check" /\ i = N + 1
    /\ Return(written)
    /\ UNCHANGED <<disk, cancelled, editor>>

\* Fault: only the file of the failing change is removed.
CleanupLastOnly ==
    /\ phase = "cleanup"
    /\ staged' = staged \ {i}
    /\ temps' = {} /\ phase' = "returned"
    /\ UNCHANGED <<disk, cancelled, i, written, reported, replaced, unremoved, editor>>

\* The deferred clean-up; a failed removal is ignored.
Cleanup ==
    /\ phase = "cleanup"
    /\ \E stuck \in SUBSET (temps \cap staged) :
         /\ unremoved' = stuck
         /\ staged' = (staged \ temps) \cup stuck
    /\ temps' = {} /\ phase' = "returned"
    /\ UNCHANGED <<disk, cancelled, i, written, reported, replaced, editor>>

-----------------------------------------------------------------------------
Next ==
    \/ \E f \in Files : Edit(f)
    \/ Cancel
    \/ Validate \/ Stage \/ StageFails \/ AllStaged
    \/ Verify \/ AllVerified
    \/ Check \/ Rename \/ RenameFails \/ AllWritten
    \/ \E p \in {"validate", "verify", "check"} : Rejects(p)
    \/ Cleanup

Spec == Init /\ [][Next]_vars

-----------------------------------------------------------------------------
(* Properties.                                                             *)

\* "verifies every revision before the first rename" (apply.go:13): nothing is
\* written while any target, and not only the one that is replaced, differs
\* from the preview, unless the editor changed it during the verification
\* itself.
FirstWriteAfterAllChecks ==
    [][replaced = {} /\ replaced' # {} => \A f \in Files : disk[f] = "before" \/ f \in late]_vars

\* A rename only overwrites what the plan was made for, for every file and not
\* only for the first, unless the editor wrote it between that file's own
\* verification and its rename.
NoLostEdit ==
    [][\A f \in replaced' \ replaced : disk[f] = "before" \/ f \in racing]_vars

\* "The returned paths identify completed writes even when a later write fails"
\* (apply.go:15).
ReportsWrites == phase = "returned" => reported = replaced

\* Whatever ends Apply, the temporary files it leaves beside the workflows are
\* those the file system refused to remove, and none for a replaced target.
NoTempLeft == phase = "returned" => staged = unremoved /\ staged \cap replaced = {}
=============================================================================
