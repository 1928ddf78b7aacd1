--------------------------- MODULE PluginProject ---------------------------
(***************************************************************************)
(* The two files of a plugin project, the manifest with the declared       *)
(* dependencies and the lock with the resolved pins, under concurrent      *)
(* `actionlint plugin` commands (internal/localapp/plugin_project.go,      *)
(* plugin_manifest_file.go, internal/pluginregistry/lock.go).              *)
(*                                                                         *)
(* Writers are processes: they share only the file system, where a guard   *)
(* directory is taken by mkdir and a file is replaced by rename.  A writer *)
(* can crash anywhere, file operations can fail, the removal of a guard    *)
(* included, and an editor that knows nothing of guards may rewrite a file.*)
(* A dependency is a model value; its pin is a revision, 0 when missing.   *)
(***************************************************************************)
EXTENDS Naturals

CONSTANTS
    Writers, Refs,
    MaxRev,      \* bound: revisions the registry serves are 1 .. MaxRev
    MaxEdits,    \* bound: rewrites by the editor
    MayCrash,    \* writers may crash
    Free, Editor, NoFile, Undeclared

ASSUME BoundAssumption ==
    MaxRev \in Nat \ {0} /\ MaxEdits \in Nat /\ MayCrash \in BOOLEAN

Pins == [Refs -> 0 .. MaxRev]
LockFiles == Pins \cup {NoFile}
Manifests == (SUBSET Refs) \cup {Undeclared}

ASSUME NameAssumption ==
    /\ NoFile \notin Pins /\ \A refs \in SUBSET Refs : refs # Undeclared
    /\ Free \notin Writers /\ Editor \notin Writers

VARIABLES
    lock, manifest,             \* the files
    lockAuthor, manifestAuthor, \* who wrote them last
    projectGuard, lockGuard, manifestGuard, \* who made the directory
    pc, mem,   \* program counter and memory of each command
    disturbed, \* a crash, an edit, or a failed cleanup or rollback so far
    edits

files  == <<lock, manifest, lockAuthor, manifestAuthor>>
guards == <<projectGuard, lockGuard, manifestGuard>>
vars   == <<files, guards, pc, mem, disturbed, edits>>

(***************************************************************************)
(* first      PluginProject.original: the lock as opened                   *)
(* seen       LockFile.original: the lock as last read or written          *)
(* manifest   PluginManifest.snapshots                                     *)
(* pins, refs what the command wants to save                               *)
(* restoring  Save is rolling the lock back                                *)
(* failed     Save will return an error                                    *)
(* base       the files when the project guard was taken (for properties)  *)
(***************************************************************************)
Memory == [first : LockFiles, seen : LockFiles, manifest : Manifests,
           pins : Pins, refs : SUBSET Refs, restoring : BOOLEAN, failed : BOOLEAN,
           base : LockFiles \X Manifests]

Guarded == {"checkManifest", "lockGuard", "lockCheck", "lockStage", "lockCommit",
            "lockRelease", "manifestCheck", "manifestGuard", "manifestStage",
            "manifestCommit", "manifestRelease", "release"}

\* Types, and that only a failed save that holds the project restores the lock.
TypeOK ==
    /\ lock \in LockFiles /\ manifest \in Manifests
    /\ lockAuthor \in Writers \cup {Editor} /\ manifestAuthor \in Writers \cup {Editor}
    /\ projectGuard \in Writers \cup {Free}
    /\ lockGuard \in Writers \cup {Free} /\ manifestGuard \in Writers \cup {Free}
    /\ pc \in [Writers -> Guarded \cup {"idle", "openManifest", "command", "check",
                                        "guard", "crashed"}]
    /\ mem \in [Writers -> Memory]
    /\ disturbed \in BOOLEAN
    /\ edits \in 0 .. MaxEdits
    /\ \A w \in Writers : mem[w].restoring => mem[w].failed /\ pc[w] \in Guarded

\* The pins of an absent lock.
PinsOf(l) == IF l = NoFile THEN [r \in Refs |-> 0] ELSE l
Pinned(l) == {r \in Refs : PinsOf(l)[r] # 0}

\* SelectedLock succeeds: every declared dependency has its pin, and nothing
\* is pinned without being declared anywhere.
SelectedLock(l, m) ==
    IF m = Undeclared THEN Pinned(l) = {} ELSE m \subseteq Pinned(l)

Blank == [first |-> NoFile, seen |-> NoFile, manifest |-> Undeclared,
          pins |-> PinsOf(NoFile), refs |-> {}, restoring |-> FALSE, failed |-> FALSE,
          base |-> <<NoFile, Undeclared>>]

Init ==
    /\ lock \in LockFiles /\ manifest \in Manifests
    /\ SelectedLock(lock, manifest)
    /\ lockAuthor = Editor /\ manifestAuthor = Editor
    /\ projectGuard = Free /\ lockGuard = Free /\ manifestGuard = Free
    /\ pc = [w \in Writers |-> "idle"]
    /\ mem = [w \in Writers |-> Blank]
    /\ disturbed = FALSE
    /\ edits = 0

Goto(w, label) == pc' = [pc EXCEPT ![w] = label]

\* The command ends; its process is gone.
Exit(w) == Goto(w, "idle") /\ mem' = [mem EXCEPT ![w] = Blank]

-----------------------------------------------------------------------------
(* OpenPluginProject and the commands.                                     *)

OpenLock(w) ==
    /\ pc[w] = "idle"
    /\ mem' = [mem EXCEPT ![w].first = lock, ![w].seen = lock]
    /\ Goto(w, "openManifest")
    /\ UNCHANGED <<files, guards, disturbed, edits>>

OpenManifest(w) ==
    /\ pc[w] = "openManifest"
    /\ mem' = [mem EXCEPT ![w].manifest = manifest]
    /\ Goto(w, "command")
    /\ UNCHANGED <<files, guards, disturbed, edits>>

\* Dependencies: lock-only pins are migrated by an explicit install only.
Dependencies(w, migrate, refs) ==
    IF mem[w].manifest # Undeclared THEN refs = mem[w].manifest
    ELSE /\ Pinned(mem[w].seen) = {} \/ migrate
         /\ refs = Pinned(mem[w].seen)

\* Resolve: keep the pins of refs outside update, ask the registry for the
\* others; an exact version may also lead to an older revision.
Resolve(w, refs, update, pins) ==
    \A r \in Refs :
        LET old == PinsOf(mem[w].seen)[r] IN
        IF r \notin refs THEN pins[r] = 0
        ELSE IF old # 0 /\ r \notin update THEN pins[r] = old
        ELSE pins[r] # 0

Want(w, refs, pins) ==
    /\ mem' = [mem EXCEPT ![w].refs = refs, ![w].pins = pins]
    /\ Goto(w, "check")
    /\ UNCHANGED <<files, guards, disturbed, edits>>

\* install, with a name or without; a name with a new version replaces the
\* declaration, and the old pin no longer matches it.
Install(w) ==
    /\ pc[w] = "command"
    /\ \E refs \in SUBSET Refs, added \in {{}} \cup {{r} : r \in Refs}, pins \in Pins :
          /\ Dependencies(w, added = {}, refs)
          /\ refs \cup added # {} \/ Pinned(mem[w].seen) # {}
          /\ \E update \in SUBSET added : Resolve(w, refs \cup added, update, pins)
          /\ Want(w, refs \cup added, pins)

Update(w) ==
    /\ pc[w] = "command"
    /\ \E refs \in SUBSET Refs, pins \in Pins :
          /\ Dependencies(w, FALSE, refs)
          /\ refs # {} \/ Pinned(mem[w].seen) # {}
          /\ \E update \in SUBSET refs : Resolve(w, refs, update, pins)
          /\ Want(w, refs, pins)

\* remove does not resolve: it only drops the declaration and its pin.
Remove(w) ==
    /\ pc[w] = "command"
    /\ \E refs \in SUBSET Refs :
          /\ Dependencies(w, FALSE, refs)
          /\ \E r \in refs :
                Want(w, refs \ {r}, [PinsOf(mem[w].seen) EXCEPT ![r] = 0])

\* Nothing to do, or an error before Save.
GiveUp(w) ==
    /\ pc[w] \in {"openManifest", "command"}
    /\ Exit(w)
    /\ UNCHANGED <<files, guards, disturbed, edits>>

-----------------------------------------------------------------------------
(* PluginProject.Save.                                                     *)

\* Fault: only the presence of the lock is compared.
LockStillThere(w) == (lock = NoFile) = (mem[w].seen = NoFile)

\* unchangedBytes: the lock is still what this command read or wrote last.
LockUnchanged(w) == lock = mem[w].seen

\* CheckUnchanged of the manifest.
ManifestUnchanged(w) == manifest = mem[w].manifest

WritesLock(w) == mem[w].first # NoFile \/ Pinned(mem[w].pins) # {}

CheckLock(w) ==
    /\ pc[w] = "check"
    /\ \/ LockUnchanged(w) /\ Goto(w, "guard") /\ UNCHANGED mem
       \/ Exit(w)
    /\ UNCHANGED <<files, guards, disturbed, edits>>

\* Fault: an existing guard directory is accepted (MkdirAll).
EnterAnyway(w) ==
    /\ pc[w] = "guard"
    /\ projectGuard' = w
    /\ mem' = [mem EXCEPT ![w].base = <<lock, manifest>>]
    /\ Goto(w, "checkManifest")
    /\ UNCHANGED <<files, lockGuard, manifestGuard, disturbed, edits>>

Enter(w) ==
    /\ pc[w] = "guard"
    /\ projectGuard = Free
    /\ projectGuard' = w
    /\ mem' = [mem EXCEPT ![w].base = <<lock, manifest>>]
    /\ Goto(w, "checkManifest")
    /\ UNCHANGED <<files, lockGuard, manifestGuard, disturbed, edits>>

\* mkdir fails: "plugin project is busy".
Busy(w) ==
    /\ pc[w] = "guard"
    /\ Exit(w)
    /\ UNCHANGED <<files, guards, disturbed, edits>>

CheckManifest(w) ==
    /\ pc[w] = "checkManifest"
    /\ \/ /\ ManifestUnchanged(w)
          /\ Goto(w, IF WritesLock(w) THEN "lockGuard" ELSE "manifestCheck")
          /\ UNCHANGED mem
       \/ mem' = [mem EXCEPT ![w].failed = TRUE] /\ Goto(w, "release")
    /\ UNCHANGED <<files, guards, disturbed, edits>>

\* The deferred removal of the project guard; it can fail and leave it behind.
Leave(w) ==
    /\ pc[w] = "release"
    /\ Exit(w)
    /\ \/ projectGuard' = Free /\ UNCHANGED disturbed
       \/ disturbed' = TRUE /\ UNCHANGED projectGuard
    /\ UNCHANGED <<files, lockGuard, manifestGuard, edits>>

-----------------------------------------------------------------------------
(* LockFile.replace, for Save and for Restore.                             *)

Target(w) == IF mem[w].restoring THEN mem[w].first ELSE mem[w].pins

\* A rollback that fails is reported, not repeated.
LockFails(w, label) ==
    /\ mem' = [mem EXCEPT ![w].failed = TRUE]
    /\ Goto(w, label)
    /\ disturbed' = (disturbed \/ mem[w].restoring)

TakeLockGuard(w) ==
    /\ pc[w] = "lockGuard"
    /\ \/ /\ lockGuard = Free
          /\ lockGuard' = w
          /\ Goto(w, "lockCheck")
          /\ UNCHANGED <<mem, disturbed>>
       \/ LockFails(w, "release") /\ UNCHANGED lockGuard
    /\ UNCHANGED <<files, projectGuard, manifestGuard, edits>>

LockCheck(w) ==
    /\ pc[w] = "lockCheck"
    /\ \/ /\ LockUnchanged(w)
          /\ Goto(w, IF lock = Target(w) THEN "lockRelease" ELSE "lockStage")
          /\ UNCHANGED <<mem, disturbed>>
       \/ LockFails(w, "lockRelease")
    /\ UNCHANGED <<files, guards, edits>>

\* Write the temporary file in the guard directory and compare once more.
LockStage(w) ==
    /\ pc[w] = "lockStage"
    /\ \/ LockUnchanged(w) /\ Goto(w, "lockCommit") /\ UNCHANGED <<mem, disturbed>>
       \/ LockFails(w, "lockRelease")
    /\ UNCHANGED <<files, guards, edits>>

\* Rename, or remove when the restored lock did not exist.
LockCommit(w) ==
    /\ pc[w] = "lockCommit"
    /\ \/ /\ lock' = Target(w) /\ lockAuthor' = w
          /\ mem' = [mem EXCEPT ![w].seen = Target(w)]
          /\ Goto(w, "lockRelease")
          /\ UNCHANGED disturbed
       \/ LockFails(w, "lockRelease") /\ UNCHANGED <<lock, lockAuthor>>
    /\ UNCHANGED <<manifest, manifestAuthor, guards, edits>>

\* A failed lock write ends Save without a rollback.
AfterLock(m) == IF m.restoring \/ m.failed THEN "release" ELSE "manifestCheck"

ReleaseLock(w) ==
    /\ pc[w] = "lockRelease"
    /\ \/ lockGuard' = Free /\ UNCHANGED <<mem, disturbed>>
       \/ /\ mem' = [mem EXCEPT ![w].failed = TRUE]
          /\ disturbed' = TRUE
          /\ UNCHANGED lockGuard
    /\ Goto(w, AfterLock(mem'[w]))
    /\ UNCHANGED <<files, projectGuard, manifestGuard, edits>>

-----------------------------------------------------------------------------
(* PluginManifest.Save.                                                    *)

\* Fault: the lock is left as it was written.
ManifestFailsForward(w) ==
    /\ mem' = [mem EXCEPT ![w].failed = TRUE]
    /\ Goto(w, "release")

\* Any error of it starts the rollback of a lock that was written.
ManifestFails(w) ==
    /\ mem' = [mem EXCEPT ![w].failed = TRUE, ![w].restoring = WritesLock(w)]
    /\ Goto(w, IF WritesLock(w) THEN "lockGuard" ELSE "release")

ManifestCheck(w) ==
    /\ pc[w] = "manifestCheck"
    /\ \/ ManifestUnchanged(w) /\ Goto(w, "manifestGuard") /\ UNCHANGED mem
       \/ ManifestFails(w)
    /\ UNCHANGED <<files, guards, disturbed, edits>>

TakeManifestGuard(w) ==
    /\ pc[w] = "manifestGuard"
    /\ \/ /\ manifestGuard = Free
          /\ manifestGuard' = w
          /\ Goto(w, "manifestStage")
          /\ UNCHANGED mem
       \/ ManifestFails(w) /\ UNCHANGED manifestGuard
    /\ UNCHANGED <<files, projectGuard, lockGuard, disturbed, edits>>

\* Compare, write the temporary file, compare again.
ManifestStage(w) ==
    /\ pc[w] = "manifestStage"
    /\ \/ ManifestUnchanged(w) /\ Goto(w, "manifestCommit") /\ UNCHANGED mem
       \/ mem' = [mem EXCEPT ![w].failed = TRUE] /\ Goto(w, "manifestRelease")
    /\ UNCHANGED <<files, guards, disturbed, edits>>

ManifestCommit(w) ==
    /\ pc[w] = "manifestCommit"
    /\ \/ /\ manifest' = mem[w].refs /\ manifestAuthor' = w
          /\ mem' = [mem EXCEPT ![w].manifest = mem[w].refs]
       \/ /\ mem' = [mem EXCEPT ![w].failed = TRUE]
          /\ UNCHANGED <<manifest, manifestAuthor>>
    /\ Goto(w, "manifestRelease")
    /\ UNCHANGED <<lock, lockAuthor, guards, disturbed, edits>>

\* The guard's removal can fail after the rename: Save reports an error then.
ReleaseManifest(w) ==
    /\ pc[w] = "manifestRelease"
    /\ \/ /\ manifestGuard' = Free
          /\ UNCHANGED disturbed
          /\ IF mem[w].failed THEN ManifestFails(w)
                              ELSE Goto(w, "release") /\ UNCHANGED mem
       \/ /\ disturbed' = TRUE
          /\ ManifestFails(w)
          /\ UNCHANGED manifestGuard
    /\ UNCHANGED <<files, projectGuard, lockGuard, edits>>

-----------------------------------------------------------------------------
(* The environment.                                                        *)

Crash(w) ==
    /\ MayCrash
    /\ pc[w] \in Guarded
    /\ Goto(w, "crashed")
    /\ mem' = [mem EXCEPT ![w] = Blank]
    /\ disturbed' = TRUE
    /\ UNCHANGED <<files, guards, edits>>

\* The user deletes guard directories that nobody owns any more.
RemoveStaleGuards ==
    /\ disturbed
    /\ \A w \in Writers : pc[w] \in {"idle", "crashed"}
    /\ projectGuard' = Free /\ lockGuard' = Free /\ manifestGuard' = Free
    /\ UNCHANGED <<files, pc, mem, disturbed, edits>>

Edit ==
    /\ edits < MaxEdits
    /\ edits' = edits + 1
    /\ disturbed' = TRUE
    /\ \/ \E l \in LockFiles : lock' = l /\ lockAuthor' = Editor
                               /\ UNCHANGED <<manifest, manifestAuthor>>
       \/ \E m \in Manifests : manifest' = m /\ manifestAuthor' = Editor
                               /\ UNCHANGED <<lock, lockAuthor>>
    /\ UNCHANGED <<guards, pc, mem>>

-----------------------------------------------------------------------------
Command(w) == OpenLock(w) \/ OpenManifest(w) \/ Install(w) \/ Update(w) \/ Remove(w)
              \/ GiveUp(w)

Save(w) == CheckLock(w) \/ Enter(w) \/ Busy(w) \/ CheckManifest(w) \/ Leave(w)

ReplaceLock(w) == TakeLockGuard(w) \/ LockCheck(w) \/ LockStage(w) \/ LockCommit(w)
                  \/ ReleaseLock(w)

SaveManifest(w) == ManifestCheck(w) \/ TakeManifestGuard(w) \/ ManifestStage(w)
                   \/ ManifestCommit(w) \/ ReleaseManifest(w)

Next ==
    \/ \E w \in Writers :
          Command(w) \/ Save(w) \/ ReplaceLock(w) \/ SaveManifest(w) \/ Crash(w)
    \/ RemoveStaleGuards
    \/ Edit

Spec == Init /\ [][Next]_vars

-----------------------------------------------------------------------------
(* Properties.                                                             *)

\* "Save serializes cooperating writers" (plugin_project.go:181): a command
\* replaces a file only if it is still the one it read or wrote, unless an
\* editor that takes no guard changed it after the last comparison; and while
\* the guard of a crashed command is there, no command builds on what it left.
BuildsOnWhatItRead ==
    /\ lock' # lock /\ lockAuthor' \in Writers =>
          lock = mem[lockAuthor'].seen \/ lockAuthor = Editor
    /\ manifest' # manifest /\ manifestAuthor' \in Writers =>
          manifest = mem[manifestAuthor'].manifest \/ manifestAuthor = Editor
    /\ projectGuard # Free /\ pc[projectGuard] = "crashed" /\ edits' = edits
          => UNCHANGED <<lock, manifest>>

NoLostUpdate == [][BuildsOnWhatItRead]_vars

\* Between saves the two files agree: every declared plugin can be loaded
\* from its pin, however the commands interleave and whichever of their
\* checks and writes fail.
PairConsistent ==
    projectGuard = Free /\ ~disturbed => SelectedLock(lock, manifest)

\* A save is done when the manifest is replaced; the files belong to the pair
\* that was found until then.
Saved(w) == pc[w] \in {"manifestRelease", "release"} /\ ~mem[w].failed

Pair == IF projectGuard = Free \/ Saved(projectGuard) THEN <<lock, manifest>>
                                                      ELSE mem[projectGuard].base

Atomic == INSTANCE PluginPair
  WITH Commands <- Writers, Pairs <- LockFiles \X Manifests,
       Loadable <- {p \in LockFiles \X Manifests : SelectedLock(p[1], p[2])},
       pair <- Pair, read <- [w \in Writers |-> <<mem[w].first, mem[w].manifest>>]

\* Save replaces two files one after the other and can fail in between, and
\* commands read them meanwhile; yet, unless disturbed, it either replaces the
\* pair that the command read by one that can be loaded, or nothing.
SavesAreAtomic == Atomic!Spec

\* A save that returns an error leaves both files as it found them, also when
\* it had replaced the lock already, and no error path forgets a guard
\* directory, which would make the project busy for everyone for ever.
FailedSaveLeavesNoTrace ==
    ~disturbed =>
        /\ \A w \in Writers :
              pc[w] = "release" /\ mem[w].failed => <<lock, manifest>> = mem[w].base
        /\ projectGuard # Free => pc[projectGuard] \in Guarded
        /\ lockGuard # Free => pc[lockGuard] \in Guarded
        /\ manifestGuard # Free => pc[manifestGuard] \in Guarded

\* "a failed manifest write restores it" (plugin_project.go:182): the lock is
\* rolled back only when the manifest was not written.
RollsBackUnwrittenManifest ==
    \A w \in Writers : mem[w].restoring /\ edits = 0 => manifest = mem[w].base[2]
=============================================================================
