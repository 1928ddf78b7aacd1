------------------------ MODULE PluginProjectProofs ------------------------
(***************************************************************************)
(* Proofs about PluginProject for any number of commands, dependencies,    *)
(* revisions and edits, with crashes or without.                           *)
(*                                                                         *)
(* The guards exclude: whoever is inside a guarded section made the        *)
(* directory, also after crashes (GuardsInv).  That gives NoLostUpdate.    *)
(* As long as nothing has disturbed a command, the one that holds the      *)
(* project knows at each place how the files differ from what it found     *)
(* (SaveInv), which gives the other two properties.                        *)
(***************************************************************************)
EXTENDS PluginProject, TLAPS

LockSection == {"lockCheck", "lockStage", "lockCommit", "lockRelease"}
ManifestSection == {"manifestStage", "manifestCommit", "manifestRelease"}

\* A guarded section is entered by mkdir, and what was compared in it has not
\* been replaced by another command since.
Inside(w) ==
  /\ pc[w] \in Guarded => projectGuard = w
  /\ pc[w] \in LockSection => lockGuard = w
  /\ pc[w] \in ManifestSection => manifestGuard = w
  /\ pc[w] \in {"lockStage", "lockCommit"} => LockUnchanged(w) \/ lockAuthor = Editor
  /\ pc[w] = "manifestCommit" => ManifestUnchanged(w) \/ manifestAuthor = Editor

\* A guard directory is left behind by a disturbance only.
Owned ==
  ~disturbed =>
    /\ projectGuard # Free => pc[projectGuard] \in Guarded
    /\ lockGuard # Free => pc[lockGuard] \in LockSection
    /\ manifestGuard # Free => pc[manifestGuard] \in ManifestSection

GuardsInv == (\A w \in Writers : Inside(w)) /\ Owned

-----------------------------------------------------------------------------
AtBase(w) == lock = mem[w].base[1] /\ manifest = mem[w].base[2]

\* What a command wants: if the pair it read was consistent, so is the pair it
\* wants; and when it wants no lock, it only drops declarations.
WantsPair(w) ==
  /\ SelectedLock(mem[w].first, mem[w].manifest) => mem[w].refs \subseteq Pinned(mem[w].pins)
  /\ ~WritesLock(w) => mem[w].manifest # Undeclared /\ mem[w].refs \subseteq mem[w].manifest

Untouched(w) == ~mem[w].failed /\ ~mem[w].restoring /\ mem[w].seen = mem[w].first

\* The lock is written, or none is wanted; the manifest is still to come.
LockWritten(w) ==
  /\ WritesLock(w) /\ lock = mem[w].pins /\ mem[w].seen = mem[w].pins
  /\ mem[w].first = mem[w].base[1]

LockDone(w) ==
  /\ manifest = mem[w].base[2] /\ mem[w].manifest = mem[w].base[2]
  /\ WantsPair(w)
  /\ LockWritten(w) \/ (~WritesLock(w) /\ lock = mem[w].base[1])

\* Where the holder of the project is, and what it has done to the files.
Holder(w) ==
  /\ SelectedLock(mem[w].base[1], mem[w].base[2])
  /\ pc[w] = "checkManifest" => AtBase(w) /\ Untouched(w) /\ WantsPair(w)
  /\ pc[w] \in {"lockGuard", "lockCheck", "lockStage", "lockCommit"} /\ ~mem[w].restoring =>
       /\ AtBase(w) /\ Untouched(w) /\ WantsPair(w) /\ WritesLock(w)
       /\ mem[w].manifest = mem[w].base[2]
       /\ pc[w] \in {"lockStage", "lockCommit"} => lock = mem[w].first
  /\ pc[w] \in {"lockGuard", "lockCheck", "lockStage", "lockCommit"} /\ mem[w].restoring =>
       /\ manifest = mem[w].base[2] /\ mem[w].first = mem[w].base[1]
       /\ lock = mem[w].seen
  /\ pc[w] = "lockRelease" /\ ~mem[w].failed => LockDone(w) /\ LockWritten(w)
  /\ pc[w] = "lockRelease" /\ mem[w].failed => AtBase(w)
  /\ pc[w] \in {"manifestCheck", "manifestGuard", "manifestStage", "manifestCommit"} =>
       LockDone(w) /\ ~mem[w].failed /\ ~mem[w].restoring
  /\ pc[w] = "manifestRelease" =>
       /\ ~mem[w].restoring
       /\ mem[w].failed => LockDone(w)
       /\ ~mem[w].failed => SelectedLock(lock, manifest)
  /\ pc[w] = "release" =>
       IF mem[w].failed THEN AtBase(w) ELSE SelectedLock(lock, manifest)

\* Before a command holds the project it has only read.
Reader(w) ==
  /\ pc[w] \in {"idle", "openManifest", "command", "check", "guard"} => Untouched(w)
  /\ pc[w] \in {"check", "guard"} => WantsPair(w)

SaveInv ==
  ~disturbed =>
    /\ projectGuard = Free => SelectedLock(lock, manifest)
    /\ \A w \in Writers : Reader(w) /\ (pc[w] \in Guarded => Holder(w))

-----------------------------------------------------------------------------
(* Types.                                                                  *)

\* What a pin is, and an absent lock.
LEMMA PinsAreFiles ==
  /\ Pins \subseteq LockFiles /\ NoFile \in LockFiles
  /\ \A l \in LockFiles : PinsOf(l) \in Pins
<1>1. 0 \in 0 .. MaxRev BY BoundAssumption
<1> QED BY <1>1 DEF PinsOf, LockFiles, Pins

\* The memory of a process that does not run.
LEMMA BlankIsMemory == Blank \in Memory
<1>1. PinsOf(NoFile) \in Pins /\ NoFile \in LockFiles BY PinsAreFiles
<1>2. Undeclared \in Manifests BY DEF Manifests
<1> QED BY <1>1, <1>2 DEF Blank, Memory

Labels == Guarded \cup {"idle", "openManifest", "command", "check", "guard", "crashed"}

\* The part of the types a process changes with its own step.
ProcessTypes ==
  /\ pc \in [Writers -> Labels] /\ mem \in [Writers -> Memory]
  /\ \A w \in Writers : mem[w].restoring => mem[w].failed /\ pc[w] \in Guarded

\* A process that goes to a label with a memory of the right type keeps it.
LEMMA OneProcess ==
  ASSUME TypeOK, NEW w \in Writers, NEW label \in Labels, NEW m \in Memory,
         mem' = [mem EXCEPT ![w] = m], Goto(w, label),
         m.restoring => m.failed /\ label \in Guarded
  PROVE  ProcessTypes'
<1>1. /\ pc' \in [Writers -> Labels] /\ mem' \in [Writers -> Memory]
      /\ mem'[w] = m /\ pc'[w] = label
  BY DEF TypeOK, Labels, Goto
<1>2. ASSUME NEW v \in Writers, mem'[v].restoring
      PROVE  mem'[v].failed /\ pc'[v] \in Guarded
  <2>1. CASE v = w BY <1>1, <1>2, <2>1
  <2>2. CASE v # w
    <3>1. mem'[v] = mem[v] /\ pc'[v] = pc[v] BY <2>2 DEF TypeOK, Goto
    <3> QED BY <3>1, <1>2 DEF TypeOK
  <2> QED BY <2>1, <2>2
<1> QED BY <1>1, <1>2 DEF ProcessTypes

\* A process that ends keeps them.
LEMMA ExitType ==
  ASSUME TypeOK, NEW w \in Writers, Exit(w)
  PROVE  ProcessTypes'
<1>1. Blank.restoring = FALSE BY DEF Blank
<1> QED BY <1>1, OneProcess, BlankIsMemory DEF Exit, Labels

\* A process that records its failure keeps them.
LEMMA FailType ==
  ASSUME TypeOK, NEW w \in Writers, NEW label \in Guarded, Goto(w, label),
         mem' = [mem EXCEPT ![w].failed = TRUE]
  PROVE  ProcessTypes'
<1> DEFINE m == [mem[w] EXCEPT !.failed = TRUE]
<1>1. mem[w] \in Memory BY DEF TypeOK
<1>2. m \in Memory /\ m.failed = TRUE BY <1>1 DEF Memory
<1>3. mem' = [mem EXCEPT ![w] = m] OBVIOUS
<1> HIDE DEF m
<1> QED BY <1>2, <1>3, OneProcess DEF Labels

\* A process that may start the rollback keeps them.
LEMMA ManifestFailsType ==
  ASSUME TypeOK, NEW w \in Writers, ManifestFails(w)
  PROVE  ProcessTypes'
<1> DEFINE m == [mem[w] EXCEPT !.failed = TRUE, !.restoring = WritesLock(w)]
<1>1. mem[w] \in Memory /\ WritesLock(w) \in BOOLEAN BY DEF TypeOK, WritesLock
<1>2. m \in Memory /\ m.failed = TRUE
  <2>1. ASSUME NEW b \in BOOLEAN
        PROVE  /\ [mem[w] EXCEPT !.failed = TRUE, !.restoring = b] \in Memory
               /\ [mem[w] EXCEPT !.failed = TRUE, !.restoring = b].failed = TRUE
    BY <1>1 DEF Memory
  <2> QED BY <1>1, <2>1
<1>3. mem' = [mem EXCEPT ![w] = m] BY DEF ManifestFails
<1>4. PICK label \in Guarded : Goto(w, label) BY DEF ManifestFails, Guarded
<1> HIDE DEF m
<1> QED BY <1>2, <1>3, <1>4, OneProcess DEF Labels

\* The rest of the types.
LEMMA FileTypes ==
  ASSUME TypeOK, ProcessTypes', UNCHANGED <<files, edits>>, disturbed' \in BOOLEAN,
         projectGuard' \in Writers \cup {Free}, lockGuard' \in Writers \cup {Free},
         manifestGuard' \in Writers \cup {Free}
  PROVE  TypeOK'
<1> QED BY DEF TypeOK, ProcessTypes, Labels, files

\* A command reads the files, computes what it wants, and gives up.
LEMMA CommandType ==
  ASSUME TypeOK, NEW w \in Writers, Command(w)
  PROVE  TypeOK'
<1>0. mem[w] \in Memory BY DEF TypeOK
<1>1. CASE OpenLock(w)
  <2> DEFINE m == [mem[w] EXCEPT !.first = lock, !.seen = lock]
  <2>1. m \in Memory /\ m.restoring = mem[w].restoring BY <1>0 DEF Memory, TypeOK
  <2>2. mem' = [mem EXCEPT ![w] = m] BY <1>1 DEF OpenLock
  <2>3. ~mem[w].restoring BY <1>1 DEF OpenLock, TypeOK, Guarded
  <2> HIDE DEF m
  <2>4. ProcessTypes' BY <1>1, <2>1, <2>2, <2>3, OneProcess DEF OpenLock, Labels
  <2> QED BY <1>1, <2>4, FileTypes DEF OpenLock, TypeOK, guards
<1>2. CASE OpenManifest(w)
  BY <1>2 DEF OpenManifest, TypeOK, Goto, files, guards, Memory, Guarded
<1>3. CASE Install(w) \/ Update(w) \/ Remove(w)
  <2>1. pc[w] = "command" BY <1>3 DEF Install, Update, Remove
  <2>2. \E refs \in SUBSET Refs, pins \in Pins : Want(w, refs, pins)
    <3>1. CASE Install(w) BY <3>1 DEF Install
    <3>2. CASE Update(w) BY <3>2 DEF Update
    <3>3. CASE Remove(w)
      <4>1. PICK refs \in SUBSET Refs : \E r \in refs :
              Want(w, refs \ {r}, [PinsOf(mem[w].seen) EXCEPT ![r] = 0])
        BY <3>3 DEF Remove
      <4>2. PICK r \in refs : Want(w, refs \ {r}, [PinsOf(mem[w].seen) EXCEPT ![r] = 0])
        BY <4>1
      <4>4. PinsOf(mem[w].seen) \in Pins BY <1>0, PinsAreFiles DEF Memory
      <4>3. [PinsOf(mem[w].seen) EXCEPT ![r] = 0] \in Pins
        BY <4>4, BoundAssumption DEF Pins
      <4> QED BY <4>2, <4>3
    <3> QED BY <1>3, <3>1, <3>2, <3>3
  <2>3. PICK refs \in SUBSET Refs, pins \in Pins : Want(w, refs, pins) BY <2>2
  <2> DEFINE m == [mem[w] EXCEPT !.refs = refs, !.pins = pins]
  <2>4. m \in Memory /\ m.restoring = mem[w].restoring BY <1>0 DEF Memory
  <2>5. mem' = [mem EXCEPT ![w] = m] BY <2>3 DEF Want
  <2>6. ~mem[w].restoring BY <2>1 DEF TypeOK, Guarded
  <2> HIDE DEF m
  <2>7. ProcessTypes' BY <2>3, <2>4, <2>5, <2>6, OneProcess DEF Want, Labels
  <2> QED BY <2>3, <2>7, FileTypes DEF Want, TypeOK, guards
<1>4. CASE GiveUp(w) BY <1>4, ExitType, FileTypes DEF GiveUp, TypeOK, guards
<1> QED BY <1>1, <1>2, <1>3, <1>4 DEF Command

\* Save up to the project guard, and its release.
LEMMA SaveType ==
  ASSUME TypeOK, NEW w \in Writers, Save(w)
  PROVE  TypeOK'
<1>1. CASE CheckLock(w)
  <2>1. CASE Exit(w) BY <1>1, <2>1, ExitType, FileTypes DEF CheckLock, TypeOK, guards
  <2>2. CASE ~Exit(w)
    BY <1>1, <2>2 DEF CheckLock, TypeOK, Goto, files, guards, Guarded
  <2> QED BY <2>1, <2>2
<1>2. CASE Enter(w)
  <2> DEFINE m == [mem[w] EXCEPT !.base = <<lock, manifest>>]
  <2>1. mem[w] \in Memory /\ lock \in LockFiles /\ manifest \in Manifests BY DEF TypeOK
  <2>2. m \in Memory /\ m.restoring = mem[w].restoring BY <2>1 DEF Memory
  <2>3. mem' = [mem EXCEPT ![w] = m] BY <1>2 DEF Enter
  <2>4. ~mem[w].restoring BY <1>2 DEF Enter, TypeOK, Guarded
  <2> HIDE DEF m
  <2>5. ProcessTypes' BY <1>2, <2>2, <2>3, <2>4, OneProcess DEF Enter, Labels, Guarded
  <2> QED BY <1>2, <2>5, FileTypes DEF Enter, TypeOK
<1>3. CASE Busy(w) BY <1>3, ExitType, FileTypes DEF Busy, TypeOK, guards
<1>4. CASE CheckManifest(w)
  <2>1. CASE UNCHANGED mem
    BY <1>4, <2>1 DEF CheckManifest, TypeOK, Goto, files, guards, Guarded
  <2>2. CASE ~UNCHANGED mem
    <3>1. ProcessTypes' BY <1>4, <2>2, FailType DEF CheckManifest, Guarded
    <3> QED BY <1>4, <3>1, FileTypes DEF CheckManifest, TypeOK, guards
  <2> QED BY <2>1, <2>2
<1>5. CASE Leave(w) BY <1>5, ExitType, FileTypes DEF Leave, TypeOK
<1> QED BY <1>1, <1>2, <1>3, <1>4, <1>5 DEF Save

\* The replacement of the lock.
LEMMA ReplaceLockType ==
  ASSUME TypeOK, NEW w \in Writers, ReplaceLock(w)
  PROVE  TypeOK'
<1>0. ASSUME NEW label \in Guarded, LockFails(w, label), UNCHANGED <<files, guards, edits>>
      PROVE  TypeOK'
  <2>1. ProcessTypes' BY <1>0, FailType DEF LockFails
  <2>2. disturbed' \in BOOLEAN BY <1>0, Zenon DEF LockFails
  <2> QED BY <1>0, <2>1, <2>2, FileTypes DEF TypeOK, guards
<1>1. CASE TakeLockGuard(w)
  BY <1>0, <1>1 DEF TakeLockGuard, TypeOK, Goto, files, guards, Guarded
<1>2. CASE LockCheck(w)
  BY <1>0, <1>2 DEF LockCheck, TypeOK, Goto, files, guards, Guarded
<1>3. CASE LockStage(w)
  BY <1>0, <1>3 DEF LockStage, TypeOK, Goto, files, guards, Guarded
<1>4. CASE LockCommit(w)
  <2>1. Target(w) \in LockFiles BY PinsAreFiles DEF Target, TypeOK, Memory
  <2>2. CASE LockFails(w, "lockRelease") /\ UNCHANGED <<lock, lockAuthor>>
    BY <1>0, <1>4, <2>2 DEF LockCommit, files, Guarded
  <2>3. CASE ~(LockFails(w, "lockRelease") /\ UNCHANGED <<lock, lockAuthor>>)
    <3> DEFINE m == [mem[w] EXCEPT !.seen = Target(w)]
    <3>1. mem[w] \in Memory BY DEF TypeOK
    <3>2. m \in Memory /\ m.restoring = mem[w].restoring /\ m.failed = mem[w].failed
      BY <2>1, <3>1 DEF Memory
    <3>3. mem' = [mem EXCEPT ![w] = m] BY <1>4, <2>3 DEF LockCommit
    <3> HIDE DEF m
    <3>4. mem[w].restoring => mem[w].failed BY DEF TypeOK
    <3>5. Goto(w, "lockRelease") BY <1>4, <2>3 DEF LockCommit
    <3>6. ProcessTypes' BY <3>2, <3>3, <3>4, <3>5, OneProcess DEF Labels, Guarded
    <3> QED BY <1>4, <2>1, <2>3, <3>6 DEF LockCommit, TypeOK, ProcessTypes, Labels, guards
  <2> QED BY <2>2, <2>3
<1>5. CASE ReleaseLock(w)
  <2>1. AfterLock(mem'[w]) \in Guarded BY DEF AfterLock, Guarded
  <2>2. CASE UNCHANGED mem
    BY <1>5, <2>1, <2>2 DEF ReleaseLock, TypeOK, Goto, files, guards, Guarded
  <2>3. CASE ~UNCHANGED mem
    <3>1. ProcessTypes' BY <1>5, <2>1, <2>3, FailType DEF ReleaseLock
    <3> QED BY <1>5, <2>3, <3>1, FileTypes DEF ReleaseLock, TypeOK
  <2> QED BY <2>2, <2>3
<1> QED BY <1>1, <1>2, <1>3, <1>4, <1>5 DEF ReplaceLock

\* The replacement of the manifest.
LEMMA SaveManifestType ==
  ASSUME TypeOK, NEW w \in Writers, SaveManifest(w)
  PROVE  TypeOK'
<1>0. ASSUME ManifestFails(w), disturbed' \in BOOLEAN,
             manifestGuard' \in Writers \cup {Free},
             UNCHANGED <<files, projectGuard, lockGuard, edits>>
      PROVE  TypeOK'
  BY <1>0, ManifestFailsType, FileTypes DEF TypeOK
<1>f. ASSUME NEW label \in Guarded, Goto(w, label),
             mem' = [mem EXCEPT ![w].failed = TRUE],
             UNCHANGED <<files, guards, disturbed, edits>>
      PROVE  TypeOK'
  BY <1>f, FailType, FileTypes DEF TypeOK, guards
<1>1. CASE ManifestCheck(w)
  <2>1. CASE ManifestFails(w)
    BY <1>0, <1>1, <2>1 DEF ManifestCheck, TypeOK, files, guards
  <2>2. CASE ~ManifestFails(w)
    BY <1>1, <2>2 DEF ManifestCheck, TypeOK, Goto, files, guards, Guarded
  <2> QED BY <2>1, <2>2
<1>2. CASE TakeManifestGuard(w)
  <2>1. CASE ManifestFails(w)
    BY <1>0, <1>2, <2>1 DEF TakeManifestGuard, TypeOK
  <2>2. CASE ~ManifestFails(w)
    BY <1>2, <2>2 DEF TakeManifestGuard, TypeOK, Goto, files, Guarded
  <2> QED BY <2>1, <2>2
<1>3. CASE ManifestStage(w)
  BY <1>f, <1>3 DEF ManifestStage, TypeOK, Goto, files, guards, Guarded
<1>4. CASE ManifestCommit(w)
  <2>1. CASE UNCHANGED <<manifest, manifestAuthor>> /\ mem' = [mem EXCEPT ![w].failed = TRUE]
    BY <1>f, <1>4, <2>1 DEF ManifestCommit, files, Guarded
  <2>2. CASE ~(UNCHANGED <<manifest, manifestAuthor>>
               /\ mem' = [mem EXCEPT ![w].failed = TRUE])
    BY <1>4, <2>2 DEF ManifestCommit, TypeOK, Goto, guards, Memory, Manifests, Guarded
  <2> QED BY <2>1, <2>2
<1>5. CASE ReleaseManifest(w)
  <2>1. CASE ManifestFails(w)
    BY <1>0, <1>5, <2>1 DEF ReleaseManifest, TypeOK
  <2>2. CASE ~ManifestFails(w)
    BY <1>5, <2>2 DEF ReleaseManifest, TypeOK, Goto, files, Guarded
  <2> QED BY <2>1, <2>2
<1> QED BY <1>1, <1>2, <1>3, <1>4, <1>5 DEF SaveManifest

\* Every step, those of the environment included.
LEMMA TypeStep ==
  ASSUME TypeOK, [Next]_vars
  PROVE  TypeOK'
<1>1. ASSUME NEW w \in Writers, Crash(w) PROVE TypeOK'
  <2>1. Blank.restoring = FALSE BY DEF Blank
  <2>2. ProcessTypes' BY <1>1, <2>1, OneProcess, BlankIsMemory DEF Crash, Labels
  <2> QED BY <1>1, <2>2, FileTypes DEF Crash, TypeOK, guards
<1>2. CASE RemoveStaleGuards BY <1>2 DEF RemoveStaleGuards, TypeOK, files
<1>3. CASE Edit BY <1>3, BoundAssumption DEF Edit, TypeOK, guards
<1>4. CASE UNCHANGED vars BY <1>4 DEF TypeOK, vars, files, guards
<1> QED
  BY <1>1, <1>2, <1>3, <1>4, CommandType, SaveType, ReplaceLockType, SaveManifestType
  DEF Next

\* The commands start without memory.
LEMMA TypeInit == Init => TypeOK
<1>1. Blank.restoring = FALSE BY DEF Blank
<1>2. Blank \in Memory /\ 0 \in 0 .. MaxEdits BY BlankIsMemory, BoundAssumption
<1>3. ASSUME Init PROVE mem \in [Writers -> Memory] BY <1>2, <1>3 DEF Init
<1>4. ASSUME Init PROVE edits \in 0 .. MaxEdits BY <1>2, <1>4 DEF Init
<1> QED BY <1>1, <1>3, <1>4 DEF Init, TypeOK

\* The types of files, guards and memories hold for ever.
THEOREM Typed == Spec => []TypeOK
<1> QED BY TypeInit, TypeStep, PTL DEF Spec

-----------------------------------------------------------------------------
(* The guards.                                                             *)

ByWriter(w) ==
  Command(w) \/ Save(w) \/ ReplaceLock(w) \/ SaveManifest(w) \/ Crash(w)

\* A step of one command leaves the others where they are.
LEMMA OthersStay ==
  ASSUME TypeOK, NEW w \in Writers, ByWriter(w), NEW v \in Writers \ {w}
  PROVE  pc'[v] = pc[v] /\ mem'[v] = mem[v]
<1>1. /\ \E label : pc' = [pc EXCEPT ![w] = label]
      /\ UNCHANGED mem \/ \E m : mem' = [mem EXCEPT ![w] = m]
  <2>1. CASE Command(w)
    BY <2>1 DEF Command, OpenLock, OpenManifest, Install, Update, Remove, Want, GiveUp,
                Exit, Goto
  <2>2. CASE Save(w)
    BY <2>2 DEF Save, CheckLock, Enter, Busy, CheckManifest, Leave, Exit, Goto
  <2>3. CASE ReplaceLock(w)
    BY <2>3 DEF ReplaceLock, TakeLockGuard, LockCheck, LockStage, LockCommit,
                ReleaseLock, LockFails, Goto
  <2>4. CASE SaveManifest(w)
    BY <2>4 DEF SaveManifest, ManifestCheck, TakeManifestGuard, ManifestStage,
                ManifestCommit, ReleaseManifest, ManifestFails, Goto
  <2>5. CASE Crash(w) BY <2>5 DEF Crash, Goto
  <2> QED BY <2>1, <2>2, <2>3, <2>4, <2>5 DEF ByWriter
<1> QED BY <1>1 DEF TypeOK

\* The guards at the start.
LEMMA GuardsInit == Init => GuardsInv
<1> QED BY DEF Init, GuardsInv, Inside, Owned, Guarded, LockSection, ManifestSection

\* How a command handles the three guards and the files behind them.
Takes(guard, w) ==
  guard' = guard \/ (guard = Free /\ guard' = w) \/ (guard = w /\ guard' = Free)

HandlesGuards(w) ==
  /\ Takes(projectGuard, w) /\ Takes(lockGuard, w) /\ Takes(manifestGuard, w)
  /\ UNCHANGED <<lock, lockAuthor>> \/ lockGuard = w
  /\ UNCHANGED <<manifest, manifestAuthor>> \/ manifestGuard = w
  /\ disturbed => disturbed'
  /\ ~disturbed' =>
       /\ projectGuard' = w => pc'[w] \in Guarded
       /\ lockGuard' = w => pc'[w] \in LockSection
       /\ manifestGuard' = w => pc'[w] \in ManifestSection

\* A command that handles them this way cannot break what another relies on.
LEMMA GuardsKept ==
  ASSUME TypeOK, GuardsInv, NEW w \in Writers, ByWriter(w), HandlesGuards(w), Inside(w)'
  PROVE  GuardsInv'
<1>1. \A v \in Writers \ {w} : pc'[v] = pc[v] /\ mem'[v] = mem[v] BY OthersStay
<1>2. ASSUME NEW v \in Writers \ {w} PROVE Inside(v)'
  <2>1. pc'[v] = pc[v] /\ mem'[v] = mem[v] BY <1>1
  <2>2. Inside(v) BY DEF GuardsInv
  <2>3. v # w /\ v # Free BY NameAssumption
  <2> QED
    BY <2>1, <2>2, <2>3
    DEF Inside, HandlesGuards, Takes, LockUnchanged, ManifestUnchanged, LockSection,
        ManifestSection
<1>3. Owned'
  <2>1. CASE disturbed' BY <2>1 DEF Owned
  <2>2. CASE ~disturbed'
    <3>1. ~disturbed BY <2>2 DEF HandlesGuards
    <3>2. projectGuard' # Free => pc'[projectGuard'] \in Guarded
      BY <1>1, <2>2, <3>1 DEF HandlesGuards, Takes, GuardsInv, Owned, TypeOK
    <3>3. lockGuard' # Free => pc'[lockGuard'] \in LockSection
      BY <1>1, <2>2, <3>1 DEF HandlesGuards, Takes, GuardsInv, Owned, TypeOK
    <3>4. manifestGuard' # Free => pc'[manifestGuard'] \in ManifestSection
      BY <1>1, <2>2, <3>1 DEF HandlesGuards, Takes, GuardsInv, Owned, TypeOK
    <3> QED BY <3>2, <3>3, <3>4 DEF Owned
  <2> QED BY <2>1, <2>2
<1> QED BY <1>2, <1>3 DEF GuardsInv

\* Nobody handles a guard outside of the guarded sections.
LEMMA OutsideGuards ==
  ASSUME TypeOK, GuardsInv, NEW w \in Writers, ByWriter(w),
         pc[w] \notin Guarded, pc'[w] \notin Guarded,
         UNCHANGED <<files, guards, disturbed>>
  PROVE  HandlesGuards(w) /\ Inside(w)'
<1>1. ~disturbed => projectGuard # w /\ lockGuard # w /\ manifestGuard # w
  BY NameAssumption DEF GuardsInv, Owned, Guarded, LockSection, ManifestSection
<1> QED
  BY <1>1
  DEF HandlesGuards, Takes, Inside, files, guards, Guarded, LockSection, ManifestSection

\* The commands touch no guard.
LEMMA CommandGuards ==
  ASSUME TypeOK, GuardsInv, NEW w \in Writers, Command(w)
  PROVE  GuardsInv'
<1>1. /\ UNCHANGED <<files, guards, disturbed>>
      /\ pc[w] \in {"idle", "openManifest", "command"}
      /\ \E label \in {"idle", "openManifest", "command", "check"} : Goto(w, label)
  BY DEF Command, OpenLock, OpenManifest, Install, Update, Remove, Want, GiveUp, Exit
<1>2. pc'[w] \in {"idle", "openManifest", "command", "check"}
  BY <1>1 DEF Goto, TypeOK
<1> QED BY <1>1, <1>2, OutsideGuards, GuardsKept DEF ByWriter, Guarded

\* Save takes and releases the project guard.
LEMMA SaveGuards ==
  ASSUME TypeOK, GuardsInv, NEW w \in Writers, Save(w)
  PROVE  GuardsInv'
<1> SUFFICES HandlesGuards(w) /\ Inside(w)' BY GuardsKept DEF ByWriter
<1>0. Inside(w) /\ Owned BY DEF GuardsInv
<1>1. CASE CheckLock(w) \/ Busy(w)
  <2>1. /\ UNCHANGED <<files, guards, disturbed>>
        /\ pc[w] \in {"check", "guard"}
        /\ \E label \in {"idle", "guard"} : Goto(w, label)
    BY <1>1 DEF CheckLock, Busy, Exit
  <2>2. pc'[w] \in {"idle", "guard"} BY <2>1 DEF Goto, TypeOK
  <2> QED BY <2>1, <2>2, OutsideGuards DEF ByWriter, Guarded
<1>2. CASE Enter(w)
  <2>1. pc'[w] = "checkManifest" BY <1>2 DEF Enter, Goto, TypeOK
  <2> QED
    BY <1>0, <1>2, <2>1, NameAssumption
    DEF Enter, HandlesGuards, Takes, Inside, Owned, files, Guarded, LockSection,
        ManifestSection
<1>3. CASE CheckManifest(w)
  <2>1. pc'[w] \in {"lockGuard", "manifestCheck", "release"}
    BY <1>3 DEF CheckManifest, Goto, TypeOK
  <2> QED
    BY <1>0, <1>3, <2>1, NameAssumption
    DEF CheckManifest, HandlesGuards, Takes, Inside, Owned, files, guards, Guarded,
        LockSection, ManifestSection
<1>4. CASE Leave(w)
  <2>1. pc'[w] = "idle" BY <1>4 DEF Leave, Exit, Goto, TypeOK
  <2> QED
    BY <1>0, <1>4, <2>1, NameAssumption
    DEF Leave, HandlesGuards, Takes, Inside, Owned, files, Guarded, LockSection,
        ManifestSection
<1> QED BY <1>1, <1>2, <1>3, <1>4 DEF Save

\* The replacement of the lock takes and releases the guard of the lock.
LEMMA ReplaceLockGuards ==
  ASSUME TypeOK, GuardsInv, NEW w \in Writers, ReplaceLock(w)
  PROVE  GuardsInv'
<1> SUFFICES HandlesGuards(w) /\ Inside(w)' BY GuardsKept DEF ByWriter
<1>0. Inside(w) /\ Owned BY DEF GuardsInv
<1>1. CASE TakeLockGuard(w)
  <2>1. \/ pc'[w] = "lockCheck" /\ lockGuard = Free /\ lockGuard' = w /\ UNCHANGED disturbed
        \/ pc'[w] = "release" /\ UNCHANGED lockGuard /\ (disturbed => disturbed')
    BY <1>1 DEF TakeLockGuard, LockFails, Goto, TypeOK
  <2> QED
    BY <1>0, <1>1, <2>1, NameAssumption
    DEF TakeLockGuard, HandlesGuards, Takes, Inside, Owned, files, Guarded, LockSection,
        ManifestSection
<1>2. CASE LockCheck(w) \/ LockStage(w)
  <2>1. /\ pc[w] \in {"lockCheck", "lockStage"} /\ pc'[w] \in LockSection
        /\ UNCHANGED <<files, guards>> /\ (disturbed => disturbed')
        /\ pc'[w] \in {"lockStage", "lockCommit"} => LockUnchanged(w) /\ UNCHANGED mem
    BY <1>2 DEF LockCheck, LockStage, LockFails, Goto, TypeOK, LockSection
  <2> QED
    BY <1>0, <2>1, NameAssumption
    DEF LockUnchanged, HandlesGuards, Takes, Inside, Owned, files, guards, Guarded,
        LockSection, ManifestSection
<1>3. CASE LockCommit(w)
  <2>1. pc'[w] = "lockRelease" /\ (disturbed => disturbed')
    BY <1>3 DEF LockCommit, LockFails, Goto, TypeOK
  <2> QED
    BY <1>0, <1>3, <2>1, NameAssumption
    DEF LockCommit, HandlesGuards, Takes, Inside, Owned, guards, Guarded, LockSection,
        ManifestSection
<1>4. CASE ReleaseLock(w)
  <2>1. pc'[w] \in {"release", "manifestCheck"}
    BY <1>4 DEF ReleaseLock, AfterLock, Goto, TypeOK
  <2> QED
    BY <1>0, <1>4, <2>1, NameAssumption
    DEF ReleaseLock, HandlesGuards, Takes, Inside, Owned, files, Guarded, LockSection,
        ManifestSection
<1> QED BY <1>1, <1>2, <1>3, <1>4 DEF ReplaceLock

\* The replacement of the manifest takes and releases that of the manifest.
LEMMA SaveManifestGuards ==
  ASSUME TypeOK, GuardsInv, NEW w \in Writers, SaveManifest(w)
  PROVE  GuardsInv'
<1> SUFFICES HandlesGuards(w) /\ Inside(w)' BY GuardsKept DEF ByWriter
<1>0. Inside(w) /\ Owned BY DEF GuardsInv
<1>f. ManifestFails(w) => pc'[w] \in {"lockGuard", "release"}
  BY DEF ManifestFails, Goto, TypeOK
<1>1. CASE ManifestCheck(w)
  <2>1. pc'[w] \in {"manifestGuard", "lockGuard", "release"}
    BY <1>f, <1>1 DEF ManifestCheck, Goto, TypeOK
  <2> QED
    BY <1>0, <1>1, <2>1, NameAssumption
    DEF ManifestCheck, HandlesGuards, Takes, Inside, Owned, files, guards, Guarded,
        LockSection, ManifestSection
<1>2. CASE TakeManifestGuard(w)
  <2>1. \/ pc'[w] = "manifestStage" /\ manifestGuard = Free /\ manifestGuard' = w
        \/ pc'[w] \in {"lockGuard", "release"} /\ UNCHANGED manifestGuard
    BY <1>f, <1>2 DEF TakeManifestGuard, Goto, TypeOK
  <2> QED
    BY <1>0, <1>2, <2>1, NameAssumption
    DEF TakeManifestGuard, HandlesGuards, Takes, Inside, Owned, files, Guarded,
        LockSection, ManifestSection
<1>3. CASE ManifestStage(w)
  <2>1. /\ pc'[w] \in {"manifestCommit", "manifestRelease"}
        /\ pc'[w] = "manifestCommit" => ManifestUnchanged(w) /\ UNCHANGED mem
    BY <1>3 DEF ManifestStage, Goto, TypeOK
  <2> QED
    BY <1>0, <1>3, <2>1, NameAssumption
    DEF ManifestStage, ManifestUnchanged, HandlesGuards, Takes, Inside, Owned, files,
        guards, Guarded, LockSection, ManifestSection
<1>4. CASE ManifestCommit(w)
  <2>1. pc'[w] = "manifestRelease" BY <1>4 DEF ManifestCommit, Goto, TypeOK
  <2> QED
    BY <1>0, <1>4, <2>1, NameAssumption
    DEF ManifestCommit, HandlesGuards, Takes, Inside, Owned, guards, Guarded,
        LockSection, ManifestSection
<1>5. CASE ReleaseManifest(w)
  <2>1. pc'[w] \in {"lockGuard", "release"}
    BY <1>f, <1>5 DEF ReleaseManifest, Goto, TypeOK
  <2> QED
    BY <1>0, <1>5, <2>1, NameAssumption
    DEF ReleaseManifest, HandlesGuards, Takes, Inside, Owned, files, Guarded,
        LockSection, ManifestSection
<1> QED BY <1>1, <1>2, <1>3, <1>4, <1>5 DEF SaveManifest

\* Every step, those of the environment included.
LEMMA GuardsStep ==
  ASSUME TypeOK, GuardsInv, [Next]_vars
  PROVE  GuardsInv'
<1>1. ASSUME NEW w \in Writers, Crash(w) PROVE GuardsInv'
  <2>1. pc'[w] = "crashed" BY <1>1 DEF Crash, Goto, TypeOK
  <2>2. HandlesGuards(w) /\ Inside(w)'
    BY <1>1, <2>1
    DEF Crash, HandlesGuards, Takes, Inside, files, guards, Guarded, LockSection,
        ManifestSection
  <2> QED BY <1>1, <2>2, GuardsKept DEF ByWriter
<1>2. CASE RemoveStaleGuards
  BY <1>2
  DEF RemoveStaleGuards, GuardsInv, Inside, Owned, Guarded, LockSection, ManifestSection
<1>3. CASE Edit
  BY <1>3
  DEF Edit, GuardsInv, Inside, Owned, guards, LockUnchanged, ManifestUnchanged
<1>4. CASE UNCHANGED vars
  BY <1>4
  DEF vars, files, guards, GuardsInv, Inside, Owned, LockUnchanged, ManifestUnchanged
<1> QED
  BY <1>1, <1>2, <1>3, <1>4, CommandGuards, SaveGuards, ReplaceLockGuards,
     SaveManifestGuards
  DEF Next

\* The guards exclude for ever.
THEOREM GuardsExclude == Spec => []GuardsInv
<1> QED BY TypeInit, TypeStep, GuardsInit, GuardsStep, PTL DEF Spec

\* A command replaces a file only at the end of a guarded section.
LEMMA OnlyCommitsWrite ==
  ASSUME TypeOK, NEW w \in Writers, ByWriter(w)
  PROVE  /\ edits' = edits
         /\ UNCHANGED <<lock, lockAuthor>> \/ (pc[w] = "lockCommit" /\ lockAuthor' = w)
         /\ UNCHANGED <<manifest, manifestAuthor>>
              \/ (pc[w] = "manifestCommit" /\ manifestAuthor' = w)
<1>1. CASE Command(w)
  BY <1>1 DEF Command, OpenLock, OpenManifest, Install, Update, Remove, Want, GiveUp,
              files
<1>2. CASE Save(w)
  BY <1>2 DEF Save, CheckLock, Enter, Busy, CheckManifest, Leave, files
<1>3. CASE ReplaceLock(w)
  BY <1>3 DEF ReplaceLock, TakeLockGuard, LockCheck, LockStage, LockCommit, ReleaseLock,
              files
<1>4. CASE SaveManifest(w)
  BY <1>4 DEF SaveManifest, ManifestCheck, TakeManifestGuard, ManifestStage,
              ManifestCommit, ReleaseManifest, files
<1>5. CASE Crash(w) BY <1>5 DEF Crash, files
<1> QED BY <1>1, <1>2, <1>3, <1>4, <1>5 DEF ByWriter

\* What is replaced is what was read or written last, or an edit that came
\* between the last comparison and the rename.
LEMMA ReplacesWhatItRead ==
  ASSUME TypeOK, GuardsInv, [Next]_vars
  PROVE  [BuildsOnWhatItRead]_vars
<1>1. ASSUME NEW w \in Writers, ByWriter(w) PROVE BuildsOnWhatItRead
  <2>1. Inside(w) /\ w # Editor BY NameAssumption DEF GuardsInv
  <2>2. /\ UNCHANGED <<lock, lockAuthor>> \/ (pc[w] = "lockCommit" /\ lockAuthor' = w)
        /\ UNCHANGED <<manifest, manifestAuthor>>
             \/ (pc[w] = "manifestCommit" /\ manifestAuthor' = w)
    BY <1>1, OnlyCommitsWrite
  <2> QED
    BY <2>1, <2>2
    DEF BuildsOnWhatItRead, Inside, LockUnchanged, ManifestUnchanged, Guarded
<1>2. CASE Edit
  <2>1. edits' # edits BY <1>2 DEF Edit, TypeOK
  <2> QED BY <1>2, <2>1, NameAssumption DEF Edit, BuildsOnWhatItRead
<1>3. CASE RemoveStaleGuards BY <1>3 DEF RemoveStaleGuards, BuildsOnWhatItRead, files
<1> QED BY <1>1, <1>2, <1>3 DEF Next, ByWriter

\* No command replaces a file that is not the one it read or wrote, and none
\* builds on what a crashed command left while its guard is there.
THEOREM CommandsLoseNothing == Spec => NoLostUpdate
<1> QED BY Typed, GuardsExclude, ReplacesWhatItRead, PTL DEF Spec, NoLostUpdate

-----------------------------------------------------------------------------
(* The files while nothing has disturbed a command.                        *)

\* What a step of one command must show for the invariant of all of them.
LEMMA SaveKept ==
  ASSUME TypeOK, GuardsInv, SaveInv, NEW w \in Writers, ByWriter(w),
         ~disturbed, Reader(w)', pc'[w] \in Guarded => Holder(w)',
         projectGuard' = Free => SelectedLock(lock, manifest)'
  PROVE  SaveInv'
<1>1. ASSUME NEW v \in Writers \ {w}
      PROVE  Reader(v)' /\ (pc'[v] \in Guarded => Holder(v)')
  <2>1. pc'[v] = pc[v] /\ mem'[v] = mem[v] BY OthersStay
  <2>2. Reader(v)' BY <2>1 DEF SaveInv, Reader, Untouched, WantsPair, WritesLock
  <2>3. ASSUME pc'[v] \in Guarded PROVE Holder(v)'
    <3>1. pc[w] \notin Guarded BY <2>1, <2>3 DEF GuardsInv, Inside
    <3>2. UNCHANGED <<lock, manifest>> BY <3>1, OnlyCommitsWrite DEF Guarded
    <3>3. Holder(v) BY <2>1, <2>3 DEF SaveInv
    <3> QED
      BY <2>1, <3>2, <3>3
      DEF Holder, AtBase, Untouched, WantsPair, WritesLock, LockWritten, LockDone
  <2> QED BY <2>2, <2>3
<1> QED BY <1>1 DEF SaveInv

\* What a resolution pins.
LEMMA ResolvePins ==
  ASSUME TypeOK, NEW w \in Writers, NEW refs \in SUBSET Refs, NEW update,
         NEW pins \in Pins, Resolve(w, refs, update, pins)
  PROVE  refs \subseteq Pinned(pins)
<1>1. PinsOf(pins) = pins BY NameAssumption DEF PinsOf
<1> QED BY <1>1 DEF Resolve, Pinned

\* A resolution wants what it pins.
LEMMA ResolvedPair ==
  ASSUME TypeOK, NEW w \in Writers, Untouched(w), NEW refs \in SUBSET Refs, NEW update,
         NEW pins \in Pins, Resolve(w, refs, update, pins), Want(w, refs, pins),
         refs # {} \/ Pinned(mem[w].seen) # {}
  PROVE  Untouched(w)' /\ WantsPair(w)'
<1>1. /\ mem'[w].refs = refs /\ mem'[w].pins = pins /\ mem'[w].first = mem[w].first
      /\ mem'[w].seen = mem[w].seen /\ mem'[w].failed = mem[w].failed
      /\ mem'[w].restoring = mem[w].restoring
  BY DEF Want, TypeOK, Memory
<1>2. refs \subseteq Pinned(pins) BY ResolvePins
<1>3. mem[w].first # NoFile \/ refs # {}
  <2>1. Pinned(NoFile) = {} BY DEF Pinned, PinsOf
  <2> QED BY <2>1 DEF Untouched
<1> QED BY <1>1, <1>2, <1>3 DEF Untouched, WantsPair, WritesLock

\* A removal keeps the other pins.
LEMMA RemovedPair ==
  ASSUME TypeOK, NEW w \in Writers, Untouched(w), Remove(w)
  PROVE  Untouched(w)' /\ WantsPair(w)'
<1>0. mem[w] \in Memory BY DEF TypeOK
<1>1. PICK refs \in SUBSET Refs :
        /\ Dependencies(w, FALSE, refs)
        /\ \E r \in refs : Want(w, refs \ {r}, [PinsOf(mem[w].seen) EXCEPT ![r] = 0])
  BY DEF Remove
<1>2. PICK r \in refs : Want(w, refs \ {r}, [PinsOf(mem[w].seen) EXCEPT ![r] = 0])
  BY <1>1
<1> DEFINE pins == [PinsOf(mem[w].seen) EXCEPT ![r] = 0]
<1>3. PinsOf(mem[w].seen) \in Pins BY <1>0, PinsAreFiles DEF Memory
<1>4. /\ pins \in Pins
      /\ \A d \in Refs \ {r} : pins[d] = PinsOf(mem[w].seen)[d]
  BY <1>3, BoundAssumption DEF Pins
<1>5. Want(w, refs \ {r}, pins) BY <1>2
<1> HIDE DEF pins
<1>6. /\ mem'[w].refs = refs \ {r} /\ mem'[w].pins = pins
      /\ mem'[w].first = mem[w].first /\ mem'[w].seen = mem[w].seen
      /\ mem'[w].failed = mem[w].failed /\ mem'[w].restoring = mem[w].restoring
      /\ mem'[w].manifest = mem[w].manifest
  BY <1>0, <1>5 DEF Want, TypeOK, Memory
<1>7. PinsOf(pins) = pins BY <1>4, NameAssumption DEF PinsOf
<1>8. ASSUME SelectedLock(mem[w].first, mem[w].manifest)
      PROVE  refs \ {r} \subseteq Pinned(pins)
  <2>1. refs \subseteq Pinned(mem[w].seen)
    BY <1>1, <1>8 DEF Dependencies, SelectedLock, Untouched
  <2> QED BY <1>4, <1>7, <2>1 DEF Pinned
<1>9. ASSUME mem[w].first = NoFile
      PROVE  mem[w].manifest # Undeclared /\ refs = mem[w].manifest
  <2>1. Pinned(NoFile) = {} BY DEF Pinned, PinsOf
  <2> QED BY <1>1, <1>9, <2>1 DEF Dependencies, Untouched
<1> QED BY <1>6, <1>8, <1>9 DEF Untouched, WantsPair, WritesLock

\* A process that ends forgets.
LEMMA ExitReads ==
  ASSUME TypeOK, NEW w \in Writers, Exit(w)
  PROVE  Reader(w)' /\ pc'[w] = "idle"
<1>1. pc'[w] = "idle" /\ mem'[w] = Blank BY DEF Exit, Goto, TypeOK
<1>2. Untouched(w)' BY <1>1 DEF Untouched, Blank
<1> QED BY <1>1, <1>2 DEF Reader

\* The commands read, and want a pair.
LEMMA CommandSave ==
  ASSUME TypeOK, GuardsInv, SaveInv, NEW w \in Writers, Command(w), ~disturbed
  PROVE  SaveInv'
<1>0. mem[w] \in Memory /\ Reader(w) BY DEF TypeOK, SaveInv
<1>1. UNCHANGED <<lock, manifest, projectGuard>>
  BY DEF Command, OpenLock, OpenManifest, Install, Update, Remove, Want, GiveUp, files,
         guards
<1>2. projectGuard' = Free => SelectedLock(lock, manifest)'
  BY <1>1 DEF SaveInv, SelectedLock
<1> SUFFICES Reader(w)' /\ pc'[w] \notin Guarded BY <1>2, SaveKept DEF ByWriter
<1>3. CASE OpenLock(w)
  <2>1. pc'[w] = "openManifest" BY <1>3 DEF OpenLock, Goto, TypeOK
  <2>2. /\ mem'[w].first = lock /\ mem'[w].seen = lock
        /\ mem'[w].failed = mem[w].failed /\ mem'[w].restoring = mem[w].restoring
    BY <1>0, <1>3 DEF OpenLock, TypeOK, Memory
  <2> QED BY <1>0, <1>3, <2>1, <2>2 DEF OpenLock, Reader, Untouched, Guarded
<1>4. CASE OpenManifest(w)
  <2>1. pc'[w] = "command" BY <1>4 DEF OpenManifest, Goto, TypeOK
  <2>2. /\ mem'[w].first = mem[w].first /\ mem'[w].seen = mem[w].seen
        /\ mem'[w].failed = mem[w].failed /\ mem'[w].restoring = mem[w].restoring
    BY <1>0, <1>4 DEF OpenManifest, TypeOK, Memory
  <2> QED BY <1>0, <1>4, <2>1, <2>2 DEF OpenManifest, Reader, Untouched, Guarded
<1>5. CASE Install(w) \/ Update(w) \/ Remove(w)
  <2>1. pc[w] = "command" BY <1>5 DEF Install, Update, Remove
  <2>2. pc'[w] = "check" BY <1>5 DEF Install, Update, Remove, Want, Goto, TypeOK
  <2>3. Untouched(w) BY <1>0, <2>1 DEF Reader
  <2>4. Untouched(w)' /\ WantsPair(w)'
    <3>1. CASE Install(w)
      <4>1. PICK refs \in SUBSET Refs, added \in {{}} \cup {{r} : r \in Refs},
                 pins \in Pins :
              /\ refs \cup added # {} \/ Pinned(mem[w].seen) # {}
              /\ \E update \in SUBSET added : Resolve(w, refs \cup added, update, pins)
              /\ Want(w, refs \cup added, pins)
        BY <3>1 DEF Install
      <4>2. refs \cup added \in SUBSET Refs BY <4>1
      <4> QED BY <2>3, <4>1, <4>2, ResolvedPair
    <3>2. CASE Update(w) BY <2>3, <3>2, ResolvedPair DEF Update
    <3>3. CASE Remove(w) BY <2>3, <3>3, RemovedPair
    <3> QED BY <1>5, <3>1, <3>2, <3>3
  <2> QED BY <2>2, <2>4 DEF Reader, Guarded
<1>6. CASE GiveUp(w) BY <1>6, ExitReads DEF GiveUp, Guarded
<1> QED BY <1>3, <1>4, <1>5, <1>6 DEF Command

\* Save starts from the pair it found, and leaves a pair.
LEMMA SaveSave ==
  ASSUME TypeOK, GuardsInv, SaveInv, NEW w \in Writers, Save(w), ~disturbed
  PROVE  SaveInv'
<1>0. mem[w] \in Memory /\ Reader(w) /\ (pc[w] \in Guarded => Holder(w))
  BY DEF TypeOK, SaveInv
<1>1. CASE CheckLock(w) \/ Busy(w)
  <2>1. /\ UNCHANGED <<lock, manifest, projectGuard>>
        /\ Exit(w) \/ (Goto(w, "guard") /\ UNCHANGED mem /\ pc[w] = "check")
    BY <1>1 DEF CheckLock, Busy, files, guards
  <2>2. projectGuard' = Free => SelectedLock(lock, manifest)'
    BY <2>1 DEF SaveInv, SelectedLock
  <2>3. Reader(w)' /\ pc'[w] \notin Guarded
    <3>1. CASE Exit(w) BY <3>1, ExitReads DEF Guarded
    <3>2. CASE Goto(w, "guard") /\ UNCHANGED mem /\ pc[w] = "check"
      <4>1. pc'[w] = "guard" BY <3>2 DEF Goto, TypeOK
      <4> QED BY <1>0, <3>2, <4>1 DEF Reader, Untouched, WantsPair, WritesLock, Guarded
    <3> QED BY <2>1, <3>1, <3>2
  <2> QED BY <2>2, <2>3, SaveKept DEF ByWriter
<1>2. CASE Enter(w)
  <2>1. pc'[w] = "checkManifest" /\ projectGuard' # Free
    BY <1>2, NameAssumption DEF Enter, Goto, TypeOK
  <2>2. /\ mem'[w].base = <<lock, manifest>>
        /\ mem'[w].first = mem[w].first /\ mem'[w].seen = mem[w].seen
        /\ mem'[w].manifest = mem[w].manifest
        /\ mem'[w].pins = mem[w].pins /\ mem'[w].refs = mem[w].refs
        /\ mem'[w].failed = mem[w].failed /\ mem'[w].restoring = mem[w].restoring
    BY <1>0, <1>2 DEF Enter, TypeOK, Memory
  <2>3. UNCHANGED <<lock, manifest>> /\ SelectedLock(lock, manifest)
    BY <1>2 DEF Enter, files, SaveInv
  <2>4. Untouched(w)' /\ WantsPair(w)'
    BY <1>0, <1>2, <2>2 DEF Enter, Reader, Untouched, WantsPair, WritesLock
  <2>5. mem'[w].base[1] = lock /\ mem'[w].base[2] = manifest BY <2>2
  <2>6. Holder(w)' BY <2>1, <2>3, <2>4, <2>5 DEF Holder, AtBase
  <2>7. Reader(w)' BY <2>1 DEF Reader
  <2> QED BY <1>2, <2>1, <2>6, <2>7, SaveKept DEF ByWriter
<1>3. CASE CheckManifest(w)
  <2>1. UNCHANGED <<lock, manifest, projectGuard>> /\ projectGuard' # Free
    <3>1. projectGuard = w /\ w # Free
      BY <1>3, NameAssumption DEF CheckManifest, GuardsInv, Inside, Guarded
    <3> QED BY <1>3, <3>1 DEF CheckManifest, files, guards
  <2>2. Holder(w) /\ pc[w] = "checkManifest" BY <1>0, <1>3 DEF CheckManifest, Guarded
  <2>3. CASE UNCHANGED mem
    <3>1. \/ pc'[w] = "lockGuard" /\ WritesLock(w)
          \/ pc'[w] = "manifestCheck" /\ ~WritesLock(w)
          \/ pc'[w] = "release" /\ mem[w].failed
      BY <1>0, <1>3, <2>3 DEF CheckManifest, Goto, TypeOK, Memory
    <3>2. pc'[w] = "release" \/ ManifestUnchanged(w)
      BY <1>3 DEF CheckManifest, Goto, TypeOK
    <3>3. Holder(w)'
      BY <2>1, <2>2, <2>3, <3>1, <3>2
      DEF Holder, AtBase, Untouched, LockDone, LockWritten, WantsPair, WritesLock,
          ManifestUnchanged, SelectedLock
    <3> QED BY <1>3, <2>1, <3>1, <3>3, SaveKept DEF ByWriter, Reader
  <2>4. CASE ~UNCHANGED mem
    <3>1. pc'[w] = "release" BY <1>3, <2>4 DEF CheckManifest, Goto, TypeOK
    <3>2. mem'[w].failed = TRUE /\ mem'[w].base = mem[w].base
      BY <1>0, <1>3, <2>4 DEF CheckManifest, TypeOK, Memory
    <3>3. Holder(w)'
      BY <2>1, <2>2, <3>1, <3>2 DEF Holder, AtBase, SelectedLock
    <3> QED BY <1>3, <2>1, <3>1, <3>3, SaveKept DEF ByWriter, Reader
  <2> QED BY <2>3, <2>4
<1>4. CASE Leave(w)
  <2>1. pc'[w] = "idle" /\ Reader(w)' BY <1>4, ExitReads DEF Leave
  <2>2. UNCHANGED <<lock, manifest>> BY <1>4 DEF Leave, files
  <2>3. Holder(w) /\ pc[w] = "release" BY <1>0, <1>4 DEF Leave, Guarded
  <2>4. SelectedLock(lock, manifest)'
    BY <2>2, <2>3 DEF Holder, AtBase, SelectedLock
  <2> QED BY <1>4, <2>1, <2>4, SaveKept DEF ByWriter, Guarded
<1> QED BY <1>1, <1>2, <1>3, <1>4 DEF Save

\* The lock is replaced, by what is wanted or by what was there first.
LEMMA ReplaceLockSave ==
  ASSUME TypeOK, GuardsInv, SaveInv, NEW w \in Writers, ReplaceLock(w), ~disturbed,
         ~disturbed'
  PROVE  SaveInv'
<1>0. /\ mem[w] \in Memory /\ (mem[w].restoring => mem[w].failed)
      /\ pc[w] \in Guarded => Holder(w)
  BY DEF TypeOK, SaveInv
<1>1. /\ pc[w] \in {"lockGuard", "lockCheck", "lockStage", "lockCommit", "lockRelease"}
      /\ UNCHANGED <<projectGuard, manifest>>
  BY DEF ReplaceLock, TakeLockGuard, LockCheck, LockStage, LockCommit, ReleaseLock, files,
         guards
<1>2. Holder(w) /\ projectGuard' # Free
  BY <1>0, <1>1, NameAssumption DEF Guarded, GuardsInv, Inside
<1> SUFFICES Holder(w)' /\ pc'[w] \in Guarded
  BY <1>2, SaveKept DEF ByWriter, Reader, Guarded
<1>f. ASSUME NEW label \in {"lockRelease", "release"}, LockFails(w, label),
             UNCHANGED <<lock, manifest>>, pc[w] # "lockRelease"
      PROVE  Holder(w)' /\ pc'[w] \in Guarded
  <2>1. pc'[w] = label BY <1>f DEF LockFails, Goto, TypeOK
  <2>2. mem'[w].failed = TRUE /\ mem'[w].base = mem[w].base
    BY <1>0, <1>f DEF LockFails, TypeOK, Memory
  <2>3. ~mem[w].restoring BY <1>f DEF LockFails
  <2>4. AtBase(w) BY <1>1, <1>2, <1>f, <2>3 DEF Holder
  <2> QED BY <1>2, <1>f, <2>1, <2>2, <2>4 DEF Holder, AtBase, SelectedLock, Guarded
<1>3. CASE TakeLockGuard(w)
  <2>1. UNCHANGED <<lock, manifest>> BY <1>3 DEF TakeLockGuard, files
  <2>2. CASE LockFails(w, "release") BY <1>3, <1>f, <2>1, <2>2 DEF TakeLockGuard
  <2>3. CASE ~LockFails(w, "release")
    <3>1. pc'[w] = "lockCheck" /\ UNCHANGED mem /\ pc[w] = "lockGuard"
      BY <1>3, <2>3 DEF TakeLockGuard, Goto, TypeOK
    <3> QED
      BY <1>2, <2>1, <3>1
      DEF Holder, AtBase, Untouched, WantsPair, WritesLock, SelectedLock, Guarded
  <2> QED BY <2>2, <2>3
<1>4. CASE LockCheck(w)
  <2>1. UNCHANGED <<lock, manifest>> /\ pc[w] = "lockCheck" BY <1>4 DEF LockCheck, files
  <2>2. CASE LockFails(w, "lockRelease") BY <1>f, <2>1, <2>2
  <2>3. CASE ~LockFails(w, "lockRelease")
    <3>1. /\ UNCHANGED mem /\ lock = mem[w].seen
          /\ pc'[w] = IF lock = Target(w) THEN "lockRelease" ELSE "lockStage"
      BY <1>4, <2>3 DEF LockCheck, Goto, TypeOK, LockUnchanged
    <3>2. CASE mem[w].restoring
      BY <1>0, <1>2, <2>1, <3>1, <3>2 DEF Target, Holder, AtBase, SelectedLock, Guarded
    <3>3. CASE ~mem[w].restoring /\ lock = Target(w)
      BY <1>2, <2>1, <3>1, <3>3
      DEF Target, Holder, AtBase, Untouched, WantsPair, WritesLock, LockDone, LockWritten,
          SelectedLock, Guarded
    <3>4. CASE ~mem[w].restoring /\ lock # Target(w)
      BY <1>2, <2>1, <3>1, <3>4
      DEF Holder, AtBase, Untouched, WantsPair, WritesLock, SelectedLock, Guarded
    <3> QED BY <3>2, <3>3, <3>4
  <2> QED BY <2>2, <2>3
<1>5. CASE LockStage(w)
  <2>1. UNCHANGED <<lock, manifest>> /\ pc[w] = "lockStage" BY <1>5 DEF LockStage, files
  <2>2. CASE LockFails(w, "lockRelease") BY <1>f, <2>1, <2>2
  <2>3. CASE ~LockFails(w, "lockRelease")
    <3>1. UNCHANGED mem /\ pc'[w] = "lockCommit"
      BY <1>5, <2>3 DEF LockStage, Goto, TypeOK
    <3> QED
      BY <1>2, <2>1, <3>1
      DEF Holder, AtBase, Untouched, WantsPair, WritesLock, SelectedLock, Guarded
  <2> QED BY <2>2, <2>3
<1>6. CASE LockCommit(w)
  <2>1. pc[w] = "lockCommit" BY <1>6 DEF LockCommit
  <2>2. CASE LockFails(w, "lockRelease") /\ UNCHANGED lock BY <1>1, <1>f, <2>1, <2>2
  <2>3. CASE ~(LockFails(w, "lockRelease") /\ UNCHANGED lock)
    <3>1. /\ lock' = Target(w) /\ pc'[w] = "lockRelease"
          /\ mem' = [mem EXCEPT ![w].seen = Target(w)]
      BY <1>6, <2>3 DEF LockCommit, Goto, TypeOK
    <3>2. /\ mem'[w].seen = Target(w) /\ mem'[w].base = mem[w].base
          /\ mem'[w].first = mem[w].first /\ mem'[w].manifest = mem[w].manifest
          /\ mem'[w].pins = mem[w].pins /\ mem'[w].refs = mem[w].refs
          /\ mem'[w].failed = mem[w].failed /\ mem'[w].restoring = mem[w].restoring
      BY <1>0, <3>1 DEF TypeOK, Memory
    <3>3. CASE mem[w].restoring
      BY <1>0, <1>1, <1>2, <2>1, <3>1, <3>2, <3>3
      DEF Target, Holder, AtBase, SelectedLock, Guarded
    <3>4. CASE ~mem[w].restoring
      BY <1>1, <1>2, <2>1, <3>1, <3>2, <3>4
      DEF Target, Holder, AtBase, Untouched, WantsPair, WritesLock, LockDone, LockWritten,
          SelectedLock, Guarded
    <3> QED BY <3>3, <3>4
  <2> QED BY <2>2, <2>3
<1>7. CASE ReleaseLock(w)
  <2>1. /\ UNCHANGED <<lock, manifest, mem>> /\ pc[w] = "lockRelease"
        /\ pc'[w] = IF mem[w].failed THEN "release" ELSE "manifestCheck"
    BY <1>0, <1>7 DEF ReleaseLock, files, AfterLock, Goto, TypeOK
  <2> QED
    BY <1>0, <1>2, <2>1
    DEF Holder, AtBase, WantsPair, WritesLock, LockDone, LockWritten, SelectedLock, Guarded
<1> QED BY <1>3, <1>4, <1>5, <1>6, <1>7 DEF ReplaceLock

\* The manifest is replaced, or the rollback starts.
LEMMA SaveManifestSave ==
  ASSUME TypeOK, GuardsInv, SaveInv, NEW w \in Writers, SaveManifest(w), ~disturbed,
         ~disturbed'
  PROVE  SaveInv'
<1>0. mem[w] \in Memory /\ (pc[w] \in Guarded => Holder(w)) BY DEF TypeOK, SaveInv
<1>1. /\ pc[w] \in {"manifestCheck", "manifestGuard", "manifestStage", "manifestCommit",
                    "manifestRelease"}
      /\ UNCHANGED <<projectGuard, lock>>
  BY DEF SaveManifest, ManifestCheck, TakeManifestGuard, ManifestStage, ManifestCommit,
         ReleaseManifest, files, guards
<1>2. Holder(w) /\ projectGuard' # Free
  BY <1>0, <1>1, NameAssumption DEF Guarded, GuardsInv, Inside
<1> SUFFICES Holder(w)' /\ pc'[w] \in Guarded
  BY <1>2, SaveKept DEF ByWriter, Reader, Guarded
<1>f. ASSUME ManifestFails(w), UNCHANGED <<lock, manifest>>, LockDone(w)
      PROVE  Holder(w)' /\ pc'[w] \in Guarded
  <2>1. pc'[w] = IF WritesLock(w) THEN "lockGuard" ELSE "release"
    BY <1>f DEF ManifestFails, Goto, TypeOK
  <2>2. /\ mem'[w].failed = TRUE /\ mem'[w].restoring = WritesLock(w)
        /\ mem'[w].base = mem[w].base /\ mem'[w].first = mem[w].first
        /\ mem'[w].seen = mem[w].seen
    BY <1>0, <1>f DEF ManifestFails, TypeOK, Memory
  <2>3. CASE WritesLock(w)
    BY <1>2, <1>f, <2>1, <2>2, <2>3
    DEF Holder, AtBase, LockDone, LockWritten, SelectedLock, Guarded
  <2>4. CASE ~WritesLock(w)
    BY <1>2, <1>f, <2>1, <2>2, <2>4
    DEF Holder, AtBase, LockDone, LockWritten, SelectedLock, Guarded
  <2> QED BY <2>3, <2>4
<1>g. ASSUME mem' = [mem EXCEPT ![w].failed = TRUE], Goto(w, "manifestRelease"),
             UNCHANGED <<lock, manifest>>, LockDone(w), ~mem[w].restoring
      PROVE  Holder(w)' /\ pc'[w] \in Guarded
  <2>1. pc'[w] = "manifestRelease" BY <1>g DEF Goto, TypeOK
  <2>2. /\ mem'[w].failed = TRUE /\ mem'[w].restoring = mem[w].restoring
        /\ mem'[w].base = mem[w].base /\ mem'[w].first = mem[w].first
        /\ mem'[w].seen = mem[w].seen /\ mem'[w].manifest = mem[w].manifest
        /\ mem'[w].pins = mem[w].pins /\ mem'[w].refs = mem[w].refs
    BY <1>0, <1>g DEF TypeOK, Memory
  <2> QED
    BY <1>2, <1>g, <2>1, <2>2
    DEF Holder, LockDone, LockWritten, WantsPair, WritesLock, SelectedLock, Guarded
<1>h. ASSUME NEW label \in {"manifestGuard", "manifestStage", "manifestCommit"},
             Goto(w, label), UNCHANGED <<lock, manifest, mem>>, LockDone(w),
             ~mem[w].failed, ~mem[w].restoring
      PROVE  Holder(w)' /\ pc'[w] \in Guarded
  <2>1. pc'[w] = label BY <1>h DEF Goto, TypeOK
  <2> QED
    BY <1>2, <1>h, <2>1
    DEF Holder, LockDone, LockWritten, WantsPair, WritesLock, SelectedLock, Guarded
<1>3. CASE ManifestCheck(w)
  <2>1. LockDone(w) /\ ~mem[w].failed /\ ~mem[w].restoring
    BY <1>2, <1>3 DEF ManifestCheck, Holder
  <2> QED BY <1>3, <1>f, <1>h, <2>1 DEF ManifestCheck, files
<1>4. CASE TakeManifestGuard(w)
  <2>1. LockDone(w) /\ ~mem[w].failed /\ ~mem[w].restoring
    BY <1>2, <1>4 DEF TakeManifestGuard, Holder
  <2> QED BY <1>4, <1>f, <1>h, <2>1 DEF TakeManifestGuard, files
<1>5. CASE ManifestStage(w)
  <2>1. LockDone(w) /\ ~mem[w].failed /\ ~mem[w].restoring
    BY <1>2, <1>5 DEF ManifestStage, Holder
  <2> QED BY <1>5, <1>g, <1>h, <2>1 DEF ManifestStage, files
<1>6. CASE ManifestCommit(w)
  <2>1. LockDone(w) /\ ~mem[w].failed /\ ~mem[w].restoring
    BY <1>2, <1>6 DEF ManifestCommit, Holder
  <2>2. CASE UNCHANGED manifest /\ mem' = [mem EXCEPT ![w].failed = TRUE]
    BY <1>6, <1>1, <1>g, <2>1, <2>2 DEF ManifestCommit
  <2>3. CASE ~(UNCHANGED manifest /\ mem' = [mem EXCEPT ![w].failed = TRUE])
    <3>1. /\ manifest' = mem[w].refs /\ mem' = [mem EXCEPT ![w].manifest = mem[w].refs]
          /\ pc'[w] = "manifestRelease"
      BY <1>6, <2>3 DEF ManifestCommit, Goto, TypeOK
    <3>2. /\ mem'[w].failed = mem[w].failed /\ mem'[w].restoring = mem[w].restoring
          /\ mem'[w].base = mem[w].base
      BY <1>0, <3>1 DEF TypeOK, Memory
    <3>3. mem[w].refs # Undeclared BY <1>0, NameAssumption DEF Memory
    <3>4. mem[w].refs \subseteq Pinned(lock)
      <4>1. CASE LockWritten(w)
        BY <1>2, <2>1, <4>1 DEF LockDone, LockWritten, Holder, WantsPair
      <4>2. CASE ~WritesLock(w) /\ lock = mem[w].base[1]
        BY <1>2, <2>1, <4>2 DEF LockDone, Holder, WantsPair, SelectedLock
      <4> QED BY <2>1, <4>1, <4>2 DEF LockDone
    <3>5. SelectedLock(lock, mem[w].refs) BY <3>3, <3>4 DEF SelectedLock
    <3>6. SelectedLock(lock, manifest)' BY <1>1, <3>1, <3>5 DEF SelectedLock
    <3> QED BY <1>2, <2>1, <3>1, <3>2, <3>6 DEF Holder, SelectedLock, Guarded
  <2> QED BY <2>2, <2>3
<1>7. CASE ReleaseManifest(w)
  <2>1. UNCHANGED <<lock, manifest>> /\ pc[w] = "manifestRelease"
    BY <1>7 DEF ReleaseManifest, files
  <2>2. CASE mem[w].failed
    <3>1. LockDone(w) BY <1>2, <2>1, <2>2 DEF Holder
    <3>2. ManifestFails(w) BY <1>7, <2>2 DEF ReleaseManifest
    <3> QED BY <1>f, <2>1, <3>1, <3>2
  <2>3. CASE ~mem[w].failed
    <3>1. pc'[w] = "release" /\ UNCHANGED mem
      BY <1>7, <2>3 DEF ReleaseManifest, Goto, TypeOK
    <3> QED BY <1>2, <2>1, <2>3, <3>1 DEF Holder, SelectedLock, Guarded
  <2> QED BY <2>2, <2>3
<1> QED BY <1>3, <1>4, <1>5, <1>6, <1>7 DEF SaveManifest

\* The pair at the start can be loaded.
LEMMA SaveInit == Init => SaveInv
<1>1. ASSUME Init, NEW w \in Writers PROVE Reader(w) /\ pc[w] \notin Guarded
  <2>1. pc[w] = "idle" /\ mem[w] = Blank BY <1>1 DEF Init
  <2> QED BY <2>1 DEF Reader, Untouched, Blank, Guarded
<1> QED BY <1>1 DEF Init, SaveInv

\* Nothing undoes a disturbance.
LEMMA DisturbedStays ==
  ASSUME TypeOK, NEW w \in Writers, ByWriter(w), disturbed
  PROVE  disturbed'
<1>1. CASE Command(w)
  BY <1>1 DEF Command, OpenLock, OpenManifest, Install, Update, Remove, Want, GiveUp
<1>2. CASE Save(w)
  BY <1>2 DEF Save, CheckLock, Enter, Busy, CheckManifest, Leave
<1>3. CASE ReplaceLock(w)
  BY <1>3 DEF ReplaceLock, TakeLockGuard, LockCheck, LockStage, LockCommit, ReleaseLock,
              LockFails
<1>4. CASE SaveManifest(w)
  BY <1>4 DEF SaveManifest, ManifestCheck, TakeManifestGuard, ManifestStage,
              ManifestCommit, ReleaseManifest
<1>5. CASE Crash(w) BY <1>5 DEF Crash
<1> QED BY <1>1, <1>2, <1>3, <1>4, <1>5 DEF ByWriter

\* Every step, those of the environment included.
LEMMA SaveStep ==
  ASSUME TypeOK, GuardsInv, SaveInv, [Next]_vars
  PROVE  SaveInv'
<1>1. CASE disturbed' BY <1>1 DEF SaveInv
<1>2. CASE ~disturbed'
  <2>1. ASSUME NEW w \in Writers, ByWriter(w) PROVE SaveInv'
    <3>1. ~disturbed BY <1>2, <2>1, DisturbedStays
    <3>2. ~Crash(w) BY <1>2 DEF Crash
    <3> QED
      BY <1>2, <2>1, <3>1, <3>2, CommandSave, SaveSave, ReplaceLockSave, SaveManifestSave
      DEF ByWriter
  <2>2. ~RemoveStaleGuards /\ ~Edit BY <1>2 DEF RemoveStaleGuards, Edit
  <2>3. CASE UNCHANGED vars
    BY <2>3
    DEF vars, files, guards, SaveInv, Reader, Holder, AtBase, Untouched, WantsPair,
        WritesLock, LockDone, LockWritten, SelectedLock
  <2> QED BY <2>1, <2>2, <2>3 DEF Next, ByWriter
<1> QED BY <1>1, <1>2

\* How the files differ from what the command that holds the project found.
THEOREM SaveKnowsTheFiles == Spec => []SaveInv
<1> QED
  BY TypeInit, TypeStep, GuardsInit, GuardsStep, SaveInit, SaveStep, PTL DEF Spec

\* Whenever no command holds the project, every declared plugin has its pin,
\* as long as nothing has disturbed a save.
THEOREM PairStaysConsistent == Spec => []PairConsistent
<1>1. SaveInv => PairConsistent BY DEF SaveInv, PairConsistent
<1> QED BY <1>1, SaveKnowsTheFiles, PTL

\* A failed save has put both files back before it gives the project up, and
\* no error path forgets a guard directory.
THEOREM FailedSaveRestores == Spec => []FailedSaveLeavesNoTrace
<1>1. ASSUME TypeOK, GuardsInv, SaveInv PROVE FailedSaveLeavesNoTrace
  <2>1. ASSUME ~disturbed, NEW w \in Writers, pc[w] = "release", mem[w].failed
        PROVE  <<lock, manifest>> = mem[w].base
    <3>1. AtBase(w) BY <1>1, <2>1 DEF SaveInv, Holder, Guarded
    <3>2. mem[w].base \in LockFiles \X Manifests BY <1>1 DEF TypeOK, Memory
    <3> QED BY <3>1, <3>2 DEF AtBase
  <2>2. ASSUME ~disturbed
        PROVE  /\ projectGuard # Free => pc[projectGuard] \in Guarded
               /\ lockGuard # Free => pc[lockGuard] \in Guarded
               /\ manifestGuard # Free => pc[manifestGuard] \in Guarded
    BY <1>1, <2>2 DEF GuardsInv, Owned, Guarded, LockSection, ManifestSection
  <2> QED BY <2>1, <2>2 DEF FailedSaveLeavesNoTrace
<1> QED BY <1>1, Typed, GuardsExclude, SaveKnowsTheFiles, PTL

-----------------------------------------------------------------------------
(* Saves are atomic.                                                       *)

\* The pair that is replaced is the one that the command has read.
Replaces(w) ==
  /\ SelectedLock(lock, manifest)'
  /\ mem[w].manifest = mem[w].base[2]
  /\ lock' # mem[w].base[1] => mem[w].first = mem[w].base[1]

\* What the command that holds the project does to the pair.
LEMMA HolderSteps ==
  ASSUME TypeOK, SaveInv, SaveInv', NEW w \in Writers, ByWriter(w), ~disturbed,
         ~disturbed', pc[w] \in Guarded, ~Leave(w)
  PROVE  /\ projectGuard' = projectGuard /\ mem'[w].base = mem[w].base
         /\ \/ ~Saved(w) /\ ~Saved(w)'
            \/ Saved(w) /\ Saved(w)' /\ UNCHANGED <<lock, manifest>>
            \/ ~Saved(w) /\ Saved(w)' /\ Replaces(w)
<1>0. /\ mem[w] \in Memory /\ (mem[w].restoring => mem[w].failed) /\ Holder(w)
  BY DEF TypeOK, SaveInv
<1>1. CASE Command(w) \/ CheckLock(w) \/ Enter(w) \/ Busy(w) \/ Crash(w)
  BY <1>1 DEF Command, OpenLock, OpenManifest, Install, Update, Remove, GiveUp, CheckLock,
              Enter, Busy, Crash, Guarded
<1>2. CASE CheckManifest(w)
  <2>1. projectGuard' = projectGuard /\ mem'[w].base = mem[w].base
    BY <1>0, <1>2 DEF CheckManifest, guards, TypeOK, Memory
  <2>2. ~Saved(w) BY <1>2 DEF CheckManifest, Saved
  <2>3. CASE UNCHANGED mem
    <3>1. pc'[w] \in {"lockGuard", "manifestCheck"} \/ mem'[w].failed
      BY <1>0, <1>2, <2>3 DEF CheckManifest, Goto, TypeOK, Memory
    <3> QED BY <2>1, <2>2, <3>1 DEF Saved
  <2>4. CASE ~UNCHANGED mem
    <3>1. mem'[w].failed BY <1>0, <1>2, <2>4 DEF CheckManifest, TypeOK, Memory
    <3> QED BY <2>1, <2>2, <3>1 DEF Saved
  <2> QED BY <2>3, <2>4
<1>3. CASE TakeLockGuard(w) \/ LockCheck(w) \/ LockStage(w) \/ LockCommit(w)
  <2>1. pc[w] \in {"lockGuard", "lockCheck", "lockStage", "lockCommit"}
    BY <1>3 DEF TakeLockGuard, LockCheck, LockStage, LockCommit
  <2>2. projectGuard' = projectGuard
    BY <1>3 DEF TakeLockGuard, LockCheck, LockStage, LockCommit, guards
  <2>3. /\ mem'[w].base = mem[w].base
        /\ pc'[w] \in {"lockCheck", "lockStage", "lockCommit", "lockRelease"}
             \/ mem'[w].failed
    <3>1. CASE \E label \in Guarded : LockFails(w, label)
      BY <1>0, <3>1 DEF LockFails, TypeOK, Memory
    <3>2. CASE UNCHANGED mem /\ ~(\E label \in Guarded : LockFails(w, label))
      BY <1>3, <3>2
      DEF TakeLockGuard, LockCheck, LockStage, LockCommit, Goto, TypeOK, Guarded
    <3>3. CASE /\ mem' = [mem EXCEPT ![w].seen = Target(w)] /\ Goto(w, "lockRelease")
      BY <1>0, <3>3 DEF Goto, TypeOK, Memory
    <3> QED
      BY <1>3, <3>1, <3>2, <3>3
      DEF TakeLockGuard, LockCheck, LockStage, LockCommit, Guarded
  <2> QED BY <2>1, <2>2, <2>3 DEF Saved
<1>4. CASE ReleaseLock(w)
  <2>1. /\ UNCHANGED <<mem, projectGuard>> /\ pc[w] = "lockRelease"
        /\ pc'[w] = "manifestCheck" \/ mem[w].failed
    BY <1>0, <1>4 DEF ReleaseLock, AfterLock, Goto, TypeOK
  <2> QED BY <2>1 DEF Saved
<1>f. ASSUME ManifestFails(w), projectGuard' = projectGuard, ~Saved(w)
      PROVE  /\ projectGuard' = projectGuard /\ mem'[w].base = mem[w].base
             /\ ~Saved(w) /\ ~Saved(w)'
  BY <1>0, <1>f DEF ManifestFails, TypeOK, Memory, Saved
<1>5. CASE ManifestCheck(w) \/ TakeManifestGuard(w)
  <2>1. projectGuard' = projectGuard /\ ~Saved(w)
    BY <1>5 DEF ManifestCheck, TakeManifestGuard, guards, Saved
  <2>2. CASE ManifestFails(w) BY <1>f, <2>1, <2>2
  <2>3. CASE ~ManifestFails(w)
    <3>1. UNCHANGED mem /\ pc'[w] \in {"manifestGuard", "manifestStage"}
      BY <1>5, <2>3 DEF ManifestCheck, TakeManifestGuard, Goto, TypeOK
    <3> QED BY <2>1, <3>1 DEF Saved
  <2> QED BY <2>2, <2>3
<1>6. CASE ManifestStage(w)
  <2>1. projectGuard' = projectGuard /\ ~Saved(w)
    BY <1>6 DEF ManifestStage, guards, Saved
  <2>2. CASE UNCHANGED mem /\ Goto(w, "manifestCommit")
    BY <2>1, <2>2 DEF Saved, Goto, TypeOK
  <2>3. CASE mem' = [mem EXCEPT ![w].failed = TRUE]
    BY <1>0, <2>1, <2>3 DEF Saved, TypeOK, Memory
  <2> QED BY <1>6, <2>2, <2>3 DEF ManifestStage
<1>7. CASE ManifestCommit(w)
  <2>1. /\ projectGuard' = projectGuard /\ UNCHANGED lock /\ ~Saved(w)
        /\ pc[w] = "manifestCommit" /\ pc'[w] = "manifestRelease"
    BY <1>7 DEF ManifestCommit, guards, Saved, Goto, TypeOK
  <2>2. LockDone(w) /\ ~mem[w].failed BY <1>0, <2>1 DEF Holder
  <2>3. CASE mem' = [mem EXCEPT ![w].failed = TRUE]
    BY <1>0, <2>1, <2>3 DEF Saved, TypeOK, Memory
  <2>4. CASE mem' = [mem EXCEPT ![w].manifest = mem[w].refs]
    <3>1. mem'[w].base = mem[w].base /\ mem'[w].failed = mem[w].failed
      BY <1>0, <2>4 DEF TypeOK, Memory
    <3>2. Saved(w)' BY <2>1, <2>2, <3>1 DEF Saved
    <3>3. SelectedLock(lock, manifest)'
      BY <2>1, <2>2, <3>1 DEF SaveInv, Holder, Guarded
    <3>4. Replaces(w) BY <2>1, <2>2, <3>3 DEF Replaces, LockDone, LockWritten
    <3> QED BY <2>1, <3>1, <3>2, <3>4
  <2> QED BY <1>7, <2>3, <2>4 DEF ManifestCommit
<1>8. CASE ReleaseManifest(w)
  <2>1. projectGuard' = projectGuard /\ UNCHANGED <<lock, manifest>> /\ pc[w] = "manifestRelease"
    BY <1>8 DEF ReleaseManifest, files
  <2>2. CASE mem[w].failed BY <1>8, <1>f, <2>1, <2>2 DEF ReleaseManifest, Saved
  <2>3. CASE ~mem[w].failed
    BY <1>8, <2>1, <2>3 DEF ReleaseManifest, Saved, Goto, TypeOK
  <2> QED BY <2>2, <2>3
<1> QED
  BY <1>1, <1>2, <1>3, <1>4, <1>5, <1>6, <1>7, <1>8
  DEF ByWriter, Save, ReplaceLock, SaveManifest

\* What a command has read, as a pair.
Reads == [w \in Writers |-> <<mem[w].first, mem[w].manifest>>]

\* A step of a command changes what this command has read, if anything.
LEMMA ReadsOnlyOwn ==
  ASSUME TypeOK, TypeOK', NEW w \in Writers, ByWriter(w)
  PROVE  \E p \in LockFiles \X Manifests : Reads' = [Reads EXCEPT ![w] = p]
<1> DEFINE p == <<mem'[w].first, mem'[w].manifest>>
<1>1. p \in LockFiles \X Manifests BY DEF TypeOK, Memory
<1>2. \A v \in Writers \ {w} : mem'[v] = mem[v] BY OthersStay
<1>3. Reads' = [Reads EXCEPT ![w] = p] BY <1>2 DEF Reads
<1> QED BY <1>1, <1>3

\* A step leads to a pair.
LEMMA PairType == TypeOK' => Pair' \in LockFiles \X Manifests
<1> SUFFICES ASSUME TypeOK' PROVE Pair' \in LockFiles \X Manifests OBVIOUS
<1>1. <<lock', manifest'>> \in LockFiles \X Manifests BY DEF TypeOK
<1>2. projectGuard' # Free => mem'[projectGuard'].base \in LockFiles \X Manifests
  BY DEF TypeOK, Memory
<1> QED BY <1>1, <1>2 DEF Pair

\* An undisturbed step of a command keeps the pair, or replaces the one it read.
LEMMA PairChanges ==
  ASSUME TypeOK, GuardsInv, SaveInv, SaveInv', NEW w \in Writers, ByWriter(w),
         ~disturbed, ~disturbed'
  PROVE  Pair' = Pair \/ (/\ SelectedLock(Pair'[1], Pair'[2])
                          /\ mem[w].manifest = Pair[2]
                          /\ Pair'[1] # Pair[1] => mem[w].first = Pair[1])
<1>0. w # Free BY NameAssumption
<1>1. CASE pc[w] \notin Guarded /\ ~Enter(w)
  <2>1. UNCHANGED <<lock, manifest>> BY <1>1, OnlyCommitsWrite DEF Guarded
  <2>2. UNCHANGED projectGuard
    BY <1>1
    DEF ByWriter, Command, OpenLock, OpenManifest, Install, Update, Remove, Want, GiveUp,
        Save, CheckLock, Busy, CheckManifest, Leave, ReplaceLock, TakeLockGuard, LockCheck,
        LockStage, LockCommit, ReleaseLock, SaveManifest, ManifestCheck, TakeManifestGuard,
        ManifestStage, ManifestCommit, ReleaseManifest, Crash, guards, Guarded
  <2>3. CASE projectGuard = Free BY <2>1, <2>2, <2>3 DEF Pair
  <2>4. CASE projectGuard # Free
    <3>1. projectGuard \in Writers \ {w}
      BY <1>1, <2>4 DEF GuardsInv, Owned, TypeOK
    <3>2. pc'[projectGuard] = pc[projectGuard] /\ mem'[projectGuard] = mem[projectGuard]
      BY <3>1, OthersStay
    <3> QED BY <2>1, <2>2, <3>2 DEF Pair, Saved
  <2> QED BY <2>3, <2>4
<1>2. CASE Enter(w)
  <2>1. Pair = <<lock, manifest>> BY <1>2 DEF Enter, Pair
  <2>2. projectGuard' = w /\ pc'[w] = "checkManifest" BY <1>2 DEF Enter, Goto, TypeOK
  <2>3. mem'[w].base = <<lock, manifest>> BY <1>2 DEF Enter, TypeOK, Memory
  <2> QED BY <1>0, <2>1, <2>2, <2>3 DEF Pair, Saved
<1>3. CASE Leave(w)
  <2>1. /\ projectGuard' = Free /\ UNCHANGED <<lock, manifest>> /\ pc[w] = "release"
    BY <1>3 DEF Leave, files
  <2>2. projectGuard = w /\ Holder(w) BY <2>1 DEF GuardsInv, Inside, SaveInv, Guarded
  <2>3. ~Saved(w) => mem[w].base = <<lock, manifest>>
    <3>1. mem[w].base \in LockFiles \X Manifests BY DEF TypeOK, Memory
    <3> QED BY <2>1, <2>2, <3>1 DEF Saved, Holder, AtBase
  <2> QED BY <2>1, <2>2, <2>3 DEF Pair
<1>4. CASE pc[w] \in Guarded /\ ~Leave(w)
  <2>1. projectGuard = w BY <1>4 DEF GuardsInv, Inside
  <2>2. /\ projectGuard' = w /\ mem'[w].base = mem[w].base
        /\ \/ ~Saved(w) /\ ~Saved(w)'
           \/ Saved(w) /\ Saved(w)' /\ UNCHANGED <<lock, manifest>>
           \/ ~Saved(w) /\ Saved(w)' /\ Replaces(w)
    BY <1>4, <2>1, HolderSteps
  <2>3. CASE ~Saved(w) /\ ~Saved(w)' BY <1>0, <2>1, <2>2, <2>3 DEF Pair, Saved
  <2>4. CASE Saved(w) /\ Saved(w)' /\ UNCHANGED <<lock, manifest>>
    BY <1>0, <2>1, <2>2, <2>4 DEF Pair, Saved
  <2>5. CASE ~Saved(w) /\ Saved(w)' /\ Replaces(w)
    <3>1. Pair = mem[w].base BY <1>0, <2>1, <2>5 DEF Pair
    <3>2. Pair' = <<lock', manifest'>> BY <2>2, <2>5 DEF Pair, Saved
    <3> QED BY <2>5, <3>1, <3>2 DEF Replaces, SelectedLock
  <2> QED BY <2>2, <2>3, <2>4, <2>5
<1> QED BY <1>1, <1>2, <1>3, <1>4

\* The pair at the start can be loaded.
LEMMA PairInit == Init => Atomic!Init
<1> SUFFICES ASSUME Init PROVE Atomic!Init OBVIOUS
<1>1. TypeOK BY TypeInit
<1>2. Pair = <<lock, manifest>> /\ SelectedLock(lock, manifest) BY DEF Init, Pair
<1>3. Reads \in [Writers -> LockFiles \X Manifests] BY <1>1 DEF Reads, TypeOK, Memory
<1>4. Pair \in {p \in LockFiles \X Manifests : SelectedLock(p[1], p[2])}
  BY <1>1, <1>2 DEF TypeOK
<1> QED BY <1>3, <1>4 DEF Init, Atomic!Init, Reads

\* Every step reads, or saves the pair as a whole, or disturbs.
LEMMA PairStep ==
  ASSUME TypeOK, GuardsInv, SaveInv, TypeOK', SaveInv', [Next]_vars
  PROVE  [Atomic!Next]_(Atomic!vars)
<1>1. CASE disturbed'
  <2>1. disturbed' = TRUE BY <1>1 DEF TypeOK
  <2> QED BY <2>1 DEF Atomic!Next, Atomic!Disturb
<1>2. CASE UNCHANGED vars
  <2>1. Pair' = Pair /\ Reads' = Reads /\ disturbed' = disturbed
    BY <1>2 DEF vars, files, guards, Pair, Saved, Reads
  <2> QED BY <2>1 DEF Atomic!vars, Reads
<1>3. ASSUME ~disturbed', NEW w \in Writers, ByWriter(w) PROVE Atomic!Next
  <2>1. ~disturbed BY <1>3, DisturbedStays
  <2>2. disturbed' = disturbed BY <1>3, <2>1 DEF TypeOK
  <2>3. Atomic!Forgets(w) BY <1>3, ReadsOnlyOwn DEF Atomic!Forgets, Reads
  <2>4. CASE Pair' = Pair
    <3>1. Atomic!Read(w) BY <2>2, <2>3, <2>4 DEF Atomic!Read
    <3> QED BY <3>1 DEF Atomic!Next
  <2>5. CASE /\ SelectedLock(Pair'[1], Pair'[2]) /\ mem[w].manifest = Pair[2]
             /\ Pair'[1] # Pair[1] => mem[w].first = Pair[1]
    <3>1. Pair' \in {p \in LockFiles \X Manifests : SelectedLock(p[1], p[2])}
      BY <2>5, PairType
    <3>2. Reads[w] = <<mem[w].first, mem[w].manifest>> BY DEF Reads
    <3>3. Atomic!Save(w) BY <2>1, <2>2, <2>3, <2>5, <3>1, <3>2 DEF Atomic!Save, Reads
    <3> QED BY <3>3 DEF Atomic!Next
  <2> QED BY <1>3, <2>1, <2>4, <2>5, PairChanges
<1>4. ~disturbed' => ~RemoveStaleGuards /\ ~Edit BY DEF RemoveStaleGuards, Edit
<1> QED BY <1>1, <1>2, <1>3, <1>4 DEF Next, ByWriter

\* Unless disturbed, the two files change as one pair, from the pair that the
\* command has read to one that can be loaded (PluginProject.Save).
THEOREM SavesImplementPair == Spec => SavesAreAtomic
<1> QED
  BY TypeInit, TypeStep, GuardsInit, GuardsStep, SaveInit, SaveStep, PairInit, PairStep, PTL
  DEF Spec, SavesAreAtomic, Atomic!Spec
=============================================================================
