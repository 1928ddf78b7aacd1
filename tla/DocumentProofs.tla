--------------------------- MODULE DocumentProofs ---------------------------
(***************************************************************************)
(* What happens to one document, for every value of the bounds: the        *)
(* sections of a workflow, the filters on findings, the fixes, and the     *)
(* files that a configuration extends.                                     *)
(*                                                                         *)
(* Sections.  For mappings with any number of entries, in any order: a     *)
(* parse function reports something exactly if the mapping is not well     *)
(* formed.  While entries are read, the reported errors are empty exactly  *)
(* if the entries so far are well formed (ReadIsExact), which for the last *)
(* one needs what the parser keeps of them: the recorded keys, the yielded *)
(* entries and the kind of a step are those of the mapping as long as      *)
(* nothing was reported (CleanSoFar).  The checks at the end then see the  *)
(* whole mapping.  That the kind of a step comes from its last key that    *)
(* gives one does not matter: a step with keys of two kinds is reported    *)
(* either way.                                                             *)
(*                                                                         *)
(* Findings.  Only four elements ever appear, and whether each is there    *)
(* depends on the filters that have run (PolicyInv).                       *)
(*                                                                         *)
(* Fixes.  Sorting and compacting leave the edits in order and each once,  *)
(* for which neighbours that do not overlap are enough to keep all edits   *)
(* apart (Separated); what Apply has written is then, byte by byte, the    *)
(* content with the edits so far (AppliedIsFixed).  The inductive          *)
(* invariant says so of the paths that have been passed (PlanInv).  The    *)
(* recursive functions of the model are unfolded by induction on sets of   *)
(* numbers (Induction).                                                    *)
(*                                                                         *)
(* Configurations.  The calls are a chain of extends without a file twice  *)
(* (Calls), so a cycle or a chain beyond the limit is there when it is     *)
(* reported.  The base of a call is what the documentation makes of the    *)
(* bases it has passed (BasesLaid), because laying one more document over  *)
(* some is what Overlaid says of all of them (OneMoreDocument); with the   *)
(* file over it, that is what is cached (CacheIsEffective), each name      *)
(* after its bases (ListedInOrder).  The names listed when load returns    *)
(* are closed under extends, so they are those that the first name         *)
(* reaches, and their order is why none extends itself.                    *)
(***************************************************************************)
EXTENDS WorkflowParse, FindingPolicy, FixPlan, ConfigExtends, FiniteSetTheorems,
        SequenceTheorems, WellFoundedInduction, TLAPS

\* Keys that no table has: the spellings of a name a user chose, and those that
\* parseMappingEntries treats on its own.
SpecialKeys == {"x", "X", "<<", "[]", "insert"}

\* A table with ordinary keys only.
Clean(table) == Known(table) \cap SpecialKeys = {}

\* The ways in which tables are put together keep them so.
LEMMA CleanTables ==
  /\ \A names, parser : names \cap SpecialKeys = {} => Clean(All(names, parser))
  /\ \A name, parser : name \notin SpecialKeys => Clean(Key(name, parser))
  /\ \A t, u : Clean(t) /\ Clean(u) => Clean(t \cup u)
  /\ Clean({})
  BY DEF Clean, Known, All, Key, SpecialKeys

\* A section whose table and required keys are ordinary.
WellMade(m) == Clean(m.table) /\ m.required \cap SpecialKeys = {}

\* The three kinds of sections are, whatever nodes they accept.
LEMMA Constructors ==
  /\ \A t, r, w : Clean(t) /\ r \cap SpecialKeys = {} => WellMade(Mapping(t, r, w))
  /\ \A t : Clean(t) => WellMade(Optional(t))
  /\ \A p, w : WellMade(Named(p, w))
  BY CleanTables DEF Mapping, Optional, Named, WellMade

\* Every section requires keys of its table only, and has no special key in it.
LEMMA SectionsWellMade == ASSUME NEW s \in SectionNames PROVE WellMade(Sections[s])
<1>1. WellMade(Sections["schedule"])
  <2>1. Sections["schedule"] = parseScheduleEvent
    BY Zenon DEF Sections, SectionNames
  <2>2. WellMade(parseScheduleEvent)
    BY Constructors, CleanTables DEF SpecialKeys, parseScheduleEvent
  <2> QED
    BY <2>1, <2>2
<1>2. WellMade(Sections["dispatch-input"])
  <2>1. Sections["dispatch-input"] = parseWorkflowDispatchEventInput
    BY Zenon DEF Sections, SectionNames
  <2>2. WellMade(parseWorkflowDispatchEventInput)
    BY Constructors, CleanTables DEF SpecialKeys, parseWorkflowDispatchEventInput
  <2> QED
    BY <2>1, <2>2
<1>3. WellMade(Sections["workflow_dispatch"])
  <2>1. Sections["workflow_dispatch"] = parseWorkflowDispatchEvent
    BY Zenon DEF Sections, SectionNames
  <2>2. WellMade(parseWorkflowDispatchEvent)
    BY Constructors, CleanTables DEF SpecialKeys, parseWorkflowDispatchEvent
  <2> QED
    BY <2>1, <2>2
<1>4. WellMade(Sections["repository_dispatch"])
  <2>1. Sections["repository_dispatch"] = parseRepositoryDispatchEvent
    BY Zenon DEF Sections, SectionNames
  <2>2. WellMade(parseRepositoryDispatchEvent)
    BY Constructors, CleanTables DEF SpecialKeys, parseRepositoryDispatchEvent
  <2> QED
    BY <2>1, <2>2
<1>5. WellMade(Sections["webhook"])
  <2>1. Sections["webhook"] = parseWebhookEvent
    BY Zenon DEF Sections, SectionNames
  <2>2. WellMade(parseWebhookEvent)
    BY Constructors, CleanTables DEF SpecialKeys, parseWebhookEvent
  <2> QED
    BY <2>1, <2>2
<1>6. WellMade(Sections["call-input"])
  <2>1. Sections["call-input"] = parseWorkflowCallEventInput
    BY Zenon DEF Sections, SectionNames
  <2>2. WellMade(parseWorkflowCallEventInput)
    BY Constructors, CleanTables DEF SpecialKeys, parseWorkflowCallEventInput
  <2> QED
    BY <2>1, <2>2
<1>7. WellMade(Sections["call-secret"])
  <2>1. Sections["call-secret"] = parseWorkflowCallEventSecret
    BY Zenon DEF Sections, SectionNames
  <2>2. WellMade(parseWorkflowCallEventSecret)
    BY Constructors, CleanTables DEF SpecialKeys, parseWorkflowCallEventSecret
  <2> QED
    BY <2>1, <2>2
<1>8. WellMade(Sections["call-output"])
  <2>1. Sections["call-output"] = parseWorkflowCallEventOutput
    BY Zenon DEF Sections, SectionNames
  <2>2. WellMade(parseWorkflowCallEventOutput)
    BY Constructors, CleanTables DEF SpecialKeys, parseWorkflowCallEventOutput
  <2> QED
    BY <2>1, <2>2
<1>9. WellMade(Sections["workflow_call"])
  <2>1. Sections["workflow_call"] = parseWorkflowCallEvent
    BY Zenon DEF Sections, SectionNames
  <2>2. WellMade(parseWorkflowCallEvent)
    BY Constructors, CleanTables DEF SpecialKeys, parseWorkflowCallEvent
  <2> QED
    BY <2>1, <2>2
<1>10. WellMade(Sections["image_version"])
  <2>1. Sections["image_version"] = parseImageVersionEvent
    BY Zenon DEF Sections, SectionNames
  <2>2. WellMade(parseImageVersionEvent)
    BY Constructors, CleanTables DEF SpecialKeys, parseImageVersionEvent
  <2> QED
    BY <2>1, <2>2
<1>11. WellMade(Sections["on"])
  <2>1. Sections["on"] = parseEvents
    BY Zenon DEF Sections, SectionNames
  <2>2. WellMade(parseEvents)
    BY CleanTables DEF SpecialKeys, WellMade, Mapping, Named, parseEvents
  <2> QED
    BY <2>1, <2>2
<1>12. WellMade(Sections["permissions"])
  <2>1. Sections["permissions"] = parsePermissions
    BY Zenon DEF Sections, SectionNames
  <2>2. WellMade(parsePermissions)
    BY CleanTables DEF SpecialKeys, WellMade, Mapping, Named, parsePermissions
  <2> QED
    BY <2>1, <2>2
<1>13. WellMade(Sections["env"])
  <2>1. Sections["env"] = parseEnv
    BY Zenon DEF Sections, SectionNames
  <2>2. WellMade(parseEnv)
    BY CleanTables DEF SpecialKeys, WellMade, Mapping, Named, parseEnv
  <2> QED
    BY <2>1, <2>2
<1>14. WellMade(Sections["run"])
  <2>1. Sections["run"] = parseDefaultsRun
    BY Zenon DEF Sections, SectionNames
  <2>2. WellMade(parseDefaultsRun)
    BY Constructors, CleanTables DEF SpecialKeys, parseDefaultsRun
  <2> QED
    BY <2>1, <2>2
<1>15. WellMade(Sections["defaults"])
  <2>1. Sections["defaults"] = parseDefaults
    BY Zenon DEF Sections, SectionNames
  <2>2. WellMade(parseDefaults)
    BY Constructors, CleanTables DEF SpecialKeys, parseDefaults
  <2> QED
    BY <2>1, <2>2
<1>16. WellMade(Sections["concurrency"])
  <2>1. Sections["concurrency"] = parseConcurrency
    BY Zenon DEF Sections, SectionNames
  <2>2. WellMade(parseConcurrency)
    BY Constructors, CleanTables DEF SpecialKeys, parseConcurrency
  <2> QED
    BY <2>1, <2>2
<1>17. WellMade(Sections["environment"])
  <2>1. Sections["environment"] = parseEnvironment
    BY Zenon DEF Sections, SectionNames
  <2>2. WellMade(parseEnvironment)
    BY Constructors, CleanTables DEF SpecialKeys, parseEnvironment
  <2> QED
    BY <2>1, <2>2
<1>18. WellMade(Sections["outputs"])
  <2>1. Sections["outputs"] = parseOutputs
    BY Zenon DEF Sections, SectionNames
  <2>2. WellMade(parseOutputs)
    BY Constructors, CleanTables DEF SpecialKeys, parseOutputs
  <2> QED
    BY <2>1, <2>2
<1>19. WellMade(Sections["matrix"])
  <2>1. Sections["matrix"] = ParseMatrixMapping
    BY Zenon DEF Sections, SectionNames
  <2>2. WellMade(ParseMatrixMapping)
    BY CleanTables DEF SpecialKeys, WellMade, Mapping, Named, ParseMatrixMapping
  <2> QED
    BY <2>1, <2>2
<1>20. WellMade(Sections["strategy"])
  <2>1. Sections["strategy"] = parseStrategy
    BY Zenon DEF Sections, SectionNames
  <2>2. WellMade(parseStrategy)
    BY Constructors, CleanTables DEF SpecialKeys, parseStrategy
  <2> QED
    BY <2>1, <2>2
<1>21. WellMade(Sections["credentials"])
  <2>1. Sections["credentials"] = parseCredentials
    BY Zenon DEF Sections, SectionNames
  <2>2. WellMade(parseCredentials)
    BY Constructors, CleanTables DEF SpecialKeys, parseCredentials
  <2> QED
    BY <2>1, <2>2
<1>22. WellMade(Sections["container"])
  <2>1. Sections["container"] = parseContainer(FALSE)
    BY Zenon DEF Sections, SectionNames
  <2>2. WellMade(parseContainer(FALSE))
    BY Constructors, CleanTables DEF SpecialKeys, parseContainer
  <2> QED
    BY <2>1, <2>2
<1>23. WellMade(Sections["service"])
  <2>1. Sections["service"] = parseContainer(TRUE)
    BY Zenon DEF Sections, SectionNames
  <2>2. WellMade(parseContainer(TRUE))
    BY Constructors, CleanTables DEF SpecialKeys, parseContainer
  <2> QED
    BY <2>1, <2>2
<1>24. WellMade(Sections["services"])
  <2>1. Sections["services"] = parseServices
    BY Zenon DEF Sections, SectionNames
  <2>2. WellMade(parseServices)
    BY Constructors, CleanTables DEF SpecialKeys, parseServices
  <2> QED
    BY <2>1, <2>2
<1>25. WellMade(Sections["with"])
  <2>1. Sections["with"] = parseActionInputMapping(FALSE)
    BY Zenon DEF Sections, SectionNames
  <2>2. WellMade(parseActionInputMapping(FALSE))
    BY CleanTables DEF SpecialKeys, WellMade, Mapping, Named, parseActionInputMapping
  <2> QED
    BY <2>1, <2>2
<1>26. WellMade(Sections["docker-with"])
  <2>1. Sections["docker-with"] = parseActionInputMapping(TRUE)
    BY Zenon DEF Sections, SectionNames
  <2>2. WellMade(parseActionInputMapping(TRUE))
    BY CleanTables DEF SpecialKeys, WellMade, Mapping, Named, parseActionInputMapping
  <2> QED
    BY <2>1, <2>2
<1>27. WellMade(Sections["runs-on"])
  <2>1. Sections["runs-on"] = parseRunsOn
    BY Zenon DEF Sections, SectionNames
  <2>2. WellMade(parseRunsOn)
    BY Constructors, CleanTables DEF SpecialKeys, parseRunsOn
  <2> QED
    BY <2>1, <2>2
<1>28. WellMade(Sections["snapshot"])
  <2>1. Sections["snapshot"] = parseSnapshot
    BY Zenon DEF Sections, SectionNames
  <2>2. WellMade(parseSnapshot)
    BY Constructors, CleanTables DEF SpecialKeys, parseSnapshot
  <2> QED
    BY <2>1, <2>2
<1>29. WellMade(Sections["step"])
  <2>1. Sections["step"] = ParseStep
    BY Zenon DEF Sections, SectionNames
  <2>2. WellMade(ParseStep)
    BY Constructors, CleanTables DEF SpecialKeys, ParseStep, StepCommon
  <2> QED
    BY <2>1, <2>2
<1>30. WellMade(Sections["job"])
  <2>1. Sections["job"] = parseJob
    BY Zenon DEF Sections, SectionNames
  <2>2. WellMade(parseJob)
    <3>1. ASSUME NEW e \in parseJob.table PROVE e[1] \notin SpecialKeys
      BY DEF Mapping, Key, All, SpecialKeys, parseJob
    <3>2. parseJob.required = {}
      BY DEF Mapping, parseJob
    <3> QED
      BY <3>1, <3>2 DEF WellMade, Clean, Known
  <2> QED
    BY <2>1, <2>2
<1>31. WellMade(Sections["jobs"])
  <2>1. Sections["jobs"] = parseJobs
    BY Zenon DEF Sections, SectionNames
  <2>2. WellMade(parseJobs)
    BY Constructors, CleanTables DEF SpecialKeys, parseJobs
  <2> QED
    BY <2>1, <2>2
<1>32. WellMade(Sections["workflow"])
  <2>1. Sections["workflow"] = parse
    BY Zenon DEF Sections, SectionNames
  <2>2. WellMade(parse)
    BY DEF WellMade, Clean, Known, Mapping, Key, All, SpecialKeys, parse
  <2> QED
    BY <2>1, <2>2
<1> QED
  BY <1>1, <1>2, <1>3, <1>4, <1>5, <1>6, <1>7, <1>8, <1>9, <1>10, <1>11, <1>12, <1>13, <1>14, <1>15, <1>16, <1>17, <1>18, <1>19, <1>20, <1>21, <1>22, <1>23, <1>24, <1>25, <1>26, <1>27, <1>28, <1>29, <1>30, <1>31, <1>32 DEF SectionNames

\* The sections that have checks of their own take keys as they are written,
\* and accept no others.
LEMMA StepSection ==
  LET m == Sections["step"]
  IN  /\ m.folded = FALSE /\ m.insertions = FALSE /\ m.other = {} /\ m.required = {}
      /\ m.table = StepCommon
<1>1. Sections["step"] = ParseStep
  BY Zenon DEF Sections, SectionNames
<1> QED
  BY <1>1 DEF ParseStep, Mapping

\* A job takes its keys as written, accepts no others and reads steps as a sequence.
LEMMA JobSection ==
  LET m == Sections["job"]
  IN  /\ m.folded = FALSE /\ m.insertions = FALSE /\ m.other = {} /\ m.required = {}
      /\ \A e \in m.table : e[1] = "steps" => e[2] = "seq"
<1>1. Sections["job"] = parseJob
  BY Zenon DEF Sections, SectionNames
<1>2. ASSUME NEW e \in parseJob.table, e[1] = "steps" PROVE e[2] = "seq"
  BY <1>2 DEF parseJob, Mapping, Key, All, ParseSteps
<1>3. /\ parseJob.folded = FALSE /\ parseJob.insertions = FALSE /\ parseJob.other = {}
      /\ parseJob.required = {}
  BY DEF parseJob, Mapping
<1> QED
  BY <1>1, <1>2, <1>3

\* So does a concurrency section.
LEMMA ConcurrencySection ==
  LET m == Sections["concurrency"] IN m.folded = FALSE /\ m.insertions = FALSE
<1>1. Sections["concurrency"] = parseConcurrency
  BY Zenon DEF Sections, SectionNames
<1> QED
  BY <1>1 DEF parseConcurrency, Mapping

\* The kind that a key gives to a step.
KindOf(e) ==
  CASE e[1] = "uses" -> IF e[2] = "docker" THEN "docker" ELSE "action"
    [] e[1] \in {"wait", "wait-all"} -> "wait"
    [] OTHER -> e[1]

\* The kinds of steps.
Kinds == {"action", "docker", "run", "wait", "cancel", "parallel"}

\* Of the keys that say what a step does, those of one kind go with that kind.
LEMMA StepKeysOfKinds ==
  /\ DOMAIN StepKinds = Kinds
  /\ Known(StepCommon) \cap StepKeys = {}
  /\ \A t \in Kinds : StepKinds[t].common \cap StepKeys = {}
  /\ \A k \in StepKeys, t \in Kinds :
       k \in Known(StepKinds[t].own) =>
         \/ k = "uses" /\ t \in {"action", "docker"}
         \/ k \in {"wait", "wait-all"} /\ t = "wait"
         \/ k = t
<1>1. DOMAIN StepKinds = Kinds
  BY DEF StepKinds, Kinds
<1>2. Known(StepCommon) \cap StepKeys = {}
  BY DEF StepCommon, StepKeys, Known, Key, All
<1>3. /\ StepKinds["action"] = parseStepExecAction(FALSE)
      /\ StepKinds["docker"] = parseStepExecAction(TRUE)
      /\ StepKinds["run"] = parseStepExecRun
      /\ StepKinds["wait"] = parseStepExecWait
      /\ StepKinds["cancel"] = parseStepExecCancel
      /\ StepKinds["parallel"] = parseStepExecParallel
  BY DEF StepKinds
<1>4. ASSUME NEW t \in Kinds PROVE StepKinds[t].common \cap StepKeys = {}
  BY <1>2, <1>3 DEF Kinds, StepExec, StepKeys, parseStepExecAction, parseStepExecRun,
     parseStepExecWait, parseStepExecCancel, parseStepExecParallel
<1>5. ASSUME NEW t \in Kinds, NEW k \in StepKeys, k \in Known(StepKinds[t].own)
      PROVE  \/ k = "uses" /\ t \in {"action", "docker"}
             \/ k \in {"wait", "wait-all"} /\ t = "wait"
             \/ k = t
  <2>1. PICK e \in StepKinds[t].own : e[1] = k
    BY <1>5 DEF Known
  <2>2. CASE t \in {"action", "docker"}
    <3>1. PICK docker \in BOOLEAN : StepKinds[t] = parseStepExecAction(docker)
      BY <1>3, <2>2
    <3>2. k \in {"uses", "with"}
      BY <2>1, <3>1 DEF StepExec, Key, parseStepExecAction
    <3> QED
      BY <2>2, <3>2 DEF StepKeys
  <2>3. CASE t = "run"
    BY <1>3, <2>1, <2>3 DEF StepExec, StepKeys, All, parseStepExecRun
  <2>4. CASE t = "wait"
    BY <1>3, <2>1, <2>4 DEF StepExec, StepKeys, Key, parseStepExecWait
  <2>5. CASE t = "cancel"
    BY <1>3, <2>1, <2>5 DEF StepExec, StepKeys, Key, parseStepExecCancel
  <2>6. CASE t = "parallel"
    BY <1>3, <2>1, <2>6 DEF StepExec, StepKeys, Key, parseStepExecParallel
  <2> QED
    BY <2>2, <2>3, <2>4, <2>5, <2>6 DEF Kinds
<1> QED
  BY <1>1, <1>2, <1>4, <1>5

-----------------------------------------------------------------------------
(* The invariant: what has been read, as long as nothing was reported.     *)

\* A mapping has any keys and values; insertions only where the parser knows them.
Offered ==
  /\ section \in SectionNames
  /\ IsABag(node)
  /\ \A e \in BagToSet(node) : e = <<e[1], e[2]>> /\ (e[1] = "insert" => Sec.insertions)

\* An insertion that brings a key.
Inserted == <<"insert", "map">> \in BagToSet(node)

\* The entries that have been yielded are those of the mapping.
Yielded ==
  \A p : p \in entries <=> \E e \in BagToSet(node) : e[1] # "insert" /\ p = <<KeyID(e[1]), e[2]>>

\* The keys that count as present are theirs, and the one that an insertion brings.
Recorded ==
  \A k : k \in keys <=>
           \/ Inserted /\ k = "x"
           \/ \E e \in BagToSet(node) : e[1] # "insert" /\ k = KeyID(e[1])

\* The kind of a step is one that a key of it gives.
KindGiven ==
  section = "step" =>
    IF kind = "unknown" THEN \A e \in entries : e[1] \notin StepKeys
    ELSE \E e \in entries : e[1] \in StepKeys /\ kind = KindOf(e)

\* What the parser keeps is the mapping, until it reports something.
CleanSoFar == errors = {} =>
  Yielded /\ Recorded /\ KindGiven /\ (empty <=> BagToSet(node) = {})

\* The verdict on the entries read so far.
ReadIsExact == ~over => (errors = {} <=> EntriesWellFormed)

IInv == Offered /\ CleanSoFar /\ ReadIsExact /\ VerdictIsExact

-----------------------------------------------------------------------------
\* How one more entry can spoil a mapping.
Fits(k, v) ==
  /\ KeyID(k) \notin {"<<", "[]"}
  /\ EntryWellFormed(<<k, v>>)
  /\ k # "insert" => /\ \A e \in BagToSet(node) : e[1] # "insert" => KeyID(e[1]) # KeyID(k)
                     /\ Inserted => KeyID(k) # "x"
  /\ <<k, v>> = <<"insert", "map">> =>
       ~Inserted /\ \A e \in BagToSet(node) : KeyID(e[1]) # "x"

\* Entries stay well formed exactly if one that is added fits them.
LEMMA OneMoreEntry ==
  ASSUME Offered, NEW k, NEW v, node' = node (+) SetToBag({<<k, v>>}), section' = section
  PROVE  EntriesWellFormed' <=> EntriesWellFormed /\ Fits(k, v)
<1> DEFINE E == BagToSet(node)
           new == <<k, v>>
<1>1. Sec' = Sec /\ \A j : KeyID(j)' = KeyID(j)
  BY DEF Sec, KeyID
<1>2. \A e : EntryWellFormed(e)' <=> EntryWellFormed(e)
  BY <1>1 DEF EntryWellFormed, KeyID
<1>3. /\ BagToSet(node)' = E \cup {new}
      /\ node'[new] = IF new \in E THEN node[new] + 1 ELSE 1
      /\ \A f \in E : (f # new => node'[f] = node[f]) /\ node[f] \in Nat \ {0}
  BY DEF Offered, IsABag, BagToSet, SetToBag, (+)
<1>4. \A j : KeyID(j) = "insert" <=> j = "insert"
  BY DEF KeyID
<1>5. NodeIDs' = NodeIDs \cup {KeyID(k)}
  <2>1. \A x : x \in NodeIDs' <=> \E e \in BagToSet(node)' : x = KeyID(e[1])'
    BY DEF NodeIDs
  <2>2. \A x : x \in NodeIDs' <=> \E e \in E \cup {new} : x = KeyID(e[1])
    BY <1>1, <1>3, <2>1
  <2>3. \A x : x \in NodeIDs <=> \E e \in E : x = KeyID(e[1])
    BY DEF NodeIDs
  <2>4. new[1] = k
    OBVIOUS
  <2>5. ASSUME NEW x PROVE x \in NodeIDs' <=> x \in NodeIDs \cup {KeyID(k)}
    BY <2>2, <2>3, <2>4
  <2> QED
    BY <2>5
<1>6. NoDuplicates' <=>
        /\ NoDuplicates
        /\ k # "insert" => /\ \A e \in E : e[1] # "insert" => KeyID(e[1]) # KeyID(k)
                           /\ Inserted => KeyID(k) # "x"
        /\ new = <<"insert", "map">> => ~Inserted /\ \A e \in E : KeyID(e[1]) # "x"
  <2>1. NoDuplicates' <=>
          /\ \A e, f \in E \cup {new} :
               KeyID(e[1]) = KeyID(f[1]) /\ e[1] # "insert" => e = f /\ node'[e] = 1
          /\ <<"insert", "map">> \in E \cup {new} =>
               node'[<<"insert", "map">>] = 1 /\ "x" \notin NodeIDs \cup {KeyID(k)}
    BY <1>1, <1>3, <1>5 DEF NoDuplicates, BagIn
  <2>2. NoDuplicates <=>
          /\ \A e, f \in E :
               KeyID(e[1]) = KeyID(f[1]) /\ e[1] # "insert" => e = f /\ node[e] = 1
          /\ Inserted => node[<<"insert", "map">>] = 1 /\ "x" \notin NodeIDs
    BY DEF NoDuplicates, BagIn, Inserted
  <2> DEFINE Apart == k # "insert" => \A e \in E : e[1] # "insert" => KeyID(e[1]) # KeyID(k)
  <2>3. (\A e, f \in E \cup {new} :
           KeyID(e[1]) = KeyID(f[1]) /\ e[1] # "insert" => e = f /\ node'[e] = 1)
        <=> Apart /\ \A e, f \in E :
              KeyID(e[1]) = KeyID(f[1]) /\ e[1] # "insert" => e = f /\ node[e] = 1
    <3> DEFINE Once(e, f, n) == KeyID(e[1]) = KeyID(f[1]) /\ e[1] # "insert" => e = f /\ n = 1
    <3>0. new[1] = k
      OBVIOUS
    <3>1. ASSUME \A e, f \in E \cup {new} : Once(e, f, node'[e]) PROVE Apart
      <4> SUFFICES ASSUME k # "insert", NEW e \in E, e[1] # "insert", KeyID(e[1]) = KeyID(k)
                   PROVE  FALSE
        OBVIOUS
      <4>1. e = new /\ node'[e] = 1
        BY <3>0, <3>1
      <4> QED
        BY <1>3, <4>1
    <3>2. ASSUME Apart PROVE \A e \in E : e[1] # "insert" => e # new /\ node'[e] = node[e]
      BY <1>3, <3>0, <3>2
    <3>3. ASSUME Apart, \A e, f \in E : Once(e, f, node[e]), NEW e \in E \cup {new}, NEW f \in E \cup {new}
          PROVE  Once(e, f, node'[e])
      <4>1. CASE e \in E /\ f \in E
        BY <3>2, <3>3, <4>1
      <4>2. CASE e \in E /\ f = new
        BY <1>4, <3>0, <3>3, <4>2
      <4>3. CASE e = new /\ f \in E
        BY <1>4, <3>0, <3>3, <4>3
      <4>4. CASE e = new /\ f = new
        BY <1>3, <3>0, <3>3, <4>4
      <4> QED
        BY <3>3, <4>1, <4>2, <4>3, <4>4
    <3>4. ASSUME \A e, f \in E \cup {new} : Once(e, f, node'[e]), Apart
          PROVE  \A e, f \in E : Once(e, f, node[e])
      BY <3>2, <3>4
    <3> QED
      BY <3>1, <3>3, <3>4
  <2>4. (<<"insert", "map">> \in E \cup {new} =>
           node'[<<"insert", "map">>] = 1 /\ "x" \notin NodeIDs \cup {KeyID(k)})
        <=> /\ Inserted => /\ node[<<"insert", "map">>] = 1 /\ "x" \notin NodeIDs
                           /\ KeyID(k) # "x" /\ new # <<"insert", "map">>
            /\ new = <<"insert", "map">> => ~Inserted /\ "x" \notin NodeIDs
    <3>1. new = <<"insert", "map">> => KeyID(k) # "x"
      BY <1>4 DEF KeyID
    <3>2. CASE new = <<"insert", "map">>
      BY <1>3, <3>1, <3>2 DEF Inserted
    <3>3. CASE new # <<"insert", "map">>
      BY <1>3, <3>3 DEF Inserted
    <3> QED
      BY <3>2, <3>3
  <2>5. "x" \notin NodeIDs <=> \A e \in E : KeyID(e[1]) # "x"
    BY DEF NodeIDs
  <2> HIDE DEF Apart
  <2>6. k = "insert" => KeyID(k) # "x"
    BY <1>4
  <2>7. new = <<"insert", "map">> => k = "insert"
    OBVIOUS
  <2>8. NoDuplicates' <=>
        /\ NoDuplicates
        /\ Apart
        /\ k # "insert" => (Inserted => KeyID(k) # "x")
        /\ new = <<"insert", "map">> => ~Inserted /\ \A e \in E : KeyID(e[1]) # "x"
    BY <2>1, <2>2, <2>3, <2>4, <2>5, <2>6, <2>7
  <2> QED
    BY <2>8 DEF Apart
<1> QED
  BY <1>2, <1>3, <1>5, <1>6 DEF EntriesWellFormed, Fits

\* Insertions are offered where parseMappingEntries knows them.
LEMMA OfferedInsertions == ASSUME Offered, "insert" \in OfferedKeys PROVE Sec.insertions
<1>1. "insert" \notin Known(Sec.table)
  BY SectionsWellMade DEF Offered, Sec, WellMade, Clean, SpecialKeys
<1>2. ASSUME NEW t \in DOMAIN StepKinds PROVE "insert" \notin Known(StepKinds[t].own)
  <2>1. Clean(parseStepExecAction(TRUE).own) /\ Clean(parseStepExecAction(FALSE).own)
    BY CleanTables DEF parseStepExecAction, StepExec, SpecialKeys
  <2>2. /\ Clean(parseStepExecRun.own) /\ Clean(parseStepExecWait.own)
        /\ Clean(parseStepExecCancel.own) /\ Clean(parseStepExecParallel.own)
    BY CleanTables DEF parseStepExecRun, parseStepExecWait, parseStepExecCancel,
       parseStepExecParallel, StepExec, SpecialKeys
  <2>3. Clean(StepKinds[t].own)
    BY <2>1, <2>2 DEF StepKinds
  <2> QED
    BY <2>3 DEF Clean, SpecialKeys
<1> QED
  BY <1>1, <1>2 DEF OfferedKeys

-----------------------------------------------------------------------------
\* An entry is read without an error exactly if it fits.
LEMMA ReadEntryStep ==
  ASSUME IInv, ~over, NEW k \in OfferedKeys, NEW v, ReadEntry(k, v)
  PROVE  IInv'
<1> DEFINE E == BagToSet(node)
           new == <<k, v>>
           id == KeyID(k)
<1>1. /\ node' = node (+) SetToBag({new}) /\ section' = section /\ ~over'
  BY DEF ReadEntry
<1>2. Sec' = Sec /\ \A j : KeyID(j)' = KeyID(j)
  BY <1>1 DEF Sec, KeyID
<1>3. k = "insert" => Sec.insertions
  BY OfferedInsertions DEF IInv
<1>4. BagToSet(node)' = E \cup {new} /\ IsABag(node)'
  BY <1>1 DEF IInv, Offered, IsABag, BagToSet, SetToBag, (+)
<1>5. Offered'
  BY <1>1, <1>2, <1>3, <1>4 DEF IInv, Offered
<1>6. EntriesWellFormed' <=> EntriesWellFormed /\ Fits(k, v)
  BY <1>1, OneMoreEntry DEF IInv
<1>7. errors = {} <=> EntriesWellFormed
  BY DEF IInv, ReadIsExact
<1>8. VerdictIsExact'
  BY <1>1 DEF VerdictIsExact
<1>9. \A j : KeyID(j) = "insert" <=> j = "insert"
  BY DEF KeyID
<1>10. Inserted' <=> Inserted \/ new = <<"insert", "map">>
  BY <1>4 DEF Inserted
<1>11. /\ errors = {} => Yielded /\ Recorded /\ KindGiven /\ (empty <=> E = {})
  BY DEF IInv, CleanSoFar
<1>12. "insert" \notin Known(Sec.table) /\ "x" \notin Known(Sec.table) /\ "X" \notin Known(Sec.table)
  BY SectionsWellMade DEF IInv, Offered, Sec, WellMade, Clean, SpecialKeys
<1>13. section = "step" => ~Sec.insertions /\ Sec.other = {}
  BY StepSection DEF Sec
<1>14. CASE errors' # {} /\ ~(EntriesWellFormed /\ Fits(k, v))
  BY <1>5, <1>6, <1>8, <1>14 DEF IInv, CleanSoFar, ReadIsExact
<1>15. CASE k \in {"[]", "<<"}
  <2>1. errors' # {}
    BY <1>15 DEF ReadEntry
  <2>2. ~Fits(k, v)
    BY <1>15 DEF Fits, KeyID
  <2> QED
    BY <1>14, <2>1, <2>2
<1>16. CASE k \notin {"[]", "<<"} /\ errors # {}
  <2>1. errors' # {}
    BY <1>16 DEF ReadEntry
  <2> QED
    BY <1>7, <1>14, <1>16, <2>1
<1>17. CASE errors = {} /\ k = "insert"
  <2> DEFINE brought == IF v = "map" THEN {"x"} ELSE {}
  <2>1. /\ errors' = {} <=> v \in {"expr", "map"} /\ brought \cap keys = {}
        /\ keys' = keys \cup brought /\ ~empty'
        /\ entries' = entries /\ kind' = kind
    BY <1>3, <1>17 DEF ReadEntry, ErrorIf, KeyID
  <2>2. EntryWellFormed(new) <=> v \in {"expr", "map"}
    <3>1. new \notin Sec.table
      BY <1>12, <1>17 DEF Known
    <3> QED
      BY <1>3, <1>13, <1>17, <3>1 DEF EntryWellFormed
  <2>3. "x" \in keys <=> Inserted \/ \E e \in E : KeyID(e[1]) = "x"
    BY <1>9, <1>11, <1>17 DEF Recorded
  <2>4. Fits(k, v) <=> errors' = {}
    BY <1>9, <1>17, <2>1, <2>2, <2>3 DEF Fits
  <2>5. Yielded'
    BY <1>2, <1>4, <1>11, <1>17, <2>1 DEF Yielded
  <2>6. Recorded'
    BY <1>2, <1>4, <1>10, <1>11, <1>17, <2>1 DEF Recorded
  <2>7. KindGiven'
    BY <1>1, <1>3, <1>13, <1>17 DEF KindGiven
  <2> QED
    BY <1>4, <1>5, <1>6, <1>7, <1>8, <1>17, <2>1, <2>4, <2>5, <2>6, <2>7
    DEF IInv, CleanSoFar, ReadIsExact
<1>18. CASE errors = {} /\ k \notin {"[]", "<<", "insert"} /\ id \in keys
  <2>1. errors' # {}
    BY <1>18 DEF ReadEntry
  <2>2. ~Fits(k, v)
    BY <1>11, <1>18 DEF Fits, Recorded
  <2> QED
    BY <1>14, <2>1, <2>2
<1>19. CASE errors = {} /\ k \notin {"[]", "<<", "insert"} /\ id \notin keys
  <2>1. /\ errors' = KeyError(id, v) /\ keys' = keys \cup {id}
        /\ entries' = entries \cup {<<id, v>>} /\ kind' = NextKind(id, v) /\ ~empty'
    BY <1>19 DEF ReadEntry
  <2> DEFINE known == Known(Sec.table)
  <2>0. new[1] = k /\ new[2] = v /\ k \notin {"[]", "<<", "insert"} /\ new # <<"insert", "map">>
    BY <1>19
  <2>2. /\ id \in known \/ k \in known => id = k
        /\ new \in Sec.table => k \in known
        /\ id = k \/ id = "x"
    BY <1>12 DEF KeyID, Known
  <2>3. EntryWellFormed(new) <=> KeyError(id, v) = {}
    <3>1. EntryWellFormed(new) <=> \/ new \in Sec.table
                                   \/ id \notin known /\ v \in Sec.other
                                   \/ section = "step" /\ k \notin known
      BY <2>0 DEF EntryWellFormed
    <3>2. CASE id \in known
      <4>1. KeyError(id, v) = {} <=> <<id, v>> \in Sec.table
        BY <3>2 DEF KeyError, ErrorIf
      <4>2. id = k /\ k \in known
        BY <2>2, <3>2
      <4>3. EntryWellFormed(new) <=> new \in Sec.table
        BY <3>1, <3>2, <4>2
      <4> QED
        BY <4>1, <4>2, <4>3
    <3>3. CASE id \notin known /\ Sec.other # {}
      <4>1. KeyError(id, v) = {} <=> v \in Sec.other
        BY <3>3 DEF KeyError, ErrorIf
      <4> QED
        BY <1>13, <2>2, <3>1, <3>3, <4>1
    <3>4. CASE id \notin known /\ Sec.other = {}
      <4>1. KeyError(id, v) = {} <=> section = "step"
        BY <3>4 DEF KeyError, ErrorIf
      <4> QED
        BY <2>2, <3>1, <3>4, <4>1
    <3> QED
      BY <3>2, <3>3, <3>4
  <2>4. Fits(k, v) <=> errors' = {}
    <3>1. id \notin {"<<", "[]"}
      BY <2>0, <2>2
    <3>2. ASSUME NEW e \in E, e[1] # "insert" PROVE KeyID(e[1]) # id
      BY <1>11, <1>19, <3>2 DEF Recorded
    <3>3. Inserted => id # "x"
      BY <1>11, <1>19 DEF Recorded
    <3>4. Fits(k, v) <=> EntryWellFormed(new)
      BY <2>0, <3>1, <3>2, <3>3 DEF Fits
    <3> QED
      BY <2>1, <2>3, <3>4
  <2>5. Yielded'
    <3>1. Yielded' <=> \A p : p \in entries' <=>
                       \E e \in E \cup {new} : e[1] # "insert" /\ p = <<KeyID(e[1]), e[2]>>
      BY <1>2, <1>4 DEF Yielded
    <3>2. ASSUME NEW p
          PROVE  p \in entries' <=>
                 \E e \in E \cup {new} : e[1] # "insert" /\ p = <<KeyID(e[1]), e[2]>>
      <4>1. p \in entries <=> \E e \in E : e[1] # "insert" /\ p = <<KeyID(e[1]), e[2]>>
        BY <1>11, <1>19 DEF Yielded
      <4>2. p \in entries' <=> p \in entries \/ p = <<id, v>>
        BY <2>1
      <4> QED
        BY <2>0, <4>1, <4>2
    <3> QED
      BY <3>1, <3>2
  <2>6. Recorded'
    <3>1. Recorded' <=> \A j : j \in keys' <=>
                        \/ Inserted' /\ j = "x"
                        \/ \E e \in E \cup {new} : e[1] # "insert" /\ j = KeyID(e[1])
      BY <1>2, <1>4 DEF Recorded
    <3>2. ASSUME NEW j
          PROVE  j \in keys' <=> \/ Inserted /\ j = "x"
                                 \/ \E e \in E \cup {new} : e[1] # "insert" /\ j = KeyID(e[1])
      <4>1. j \in keys <=> \/ Inserted /\ j = "x"
                           \/ \E e \in E : e[1] # "insert" /\ j = KeyID(e[1])
        BY <1>11, <1>19 DEF Recorded
      <4>2. j \in keys' <=> j \in keys \/ j = id
        BY <2>1
      <4> QED
        BY <2>0, <4>1, <4>2
    <3>3. Inserted' <=> Inserted
      BY <1>10, <2>0
    <3> QED
      BY <3>1, <3>2, <3>3
  <2>7. KindGiven'
    <3> SUFFICES ASSUME section = "step"
                 PROVE  IF NextKind(id, v) = "unknown" THEN \A e \in entries' : e[1] \notin StepKeys
                        ELSE \E e \in entries' : e[1] \in StepKeys /\ NextKind(id, v) = KindOf(e)
      BY <1>1, <2>1 DEF KindGiven
    <3> DEFINE p == <<id, v>>
    <3>1. p \in entries' /\ p[1] = id /\ p[2] = v
      BY <2>1
    <3>2. CASE id \in StepKeys
      <4>1. NextKind(id, v) = KindOf(p) /\ NextKind(id, v) # "unknown"
        BY <3>2 DEF NextKind, KindOf, StepKeys
      <4> QED
        BY <3>1, <3>2, <4>1
    <3>3. CASE id \notin StepKeys
      <4>1. NextKind(id, v) = kind
        BY <3>3 DEF NextKind, StepKeys
      <4>2. CASE kind = "unknown"
        <5>1. \A e \in entries : e[1] \notin StepKeys
          BY <1>11, <1>19, <4>2 DEF KindGiven
        <5> QED
          BY <2>1, <3>1, <3>3, <4>1, <4>2, <5>1
      <4>3. CASE kind # "unknown"
        <5>1. \E e \in entries : e[1] \in StepKeys /\ kind = KindOf(e)
          BY <1>11, <1>19, <4>3 DEF KindGiven
        <5> QED
          BY <2>1, <4>1, <4>3, <5>1
      <4> QED
        BY <4>2, <4>3
    <3> QED
      BY <3>2, <3>3
  <2> QED
    BY <1>4, <1>5, <1>6, <1>7, <1>8, <1>19, <2>1, <2>4, <2>5, <2>6, <2>7
    DEF IInv, CleanSoFar, ReadIsExact
<1> QED
  BY <1>15, <1>16, <1>17, <1>18, <1>19

-----------------------------------------------------------------------------
(* The end of a mapping.                                                   *)

\* The identifiers that were yielded are those of the node, but for insertions.
LEMMA YieldedIDs ==
  ASSUME Offered, Yielded
  PROVE  \A k : k # "insert" => (k \in IDs <=> k \in NodeIDs)
<1>1. \A j : KeyID(j) = "insert" <=> j = "insert"
  BY DEF KeyID
<1>2. \A k : k \in IDs <=> \E p \in entries : k = p[1]
  BY DEF IDs
<1>3. \A k : k \in NodeIDs <=> \E e \in BagToSet(node) : k = KeyID(e[1])
  BY DEF NodeIDs
<1>4. ASSUME NEW k, k \in IDs
      PROVE  \E e \in BagToSet(node) : e[1] # "insert" /\ k = KeyID(e[1])
  <2>1. PICK p \in entries : k = p[1]
    BY <1>2, <1>4
  <2>2. PICK e \in BagToSet(node) : e[1] # "insert" /\ p = <<KeyID(e[1]), e[2]>>
    BY DEF Yielded
  <2> QED
    BY <2>1, <2>2
<1>5. ASSUME NEW e \in BagToSet(node), e[1] # "insert" PROVE KeyID(e[1]) \in IDs
  <2>1. <<KeyID(e[1]), e[2]>> \in entries
    BY <1>5 DEF Yielded
  <2> QED
    BY <1>2, <2>1
<1> QED
  BY <1>1, <1>3, <1>4, <1>5

\* Where keys are taken as they are written, the yielded entries are the node's.
LEMMA YieldedEntries ==
  ASSUME Offered, Yielded, Sec.folded = FALSE, Sec.insertions = FALSE
  PROVE  entries = BagToSet(node) /\ IDs = NodeIDs /\ NodeIDs = {e[1] : e \in BagToSet(node)}
<1>1. \A j : KeyID(j) = j
  BY DEF KeyID
<1>2. ASSUME NEW p PROVE p \in entries <=> p \in BagToSet(node)
  <2>1. \A e \in BagToSet(node) : e[1] # "insert" /\ e = <<KeyID(e[1]), e[2]>>
    BY <1>1 DEF Offered
  <2> QED
    BY <2>1 DEF Yielded
<1>3. entries = BagToSet(node)
  BY <1>2
<1> QED
  BY <1>1, <1>3 DEF IDs, NodeIDs

\* They can be counted.
LEMMA StepKeysFinite == IsFiniteSet(StepKeys)
<1>1. /\ IsFiniteSet({"uses"}) /\ IsFiniteSet({"run"}) /\ IsFiniteSet({"wait"})
      /\ IsFiniteSet({"wait-all"}) /\ IsFiniteSet({"cancel"}) /\ IsFiniteSet({"parallel"})
  BY FS_Singleton
<1>2. IsFiniteSet({"uses"} \cup {"run"})
  BY <1>1, FS_Union
<1>3. IsFiniteSet({"wait"} \cup {"wait-all"})
  BY <1>1, FS_Union
<1>4. IsFiniteSet({"cancel"} \cup {"parallel"})
  BY <1>1, FS_Union
<1>5. IsFiniteSet(({"uses"} \cup {"run"}) \cup ({"wait"} \cup {"wait-all"}))
  BY <1>2, <1>3, FS_Union
<1>6. IsFiniteSet((({"uses"} \cup {"run"}) \cup ({"wait"} \cup {"wait-all"}))
                  \cup ({"cancel"} \cup {"parallel"}))
  BY <1>4, <1>5, FS_Union
<1>7. StepKeys = (({"uses"} \cup {"run"}) \cup ({"wait"} \cup {"wait-all"}))
                 \cup ({"cancel"} \cup {"parallel"})
  BY DEF StepKeys
<1> QED
  BY <1>6, <1>7

\* A step that has all its entries is reported exactly if it is not well formed:
\* the kind given by the last key that gives one is the only possible one, or a
\* key that gives another is reported.
LEMMA StepVerdict ==
  ASSUME Offered, Yielded, KindGiven, EntriesWellFormed, section = "step"
  PROVE  StepErrors = {} <=> StepWellFormed
<1> DEFINE E == BagToSet(node)
           own(t) == StepKinds[t].own
           common(t) == StepKinds[t].common
<1>1. /\ entries = E /\ IDs = NodeIDs /\ NodeIDs = {e[1] : e \in E}
      /\ \A j : KeyID(j) = j
  <2>1. Sec.folded = FALSE /\ Sec.insertions = FALSE
    BY StepSection DEF Sec
  <2> QED
    BY <2>1, YieldedEntries DEF KeyID
<1>2. CASE kind = "unknown"
  <2>1. NodeIDs \cap StepKeys = {}
    BY <1>1, <1>2 DEF KindGiven
  <2>2. Cardinality(NodeIDs \cap StepKeys) = 0
    BY <2>1, FS_EmptySet
  <2> QED
    BY <1>2, <2>2 DEF StepErrors, StepWellFormed
<1>3. CASE kind # "unknown"
  <2>1. PICK given \in E : given[1] \in StepKeys /\ kind = KindOf(given)
    BY <1>1, <1>3 DEF KindGiven
  <2>2. given = <<given[1], given[2]>> /\ \A e \in E : e[1] = given[1] => e = given
    <3>1. given[1] # "insert"
      BY <2>1 DEF StepKeys
    <3> QED
      BY <1>1, <2>1, <3>1 DEF Offered, EntriesWellFormed, NoDuplicates
  <2>3. kind \in Kinds /\ given[1] \in NodeIDs \cap StepKeys
    BY <1>1, <2>1 DEF KindOf, Kinds, StepKeys
  <2>4. kind = "docker" <=> given = <<"uses", "docker">>
    BY <2>1, <2>2 DEF KindOf, StepKeys
  <2>5. StepErrors = {} <=>
          /\ \A e \in E : IF e[1] \in Known(own(kind)) THEN e \in own(kind) ELSE e[1] \in common(kind)
          /\ ~({"wait", "wait-all"} \subseteq NodeIDs)
    <3> DEFINE wrong(e) == IF e[1] \in Known(own(kind)) THEN ErrorIf(e \notin own(kind), "value")
                           ELSE ErrorIf(e[1] \notin common(kind), "unexpected-key")
    <3>1. StepErrors = (UNION {wrong(e) : e \in E})
                       \cup ErrorIf({"wait", "wait-all"} \subseteq NodeIDs, "conflict")
      BY <1>1, <1>3 DEF StepErrors
    <3>2. \A e : wrong(e) = {} <=>
                IF e[1] \in Known(own(kind)) THEN e \in own(kind) ELSE e[1] \in common(kind)
      BY DEF ErrorIf
    <3>3. ErrorIf({"wait", "wait-all"} \subseteq NodeIDs, "conflict") = {}
          <=> ~({"wait", "wait-all"} \subseteq NodeIDs)
      BY DEF ErrorIf
    <3> HIDE DEF wrong
    <3>4. (UNION {wrong(e) : e \in E}) = {} <=> \A e \in E : wrong(e) = {}
      OBVIOUS
    <3>5. StepErrors = {} <=> (\A e \in E : wrong(e) = {}) /\ ~({"wait", "wait-all"} \subseteq NodeIDs)
      BY <3>1, <3>3, <3>4
    <3> QED
      BY <3>2, <3>5
  <2>6. ASSUME StepWellFormed PROVE StepErrors = {}
    <3>1. PICK t \in Kinds :
            /\ NodeIDs \cap StepKeys \subseteq Known(own(t))
            /\ t = "docker" <=> <<"uses", "docker">> \in E
            /\ NodeIDs \subseteq Known(own(t)) \cup common(t)
            /\ \A e \in E : e[1] \in Known(own(t)) => e \in own(t)
      BY <2>6, StepKeysOfKinds DEF StepWellFormed
    <3>2. t = kind
      <4>1. \/ given[1] = "uses" /\ t \in {"action", "docker"}
            \/ given[1] \in {"wait", "wait-all"} /\ t = "wait"
            \/ given[1] = t
        BY <2>3, <3>1, StepKeysOfKinds
      <4>2. t = "docker" <=> given = <<"uses", "docker">>
        BY <2>1, <2>2, <3>1, <4>1 DEF StepKeys
      <4> QED
        BY <2>1, <2>2, <4>1, <4>2 DEF KindOf, Kinds, StepKeys
    <3>3. ~({"wait", "wait-all"} \subseteq NodeIDs)
      <4>1. Cardinality(NodeIDs \cap StepKeys) = 1
        BY <2>6 DEF StepWellFormed
      <4>2. PICK k : NodeIDs \cap StepKeys = {k}
        <5>1. IsFiniteSet(NodeIDs \cap StepKeys)
          BY StepKeysFinite, FS_Intersection
        <5> QED
          BY <4>1, <5>1, FS_Singleton
      <4> QED
        BY <4>2 DEF StepKeys
    <3> QED
      BY <1>1, <2>5, <3>1, <3>2, <3>3
  <2>7. ASSUME StepErrors = {} PROVE StepWellFormed
    <3>1. ASSUME NEW k \in NodeIDs \cap StepKeys PROVE k = given[1]
      <4>1. k \in Known(own(kind)) /\ given[1] \in Known(own(kind))
        BY <1>1, <2>3, <2>5, <2>7, StepKeysOfKinds
      <4>2. \A j \in {k, given[1]} : \/ j = "uses" /\ kind \in {"action", "docker"}
                                     \/ j \in {"wait", "wait-all"} /\ kind = "wait"
                                     \/ j = kind
        BY <2>3, <4>1, StepKeysOfKinds
      <4>3. ~({"wait", "wait-all"} \subseteq NodeIDs)
        BY <2>5, <2>7
      <4> QED
        BY <2>3, <4>2, <4>3 DEF StepKeys
    <3>2. NodeIDs \cap StepKeys = {given[1]}
      BY <2>3, <3>1
    <3>3. Cardinality(NodeIDs \cap StepKeys) = 1
      BY <3>2, FS_Singleton
    <3>4. NodeIDs \cap StepKeys \subseteq Known(own(kind))
      BY <1>1, <2>3, <2>5, <2>7, StepKeysOfKinds
    <3>5. kind = "docker" <=> <<"uses", "docker">> \in E
      <4>1. <<"uses", "docker">> \in E => given[1] = "uses"
        <5>1. <<"uses", "docker">> \in E => "uses" \in NodeIDs \cap StepKeys
          BY <1>1 DEF StepKeys
        <5> QED
          BY <3>2, <5>1
      <4> QED
        BY <2>1, <2>2, <2>4, <4>1
    <3>6. NodeIDs \subseteq Known(own(kind)) \cup common(kind)
      BY <1>1, <2>5, <2>7
    <3>7. \A e \in E : e[1] \in Known(own(kind)) => e \in own(kind)
      BY <2>5, <2>7
    <3> QED
      BY <2>3, <3>3, <3>4, <3>5, <3>6, <3>7, StepKeysOfKinds DEF StepWellFormed
  <2> QED
    BY <2>6, <2>7
<1> QED
  BY <1>2, <1>3

\* A job that has all its entries is reported exactly if it is not well formed.
LEMMA JobVerdict ==
  ASSUME Offered, Yielded, EntriesWellFormed, section = "job"
  PROVE  JobErrors = {} <=> JobWellFormed
<1> DEFINE E == BagToSet(node)
<1>1. /\ entries = E /\ IDs = NodeIDs /\ NodeIDs = {e[1] : e \in E}
      /\ \A e \in E : e[1] = "steps" => e[2] = "seq"
  <2>1. /\ Sec.folded = FALSE /\ Sec.insertions = FALSE /\ Sec.other = {}
        /\ \A e \in Sec.table : e[1] = "steps" => e[2] = "seq"
    BY JobSection DEF Sec
  <2>2. \A e \in E : EntryWellFormed(e)
    BY DEF EntriesWellFormed
  <2>3. \A e \in E : e \in Sec.table
    BY <2>1, <2>2 DEF EntryWellFormed
  <2> QED
    BY <2>1, <2>3, YieldedEntries
<1>2. CASE "uses" \in NodeIDs
  BY <1>1, <1>2 DEF JobErrors, JobWellFormed, ErrorIf
<1>3. CASE "uses" \notin NodeIDs
  <2>1. (\E e \in E : e[1] = "steps" /\ e[2] \in {"seq", "badseq"}) <=> "steps" \in NodeIDs
    BY <1>1
  <2>2. CallOnlyKeys \cap NodeIDs = NodeIDs \cap {"with", "secrets"}
    BY <1>3 DEF CallOnlyKeys
  <2>3. JobErrors = {} <=> /\ "steps" \in NodeIDs
                           /\ "runs-on" \in NodeIDs
                           /\ NodeIDs \cap {"with", "secrets"} = {}
    BY <1>1, <1>3, <2>1, <2>2 DEF JobErrors, ErrorIf
  <2> QED
    BY <1>3, <2>3 DEF JobWellFormed
<1> QED
  BY <1>2, <1>3

\* The checks at the end complete the verdict.
LEMMA EndMappingStep ==
  ASSUME IInv, EndMapping
  PROVE  IInv'
<1> DEFINE E == BagToSet(node)
           own == CASE section = "step" -> StepErrors
                    [] section = "job" -> JobErrors
                    [] section = "concurrency" -> ConcurrencyErrors
                    [] OTHER -> {}
           others == /\ section = "step" => StepWellFormed
                     /\ section = "job" => JobWellFormed
                     /\ section = "concurrency"
                          => ~({<<"queue", "max">>, <<"cancel-in-progress", "true">>} \subseteq E)
<1>1. /\ ~over /\ over' = TRUE
      /\ UNCHANGED <<section, node, keys, entries, empty, kind>>
      /\ errors' = {} <=> /\ errors = {} /\ (empty => Sec.allowEmpty)
                          /\ Sec.required \subseteq IDs /\ own = {}
  BY DEF EndMapping, ErrorIf
<1>2. Offered /\ (errors = {} <=> EntriesWellFormed)
  BY <1>1 DEF IInv, ReadIsExact
<1>3. errors = {} => own = {} <=> others
  <2> SUFFICES ASSUME errors = {} PROVE own = {} <=> others
    OBVIOUS
  <2>1. Yielded /\ KindGiven /\ EntriesWellFormed
    BY <1>2 DEF IInv, CleanSoFar
  <2>2. CASE section = "step"
    BY <1>2, <2>1, <2>2, StepVerdict
  <2>3. CASE section = "job"
    BY <1>2, <2>1, <2>3, JobVerdict
  <2>4. CASE section = "concurrency"
    <3>1. entries = E
      BY <1>2, <2>1, <2>4, YieldedEntries, ConcurrencySection DEF Sec
    <3>2. ConcurrencyErrors = {}
          <=> ~({<<"queue", "max">>, <<"cancel-in-progress", "true">>} \subseteq E)
      BY <3>1 DEF ConcurrencyErrors, ErrorIf, Has
    <3> QED
      BY <2>4, <3>2
  <2>5. CASE section \notin {"step", "job", "concurrency"}
    BY <2>5
  <2> QED
    BY <2>2, <2>3, <2>4, <2>5
<1>4. errors = {} => (empty <=> node = EmptyBag)
  <2>1. errors = {} => (empty <=> E = {})
    BY DEF IInv, CleanSoFar
  <2>2. E = {} <=> node = EmptyBag
    BY <1>2 DEF Offered, IsABag, BagToSet, EmptyBag, SetToBag
  <2> QED
    BY <2>1, <2>2
<1>5. errors = {} => (Sec.required \subseteq IDs <=> Sec.required \subseteq NodeIDs)
  <2> SUFFICES ASSUME errors = {} PROVE Sec.required \subseteq IDs <=> Sec.required \subseteq NodeIDs
    OBVIOUS
  <2>1. \A k : k # "insert" => (k \in IDs <=> k \in NodeIDs)
    BY <1>2, YieldedIDs DEF IInv, CleanSoFar
  <2>2. "insert" \notin Sec.required
    BY <1>2, SectionsWellMade DEF Offered, Sec, WellMade, SpecialKeys
  <2> QED
    BY <2>1, <2>2
<1>6. WellFormed <=> /\ EntriesWellFormed /\ (node = EmptyBag => Sec.allowEmpty)
                     /\ Sec.required \subseteq NodeIDs /\ others
  BY DEF WellFormed
<1>7. errors' = {} <=> WellFormed
  <2> HIDE DEF own, others
  <2> QED
    BY <1>1, <1>2, <1>3, <1>4, <1>5, <1>6
<1>8. Sec' = Sec /\ \A j : KeyID(j)' = KeyID(j)
  BY <1>1 DEF Sec, KeyID
<1>9. WellFormed' <=> WellFormed
  BY <1>1, <1>8 DEF WellFormed, EntriesWellFormed, EntryWellFormed, NoDuplicates, NodeIDs, KeyID,
     StepWellFormed, JobWellFormed
<1>10. Offered'
  BY <1>1, <1>2, <1>8 DEF Offered
<1>11. CleanSoFar'
  <2>1. errors' = {} => errors = {}
    BY <1>1
  <2>2. /\ Yielded' <=> Yielded
        /\ Recorded' <=> Recorded
        /\ KindGiven' <=> KindGiven
    BY <1>1, <1>8 DEF Yielded, Recorded, Inserted, KindGiven, KindOf
  <2> QED
    BY <1>1, <2>1, <2>2 DEF IInv, CleanSoFar
<1> QED
  BY <1>1, <1>7, <1>9, <1>10, <1>11 DEF IInv, ReadIsExact, VerdictIsExact

\* A mapping without entries has nothing wrong with them.
LEMMA InitIInv == ParseInit => IInv
<1> SUFFICES ASSUME ParseInit PROVE IInv
  OBVIOUS
<1>1. IsABag(node) /\ BagToSet(node) = {}
  BY DEF ParseInit, EmptyBag, SetToBag, BagToSet, IsABag
<1>2. section \in SectionNames
  BY DEF ParseInit, Sections
<1>3. Offered
  BY <1>1, <1>2 DEF Offered
<1>4. CleanSoFar
  BY <1>1 DEF ParseInit, CleanSoFar, Yielded, Recorded, Inserted, KindGiven
<1>5. EntriesWellFormed
  BY <1>1 DEF EntriesWellFormed, NoDuplicates, NodeIDs, BagIn
<1> QED
  BY <1>3, <1>4, <1>5 DEF ParseInit, IInv, ReadIsExact, VerdictIsExact

\* Every step keeps the invariant.
LEMMA NextIInv == IInv /\ [ParseNext]_parseVars => IInv'
<1> SUFFICES ASSUME IInv, [ParseNext]_parseVars PROVE IInv'
  OBVIOUS
<1>1. CASE NextEntry
  BY <1>1, ReadEntryStep DEF NextEntry
<1>2. CASE EndMapping
  BY <1>2, EndMappingStep
<1>3. CASE UNCHANGED parseVars
  <2>1. Sec' = Sec /\ \A j : KeyID(j)' = KeyID(j)
    BY <1>3 DEF Sec, KeyID, parseVars
  <2>2. Offered' /\ CleanSoFar'
    BY <1>3, <2>1 DEF IInv, Offered, CleanSoFar, Yielded, Recorded, Inserted, KindGiven, KindOf, parseVars
  <2>3. (EntriesWellFormed' <=> EntriesWellFormed) /\ (WellFormed' <=> WellFormed)
    BY <1>3, <2>1 DEF WellFormed, EntriesWellFormed, EntryWellFormed, NoDuplicates, NodeIDs, KeyID,
       StepWellFormed, JobWellFormed, parseVars
  <2> QED
    BY <1>3, <2>2, <2>3 DEF IInv, ReadIsExact, VerdictIsExact, parseVars
<1> QED
  BY <1>1, <1>2, <1>3 DEF ParseNext

\* A mapping of any section, with any number of entries in any order, is
\* reported exactly if it is not well formed.
THEOREM VerdictsAreExact == ParseSpec => []VerdictIsExact
<1>1. IInv => VerdictIsExact
  BY DEF IInv
<1> QED
  BY <1>1, InitIInv, NextIInv, PTL DEF ParseSpec

-----------------------------------------------------------------------------
(* Policy on findings.                                                     *)

\* The report about the directives of a source.
ReportAt(s) == [rule |-> PolicyRule, by |-> s, shown |-> s, origin |-> "none"]

\* The report about an ignore that matches the finding.
IgnoreReport == PolicyReport("ignore", finding)

\* The filters of a source that have run.
InlinePassed(s) == IF s = "main" THEN due # "inline" ELSE due \in {"levels", "done"}
ConfiguredPassed(s) == due \in {"levels", "done"} \/ (s = "main" /\ due = "scopes")

\* The inputs, which no step changes.
Inputs == /\ finding \in Findings
          /\ directive \in [Sources -> Directives]
          /\ policyMode \in [Sources -> Modes]
          /\ isAction => OneSource

\* Nothing else than the finding and reports about it ever appears.
OnlyThese == findings \subseteq {finding, ReportAt("main"), ReportAt("meta"), IgnoreReport}

\* The finding is left unless a filter of its owner that has run drops it.
FindingLeft ==
  finding \in findings
    <=> /\ ~(InlinePassed(Owner) /\ InlineHides)
        /\ ~(ConfiguredPassed(Owner) /\ IgnoreMatches /\ Hides(Owner))
        /\ due = "done" => ~Off /\ ~pattern

\* A directive is reported as soon as its source was filtered.
DirectivesReported ==
  \A s \in Sources : ReportAt(s) \in findings
    <=> InlinePassed(s) /\ directive[s].rules # {} /\ Reports(s)

\* An ignore is reported if the finding was left for it.
IgnoresReported ==
  IgnoreReport \in findings
    <=> ConfiguredPassed(Owner) /\ IgnoreMatches /\ ~InlineHides /\ Reports(Owner)

Filters == {"inline", "configured", "scopes", "levels", "done"}

PolicyInv == /\ due \in Filters /\ Inputs
             /\ OnlyThese /\ FindingLeft /\ DirectivesReported /\ IgnoresReported

\* The finding is an analyzer's; reports are the policy's, each by its own.
LEMMA Elements ==
  ASSUME Inputs
  PROVE  /\ finding.rule = "rule" /\ finding.by = "analyzer" /\ finding.rule # PolicyRule
         /\ finding.shown \in {"main", "meta", "script"}
         /\ finding.origin \in {"none", "main", "meta"}
         /\ <<finding.shown, finding.origin>> # <<"main", "meta">>
         /\ <<finding.shown, finding.origin>> # <<"meta", "main">>
         /\ IgnoreReport.rule = PolicyRule /\ IgnoreReport.by = "ignore"
         /\ IgnoreReport.shown = finding.shown /\ IgnoreReport.origin = finding.origin
<1>1. finding \in [rule : {"rule"}, by : {"analyzer"},
                   shown : {"main", "meta", "script"}, origin : {"none", "main", "meta"}]
  BY DEF Inputs, Findings
<1>2. <<finding.shown, finding.origin>> \notin {<<"main", "meta">>, <<"meta", "main">>}
  BY DEF Inputs, Findings
<1>3. finding.rule = "rule" /\ finding.rule # PolicyRule
  BY <1>1 DEF PolicyRule
<1>4. IgnoreReport = [finding EXCEPT !.rule = PolicyRule, !.by = "ignore"]
  BY DEF IgnoreReport, PolicyReport
<1> QED
  BY <1>1, <1>2, <1>3, <1>4

\* Reports about directives say which source they are about.
LEMMA ReportFields ==
  ASSUME NEW s
  PROVE  /\ ReportAt(s).rule = PolicyRule /\ ReportAt(s).by = s
         /\ ReportAt(s).shown = s /\ ReportAt(s).origin = "none"
  BY DEF ReportAt

\* They are four different elements.
LEMMA Distinct ==
  ASSUME Inputs
  PROVE  /\ finding \notin {ReportAt("main"), ReportAt("meta"), IgnoreReport}
         /\ ReportAt("main") \notin {finding, ReportAt("meta"), IgnoreReport}
         /\ ReportAt("meta") \notin {finding, ReportAt("main"), IgnoreReport}
         /\ IgnoreReport \notin {finding, ReportAt("main"), ReportAt("meta")}
<1>1. /\ finding.by = "analyzer" /\ IgnoreReport.by = "ignore"
      /\ ReportAt("main").by = "main" /\ ReportAt("meta").by = "meta"
  BY Elements, ReportFields
<1> QED
  BY <1>1

\* What an inline filter leaves.
LEMMA InlineFilter ==
  ASSUME NEW s, NEW fs, NEW applies, NEW f
  PROVE  f \in FilterInline(s, fs, applies)
           <=> \/ f \in fs /\ ~(f \in applies /\ Suppresses(s, f))
               \/ f = ReportAt(s) /\ directive[s].rules # {} /\ Reports(s)
  BY DEF FilterInline, DirectiveReport, ReportAt

\* What a filter of ignores leaves of the finding and the reports about it.
LEMMA ConfiguredFilter ==
  ASSUME NEW s, NEW fs, NEW applies, NEW off \in BOOLEAN, NEW f, Inputs,
         fs \subseteq {finding, ReportAt("main"), ReportAt("meta"), IgnoreReport}
  PROVE  LET matches == finding \in fs /\ finding \in applies /\ ignored[s] /\ ~off
         IN f \in FilterConfigured(s, fs, applies, off)
              <=> \/ f \in fs /\ ~(f = finding /\ matches /\ Hides(s))
                  \/ f = IgnoreReport /\ matches /\ Reports(s)
<1> DEFINE matched == {g \in fs \cap applies : g.rule # PolicyRule /\ ignored[s] /\ ~off}
           matches == finding \in fs /\ finding \in applies /\ ignored[s] /\ ~off
<1>1. /\ finding.rule # PolicyRule /\ IgnoreReport.rule = PolicyRule
      /\ ReportAt("main").rule = PolicyRule /\ ReportAt("meta").rule = PolicyRule
  BY Elements, ReportFields
<1>2. \A g : g \in matched <=> g = finding /\ matches
  BY <1>1
<1>3. FilterConfigured(s, fs, applies, off)
        = {g \in fs : g \notin matched \/ ~Hides(s)}
            \cup (IF Reports(s) THEN {PolicyReport("ignore", g) : g \in matched} ELSE {})
  BY DEF FilterConfigured
<1> HIDE DEF matched, matches
<1>4. f \in {PolicyReport("ignore", g) : g \in matched} <=> f = IgnoreReport /\ matches
  BY <1>2 DEF IgnoreReport
<1>5. f \in FilterConfigured(s, fs, applies, off)
        <=> \/ f \in fs /\ ~(f = finding /\ matches /\ Hides(s))
            \/ f = IgnoreReport /\ matches /\ Reports(s)
  BY <1>2, <1>3, <1>4
<1> QED
  BY <1>5 DEF matches

\* Where a finding and the reports about it belong.
LEMMA Ownership ==
  ASSUME Inputs
  PROVE  /\ Owner \in {"main", "meta", "none"}
         /\ OwnedByMain(finding) <=> Owner = "main"
         /\ ScopeOf(finding) = "meta" <=> Owner = "meta"
         /\ Owner = "meta" => OwnedByMeta(finding)
         /\ ScopeOf(IgnoreReport) = ScopeOf(finding)
         /\ ScopeOf(ReportAt("main")) = "main"
         /\ isAction => Owner # "main" /\ directive["main"].rules = {}
<1>1. /\ Owner \in {"main", "meta", "none"}
      /\ OwnedByMain(finding) <=> Owner = "main"
      /\ ScopeOf(finding) = "meta" <=> Owner = "meta"
      /\ Owner = "meta" => OwnedByMeta(finding)
  BY Elements DEF Owner, OwnedByMain, OwnedByMeta, ScopeOf
<1>2. ScopeOf(IgnoreReport) = ScopeOf(finding)
  BY Elements DEF ScopeOf
<1>3. ScopeOf(ReportAt("main")) = "main"
  BY ReportFields DEF ScopeOf
<1>4. isAction => Owner # "main" /\ directive["main"].rules = {}
  BY Elements DEF Inputs, OneSource, Owner
<1> QED
  BY <1>1, <1>2, <1>3, <1>4

\* No level applies to reports; that of a finding is its scope's.
LEMMA Levels ==
  ASSUME Inputs
  PROVE  /\ \A scope, f : f.rule = PolicyRule => LevelIn(scope, f) # "off"
         /\ Owner = "main" => (Off <=> level["main"] = "off")
         /\ Owner = "meta" => (Off <=> LevelIn("meta", finding) = "off")
<1>1. \A scope, f : f.rule = PolicyRule => LevelIn(scope, f) # "off"
  BY DEF LevelIn
<1>2. Owner = "main" => ScopeOf(finding) = "main"
  BY Elements DEF ScopeOf, Owner
<1>3. ASSUME Owner = "main" PROVE Off <=> level["main"] = "off"
  BY <1>2, <1>3, Elements DEF Off, LevelIn
<1>4. ASSUME Owner = "meta" PROVE Off <=> LevelIn("meta", finding) = "off"
  BY <1>4, Ownership DEF Off
<1> QED
  BY <1>1, <1>3, <1>4

\* What depends on the inputs only.
LEMMA InputsKept ==
  ASSUME UNCHANGED inputs, Inputs
  PROVE  /\ Inputs' /\ finding' = finding /\ IgnoreReport' = IgnoreReport /\ Owner' = Owner
         /\ (InlineHides' <=> InlineHides) /\ (IgnoreMatches' <=> IgnoreMatches)
         /\ (Off' <=> Off) /\ (pattern' <=> pattern)
         /\ directive' = directive
         /\ \A s : (Hides(s)' <=> Hides(s)) /\ (Reports(s)' <=> Reports(s))
<1>1. /\ isAction' = isAction /\ sourceRule' = sourceRule /\ directive' = directive
      /\ ignored' = ignored /\ policyMode' = policyMode /\ level' = level /\ pattern' = pattern
      /\ finding' = finding
  BY DEF inputs
<1>2. Inputs' /\ IgnoreReport' = IgnoreReport /\ Owner' = Owner
  BY <1>1 DEF Inputs, OneSource, IgnoreReport, PolicyReport, Owner
<1>3. /\ Off' <=> Off
      /\ \A s : (Hides(s)' <=> Hides(s)) /\ (Reports(s)' <=> Reports(s))
  BY <1>1 DEF Off, LevelIn, ScopeOf, Hides, Reports
<1>4. /\ InlineHides' <=> InlineHides
      /\ IgnoreMatches' <=> IgnoreMatches
  BY <1>1, <1>2, <1>3 DEF InlineHides, IgnoreMatches, Suppresses, Hides
<1> QED
  BY <1>1, <1>2, <1>3, <1>4

\* The invariant after a step, from what the step does to the four elements.
LEMMA PolicyStep ==
  ASSUME PolicyInv, UNCHANGED inputs, due' \in Filters,
         findings' \subseteq {finding, ReportAt("main"), ReportAt("meta"), IgnoreReport},
         finding \in findings'
           <=> /\ ~(InlinePassed(Owner)' /\ InlineHides)
               /\ ~(ConfiguredPassed(Owner)' /\ IgnoreMatches /\ Hides(Owner))
               /\ due' = "done" => ~Off /\ ~pattern,
         \A s \in Sources : ReportAt(s) \in findings'
           <=> InlinePassed(s)' /\ directive[s].rules # {} /\ Reports(s),
         IgnoreReport \in findings'
           <=> ConfiguredPassed(Owner)' /\ IgnoreMatches /\ ~InlineHides /\ Reports(Owner)
  PROVE  PolicyInv'
<1>1. /\ Inputs' /\ finding' = finding /\ IgnoreReport' = IgnoreReport /\ Owner' = Owner
      /\ (InlineHides' <=> InlineHides) /\ (IgnoreMatches' <=> IgnoreMatches)
      /\ (Off' <=> Off) /\ (pattern' <=> pattern)
      /\ directive' = directive
      /\ \A s : (Hides(s)' <=> Hides(s)) /\ (Reports(s)' <=> Reports(s))
  BY InputsKept DEF PolicyInv
<1>2. OnlyThese'
  BY <1>1 DEF OnlyThese, ReportAt
<1>3. FindingLeft'
  BY <1>1 DEF FindingLeft, InlinePassed, ConfiguredPassed
<1>4. DirectivesReported'
  BY <1>1 DEF DirectivesReported, InlinePassed, ReportAt
<1>5. IgnoresReported'
  BY <1>1 DEF IgnoresReported, ConfiguredPassed
<1> QED
  BY <1>1, <1>2, <1>3, <1>4, <1>5 DEF PolicyInv

\* At the start there is the finding only.
LEMMA PolicyInitInv == PolicyInit => PolicyInv
<1> SUFFICES ASSUME PolicyInit PROVE PolicyInv
  OBVIOUS
<1>1. Inputs /\ due = "inline" /\ findings = {finding}
  BY DEF PolicyInit, Inputs
<1>2. OnlyThese /\ FindingLeft
  BY <1>1 DEF OnlyThese, FindingLeft, InlinePassed, ConfiguredPassed
<1>3. DirectivesReported /\ IgnoresReported
  BY <1>1, Distinct DEF DirectivesReported, IgnoresReported, InlinePassed, ConfiguredPassed, Sources
<1> QED
  BY <1>1, <1>2, <1>3 DEF PolicyInv, Filters

\* The directives of a workflow.
LEMMA ApplyInlineStep == PolicyInv /\ ApplyInline => PolicyInv'
<1> SUFFICES ASSUME PolicyInv, ApplyInline PROVE PolicyInv'
  OBVIOUS
<1>1. /\ Inputs /\ due = "inline" /\ due' = "configured" /\ UNCHANGED inputs
  BY DEF PolicyInv, ApplyInline
<1>2. findings = {finding}
  BY <1>1, Distinct
  DEF PolicyInv, OnlyThese, FindingLeft, DirectivesReported, IgnoresReported, InlinePassed,
      ConfiguredPassed, Sources
<1>3. ASSUME NEW f
      PROVE  f \in findings' <=> \/ f = finding /\ ~(Owner = "main" /\ Suppresses("main", finding))
                                 \/ /\ f = ReportAt("main")
                                    /\ directive["main"].rules # {} /\ Reports("main")
  <2>1. CASE isAction
    BY <1>1, <1>2, <2>1, Ownership DEF ApplyInline
  <2>2. CASE ~isAction
    BY <1>1, <1>2, <2>2, Ownership, InlineFilter DEF ApplyInline
  <2> QED
    BY <2>1, <2>2
<1>4. (Owner = "main" /\ Suppresses("main", finding)) <=> (InlinePassed(Owner)' /\ InlineHides)
  BY <1>1, Ownership, InputsKept DEF InlinePassed, InlineHides
<1>5. ~ConfiguredPassed(Owner)' /\ due' # "done"
  BY <1>1 DEF ConfiguredPassed
<1>6. InlinePassed("main")' /\ ~InlinePassed("meta")'
  BY <1>1 DEF InlinePassed
<1> QED
  BY <1>1, <1>3, <1>4, <1>5, <1>6, Distinct, PolicyStep DEF Filters, Sources

\* The ignores of a workflow.
LEMMA ApplyConfiguredStep == PolicyInv /\ ApplyConfigured => PolicyInv'
<1> SUFFICES ASSUME PolicyInv, ApplyConfigured PROVE PolicyInv'
  OBVIOUS
<1> DEFINE matches == finding \in findings /\ Owner = "main" /\ IgnoreMatches
<1>1. /\ Inputs /\ due = "configured" /\ due' = "scopes" /\ UNCHANGED inputs
  BY DEF PolicyInv, ApplyConfigured
<1>2. ASSUME NEW f
      PROVE  f \in findings' <=> \/ f \in findings /\ ~(f = finding /\ matches /\ Hides("main"))
                                 \/ f = IgnoreReport /\ matches /\ Reports("main")
  <2>1. CASE isAction
    BY <1>1, <2>1, Ownership DEF ApplyConfigured
  <2>2. CASE ~isAction
    <3> DEFINE owned == {g \in findings : OwnedByMain(g)}
    <3>1. findings' = FilterConfigured("main", findings, owned, level["main"] = "off")
      BY <2>2 DEF ApplyConfigured
    <3>2. (finding \in findings /\ finding \in owned /\ ignored["main"] /\ ~(level["main"] = "off"))
            <=> matches
      BY <1>1, Ownership, Levels DEF IgnoreMatches
    <3>3. findings \subseteq {finding, ReportAt("main"), ReportAt("meta"), IgnoreReport}
      BY DEF PolicyInv, OnlyThese
    <3> DEFINE off == level["main"] = "off"
               found == finding \in findings /\ finding \in owned /\ ignored["main"] /\ ~off
    <3>4. off \in BOOLEAN
      OBVIOUS
    <3> HIDE DEF owned, matches, off
    <3>5. f \in FilterConfigured("main", findings, owned, off)
            <=> \/ f \in findings /\ ~(f = finding /\ found /\ Hides("main"))
                \/ f = IgnoreReport /\ found /\ Reports("main")
      BY <1>1, <3>3, <3>4, ConfiguredFilter
    <3> QED
      BY <3>1, <3>2, <3>5 DEF off
  <2> QED
    BY <2>1, <2>2
<1>3. /\ finding \in findings <=> ~(InlinePassed(Owner) /\ InlineHides)
      /\ \A s \in Sources : ReportAt(s) \in findings
           <=> InlinePassed(s) /\ directive[s].rules # {} /\ Reports(s)
      /\ IgnoreReport \notin findings
  BY <1>1 DEF PolicyInv, FindingLeft, DirectivesReported, IgnoresReported, ConfiguredPassed
<1>4. /\ \A s : InlinePassed(s)' <=> InlinePassed(s)
      /\ ConfiguredPassed(Owner)' <=> Owner = "main"
      /\ Owner = "main" => InlinePassed(Owner)
      /\ due' # "done"
  BY <1>1, InputsKept DEF InlinePassed, ConfiguredPassed
<1>5. InlinePassed(Owner)' <=> InlinePassed(Owner)
  BY <1>1, InputsKept DEF InlinePassed
<1>6. finding \in findings' <=> /\ ~(InlinePassed(Owner)' /\ InlineHides)
                                /\ ~(ConfiguredPassed(Owner)' /\ IgnoreMatches /\ Hides(Owner))
  BY <1>1, <1>2, <1>3, <1>4, <1>5, Distinct
<1>7. \A s \in Sources : ReportAt(s) \in findings'
        <=> InlinePassed(s)' /\ directive[s].rules # {} /\ Reports(s)
  BY <1>1, <1>2, <1>3, <1>4, Distinct DEF Sources
<1>8. IgnoreReport \in findings'
        <=> ConfiguredPassed(Owner)' /\ IgnoreMatches /\ ~InlineHides /\ Reports(Owner)
  BY <1>1, <1>2, <1>3, <1>4, Distinct
<1>9. findings' \subseteq {finding, ReportAt("main"), ReportAt("meta"), IgnoreReport}
  BY <1>2 DEF PolicyInv, OnlyThese
<1> QED
  BY <1>1, <1>4, <1>6, <1>7, <1>8, <1>9, PolicyStep DEF Filters

\* The directives and ignores of the metadata.
LEMMA ApplyScopeStep == PolicyInv /\ ApplyScope => PolicyInv'
<1> SUFFICES ASSUME PolicyInv, ApplyScope PROVE PolicyInv'
  OBVIOUS
<1> DEFINE scoped == {g \in findings : ScopeOf(g) = "meta"}
           inline == FilterInline("meta", scoped, {g \in scoped : OwnedByMeta(g)})
           owned == {g \in inline : OwnedByMeta(g)}
           off == LevelIn("meta", finding) = "off"
           found == finding \in inline /\ finding \in owned /\ ignored["meta"] /\ ~off
           reported == directive["meta"].rules # {} /\ Reports("meta")
<1>1. /\ Inputs /\ due = "scopes" /\ due' = "levels" /\ UNCHANGED inputs
  BY DEF PolicyInv, ApplyScope
<1>2. findings' = (findings \ scoped) \cup FilterConfigured("meta", inline, owned, off)
  BY DEF ApplyScope
<1>3. /\ finding \in findings <=> /\ ~(InlinePassed(Owner) /\ InlineHides)
                                  /\ ~(ConfiguredPassed(Owner) /\ IgnoreMatches /\ Hides(Owner))
      /\ ReportAt("main") \in findings <=> directive["main"].rules # {} /\ Reports("main")
      /\ ReportAt("meta") \notin findings
      /\ IgnoreReport \in findings
           <=> ConfiguredPassed(Owner) /\ IgnoreMatches /\ ~InlineHides /\ Reports(Owner)
      /\ findings \subseteq {finding, ReportAt("main"), ReportAt("meta"), IgnoreReport}
  BY <1>1 DEF PolicyInv, OnlyThese, FindingLeft, DirectivesReported, IgnoresReported, InlinePassed, Sources
<1>4. /\ InlinePassed(Owner) <=> Owner # "meta" /\ Owner # "none"
      /\ ConfiguredPassed(Owner) <=> Owner # "meta" /\ Owner # "none"
  BY <1>1, Ownership DEF InlinePassed, ConfiguredPassed
<1>5. (InlineHides => Owner # "none") /\ (IgnoreMatches => Owner # "none")
  BY DEF InlineHides, IgnoreMatches
<1>6. \A g : g \in scoped <=> g = finding /\ Owner = "meta"
  BY <1>1, <1>3, <1>4, Ownership
<1> HIDE DEF scoped
<1>7. \A g : g \in inline <=> \/ g = finding /\ Owner = "meta" /\ ~InlineHides
                              \/ g = ReportAt("meta") /\ reported
  <2> TAKE g
  <2>1. g \in inline
          <=> \/ g \in scoped /\ ~(g \in {h \in scoped : OwnedByMeta(h)} /\ Suppresses("meta", g))
              \/ g = ReportAt("meta") /\ reported
    BY InlineFilter
  <2>2. Owner = "meta" => (InlineHides <=> Suppresses("meta", finding))
    BY DEF InlineHides
  <2> HIDE DEF inline, reported
  <2> QED
    BY <1>1, <1>6, <2>1, <2>2, Ownership
<1> HIDE DEF inline
<1>8. found <=> Owner = "meta" /\ ~InlineHides /\ IgnoreMatches
  BY <1>1, <1>7, Ownership, Levels, Distinct DEF IgnoreMatches
<1>9. inline \subseteq {finding, ReportAt("main"), ReportAt("meta"), IgnoreReport}
  BY <1>7
<1>10. off \in BOOLEAN
  OBVIOUS
<1> HIDE DEF owned, off, reported
<1>11. \A g : g \in FilterConfigured("meta", inline, owned, off)
                <=> \/ g \in inline /\ ~(g = finding /\ found /\ Hides("meta"))
                    \/ g = IgnoreReport /\ found /\ Reports("meta")
  BY <1>1, <1>9, <1>10, ConfiguredFilter
<1> HIDE DEF found
<1>12. \A g : g \in findings'
                <=> \/ g \in findings /\ ~(g = finding /\ Owner = "meta")
                    \/ g = finding /\ Owner = "meta" /\ ~InlineHides /\ ~(found /\ Hides("meta"))
                    \/ g = ReportAt("meta") /\ reported
                    \/ g = IgnoreReport /\ found /\ Reports("meta")
  BY <1>1, <1>2, <1>6, <1>7, <1>11, Distinct
<1>13. /\ InlinePassed(Owner)' /\ ConfiguredPassed(Owner)' /\ due' # "done"
       /\ InlinePassed("main")' /\ InlinePassed("meta")'
  BY <1>1, Ownership, InputsKept DEF InlinePassed, ConfiguredPassed
<1>14. finding \in findings' <=> ~InlineHides /\ ~(IgnoreMatches /\ Hides(Owner))
  BY <1>1, <1>3, <1>4, <1>5, <1>8, <1>12, Distinct
<1>15. \A s \in Sources : ReportAt(s) \in findings' <=> directive[s].rules # {} /\ Reports(s)
  BY <1>1, <1>3, <1>12, Distinct DEF Sources, reported
<1>16. IgnoreReport \in findings' <=> IgnoreMatches /\ ~InlineHides /\ Reports(Owner)
  BY <1>1, <1>3, <1>4, <1>5, <1>8, <1>12, Distinct
<1>17. findings' \subseteq {finding, ReportAt("main"), ReportAt("meta"), IgnoreReport}
  BY <1>3, <1>12
<1>18. \A s \in Sources : InlinePassed(s)'
  BY <1>13 DEF Sources
<1> QED
  BY <1>1, <1>13, <1>14, <1>15, <1>16, <1>17, <1>18, PolicyStep DEF Filters

\* Levels and patterns drop the finding only.
LEMMA ApplyLevelsStep == PolicyInv /\ ApplyLevels => PolicyInv'
<1> SUFFICES ASSUME PolicyInv, ApplyLevels PROVE PolicyInv'
  OBVIOUS
<1>1. /\ Inputs /\ due = "levels" /\ due' = "done" /\ UNCHANGED inputs
  BY DEF PolicyInv, ApplyLevels
<1>2. /\ LevelIn(ScopeOf(finding), finding) # "off" <=> ~Off
      /\ \A s : LevelIn(ScopeOf(ReportAt(s)), ReportAt(s)) # "off"
      /\ LevelIn(ScopeOf(IgnoreReport), IgnoreReport) # "off"
  BY <1>1, Levels, Elements, ReportFields DEF Off
<1>3. /\ finding \in findings' <=> finding \in findings /\ ~Off /\ ~pattern
      /\ \A s \in Sources : ReportAt(s) \in findings' <=> ReportAt(s) \in findings
      /\ IgnoreReport \in findings' <=> IgnoreReport \in findings
      /\ findings' \subseteq findings
  BY <1>1, <1>2, Distinct DEF ApplyLevels, Sources
<1>4. /\ \A s \in Sources : InlinePassed(s) /\ InlinePassed(s)'
      /\ InlinePassed(Owner)' <=> InlinePassed(Owner)
      /\ ConfiguredPassed(Owner)' <=> ConfiguredPassed(Owner)
  BY <1>1, InputsKept DEF InlinePassed, ConfiguredPassed, Sources
<1>5. finding \in findings'
        <=> /\ ~(InlinePassed(Owner)' /\ InlineHides)
            /\ ~(ConfiguredPassed(Owner)' /\ IgnoreMatches /\ Hides(Owner))
            /\ due' = "done" => ~Off /\ ~pattern
  BY <1>1, <1>3, <1>4 DEF PolicyInv, FindingLeft
<1>6. \A s \in Sources : ReportAt(s) \in findings'
        <=> InlinePassed(s)' /\ directive[s].rules # {} /\ Reports(s)
  BY <1>3, <1>4 DEF PolicyInv, DirectivesReported
<1>7. IgnoreReport \in findings'
        <=> ConfiguredPassed(Owner)' /\ IgnoreMatches /\ ~InlineHides /\ Reports(Owner)
  BY <1>3, <1>4 DEF PolicyInv, IgnoresReported
<1>8. findings' \subseteq {finding, ReportAt("main"), ReportAt("meta"), IgnoreReport}
  BY <1>3 DEF PolicyInv, OnlyThese
<1> QED
  BY <1>1, <1>5, <1>6, <1>7, <1>8, PolicyStep DEF Filters

\* At the end every filter has run, so that the invariant is the property.
LEMMA PolicyAtEnd == PolicyInv => PolicyIsExact
<1> SUFFICES ASSUME PolicyInv, due = "done" PROVE PolicyIsExact
  BY DEF PolicyIsExact
<1>1. Inputs
  BY DEF PolicyInv
<1>2. InlinePassed(Owner) /\ ConfiguredPassed(Owner) /\ \A s \in Sources : InlinePassed(s)
  BY DEF InlinePassed, ConfiguredPassed
<1>3. finding \in findings <=> ~InlineHides /\ ~(IgnoreMatches /\ Hides(Owner)) /\ ~Off /\ ~pattern
  BY <1>2 DEF PolicyInv, FindingLeft
<1>4. \A f \in findings : f \in {finding, ReportAt("main"), ReportAt("meta"), IgnoreReport}
  BY DEF PolicyInv, OnlyThese
<1>5. ASSUME NEW s \in Sources
      PROVE  (\E f \in findings : f.by = s) <=> directive[s].rules # {} /\ Reports(s)
  <2>1. (\E f \in findings : f.by = s) <=> ReportAt(s) \in findings
    BY <1>1, <1>4, Elements, ReportFields DEF Sources
  <2> QED
    BY <1>2, <2>1 DEF PolicyInv, DirectivesReported
<1>6. (\E f \in findings : f.by = "ignore") <=> IgnoreMatches /\ ~InlineHides /\ Reports(Owner)
  <2>1. (\E f \in findings : f.by = "ignore") <=> IgnoreReport \in findings
    BY <1>1, <1>4, Elements, ReportFields
  <2> QED
    BY <1>2, <2>1 DEF PolicyInv, IgnoresReported
<1> QED
  BY <1>3, <1>5, <1>6 DEF PolicyIsExact

\* A finding is hidden exactly by the directives, ignores and levels of the
\* file it belongs to, and a reported suppression cannot be hidden, although
\* the filters of both files and both kinds run one after the other.
THEOREM PolicyFiltersExactly == PolicySpec => []PolicyIsExact
<1>1. PolicyInv /\ [PolicyNext]_policyVars => PolicyInv'
  <2> SUFFICES ASSUME PolicyInv, [PolicyNext]_policyVars PROVE PolicyInv'
    OBVIOUS
  <2>1. CASE PolicyNext
    BY <2>1, ApplyInlineStep, ApplyConfiguredStep, ApplyScopeStep, ApplyLevelsStep DEF PolicyNext
  <2>2. CASE UNCHANGED policyVars
    <3>1. UNCHANGED inputs /\ due' = due /\ findings' = findings
      BY <2>2 DEF policyVars
    <3>2. /\ finding' = finding /\ IgnoreReport' = IgnoreReport
          /\ InlinePassed(Owner)' <=> InlinePassed(Owner)
          /\ ConfiguredPassed(Owner)' <=> ConfiguredPassed(Owner)
          /\ \A s : InlinePassed(s)' <=> InlinePassed(s)
      BY <3>1, InputsKept DEF PolicyInv, InlinePassed, ConfiguredPassed
    <3> QED
      BY <3>1, <3>2, PolicyStep
      DEF PolicyInv, OnlyThese, FindingLeft, DirectivesReported, IgnoresReported
  <2> QED
    BY <2>1, <2>2
<1> QED
  BY <1>1, PolicyInitInv, PolicyAtEnd, PTL DEF PolicySpec

-----------------------------------------------------------------------------
(* Fix plans.                                                              *)

\* A set of numbers that has 0 and with each number the next has all.
LEMMA Induction ==
  ASSUME NEW T, 0 \in T, \A n \in Nat : n \in T => n + 1 \in T
  PROVE  Nat \subseteq T
<1> SUFFICES ASSUME Nat \ T # {} PROVE FALSE
  OBVIOUS
<1>1. IsWellFoundedOn({ss \in Nat \X Nat : ss[1] < ss[2]}, Nat)
  BY NatLessThanWellFounded, Zenon DEF OpToRel
<1>2. PICK m \in Nat \ T : \A y \in Nat \ T : ~(<<y, m>> \in {ss \in Nat \X Nat : ss[1] < ss[2]})
  BY <1>1, WFMin
<1>3. m - 1 \in Nat
  BY <1>2
<1>4. m - 1 \in T
  <2>1. <<m - 1, m>> \in {ss \in Nat \X Nat : ss[1] < ss[2]}
    BY <1>3
  <2> QED
    BY <1>2, <1>3, <2>1
<1>5. (m - 1) + 1 = m
  BY <1>3
<1> QED
  BY <1>2, <1>3, <1>4, <1>5

\* An edit with a valid range.
ValidEdits == {e \in Edits : ValidRange(e)}

\* Neighbours are in the order of their ranges.
Ordered(t) ==
  \A k \in 2..Len(t) : \/ t[k - 1].start < t[k].start
                       \/ t[k - 1].start = t[k].start /\ t[k - 1].end <= t[k].end

\* No edit is repeated by its neighbour.
NoRepeats(t) == \A k \in 2..Len(t) : t[k - 1] # t[k]

\* Sorting leaves the same edits, in order.
LEMMA SortedFacts ==
  ASSUME NEW s \in Seq(ValidEdits), NEW t \in Sorted(s)
  PROVE  /\ t \in Seq(ValidEdits) /\ Len(t) = Len(s)
         /\ ToSet(t) = ToSet(s) /\ Ordered(t)
<1>1. PICK f \in Bijection(DOMAIN s, DOMAIN s) : t = [k \in DOMAIN s |-> s[f[k]]]
  BY DEF Sorted
<1>2. f \in [DOMAIN s -> DOMAIN s] /\ \A k \in DOMAIN s : \E j \in DOMAIN s : f[j] = k
  BY <1>1 DEF Bijection, Injection, Surjection
<1>3. DOMAIN s = 1..Len(s) /\ Len(s) \in Nat /\ \A k \in 1..Len(s) : s[k] \in ValidEdits
  OBVIOUS
<1>4. t \in [1..Len(s) -> ValidEdits]
  BY <1>1, <1>2, <1>3
<1>5. t \in Seq(ValidEdits) /\ Len(t) = Len(s)
  BY <1>3, <1>4
<1>6. ToSet(t) = ToSet(s)
  BY <1>1, <1>2, <1>3, <1>4 DEF ToSet
<1>7. \A k \in 1..(Len(s) - 1) :
         \/ t[k].start < t[k + 1].start
         \/ t[k].start = t[k + 1].start /\ t[k].end <= t[k + 1].end
  BY DEF Sorted
<1>8. Ordered(t)
  <2> SUFFICES ASSUME NEW k \in 2..Len(t)
               PROVE  \/ t[k - 1].start < t[k].start
                      \/ t[k - 1].start = t[k].start /\ t[k - 1].end <= t[k].end
    BY DEF Ordered
  <2>1. k - 1 \in 1..(Len(s) - 1) /\ (k - 1) + 1 = k
    BY <1>3, <1>5
  <2> QED
    BY <1>7, <2>1
<1> QED
  BY <1>5, <1>6, <1>8

\* What Compact has kept of the first n edits.
Kept(t, n, up) ==
  IF n = 0 THEN <<>>
  ELSE IF n > 1 /\ t[n] = t[n - 1] THEN up[n - 1]
  ELSE Append(up[n - 1], t[n])

\* The recursion of Compact is well-founded.
LEMMA CompactRecursion ==
  ASSUME NEW t \in Seq(ValidEdits)
  PROVE  \E up : /\ up = [n \in 0..Len(t) |-> Kept(t, n, up)]
                 /\ Compact(t) = up[Len(t)]
<1> DEFINE Upto(m, up) == up = [n \in 0..m |-> Kept(t, n, up)]
           T == {m \in Nat : \E up : Upto(m, up)}
<1>1. 0 \in T
  <2>1. Upto(0, [n \in 0..0 |-> <<>>])
    BY DEF Kept
  <2> QED
    BY <2>1
<1>2. ASSUME NEW m \in Nat, m \in T PROVE m + 1 \in T
  <2>1. PICK up : Upto(m, up)
    BY <1>2
  <2> DEFINE new == [n \in 0..(m + 1) |-> IF n <= m THEN up[n] ELSE Kept(t, n, up)]
  <2>2. \A n \in 0..(m + 1) : new[n] = Kept(t, n, new)
    <3> TAKE n \in 0..(m + 1)
    <3>1. n > 0 => n - 1 \in 0..m /\ new[n - 1] = up[n - 1]
      OBVIOUS
    <3>2. Kept(t, n, new) = Kept(t, n, up)
      BY <3>1 DEF Kept
    <3>3. n <= m => up[n] = Kept(t, n, up)
      BY <2>1
    <3> QED
      BY <3>2, <3>3
  <2>3. Upto(m + 1, new)
    <3> HIDE DEF new
    <3>1. new = [n \in 0..(m + 1) |-> new[n]]
      BY DEF new
    <3> QED
      BY <2>2, <3>1
  <2> HIDE DEF new, Upto
  <2> QED
    BY <2>3
<1>3. Len(t) \in T
  <2> HIDE DEF T
  <2> QED
    BY <1>1, <1>2, Induction
<1>4. PICK up : up = CHOOSE g : g = [n \in 0..Len(t) |-> Kept(t, n, g)]
  OBVIOUS
<1>5. up = [n \in 0..Len(t) |-> Kept(t, n, up)]
  BY <1>3, <1>4
<1>6. Compact(t) = up[Len(t)]
  BY <1>4 DEF Compact, Kept
<1> QED
  BY <1>5, <1>6

\* Compact keeps every edit once, in order.
LEMMA CompactFacts ==
  ASSUME NEW t \in Seq(ValidEdits), Ordered(t)
  PROVE  /\ Compact(t) \in Seq(ValidEdits)
         /\ ToSet(Compact(t)) = ToSet(t)
         /\ Ordered(Compact(t)) /\ NoRepeats(Compact(t))
<1>1. PICK up : /\ up = [n \in 0..Len(t) |-> Kept(t, n, up)]
                /\ Compact(t) = up[Len(t)]
  BY CompactRecursion
<1>2. Len(t) \in Nat /\ \A n \in 1..Len(t) : t[n] \in ValidEdits
  OBVIOUS
<1> DEFINE Good(n, u) == /\ u \in Seq(ValidEdits)
                         /\ n > 0 => Len(u) > 0 /\ u[Len(u)] = t[n]
                         /\ ToSet(u) = {t[k] : k \in 1..n}
                         /\ Ordered(u) /\ NoRepeats(u)
           T == {n \in Nat : n <= Len(t) => Good(n, up[n])}
<1>3. 0 \in T
  <2>1. up[0] = <<>>
    BY <1>1, <1>2 DEF Kept
  <2>2. Good(0, <<>>)
    BY DEF ToSet, Ordered, NoRepeats
  <2> QED
    BY <2>1, <2>2
<1>4. ASSUME NEW n \in Nat, n \in T PROVE n + 1 \in T
  <2> SUFFICES ASSUME n + 1 <= Len(t) PROVE Good(n + 1, up[n + 1])
    OBVIOUS
  <2>1. Good(n, up[n])
    BY <1>2, <1>4
  <2> DEFINE u == up[n]
             e == t[n + 1]
  <2>2. /\ u \in Seq(ValidEdits)
        /\ n > 0 => Len(u) > 0 /\ u[Len(u)] = t[n]
        /\ ToSet(u) = {t[k] : k \in 1..n} /\ Ordered(u) /\ NoRepeats(u)
    BY <2>1
  <2>3. e \in ValidEdits /\ n + 1 \in 0..Len(t) /\ (n + 1) - 1 = n
    BY <1>2
  <2>4. up[n + 1] = IF n > 0 /\ e = t[n] THEN u ELSE Append(u, e)
    <3>1. up[n + 1] = Kept(t, n + 1, up)
      BY <1>1, <2>3
    <3> QED
      BY <2>3, <3>1 DEF Kept
  <2>5. {t[k] : k \in 1..(n + 1)} = {t[k] : k \in 1..n} \cup {e}
    OBVIOUS
  <2>6. CASE n > 0 /\ e = t[n]
    <3>1. up[n + 1] = u
      BY <2>4, <2>6
    <3>2. e \in {t[k] : k \in 1..n}
      BY <2>6
    <3> HIDE DEF u, e
    <3> QED
      BY <2>2, <2>5, <2>6, <3>1, <3>2 DEF e
  <2>7. CASE ~(n > 0 /\ e = t[n])
    <3> DEFINE v == Append(u, e)
    <3>1. up[n + 1] = v
      BY <2>4, <2>7
    <3> HIDE DEF u
    <3>2. /\ v \in Seq(ValidEdits) /\ Len(v) = Len(u) + 1 /\ v[Len(v)] = e /\ Len(u) \in Nat
          /\ \A k \in 1..Len(u) : v[k] = u[k]
      BY <2>2, <2>3
    <3>3. ToSet(v) = ToSet(u) \cup {e}
      <4>1. DOMAIN v = 1..Len(v) /\ DOMAIN u = 1..Len(u)
        BY <2>2, <3>2
      <4> HIDE DEF v, e
      <4> QED
        BY <3>2, <4>1 DEF ToSet
    <3>4. n = 0 => Len(u) = 0
      <4>1. ASSUME n = 0, Len(u) > 0 PROVE FALSE
        <5>1. 1 \in DOMAIN u
          BY <2>2, <3>2, <4>1
        <5> QED
          BY <2>2, <4>1, <5>1 DEF ToSet
      <4> QED
        BY <3>2, <4>1
    <3>5. ASSUME NEW k \in 2..Len(v)
          PROVE  /\ \/ v[k - 1].start < v[k].start
                    \/ v[k - 1].start = v[k].start /\ v[k - 1].end <= v[k].end
                 /\ v[k - 1] # v[k]
      <4>1. CASE k <= Len(u)
        <5>1. k \in 2..Len(u) /\ v[k - 1] = u[k - 1] /\ v[k] = u[k]
          BY <3>2, <4>1
        <5> QED
          BY <2>2, <5>1 DEF Ordered, NoRepeats
      <4>2. CASE k = Len(u) + 1
        <5>1. n > 0
          BY <3>2, <3>4, <4>2
        <5>2. v[k] = t[n + 1] /\ v[k - 1] = t[n]
          BY <2>2, <3>2, <4>2, <5>1
        <5>3. n + 1 \in 2..Len(t) /\ (n + 1) - 1 = n
          BY <5>1, <1>2
        <5> QED
          BY <2>7, <5>1, <5>2, <5>3 DEF Ordered
      <4> QED
        BY <3>2, <4>1, <4>2
    <3>6. Ordered(v) /\ NoRepeats(v)
      BY <3>5 DEF Ordered, NoRepeats
    <3> HIDE DEF v
    <3> QED
      BY <2>2, <2>5, <3>1, <3>2, <3>3, <3>6
  <2> QED
    BY <2>6, <2>7
<1>5. Good(Len(t), Compact(t))
  <2>1. Len(t) \in T
    <3> HIDE DEF T
    <3> QED
      BY <1>2, <1>3, <1>4, Induction
  <2> HIDE DEF Good
  <2> QED
    BY <1>1, <1>2, <2>1
<1>6. {t[k] : k \in 1..Len(t)} = ToSet(t)
  BY DEF ToSet
<1> QED
  BY <1>5, <1>6

\* In a list in order whose neighbours do not overlap, no two edits do.
LEMMA Separated ==
  ASSUME Length \in Nat, NEW t \in Seq(ValidEdits), Ordered(t), ~Overlaps(t)
  PROVE  \A i, j \in 1..Len(t) : i < j => t[i].start < t[j].start /\ t[i].end <= t[j].start
<1>0. /\ Len(t) \in Nat
      /\ \A k \in 1..Len(t) : /\ t[k].start \in Nat /\ t[k].end \in Nat
                              /\ t[k].start <= t[k].end
  BY DEF ValidEdits, ValidRange, Edits
<1> DEFINE T == {n \in Nat : \A i \in 1..Len(t) : i + n + 1 <= Len(t) =>
                   /\ t[i].start < t[i + n + 1].start
                   /\ t[i].end <= t[i + n + 1].start}
<1>1. ASSUME NEW k \in 2..Len(t)
      PROVE  t[k - 1].start < t[k].start /\ t[k - 1].end <= t[k].start
  <2>1. k \in 1..Len(t) /\ k - 1 \in 1..Len(t)
    BY <1>0
  <2> QED
    BY <1>0, <2>1 DEF Overlaps, Ordered
<1>2. 0 \in T
  <2> SUFFICES ASSUME NEW i \in 1..Len(t), i + 1 <= Len(t)
               PROVE  t[i].start < t[i + 1].start /\ t[i].end <= t[i + 1].start
    OBVIOUS
  <2>1. i + 1 \in 2..Len(t) /\ (i + 1) - 1 = i
    BY <1>0
  <2> QED
    BY <1>1, <2>1
<1>3. ASSUME NEW n \in Nat, n \in T PROVE n + 1 \in T
  <2> SUFFICES ASSUME NEW i \in 1..Len(t), i + (n + 1) + 1 <= Len(t)
               PROVE  /\ t[i].start < t[i + (n + 1) + 1].start
                      /\ t[i].end <= t[i + (n + 1) + 1].start
    OBVIOUS
  <2>1. t[i].start < t[i + n + 1].start /\ t[i].end <= t[i + n + 1].start
    <3>1. i + n + 1 <= Len(t)
      BY <1>0
    <3> QED
      BY <1>3, <3>1
  <2>2. /\ i + (n + 1) + 1 \in 2..Len(t) /\ (i + (n + 1) + 1) - 1 = i + n + 1
        /\ i + n + 1 \in 1..Len(t) /\ i + (n + 1) + 1 \in 1..Len(t)
    BY <1>0
  <2>3. t[i + n + 1].start < t[i + (n + 1) + 1].start
    BY <1>1, <2>2
  <2> HIDE DEF T
  <2> QED
    BY <1>0, <2>1, <2>2, <2>3
<1>4. \A i, j \in 1..Len(t) : i < j => t[i].start < t[j].start /\ t[i].end <= t[j].start
  <2> TAKE i, j \in 1..Len(t)
  <2> HAVE i < j
  <2>1. j - i - 1 \in Nat /\ i + (j - i - 1) + 1 = j
    BY <1>0
  <2>2. j - i - 1 \in T
    <3> HIDE DEF T
    <3> QED
      BY <1>2, <1>3, <2>1, Induction
  <2> QED
    BY <1>0, <2>1, <2>2
<1> QED
  BY <1>4

\* In a list in order and without repetitions, it is enough to compare neighbours.
LEMMA NeighboursSuffice ==
  ASSUME Length \in Nat, NEW t \in Seq(ValidEdits), Ordered(t), NoRepeats(t)
  PROVE  Overlaps(t) <=> Conflict(ToSet(t))
<1>1. /\ Len(t) \in Nat
      /\ \A k \in 1..Len(t) : /\ t[k].start \in Nat /\ t[k].end \in Nat
                              /\ t[k].start <= t[k].end
      /\ ToSet(t) = {t[k] : k \in 1..Len(t)}
  BY DEF ValidEdits, ValidRange, Edits, ToSet
<1>2. ASSUME Overlaps(t) PROVE Conflict(ToSet(t))
  <2>1. PICK k \in 2..Len(t) : t[k].start < t[k - 1].end \/ t[k].start = t[k - 1].start
    BY <1>2 DEF Overlaps
  <2>2. k \in 1..Len(t) /\ k - 1 \in 1..Len(t)
    BY <1>1
  <2>3. t[k - 1] # t[k] /\ t[k - 1].start <= t[k].start
    BY <1>1, <2>2 DEF Ordered, NoRepeats
  <2>4. t[k] \in ToSet(t) /\ t[k - 1] \in ToSet(t)
    BY <1>1, <2>2
  <2> QED
    BY <2>1, <2>3, <2>4 DEF Conflict
<1>3. ASSUME ~Overlaps(t) PROVE ~Conflict(ToSet(t))
  <2>1. \A i, j \in 1..Len(t) : i < j => t[i].start < t[j].start /\ t[i].end <= t[j].start
    BY <1>3, Separated
  <2>2. ASSUME NEW i \in 1..Len(t), NEW j \in 1..Len(t), t[i] # t[j], t[i].start <= t[j].start
        PROVE  t[i].start # t[j].start /\ ~(t[j].start < t[i].end)
    <3>1. i # j
      BY <2>2
    <3>2. i < j
      BY <1>1, <2>1, <2>2, <3>1
    <3> QED
      BY <1>1, <2>1, <3>2
  <2> QED
    BY <1>1, <2>2 DEF Conflict
<1> QED
  BY <1>2, <1>3

\* A sorted list is refused exactly if its edits are in conflict.
LEMMA OverlapsAreConflicts ==
  ASSUME Length \in Nat, NEW s \in Seq(ValidEdits), NEW t \in Sorted(s)
  PROVE  Overlaps(Compact(t)) <=> Conflict(ToSet(s))
<1>1. t \in Seq(ValidEdits) /\ ToSet(t) = ToSet(s) /\ Ordered(t)
  BY SortedFacts
<1>2. /\ Compact(t) \in Seq(ValidEdits) /\ ToSet(Compact(t)) = ToSet(t)
      /\ Ordered(Compact(t)) /\ NoRepeats(Compact(t))
  BY <1>1, CompactFacts
<1> QED
  BY <1>1, <1>2, NeighboursSuffice

-----------------------------------------------------------------------------
\* What may be in a content.
Content == Nat \cup Bytes

\* The content up to byte j that follows the first c bytes.
Span(c, j) == SubSeq(Before, c + 1, IF j > Length THEN Length ELSE j)

\* A span grows by the next byte once it is beyond its beginning.
LEMMA SpanGrows ==
  ASSUME Length \in Nat, NEW c \in 0..Length, NEW k \in 1..(Length + 1)
  PROVE  /\ Span(c, k - 1) \in Seq(Content)
         /\ Span(c, k) = Span(c, k - 1) \o (IF k > Length \/ k <= c THEN <<>> ELSE <<k>>)
         /\ k - 1 <= c => Span(c, k - 1) = <<>>
<1>1. Before \in Seq(Content) /\ Len(Before) = Length /\ \A i \in 1..Length : Before[i] = i
  BY DEF Before, Content
<1>2. Span(c, k - 1) = SubSeq(Before, c + 1, k - 1)
  BY DEF Span
<1>3. Span(c, k - 1) \in Seq(Content)
  <2>1. \A i \in (c + 1)..(k - 1) : Before[i] \in Content
    BY <1>1
  <2>2. c + 1 \in Int /\ k - 1 \in Int
    OBVIOUS
  <2>3. SubSeq(Before, c + 1, k - 1) \in Seq(Content)
    BY <2>1, <2>2, SubSeqProperties, Zenon
  <2> QED
    BY <1>2, <2>3
<1>4. ASSUME k - 1 <= c PROVE Span(c, k - 1) = <<>>
  BY <1>2, <1>4, SubSeqEmpty
<1>5. CASE k > Length
  <2>1. Span(c, k) = Span(c, k - 1)
    BY <1>5 DEF Span
  <2> QED
    BY <1>3, <1>4, <1>5, <2>1, ConcatEmptySeq
<1>6. CASE k <= Length /\ k <= c
  <2>1. Span(c, k) = SubSeq(Before, c + 1, k)
    BY <1>6 DEF Span
  <2>2. Span(c, k) = <<>> /\ Span(c, k - 1) = <<>>
    BY <1>4, <1>6, <2>1, SubSeqEmpty
  <2> QED
    BY <1>6, <1>3, <2>2, ConcatEmptySeq
<1>7. CASE k <= Length /\ k > c
  <2>1. Span(c, k) = SubSeq(Before, c + 1, k)
    BY <1>7 DEF Span
  <2>2. c + 1 \in 1..Len(Before) /\ k \in (c + 1)..Len(Before)
    BY <1>1, <1>7
  <2>3. SubSeq(Before, c + 1, k) = SubSeq(Before, c + 1, k - 1) \o <<Before[k]>>
    BY <1>1, <2>2, SubSeqRecursiveSecond
  <2> QED
    BY <1>1, <1>2, <1>3, <1>4, <1>7, <2>1, <2>3
<1> QED
  BY <1>5, <1>6, <1>7

\* The associativity of contents.
LEMMA Associative == \A u, v, w \in Seq(Content) : (u \o v) \o w = u \o (v \o w)
  BY ConcatAssociative

\* Where the content continues after the first n edits.
Cursor(t, n) == IF n = 0 THEN 0 ELSE t[n].end

\* What Apply has written after the first n edits.
Written(t, n, after) ==
  IF n = 0 THEN <<>>
  ELSE after[n - 1] \o SubSeq(Before, Cursor(t, n - 1) + 1, t[n].start) \o t[n].text

\* The recursion of Apply is well-founded.
LEMMA ApplyRecursion ==
  ASSUME NEW t \in Seq(ValidEdits)
  PROVE  \E after : /\ after = [n \in 0..Len(t) |-> Written(t, n, after)]
                    /\ Apply(t) = after[Len(t)] \o SubSeq(Before, Cursor(t, Len(t)) + 1, Length)
<1> DEFINE Upto(m, after) == after = [n \in 0..m |-> Written(t, n, after)]
           T == {m \in Nat : \E after : Upto(m, after)}
<1>1. 0 \in T
  <2>1. Upto(0, [n \in 0..0 |-> <<>>])
    BY DEF Written
  <2> QED
    BY <2>1
<1>2. ASSUME NEW m \in Nat, m \in T PROVE m + 1 \in T
  <2>1. PICK after : Upto(m, after)
    BY <1>2
  <2> DEFINE new == [n \in 0..(m + 1) |-> IF n <= m THEN after[n] ELSE Written(t, n, after)]
  <2>2. \A n \in 0..(m + 1) : new[n] = Written(t, n, new)
    <3> TAKE n \in 0..(m + 1)
    <3>1. n > 0 => n - 1 \in 0..m /\ new[n - 1] = after[n - 1]
      OBVIOUS
    <3>2. Written(t, n, new) = Written(t, n, after)
      BY <3>1 DEF Written
    <3>3. n <= m => after[n] = Written(t, n, after)
      BY <2>1
    <3> QED
      BY <3>2, <3>3
  <2>3. Upto(m + 1, new)
    <3> HIDE DEF new
    <3>1. new = [n \in 0..(m + 1) |-> new[n]]
      BY DEF new
    <3> QED
      BY <2>2, <3>1
  <2> HIDE DEF new, Upto
  <2> QED
    BY <2>3
<1>3. Len(t) \in T
  <2> HIDE DEF T
  <2> QED
    BY <1>1, <1>2, Induction
<1>4. PICK after : after = CHOOSE g : g = [n \in 0..Len(t) |-> Written(t, n, g)]
  OBVIOUS
<1>5. after = [n \in 0..Len(t) |-> Written(t, n, after)]
  BY <1>3, <1>4
<1>6. Apply(t) = after[Len(t)] \o SubSeq(Before, Cursor(t, Len(t)) + 1, Length)
  BY <1>4 DEF Apply, Written, Cursor
<1> QED
  BY <1>5, <1>6

\* The content with all edits up to and without the text at j bytes.
Joined(S, j, flat) ==
  IF j = 1 THEN InsertedAt(S, 0) \o KeptByte(S, 1)
  ELSE flat[j - 1] \o (InsertedAt(S, j - 1) \o KeptByte(S, j))

\* The recursion behind Fixed is well-founded.
LEMMA FixedRecursion ==
  ASSUME Length \in Nat, NEW S
  PROVE  \E flat : /\ flat = [j \in 1..(Length + 1) |-> Joined(S, j, flat)]
                   /\ Fixed(S) = flat[Length + 1]
<1> DEFINE Upto(m, flat) == flat = [j \in 1..(m + 1) |-> Joined(S, j, flat)]
           T == {m \in Nat : \E flat : Upto(m, flat)}
<1>1. 0 \in T
  <2>1. Upto(0, [j \in 1..(0 + 1) |-> InsertedAt(S, 0) \o KeptByte(S, 1)])
    BY DEF Joined
  <2> QED
    BY <2>1
<1>2. ASSUME NEW m \in Nat, m \in T PROVE m + 1 \in T
  <2>1. PICK flat : Upto(m, flat)
    BY <1>2
  <2> DEFINE new == [j \in 1..((m + 1) + 1) |-> IF j <= m + 1 THEN flat[j] ELSE Joined(S, j, flat)]
  <2>2. \A j \in 1..((m + 1) + 1) : new[j] = Joined(S, j, new)
    <3> TAKE j \in 1..((m + 1) + 1)
    <3>1. j > 1 => j - 1 \in 1..(m + 1) /\ new[j - 1] = flat[j - 1]
      OBVIOUS
    <3>2. Joined(S, j, new) = Joined(S, j, flat)
      BY <3>1 DEF Joined
    <3>3. j <= m + 1 => flat[j] = Joined(S, j, flat)
      BY <2>1
    <3> QED
      BY <3>2, <3>3
  <2>3. Upto(m + 1, new)
    <3> HIDE DEF new
    <3>1. new = [j \in 1..((m + 1) + 1) |-> new[j]]
      BY DEF new
    <3> QED
      BY <2>2, <3>1
  <2> HIDE DEF new, Upto
  <2> QED
    BY <2>3
<1>3. Length \in T
  <2> HIDE DEF T
  <2> QED
    BY <1>1, <1>2, Induction
<1>4. PICK flat : flat = CHOOSE g : g = [j \in 1..(Length + 1) |-> Joined(S, j, g)]
  OBVIOUS
<1>5. flat = [j \in 1..(Length + 1) |-> Joined(S, j, flat)]
  BY <1>3, <1>4
<1>6. Fixed(S) = flat[Length + 1]
  <2> DEFINE pieces == [k \in 1..(Length + 1) |-> InsertedAt(S, k - 1) \o KeptByte(S, k)]
  <2>1. Len(pieces) = Length + 1 /\ Len(pieces) # 0
    OBVIOUS
  <2>2. Fixed(S) = FlattenSeq(pieces)
    BY DEF Fixed
  <2>3. \A g : [i \in 1..(Length + 1) |-> IF i = 1 THEN pieces[i] ELSE g[i - 1] \o pieces[i]]
                 = [j \in 1..(Length + 1) |-> Joined(S, j, g)]
    BY DEF Joined
  <2> HIDE DEF pieces
  <2>4. FlattenSeq(pieces)
          = (CHOOSE g : g = [i \in 1..(Length + 1) |-> IF i = 1 THEN pieces[i] ELSE g[i - 1] \o pieces[i]])[Length + 1]
    BY <2>1 DEF FlattenSeq
  <2> QED
    BY <1>4, <2>2, <2>3, <2>4
<1> QED
  BY <1>5, <1>6

\* Where edits are separated, the text inserted after k bytes is that of the one
\* edit which begins there.
LEMMA InsertedText ==
  ASSUME NEW t \in Seq(ValidEdits), NEW k,
         \A i, j \in 1..Len(t) : i < j => t[i].start < t[j].start,
         \A i \in 1..Len(t) : t[i].start \in Nat
  PROVE  /\ \A n \in 1..Len(t) : t[n].start = k => InsertedAt(ToSet(t), k) = t[n].text
         /\ (\A n \in 1..Len(t) : t[n].start # k) => InsertedAt(ToSet(t), k) = <<>>
<1> DEFINE here == {e \in ToSet(t) : e.start = k}
<1>1. ToSet(t) = {t[n] : n \in 1..Len(t)} /\ Len(t) \in Nat
  BY DEF ToSet
<1>2. InsertedAt(ToSet(t), k) = IF here = {} THEN <<>> ELSE (CHOOSE e \in here : TRUE).text
  BY DEF InsertedAt
<1>3. ASSUME NEW n \in 1..Len(t), t[n].start = k
      PROVE  InsertedAt(ToSet(t), k) = t[n].text
  <2>1. t[n] \in here
    BY <1>1, <1>3
  <2>2. \A e \in here : e = t[n]
    <3> TAKE e \in here
    <3>1. PICK m \in 1..Len(t) : e = t[m]
      BY <1>1
    <3>2. m = n
      BY <1>1, <1>3, <3>1
    <3> QED
      BY <3>1, <3>2
  <2> HIDE DEF here
  <2>3. (CHOOSE e \in here : TRUE) = t[n]
    BY <2>1, <2>2
  <2> QED
    BY <1>2, <2>1, <2>3
<1>4. ASSUME \A n \in 1..Len(t) : t[n].start # k
      PROVE  InsertedAt(ToSet(t), k) = <<>>
  <2>1. here = {}
    BY <1>1, <1>4
  <2> QED
    BY <1>2, <2>1
<1> QED
  BY <1>3, <1>4

\* The first n edits begin before byte k, the others not before it.
Entered(t, n, k) == /\ n = 0 \/ t[n].start < k
                    /\ n = Len(t) \/ k <= t[n + 1].start

\* The content up to byte k without its edits is what Apply has written for the
\* edits before it.
LEMMA AppliedIsFixed ==
  ASSUME Length \in Nat, NEW t \in Seq(ValidEdits), Ordered(t), ~Overlaps(t)
  PROVE  Apply(t) = Fixed(ToSet(t))
<1> DEFINE S == ToSet(t)
<1>1. /\ Len(t) \in Nat
      /\ \A k \in 1..Len(t) : /\ t[k].start \in 0..Length /\ t[k].end \in 0..Length
                              /\ t[k].start <= t[k].end /\ t[k].text \in Seq(Content)
      /\ S = {t[k] : k \in 1..Len(t)}
  <2>1. Len(t) \in Nat /\ S = {t[k] : k \in 1..Len(t)}
    BY DEF ToSet
  <2>2. ASSUME NEW k \in 1..Len(t)
        PROVE  /\ t[k].start \in 0..Length /\ t[k].end \in 0..Length
               /\ t[k].start <= t[k].end /\ t[k].text \in Seq(Content)
    <3>1. t[k] \in ValidEdits
      OBVIOUS
    <3>2. t[k].text \in Replacements
      BY <3>1 DEF ValidEdits, Edits
    <3>3. t[k].text \in Seq(Content)
      <4>1. CASE t[k].text = <<>>
        BY <4>1
      <4>2. CASE \E b \in Bytes : t[k].text = <<b>>
        <5>1. PICK b \in Content : t[k].text = <<b>>
          BY <4>2 DEF Content
        <5> QED
          BY <5>1
      <4> QED
        BY <3>2, <4>1, <4>2 DEF Replacements
    <3> QED
      BY <3>1, <3>3 DEF ValidEdits, Edits, ValidRange
  <2> QED
    BY <2>1, <2>2
<1>2. \A i, j \in 1..Len(t) : i < j => t[i].start < t[j].start /\ t[i].end <= t[j].start
  BY Separated
<1>3. PICK after : /\ after = [n \in 0..Len(t) |-> Written(t, n, after)]
                   /\ Apply(t) = after[Len(t)] \o SubSeq(Before, Cursor(t, Len(t)) + 1, Length)
  BY ApplyRecursion
<1>4. PICK flat : /\ flat = [j \in 1..(Length + 1) |-> Joined(S, j, flat)]
                  /\ Fixed(S) = flat[Length + 1]
  BY FixedRecursion
<1> DEFINE Pre(k) == IF k = 0 THEN <<>> ELSE flat[k]
           T == {k \in Nat : k <= Length + 1 =>
                   \A n \in 0..Len(t) : Entered(t, n, k) =>
                     Pre(k) = after[n] \o Span(Cursor(t, n), k)}
<1> HIDE DEF S
<1>5. \A n \in 0..Len(t) : Cursor(t, n) \in 0..Length
  BY <1>1 DEF Cursor
<1>6. ASSUME NEW k \in 0..Length
      PROVE  /\ \A n \in 1..Len(t) : t[n].start = k => InsertedAt(S, k) = t[n].text
             /\ (\A n \in 1..Len(t) : t[n].start # k) => InsertedAt(S, k) = <<>>
             /\ InsertedAt(S, k) \in Seq(Content)
  <2>1. /\ \A i, j \in 1..Len(t) : i < j => t[i].start < t[j].start
        /\ \A i \in 1..Len(t) : t[i].start \in Nat
    BY <1>1, <1>2
  <2>2. /\ \A n \in 1..Len(t) : t[n].start = k => InsertedAt(S, k) = t[n].text
        /\ (\A n \in 1..Len(t) : t[n].start # k) => InsertedAt(S, k) = <<>>
    BY <2>1, InsertedText DEF S
  <2>3. <<>> \in Seq(Content)
    OBVIOUS
  <2> QED
    BY <1>1, <2>2, <2>3
<1>7. ASSUME NEW k \in 1..(Length + 1) PROVE KeptByte(S, k) \in Seq(Content)
  <2>1. k \in Content
    BY DEF Content
  <2>2. <<>> \in Seq(Content) /\ <<k>> \in Seq(Content)
    BY <2>1
  <2> QED
    BY <2>2 DEF KeptByte
<1>8. /\ after[0] = <<>>
      /\ \A n \in 1..Len(t) :
           after[n] = after[n - 1] \o SubSeq(Before, Cursor(t, n - 1) + 1, t[n].start) \o t[n].text
  <2>1. \A n \in 0..Len(t) : after[n] = Written(t, n, after)
    BY <1>3
  <2>2. 0 \in 0..Len(t) /\ \A n \in 1..Len(t) : n \in 0..Len(t) /\ n # 0
    BY <1>1
  <2> QED
    BY <2>1, <2>2 DEF Written
<1>9. \A k \in 1..(Length + 1) : flat[k] = Joined(S, k, flat)
  BY <1>4
<1>10. ASSUME NEW c \in 0..Length, NEW k \in 0..Length
       PROVE  SubSeq(Before, c + 1, k) = Span(c, k) /\ Span(c, k) \in Seq(Content)
  <2>1. k + 1 \in 1..(Length + 1) /\ (k + 1) - 1 = k /\ ~(k > Length)
    OBVIOUS
  <2>2. SubSeq(Before, c + 1, k) = Span(c, k)
    BY <2>1 DEF Span
  <2>3. Span(c, (k + 1) - 1) \in Seq(Content)
    BY <2>1, SpanGrows
  <2> QED
    BY <2>1, <2>2, <2>3
<1>11. \A n \in 0..Len(t) : after[n] \in Seq(Content)
  <2> DEFINE U == {n \in Nat : n <= Len(t) => after[n] \in Seq(Content)}
  <2>1. 0 \in U
    <3>1. <<>> \in Seq(Content)
      OBVIOUS
    <3> QED
      BY <1>8, <3>1
  <2>2. ASSUME NEW n \in Nat, n \in U PROVE n + 1 \in U
    <3> SUFFICES ASSUME n + 1 <= Len(t) PROVE after[n + 1] \in Seq(Content)
      OBVIOUS
    <3> DEFINE span == SubSeq(Before, Cursor(t, n) + 1, t[n + 1].start)
    <3>1. n + 1 \in 1..Len(t) /\ (n + 1) - 1 = n /\ n \in 0..Len(t)
      BY <1>1
    <3>2. after[n] \in Seq(Content)
      BY <1>1, <2>2
    <3>3. span \in Seq(Content)
      BY <1>1, <1>5, <1>10, <3>1
    <3>4. t[n + 1].text \in Seq(Content)
      BY <1>1, <3>1
    <3>5. after[n + 1] = after[n] \o span \o t[n + 1].text
      BY <1>8, <3>1
    <3> HIDE DEF span
    <3> QED
      BY <3>2, <3>3, <3>4, <3>5, ConcatProperties
  <2> HIDE DEF U
  <2>3. Nat \subseteq U
    BY <2>1, <2>2, Induction
  <2> QED
    BY <1>1, <2>3 DEF U
<1>12. ASSUME NEW k \in 0..Length
       PROVE  Pre(k + 1) = Pre(k) \o (InsertedAt(S, k) \o KeptByte(S, k + 1))
  <2>1. k + 1 \in 1..(Length + 1) /\ (k + 1) - 1 = k /\ k + 1 # 0
    OBVIOUS
  <2>2. Pre(k + 1) = Joined(S, k + 1, flat)
    BY <1>9, <2>1
  <2>3. InsertedAt(S, k) \o KeptByte(S, k + 1) \in Seq(Content)
    BY <1>6, <1>7, <2>1, ConcatProperties
  <2>4. CASE k = 0
    <3>1. Joined(S, k + 1, flat) = InsertedAt(S, k) \o KeptByte(S, k + 1)
      BY <2>4 DEF Joined
    <3> QED
      BY <2>2, <2>3, <2>4, <3>1, ConcatEmptySeq
  <2>5. CASE k # 0
    <3>1. k + 1 # 1
      BY <2>5
    <3>2. \A j : j # 1 =>
             Joined(S, j, flat) = flat[j - 1] \o (InsertedAt(S, j - 1) \o KeptByte(S, j))
      BY DEF Joined
    <3>3. Joined(S, k + 1, flat) = flat[k] \o (InsertedAt(S, k) \o KeptByte(S, k + 1))
      BY <2>1, <3>1, <3>2, Zenon
    <3> QED
      BY <2>2, <2>5, <3>3
  <2> QED
    BY <2>4, <2>5
<1>13. 0 \in T
  <2> SUFFICES ASSUME NEW n \in 0..Len(t), Entered(t, n, 0)
               PROVE  Pre(0) = after[n] \o Span(Cursor(t, n), 0)
    OBVIOUS
  <2>1. n = 0
    BY <1>1 DEF Entered
  <2>2. Cursor(t, 0) = 0
    BY DEF Cursor
  <2>3. Span(0, 0) = SubSeq(Before, 0 + 1, 0)
    BY DEF Span
  <2>4. Span(0, 0) = <<>>
    BY <2>3, SubSeqEmpty
  <2>5. <<>> \in Seq(Content) /\ <<>> \o <<>> = <<>>
    BY ConcatEmptySeq
  <2> QED
    BY <1>8, <2>1, <2>2, <2>4, <2>5
<1>14. ASSUME NEW k \in Nat, k \in T PROVE k + 1 \in T
  <2> HIDE DEF Pre
  <2> SUFFICES ASSUME k + 1 <= Length + 1, NEW n \in 0..Len(t), Entered(t, n, k + 1)
               PROVE  Pre(k + 1) = after[n] \o Span(Cursor(t, n), k + 1)
    <3>1. k + 1 \in Nat
      OBVIOUS
    <3> QED
      BY <3>1, Zenon
  <2> DEFINE c == Cursor(t, n)
             byte == KeptByte(S, k + 1)
  <2>1. \A m \in 0..Len(t) : Entered(t, m, k) => Pre(k) = after[m] \o Span(Cursor(t, m), k)
    BY <1>14
  <2> HIDE DEF T
  <2>2. k \in 0..Length /\ k + 1 \in 1..(Length + 1) /\ (k + 1) - 1 = k /\ c \in 0..Length
    BY <1>5
  <2>3. byte = IF k + 1 > Length \/ k + 1 <= c THEN <<>> ELSE <<k + 1>>
    <3>1. ASSUME k + 1 <= c PROVE \E e \in S : e.start < k + 1 /\ k + 1 <= e.end
      <4>1. n \in 1..Len(t) /\ c = t[n].end
        BY <1>1, <3>1 DEF Cursor
      <4> QED
        BY <1>1, <3>1, <4>1 DEF Entered
    <3>2. ASSUME NEW e \in S, e.start < k + 1, k + 1 <= e.end PROVE k + 1 <= c
      <4>1. PICK m \in 1..Len(t) : e = t[m]
        BY <1>1
      <4>2. CASE m < n
        <5>1. n \in 1..Len(t) /\ t[m].end <= t[n].start
          BY <1>1, <1>2, <4>2
        <5>2. t[n].start < k + 1
          BY <1>1, <5>1 DEF Entered
        <5> QED
          BY <1>1, <2>2, <3>2, <4>1, <5>1, <5>2
      <4>3. CASE m = n
        BY <1>1, <3>2, <4>1, <4>3 DEF Cursor
      <4>4. CASE m > n
        <5>1. n + 1 \in 1..Len(t) /\ k + 1 <= t[n + 1].start
          BY <1>1, <4>4 DEF Entered
        <5>2. m = n + 1 \/ n + 1 < m
          BY <1>1, <4>4
        <5>3. t[n + 1].start <= t[m].start
          BY <1>1, <1>2, <5>1, <5>2
        <5> QED
          BY <1>1, <2>2, <3>2, <4>1, <5>1, <5>3
      <4> QED
        BY <1>1, <4>2, <4>3, <4>4
    <3> QED
      BY <3>1, <3>2 DEF KeptByte
  <2>4. byte \in Seq(Content)
    BY <1>7, <2>2
  <2>5. /\ Span(c, k) \in Seq(Content)
        /\ Span(c, k + 1) = Span(c, k) \o byte
        /\ k <= c => Span(c, k) = <<>>
    BY <2>2, <2>3, SpanGrows
  <2>6. Pre(k + 1) = Pre(k) \o (InsertedAt(S, k) \o byte)
    BY <1>12, <2>2
  <2> HIDE DEF byte, Pre
  <2>7. CASE n \in 1..Len(t) /\ t[n].start = k
    <3> DEFINE written == after[n - 1]
               span == Span(Cursor(t, n - 1), k)
               text == t[n].text
    <3>1. n - 1 \in 0..Len(t) /\ Entered(t, n - 1, k)
      <4>1. n - 1 = 0 \/ n - 1 \in 1..Len(t)
        BY <1>1, <2>7
      <4>2. n - 1 \in 1..Len(t) => t[n - 1].start < t[n].start
        BY <1>1, <1>2, <2>7
      <4>3. n - 1 # Len(t) /\ (n - 1) + 1 = n
        BY <1>1, <2>7
      <4> QED
        BY <1>1, <2>7, <4>1, <4>2, <4>3 DEF Entered
    <3>2. Pre(k) = written \o span
      BY <2>1, <3>1
    <3>3. written \in Seq(Content) /\ span \in Seq(Content) /\ text \in Seq(Content)
      BY <1>1, <1>5, <1>10, <1>11, <2>2, <2>7, <3>1
    <3>4. InsertedAt(S, k) = text
      BY <1>6, <2>2, <2>7
    <3>5. after[n] = (written \o span) \o text
      BY <1>5, <1>8, <1>10, <2>2, <2>7, <3>1
    <3>6. Span(c, k + 1) = byte
      <4>1. k <= c
        BY <1>1, <2>7 DEF Cursor
      <4> QED
        BY <2>4, <2>5, <4>1, ConcatEmptySeq
    <3> HIDE DEF written, span, text
    <3>7. written \o span \in Seq(Content)
      BY <3>3, ConcatProperties
    <3>8. (written \o span) \o (text \o byte) = ((written \o span) \o text) \o byte
      BY <2>4, <3>3, <3>7, Associative
    <3> QED
      BY <2>6, <3>2, <3>4, <3>5, <3>6, <3>8
  <2>8. CASE ~(n \in 1..Len(t) /\ t[n].start = k)
    <3>1. Entered(t, n, k)
      <4>1. n = 0 \/ n \in 1..Len(t)
        BY <1>1
      <4>2. n = 0 \/ t[n].start < k
        BY <1>1, <2>8, <4>1 DEF Entered
      <4>3. n = Len(t) \/ k <= t[n + 1].start
        <5>1. n # Len(t) => n + 1 \in 1..Len(t)
          BY <1>1
        <5> QED
          BY <1>1, <5>1 DEF Entered
      <4> QED
        BY <4>2, <4>3 DEF Entered
    <3>2. ASSUME NEW m \in 1..Len(t) PROVE t[m].start # k
      <4>1. CASE m <= n
        <5>1. n \in 1..Len(t) /\ t[n].start < k
          BY <1>1, <3>1, <4>1 DEF Entered
        <5>2. t[m].start <= t[n].start
          BY <1>1, <1>2, <4>1, <5>1
        <5> QED
          BY <1>1, <5>1, <5>2
      <4>2. CASE m > n
        <5>1. n + 1 \in 1..Len(t) /\ k + 1 <= t[n + 1].start
          BY <1>1, <4>2 DEF Entered
        <5>2. m = n + 1 \/ n + 1 < m
          BY <1>1, <4>2
        <5>3. t[n + 1].start <= t[m].start
          BY <1>1, <1>2, <5>1, <5>2
        <5> QED
          BY <1>1, <5>1, <5>3
      <4> QED
        BY <1>1, <4>1, <4>2
    <3>3. InsertedAt(S, k) = <<>>
      BY <1>6, <2>2, <3>2
    <3>4. Pre(k) = after[n] \o Span(c, k)
      BY <2>1, <3>1
    <3>5. <<>> \o byte = byte
      BY <2>4, ConcatEmptySeq
    <3>6. after[n] \in Seq(Content)
      BY <1>11
    <3> HIDE DEF c
    <3>7. (after[n] \o Span(c, k)) \o byte = after[n] \o (Span(c, k) \o byte)
      BY <2>4, <2>5, <3>6, Associative
    <3> QED
      BY <2>5, <2>6, <3>3, <3>4, <3>5, <3>7 DEF c
  <2> QED
    BY <2>7, <2>8
<1>15. Length + 1 \in T
  <2> HIDE DEF T
  <2>1. Nat \subseteq T
    BY <1>13, <1>14, Induction
  <2> QED
    BY <2>1
<1>16. Entered(t, Len(t), Length + 1) /\ Len(t) \in 0..Len(t)
  <2>1. Len(t) = 0 \/ Len(t) \in 1..Len(t)
    BY <1>1
  <2> QED
    BY <1>1, <2>1 DEF Entered
<1>17. Pre(Length + 1) = after[Len(t)] \o Span(Cursor(t, Len(t)), Length + 1)
  <2> HIDE DEF Pre
  <2>1. Length + 1 <= Length + 1
    OBVIOUS
  <2> QED
    BY <1>15, <1>16, <2>1, Zenon
<1>18. Span(Cursor(t, Len(t)), Length + 1) = SubSeq(Before, Cursor(t, Len(t)) + 1, Length)
  <2>1. Length + 1 > Length
    OBVIOUS
  <2> QED
    BY <2>1 DEF Span
<1>19. Pre(Length + 1) = flat[Length + 1]
  BY DEF Pre
<1> HIDE DEF Pre
<1> QED
  BY <1>3, <1>4, <1>17, <1>18, <1>19 DEF S

\* A path whose edits do not overlap is given the content with all of them.
LEMMA BuiltIsFixed ==
  ASSUME Length \in Nat, NEW s \in Seq(ValidEdits), NEW t \in Sorted(s), ~Overlaps(Compact(t))
  PROVE  Apply(Compact(t)) = Fixed(ToSet(s))
<1>1. t \in Seq(ValidEdits) /\ ToSet(t) = ToSet(s) /\ Ordered(t)
  BY SortedFacts
<1>2. Compact(t) \in Seq(ValidEdits) /\ ToSet(Compact(t)) = ToSet(t) /\ Ordered(Compact(t))
  BY <1>1, CompactFacts
<1> QED
  BY <1>1, <1>2, AppliedIsFixed

-----------------------------------------------------------------------------
\* What a path is to be changed to.
ChangeOf(p) == [path |-> p, after |-> Fixed(ToSet(edits[p]))]

\* The edits are valid, and paths are built after all edits are collected.
PlanTypes ==
  /\ edits \in [Paths -> Seq(ValidEdits)]
  /\ path \in Nat \ {0}
  /\ progress \in {"choosing", "taking"} => path = 1
  /\ progress = "done" => path \notin Paths

\* The paths that have been passed are listed, in order, where they change.
Listed ==
  /\ changes \in Seq({ChangeOf(p) : p \in Paths})
  /\ ToSet(changes) = {c \in {ChangeOf(p) : p \in {q \in Paths : q < path}} : c.after # Before}
  /\ \A i, j \in DOMAIN changes : i < j => changes[i].path < changes[j].path

\* A refused plan is empty; otherwise no path that was passed had a conflict.
PlanInv ==
  /\ PlanTypes
  /\ progress = "refused" => changes = <<>>
  /\ progress # "refused" =>
       Listed /\ \A p \in Paths : p < path => ~Conflict(ToSet(edits[p]))

\* Nothing is listed before the first path.
LEMMA NothingListed == path = 1 => (Listed <=> changes = <<>>)
<1> SUFFICES ASSUME path = 1 PROVE Listed <=> changes = <<>>
  OBVIOUS
<1>1. {q \in Paths : q < path} = {}
  BY DEF Paths
<1>2. {c \in {ChangeOf(p) : p \in {q \in Paths : q < path}} : c.after # Before} = {}
  BY <1>1
<1>3. ASSUME Listed PROVE changes = <<>>
  <2>1. ToSet(changes) = {} /\ changes \in Seq({ChangeOf(p) : p \in Paths})
    BY <1>2, <1>3 DEF Listed
  <2> QED
    BY <2>1 DEF ToSet
<1>4. ASSUME changes = <<>> PROVE Listed
  <2>1. ToSet(changes) = {} /\ DOMAIN changes = {}
    BY <1>4 DEF ToSet
  <2>2. changes \in Seq({ChangeOf(p) : p \in Paths})
    BY <1>4
  <2> QED
    BY <1>2, <2>1, <2>2 DEF Listed
<1> QED
  BY <1>3, <1>4

\* A refusal forgets all edits.
LEMMA RefuseStep == PlanInv /\ progress # "refused" /\ Refuse => PlanInv'
  BY DEF PlanInv, PlanTypes, Refuse

\* The invariant is kept where edits are collected.
LEMMA CollectStep ==
  ASSUME PlanInv, progress \in {"choosing", "taking"},
         progress' \in {"choosing", "taking", "building"},
         edits' \in [Paths -> Seq(ValidEdits)], path' = path, changes' = changes
  PROVE  PlanInv'
<1>1. path = 1 /\ path' = 1
  BY DEF PlanInv, PlanTypes
<1>2. changes = <<>> /\ changes' = <<>>
  BY <1>1, NothingListed DEF PlanInv
<1>3. (path = 1 => (Listed <=> changes = <<>>))'
  BY NothingListed, PTL
<1>4. \A p \in Paths : ~(p < path')
  BY <1>1 DEF Paths
<1> QED
  BY <1>1, <1>2, <1>3, <1>4 DEF PlanInv, PlanTypes

\* The invariant is kept where a path is passed.
LEMMA BuildStep == Length \in Nat /\ PlanInv /\ BuildChange => PlanInv'
<1> SUFFICES ASSUME Length \in Nat, PlanInv, BuildChange PROVE PlanInv'
  OBVIOUS
<1>1. PICK t \in Sorted(edits[path]) :
         IF Overlaps(Compact(t)) THEN Refuse
         ELSE /\ changes' = IF Apply(Compact(t)) = Before THEN changes
                            ELSE Append(changes, [path |-> path, after |-> Apply(Compact(t))])
              /\ path' = path + 1
              /\ UNCHANGED <<progress, edits, skipped>>
  BY DEF BuildChange
<1>2. progress = "building" /\ path \in Paths /\ path \in Nat /\ edits[path] \in Seq(ValidEdits)
  BY DEF BuildChange, PlanInv, PlanTypes
<1>3. CASE Overlaps(Compact(t))
  BY <1>1, <1>2, <1>3, RefuseStep
<1>4. CASE ~Overlaps(Compact(t))
  <2>1. Apply(Compact(t)) = Fixed(ToSet(edits[path])) /\ ~Conflict(ToSet(edits[path]))
    BY <1>2, <1>4, BuiltIsFixed, OverlapsAreConflicts
  <2> DEFINE c == ChangeOf(path)
             changed == {d \in {ChangeOf(p) : p \in {q \in Paths : q < path}} : d.after # Before}
  <2>2. c = [path |-> path, after |-> Apply(Compact(t))]
    BY <2>1 DEF ChangeOf
  <2>3. /\ path' = path + 1 /\ progress' = progress /\ edits' = edits
        /\ changes' = IF c.after = Before THEN changes ELSE Append(changes, c)
    BY <1>1, <1>4, <2>2
  <2>4. PlanTypes'
    BY <1>2, <2>3 DEF PlanInv, PlanTypes
  <2>5. ASSUME NEW p \in Paths, p < path' PROVE ~Conflict(ToSet(edits'[p]))
    <3>1. p < path \/ p = path
      BY <1>2, <2>3, <2>5 DEF Paths
    <3> QED
      BY <1>2, <2>1, <2>3, <3>1 DEF PlanInv
  <2>6. \A p : ChangeOf(p)' = ChangeOf(p)
    BY <2>3 DEF ChangeOf
  <2>7. /\ changes \in Seq({ChangeOf(p) : p \in Paths})
        /\ ToSet(changes) = changed
        /\ \A i, j \in DOMAIN changes : i < j => changes[i].path < changes[j].path
    BY <1>2 DEF PlanInv, Listed
  <2>8. {q \in Paths : q < path'} = {q \in Paths : q < path} \cup {path}
    BY <1>2, <2>3 DEF Paths
  <2>9. {d \in {ChangeOf(p)' : p \in {q \in Paths : q < path'}} : d.after # Before}
          = IF c.after = Before THEN changed ELSE changed \cup {c}
    <3>1. {ChangeOf(p)' : p \in {q \in Paths : q < path'}}
            = {ChangeOf(p) : p \in {q \in Paths : q < path}} \cup {c}
      BY <2>6, <2>8
    <3> HIDE DEF c
    <3> QED
      BY <3>1
  <2>10. \A d \in changed : d.path < path
    <3> TAKE d \in changed
    <3>1. PICK p \in Paths : p < path /\ d = ChangeOf(p)
      OBVIOUS
    <3> QED
      BY <3>1 DEF ChangeOf
  <2>11. c.path = path /\ c \in {ChangeOf(p) : p \in Paths}
    BY <1>2 DEF ChangeOf
  <2> HIDE DEF c, changed
  <2>12. Listed'
    <3>1. CASE c.after = Before
      BY <2>3, <2>6, <2>7, <2>9, <3>1 DEF Listed
    <3>2. CASE c.after # Before
      <4>1. changes' = Append(changes, c)
        BY <2>3, <3>2
      <4>2. /\ changes' \in Seq({ChangeOf(p) : p \in Paths})
            /\ Len(changes) \in Nat /\ DOMAIN changes = 1..Len(changes)
            /\ DOMAIN changes' = 1..(Len(changes) + 1)
            /\ \A i \in 1..Len(changes) : changes'[i] = changes[i]
            /\ changes'[Len(changes) + 1] = c
        BY <2>7, <2>11, <4>1
      <4>3. ToSet(changes') = ToSet(changes) \cup {c}
        <5> HIDE DEF Listed
        <5> QED
          BY <4>2 DEF ToSet
      <4>4. \A i \in 1..Len(changes) : changes[i].path < path
        BY <2>7, <2>10, <4>2 DEF ToSet
      <4>5. \A i, j \in DOMAIN changes' : i < j => changes'[i].path < changes'[j].path
        <5> TAKE i, j \in DOMAIN changes'
        <5> HAVE i < j
        <5>1. i \in 1..Len(changes) /\ (j \in 1..Len(changes) \/ j = Len(changes) + 1)
          BY <4>2
        <5> QED
          BY <2>7, <2>11, <4>2, <4>4, <5>1
      <4> QED
        BY <2>6, <2>7, <2>9, <3>2, <4>2, <4>3, <4>5 DEF Listed
    <3> QED
      BY <3>1, <3>2
  <2> QED
    BY <1>2, <2>3, <2>4, <2>5, <2>12 DEF PlanInv
<1> QED
  BY <1>3, <1>4

\* Every step of the plan keeps the invariant.
LEMMA PlanStep == Length \in Nat /\ PlanInv /\ [PlanNext]_planVars => PlanInv'
<1> SUFFICES ASSUME Length \in Nat, PlanInv, [PlanNext]_planVars PROVE PlanInv'
  OBVIOUS
<1>1. CASE (\E safe \in BOOLEAN : Choose(safe)) \/ TakenAll \/ NoFindingLeft
  <2>1. /\ progress \in {"choosing", "taking"} /\ progress' \in {"choosing", "taking", "building"}
        /\ edits' = edits /\ path' = path /\ changes' = changes
    BY <1>1 DEF Choose, TakenAll, NoFindingLeft
  <2>2. edits' \in [Paths -> Seq(ValidEdits)]
    BY <2>1 DEF PlanInv, PlanTypes
  <2> QED
    BY <2>1, <2>2, CollectStep
<1>2. ASSUME NEW p \in Paths, NEW e \in Edits, TakeEdit(p, e) PROVE PlanInv'
  <2>1. CASE ValidRange(e)
    <3>1. /\ progress = "taking" /\ progress' = progress /\ path' = path /\ changes' = changes
          /\ edits' = [edits EXCEPT ![p] = Append(@, e)]
      BY <1>2, <2>1 DEF TakeEdit
    <3>2. e \in ValidEdits
      BY <2>1 DEF ValidEdits
    <3>3. edits' \in [Paths -> Seq(ValidEdits)]
      BY <3>1, <3>2 DEF PlanInv, PlanTypes
    <3> QED
      BY <3>1, <3>3, CollectStep
  <2>2. CASE ~ValidRange(e)
    BY <1>2, <2>2, RefuseStep DEF TakeEdit
  <2> QED
    BY <2>1, <2>2
<1>3. CASE TakeFails
  BY <1>3, RefuseStep DEF TakeFails
<1>4. CASE BuildChange
  BY <1>4, BuildStep
<1>5. CASE Done \/ UNCHANGED planVars
  <2>1. /\ edits' = edits /\ path' = path /\ changes' = changes
        /\ progress' = progress \/ (progress = "building" /\ progress' = "done" /\ path \notin Paths)
    BY <1>5 DEF Done, planVars
  <2>2. Listed' <=> Listed
    BY <2>1 DEF Listed, ChangeOf
  <2> QED
    BY <2>1, <2>2 DEF PlanInv, PlanTypes
<1> QED
  BY <1>1, <1>2, <1>3, <1>4, <1>5 DEF PlanNext

\* For any number of paths and edits, in any order: a plan is refused for
\* overlaps exactly if the edits of a path are in conflict, although only
\* neighbours are compared after an unstable sort, and is then empty; otherwise
\* it lists exactly the contents that the edits change, with all of them made.
THEOREM PlansAreExact == PlanSpec => []PlanIsExact
<1>1. PlanInit => PlanInv
  <2> SUFFICES ASSUME PlanInit PROVE PlanInv
    OBVIOUS
  <2>1. edits \in [Paths -> Seq(ValidEdits)] /\ path = 1 /\ changes = <<>>
    BY DEF PlanInit
  <2>2. Listed /\ \A p \in Paths : ~(p < path)
    BY <2>1, NothingListed DEF Paths
  <2> QED
    BY <2>1, <2>2 DEF PlanInit, PlanInv, PlanTypes
<1>2. PlanInv /\ [PlanNext]_planVars => PlanInv'
  BY PlanStep, FixPlanAssumption
<1>3. PlanInv => RefusalIsExact
  <2> SUFFICES ASSUME PlanInv, path \in Paths, ~Conflict(ToSet(edits[path])),
                      NEW t \in Sorted(edits[path])
               PROVE  ~Overlaps(Compact(t))
    BY DEF PlanInv, RefusalIsExact
  <2>1. edits[path] \in Seq(ValidEdits)
    BY DEF PlanInv, PlanTypes
  <2> QED
    BY <2>1, OverlapsAreConflicts, FixPlanAssumption
<1>4. PlanInv => ChangesAreExact
  <2> SUFFICES ASSUME PlanInv, progress = "done" PROVE ChangesAreExact
    BY DEF ChangesAreExact
  <2>1. {q \in Paths : q < path} = Paths
    BY FixPlanAssumption DEF PlanInv, PlanTypes, Paths
  <2>2. Listed
    BY DEF PlanInv
  <2> QED
    BY <2>1, <2>2 DEF Listed, ChangesAreExact, ChangeOf
<1> QED
  BY <1>1, <1>2, <1>3, <1>4, PTL DEF PlanSpec, PlanIsExact

-----------------------------------------------------------------------------
(* Configurations.                                                         *)

\* What load may hold of the setting of a file with its bases.
OptionMaps == UNION {[D -> Names] : D \in SUBSET Options}
Documents == {Absent} \cup {Plain(f) : f \in Names} \cup {OptionsOf(m) : m \in OptionMaps}

\* A document is of one of three kinds.
LEMMA DocumentKinds ==
  ASSUME NEW d \in Documents
  PROVE  /\ d = Absent <=> d.is = "absent"
         /\ d.is \in {"absent", "plain", "mapping"}
         /\ d.is = "mapping" => /\ d = OptionsOf(d.of) /\ d.of \in OptionMaps
                                /\ DOMAIN d.of \subseteq Options
                                /\ \A o \in DOMAIN d.of : d.of[o] \in Names
<1>1. ASSUME NEW m \in OptionMaps
      PROVE  DOMAIN m \subseteq Options /\ \A o \in DOMAIN m : m[o] \in Names
  BY DEF OptionMaps
<1>2. Absent.is = "absent"
  BY DEF Absent
<1>3. ASSUME NEW f \in Names, d = Plain(f)
      PROVE  d.is = "plain"
  BY <1>3 DEF Plain
<1>4. ASSUME NEW m \in OptionMaps, d = OptionsOf(m)
      PROVE  d.is = "mapping" /\ d.of = m
  BY <1>4 DEF OptionsOf
<1>5. d = Absent \/ (\E f \in Names : d = Plain(f)) \/ (\E m \in OptionMaps : d = OptionsOf(m))
  BY DEF Documents
<1>6. CASE d = Absent
  BY <1>2, <1>6
<1>7. CASE \E f \in Names : d = Plain(f)
  BY <1>2, <1>3, <1>7
<1>8. CASE \E m \in OptionMaps : d = OptionsOf(m)
  BY <1>1, <1>2, <1>4, <1>8
<1> QED
  BY <1>5, <1>6, <1>7, <1>8

\* A nonempty set of positions has a last one.
LEMMA LatestIsLast ==
  ASSUME NEW n \in Nat, NEW S \in SUBSET (1..n), S # {}
  PROVE  Latest(S) \in S /\ \A j \in S : Latest(S) >= j
<1> DEFINE T == {m \in Nat : \A R \in SUBSET (1..m) : R # {} => \E i \in R : \A j \in R : i >= j}
<1>1. 0 \in T
  <2>1. \A R \in SUBSET (1..0) : R = {}
    OBVIOUS
  <2> QED
    BY <2>1
<1>2. ASSUME NEW m \in Nat, m \in T PROVE m + 1 \in T
  <2> SUFFICES ASSUME NEW R \in SUBSET (1..(m + 1)), R # {}
               PROVE  \E i \in R : \A j \in R : i >= j
    OBVIOUS
  <2>1. CASE m + 1 \in R
    BY <2>1
  <2>2. CASE m + 1 \notin R
    <3>1. R \in SUBSET (1..m)
      BY <2>2
    <3> QED
      BY <1>2, <3>1
  <2> QED
    BY <2>1, <2>2
<1>3. Nat \subseteq T
  <2> HIDE DEF T
  <2> QED
    BY <1>1, <1>2, Induction
<1>4. \E i \in S : \A j \in S : i >= j
  BY <1>3
<1> QED
  BY <1>4 DEF Latest

\* The positions that Overlaid looks at.
LEMMA Positions ==
  ASSUME NEW s \in Seq(Documents)
  PROVE  /\ DOMAIN s = 1..Len(s) /\ \A i \in 1..Len(s) : s[i] \in Documents
         /\ Said(s) \subseteq 1..Len(s) /\ Replacing(s) \subseteq Said(s)
         /\ Since(s) \subseteq Said(s) /\ \A i \in Since(s) : s[i].is = "mapping"
         /\ \A o : Giving(s, o) \subseteq Since(s)
<1>1. DOMAIN s = 1..Len(s) /\ \A i \in 1..Len(s) : s[i] \in Documents
  OBVIOUS
<1>2. Said(s) \subseteq 1..Len(s) /\ Replacing(s) \subseteq Said(s) /\ Since(s) \subseteq Said(s)
  BY <1>1 DEF Said, Replacing, Since
<1>3. ASSUME NEW i \in Since(s) PROVE s[i].is = "mapping"
  <2>1. i \in Said(s) /\ i \in 1..Len(s) /\ ~(i > i)
    BY <1>2
  <2>2. i \notin Replacing(s)
    BY <2>1 DEF Since
  <2> QED
    BY <2>1, <2>2 DEF Replacing
<1> QED
  BY <1>1, <1>2, <1>3 DEF Giving

\* Overlaid documents are a document.
LEMMA OverlaidType == ASSUME NEW s \in Seq(Documents) PROVE Overlaid(s) \in Documents
<1>1. CASE Since(s) # {}
  <2> DEFINE D == {p \in Options : Giving(s, p) # {}}
             m == [o \in D |-> s[Latest(Giving(s, o))].of[o]]
  <2>1. ASSUME NEW o \in D PROVE s[Latest(Giving(s, o))].of[o] \in Names
    <3>1. Giving(s, o) \in SUBSET (1..Len(s)) /\ Giving(s, o) # {} /\ Len(s) \in Nat
      BY <2>1, Positions
    <3>2. Latest(Giving(s, o)) \in Giving(s, o)
      BY <3>1, LatestIsLast
    <3>3. PICK i \in Giving(s, o) : i = Latest(Giving(s, o))
      BY <3>2
    <3>4. o \in DOMAIN s[i].of /\ s[i].is = "mapping" /\ s[i] \in Documents
      BY <3>1, Positions DEF Giving
    <3> QED
      BY <3>3, <3>4, DocumentKinds
  <2>2. m \in [D -> Names] /\ D \in SUBSET Options
    BY <2>1
  <2>3. m \in OptionMaps
    BY <2>2 DEF OptionMaps
  <2>4. Overlaid(s) = OptionsOf(m)
    BY <1>1 DEF Overlaid
  <2> QED
    BY <2>3, <2>4 DEF Documents
<1>2. CASE Since(s) = {} /\ Replacing(s) # {}
  <2>1. Replacing(s) \in SUBSET (1..Len(s)) /\ Len(s) \in Nat
    BY Positions
  <2>2. Latest(Replacing(s)) \in 1..Len(s)
    BY <1>2, <2>1, LatestIsLast
  <2> QED
    BY <1>2, <2>2, Positions DEF Overlaid
<1>3. CASE Since(s) = {} /\ Replacing(s) = {}
  BY <1>3 DEF Overlaid, Documents
<1> QED
  BY <1>1, <1>2, <1>3

\* Laying one more document over those before it.
LEMMA OneMoreDocument ==
  ASSUME NEW s \in Seq(Documents), NEW d \in Documents
  PROVE  Overlaid(Append(s, d)) = Merge(Overlaid(s), d)
<1> DEFINE t == Append(s, d)
           n == Len(s) + 1
<1>1. /\ t \in Seq(Documents) /\ Len(t) = n /\ t[n] = d /\ n \in Nat /\ Len(s) \in Nat
      /\ \A i \in 1..Len(s) : t[i] = s[i]
      /\ 1..n = (1..Len(s)) \cup {n} /\ n \notin 1..Len(s)
      /\ DOMAIN t = 1..n /\ DOMAIN s = 1..Len(s)
  OBVIOUS
<1>2. /\ Said(s) \subseteq 1..Len(s) /\ Replacing(s) \subseteq 1..Len(s)
      /\ Since(s) \subseteq 1..Len(s) /\ \A o : Giving(s, o) \subseteq 1..Len(s)
  BY Positions
<1> HIDE DEF t, n
<1>3. Said(t) = Said(s) \cup (IF d = Absent THEN {} ELSE {n})
  BY <1>1 DEF Said
<1>4. Replacing(t) = Replacing(s) \cup (IF d = Absent \/ d.is = "mapping" THEN {} ELSE {n})
  BY <1>1, <1>2, <1>3 DEF Replacing
<1>5. ASSUME NEW R \in SUBSET (1..Len(s)), R # {}
      PROVE  Latest(R) \in R /\ t[Latest(R)] = s[Latest(R)]
  BY <1>1, <1>5, LatestIsLast
<1>6. CASE d = Absent
  <2>1. Said(t) = Said(s) /\ Replacing(t) = Replacing(s)
    BY <1>3, <1>4, <1>6
  <2>2. Since(t) = Since(s)
    BY <2>1 DEF Since
  <2>3. \A o : Giving(t, o) = Giving(s, o)
    BY <1>1, <1>2, <2>2 DEF Giving
  <2>4. Overlaid(t) = Overlaid(s)
    <3>1. CASE Since(s) # {}
      <4> DEFINE D == {p \in Options : Giving(s, p) # {}}
      <4>1. \A o \in D : t[Latest(Giving(s, o))] = s[Latest(Giving(s, o))]
        BY <1>2, <1>5
      <4>2. [o \in D |-> t[Latest(Giving(s, o))].of[o]] = [o \in D |-> s[Latest(Giving(s, o))].of[o]]
        BY <4>1
      <4> QED
        BY <2>2, <2>3, <3>1, <4>2 DEF Overlaid
    <3>2. CASE Since(s) = {} /\ Replacing(s) # {}
      BY <1>2, <1>5, <2>1, <2>2, <3>2 DEF Overlaid
    <3>3. CASE Since(s) = {} /\ Replacing(s) = {}
      BY <2>1, <2>2, <3>3 DEF Overlaid
    <3> QED
      BY <3>1, <3>2, <3>3
  <2> QED
    BY <1>6, <2>4 DEF Merge, t
<1>7. CASE d # Absent /\ d.is # "mapping"
  <2>1. n \in Replacing(t) /\ Replacing(t) \subseteq 1..n
    BY <1>1, <1>2, <1>4, <1>7
  <2>2. Since(t) = {}
    <3>1. ASSUME NEW i \in Since(t) PROVE FALSE
      <4>1. i \in 1..n /\ i > n
        BY <1>1, <2>1, Positions DEF Since
      <4> QED
        BY <1>1, <4>1
    <3> QED
      BY <3>1
  <2>3. Latest(Replacing(t)) = n
    <3>1. Latest(Replacing(t)) \in Replacing(t) /\ Latest(Replacing(t)) >= n
      BY <1>1, <2>1, LatestIsLast
    <3> QED
      BY <1>1, <2>1, <3>1
  <2>4. Overlaid(t) = d
    BY <1>1, <2>1, <2>2, <2>3 DEF Overlaid
  <2> QED
    BY <1>7, <2>4 DEF Merge, t
<1>8. CASE d.is = "mapping"
  <2>0. d # Absent /\ d = OptionsOf(d.of) /\ DOMAIN d.of \subseteq Options /\ d.of = [o \in DOMAIN d.of |-> d.of[o]]
    BY <1>8, DocumentKinds DEF OptionMaps
  <2>1. Said(t) = Said(s) \cup {n} /\ Replacing(t) = Replacing(s)
    BY <1>3, <1>4, <1>8, <2>0
  <2>2. Since(t) = Since(s) \cup {n}
    <3>1. \A j \in Replacing(s) : n > j
      BY <1>1, <1>2
    <3> QED
      BY <2>1, <3>1 DEF Since
  <2>3. \A o : Giving(t, o) = Giving(s, o) \cup (IF o \in DOMAIN d.of THEN {n} ELSE {})
    <3> TAKE o
    <3>1. ASSUME NEW i \in Since(s) PROVE t[i] = s[i]
      BY <1>1, <1>2
    <3> QED
      BY <1>1, <2>2, <3>1 DEF Giving
  <2> DEFINE D == {p \in Options : Giving(s, p) # {}}
             m == [o \in D |-> s[Latest(Giving(s, o))].of[o]]
  <2>4. {p \in Options : Giving(t, p) # {}} = D \cup DOMAIN d.of
    BY <2>0, <2>3
  <2>5. ASSUME NEW o \in D \cup DOMAIN d.of
        PROVE  t[Latest(Giving(t, o))].of[o] = IF o \in DOMAIN d.of THEN d.of[o] ELSE m[o]
    <3>1. CASE o \in DOMAIN d.of
      <4>1. Giving(t, o) \in SUBSET (1..n) /\ n \in Giving(t, o)
        BY <1>1, <1>2, <2>3, <3>1
      <4>2. Latest(Giving(t, o)) \in Giving(t, o) /\ Latest(Giving(t, o)) >= n
        BY <1>1, <4>1, LatestIsLast
      <4>3. Latest(Giving(t, o)) = n
        BY <1>1, <4>1, <4>2
      <4> QED
        BY <1>1, <3>1, <4>3
    <3>2. CASE o \notin DOMAIN d.of
      <4>1. Giving(t, o) = Giving(s, o) /\ o \in D
        BY <2>3, <3>2
      <4>2. t[Latest(Giving(s, o))] = s[Latest(Giving(s, o))]
        BY <1>2, <1>5, <4>1
      <4> QED
        BY <3>2, <4>1, <4>2
    <3> QED
      BY <3>1, <3>2
  <2>6. Overlaid(t) = OptionsOf([o \in D \cup DOMAIN d.of |-> IF o \in DOMAIN d.of THEN d.of[o] ELSE m[o]])
    <3>1. [o \in D \cup DOMAIN d.of |-> t[Latest(Giving(t, o))].of[o]]
            = [o \in D \cup DOMAIN d.of |-> IF o \in DOMAIN d.of THEN d.of[o] ELSE m[o]]
      BY <2>5
    <3>2. Overlaid(t) = OptionsOf([o \in {p \in Options : Giving(t, p) # {}} |->
                                     t[Latest(Giving(t, o))].of[o]])
      BY <2>2 DEF Overlaid
    <3> HIDE DEF D, m
    <3> QED
      BY <2>4, <3>1, <3>2
  <2>7. CASE Since(s) # {}
    <3>1. Overlaid(s) = OptionsOf(m)
      BY <2>7 DEF Overlaid
    <3>2. OptionsOf(m).is = "mapping" /\ OptionsOf(m).of = m /\ DOMAIN m = D
      BY DEF OptionsOf
    <3> HIDE DEF D, m
    <3> QED
      BY <1>8, <2>0, <2>6, <3>1, <3>2 DEF Merge, t
  <2>8. CASE Since(s) = {}
    <3>1. D = {}
      BY <2>8, Positions
    <3>2. [o \in D \cup DOMAIN d.of |-> IF o \in DOMAIN d.of THEN d.of[o] ELSE m[o]] = d.of
      BY <2>0, <3>1
    <3>3. Overlaid(t) = d
      BY <2>0, <2>6, <3>2
    <3>4. Overlaid(s).is # "mapping"
      <4>1. CASE Replacing(s) # {}
        <5>1. Latest(Replacing(s)) \in Replacing(s)
          BY <1>2, <1>5, <4>1
        <5> QED
          BY <2>8, <4>1, <5>1 DEF Overlaid, Replacing
      <4>2. CASE Replacing(s) = {}
        BY <2>8, <4>2 DEF Overlaid, Absent
      <4> QED
        BY <4>1, <4>2
    <3> QED
      BY <2>0, <3>3, <3>4 DEF Merge, t
  <2> QED
    BY <2>7, <2>8
<1> QED
  BY <1>6, <1>7, <1>8

\* Nothing laid over nothing.
LEMMA NoDocuments == Overlaid(<<>>) = Absent
  BY DEF Overlaid, Since, Replacing, Said

-----------------------------------------------------------------------------
(* What extends what.                                                      *)

\* What is known of a file.
FileContents == {Unknown, Unreadable} \cup {File(b, s) : b \in Seq(Names), s \in Documents}

\* The bases of a file, and of a name, are names.
LEMMA BasesOfFile ==
  ASSUME NEW c \in FileContents, c.state = "read"
  PROVE  c.bases \in Seq(Names) /\ c.setting \in Documents
<1>1. c \notin {Unknown, Unreadable}
  BY DEF Unknown, Unreadable
<1>2. PICK b \in Seq(Names), s \in Documents : c = File(b, s)
  BY <1>1 DEF FileContents
<1> QED
  BY <1>2 DEF File

LEMMA BasesAreNames ==
  ASSUME link \in [Names -> Names], content \in [Names -> FileContents], NEW n \in Names
  PROVE  BasesOf(n) \in Seq(Names)
  BY BasesOfFile DEF BasesOf

\* Extended(n) has the bases of n and of its own names, and is the least such
\* set.
LEMMA ExtendedIsLeast ==
  ASSUME NEW n
  PROVE  /\ Extended(n) \subseteq Names
         /\ Range(BasesOf(n)) \subseteq Names => Range(BasesOf(n)) \subseteq Extended(n)
         /\ \A m \in Extended(n) :
              Range(BasesOf(m)) \subseteq Names => Range(BasesOf(m)) \subseteq Extended(n)
         /\ \A S \in SUBSET Names :
              Range(BasesOf(n)) \subseteq S /\ Closed(S) => Extended(n) \subseteq S
<1>1. ASSUME NEW m \in Extended(n), Range(BasesOf(m)) \subseteq Names,
             NEW p \in Range(BasesOf(m))
      PROVE  p \in Extended(n)
  BY <1>1 DEF Extended, Closed
<1> QED
  BY <1>1 DEF Extended

\* The calls are a chain of extends.
Calls ==
  /\ frames[1].name = 1
  /\ \A i \in 1..(Len(frames) - 1) :
       /\ frames[i].next <= Len(BasesOf(frames[i].name))
       /\ frames[i + 1].name = BasesOf(frames[i].name)[frames[i].next]
  /\ \A i, j \in DOMAIN frames : link[frames[i].name] = link[frames[j].name] => i = j
  /\ Len(frames) <= MaxDepth + 1

Frames == [name : Names, next : Nat \ {0}, base : Documents]

ExtendTypes ==
  /\ link \in [Names -> Names]
  /\ content \in [Names -> FileContents]
  /\ frames \in Seq(Frames) /\ frames # <<>>
  /\ cache \in [Names -> Documents \cup {NotCached}]
  /\ listed \in Seq(Names)
  /\ result \in {"none", "loaded", "unreadable", "cycle", "depth"}

\* A call is for a name that each call below it extends.
LEMMA CallsExtend ==
  ASSUME ExtendTypes, Calls, NEW j \in DOMAIN frames
  PROVE  /\ \A i \in 1..(j - 1) : frames[j].name \in Extended(frames[i].name)
         /\ frames[j].name \in Reached
<1> DEFINE T == {m \in Nat : m \in DOMAIN frames =>
                   \A i \in 1..(m - 1) : frames[m].name \in Extended(frames[i].name)}
<1>1. DOMAIN frames = 1..Len(frames) /\ Len(frames) \in Nat /\ \A i \in DOMAIN frames : frames[i] \in Frames
  BY DEF ExtendTypes
<1>2. 0 \in T
  BY <1>1
<1>3. ASSUME NEW m \in Nat, m \in T PROVE m + 1 \in T
  <2> SUFFICES ASSUME m + 1 \in DOMAIN frames, NEW i \in 1..m
               PROVE  frames[m + 1].name \in Extended(frames[i].name)
    OBVIOUS
  <2>1. m \in 1..(Len(frames) - 1) /\ m \in DOMAIN frames /\ i \in DOMAIN frames
    BY <1>1
  <2>2. frames[m].name \in Names /\ frames[i].name \in Names /\ frames[m].next \in Nat \ {0}
    BY <1>1, <2>1 DEF Frames
  <2>3. BasesOf(frames[m].name) \in Seq(Names) /\ BasesOf(frames[i].name) \in Seq(Names)
    BY <2>2, BasesAreNames DEF ExtendTypes
  <2>4. frames[m + 1].name \in Range(BasesOf(frames[m].name))
    <3>1. /\ frames[m].next \in DOMAIN BasesOf(frames[m].name)
          /\ frames[m + 1].name = BasesOf(frames[m].name)[frames[m].next]
      BY <2>1, <2>2, <2>3 DEF Calls
    <3> QED
      BY <3>1 DEF Range
  <2>5. \A b \in Seq(Names) : Range(b) \subseteq Names
    BY DEF Range
  <2>6. CASE i = m
    BY <2>3, <2>4, <2>5, <2>6, ExtendedIsLeast
  <2>7. CASE i # m
    <3>1. frames[m].name \in Extended(frames[i].name)
      BY <1>3, <2>1, <2>7
    <3> QED
      BY <2>3, <2>4, <2>5, <3>1, ExtendedIsLeast
  <2> QED
    BY <2>6, <2>7
<1>4. j \in T
  <2> HIDE DEF T
  <2>1. Nat \subseteq T
    BY <1>2, <1>3, Induction
  <2> QED
    BY <1>1, <2>1
<1>5. frames[j].name \in Reached
  <2>1. CASE j = 1
    BY <2>1 DEF Calls, Reached
  <2>2. CASE j # 1
    <3>1. 1 \in 1..(j - 1) /\ j \in DOMAIN frames
      BY <1>1, <2>2
    <3>2. frames[j].name \in Extended(frames[1].name)
      BY <1>4, <3>1
    <3> QED
      BY <3>2 DEF Calls, Reached
  <2> QED
    BY <2>1, <2>2
<1> QED
  BY <1>4, <1>5

-----------------------------------------------------------------------------
(* The invariant.                                                          *)

\* The base of a call has the documents of the bases it has passed.
HasLaid(frame, bases, documents) ==
  /\ frame.next <= Len(bases) + 1
  /\ \A k \in 1..(frame.next - 1) : documents[bases[k]] # NotCached
  /\ frame.base = Overlaid([k \in 1..(frame.next - 1) |-> documents[bases[k]]])

BasesLaid == \A i \in DOMAIN frames : HasLaid(frames[i], BasesOf(frames[i].name), cache)

\* What is cached is what the documentation says, and none of the calls is for
\* a cached name.
CacheIsEffective ==
  /\ result = "none" => \A i \in DOMAIN frames : cache[frames[i].name] = NotCached
  /\ \A n \in Names : cache[n] # NotCached =>
       /\ n \in Range(listed)
       /\ content[link[n]].state = "read"
       /\ cache[n] = Effective(n)
  /\ result = "loaded" => cache[1] # NotCached

ListedInOrder ==
  /\ IsInjective(listed)
  /\ \A i \in DOMAIN listed :
       /\ cache[listed[i]] # NotCached /\ listed[i] \in Reached
       /\ Range(BasesOf(listed[i])) \subseteq {listed[j] : j \in 1..(i - 1)}

ExtendInv == /\ ExtendTypes /\ Calls /\ BasesLaid /\ CacheIsEffective /\ ListedInOrder
             /\ RefusedIsReal

\* The invariant gives the property.
LEMMA ExactWhenLoaded == ExtendInv => ExtendsAreExact
<1> SUFFICES ASSUME ExtendInv, result = "loaded"
             PROVE  /\ \A n \in Reached : content[link[n]].state = "read"
                    /\ \A n \in Reached : \A m \in Extended(n) : link[m] # link[n]
                    /\ Range(listed) = Reached /\ IsInjective(listed)
                    /\ \A i \in DOMAIN listed :
                         Range(BasesOf(listed[i])) \subseteq {listed[j] : j \in 1..(i - 1)}
                    /\ \A n \in Reached : cache[n] = Effective(n)
  BY DEF ExtendsAreExact, LoadedIsEffective, ExtendInv
<1>1. /\ listed \in Seq(Names) /\ DOMAIN listed = 1..Len(listed) /\ Len(listed) \in Nat
      /\ Range(listed) \subseteq Names
      /\ \A i \in DOMAIN listed : listed[i] \in Range(listed)
      /\ \A n \in Range(listed) : \E i \in DOMAIN listed : n = listed[i]
  BY DEF ExtendInv, ExtendTypes, Range
<1>2. IsInjective(listed) /\ \A i \in DOMAIN listed :
        /\ cache[listed[i]] # NotCached /\ listed[i] \in Reached
        /\ Range(BasesOf(listed[i])) \subseteq {listed[j] : j \in 1..(i - 1)}
  BY DEF ExtendInv, ListedInOrder
<1>3. 1 \in Range(listed)
  BY ExtendAssumption DEF ExtendInv, CacheIsEffective, Names
<1>4. \A i \in DOMAIN listed : 1..(i - 1) \subseteq DOMAIN listed
  BY <1>1
<1>5. Closed(Range(listed))
  <2>1. ASSUME NEW i \in DOMAIN listed PROVE Range(BasesOf(listed[i])) \subseteq Range(listed)
    BY <1>1, <1>2, <1>4
  <2> QED
    BY <1>1, <2>1 DEF Closed
<1>6. Reached \subseteq Range(listed)
  <2>1. Range(BasesOf(1)) \subseteq Range(listed)
    BY <1>3, <1>5 DEF Closed
  <2>2. Extended(1) \subseteq Range(listed)
    BY <1>1, <1>5, <2>1, ExtendedIsLeast
  <2> QED
    BY <1>3, <2>2 DEF Reached
<1>7. Range(listed) \subseteq Reached
  BY <1>1, <1>2
<1>8. \A n \in Reached : n \in Names /\ cache[n] # NotCached
  BY <1>1, <1>2, <1>6
<1>9. \A n \in Reached : content[link[n]].state = "read" /\ cache[n] = Effective(n)
  BY <1>8 DEF ExtendInv, CacheIsEffective
<1>10. ASSUME NEW n \in Reached, NEW m \in Extended(n), link[m] = link[n] PROVE FALSE
  <2>1. BasesOf(m) = BasesOf(n)
    BY <1>10 DEF BasesOf
  <2>2. Extended(m) = Extended(n)
    BY <2>1 DEF Extended
  <2>3. PICK i \in DOMAIN listed : n = listed[i]
    BY <1>1, <1>6
  <2>4. m \in Range(listed)
    <3>1. Range(BasesOf(n)) \subseteq Range(listed)
      BY <1>1, <1>5, <1>6 DEF Closed
    <3> QED
      BY <1>1, <1>5, <3>1, ExtendedIsLeast
  <2>5. PICK j \in DOMAIN listed : m = listed[j]
    BY <1>1, <2>4
  <2> DEFINE S == {listed[k] : k \in 1..(j - 1)}
  <2>6. S \subseteq Names /\ Range(BasesOf(m)) \subseteq S
    BY <1>1, <1>2, <1>4, <2>5
  <2>7. Closed(S)
    <3>1. ASSUME NEW k \in 1..(j - 1) PROVE Range(BasesOf(listed[k])) \subseteq S
      <4>1. k \in DOMAIN listed /\ 1..(k - 1) \subseteq 1..(j - 1)
        BY <1>1, <1>4
      <4> QED
        BY <1>2, <4>1
    <3> QED
      BY <3>1 DEF Closed
  <2>8. m \in S
    <3> HIDE DEF S
    <3>1. Extended(m) \subseteq S
      BY <2>6, <2>7, ExtendedIsLeast
    <3> QED
      BY <1>10, <2>2, <3>1
  <2>9. PICK k \in 1..(j - 1) : m = listed[k]
    BY <2>8
  <2>10. k \in DOMAIN listed /\ k # j
    BY <1>1, <1>4
  <2> QED
    BY <1>2, <2>5, <2>9, <2>10 DEF IsInjective
<1> QED
  BY <1>2, <1>6, <1>7, <1>9, <1>10

-----------------------------------------------------------------------------
(* The steps.                                                              *)

\* The call of load that runs.
LEMMA Innermost ==
  ASSUME ExtendTypes
  PROVE  /\ Len(frames) \in Nat \ {0} /\ DOMAIN frames = 1..Len(frames)
         /\ Frame = frames[Len(frames)] /\ Len(frames) \in DOMAIN frames
         /\ \A i \in DOMAIN frames :
              /\ frames[i] \in Frames /\ frames[i].name \in Names
              /\ link[frames[i].name] \in Names
              /\ frames[i].next \in Nat \ {0} /\ frames[i].base \in Documents
              /\ BasesOf(frames[i].name) \in Seq(Names)
<1>1. Len(frames) \in Nat \ {0} /\ DOMAIN frames = 1..Len(frames)
  BY DEF ExtendTypes
<1>2. Frame = frames[Len(frames)]
  BY DEF Frame, Last
<1>3. ASSUME NEW i \in DOMAIN frames
      PROVE  /\ frames[i] \in Frames /\ frames[i].name \in Names
             /\ link[frames[i].name] \in Names
             /\ frames[i].next \in Nat \ {0} /\ frames[i].base \in Documents
  <2>1. frames[i] \in Frames
    BY <1>1 DEF ExtendTypes
  <2>2. frames[i].name \in Names /\ frames[i].next \in Nat \ {0} /\ frames[i].base \in Documents
    BY <2>1 DEF Frames
  <2> QED
    BY <2>1, <2>2 DEF ExtendTypes
<1>4. ASSUME NEW i \in DOMAIN frames PROVE BasesOf(frames[i].name) \in Seq(Names)
  BY <1>3, BasesAreNames DEF ExtendTypes
<1> QED
  BY <1>1, <1>2, <1>3, <1>4

\* A file that was read has a setting.
LEMMA SettingOfFile ==
  ASSUME ExtendTypes, NEW n \in Names, content[link[n]].state = "read"
  PROVE  /\ content[link[n]].setting \in Documents
         /\ BasesOf(n) = content[link[n]].bases /\ BasesOf(n) \in Seq(Names)
  BY BasesOfFile, BasesAreNames DEF ExtendTypes, BasesOf

\* What a name extends depends on the files alone.
LEMMA SameGraph ==
  ASSUME UNCHANGED <<link, content>>
  PROVE  /\ \A n : BasesOf(n)' = BasesOf(n) /\ Extended(n)' = Extended(n)
         /\ Reached' = Reached
<1>1. \A n : BasesOf(n)' = BasesOf(n)
  BY DEF BasesOf
<1>2. \A n : Extended(n)' = Extended(n)
  BY <1>1 DEF Extended, Closed
<1> QED
  BY <1>1, <1>2 DEF Reached

\* The base of a call with one more document, and with that of the file.
LEMMA OneMoreBase ==
  ASSUME NEW b \in Seq(Names), NEW c \in [Names -> Documents \cup {NotCached}],
         NEW n \in Nat, n < Len(b), \A k \in 1..(n + 1) : c[b[k]] # NotCached
  PROVE  /\ c[b[n + 1]] \in Documents
         /\ Merge(Overlaid([k \in 1..n |-> c[b[k]]]), c[b[n + 1]])
              = Overlaid([k \in 1..(n + 1) |-> c[b[k]]])
<1> DEFINE s == [k \in 1..n |-> c[b[k]]]
           t == [k \in 1..(n + 1) |-> c[b[k]]]
<1>1. \A k \in 1..(n + 1) : c[b[k]] \in Documents
  OBVIOUS
<1>2. s \in Seq(Documents) /\ n + 1 \in 1..(n + 1)
  BY <1>1
<1>3. Append(s, c[b[n + 1]]) = t
  BY <1>1, <1>2
<1> HIDE DEF s, t
<1>4. Merge(Overlaid(s), c[b[n + 1]]) = Overlaid(t)
  BY <1>1, <1>2, <1>3, OneMoreDocument
<1> QED
  BY <1>1, <1>2, <1>4 DEF s, t

LEMMA FileOverBases ==
  ASSUME NEW b \in Seq(Names), NEW c \in [Names -> Documents \cup {NotCached}],
         \A k \in 1..Len(b) : c[b[k]] # NotCached, NEW d \in Documents
  PROVE  /\ Merge(Overlaid([k \in 1..Len(b) |-> c[b[k]]]), d)
              = Overlaid([i \in DOMAIN b |-> c[b[i]]] \o <<d>>)
         /\ Overlaid([i \in DOMAIN b |-> c[b[i]]] \o <<d>>) \in Documents
<1> DEFINE s == [k \in 1..Len(b) |-> c[b[k]]]
<1>1. s \in Seq(Documents)
  <2>1. \A k \in 1..Len(b) : c[b[k]] \in Documents
    OBVIOUS
  <2> QED
    BY <2>1
<1>2. s = [i \in DOMAIN b |-> c[b[i]]]
  OBVIOUS
<1> HIDE DEF s
<1>3. s \o <<d>> = Append(s, d) /\ Append(s, d) \in Seq(Documents)
  BY <1>1
<1>4. Overlaid(s \o <<d>>) = Merge(Overlaid(s), d) /\ Overlaid(s \o <<d>>) \in Documents
  BY <1>1, <1>3, OneMoreDocument, OverlaidType
<1> QED
  BY <1>2, <1>4 DEF s

\* The first call.
LEMMA InitExtendInv == ExtendInit => ExtendInv
<1> SUFFICES ASSUME ExtendInit PROVE ExtendInv
  OBVIOUS
<1> DEFINE f == [name |-> 1, next |-> 1, base |-> Absent]
<1>1. f \in Frames /\ 1 \in Names
  BY ExtendAssumption DEF Frames, Documents, Names
<1>2. frames = <<f>> /\ Len(frames) = 1 /\ DOMAIN frames = {1} /\ frames[1] = f
  BY DEF ExtendInit
<1>3. ExtendTypes
  BY <1>1, <1>2 DEF ExtendTypes, ExtendInit, FileContents
<1>4. Calls
  BY <1>2, ExtendAssumption DEF Calls
<1>5. \A n \in Names : BasesOf(n) = <<>>
  BY <1>3 DEF BasesOf, ExtendInit, Unknown, ExtendTypes
<1>6. BasesLaid
  <2>1. BasesOf(f.name) = <<>> /\ f.next = 1 /\ f.base = Absent
    BY <1>1, <1>5
  <2>2. \A c : [k \in 1..(1 - 1) |-> c[k]] = <<>>
    OBVIOUS
  <2>3. [k \in 1..(1 - 1) |-> cache[BasesOf(f.name)[k]]] = <<>>
    OBVIOUS
  <2> QED
    BY <1>2, <2>1, <2>3, NoDocuments DEF BasesLaid, HasLaid
<1>7. CacheIsEffective
  BY <1>1, <1>2 DEF CacheIsEffective, ExtendInit
<1>8. ListedInOrder
  BY DEF ListedInOrder, ExtendInit, IsInjective
<1>9. RefusedIsReal
  BY DEF RefusedIsReal, ExtendInit
<1> QED
  BY <1>3, <1>4, <1>6, <1>7, <1>8, <1>9 DEF ExtendInv

\* Reading a file changes what the names behind it extend, none of which has
\* been passed.
LEMMA ReadFileStep == ExtendInv /\ ReadFile => ExtendInv'
<1> SUFFICES ASSUME ExtendInv, ReadFile PROVE ExtendInv'
  OBVIOUS
<1> DEFINE n == Len(frames)
           F == link[frames[n].name]
<1>1. ExtendTypes /\ Calls /\ BasesLaid /\ CacheIsEffective /\ ListedInOrder
  BY DEF ExtendInv
<1>2. /\ n \in Nat \ {0} /\ DOMAIN frames = 1..n /\ Frame = frames[n] /\ n \in DOMAIN frames
      /\ F \in Names
      /\ \A i \in DOMAIN frames : frames[i].name \in Names /\ frames[i].next \in Nat \ {0}
  BY <1>1, Innermost
<1>3. content[F] = Unknown /\ UNCHANGED <<link, frames, cache, listed, result>> /\ result = "none"
  BY <1>2 DEF ReadFile, FileOf
<1>4. PICK c \in FileContents : content' = [content EXCEPT ![F] = c]
  <2>1. Unreadable \in FileContents
    BY DEF FileContents
  <2>2. ASSUME NEW b \in SeqOf(Names, MaxBases), NEW d \in Settings(F)
        PROVE  File(b, d) \in FileContents
    <3>1. b \in Seq(Names)
      BY DEF SeqOf
    <3>2. d \in Documents
      <4>1. CASE d \in {Absent, Plain(F)}
        BY <1>2, <4>1 DEF Documents
      <4>2. CASE d \notin {Absent, Plain(F)}
        <5>1. PICK p \in Options : d = OptionsOf([o \in {p} |-> F])
          BY <4>2 DEF Settings
        <5>2. {p} \in SUBSET Options /\ [o \in {p} |-> F] \in [{p} -> Names]
          BY <1>2
        <5>3. [o \in {p} |-> F] \in OptionMaps
          BY <5>2 DEF OptionMaps
        <5> QED
          BY <5>1, <5>3 DEF Documents
      <4> QED
        BY <4>1, <4>2
    <3> QED
      BY <3>1, <3>2 DEF FileContents
  <2> QED
    BY <1>2, <2>1, <2>2 DEF ReadFile
<1> HIDE DEF n, F
<1>5. content' \in [Names -> FileContents] /\ \A g \in Names \ {F} : content'[g] = content[g]
  BY <1>1, <1>2, <1>4 DEF ExtendTypes
<1>6. ExtendTypes'
  BY <1>1, <1>3, <1>5 DEF ExtendTypes
<1>7. \A p \in Names : /\ link[p] # F => BasesOf(p)' = BasesOf(p)
                       /\ link[p] = F => BasesOf(p) = <<>>
  <2>1. \A p \in Names : link[p] \in Names
    BY <1>1 DEF ExtendTypes
  <2> QED
    BY <1>3, <1>5, <2>1 DEF BasesOf, Unknown
<1>8. \A p \in Names : Range(BasesOf(p)) \subseteq Range(BasesOf(p)')
  <2>1. Range(<<>>) = {}
    BY DEF Range
  <2> QED
    BY <1>7, <2>1
<1>9. Reached \subseteq Reached'
  <2>1. 1 \in Names
    BY ExtendAssumption DEF Names
  <2>2. \A S \in SUBSET Names : Closed(S)' => Closed(S)
    BY <1>8 DEF Closed
  <2>3. Extended(1) \subseteq Extended(1)'
    BY <1>8, <2>1, <2>2 DEF Extended
  <2> QED
    BY <2>3 DEF Reached
<1>10. \A i \in 1..(n - 1) : link[frames[i].name] # F /\ frames[i].name \in Names /\ i \in DOMAIN frames
  <2>1. \A i \in 1..(n - 1) : i \in DOMAIN frames /\ i # n
    BY <1>2
  <2> QED
    BY <1>1, <1>2, <2>1 DEF Calls, F
<1>11. Calls'
  <2>1. \A i \in 1..(n - 1) : BasesOf(frames[i].name)' = BasesOf(frames[i].name)
    BY <1>3, <1>7, <1>10
  <2>2. frames' = frames /\ link' = link
    BY <1>3
  <2>3. \A i \in 1..(n - 1) : /\ frames'[i].next <= Len(BasesOf(frames[i].name)')
                              /\ frames'[i + 1].name = BasesOf(frames[i].name)'[frames'[i].next]
    BY <1>1, <2>1, <2>2 DEF Calls, n
  <2> QED
    BY <1>1, <2>2, <2>3 DEF Calls, n
<1>12. BasesLaid'
  <2> SUFFICES ASSUME NEW i \in DOMAIN frames
               PROVE  HasLaid(frames[i], BasesOf(frames[i].name)', cache)
    BY <1>3 DEF BasesLaid
  <2>1. CASE i # n
    <3>1. BasesOf(frames[i].name)' = BasesOf(frames[i].name)
      BY <1>2, <1>3, <1>7, <1>10, <2>1
    <3> QED
      BY <1>1, <3>1 DEF BasesLaid
  <2>2. CASE i = n
    <3>1. BasesOf(frames[n].name) = <<>>
      BY <1>2, <1>7 DEF F
    <3>2. frames[n].next <= Len(<<>>) + 1 /\ frames[n].next \in Nat \ {0}
      BY <1>1, <1>2, <3>1 DEF BasesLaid, HasLaid
    <3>3. frames[n].next = 1
      BY <3>2
    <3>4. \A b : [k \in 1..(1 - 1) |-> cache[b[k]]] = <<>>
      OBVIOUS
    <3>5. frames[n].base = Overlaid([k \in 1..(1 - 1) |-> cache[<<>>[k]]])
      BY <1>1, <1>2, <3>1, <3>3 DEF BasesLaid, HasLaid
    <3>6. PICK p \in Names : p = frames[n].name
      BY <1>2
    <3>7. BasesOf(p)' \in Seq(Names)
      BY <1>6, BasesOfFile DEF ExtendTypes, BasesOf
    <3>8. BasesOf(frames[i].name)' = BasesOf(p)'
      BY <1>3, <2>2, <3>6
    <3> QED
      BY <2>2, <3>3, <3>4, <3>5, <3>7, <3>8 DEF HasLaid
  <2> QED
    BY <2>1, <2>2
<1>13. \A p \in Names : cache[p] # NotCached =>
         BasesOf(p)' = BasesOf(p) /\ content'[link[p]] = content[link[p]]
  <2> SUFFICES ASSUME NEW p \in Names, cache[p] # NotCached
               PROVE  BasesOf(p)' = BasesOf(p) /\ content'[link[p]] = content[link[p]]
    OBVIOUS
  <2>1. content[link[p]].state = "read" /\ link[p] \in Names
    BY <1>1 DEF CacheIsEffective, ExtendTypes
  <2>2. link[p] # F
    BY <1>3, <2>1 DEF Unknown
  <2> QED
    BY <1>5, <1>7, <2>1, <2>2
<1>14. CacheIsEffective'
  <2>1. \A p \in Names : cache[p] # NotCached => Effective(p)' = Effective(p)
    BY <1>3, <1>13 DEF Effective
  <2> QED
    BY <1>1, <1>3, <1>13, <2>1 DEF CacheIsEffective
<1>15. ListedInOrder'
  <2>1. \A i \in DOMAIN listed : listed[i] \in Names
    BY <1>1 DEF ExtendTypes
  <2>2. \A i \in DOMAIN listed : Range(BasesOf(listed[i])') = Range(BasesOf(listed[i]))
    BY <1>1, <1>3, <1>13, <2>1 DEF ListedInOrder
  <2> QED
    BY <1>1, <1>3, <1>9, <2>2 DEF ListedInOrder
<1>16. RefusedIsReal'
  BY <1>3 DEF RefusedIsReal
<1> QED
  BY <1>6, <1>11, <1>12, <1>14, <1>15, <1>16 DEF ExtendInv

\* An error leaves everything as it was.
LEMMA FailKeeps ==
  ASSUME ExtendInv, result = "none", NEW why \in {"unreadable", "cycle", "depth"}, Fail(why),
         RefusedIsReal'
  PROVE  ExtendInv'
<1>1. UNCHANGED <<link, content, frames, cache, listed>> /\ result' = why
  BY DEF Fail
<1>2. \A n : BasesOf(n)' = BasesOf(n) /\ Extended(n)' = Extended(n)
  BY <1>1, SameGraph
<1>3. Reached' = Reached
  BY <1>1, SameGraph
<1>4. ExtendTypes' /\ Calls' /\ BasesLaid'
  BY <1>1, <1>2 DEF ExtendInv, ExtendTypes, Calls, BasesLaid
<1>5. CacheIsEffective'
  <2>1. \A n : Effective(n)' = Effective(n)
    BY <1>1, <1>2 DEF Effective
  <2> QED
    BY <1>1, <2>1 DEF ExtendInv, CacheIsEffective
<1>6. ListedInOrder'
  BY <1>1, <1>2, <1>3 DEF ExtendInv, ListedInOrder
<1> QED
  BY <1>4, <1>5, <1>6 DEF ExtendInv

\* The file of a call cannot be read.
LEMMA ReadFailsStep == ExtendInv /\ ReadFails => ExtendInv'
<1> SUFFICES ASSUME ExtendInv, ReadFails PROVE ExtendInv'
  OBVIOUS
<1>1. Fail("unreadable") /\ result = "none" /\ content[link[Frame.name]] = Unreadable
  BY DEF ReadFails, FileOf
<1>2. Frame.name \in Reached
  BY Innermost, CallsExtend DEF ExtendInv
<1>3. UNCHANGED <<link, content>> /\ result' = "unreadable"
  BY <1>1 DEF Fail
<1>4. Reached' = Reached
  BY <1>3, SameGraph
<1>5. RefusedIsReal'
  <2>1. content'[link'[Frame.name]].state = "unreadable"
    BY <1>1, <1>3 DEF Unreadable
  <2> QED
    BY <1>2, <1>3, <1>4, <2>1 DEF RefusedIsReal
<1> QED
  BY <1>1, <1>5, FailKeeps

\* The next base of the call that runs.
LEMMA NextFacts ==
  ASSUME ExtendInv, HasNext
  PROVE  /\ Frame.next \in DOMAIN BasesOf(Frame.name) /\ NextBase = BasesOf(Frame.name)[Frame.next]
         /\ NextBase \in Names /\ NextBase \in Extended(Frame.name)
         /\ NextBase \in Range(BasesOf(Frame.name))
         /\ Frame.next \in Nat \ {0} /\ Frame.next <= Len(BasesOf(Frame.name))
         /\ result = "none" /\ content[link[Frame.name]].state = "read"
<1>1. /\ Frame \in Frames /\ Frame.name \in Names /\ Frame.next \in Nat \ {0}
      /\ BasesOf(Frame.name) \in Seq(Names)
  BY Innermost DEF ExtendInv
<1>2. BasesOf(Frame.name) = FileOf(Frame).bases
  BY DEF HasNext, FileOf, BasesOf
<1>3. Frame.next \in DOMAIN BasesOf(Frame.name) /\ NextBase = BasesOf(Frame.name)[Frame.next]
      /\ Frame.next <= Len(BasesOf(Frame.name))
  BY <1>1, <1>2 DEF HasNext, NextBase
<1>4. NextBase \in Range(BasesOf(Frame.name)) /\ Range(BasesOf(Frame.name)) \subseteq Names
  BY <1>1, <1>3 DEF Range
<1>5. NextBase \in Extended(Frame.name)
  BY <1>4, ExtendedIsLeast
<1>6. result = "none" /\ content[link[Frame.name]].state = "read"
  BY DEF HasNext, FileOf
<1> QED
  BY <1>1, <1>3, <1>4, <1>5, <1>6

\* A base is a file that one of the calls reads.
LEMMA BaseCycleStep == ExtendInv /\ BaseCycle => ExtendInv'
<1> SUFFICES ASSUME ExtendInv, BaseCycle PROVE ExtendInv'
  OBVIOUS
<1>1. Fail("cycle") /\ HasNext /\ result = "none"
  BY DEF BaseCycle, HasNext
<1>2. PICK i \in DOMAIN frames : link[NextBase] = link[frames[i].name]
  BY DEF BaseCycle, IsCycle, Active
<1>3. /\ NextBase \in Extended(Frame.name) /\ NextBase \in Names
      /\ NextBase \in Range(BasesOf(Frame.name))
      /\ Frame = frames[Len(frames)] /\ Len(frames) \in DOMAIN frames
      /\ DOMAIN frames = 1..Len(frames) /\ Len(frames) \in Nat
      /\ BasesOf(Frame.name) \in Seq(Names)
  BY <1>1, NextFacts, Innermost DEF ExtendInv
<1>4. NextBase \in Extended(frames[i].name)
  <2>1. CASE i = Len(frames)
    BY <1>3, <2>1
  <2>2. CASE i # Len(frames)
    <3>1. i \in 1..(Len(frames) - 1)
      BY <1>3, <2>2
    <3>2. Frame.name \in Extended(frames[i].name)
      BY <1>3, <3>1, CallsExtend DEF ExtendInv
    <3>3. Range(BasesOf(Frame.name)) \subseteq Names
      BY <1>3 DEF Range
    <3> QED
      BY <1>3, <3>2, <3>3, ExtendedIsLeast
  <2> QED
    BY <2>1, <2>2
<1>5. frames[i].name \in Reached
  BY CallsExtend DEF ExtendInv
<1>6. UNCHANGED <<link, content>> /\ result' = "cycle"
  BY <1>1 DEF Fail
<1>7. Reached' = Reached /\ \A n : Extended(n)' = Extended(n)
  BY <1>6, SameGraph
<1>8. RefusedIsReal'
  BY <1>2, <1>4, <1>5, <1>6, <1>7 DEF RefusedIsReal
<1> QED
  BY <1>1, <1>8, FailKeeps

\* The calls and one more base are a chain beyond the limit.
LEMMA BaseTooDeepStep == ExtendInv /\ BaseTooDeep => ExtendInv'
<1> SUFFICES ASSUME ExtendInv, BaseTooDeep PROVE ExtendInv'
  OBVIOUS
<1> DEFINE n == Len(frames)
           chain == [i \in 0..(MaxDepth + 1) |-> IF i < n THEN frames[i + 1].name ELSE NextBase]
<1>1. Fail("depth") /\ HasNext /\ result = "none" /\ n > MaxDepth
  BY DEF BaseTooDeep, HasNext, TooDeep
<1>2. /\ NextBase \in Names /\ NextBase \in Range(BasesOf(Frame.name))
      /\ Frame = frames[n] /\ DOMAIN frames = 1..n /\ n \in Nat
      /\ \A i \in DOMAIN frames : frames[i].name \in Names /\ BasesOf(frames[i].name) \in Seq(Names)
                                  /\ frames[i].next \in Nat \ {0}
  BY <1>1, NextFacts, Innermost DEF ExtendInv
<1>3. n = MaxDepth + 1 /\ MaxDepth \in Nat /\ frames[1].name = 1
  <2>1. n <= MaxDepth + 1 /\ frames[1].name = 1
    BY DEF ExtendInv, Calls
  <2> HIDE DEF n
  <2> QED
    BY <1>1, <1>2, <2>1, ExtendAssumption
<1>4. chain \in [0..(MaxDepth + 1) -> Names]
  BY <1>2, <1>3
<1>5. chain[0] = 1
  BY <1>3
<1>6. ASSUME NEW i \in 0..MaxDepth PROVE chain[i + 1] \in Range(BasesOf(chain[i]))
  <2>1. chain[i] = frames[i + 1].name /\ i + 1 \in DOMAIN frames
    BY <1>2, <1>3
  <2>2. CASE i = MaxDepth
    BY <1>2, <1>3, <2>1, <2>2
  <2>3. CASE i # MaxDepth
    <3>1. i + 1 \in 1..(n - 1) /\ chain[i + 1] = frames[(i + 1) + 1].name
      BY <1>3, <2>3
    <3>2. /\ frames[i + 1].next <= Len(BasesOf(frames[i + 1].name))
          /\ frames[(i + 1) + 1].name = BasesOf(frames[i + 1].name)[frames[i + 1].next]
      BY <3>1 DEF ExtendInv, Calls
    <3>3. frames[i + 1].next \in DOMAIN BasesOf(frames[i + 1].name)
      BY <1>2, <2>1, <3>2
    <3>4. frames[(i + 1) + 1].name \in Range(BasesOf(frames[i + 1].name))
      BY <3>2, <3>3 DEF Range
    <3> QED
      BY <2>1, <3>1, <3>4
  <2> QED
    BY <2>2, <2>3
<1> HIDE DEF n, chain
<1>7. UNCHANGED <<link, content>> /\ result' = "depth"
  BY <1>1 DEF Fail
<1>8. \A p : BasesOf(p)' = BasesOf(p)
  BY <1>7, SameGraph
<1>9. RefusedIsReal'
  BY <1>4, <1>5, <1>6, <1>7, <1>8 DEF RefusedIsReal
<1> QED
  BY <1>1, <1>9, FailKeeps

\* A call takes the document of its next base.
LEMMA LaidCall ==
  ASSUME NEW f \in Frames, NEW b \in Seq(Names), NEW c \in [Names -> Documents \cup {NotCached}],
         HasLaid(f, b, c), f.next <= Len(b), c[b[f.next]] # NotCached
  PROVE  LET g == Laid(f, c[b[f.next]]) IN
         g \in Frames /\ g.name = f.name /\ g.next = f.next + 1 /\ HasLaid(g, b, c)
<1>0. /\ f.base = Overlaid([k \in 1..(f.next - 1) |-> c[b[k]]])
      /\ \A k \in 1..f.next : c[b[k]] # NotCached
  <2>1. \A k \in 1..f.next : k \in 1..(f.next - 1) \/ k = f.next
    BY DEF Frames
  <2> QED
    BY <2>1 DEF HasLaid
<1> DEFINE g == Laid(f, c[b[f.next]])
           h == f.next - 1
<1>1. f.next \in Nat \ {0} /\ f.name \in Names /\ f.base \in Documents /\ h \in Nat
      /\ h + 1 = f.next /\ Len(b) \in Nat
  BY DEF Frames
<1>2. /\ c[b[f.next]] \in Documents
      /\ Merge(f.base, c[b[f.next]]) = Overlaid([k \in 1..f.next |-> c[b[k]]])
  <2>1. \A k \in 1..(h + 1) : c[b[k]] # NotCached
    BY <1>0, <1>1
  <2>2. h < Len(b)
    BY <1>1
  <2> HIDE DEF h
  <2>3. /\ c[b[h + 1]] \in Documents
        /\ Merge(Overlaid([k \in 1..h |-> c[b[k]]]), c[b[h + 1]])
             = Overlaid([k \in 1..(h + 1) |-> c[b[k]]])
    BY <1>1, <2>1, <2>2, OneMoreBase
  <2> QED
    BY <1>0, <1>1, <2>3 DEF h
<1>3. [k \in 1..f.next |-> c[b[k]]] \in Seq(Documents)
  <2>1. PICK j \in Nat : j = f.next
    BY <1>1
  <2>2. ASSUME NEW k \in 1..j PROVE c[b[k]] \in Documents
    <3>1. k \in 1..Len(b) /\ c[b[k]] # NotCached
      BY <1>0, <1>1, <2>1
    <3>2. b[k] \in Names
      BY <3>1
    <3> QED
      BY <3>1, <3>2
  <2>3. [k \in 1..j |-> c[b[k]]] \in Seq(Documents)
    BY <2>2
  <2> QED
    BY <2>1, <2>3
<1>4. Merge(f.base, c[b[f.next]]) \in Documents
  BY <1>2, <1>3, OverlaidType
<1>5. g = [name |-> f.name, next |-> f.next + 1, base |-> Merge(f.base, c[b[f.next]])]
  BY DEF Laid
<1>6. g \in Frames /\ g.name = f.name /\ g.next = f.next + 1
      /\ g.base = Merge(f.base, c[b[f.next]])
  BY <1>1, <1>4, <1>5 DEF Frames
<1>7. g.next - 1 = f.next
  BY <1>1, <1>6
<1> HIDE DEF g
<1>8. /\ g \in Frames /\ g.name = f.name /\ g.next = f.next + 1 /\ g.next <= Len(b) + 1
      /\ \A k \in 1..(g.next - 1) : c[b[k]] # NotCached
      /\ g.base = Overlaid([k \in 1..(g.next - 1) |-> c[b[k]]])
  <2>1. g.next <= Len(b) + 1
    BY <1>1, <1>6
  <2>2. g.base = Overlaid([k \in 1..(g.next - 1) |-> c[b[k]]])
    BY <1>2, <1>6, <1>7, Zenon
  <2> QED
    BY <1>0, <1>6, <1>7, <2>1, <2>2, Zenon
<1> QED
  BY <1>8 DEF g, HasLaid

\* The next base comes from the cache.
LEMMA BaseCachedStep == ExtendInv /\ BaseCached => ExtendInv'
<1> SUFFICES ASSUME ExtendInv, BaseCached PROVE ExtendInv'
  OBVIOUS
<1> DEFINE n == Len(frames)
           b == BasesOf(Frame.name)
           g == Laid(Frame, cache[NextBase])
<1>1. ExtendTypes /\ Calls /\ BasesLaid /\ CacheIsEffective /\ ListedInOrder
  BY DEF ExtendInv
<1>2. /\ n \in Nat \ {0} /\ DOMAIN frames = 1..n /\ Frame = frames[n] /\ n \in DOMAIN frames
      /\ Frame \in Frames /\ b \in Seq(Names)
      /\ \A i \in DOMAIN frames : frames[i] \in Frames
  BY <1>1, Innermost
<1>3. /\ NextBase = b[Frame.next] /\ Frame.next \in Nat \ {0} /\ Frame.next <= Len(b)
      /\ cache[NextBase] # NotCached /\ result = "none"
      /\ UNCHANGED <<link, content, cache, listed, result>>
      /\ frames' = Append(Front(frames), g)
  BY NextFacts DEF BaseCached
<1>4. HasLaid(Frame, b, cache)
  BY <1>1, <1>2 DEF BasesLaid
<1>6. g \in Frames /\ g.name = Frame.name /\ g.next = Frame.next + 1 /\ HasLaid(g, b, cache)
  <2>1. cache \in [Names -> Documents \cup {NotCached}]
    BY <1>1 DEF ExtendTypes
  <2>2. cache[b[Frame.next]] # NotCached /\ cache[NextBase] = cache[b[Frame.next]]
    BY <1>3
  <2> HIDE DEF b
  <2> QED
    BY <1>2, <1>3, <1>4, <2>1, <2>2, LaidCall
<1>7. /\ frames' \in Seq(Frames) /\ Len(frames') = n /\ DOMAIN frames' = 1..n
      /\ frames'[n] = g /\ \A i \in 1..(n - 1) : frames'[i] = frames[i]
  <2> HIDE DEF g
  <2>1. frames \in Seq(Frames) /\ frames # <<>>
    BY <1>1 DEF ExtendTypes
  <2>2. Front(frames) \in Seq(Frames) /\ Len(Front(frames)) = n - 1
        /\ \A i \in 1..(n - 1) : Front(frames)[i] = frames[i]
    BY <1>2, <2>1 DEF Front
  <2>3. ASSUME NEW q \in Seq(Frames), Len(q) = n - 1
        PROVE  /\ Append(q, g) \in Seq(Frames) /\ Len(Append(q, g)) = n
               /\ DOMAIN Append(q, g) = 1..n /\ Append(q, g)[n] = g
               /\ \A i \in 1..(n - 1) : Append(q, g)[i] = q[i]
    <3>1. g \in Frames /\ n \in Nat \ {0} /\ Len(q) + 1 = n
      BY <1>2, <1>6, <2>3
    <3> HIDE DEF n
    <3> QED
      BY <2>3, <3>1
  <2> QED
    BY <1>3, <2>2, <2>3
<1> HIDE DEF g, n
<1>8. \A i \in 1..n : frames'[i].name = frames[i].name
  BY <1>2, <1>6, <1>7
<1>9. ExtendTypes'
  <2>1. frames' # <<>>
    BY <1>2, <1>7
  <2> QED
    BY <1>1, <1>3, <1>7, <2>1 DEF ExtendTypes
<1>10. Reached' = Reached /\ (\A p : BasesOf(p)' = BasesOf(p))
  BY <1>3, SameGraph
<1>11. Calls'
  <2>1. 1 \in 1..n /\ \A i \in 1..(n - 1) : i \in 1..n /\ i + 1 \in 1..n
    BY <1>2
  <2>2. \A i \in 1..(n - 1) : /\ frames'[i].next <= Len(BasesOf(frames[i].name))
                              /\ frames'[i + 1].name = BasesOf(frames[i].name)[frames'[i].next]
    BY <1>1, <1>7, <1>8, <2>1 DEF Calls, n
  <2>3. \A i \in 1..(n - 1) : BasesOf(frames[i].name)' = BasesOf(frames[i].name)
    BY <1>8, <1>10, <2>1
  <2>4. Len(frames') <= MaxDepth + 1 /\ frames'[1].name = 1
    BY <1>1, <1>7, <1>8, <2>1 DEF Calls, n
  <2>5. \A i, k \in 1..n : link'[frames'[i].name] = link'[frames'[k].name] => i = k
    BY <1>1, <1>2, <1>3, <1>8 DEF Calls, n
  <2> QED
    BY <1>7, <2>2, <2>3, <2>4, <2>5 DEF Calls, n
<1>12. BasesLaid'
  <2> SUFFICES ASSUME NEW i \in DOMAIN frames'
               PROVE  HasLaid(frames'[i], BasesOf(frames[i].name)', cache')
    BY DEF BasesLaid
  <2>1. BasesOf(frames[i].name)' = BasesOf(frames[i].name) /\ cache' = cache /\ i \in 1..n
    <3>1. BasesOf(frames[i].name)' = BasesOf(frames'[i].name)
      BY <1>10
    <3> QED
      BY <1>3, <1>7, <1>8, <3>1
  <2>2. CASE i = n
    BY <1>2, <1>6, <1>7, <2>1, <2>2
  <2>3. CASE i # n
    <3>1. frames'[i] = frames[i] /\ HasLaid(frames[i], BasesOf(frames[i].name), cache)
      <4>1. i \in 1..(n - 1)
        BY <1>2, <2>1, <2>3
      <4> QED
        BY <1>1, <1>2, <1>7, <2>1, <4>1 DEF BasesLaid
    <3> QED
      BY <2>1, <3>1
  <2> QED
    BY <2>2, <2>3
<1>13. CacheIsEffective'
  <2>1. \A p : Effective(p)' = Effective(p)
    BY <1>3, <1>10 DEF Effective
  <2> QED
    BY <1>1, <1>2, <1>3, <1>7, <1>8, <2>1 DEF CacheIsEffective
<1>14. ListedInOrder'
  BY <1>1, <1>3, <1>10 DEF ListedInOrder
<1>15. RefusedIsReal'
  BY <1>3 DEF RefusedIsReal
<1> QED
  BY <1>9, <1>11, <1>12, <1>13, <1>14, <1>15 DEF ExtendInv

\* The next base is loaded by a call of its own.
LEMMA BaseCalledStep == ExtendInv /\ BaseCalled => ExtendInv'
<1> SUFFICES ASSUME ExtendInv, BaseCalled PROVE ExtendInv'
  OBVIOUS
<1> DEFINE n == Len(frames)
           g == [name |-> NextBase, next |-> 1, base |-> Absent]
<1>1. ExtendTypes /\ Calls /\ BasesLaid /\ CacheIsEffective /\ ListedInOrder
  BY DEF ExtendInv
<1>2. /\ n \in Nat \ {0} /\ DOMAIN frames = 1..n /\ Frame = frames[n] /\ n \in DOMAIN frames
      /\ \A i \in DOMAIN frames : frames[i] \in Frames
  BY <1>1, Innermost
<1>3. /\ NextBase = BasesOf(Frame.name)[Frame.next] /\ NextBase \in Names
      /\ Frame.next <= Len(BasesOf(Frame.name))
      /\ cache[NextBase] = NotCached /\ result = "none" /\ link[NextBase] \notin Active
      /\ ~(n > MaxDepth)
      /\ UNCHANGED <<link, content, cache, listed, result>>
      /\ frames' = Append(frames, g)
  BY NextFacts DEF BaseCalled, IsCycle, TooDeep
<1>4. g \in Frames /\ g.name = NextBase /\ g.next = 1 /\ g.base = Absent
  BY <1>3 DEF Frames, Documents
<1> HIDE DEF g, n
<1>5. /\ frames' \in Seq(Frames) /\ Len(frames') = n + 1 /\ DOMAIN frames' = 1..(n + 1)
      /\ frames'[n + 1] = g /\ \A i \in 1..n : frames'[i] = frames[i]
  BY <1>1, <1>2, <1>3, <1>4 DEF ExtendTypes, n
<1>6. ExtendTypes'
  <2>1. frames' # <<>>
    BY <1>2, <1>5
  <2> QED
    BY <1>1, <1>3, <1>5, <2>1 DEF ExtendTypes
<1>7. Reached' = Reached /\ (\A p : BasesOf(p)' = BasesOf(p))
  BY <1>3, SameGraph
<1>8. Calls'
  <2>1. \A i \in 1..n : BasesOf(frames[i].name)' = BasesOf(frames[i].name)
    BY <1>5, <1>7
  <2>2. \A i \in 1..n : /\ frames'[i].next <= Len(BasesOf(frames[i].name))
                        /\ frames'[i + 1].name = BasesOf(frames[i].name)[frames'[i].next]
    <3> TAKE i \in 1..n
    <3>1. CASE i = n
      BY <1>2, <1>3, <1>4, <1>5, <3>1
    <3>2. CASE i # n
      <4>1. i \in 1..(n - 1) /\ i + 1 \in 1..n
        BY <1>2, <3>2
      <4> QED
        BY <1>1, <1>5, <4>1 DEF Calls, n
    <3> QED
      BY <3>1, <3>2
  <2>3. Len(frames') <= MaxDepth + 1 /\ frames'[1].name = 1
    BY <1>1, <1>2, <1>3, <1>5, ExtendAssumption DEF Calls, n
  <2>4. \A i \in 1..n : link[frames[i].name] # link[NextBase]
    BY <1>2, <1>3 DEF Active
  <2>5. \A i, k \in 1..(n + 1) : link'[frames'[i].name] = link'[frames'[k].name] => i = k
    <3>1. \A i, k \in 1..n : link[frames[i].name] = link[frames[k].name] => i = k
      BY <1>1, <1>2 DEF Calls, n
    <3>2. \A i \in 1..(n + 1) : i \in 1..n \/ i = n + 1
      BY <1>2
    <3> QED
      BY <1>3, <1>4, <1>5, <2>4, <3>1, <3>2
  <2>6. Len(frames') - 1 = n
    BY <1>2, <1>5
  <2> QED
    BY <1>5, <2>1, <2>2, <2>3, <2>5, <2>6 DEF Calls, n
<1>9. BasesLaid'
  <2> SUFFICES ASSUME NEW i \in DOMAIN frames'
               PROVE  HasLaid(frames'[i], BasesOf(frames[i].name)', cache')
    BY DEF BasesLaid
  <2>0. i \in 1..(n + 1) /\ cache' = cache /\ BasesOf(frames[i].name)' = BasesOf(frames'[i].name)
    BY <1>3, <1>5, <1>7
  <2>1. CASE i = n + 1
    <3>1. PICK a \in Seq(Names) : a = BasesOf(NextBase)
      BY <1>1, <1>3, BasesAreNames DEF ExtendTypes
    <3>2. [k \in 1..(1 - 1) |-> cache[a[k]]] = <<>>
      OBVIOUS
    <3>3. HasLaid(g, a, cache)
      BY <1>4, <3>2, NoDocuments DEF HasLaid
    <3> QED
      BY <1>4, <1>5, <2>0, <2>1, <3>1, <3>3
  <2>2. CASE i # n + 1
    <3>1. i \in 1..n
      BY <1>2, <2>0, <2>2
    <3>2. frames'[i] = frames[i] /\ HasLaid(frames[i], BasesOf(frames[i].name), cache)
      BY <1>1, <1>2, <1>5, <3>1 DEF BasesLaid
    <3> QED
      BY <2>0, <3>2
  <2> QED
    BY <2>1, <2>2
<1>10. CacheIsEffective'
  <2>1. \A p : Effective(p)' = Effective(p)
    BY <1>3, <1>7 DEF Effective
  <2>2. \A i \in 1..(n + 1) : cache[frames'[i].name] = NotCached
    <3>1. \A i \in 1..(n + 1) : i \in 1..n \/ i = n + 1
      BY <1>2
    <3> QED
      BY <1>1, <1>2, <1>3, <1>4, <1>5, <3>1 DEF CacheIsEffective
  <2> QED
    BY <1>1, <1>3, <1>5, <2>1, <2>2 DEF CacheIsEffective
<1>11. ListedInOrder'
  BY <1>1, <1>3, <1>7 DEF ListedInOrder
<1>12. RefusedIsReal'
  BY <1>3 DEF RefusedIsReal
<1> QED
  BY <1>6, <1>8, <1>9, <1>10, <1>11, <1>12 DEF ExtendInv

\* What a call has laid stays when more is cached.
LEMMA MoreCached ==
  ASSUME NEW f \in Frames, NEW b \in Seq(Names), NEW c, NEW d,
         \A q \in Names : c[q] # NotCached => d[q] = c[q], HasLaid(f, b, c)
  PROVE  HasLaid(f, b, d)
<1> DEFINE s(e) == [k \in 1..(f.next - 1) |-> e[b[k]]]
<1>1. ASSUME NEW k \in 1..(f.next - 1) PROVE c[b[k]] # NotCached /\ d[b[k]] = c[b[k]]
  <2>1. k \in 1..Len(b)
    BY DEF Frames, HasLaid
  <2> QED
    BY <2>1 DEF HasLaid
<1>2. s(c) = s(d)
  BY <1>1
<1>3. f.base = Overlaid(s(c)) /\ f.next <= Len(b) + 1
  BY DEF HasLaid
<1>4. f.base = Overlaid(s(d))
  <2> HIDE DEF s
  <2> QED
    BY <1>2, <1>3
<1> QED
  BY <1>1, <1>3, <1>4 DEF HasLaid

\* What a call returns is what the documentation says of its name.
LEMMA ReturnFacts ==
  ASSUME ExtendInv, result = "none", content[link[Frame.name]].state = "read",
         Frame.next > Len(BasesOf(Frame.name))
  PROVE  LET merged == Merge(Frame.base, content[link[Frame.name]].setting) IN
         /\ \A m \in Range(BasesOf(Frame.name)) : m \in Names /\ cache[m] # NotCached
         /\ merged = Effective(Frame.name) /\ merged \in Documents /\ merged # NotCached
         /\ cache[Frame.name] = NotCached /\ Frame.name \in Names /\ Frame.name \in Reached
<1> DEFINE b == BasesOf(Frame.name)
           d == content[link[Frame.name]].setting
<1>1. /\ Frame = frames[Len(frames)] /\ Len(frames) \in DOMAIN frames
      /\ Frame.name \in Names /\ Frame.next \in Nat \ {0} /\ b \in Seq(Names)
  BY Innermost DEF ExtendInv
<1>2. d \in Documents
  BY <1>1, SettingOfFile DEF ExtendInv
<1>3. HasLaid(Frame, b, cache) /\ cache[Frame.name] = NotCached /\ Frame.name \in Reached
  BY <1>1, CallsExtend DEF ExtendInv, BasesLaid, CacheIsEffective
<1>4. Frame.next - 1 = Len(b)
  <2>1. Frame.next <= Len(b) + 1 /\ Frame.next > Len(b) /\ Len(b) \in Nat
    BY <1>1, <1>3 DEF HasLaid
  <2> HIDE DEF b
  <2> QED
    BY <1>1, <2>1
<1>5. /\ \A k \in 1..Len(b) : cache[b[k]] # NotCached
      /\ Frame.base = Overlaid([k \in 1..Len(b) |-> cache[b[k]]])
  <2> HIDE DEF b
  <2> QED
    BY <1>3, <1>4 DEF HasLaid
<1>6. cache \in [Names -> Documents \cup {NotCached}]
  BY DEF ExtendInv, ExtendTypes
<1>7. /\ Merge(Frame.base, d) = Overlaid([i \in DOMAIN b |-> cache[b[i]]] \o <<d>>)
      /\ Merge(Frame.base, d) \in Documents
  <2> HIDE DEF b, d
  <2>1. /\ Merge(Overlaid([k \in 1..Len(b) |-> cache[b[k]]]), d)
              = Overlaid([i \in DOMAIN b |-> cache[b[i]]] \o <<d>>)
        /\ Overlaid([i \in DOMAIN b |-> cache[b[i]]] \o <<d>>) \in Documents
    BY <1>1, <1>2, <1>5, <1>6, FileOverBases
  <2> QED
    BY <1>5, <2>1
<1>8. Merge(Frame.base, d) # NotCached
  <2>1. NotCached.is = "not cached"
    BY DEF NotCached
  <2> QED
    BY <1>7, <2>1, DocumentKinds
<1>9. \A m \in Range(b) : m \in Names /\ cache[m] # NotCached
  <2> HIDE DEF b
  <2>1. DOMAIN b = 1..Len(b) /\ \A k \in 1..Len(b) : b[k] \in Names
    BY <1>1
  <2> QED
    BY <1>5, <2>1 DEF Range
<1> QED
  BY <1>1, <1>3, <1>7, <1>8, <1>9 DEF Effective

\* The calls once the innermost one has returned.
LEMMA ReturnedCalls ==
  ASSUME NEW s \in Seq(Frames), Len(s) > 1, NEW g \in Frames
  PROVE  LET r == Append(Front(Front(s)), g) IN
         /\ r \in Seq(Frames) /\ r # <<>> /\ Len(r) = Len(s) - 1 /\ DOMAIN r = 1..(Len(s) - 1)
         /\ r[Len(s) - 1] = g /\ \A i \in 1..(Len(s) - 2) : r[i] = s[i]
         /\ Last(Front(s)) = s[Len(s) - 1] /\ Front(s) # <<>>
<1> DEFINE n == Len(s)
           q == Front(Front(s))
<1>1. n \in Nat /\ n > 1 /\ n - 1 \in Nat /\ n - 2 \in Nat
  OBVIOUS
<1>2. /\ Front(s) \in Seq(Frames) /\ Len(Front(s)) = n - 1
      /\ \A i \in 1..(n - 1) : Front(s)[i] = s[i]
  BY <1>1 DEF Front
<1>3. Last(Front(s)) = s[n - 1] /\ Front(s) # <<>>
  BY <1>1, <1>2 DEF Last
<1>4. q \in Seq(Frames) /\ Len(q) = n - 2 /\ \A i \in 1..(n - 2) : q[i] = s[i]
  <2>1. ASSUME NEW u \in Seq(Frames), Len(u) = n - 1
        PROVE  Front(u) \in Seq(Frames) /\ Len(Front(u)) = n - 2
               /\ \A i \in 1..(n - 2) : Front(u)[i] = u[i]
    BY <1>1, <2>1 DEF Front
  <2>2. \A i \in 1..(n - 2) : i \in 1..(n - 1)
    BY <1>1
  <2> QED
    BY <1>2, <2>1, <2>2
<1> HIDE DEF n, q
<1>5. /\ Append(q, g) \in Seq(Frames) /\ Append(q, g) # <<>> /\ Len(Append(q, g)) = n - 1
      /\ DOMAIN Append(q, g) = 1..(n - 1)
      /\ Append(q, g)[n - 1] = g /\ \A i \in 1..(n - 2) : Append(q, g)[i] = q[i]
  BY <1>1, <1>4
<1> QED
  BY <1>3, <1>4, <1>5 DEF n, q

\* A call returns: its document is cached, and the call below takes it.
LEMMA ReturnStep == ExtendInv /\ Return => ExtendInv'
<1> SUFFICES ASSUME ExtendInv, Return PROVE ExtendInv'
  OBVIOUS
<1> DEFINE n == Len(frames)
           p == Frame.name
           b == BasesOf(p)
           merged == Merge(Frame.base, content[link[p]].setting)
           below == frames[n - 1]
           g == Laid(below, merged)
<1>1. ExtendTypes /\ Calls /\ BasesLaid /\ CacheIsEffective /\ ListedInOrder
  BY DEF ExtendInv
<1>2. /\ n \in Nat \ {0} /\ DOMAIN frames = 1..n /\ Frame = frames[n] /\ p = frames[n].name
      /\ \A i \in DOMAIN frames : /\ frames[i] \in Frames /\ frames[i].name \in Names
                                  /\ frames[i].next \in Nat \ {0}
                                  /\ BasesOf(frames[i].name) \in Seq(Names)
  BY <1>1, Innermost
<1>3. /\ result = "none" /\ content[link[p]].state = "read" /\ UNCHANGED <<link, content>>
      /\ cache' = [cache EXCEPT ![p] = merged] /\ listed' = Append(listed, p)
      /\ \/ Front(frames) = <<>> /\ result' = "loaded" /\ frames' = frames
         \/ /\ Front(frames) # <<>> /\ result' = result
            /\ frames' = Append(Front(Front(frames)), Laid(Last(Front(frames)), merged))
  BY Zenon DEF Return, FileOf
<1>4. /\ \A m \in Range(b) : m \in Names /\ cache[m] # NotCached
      /\ merged = Effective(p) /\ merged \in Documents /\ merged # NotCached
      /\ cache[p] = NotCached /\ p \in Names /\ p \in Reached
  <2>1. Frame.next > Len(BasesOf(Frame.name))
    BY <1>3 DEF Return, FileOf, BasesOf
  <2> QED
    BY <1>3, <2>1, ReturnFacts
<1> HIDE DEF n, p, b, merged, below, g
<1>5. /\ cache' \in [Names -> Documents \cup {NotCached}]
      /\ cache'[p] = merged /\ \A q \in Names \ {p} : cache'[q] = cache[q]
      /\ \A q \in Names : cache[q] # NotCached => cache'[q] = cache[q] /\ q # p
  BY <1>1, <1>3, <1>4 DEF ExtendTypes
<1>6. /\ listed' \in Seq(Names) /\ Len(listed') = Len(listed) + 1 /\ Len(listed) \in Nat
      /\ DOMAIN listed = 1..Len(listed) /\ DOMAIN listed' = 1..(Len(listed) + 1)
      /\ listed'[Len(listed) + 1] = p /\ \A i \in DOMAIN listed : listed'[i] = listed[i]
      /\ \A i \in DOMAIN listed : listed[i] \in Names
  BY <1>1, <1>3, <1>4 DEF ExtendTypes
<1>7. Reached' = Reached /\ (\A q : BasesOf(q)' = BasesOf(q))
  BY <1>3, SameGraph
<1>8. \A i, j \in 1..n : link[frames[i].name] = link[frames[j].name] => i = j
  BY <1>1, <1>2 DEF Calls
<1>9. \A i \in 1..(n - 1) : i \in 1..n /\ frames[i].name # p
  <2> SUFFICES ASSUME NEW i \in 1..(n - 1) PROVE i \in 1..n /\ frames[i].name # p
    OBVIOUS
  <2>1. i \in 1..n /\ n \in 1..n /\ i # n
    BY <1>2
  <2> QED
    BY <1>2, <1>8, <2>1
<1>10. \A i \in 1..n : HasLaid(frames[i], BasesOf(frames[i].name), cache')
  <2>1. \A i \in 1..n : HasLaid(frames[i], BasesOf(frames[i].name), cache)
    BY <1>1, <1>2 DEF BasesLaid
  <2> QED
    BY <1>2, <1>5, <2>1, MoreCached
<1>11. \A q \in Names : cache'[q] # NotCached => Effective(q)' = Effective(q)
  <2> SUFFICES ASSUME NEW q \in Names, cache'[q] # NotCached PROVE Effective(q)' = Effective(q)
    OBVIOUS
  <2>1. \A m \in Range(BasesOf(q)) : m \in Names /\ cache[m] # NotCached
    <3>1. CASE q = p
      BY <1>4, <3>1 DEF b
    <3>2. CASE q # p
      <4>1. cache[q] # NotCached
        BY <1>5, <3>2
      <4>2. PICK i \in DOMAIN listed : q = listed[i]
        BY <1>1, <4>1 DEF CacheIsEffective, Range
      <4>3. Range(BasesOf(q)) \subseteq {listed[j] : j \in 1..(i - 1)}
        BY <1>1, <4>2 DEF ListedInOrder
      <4>4. \A j \in 1..(i - 1) : listed[j] \in Names /\ cache[listed[j]] # NotCached
        BY <1>1, <1>6 DEF ListedInOrder
      <4> QED
        BY <4>3, <4>4
    <3> QED
      BY <3>1, <3>2
  <2>2. \A i \in DOMAIN BasesOf(q) : cache'[BasesOf(q)[i]] = cache[BasesOf(q)[i]]
    BY <1>5, <2>1 DEF Range
  <2>3. [i \in DOMAIN BasesOf(q) |-> cache'[BasesOf(q)[i]]]
          = [i \in DOMAIN BasesOf(q) |-> cache[BasesOf(q)[i]]]
    BY <2>2
  <2>4. BasesOf(q)' = BasesOf(q) /\ link' = link /\ content' = content
    BY <1>3, <1>7
  <2> QED
    BY <2>3, <2>4 DEF Effective
<1>12. \A q \in Names : cache'[q] # NotCached =>
         /\ q \in Range(listed') /\ content'[link'[q]].state = "read" /\ cache'[q] = Effective(q)'
  <2> SUFFICES ASSUME NEW q \in Names, cache'[q] # NotCached
               PROVE  q \in Range(listed') /\ content[link[q]].state = "read" /\ cache'[q] = Effective(q)
    BY <1>3, <1>11
  <2>1. CASE q = p
    <3>1. Len(listed) + 1 \in DOMAIN listed'
      BY <1>6
    <3>2. p \in Range(listed')
      BY <1>6, <3>1 DEF Range
    <3> QED
      BY <1>3, <1>4, <1>5, <2>1, <3>2
  <2>2. CASE q # p
    <3>1. cache[q] # NotCached /\ cache'[q] = cache[q]
      BY <1>5, <2>2
    <3>2. q \in Range(listed) /\ content[link[q]].state = "read" /\ cache[q] = Effective(q)
      BY <1>1, <3>1 DEF CacheIsEffective
    <3>3. Range(listed) \subseteq Range(listed')
      BY <1>6 DEF Range
    <3> QED
      BY <3>1, <3>2, <3>3
  <2> QED
    BY <2>1, <2>2
<1>13. ListedInOrder'
  <2>1. /\ \A i \in DOMAIN listed' : i \in DOMAIN listed \/ i = Len(listed) + 1
        /\ \A i \in DOMAIN listed : i # Len(listed) + 1 /\ 1..(i - 1) \subseteq DOMAIN listed
        /\ 1..((Len(listed) + 1) - 1) = DOMAIN listed
    BY <1>6
  <2>2. \A i \in DOMAIN listed : cache[listed[i]] # NotCached /\ listed[i] # p
    BY <1>1, <1>4 DEF ListedInOrder
  <2>3. IsInjective(listed')
    BY <1>1, <1>6, <2>1, <2>2 DEF ListedInOrder, IsInjective
  <2>4. ASSUME NEW i \in DOMAIN listed
        PROVE  /\ cache'[listed'[i]] # NotCached /\ listed'[i] \in Reached
               /\ Range(BasesOf(listed'[i])) \subseteq {listed'[j] : j \in 1..(i - 1)}
    <3>1. /\ listed[i] \in Reached /\ cache'[listed[i]] # NotCached
          /\ Range(BasesOf(listed[i])) \subseteq {listed[j] : j \in 1..(i - 1)}
      BY <1>1, <1>5, <1>6, <2>2 DEF ListedInOrder
    <3>2. {listed[j] : j \in 1..(i - 1)} = {listed'[j] : j \in 1..(i - 1)}
      BY <1>6, <2>1
    <3> QED
      BY <1>6, <3>1, <3>2
  <2>5. Range(BasesOf(p)) \subseteq {listed'[j] : j \in DOMAIN listed}
    <3>1. \A m \in Range(BasesOf(p)) : m \in Range(listed)
      BY <1>1, <1>4 DEF CacheIsEffective, b
    <3> QED
      BY <1>6, <3>1 DEF Range
  <2>6. \A i \in DOMAIN listed' :
          /\ cache'[listed'[i]] # NotCached /\ listed'[i] \in Reached
          /\ Range(BasesOf(listed'[i])) \subseteq {listed'[j] : j \in 1..(i - 1)}
    BY <1>4, <1>5, <1>6, <2>1, <2>4, <2>5
  <2>7. \A i \in DOMAIN listed' : BasesOf(listed[i])' = BasesOf(listed'[i])
    BY <1>7
  <2> QED
    BY <1>7, <2>3, <2>6, <2>7 DEF ListedInOrder
<1>14. RefusedIsReal'
  BY <1>3 DEF RefusedIsReal
<1>15. \A i : BasesOf(frames[i].name)' = BasesOf(frames'[i].name)
  BY <1>7
<1>16. CASE Front(frames) = <<>> /\ result' = "loaded" /\ frames' = frames
  <2>1. n = 1
    <3>1. Len(Front(frames)) = n - 1
      BY <1>1, <1>2 DEF Front, n
    <3> QED
      BY <1>2, <1>16, <3>1
  <2>2. ExtendTypes'
    BY <1>1, <1>3, <1>5, <1>6, <1>16 DEF ExtendTypes
  <2>3. Calls'
    BY <1>1, <1>3, <1>15, <1>16 DEF Calls
  <2>4. BasesLaid'
    BY <1>2, <1>10, <1>15, <1>16 DEF BasesLaid
  <2>5. CacheIsEffective'
    <3>1. p = 1
      BY <1>1, <1>2, <2>1 DEF Calls
    <3> QED
      BY <1>4, <1>5, <1>12, <1>16, <3>1 DEF CacheIsEffective
  <2> QED
    BY <1>13, <1>14, <2>2, <2>3, <2>4, <2>5 DEF ExtendInv
<1>17. CASE /\ Front(frames) # <<>> /\ result' = result
            /\ frames' = Append(Front(Front(frames)), Laid(Last(Front(frames)), merged))
  <2>1. n > 1 /\ n - 1 \in 1..n /\ below \in Frames /\ BasesOf(below.name) \in Seq(Names)
        /\ Last(Front(frames)) = below
    <3>1. Len(Front(frames)) = n - 1 /\ Front(frames) \in Seq(Frames)
      BY <1>1, <1>2 DEF Front, n, ExtendTypes
    <3>2. n # 1
      BY <1>17, <3>1
    <3>3. n > 1 /\ n - 1 \in 1..n
      BY <1>2, <3>2
    <3>4. Last(Front(frames)) = frames[n - 1]
      BY <1>2, <3>1, <3>3 DEF Last, Front, n
    <3> QED
      BY <1>2, <3>3, <3>4 DEF below
  <2>2. below.next <= Len(BasesOf(below.name)) /\ p = BasesOf(below.name)[below.next]
    <3>1. n - 1 \in 1..(n - 1) /\ (n - 1) + 1 = n
      BY <1>2, <2>1
    <3> QED
      BY <1>1, <1>2, <3>1 DEF Calls, below, n
  <2>3. g \in Frames /\ g.name = below.name /\ g.next = below.next + 1
        /\ HasLaid(g, BasesOf(below.name), cache')
    <3>1. HasLaid(below, BasesOf(below.name), cache')
      BY <1>10, <2>1 DEF below
    <3>2. cache'[BasesOf(below.name)[below.next]] = merged
      BY <1>5, <2>2
    <3> QED
      BY <1>4, <1>5, <2>1, <2>2, <3>1, <3>2, LaidCall DEF g
  <2>4. /\ frames' \in Seq(Frames) /\ frames' # <<>> /\ Len(frames') = n - 1 /\ DOMAIN frames' = 1..(n - 1)
        /\ frames'[n - 1] = g /\ \A i \in 1..(n - 2) : frames'[i] = frames[i]
    <3>1. frames' = Append(Front(Front(frames)), g)
      BY <1>17, <2>1 DEF g
    <3>2. frames \in Seq(Frames) /\ Len(frames) = n
      BY <1>1 DEF ExtendTypes, n
    <3> QED
      BY <2>1, <2>3, <3>1, <3>2, ReturnedCalls
  <2>5. /\ \A i \in 1..(n - 1) : frames'[i].name = frames[i].name
        /\ \A i \in 1..(n - 1) : i \in 1..(n - 2) \/ i = n - 1
    <3>1. \A i \in 1..(n - 1) : i \in 1..(n - 2) \/ i = n - 1
      BY <1>2
    <3> QED
      BY <2>3, <2>4, <3>1 DEF below
  <2>6. ExtendTypes'
    BY <1>1, <1>3, <1>5, <1>6, <1>17, <2>4 DEF ExtendTypes
  <2>7. Calls'
    <3>1. \A i \in 1..((n - 1) - 1) : i \in 1..(n - 2) /\ i \in 1..(n - 1) /\ i + 1 \in 1..(n - 1)
      BY <1>2
    <3>2. \A i \in 1..((n - 1) - 1) :
            /\ frames'[i].next <= Len(BasesOf(frames'[i].name))
            /\ frames'[i + 1].name = BasesOf(frames'[i].name)[frames'[i].next]
      BY <1>1, <2>4, <2>5, <3>1 DEF Calls, n
    <3>3. frames'[1].name = 1 /\ Len(frames') <= MaxDepth + 1
      <4>1. 1 \in 1..(n - 1) /\ n - 1 <= n
        BY <1>2, <2>1
      <4>2. n <= MaxDepth + 1 /\ frames[1].name = 1
        BY <1>1 DEF Calls, n
      <4> QED
        BY <1>2, <2>4, <2>5, <4>1, <4>2, ExtendAssumption
    <3>4. \A i, j \in 1..(n - 1) : link'[frames'[i].name] = link'[frames'[j].name] => i = j
      BY <1>3, <1>8, <1>9, <2>5
    <3> QED
      BY <1>15, <2>4, <3>2, <3>3, <3>4 DEF Calls
  <2>8. BasesLaid'
    <3> SUFFICES ASSUME NEW i \in 1..(n - 1)
                 PROVE  HasLaid(frames'[i], BasesOf(frames[i].name)', cache')
      BY <2>4 DEF BasesLaid
    <3>1. BasesOf(frames[i].name)' = BasesOf(frames[i].name)
      BY <1>15, <2>5
    <3>2. CASE i = n - 1
      BY <2>3, <2>4, <3>1, <3>2 DEF below
    <3>3. CASE i \in 1..(n - 2)
      BY <1>9, <1>10, <2>4, <3>1, <3>3
    <3> QED
      BY <2>5, <3>2, <3>3
  <2>9. CacheIsEffective'
    <3>1. \A i \in 1..(n - 1) : cache'[frames'[i].name] = NotCached
      <4> SUFFICES ASSUME NEW i \in 1..(n - 1) PROVE cache'[frames[i].name] = NotCached
        BY <2>5
      <4>1. i \in DOMAIN frames /\ frames[i].name \in Names \ {p}
        BY <1>2, <1>9
      <4>2. cache[frames[i].name] = NotCached
        BY <1>1, <1>3, <4>1 DEF CacheIsEffective
      <4> QED
        BY <1>5, <4>1, <4>2
    <3> QED
      BY <1>3, <1>12, <1>17, <2>4, <3>1 DEF CacheIsEffective
  <2> QED
    BY <1>13, <1>14, <2>6, <2>7, <2>8, <2>9 DEF ExtendInv
<1> QED
  BY <1>3, <1>16, <1>17

LEMMA StutterStep == ExtendInv /\ UNCHANGED extendVars => ExtendInv'
<1> SUFFICES ASSUME ExtendInv, UNCHANGED extendVars PROVE ExtendInv'
  OBVIOUS
<1>1. UNCHANGED <<link, content, frames, cache, listed, result>>
  BY DEF extendVars
<1>2. Reached' = Reached /\ \A n : BasesOf(n)' = BasesOf(n) /\ Extended(n)' = Extended(n)
  BY <1>1, SameGraph
<1>3. \A n : Effective(n)' = Effective(n)
  BY <1>1, <1>2 DEF Effective
<1>4. ExtendTypes' /\ Calls' /\ BasesLaid'
  BY <1>1, <1>2 DEF ExtendInv, ExtendTypes, Calls, BasesLaid
<1>5. CacheIsEffective' /\ ListedInOrder'
  BY <1>1, <1>2, <1>3 DEF ExtendInv, CacheIsEffective, ListedInOrder
<1>6. RefusedIsReal'
  BY <1>1, <1>2 DEF ExtendInv, RefusedIsReal
<1> QED
  BY <1>4, <1>5, <1>6 DEF ExtendInv

\* Whatever the files hold and however their names are linked, a load of any
\* number of files with lists of any length is exact: one that succeeds has read
\* every file once, lists the files bases first, and gives each the documented
\* combination of its bases and itself, also where the cache answered; one that
\* is refused has the cycle, the chain or the unreadable file it reports.
THEOREM ConfigurationsAreExact == ExtendSpec => []ExtendsAreExact
<1>1. ASSUME ExtendInv, [ExtendNext]_extendVars PROVE ExtendInv'
  BY <1>1, ReadFileStep, ReadFailsStep, BaseCycleStep, BaseTooDeepStep, BaseCachedStep,
     BaseCalledStep, ReturnStep, StutterStep DEF ExtendNext
<1> QED
  BY InitExtendInv, <1>1, ExactWhenLoaded, PTL DEF ExtendSpec
=============================================================================
