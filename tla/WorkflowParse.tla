--------------------------- MODULE WorkflowParse ---------------------------
(***************************************************************************)
(* The workflow parser of internal/workflow/parse.go, mapping by mapping.  *)
(* Every parse function walks the entries of one mapping in source order,  *)
(* hands each value to the parser of its key and then makes the checks     *)
(* that concern several keys.  A value is abstracted to the kind of YAML   *)
(* node it is: a nested mapping is "map" when its own parse function       *)
(* reports nothing and "badmap" when it does, and likewise for sequences.  *)
(***************************************************************************)
EXTENDS Naturals, FiniteSets, Bags

CONSTANT MaxEntries   \* the longest mapping considered

\* Scalars are named by tag and text: "null" has no text and "tilde" has one,
\* "expr" is a single ${{ }}, "badtag" carries a tag its text does not fit, and
\* the others are texts that some parser tells apart.
TextNodes == {"text", "expr", "max", "single", "docker", "inherit", "schedule", "read", "number", "choice"}
NonEmpty == TextNodes \cup {"tilde", "true", "false", "int", "zero", "float"}
Null == {"null", "tilde"}   \* the scalars tagged !!null
YamlNodes == NonEmpty \cup {"null", "empty", "badtag", "seq", "badseq", "emptyseq", "map", "badmap"}

-----------------------------------------------------------------------------
(* The parsers of values: the nodes each accepts without an error.         *)

parseString(allowEmpty) == NonEmpty \cup (IF allowEmpty THEN {"null", "empty"} ELSE {})
mayParseExpression == {"expr"}
parseLiteralBool == {"true", "false"}
parseBool == parseLiteralBool \cup {"expr"}
parseInt == {"int", "zero", "expr"}
parseMaxParallel == parseInt \ {"zero"}
parseFloat == {"int", "zero", "float", "expr"}
parseTimeoutMinutes == parseFloat \ {"zero"}
parseStringSequence(allowEmpty) == {"seq"} \cup (IF allowEmpty THEN {"emptyseq"} ELSE {})
parseStringOrStringSequence == parseString(FALSE) \cup parseStringSequence(FALSE)
parseCacheMode == {"read"}
ParseMatrixCombinations == {"expr", "seq"}
ParseSteps == {"seq"}

-----------------------------------------------------------------------------
(* The parsers of mappings.  "table" pairs each known key with the nodes   *)
(* that its parser accepts, "other" holds those accepted for any other key *)
(* ({} when there is none), "whole" the nodes that are accepted in place   *)
(* of a mapping.                                                           *)

Mapping(table, required, whole) ==
  [table |-> table, other |-> {}, required |-> required, whole |-> whole,
   allowEmpty |-> FALSE, folded |-> FALSE, insertions |-> FALSE]

Optional(table) == [Mapping(table, {}, Null) EXCEPT !.allowEmpty = TRUE]

\* Keys chosen by the user, compared without regard to case.
Named(parser, whole) == [Mapping({}, {}, whole) EXCEPT !.other = parser, !.folded = TRUE]

Child(m) == m.whole \cup {"map"}
Key(name, parser) == {name} \X parser
All(names, parser) == names \X parser
Known(table) == {e[1] : e \in table}
Str == parseString(FALSE)
AnyStr == parseString(TRUE)

parseScheduleEvent == Mapping(All({"cron", "timezone"}, Str), {"cron"}, {})

parseWorkflowDispatchEventInput ==
  Optional(All({"description", "default"}, AnyStr) \cup Key("required", parseLiteralBool)
           \cup Key("type", {"number", "choice"}) \cup Key("options", parseStringSequence(FALSE)))

OptionalNamed(m) == [Named(Child(m), Null) EXCEPT !.allowEmpty = TRUE]

parseWorkflowDispatchEvent ==
  Optional(Key("inputs", Child(OptionalNamed(parseWorkflowDispatchEventInput))))

parseRepositoryDispatchEvent == Optional(Key("types", parseStringOrStringSequence))

parseWebhookEvent ==
  Optional(All({"types", "branches", "branches-ignore", "tags", "tags-ignore", "paths",
                "paths-ignore", "workflows"}, parseStringOrStringSequence))

parseWorkflowCallEventInput ==
  Mapping(All({"description", "default"}, AnyStr) \cup Key("required", parseLiteralBool)
          \cup Key("type", {"number"}), {"type"}, {})

parseWorkflowCallEventSecret ==
  Optional(Key("description", AnyStr) \cup Key("required", parseLiteralBool))

parseWorkflowCallEventOutput ==
  Mapping(Key("description", AnyStr) \cup Key("value", Str), {"value"}, {})

parseWorkflowCallEvent ==
  Optional(Key("inputs", Child(OptionalNamed(parseWorkflowCallEventInput)))
           \cup Key("secrets", Child(OptionalNamed(parseWorkflowCallEventSecret)))
           \cup Key("outputs", Child(OptionalNamed(parseWorkflowCallEventOutput))))

parseImageVersionEvent ==
  Optional(All({"types", "names", "versions"}, parseStringOrStringSequence))

parseEventWithNoConfig == Str \ {"schedule"}

parseEvents ==
  [Mapping(Key("schedule", {"seq"})
           \cup Key("workflow_dispatch", Child(parseWorkflowDispatchEvent))
           \cup Key("repository_dispatch", Child(parseRepositoryDispatchEvent))
           \cup Key("workflow_call", Child(parseWorkflowCallEvent))
           \cup Key("image_version", Child(parseImageVersionEvent)),
           {}, parseEventWithNoConfig \cup {"seq"})
     EXCEPT !.other = Child(parseWebhookEvent)]

parsePermissions == [Named(Str, Str) EXCEPT !.allowEmpty = TRUE]

parseEnv == [Named(AnyStr, {"expr"}) EXCEPT !.insertions = TRUE]

parseDefaultsRun == Mapping(All({"shell", "working-directory"}, Str), {}, mayParseExpression)

parseDefaults == Mapping(Key("run", Child(parseDefaultsRun)), {"run"}, {})

parseConcurrency ==
  Mapping(Key("group", Str) \cup Key("cancel-in-progress", parseBool) \cup Key("queue", {"max", "single", "expr"}),
          {"group"}, Str)

parseEnvironment ==
  Mapping(All({"name", "url"}, Str) \cup Key("deployment", parseBool), {"name"}, Str)

parseOutputs == Named(AnyStr, {})

ParseMatrixMapping ==
  [Named(ParseMatrixCombinations, {"expr"})
     EXCEPT !.table = All({"include", "exclude"}, ParseMatrixCombinations), !.insertions = TRUE]

parseStrategy ==
  Mapping(Key("matrix", Child(ParseMatrixMapping)) \cup Key("fail-fast", parseBool)
          \cup Key("max-parallel", parseMaxParallel), {}, mayParseExpression)

parseCredentials ==
  Mapping(All({"username", "password"}, Str), {"username", "password"}, mayParseExpression)

parseContainer(services) ==
  Mapping(Key("image", parseString(services)) \cup Key("credentials", Child(parseCredentials))
          \cup Key("env", Child(parseEnv))
          \cup All({"ports", "volumes"}, mayParseExpression \cup parseStringSequence(TRUE))
          \cup Key("options", AnyStr)
          \cup All(IF services THEN {"command", "entrypoint"} ELSE {}, AnyStr),
          {"image"}, Str)

parseServices == Named(Child(parseContainer(TRUE)), mayParseExpression)

parseActionInputMapping(docker) ==
  [Named(AnyStr, {"expr"})
     EXCEPT !.table = IF docker THEN Key("entrypoint", Str) \cup Key("args", AnyStr) ELSE {},
            !.insertions = TRUE]

parseRunsOn ==
  Mapping(Key("labels", parseStringOrStringSequence) \cup Key("group", Str), {},
          parseStringOrStringSequence)

parseSnapshot ==
  Mapping(All({"image-name", "version"}, Str) \cup Key("if", AnyStr), {"image-name"}, Str)

\* The first pass of ParseStep reads these; what the step executes comes later.
StepCommon ==
  Key("id", Str) \cup Key("if", AnyStr) \cup Key("name", AnyStr) \cup Key("env", Child(parseEnv))
  \cup All({"continue-on-error", "background"}, parseBool)
  \cup Key("timeout-minutes", parseTimeoutMinutes)

ParseStep == Mapping(StepCommon, {}, {})

parseJob ==
  Mapping(Key("name", AnyStr) \cup Key("if", AnyStr) \cup Key("needs", parseStringOrStringSequence)
          \cup Key("runs-on", Child(parseRunsOn)) \cup Key("permissions", Child(parsePermissions))
          \cup Key("cache-mode", parseCacheMode) \cup Key("environment", Child(parseEnvironment))
          \cup Key("concurrency", Child(parseConcurrency)) \cup Key("outputs", Child(parseOutputs))
          \cup Key("env", Child(parseEnv)) \cup Key("defaults", Child(parseDefaults))
          \cup Key("steps", ParseSteps) \cup Key("timeout-minutes", parseTimeoutMinutes)
          \cup Key("cancel-timeout-minutes", parseFloat) \cup Key("strategy", Child(parseStrategy))
          \cup Key("continue-on-error", parseBool) \cup Key("container", Child(parseContainer(FALSE)))
          \cup Key("services", Child(parseServices)) \cup Key("uses", Str) \cup Key("with", {"map"})
          \cup Key("secrets", {"inherit", "map"}) \cup Key("snapshot", Child(parseSnapshot)),
          {}, {})

parseJobs == Named({"map"}, {})

parse ==
  Mapping(All({"name", "description"}, AnyStr) \cup Key("run-name", Str)
          \cup Key("on", Child(parseEvents)) \cup Key("permissions", Child(parsePermissions))
          \cup Key("cache-mode", parseCacheMode) \cup Key("env", Child(parseEnv))
          \cup Key("defaults", Child(parseDefaults)) \cup Key("concurrency", Child(parseConcurrency))
          \cup Key("jobs", Child(parseJobs)),
          {"on", "jobs"}, {})

\* Every mapping parser, by the name of the section it is for.
SectionNames ==
  {"schedule", "dispatch-input", "workflow_dispatch", "repository_dispatch",
   "webhook", "call-input", "call-secret", "call-output", "workflow_call",
   "image_version", "on", "permissions", "env", "run", "defaults", "concurrency",
   "environment", "outputs", "matrix", "strategy", "credentials", "container",
   "service", "services", "with", "docker-with", "runs-on", "snapshot", "step", "job",
   "jobs", "workflow"}

Sections == [s \in SectionNames |->
  CASE s = "schedule" -> parseScheduleEvent
    [] s = "dispatch-input" -> parseWorkflowDispatchEventInput
    [] s = "workflow_dispatch" -> parseWorkflowDispatchEvent
    [] s = "repository_dispatch" -> parseRepositoryDispatchEvent
    [] s = "webhook" -> parseWebhookEvent
    [] s = "call-input" -> parseWorkflowCallEventInput
    [] s = "call-secret" -> parseWorkflowCallEventSecret
    [] s = "call-output" -> parseWorkflowCallEventOutput
    [] s = "workflow_call" -> parseWorkflowCallEvent
    [] s = "image_version" -> parseImageVersionEvent
    [] s = "on" -> parseEvents
    [] s = "permissions" -> parsePermissions
    [] s = "env" -> parseEnv
    [] s = "run" -> parseDefaultsRun
    [] s = "defaults" -> parseDefaults
    [] s = "concurrency" -> parseConcurrency
    [] s = "environment" -> parseEnvironment
    [] s = "outputs" -> parseOutputs
    [] s = "matrix" -> ParseMatrixMapping
    [] s = "strategy" -> parseStrategy
    [] s = "credentials" -> parseCredentials
    [] s = "container" -> parseContainer(FALSE)
    [] s = "service" -> parseContainer(TRUE)
    [] s = "services" -> parseServices
    [] s = "with" -> parseActionInputMapping(FALSE)
    [] s = "docker-with" -> parseActionInputMapping(TRUE)
    [] s = "runs-on" -> parseRunsOn
    [] s = "snapshot" -> parseSnapshot
    [] s = "step" -> ParseStep
    [] s = "job" -> parseJob
    [] s = "jobs" -> parseJobs
    [] s = "workflow" -> parse]

-----------------------------------------------------------------------------
VARIABLES section,  \* the mapping that is parsed
          node,     \* its entries so far, a bag of <<key, value>>
          keys,     \* the keys that parseMappingEntries has recorded
          entries,  \* the entries it has yielded
          empty,    \* its flag: nothing counted as content yet
          kind,     \* of a step: what it executes, by the last key that says so
          errors,   \* the errors reported
          over      \* the parse function has returned

parseVars == <<section, node, keys, entries, empty, kind, errors, over>>

Sec == Sections[section]

ParseInit == /\ section \in DOMAIN Sections
             /\ node = EmptyBag /\ keys = {} /\ entries = {}
             /\ empty = TRUE /\ kind = "unknown" /\ errors = {} /\ over = FALSE

ParseTypeOK == /\ section \in DOMAIN Sections /\ IsABag(node)
               /\ {empty, over} \subseteq BOOLEAN
               /\ kind \in {"unknown", "action", "docker", "run", "wait", "cancel", "parallel"}

ErrorIf(wrong, what) == IF wrong THEN {what} ELSE {}

\* What the yielded entry is parsed by.
KeyError(k, v) ==
  IF k \in Known(Sec.table) THEN ErrorIf(<<k, v>> \notin Sec.table, "value")
  ELSE IF Sec.other # {} THEN ErrorIf(v \notin Sec.other, "value")
  ELSE ErrorIf(section # "step", "unexpected-key")

StepKeys == {"uses", "run", "wait", "wait-all", "cancel", "parallel"}

\* The kind of a step after its next key.
NextKind(k, v) ==
  IF section # "step" \/ k \notin StepKeys THEN kind
  ELSE CASE k = "uses" -> IF v = "docker" THEN "docker" ELSE "action"
         [] k \in {"wait", "wait-all"} -> "wait"
         [] OTHER -> k

\* "X" is another spelling of the key "x".
KeyID(k) == IF Sec.folded /\ k = "X" THEN "x" ELSE k

\* parseMappingEntries: one entry.  An insertion whose value is a mapping
\* brings a key of its own, here "x".
ReadEntry(k, v) ==
  LET id == KeyID(k)
      insertion == Sec.insertions /\ k = "insert"
      brought == IF v = "map" THEN {"x"} ELSE {}
  IN  /\ node' = node (+) SetToBag({<<k, v>>})
      /\ \/ /\ k = "[]"
            /\ errors' = errors \cup {"key-is-no-string"}
            /\ empty' = FALSE
            /\ UNCHANGED <<keys, entries, kind>>
         \/ /\ k = "<<"
            /\ errors' = errors \cup {"merge-key"}
            /\ UNCHANGED <<keys, entries, kind, empty>>
         \/ /\ insertion
            /\ errors' = errors \cup ErrorIf(v \notin {"expr", "map"}, "value")
                                \cup ErrorIf(brought \cap keys # {}, "duplicate")
            /\ keys' = keys \cup brought
            /\ empty' = FALSE
            /\ UNCHANGED <<entries, kind>>
         \/ /\ k \notin {"[]", "<<"} /\ ~insertion /\ id \in keys
            /\ errors' = errors \cup {"duplicate"}
            /\ UNCHANGED <<keys, entries, kind, empty>>
         \/ /\ k \notin {"[]", "<<"} /\ ~insertion /\ id \notin keys
            /\ errors' = errors \cup KeyError(id, v)
            /\ keys' = keys \cup {id}
            /\ entries' = entries \cup {<<id, v>>}
            /\ kind' = NextKind(id, v)
            /\ empty' = FALSE
      /\ UNCHANGED <<section, over>>

-----------------------------------------------------------------------------
(* The checks that concern several keys, at the end of each parser.        *)

IDs == {e[1] : e \in entries}
Has(k, v) == <<k, v>> \in entries

\* Of a step that executes the given kind: its own keys and their parsers, and
\* which of the common keys go with them.
StepExec(own, common) == [own |-> own, common |-> common]

parseStepExecAction(docker) ==
  StepExec(Key("uses", Str) \cup Key("with", Child(parseActionInputMapping(docker))), Known(StepCommon))

parseStepExecRun ==
  StepExec(All({"run", "shell", "working-directory"}, Str), Known(StepCommon))

parseStepExecWait ==
  StepExec(Key("wait", parseStringOrStringSequence) \cup Key("wait-all", Null \cup {"true"}),
           {"id", "name", "continue-on-error"})

parseStepExecCancel == StepExec(Key("cancel", Str), {"id", "name", "continue-on-error"})

parseStepExecParallel == StepExec(Key("parallel", ParseSteps), {})

StepKinds == [t \in {"action", "docker", "run", "wait", "cancel", "parallel"} |->
  CASE t = "action" -> parseStepExecAction(FALSE)
    [] t = "docker" -> parseStepExecAction(TRUE)
    [] t = "run" -> parseStepExecRun
    [] t = "wait" -> parseStepExecWait
    [] t = "cancel" -> parseStepExecCancel
    [] t = "parallel" -> parseStepExecParallel]

\* Mutant of StepErrors: the keys of the other kinds of steps are not reported.
StepErrorsOfOwnKeys ==
  IF kind = "unknown" THEN {"missing"}
  ELSE ErrorIf(\E e \in entries : e[1] \in Known(StepKinds[kind].own)
                                  /\ e \notin StepKinds[kind].own, "value")

\* The second pass over the entries of a step, by what it executes.
StepErrors ==
  IF kind = "unknown" THEN {"missing"}
  ELSE LET exec == StepKinds[kind] IN
       (UNION {IF e[1] \in Known(exec.own) THEN ErrorIf(e \notin exec.own, "value")
               ELSE ErrorIf(e[1] \notin exec.common, "unexpected-key") : e \in entries})
       \cup ErrorIf({"wait", "wait-all"} \subseteq IDs, "conflict")

JobKeyRequiresSteps ==
  {"runs-on", "environment", "outputs", "env", "defaults", "steps", "timeout-minutes",
   "cancel-timeout-minutes", "continue-on-error", "container", "services", "snapshot"}

CallOnlyKeys == {"uses", "with", "secrets"}

\* A job either calls a workflow or has steps.  A value of the wrong kind leaves
\* Steps nil, which is reported as well.
JobErrors ==
  IF "uses" \in IDs THEN ErrorIf(JobKeyRequiresSteps \cap IDs # {}, "not-for-a-call")
  ELSE ErrorIf(~\E e \in entries : e[1] = "steps" /\ e[2] \in {"seq", "badseq"}, "missing")
       \cup ErrorIf("runs-on" \notin IDs, "missing")
       \cup ErrorIf(CallOnlyKeys \cap IDs # {}, "only-for-a-call")

ConcurrencyErrors ==
  ErrorIf(Has("queue", "max") /\ Has("cancel-in-progress", "true"), "conflict")

EndMapping ==
  /\ ~over
  /\ over' = TRUE
  /\ errors' = errors \cup ErrorIf(empty /\ ~Sec.allowEmpty, "empty")
                      \cup ErrorIf(~(Sec.required \subseteq IDs), "missing")
                      \cup (CASE section = "step" -> StepErrors
                              [] section = "job" -> JobErrors
                              [] section = "concurrency" -> ConcurrencyErrors
                              [] OTHER -> {})
  /\ UNCHANGED <<section, node, keys, entries, empty, kind>>

\* The keys and values of the mappings considered: every known key, unknown and
\* malformed ones, and for each key a value it accepts, one it does not, and
\* those that a check of several keys tells apart.
OfferedKeys ==
  Known(Sec.table) \cup {"x", "<<", "[]"}
  \cup (IF Sec.folded THEN {"X"} ELSE {}) \cup (IF Sec.insertions THEN {"insert"} ELSE {})
  \cup (IF section = "step" THEN UNION {Known(StepKinds[k].own) : k \in DOMAIN StepKinds} ELSE {})

Accepted(table, k) == {v \in YamlNodes : <<k, v>> \in table}
Sample(accepted) == {CHOOSE v \in accepted : TRUE, CHOOSE v \in YamlNodes \ accepted : TRUE}

OfferedValues(k) ==
  IF k \in {"<<", "[]"} THEN {"text"}
  ELSE IF k = "insert" THEN {"expr", "map", "text"}
  ELSE IF section = "concurrency" /\ k = "queue" THEN {"max", "single", "expr", "text"}
  ELSE IF section = "concurrency" /\ k = "cancel-in-progress" THEN {"true", "false", "expr", "text"}
  ELSE IF section = "step" /\ k = "uses" THEN {"docker", "text", "map"}
  ELSE IF section = "step" /\ k \notin Known(Sec.table) THEN
    (UNION {Sample(Accepted(StepKinds[t].own, k)) : t \in {u \in DOMAIN StepKinds : k \in Known(StepKinds[u].own)}})
    \cup {"text"}
  ELSE IF section = "job" /\ k = "steps" THEN {"seq", "badseq", "text"}
  ELSE IF k \in Known(Sec.table) THEN Sample(Accepted(Sec.table, k))
  ELSE IF Sec.other # {} THEN Sample(Sec.other)
  ELSE {"text"}

NextEntry == /\ ~over
             /\ BagCardinality(node) < MaxEntries
             /\ \E k \in OfferedKeys : \E v \in OfferedValues(k) : ReadEntry(k, v)

ParseNext == NextEntry \/ EndMapping

ParseSpec == ParseInit /\ [][ParseNext]_parseVars

-----------------------------------------------------------------------------
(* The reference: which mappings are well formed, with no order of keys.   *)

NodeIDs == {KeyID(e[1]) : e \in BagToSet(node)}

NoDuplicates ==
  /\ \A e, f \in BagToSet(node) :
       KeyID(e[1]) = KeyID(f[1]) /\ e[1] # "insert" => e = f /\ node[e] = 1
  /\ BagIn(<<"insert", "map">>, node) => node[<<"insert", "map">>] = 1 /\ "x" \notin NodeIDs

\* A step does one thing, and has only keys that go with it.
StepWellFormed ==
  /\ Cardinality(NodeIDs \cap StepKeys) = 1
  /\ \E t \in DOMAIN StepKinds :
       /\ NodeIDs \cap StepKeys \subseteq Known(StepKinds[t].own)
       /\ t = "docker" <=> <<"uses", "docker">> \in BagToSet(node)
       /\ NodeIDs \subseteq Known(StepKinds[t].own) \cup StepKinds[t].common
       /\ \A e \in BagToSet(node) :
            e[1] \in Known(StepKinds[t].own) => e \in StepKinds[t].own

JobWellFormed ==
  IF "uses" \in NodeIDs THEN NodeIDs \cap JobKeyRequiresSteps = {}
  ELSE {"steps", "runs-on"} \subseteq NodeIDs /\ NodeIDs \cap {"with", "secrets"} = {}

EntryWellFormed(e) ==
  \/ e[1] = "insert" /\ Sec.insertions /\ e[2] \in {"expr", "map"}
  \/ e \in Sec.table
  \/ KeyID(e[1]) \notin Known(Sec.table) /\ e[1] # "insert" /\ e[2] \in Sec.other
  \/ section = "step" /\ e[1] \notin Known(Sec.table)

EntriesWellFormed ==
  /\ NodeIDs \cap {"<<", "[]"} = {}
  /\ NoDuplicates
  /\ \A e \in BagToSet(node) : EntryWellFormed(e)

WellFormed ==
  /\ EntriesWellFormed
  /\ node # EmptyBag \/ Sec.allowEmpty
  /\ Sec.required \subseteq NodeIDs
  /\ section = "step" => StepWellFormed
  /\ section = "job" => JobWellFormed
  /\ section = "concurrency"
       => ~({<<"queue", "max">>, <<"cancel-in-progress", "true">>} \subseteq BagToSet(node))

\* A mapping is reported exactly when it is not well formed, in whatever order
\* its keys come: although a step takes its kind from the last key that gives
\* it one, a job looks at its keys while it cannot know yet whether it is a
\* call, and of a repeated key only the first entry is read.
VerdictIsExact == over => (errors = {} <=> WellFormed)
=============================================================================
