# TLA+ models of actionlint

actionlint checks GitHub Actions workflows.  This project models the parts of it
where goroutines, processes, files and failures meet, and those of its sequential
algorithms whose results are easy to get subtly wrong.  Paths are relative to
`src/internal/` unless they say otherwise.

Contents: [inventory](#inventory), [modules](#modules), [runs](#runs),
[findings](#findings), [proofs](#proofs), [what is not shown](#what-is-not-shown),
[plan](#plan).

## Inventory

| Component | State | Operations | Hard behaviour |
|---|---|---|---|
| Language server session, `langserver/server.go` | open documents, findings offered as code actions, publications, generation, two channels of capacity 1 | messages of the client, results of analyses, shutdown, exit | a reader, a loop and a worker per edit; late results; cancellation; write errors |
| Script engine session, `analyzerhost/script_engines.go` | loaded, failed and loading module paths | `Load`, `Close` | single flight; the lock is given up while loading and closing; Close overtakes loads |
| Core engine, `plugins/core/engine.go` | pool of instances, tokens, closed flag, runtime | load, `call`, `Close` | guests that never return, time limits, instances created outside the lock |
| Plugin project, `localapp/plugin_project.go` | manifest and lock file, guard directories | install, update, remove (`cli/plugin.go`) | several processes, crashes, two files that must agree, rollback |
| Lock and manifest files, `pluginregistry/lock.go`, `localapp/plugin_manifest_file.go` | the bytes read at opening | compare, stage, rename, restore | an editor that takes no guard; failing clean-up |
| Job dependencies, `semantics/jobneeds/check.go` | graph, visit states, stack | `Check` | cut branches, where a cycle begins |
| Fixes, `fix/plan.go`, `fix/apply.go` | edits by path; temporary files | `Build`, `Apply` | overlaps after an unstable sort; an editor between verification and rename; a failure between renames |
| Analysis run, `application/`, `workflow/composition/analysis.go` | documents, partial results, engines | `Check`, one check per document | documents in parallel, first error, order of shutdown |
| Process pool and tasks, `analyzerhost/` | semaphore, wait group, outcomes | `Run`, `Wait`, `RunTasks` | bounded concurrency, tasks skipped when the context ends |
| Action entry point, `githubaction/lint.go` | late result | `runLint` | time limit and grace period against a finished or a stuck analysis |
| Editor session, `localapp/editor_session.go` | engines kept over analyses, by source and digest | load, close | a gate of one, artifacts rebuilt meanwhile, superseded analyses |
| Resolution, `resolution/` | pending and cached requests, repository identities | `Resolve` | single flight under the first caller's context; an identity established meanwhile |
| Ruff version probe, `tools/ruff/version_probe.go` | pending probe, answer | `run` | retry after a cancelled probe |
| Index cache, `workspace/index_cache.go` | one closure per root | `Load` | the context of one caller, the result for all |
| Local actions and reusable workflows, `action/local/cache.go`, `workflow/calls/reusable_workflow.go` | metadata or error by reference | lookups from all documents; the callee's own check | several stores per lookup, two kinds of writers |
| Release status, `pluginregistry/status.go` | status file, one record per revoked digest | refresh, install, check | several processes, crashes, older snapshots |
| File snapshots, `fsread/snapshot.go` | memoised names and contents, budgets | open, stat, `Content`, close | a tree that another process changes |
| Component plugins, `plugins/component/` | gate, factories, seven resources per call | load, call, teardown, close | any acquisition or close failing or panicking |
| Workflow parser, `workflow/parse.go` | the mapping being read | one function per section | a step's kind and a job's form depend on all keys, in any order |
| Expressions, `expression/`, `workflow/execution/condition.go` | tokens, tree, payload types | parse, constant and status analysis, types under guards | precedence, depth, three-valued results, guards that narrow events |
| Executable bit, `workflow/execution/` | known modes, checkouts, working directory | one visit per step, fork and join of composites | what may have failed, been skipped or run concurrently |
| Policy on findings, `diagnosticpolicy/`, `suppression/` | directives, ignores, levels | `Apply` | findings of one file displayed in another |
| Configuration, `config/tree/` | graph of extended files, cache by path | `Load`, `Merge` | cycles through links, shared bases, depth |
| Settings, function signatures, other rules, tools, rendering, command line | — | — | pure or character-level; not modelled |

Interactions.  The command line asks `application` for a check; it makes the
caches, a process pool and a session of script engines, analyses documents in
parallel and waits for the processes before it closes the engines.  A script
engine is a core engine; many documents call one at the same time.  The language
server runs the same analysis through an editor session, with the open documents
as an overlay, once per edit.  `--fix` builds a plan from the findings, applies
it and checks again.  The plugin commands maintain the two files from which a
check learns which plugins to load.

What makes each modelled component correct:

- language server: what the client sees belongs to the documents as they are,
  can be cleared later, and comes eventually; exit leaves no goroutine behind;
- script engines: one load per path, a bounded number of engines, none leaked,
  closed twice or handed out closed; every load returns;
- core engine: bounded, exclusive and clean instances; no leaked instance or slot;
  every call and every Close returns;
- plugin project: manifest and lock agree, a failed save leaves no trace, writers
  do not overwrite each other, crashes freeze the files and errors free the guards;
- job dependencies: a cycle is reported if and only if there is one;
- fixes: the plan is the content with all edits, applying it loses no edit of the
  user outside the rename's own window, and its clean-up is complete;
- analysis: processes are bounded and joined before what they use is closed, a clean
  answer is a complete one, the action passes on no run that the deadline cut short, and it ends;
- lookups: one outcome is kept and everybody gets it, nobody waits for ever, the
  documents of an analysis agree on what they looked up;
- release status: a release once seen revoked stays refused on that machine;
- editor engines, file snapshots, component calls: engines are compiled once, current
  and closed at the end; a guest sees one version of each file; a call leaves nothing
  behind for the next;
- parser, expressions, executable bit, policy: the verdict is the one of an independent
  definition, whatever the order of the keys, tokens, steps or filters.

## Modules

Every module starts with a comment on its abstraction; every variable is named
after the code's where possible.  An action is what the code does between two
points where another actor can intervene: a channel operation, a lock operation,
a file operation that others can see, or a call into something external.  Operators
marked *Fault* are plausible mistakes; no action uses them, and each of them breaks
the property that is meant to catch it (`PROJECT.json`, "mutants").

**LangServer** (`Serve`).  `reader`, `held`, `input` are the reader goroutine and its
channel; `analyzing`, `sending`, `results`, `live` the workers, the results channel
and the contexts that are not cancelled; `documents`, `latest`, `published`,
`generation`, `initialized`, `shutdown` the loop's locals; `shown` what the client
shows.  One action per message kind, one per select case, and one per way a write can
fail.  A worker is removed when its select is done.  A text is a model value, a
diagnostic list is the snapshot it was computed from and whether it is empty;
which paths an analysis reports on is free, since it reads the disk.
`filePath` and `FileURI` are the constants `PathOf` and `FileURI`, so that a path may
have several spellings.  `MCLangServer` gives them values.

**ScriptEngines** (`Load`, `wait`, `finish`, `Close`).  A step is a critical section.
The loader is external: it returns an engine, an error, or both.  `starts`, `closes`
and `backend` count what the properties are about.

**CoreEngine** (`LoadArtifact`, `load`, `initialize`, `call`, `acquire`, `invoke`,
`release`, `Close`).  The runtime (wazero) is external and modelled from its use:
instances are registered when created, closing the runtime closes them all, a done
context closes the instance that runs under it (`WithCloseOnContextDone`), and a call
into a closed instance fails.  That a context expires at the very moment a guest
returns, so that a successful call leaves a closed instance, is assumed away.

**PluginProject** (`OpenPluginProject`, `Dependencies`, `Resolve`, `Save`,
`LockFile.replace` and `Restore`, `PluginManifest.Save`, the three commands).  Writers
are processes with a program counter and their own memory.  Every file operation may
fail; a writer may crash anywhere inside `Save`; an editor may rewrite a file at any time.
A dependency is a name and a pin is a revision number.  Several checks of one file
without another file operation in between are one step.  Dependencies with a direct
source, which have no pin, are left out.
**PluginPair** is the abstract specification: the lock and the manifest are one pair, which a
command replaces in one step if what it replaces is still what it read.  `SavesAreAtomic` says
that `PluginProject` implements it; `Pair` is the mapping: the files as the command that holds
the project found them until it has replaced the manifest, and the files themselves from then on.

**JobNeeds** (`Check`).  Jobs and needs are revealed as they are read, so one run
covers all workflows within the bounds.  The recursion of `visit` is the stack the
code keeps anyway plus a loop index for each ID.  `finished` and `visits` are history
variables for the proof and for the order in `NoCycleMissed`.

**FixPlan** (`Build`).  Contents are short sequences of distinct bytes; edits replace a
range by at most one byte.  `SortFunc` is not stable, so `Sorted` allows every order it
may leave; `Compact` and `Apply` walk over the prefixes of the sorted edits as the loops do.
The reference definitions say what a plan should be without sorting: `Conflict` compares all
pairs of edits, and `Fixed` says of each byte whether it is kept, and of each place what is
inserted there.  `PlanIsExact` joins the two halves, `RefusalIsExact` and `ChangesAreExact`.

**FixApply** (`Apply`).  A content is the expected one, the fixed one or another; a
missing or irregular target counts as another.  `validate` (a stat and a read) is one
step.  `late` and `racing` record when the editor wrote, so that the properties can
name the windows that no such program can close.

**Analysis** (`Check`, `run`, the check of a document, `RunTasks`, `ProcessPool`,
`runLint`).  It composes the entry point, the analysis, its documents and the pool.  A
document runs its script tools, joins them, then runs its analyzers; a tool is a
process that needs a slot, an analyzer is a task in the same program that need not
honour cancellation.  `kept` is the set of tasks whose findings reach the caller.
A tool is one process of the model, from its slot to its findings: shellcheck starts one per
script, with a callback each, and waits for all of them
(`tools/shellcheck/analysis_shellcheck.go:172`).  A rule may also start processes during the
visit, on the document's `Scope`, which `Finish` joins; only a test registers such a rule
(`attachScope`, `analysis_document.go:206`), so the program itself has nothing to join there and
the model has no such process.
`RunTasks` has a limit of eight goroutines of its own, which is left out: without it
more tasks overlap.

**SharedLookup** is the abstract specification of a lookup that many callers share: at
most one outcome is kept and never changes, whoever is answered with a lasting outcome
gets the kept one, other outcomes are passed on and forgotten, and only a caller whose
context is over is told that it gave up.  Three modules implement it by refinement
(`INSTANCE SharedLookup WITH ...`):
**VersionProbe** keeps every outcome but an interruption and lets a waiter take over;
**IndexCache** keeps every outcome, interruptions included;
**Resolution** keeps successes only, once per request, and adds the repository identity
that `Analyzer.resolve` reads before and validates after the lookup.

**LocalActions** (`Cache.FindMetadata`, `findRepositoryMetadata`).  The cache, the mark of
missing actions and the sources are stored one after the other; each store and each read
is a step.  **WorkflowCalls** (`FindMetadata`, `WriteWorkflowCallEventFromWorkflow`): the
callers' lookups against the check of the called workflow.

**ReleaseStatus** (`status.go`, `Client.Resolve`).  Commands are processes that may fail or
be killed at each file operation; the registry answers with any snapshot.

**EditorEngines** (`editorEngines`).  `engines` is the history of all compiled engines, so that
the property can say that none was compiled twice and all are closed.

**SnapshotFiles** (`SnapshotFS`).  One step per component of a walk through links and one per
file operation; the other process acts in between.

**ComponentCalls** (`Load`, `callScope`, `finish`, `Plugin.Close`).  The resources of a call are a
sequence in the order of acquisition; `plan` is the set of those still to be closed, from which
the teardown takes the first in its own order, one by one.

**WorkflowParse** (`parse.go`).  Every section of a workflow is a record: the kinds of values
each key accepts, what other keys are, whether it may be empty and which keys it
requires.  The model reads the entries of a mapping one by one in any order, as
`parseMappingEntries` and the section's loop do, with the step and the job's decisions at
the end.  A value is one of the kinds of YAML nodes the parser tells apart.
`WellFormed` says of the bag of entries, without order, what a good mapping is.

**ExprParse** (`expr_parser.go`).  The recursive descent over every sequence of tokens, against
a grammar stated by splitting at operators.  A comparison chain groups to the right in the
code; the grammar states that too.  **Conditions** (`condition.go`, `condition_constant.go`):
expressions are built in postfix order on a stack of operands; each stands for what the code
computes for it and for its value in every environment of the runner, where a context holds any
of `Contents`.

**ExprTypes** (`expr_type.go`, `event_variants.go`, `event.go`, the parts of `expr_sema.go` that
accesses, filters, logical operators and `case()` need, `FromTriggers`).  Expressions over
`github.event` are built in postfix order for every set of configured events: two activities of one
event with different payloads, an event without activities, and the open event of a caller.
`Check` gives the type and the accesses that are reported; `Eval` says what the runner computes
when each event occurs, with free values in the payload.  `NarrowingIsExact` compares the two: a
reported property is missing in every run that evaluates the access, and a property that no
event has is reported whenever some run does.  The shapes are small stand-ins for the catalogue.
A filter applied to a filtered list is left out of the comparison: the checker keeps the type
of the elements where the runner goes one level down.

**ExecutableBit** (`executable.go`, `executable_state.go`, `checkout.go`).  The rule's
state follows the steps of a job and of a composite action; `live`, `failed`, `mode`, `tampered`
and `shared` are the runner's, with every outcome it may have.

**ConfigExtends** (`config/tree/load.go`, `Merge`).  The recursion of `load` is a stack of calls; what a
file holds is chosen when it is read, so one run covers all graphs of extends with shared bases,
links and unreadable files.  One setting stands for the document: absent, a value that
replaces, or a mapping with one of two options.  The reference is the graph of extends without the order of
calls: what a name extends is the least set closed under extends lists (`Extended`), and the
document of each name that is reached is the documentation's "bases are applied in order, then the
declaring file wins" (`Overlaid`), said by positions and without folding.  `Effective` takes the documents of
the bases as they were cached; as each of these is held to the same equation and no name
extends itself, the equations have one solution, the documents the files alone determine.

**FindingPolicy** (`Policy.Apply`).  One finding through the filters in the code's order, for
every combination of directives, ignores, modes and levels of the two files it may belong
to.  Sorting, removal of duplicates and the levels below error are left out.

**MCSession**, **Resources** and **MCAlgorithms** put components that do not interact into one run: `subject`
is chosen in the initial state, only the subject moves, and the state space is the sum of
theirs.  Their properties are those of the modules; `MCAlgorithms` extends the seven modules that
are proved about and instantiates the two others, the expression parser twice, with different limits.  `Resources` keeps the parameters of its
components as constants, so that it can be proved about; `MCResources` and `Resources.cfg` give
them values.

## Runs

| Run | Instance | Checks |
|---|---|---|
| `langserver` | 2 paths, 4 messages, versions 1..2 | what is offered, published and remembered |
| `langserver_live` | 1 path, 4 messages, fair | the last edit is published, Serve and the reader end |
| `langserver_alias` | as `langserver`, and a second spelling of a URI | finding 1 |
| `plugin_project` | 2 writers (symmetric), 1 dependency, 2 revisions, 1 edit, crashes | all of the component |
| `plugin_project_rollback` | 1 writer, 1 revision | finding 2 |
| `core_engine` | 3 callers, 2 instances at a time, 2 closers and the loader, fair | sound pool, no leak, calls return |
| `session` | engines: 3 callers, 2 paths, limit 1, 1 closer; analysis: 2 documents with 2 tools and 1 analyzer each, 1 process slot; fair | all of the engines; work bounded, joined, complete, cut short only with a timeout, and it ends |
| `resources` | 3 lookups of each kind (2 requests for resolution); 2 commands and 1 release; 2 analyses and 2 artifacts; 3 names, 1 change; 2 component calls; 3 files and 3 edits | the properties of ten modules |
| `metadata_order` | 2 lookups | finding 3 |
| `snapshot_names` | 3 names, 2 changes | finding 4 |
| `event_open` | types of expressions of 5 nodes, with a caller | finding 5 |
| `algorithms` | 3 IDs, 3 jobs, 2 needs each; 2 files of 2 bytes, 3 edits; 3 entries of any section; 3 steps; conditions of 5 nodes; expressions of 5 tokens; types of expressions of 5 nodes under 7 sets of events; configurations of 4 names, 2 bases each, depth 2; all policies | the properties of nine modules |

Bounds.  Four messages are enough for initialize, open, an edit and any fourth
message, with up to two analyses in flight and one result queued: a result is stale
through one newer generation, and a second newer one adds nothing.  Two paths give a
document and its dependency.  With a limit of one and two paths the session of engines
meets the limit, shares a load and loads while closing; three callers are a loader,
a waiter and one more.  Three callers and two slots make a call wait, and three names
for instances are one more than may exist.  Two writers, two revisions and one
dependency give every pair of reads and writes.  Two documents for one slot make a
process wait while the other document fails or is joined; two tools and an analyzer are
both stages.  Three lookups are a leader, a waiter and one that comes later, for a
second request where there are requests.  Two commands race for one release; a second
release would only repeat the record of another digest.  Three names are a file and two
links to it or a chain of links that exceeds the limit.  Three jobs with two needs each
give self-loops, two- and three-cycles, tails that lead into them and IDs declared twice.
Three edits on one content are the smallest in which neighbours after sorting differ from
pairs.  Three entries give a step two kinds in both orders and a further key, and a job
its required keys with one more.  Three steps are a checkout, a change and a use, any of
which may be inside a composite action.  Five tokens or nodes hold two binary operators,
a call with an argument, and more nesting than the (lowered) limit of three levels; the parser is
also held to a limit of two, where a chain of three operands is accepted only because its operators
share a level; for types,
a guard, an operator and an access two levels deep (six nodes, 2.6 million states, were
checked once with the same result).  Four names are a diamond of bases, a chain beyond the
(lowered) depth, or a cycle through a link.
`MaxMessages`, `MaxEdits`, `MaxVersion`, `MaxRev`, `MaxSkipped`, `MaxJobs`, `MaxNeeds`,
`MaxEntries`, `MaxSteps`, `MaxStatements`, `MaxNodes`, `MaxOperands`, `MaxTokens`, `MaxBases`, `MaxChanges`,
`NumPaths`, `Length`, and the sets `Bytes` of replaced bytes and `Contents` of contexts, are bounds of
the model only; `MaxLinks`, `MaxLookups`, `MaxFiles`, `MaxLevels`, `MaxDepth`, `Limit`, `Slots` and
`MaxInstances` stand for limits of the code with smaller values.

Deadlock is checked for the language server, whose final state is an explicit
stutter, and for the plugin project, whose actors can always go on.  It is not for the others, which really stop: calls and Close may all have
returned, and an analysis, a lookup or an algorithm ends.

Fairness.  The Go scheduler runs every goroutine that can run, and `select` chooses at
random among its ready cases, which gives weak fairness of each step of the program.
Assumed of the environment: `Analyze` returns ("Analyze must honor cancellation",
`server.go:44`), an engine loader returns, a time limit passes, wazero interrupts a
guest whose context is done, a process ends when its context does (`exec.CommandContext`
kills it), and the probe, the index and the provider that a lookup runs return.  Not
assumed: that a client sends anything, that a guest returns by itself, that anyone calls
Close, that a waiting call ever gets a slot, or that an analyzer returns: `RunsEnd` says
that the action ends nevertheless, and that `Check` returns unless an analyzer hangs.

## Findings

1. *Two lists for one document* (`langserver_alias`).  Publications are remembered by
   path.  If a dependency was published under the URI the server built and is then
   opened under another spelling of it, the new publication replaces the remembered
   one and the list under the first spelling is never cleared, although
   `server.go:140` wants old publications cleared.
2. *Rollback of a finished save* (`plugin_project_rollback`).  `PluginManifest.Save`
   also returns an error when only its clean-up failed, after the rename;
   `PluginProject.Save` then restores the old lock next to the new manifest.
   `plugin_project.go:181` describes the rollback for a failed manifest write only.
   `SavesAreAtomic` and `FailedSaveLeavesNoTrace` exclude this case by `disturbed`.
3. *Order of checks decides what callers are told* (`metadata_order`).
   `reusable_workflow.go:269` promises parse errors "on every lookup ... regardless of the
   order of concurrent checks".  The check of a malformed reusable workflow writes metadata
   from the recovered tree without the error when it comes first; its callers then report
   nothing.  `CallersAgree` (part of `MetadataIsReported`), which holds, says that they at least agree with each other.
4. *Content of a re-pointed name* (`snapshot_names`).  `resolve` overwrites what is remembered
   for the name a link leads to.  If the guest had read that name while it was itself a link,
   `Content` for it no longer returns the "exact bytes read by the guest" (`snapshot.go:168`).
   `ReadsAgree`, which holds, says that the guest itself sees one version.
5. *Closed parts of an open payload* (`event_open`).  `projection.go:11` says that unknown events
   "stay open, including reusable workflows' inherited events".  `combineEventTypes` opens only the
   top level: a property that another trigger of the same workflow has keeps that trigger's shape, and a
   member of it that only the caller's event has is reported.  `NarrowingIsExact`, which holds,
   is about workflows that are not called.

Smaller things met on the way, without a run: `cache.go` says that errors of a local
action are cached, but a Dockerfile that cannot be read is tried again by every lookup;
the comment of `finish` (`call_teardown.go:13`) lists the order of closing without the
prepared scripts and the source files, which come after the guest; comparison chains
like `a == b == c` group to the right; `ObjectType.Merge` of a strict object with a map keeps
properties that need not be assignable to the merged value type, against the invariant noted at
`ObjectType`; an expression behind `!` is typed as its operand when it is the left side of
`&&` or `||`; `docs/config.md:105` calls chains of `extends` deeper than 32 levels errors, but a base that
was loaded before at a smaller depth comes from the cache whatever its own chain adds, so
the order of a list decides; and a `null` of a base's base is lost when the base itself gives a
mapping and is then laid over another base, since `Merge` is not associative (between overlay
inputs the code keeps a mark for this case).

## Proofs

Eight modules hold proofs for every value of the constants: any number of callers, documents,
commands, paths, names, slots.  The assumptions are the named ASSUMEs of the component modules,
which TLC evaluates in the runs: finite sets, bounds that are numbers (`SlotsAssumption`,
`BoundAssumption`, `SnapshotAssumption`, `FixPlanAssumption`, `ExtendAssumption`), contents that are scalars
(`ContentsAssumption`), and markers that are none of the values they stand next
to (`NameAssumption`, `NoneAssumption`).  All theorems are invariance arguments: the inductive
invariant holds initially, every action preserves it, and it implies the property, or the step of
the abstract specification.

- **LangServerProofs**: `TypeCorrect`, `CodeActionsAreCurrent`, `PublicationsAreCurrent`.
  The invariant adds `SnapshotsCurrent`: a worker or a queued result that carries the
  current generation has a snapshot equal to the documents, and none carries a later
  generation.  It is needed because the properties speak of what the loop does with a
  result it receives, and the result was computed long before.  `ListsStayClearable` adds that
  documents are filed under the path of their URI; its hypothesis `OneSpelling`, that no two URIs
  name one path, is what finding 1 shows to be necessary.
- **SessionProofs**, script engines: `LoaderRunsOnce`, `EnginesClosedOnce`, `NoEngineLeaks`,
  `OnlyOpenEngines`, `SessionStaysWithinLimit`.  The invariant ties every engine that is open to exactly one
  owner: the table, the loader that still holds it, or the closer that will close it,
  and every path that was ever started to an entry in one of the tables while the
  session is open.  The limit is checked when a path is reserved, and a load that ends only
  moves its path between the tables or drops it; loads that Close overtakes still count.
  The analysis run: `AnalysisJoinsItsWork`, `CleanAnalysisIsComplete`.  A stage of a document ends
  only when each of its tasks has ended, a task that has ended brought something (`Staged`), each
  process holds a slot, and `Check` passes its own stages after the documents have passed theirs.
  With that, an answer without an error leaves no room for a task that was skipped.  What the
  action passes on it received before the deadline, hence without the deadline's error (`Outcome`).
- **CoreEngineProofs**: `TypeCorrect`, `PoolIsBounded`, `CallsAreExclusive`,
  `FailedInstancesAreDiscarded`, `PoolStaysSound` (their conjunction) and `EngineIsReclaimed`.  `PoolBound` is about instances that exist, while the
  code counts tokens.  The invariant relates them: the tokens taken are the callers
  between their select and their return, and the idle instances plus the callers that
  own or create one stay within the limit (`Budget`), which holds because an instance
  is created only when the pool was seen empty by a caller that already had its token.
  `EngineIsReclaimed` adds who closes what: the instances that `Close` took out of the pool
  always have a closer that is still closing them (`Detaching`).
- **FixApplyProofs**: `TypeCorrect`, `ReportIsExact`, `TempsAreRemoved`,
  `AllChecksComeFirst`, `EditsAreKept`.  The invariant says what the loop index means in
  each phase: which files are staged, which are verified since, and which are written.
- **RulesProofs**, job dependencies: `TypeCorrect`, `ReportedCyclesAreReal`, `NoCycleIsMissed`.  The stack is a path of
  needs (`Path`), the IDs in state 1 are those on the stack (`OnStack`), the needs that
  a loop has passed are visited (`Passed`), and a visited job finished after everything
  it needs (`Ordered`).  When the search ends without a cycle, the order in which jobs
  finished is the order in which they can run.
  Conditions: `ConditionsAreSound`.  What the code computes for an expression promises something about
  the value on the runner: a known constant is that value, a known truth is its truth in that
  environment, an expression that requires success is false without it (`Sound`).  Literals, contexts and status
  calls are sound, every operator keeps soundness, and so all operands on the stack are sound at
  any time (`AllSound`).  Building expressions on a stack makes this an invariant of steps where one
  would expect an induction over syntax trees.
  The executable bit: `FindingsAreReal`.  The invariant relates the checker's state to every state the
  runner may be in, as long as the job has not failed and the repository is not unknown: each located copy of
  the workspace that nothing has changed is the indexed one (`WorkspaceIsIndexed`), so is the copy in
  the action's directory (`ActionIsIndexed`), and so is what the script that is being read has
  seen, as long as each of its statements was understood (`ScriptFacts`).  `CheckedOut` and `Concurrent` say
  when placements may be trusted, and `FrameFacts` says the same of the state kept at a call of a composite
  action, which its end joins with the current one.  Skipped and failed steps never enter, since a condition that lets a step run
  after a failure makes the repository unknown first.
- **DocumentProofs**, sections: `VerdictsAreExact`.  While entries are read, the errors are empty exactly if
  the entries so far are well formed (`ReadIsExact`), and without errors the recorded keys, the
  yielded entries and the step's kind are those of the mapping (`CleanSoFar`), so that the checks
  at the end see the whole mapping.  That the last kind-giving key decides the kind does not
  matter: keys of two kinds are reported either way.
  Findings: `PolicyFiltersExactly`.  Only four elements ever appear: the finding, a report for each of the
  two sources, and one for the ignore; `PolicyInv` says which of them are there after each filter.
  This one is a finite table, which TLC covers too; the proof gives the reason.
  Fixes: `PlansAreExact`.  Sorting and compacting leave the edits ordered and each once (`SortedFacts`,
  `CompactFacts`); then neighbours that do not overlap keep all edits apart
  (`NeighboursSuffice`, `Separated`), and what `Apply` has written after each edit is the content with the edits
  so far (`AppliedIsFixed`, `BuiltIsFixed`).  `PlanInv` says it of the paths passed.  The functions
  over prefixes are unfolded by `Induction`, which is about sets of numbers and therefore
  needs no operator parameter.
  Configurations: `ConfigurationsAreExact`.  The calls are a chain of extends that meets no file twice and
  stays within the limit (`Calls`), so the cycle or the chain that is reported is there.  The base of a
  call is what the documentation makes of the bases it has passed (`BasesLaid`): laying one more document
  over some is what `Overlaid` says of all of them (`OneMoreDocument`).  With the file over its
  bases that is what is cached (`CacheIsEffective`), and each name is listed after its bases
  (`ListedInOrder`).  A file that is read while calls run changes the graph, but only at names no cached
  document rests on.  When `load` returns, the listed names are closed under extends and therefore those that are
  reached, and their order shows that none extends itself: acyclicity comes without an
  induction over the graph.  Of symbolic links the
  invariant uses only that each name leads to one file.
- **PluginProjectProofs**: `GuardsExclude`, `CommandsLoseNothing`, `PairStaysConsistent`,
  `FailedSaveRestores`, `SavesImplementPair`.  `GuardsInv` says that whoever is in a guarded section made its
  directory, which also holds after crashes, edits and failed clean-ups; only without those does
  a directory also have someone inside (`Owned`).  It makes the files stable, up to the editor,
  between the last comparison and the rename, which is `NoLostUpdate`.  `SaveInv` says, while
  nothing has disturbed a save, how the files differ at each program point from those found when
  the project was taken (`Holder`), and what a command that has only read wants (`WantsPair`): a
  pair that agrees if the one it read did, and no lock only if it drops declarations.  It holds
  although the lock is compared before the project guard is taken, since the lock's own guard
  and a second comparison follow.  With both, every step maps to a step of `PluginPair` or to
  none: the only one that changes the pair is the rename of the manifest, and what it replaces
  is what the command has read, since the lock below it was compared under the guards.
  `PairStaysConsistent` is what a reader of the files sees of that between saves.
- **ResourcesProofs**: one invariant per component of `Resources`.  The probe, the index cache and
  the resolver implement `SharedLookup` step by step (`ProbeRefines`, `IndexRefines`,
  `ResolverRefines`, together `SharedLookupsAreImplemented`); then `ResolutionsAgree`, `RevocationsStick`,
  `ActionLookupsComplete`, `CallersAgreeHolds`, `EnginesOwned`, `SnapshotReadsAgree` and `CallsIsolated`, each
  about a component's own specification.  The last section carries them over to the composition:
  `IdentityIsOne`, `MetadataReported`, `RevocationsStay`, `EditorOwnsEngines`, `GuestReadsAgree`,
  `PluginCallsAreIsolated`.

## What is not shown

Only model-checked: all liveness (`LastEditIsPublished`, `SessionEnds`, `EveryLoadReturns`,
`EveryCallReturns`, `EveryLookupReturns`, `RunsEnd`), which is beyond the prover, and two of the
algorithms: `ParserIsExact` and `NarrowingIsExact`.  Their algorithms or references are
recursive operators over trees (a grammar, nested types), and what such a
definition computes for every input cannot be proved here.  Every other property of a
passing run is also a theorem, `ListsCanBeCleared` under the hypothesis named above.

### Not modelled

The modules stand for about a tenth of the program's lines.  What they leave out, and why:

- *Generated and declarative code*: the bindings of component plugins, the catalogue of
  popular actions, webhook and runner tables, the types of the syntax tree.  They hold data
  or forward calls; there is no behaviour to check.
- *Character-level code*: lexers, the YAML reader, globs, cron, shell and Python script
  rewriting, UTF-16 positions, encoders.  Their inputs are texts whose interesting cases are
  longer than a model checker can enumerate; the repository tests them with examples and
  fuzzing.
- *The rest of the type checker* (`expression/expr_sema.go`): function signatures, operand types of
  comparisons, the availability of contexts: tables, which a model would repeat with nothing
  independent to compare them to.
- *Rules that look at one node*: each is a condition on one value; a property of it would
  restate the condition.  The rules that carry state are modelled.
- *The rest of the configuration*: decoding, defaults, migration and the meaning of each setting
  are functions of one document.
- *Command line, rendering, network, signatures*: input and output around the components.

Within the modelled parts: what findings say, positions, editing of YAML, TOML and JSON,
memory limits of guests, file modes other than the executable bit, log lines.  Components
are listed one by one in `PROJECT.json`.

## Plan

Order so far: the language server first, since it has the most actors and its mistakes are
what a user sees; then the engines all analyses share; the transactions on files; the
analysis run with its processes; the shared lookups with their abstract specification; the
sandbox of plugins; and the algorithms.  What is left:

1. an abstract specification of an engine as an analysis sees it (a call is answered by one
   exclusive instance or fails), implemented by `CoreEngine`;
2. the type lattice of `ExprTypes` (`Merge`, `Subtract`) as functions of bounded depth, with lemmas
   on what narrowing keeps.
