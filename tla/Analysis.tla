------------------------------ MODULE Analysis ------------------------------
(***************************************************************************)
(* One analysis under a time limit: application.Check and run (check.go,   *)
(* analysis.go), the check of each document (analysis_document.go and      *)
(* workflow/composition/analysis.go), RunTasks and the process pool of     *)
(* internal/analyzerhost, and runLint of the GitHub Action (githubaction/  *)
(* lint.go), which runs the analysis in a goroutine and stops waiting for  *)
(* it when its deadline and a grace period have passed.                    *)
(*                                                                         *)
(* Documents are checked by at most DocLimit goroutines.  Each runs its    *)
(* script tools and then its analyzers as tasks; a tool starts a process,  *)
(* and all documents together run at most Slots of them.                   *)
(***************************************************************************)
EXTENDS Naturals, FiniteSets

CONSTANTS N,           \* number of documents
          Tools,       \* script tools of a document: tasks that run a process
          Analyzers,   \* analyzers of a document: tasks in this process
          DocLimit,    \* group.SetLimit(runtime.NumCPU())
          Slots        \* capacity of the process pool's semaphore

ASSUME SlotsAssumption == Slots \in Nat

Docs == 1..N
Tasks == Tools \cup Analyzers

VARIABLES over,     \* the context is over: the deadline has passed
          main,     \* where Check is
          doc,      \* where the check of each document is
          task,     \* where each task of a document is
          brought,  \* what a finished task brought
          kept,     \* the tasks whose findings are in a document's result
          broken,   \* the documents whose check returned an error
          err,      \* the error Check returns
          engines,  \* the script engines of the session
          lint,     \* where runLint is
          shown     \* the outcome runLint returns

runVars == <<over, main, doc, task, brought, kept, broken, err, engines, lint, shown>>
docVars == <<doc, task, brought, kept, broken>>
mainVars == <<main, err, engines>>
lintVars == <<lint, shown>>

RunInit == /\ over = FALSE
           /\ main = "start"
           /\ doc = [d \in Docs |-> "queued"]
           /\ task = [x \in Docs \X Tasks |-> "queued"]
           /\ brought = [x \in Docs \X Tasks |-> "none"]
           /\ kept = [d \in Docs |-> {}]
           /\ broken = {}
           /\ err = "none"
           /\ engines = "open"
           /\ lint = "select"
           /\ shown = "none"

-----------------------------------------------------------------------------
(* run: the documents, in order, through an errgroup with a limit.         *)

Active == {d \in Docs : doc[d] \notin {"queued", "done"}}

StartDocument(d) ==
  /\ main = "start"
  /\ doc[d] = "queued"
  /\ \A e \in 1..(d - 1) : doc[e] # "queued"
  /\ Cardinality(Active) < DocLimit
  /\ doc' = [doc EXCEPT ![d] = "compose"]
  /\ UNCHANGED <<over, task, brought, kept, broken, mainVars, lintVars>>

EndDocument(d, result, ok) ==
  /\ doc' = [doc EXCEPT ![d] = "done"]
  /\ kept' = [kept EXCEPT ![d] = result]
  /\ broken' = IF ok THEN broken ELSE broken \cup {d}

\* Configuration, rule names and adapters are prepared; an error ends the check
\* of the document with nothing kept.
Compose(d) ==
  /\ doc[d] = "compose"
  /\ \/ doc' = [doc EXCEPT ![d] = "tools"] /\ UNCHANGED <<kept, broken>>
     \/ EndDocument(d, {}, FALSE)
  /\ UNCHANGED <<over, task, brought, mainVars, lintVars>>

\* The tasks RunTasks has been given in the document's current stage.
StageTasks(d) == CASE doc[d] = "tools" -> Tools
                   [] doc[d] = "analyzers" -> Analyzers
                   [] OTHER -> {}

EndTask(d, t, result) == /\ task' = [task EXCEPT ![<<d, t>>] = "done"]
                         /\ brought' = [brought EXCEPT ![<<d, t>>] = result]

\* The goroutine of a task: ctx.Err first, then the task itself.
StartTask(d, t) ==
  /\ t \in StageTasks(d)
  /\ task[<<d, t>>] = "queued"
  /\ IF over THEN EndTask(d, t, "error")
     ELSE /\ task' = [task EXCEPT ![<<d, t>>] = IF t \in Tools THEN "acquire"
                                                               ELSE "work"]
          /\ UNCHANGED brought
  /\ UNCHANGED <<over, doc, kept, broken, mainVars, lintVars>>

Processes == {x \in Docs \X Tools : task[x] = "work"}

MayRun == Cardinality(Processes) < Slots

\* Command.Execute waits for a slot, or for the context to end.
Acquire(d, t) ==
  /\ task[<<d, t>>] = "acquire"
  /\ \/ /\ ~over
        /\ MayRun
        /\ task' = [task EXCEPT ![<<d, t>>] = "work"]
        /\ UNCHANGED brought
     \/ over /\ EndTask(d, t, "error")
  /\ UNCHANGED <<over, doc, kept, broken, mainVars, lintVars>>

\* A process exits or is killed, an analyzer returns: with all its findings,
\* with an error, or with an error and the findings it had.
Finish(d, t) ==
  /\ task[<<d, t>>] = "work"
  /\ \E result \in {"findings", "partial", "error"} : EndTask(d, t, result)
  /\ UNCHANGED <<over, doc, kept, broken, mainVars, lintVars>>

\* Mutant of Joined: a stage ends as soon as one of its tasks has.
JoinedEarly(d) == \E t \in StageTasks(d) : task[<<d, t>>] = "done"

\* group.Wait of RunTasks.
Joined(d) == \A t \in StageTasks(d) : task[<<d, t>>] = "done"

JoinStage(d) ==
  /\ doc[d] \in {"tools", "analyzers"}
  /\ Joined(d)
  /\ doc' = [doc EXCEPT ![d] = IF doc[d] = "tools" THEN "analyzers" ELSE "policy"]
  /\ UNCHANGED <<over, task, brought, kept, broken, mainVars, lintVars>>

HasFindings(d) == {t \in Tasks : brought[<<d, t>>] \in {"findings", "partial"}}

\* Mutant of TaskFailed: a task that brought findings counts as a success.
TaskFailedEmpty(d) == \E t \in Tasks : brought[<<d, t>>] = "error"

TaskFailed(d) == \E t \in Tasks : brought[<<d, t>>] \in {"partial", "error"}

\* The document's findings with the joined errors of its visit and its tasks,
\* through the diagnostic policy, whose own failure loses the findings.
ApplyPolicy(d) ==
  /\ doc[d] = "policy"
  /\ \/ \E visited \in BOOLEAN : EndDocument(d, HasFindings(d), visited /\ ~TaskFailed(d))
     \/ EndDocument(d, {}, FALSE)
  /\ UNCHANGED <<over, task, brought, mainVars, lintVars>>

DocStep(d) == \/ StartDocument(d) \/ Compose(d) \/ JoinStage(d) \/ ApplyPolicy(d)
TaskStep(d, t) == StartTask(d, t) \/ Acquire(d, t) \/ Finish(d, t)

-----------------------------------------------------------------------------
(* The end of run, and the deferred release of the session's resources.    *)

AllStarted == /\ main = "start"
              /\ \A d \in Docs : doc[d] # "queued"
              /\ main' = "wait"
              /\ UNCHANGED <<over, docVars, err, engines, lintVars>>

\* group.Wait returns the error of the document that failed first, if any.
RunError == IF broken # {} THEN "document" ELSE IF over THEN "context" ELSE "none"

EndRun == /\ main = "wait"
          /\ Active = {}
          /\ err' = RunError
          /\ main' = "join"
          /\ UNCHANGED <<over, docVars, engines, lintVars>>

\* processes.Wait, then engines.Close whose context is never over.
WaitProcesses == /\ main = "join"
                 /\ Processes = {}
                 /\ main' = "close"
                 /\ UNCHANGED <<over, docVars, err, engines, lintVars>>

CloseEngines == /\ main = "close"
                /\ engines' = "closed"
                /\ main' = "returned"
                /\ UNCHANGED <<over, docVars, err, lintVars>>

MainStep == AllStarted \/ EndRun \/ WaitProcesses \/ CloseEngines

-----------------------------------------------------------------------------
(* runLint: the result, or the deadline and a grace period.                *)

Deadline == /\ ~over
            /\ lint # "returned"
            /\ over' = TRUE
            /\ UNCHANGED <<docVars, mainVars, lintVars>>

\* A received result counts only while the context is not over.
Usable == ~over

ReceiveResult == /\ lint \in {"select", "grace"}
                 /\ main = "returned"
                 /\ lint' = "returned"
                 /\ shown' = IF Usable THEN "analysis" ELSE "timeout"
                 /\ UNCHANGED <<over, docVars, mainVars>>

DeadlineSeen == /\ lint = "select"
                /\ over
                /\ lint' = "grace"
                /\ UNCHANGED <<over, docVars, mainVars, shown>>

\* Mutant of GraceOver: after the deadline only the result ends the wait.
GraceWithoutEnd == /\ lint = "grace"
                   /\ main = "returned"
                   /\ lint' = "returned"
                   /\ shown' = "timeout"
                   /\ UNCHANGED <<over, docVars, mainVars>>

GraceOver == /\ lint = "grace"
             /\ lint' = "returned"
             /\ shown' = "timeout"
             /\ UNCHANGED <<over, docVars, mainVars>>

LintStep == ReceiveResult \/ DeadlineSeen \/ GraceOver

RunNext == \/ \E d \in Docs : DocStep(d) \/ \E t \in Tasks : TaskStep(d, t)
           \/ MainStep \/ Deadline \/ LintStep

\* Time passes and goroutines run.  A process that hangs is killed when the
\* context ends; an analyzer may ignore that for ever.
RunFairness ==
  /\ WF_runVars(Deadline)
  /\ WF_runVars(DeadlineSeen \/ GraceOver)
  /\ WF_runVars(MainStep)
  /\ \A d \in Docs :
       /\ WF_runVars(DocStep(d))
       /\ \A t \in Tasks : WF_runVars(StartTask(d, t))
       /\ \A t \in Tools : WF_runVars(Acquire(d, t)) /\ WF_runVars(over /\ Finish(d, t))

RunSpec == RunInit /\ [][RunNext]_runVars /\ RunFairness

-----------------------------------------------------------------------------

\* All documents together never run more processes than the pool allows.
ProcessLimit == Cardinality(Processes) <= Slots

\* Work is bounded and joined: the pool's limit holds over all documents,
\* nothing a document has started outlives the collection of its findings, and
\* nothing runs once the engines are closed (analysis.go of composition,
\* "Collection happens only after all started work ends").
WorkIsJoined ==
  /\ ProcessLimit
  /\ \A d \in Docs, t \in Tasks :
       task[<<d, t>>] \in {"acquire", "work"} => t \in StageTasks(d)
  /\ engines = "closed" => Active = {}

\* A check that returns no error is complete: every tool and analyzer of every
\* document ran to its end and its findings are there, although tasks are
\* skipped, processes killed and partial findings kept on the way.  And a
\* failing document takes nothing from the others, nor does the deadline: without
\* an error of its own, a document keeps the findings of all its tasks.  And what
\* runLint passes on is the result of a run that is over, with all its documents,
\* and that the time limit did not cut short: never a result still being made,
\* and never one whose error is the deadline's.
CleanIsComplete ==
  /\ main = "returned" /\ err = "none" =>
       \A d \in Docs :
         kept[d] = Tasks /\ \A t \in Tasks : brought[<<d, t>>] = "findings"
  /\ \A d \in Docs \ broken : doc[d] = "done" => kept[d] = Tasks
  /\ shown = "analysis" =>
       /\ main = "returned" /\ err # "context"
       /\ \A d \in Docs : doc[d] = "done"

\* runLint returns within the grace period whatever the analysis does, and the
\* analysis itself has returned by then or later unless an analyzer ignores the
\* end of the context.
RunsEnd == <>(/\ lint = "returned"
              /\ \/ main = "returned"
                 \/ \E d \in Docs, t \in Analyzers : task[<<d, t>>] = "work")
=============================================================================
