--------------------------- MODULE ExecutableBit ---------------------------
(***************************************************************************)
(* The check that a script run directly is executable: ExecutableChecker   *)
(* of internal/workflow/execution (executable.go, executable_state.go),    *)
(* with the checkout placements that action/local keeps for it             *)
(* (resolver.go, scope.go).  The checker reads a job step by step and      *)
(* knows only what the workflow says; the job itself runs next to it,      *)
(* with conditions that come out either way, steps that fail, programs     *)
(* that may change any file, and steps in the background.                  *)
(*                                                                         *)
(* The repository has one script, not executable in the Git index.  A job  *)
(* can have copies of it in the workspace ("root"), in a second checkout   *)
(* below it ("sub") and in the directory of a downloaded action            *)
(* ("action").                                                             *)
(***************************************************************************)
EXTENDS Naturals, Sequences, FiniteSets

CONSTANTS MaxSteps,      \* steps of a job, those of a composite action included
          MaxStatements  \* statements of a script

Workspace == {"root", "sub"}
Copies == Workspace \cup {"action"}

\* What Condition and CanRunAfterFailure say of a step's "if".
Conditions == {[enabled |-> TRUE, known |-> TRUE, after |-> FALSE],    \* none
               [enabled |-> TRUE, known |-> TRUE, after |-> TRUE],     \* true || failure()
               [enabled |-> FALSE, known |-> TRUE, after |-> FALSE],   \* false
               [enabled |-> FALSE, known |-> FALSE, after |-> FALSE],  \* any expression
               [enabled |-> FALSE, known |-> FALSE, after |-> TRUE]}   \* always()

VARIABLES st,      \* the executableState, the flag skipFindings included
          place,   \* the resolver's checkout placements, newest first
          frame,   \* the caller's part of a composite call, if one is entered
          script,  \* the run step whose statements are being read, if any
          steps,   \* how many steps have been read
          live,    \* the job executes the composite call, if one is entered
          failed,  \* the status that success() and failure() look at
          mode,    \* of each copy on the runner: "absent", "indexed", or "unknown"
                   \* when programs that are not modelled decide it
          tampered,\* Git may keep modes or bring other contents
          shared,  \* something runs concurrently with the job
          found    \* a finding and the mode of the copy it is about

execVars == <<st, place, frame, script, steps, live, failed, mode, tampered, shared, found>>
runnerVars == <<live, failed, mode, tampered, shared>>

NoFrame == [entered |-> FALSE]
NoScript == [open |-> FALSE]

\* newExecutableState: what is known of a new job on a hosted runner, or on one
\* that earlier jobs have used, or for a caller's repository.
newExecutableState(hosted, callerRepositoryUnknown) ==
  [sequential |-> TRUE, pristine |-> FALSE, actionPristine |-> hosted,
   repositoryUnknown |-> callerRepositoryUnknown \/ ~hosted,
   changed |-> {}, skipFindings |-> FALSE]

ExecInit ==
  \E hosted, called \in BOOLEAN :
    /\ st = newExecutableState(hosted, called)
    /\ tampered = (called \/ ~hosted)
    /\ mode = [c \in Copies |-> IF ~hosted THEN "unknown"
                                ELSE IF c = "action" THEN "indexed" ELSE "absent"]
    /\ place = <<>> /\ frame = NoFrame /\ script = NoScript /\ steps = 0
    /\ live = TRUE /\ failed = FALSE /\ shared = FALSE /\ found = {}

-----------------------------------------------------------------------------
(* What the checker concludes.                                             *)

afterPossibleFailure(s) ==
  [s EXCEPT !.pristine = FALSE, !.repositoryUnknown = TRUE, !.actionPristine = FALSE]

afterConcurrentExecution(s) ==
  [s EXCEPT !.sequential = FALSE, !.pristine = FALSE, !.actionPristine = FALSE]

\* CheckoutPlacement.Relative: the copies below a directory of the workspace.
Below(dir) == IF dir = "root" THEN Workspace ELSE {dir}

afterKnownCheckout(s, dir) ==
  [s EXCEPT !.pristine = TRUE, !.repositoryUnknown = FALSE, !.changed = @ \ Below(dir)]

\* CheckoutPlacement.Matching: the newest placement that has the path.
Matching(chain, dir) ==
  LET at == {i \in 1..Len(chain) : dir \in Below(chain[i].dir)}
  IN  IF at = {} THEN [dir |-> "none", known |-> FALSE]
      ELSE chain[CHOOSE i \in at : \A j \in at : i <= j]

SameSelfCheckout(chain, dir) == Matching(chain, dir) = [dir |-> dir, known |-> TRUE]

\* MergeCheckoutBranches, its recursion from the oldest placement of the called
\* action unfolded: a placement of the action is kept as a range, and known only
\* when both branches agree on it, which shadowing ones may prevent.
MergeCheckoutBranches(before, after, mayFail) ==
  LET new == Len(after) - Len(before)
      agreed(i) ==
        /\ after[i].known /\ ~mayFail
        /\ SameSelfCheckout(before, after[i].dir)
        /\ \A j \in (i + 1)..new :
             after[i].dir \in Below(after[j].dir) => after[j] = [dir |-> after[i].dir, known |-> TRUE]
  IN  [i \in 1..Len(after) |-> IF i <= new THEN [after[i] EXCEPT !.known = agreed(i)] ELSE after[i]]

\* scriptPath: whether the path of a copy leads to the script of the index.
Located(c) == c = "action" \/ SameSelfCheckout(place, c) \/ (place = <<>> /\ c = "root")

\* ObserveCheckout, for a checkout the workflow asks for.  Only other inputs
\* than "clean" make the contents something else than this repository.
ObserveCheckout(dir, input, c, mayFail, background) ==
  LET self == input # "foreign"
      certain == c.known /\ ~mayFail /\ ~background
      refresh == self /\ ~c.known /\ ~mayFail /\ ~background /\ ~c.after
                 /\ SameSelfCheckout(place, dir)
  IN  place' = IF c.known /\ ~c.enabled THEN place
               ELSE <<[dir |-> dir, known |-> self /\ (certain \/ refresh)]>> \o place

-----------------------------------------------------------------------------
(* What the runner does.  A step is reached when its condition comes out   *)
(* true; the checker's view of the condition limits what that can be.      *)

MayRun(c) == CASE c.known /\ ~c.enabled -> {FALSE}
               [] failed /\ ~c.after -> {FALSE}
               [] ~failed /\ c.known /\ c.enabled -> {TRUE}
               [] OTHER -> BOOLEAN

\* A program of which nothing is known may have changed every copy, and the
\* configuration of Git.
AnyEffect == mode' = [c \in Copies |-> "unknown"] /\ tampered' = TRUE

\* The step ends with or without an error; an error that "continue-on-error"
\* may allow is forgotten or not.
StepEnds(ran, ok, mayContinue) ==
  \/ (~ran \/ ok \/ mayContinue) /\ UNCHANGED failed
  \/ ran /\ ~ok /\ failed' = TRUE

\* actions/checkout puts the indexed script in place, unless Git has been
\* tampered with, the inputs ask for something else, or it fails.
CheckoutRuns(dir, input, ok) ==
  /\ mode' = [c \in Copies |->
       IF c \notin Below(dir) THEN mode[c]
       ELSE IF ~ok \/ tampered \/ input = "foreign" THEN "unknown"
       ELSE IF input = "noclean" /\ (c # dir \/ mode[c] = "unknown") THEN mode[c]
       ELSE IF c = dir THEN "indexed" ELSE "absent"]
  /\ UNCHANGED tampered

NothingRuns == UNCHANGED <<mode, tampered>>

Reading == script = NoScript /\ steps < MaxSteps
Read == steps' = steps + 1

\* VisitStep up to the kind of the step.
Ignored(c) == ~st.sequential \/ (c.known /\ ~c.enabled)
Visited(c) == IF c.after THEN afterPossibleFailure(st) ELSE st

-----------------------------------------------------------------------------
(* The steps.                                                              *)

checkout(s, dir, input, mayNotComplete) ==
  IF s.repositoryUnknown \/ mayNotComplete \/ input # "self"
  THEN [s EXCEPT !.pristine = FALSE, !.repositoryUnknown = TRUE]
  ELSE afterKnownCheckout(s, dir)

\* A step that uses actions/checkout.
CheckoutStep(dir, input, c, mayContinue) ==
  /\ Reading /\ Read
  /\ st' = IF Ignored(c) THEN st
           ELSE checkout(Visited(c), dir, input, ~c.known \/ mayContinue)
  /\ ObserveCheckout(dir, input, c, mayContinue, FALSE)
  /\ \E ran \in {r /\ live : r \in MayRun(c)}, ok \in BOOLEAN :
       /\ StepEnds(ran, ok, mayContinue)
       /\ IF ran THEN CheckoutRuns(dir, input, ok) ELSE NothingRuns
  /\ UNCHANGED <<frame, script, live, shared, found>>

\* A step that uses any other action, or a checkout with an environment that
\* Git or the loader obey.
OpaqueStep(c, mayContinue) ==
  /\ Reading /\ Read
  /\ st' = IF Ignored(c) THEN st
           ELSE [Visited(c) EXCEPT !.pristine = FALSE, !.actionPristine = FALSE,
                                   !.repositoryUnknown = TRUE]
  /\ \E ran \in {r /\ live : r \in MayRun(c)}, ok \in BOOLEAN :
       /\ StepEnds(ran, ok, mayContinue)
       /\ IF ran THEN AnyEffect ELSE NothingRuns
  /\ UNCHANGED <<place, frame, script, live, shared, found>>

\* A step in the background, or a group of parallel steps.
ConcurrentStep(c) ==
  /\ Reading /\ Read
  /\ st' = IF Ignored(c) THEN st ELSE afterConcurrentExecution(Visited(c))
  /\ \E ran \in {r /\ live : r \in MayRun(c)} : shared' = (shared \/ ran)
  /\ UNCHANGED <<place, frame, script, live, failed, mode, tampered, found>>

\* What runs concurrently changes files at any time.
Interfere == /\ shared
             /\ AnyEffect
             /\ UNCHANGED <<st, place, frame, script, steps, live, failed, shared, found>>

\* A run step begins: in the directory of a downloaded action the state of that
\* copy counts.
StartRun(c, mayContinue, dir) ==
  /\ Reading /\ Read
  /\ dir = "action" => frame.entered
  /\ \E ran \in {r /\ live : r \in MayRun(c)} :
       script' = [open |-> TRUE, condition |-> c, mayContinue |-> mayContinue, dir |-> dir,
                  independent |-> dir = "action", read |-> 0, ran |-> ran, running |-> ran, ok |-> TRUE,
                  workspacePristine |-> Visited(c).pristine]
  /\ st' = IF Ignored(c) THEN st
           ELSE [Visited(c) EXCEPT !.pristine = IF dir = "action" THEN Visited(c).actionPristine ELSE @]
  /\ UNCHANGED <<place, frame, runnerVars, found>>

-----------------------------------------------------------------------------
(* The statements of a script: read by the checker while they are all      *)
(* simple, executed by the shell until one fails.                          *)

Checked == st.pristine /\ ~Ignored(script.condition)

\* The statement does not end the script, or it fails and the shell stops.  In
\* a list or with "!" the shell may go on after a failure.
Executed(ok, wrapped) ==
  script' = [script EXCEPT !.read = @ + 1, !.ok = @ /\ (ok \/ ~script.running),
                           !.running = @ /\ (ok \/ wrapped)]

\* Negated, redirected, in a pipeline or on the left of "||": what follows is
\* not predictable any more.
Wrapped(s, wrapped) == IF wrapped /\ Checked THEN [s EXCEPT !.pristine = FALSE] ELSE s

Statement == script.open /\ script.read < MaxStatements

\* The copies that a path in the script's directory can mean.
Targets == IF script.dir = "action" THEN {"action"} ELSE Workspace

\* Mutant of ChmodMarks: the change of a mode is not remembered.
ChmodMarksNothing(s, c) == s

ChmodMarks(s, c) == [s EXCEPT !.changed = @ \cup {c},
                              !.actionPristine = @ /\ c # "action"]

Chmod(c, wrapped) ==
  /\ Statement
  /\ c \in Targets
  /\ st' = IF ~Checked THEN st
           ELSE IF script.dir = "unknown" \/ ~Located(c) THEN [st EXCEPT !.pristine = FALSE]
           ELSE Wrapped(ChmodMarks(st, c), wrapped)
  /\ \E ok \in BOOLEAN :
       /\ Executed(ok, wrapped)
       /\ ok => mode[c] # "absent"
       /\ mode' = IF script.running /\ ok THEN [mode EXCEPT ![c] = "unknown"] ELSE mode
  /\ UNCHANGED <<place, frame, steps, live, failed, tampered, shared, found>>

\* "cd" to somewhere the index does not know.
ChangeDirectory ==
  /\ Statement
  /\ script.dir # "unknown"
  /\ script' = [script EXCEPT !.read = @ + 1, !.dir = "unknown"]
  /\ UNCHANGED <<st, place, frame, steps, runnerVars, found>>

\* checkInvocation: the script is run by its path.
Invoke(c, wrapped) ==
  /\ Statement
  /\ c \in Targets
  /\ found' = IF /\ Checked /\ ~st.skipFindings
                 /\ script.dir # "unknown" /\ Located(c)
                 /\ c \notin st.changed
                 /\ script.running
              THEN found \cup {mode[c]} ELSE found
  /\ st' = IF Checked THEN [st EXCEPT !.pristine = FALSE] ELSE st
  /\ \E ok \in BOOLEAN : Executed(ok, wrapped)
  /\ IF script.running THEN AnyEffect ELSE NothingRuns
  /\ UNCHANGED <<place, frame, steps, live, failed, shared>>

\* Anything else: another program, a function, a loop, a background job.
OtherCommand ==
  /\ Statement
  /\ st' = IF Checked THEN [st EXCEPT !.pristine = FALSE] ELSE st
  /\ \E ok \in BOOLEAN : Executed(ok, FALSE)
  /\ IF script.running THEN AnyEffect ELSE NothingRuns
  /\ UNCHANGED <<place, frame, steps, live, failed, shared, found>>

\* The rest of VisitStep.  The effects of a step that may be skipped are not
\* known, and what became of the other copy only as far as both were.
RunEnded(s) ==
  LET effects == s.pristine /\ script.condition.known
      workspace == IF script.independent THEN script.workspacePristine /\ effects ELSE effects
  IN  [s EXCEPT !.pristine = workspace, !.actionPristine = @ /\ effects,
                !.repositoryUnknown = @ \/ ~workspace]

EndRun ==
  /\ script.open
  /\ st' = IF Ignored(script.condition) THEN st ELSE RunEnded(st)
  /\ StepEnds(script.ran, script.ok, script.mayContinue)
  /\ script' = NoScript
  /\ UNCHANGED <<place, frame, steps, live, mode, tampered, shared, found>>

-----------------------------------------------------------------------------
(* Composite actions: their steps are read with a state forked from the    *)
(* caller's, and the two are joined afterwards.                            *)

ForkComposite(c, mayContinue, background) ==
  LET s == [Visited(c) EXCEPT !.skipFindings = @ \/ (c.known /\ ~c.enabled)]
  IN  /\ Reading /\ Read
      /\ ~frame.entered
      /\ st' = IF (c.known /\ ~c.enabled) \/ background THEN afterConcurrentExecution(s) ELSE s
      /\ frame' = [entered |-> TRUE, st |-> st, place |-> place, condition |-> c,
                   mayContinue |-> mayContinue, background |-> background,
                   failed |-> failed]
      /\ \E ran \in MayRun(c) : live' = ran /\ shared' = (shared \/ (ran /\ background))
      /\ failed' = FALSE
      /\ UNCHANGED <<place, script, mode, tampered, found>>

\* JoinComposite.  An unconditional call shares the maps with its caller.
Joined(caller, child) ==
  LET c == frame.condition IN
  IF c.known /\ ~c.enabled THEN caller
  ELSE [caller EXCEPT
          !.changed = IF c.known THEN child.changed ELSE caller.changed \cup child.changed,
          !.actionPristine = @ /\ child.actionPristine,
          !.repositoryUnknown = child.repositoryUnknown \/ frame.mayContinue,
          !.pristine = c.known /\ ~frame.mayContinue /\ child.pristine,
          !.sequential = child.sequential]

\* The function EnterComposite returns.
JoinedPlacement ==
  LET c == frame.condition
      mayFail == frame.mayContinue \/ frame.background
  IN  IF c.known /\ ~c.enabled THEN frame.place
      ELSE IF ~c.known \/ mayFail THEN MergeCheckoutBranches(frame.place, place, mayFail)
      ELSE place

JoinComposite ==
  /\ frame.entered /\ script = NoScript
  /\ st' = Joined(frame.st, st)
  /\ place' = JoinedPlacement
  /\ frame' = NoFrame
  /\ live' = TRUE
  /\ \/ (~(live /\ failed) \/ frame.mayContinue \/ frame.background) /\ failed' = frame.failed
     \/ live /\ failed /\ failed' = TRUE
  /\ UNCHANGED <<script, steps, mode, tampered, shared, found>>

-----------------------------------------------------------------------------
ReadStep == \E c \in Conditions, mayContinue \in BOOLEAN :
  \/ \E dir \in Workspace, input \in {"self", "noclean", "foreign"} :
       CheckoutStep(dir, input, c, mayContinue)
  \/ OpaqueStep(c, mayContinue)
  \/ \E dir \in {"workspace", "action", "unknown"} : StartRun(c, mayContinue, dir)
  \/ \E background \in BOOLEAN : ForkComposite(c, mayContinue, background)

ReadStatement == \/ \E c \in Copies, wrapped \in BOOLEAN : Chmod(c, wrapped) \/ Invoke(c, wrapped)
                 \/ ChangeDirectory
                 \/ OtherCommand

ExecNext == \/ ReadStep
            \/ \E c \in Conditions : ConcurrentStep(c)
            \/ ReadStatement \/ EndRun \/ JoinComposite
            \/ Interfere

ExecSpec == ExecInit /\ [][ExecNext]_execVars

\* Whenever the job reaches a script that is reported, the copy it runs has the
\* mode of the Git index: whatever was skipped, failed, ran concurrently or was
\* checked out again before, in the job or in a composite action it calls.
FindingIsReal == found \subseteq {"indexed"}
=============================================================================
