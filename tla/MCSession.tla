------------------------------ MODULE MCSession -----------------------------
(***************************************************************************)
(* The two sides of an analysis session for TLC: the script engines its    *)
(* documents share (ScriptEngines) and the analysis with its tasks,        *)
(* processes and time limit (Analysis).  The analysis sees of the engines  *)
(* only that they are open or closed, so a behaviour is about one of them, *)
(* the subject: either the engines are not used, or the analysis is over.  *)
(***************************************************************************)
EXTENDS ScriptEngines, Analysis

VARIABLE subject

allVars == <<subject, vars, runVars>>

\* An analysis that has timed out before its first document.
RunIsOver ==
  /\ over = TRUE /\ main = "returned" /\ err = "context" /\ engines = "closed"
  /\ doc = [d \in Docs |-> "done"]
  /\ task = [x \in Docs \X Tasks |-> "done"]
  /\ brought = [x \in Docs \X Tasks |-> "error"]
  /\ kept = [d \in Docs |-> {}] /\ broken = Docs
  /\ lint = "returned" /\ shown = "timeout"

MCInit == /\ subject \in {"engines", "analysis"}
          /\ Init
          /\ IF subject = "analysis" THEN RunInit ELSE RunIsOver

EnginesNext == subject = "engines" /\ Next /\ UNCHANGED <<subject, runVars>>
AnalysisNext == subject = "analysis" /\ RunNext /\ UNCHANGED <<subject, vars>>

MCNext == EnginesNext \/ AnalysisNext

\* The fairness of the two modules: nothing it is about is enabled in the one
\* that is not the subject.
MCSpec == MCInit /\ [][MCNext]_allVars /\ Fairness /\ RunFairness
=============================================================================
