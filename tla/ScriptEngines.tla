--------------------------- MODULE ScriptEngines ---------------------------
(***************************************************************************)
(* The session of WebAssembly engines shared by the documents of a check   *)
(* (internal/analyzerhost/script_engines.go): Load is single-flight per    *)
(* module path, caches failures as well as engines, and holds at most      *)
(* Limit paths; Close may run while loads are in flight.                   *)
(*                                                                         *)
(* A step is what happens between two unlocks.  A path has at most one     *)
(* load, so the pending load object is named by its path.  The loader may  *)
(* return an engine, an error, or an error together with an engine (a nil  *)
(* engine without an error is turned into an error by Load).               *)
(***************************************************************************)
EXTENDS Naturals, FiniteSets

CONSTANTS
    Callers,   \* goroutines that call Load
    Closers,   \* goroutines that call Close
    Paths,     \* module paths
    Limit      \* maxScriptEngines

ASSUME LimitAssumption == Limit \in Nat /\ IsFiniteSet(Paths) /\ Paths # {}

VARIABLES
    closed,    \* s.closed, and the closed done channel
    loaded,    \* paths in s.loaded
    failed,    \* paths in s.failed
    loading,   \* paths in s.loading
    pending,   \* outcome published by the load of a path, or "open"
    backend,   \* the engine a path's loader returned
    starts,    \* how often the loader ran for a path
    closes,    \* how often the engine of a path was closed
    pc, path,  \* program counter and argument of each caller
    outcome,   \* what the loader returned to a caller
    cancelled, \* callers whose context is done
    answer,    \* what the last Load of a caller returned
    closing    \* engines a closer still has to close

session == <<closed, loaded, failed, loading>>
callVars == <<pc, path, outcome, answer>>
vars == <<session, pending, backend, starts, closes, callVars, cancelled, closing>>

Outcomes == {"engine", "error", "errorWithEngine"}
Answers  == {"none", "engine", "failed", "closed", "cancelled", "limit"}

\* Types: a waiter never returns before its load has an outcome.
TypeOK ==
    /\ closed \in BOOLEAN
    /\ loaded \subseteq Paths /\ failed \subseteq Paths /\ loading \subseteq Paths
    /\ pending \in [Paths -> {"none", "open", "engine", "failed", "closed"}]
    /\ backend \in [Paths -> {"none", "open", "closed"}]
    /\ starts \in [Paths -> Nat]
    /\ closes \in [Paths -> Nat]
    /\ pc \in [Callers -> {"idle", "waiting", "loading", "finish", "reject", "discard"}]
    /\ path \in [Callers -> Paths]
    /\ outcome \in [Callers -> Outcomes]
    /\ cancelled \subseteq Callers
    /\ answer \in [Callers -> Answers]
    /\ closing \in [Closers -> SUBSET Paths]

Init ==
    /\ closed = FALSE
    /\ loaded = {} /\ failed = {} /\ loading = {}
    /\ pending = [p \in Paths |-> "none"]
    /\ backend = [p \in Paths |-> "none"]
    /\ starts = [p \in Paths |-> 0]
    /\ closes = [p \in Paths |-> 0]
    /\ pc = [c \in Callers |-> "idle"]
    /\ path = [c \in Callers |-> CHOOSE p \in Paths : TRUE]
    /\ outcome = [c \in Callers |-> "error"]
    /\ cancelled = {}
    /\ answer = [c \in Callers |-> "none"]
    /\ closing = [k \in Closers |-> {}]

-----------------------------------------------------------------------------
(* Load.                                                                   *)

Answer(c, a) ==
    /\ pc' = [pc EXCEPT ![c] = "idle"]
    /\ answer' = [answer EXCEPT ![c] = a]

\* The answers Load gives at once.
Immediate(c, p, a) ==
    \/ closed /\ a = "closed"
    \/ ~closed /\ c \in cancelled /\ a = "cancelled"
    \/ ~closed /\ c \notin cancelled
       /\ \/ p \in loaded /\ a = "engine"
          \/ p \notin loaded /\ p \in failed /\ a = "failed"
          \/ /\ p \notin loaded \cup failed \cup loading
             /\ Cardinality(loaded) + Cardinality(failed) + Cardinality(loading) >= Limit
             /\ a = "limit"

\* Fault: loads in flight are not counted.
MayStartUncounted(c, p) ==
    /\ ~closed /\ c \notin cancelled
    /\ p \notin loaded \cup failed \cup loading
    /\ Cardinality(loaded) + Cardinality(failed) < Limit

\* The condition under which Load becomes the loader of p.
MayStart(c, p) ==
    /\ ~closed /\ c \notin cancelled
    /\ p \notin loaded \cup failed \cup loading
    /\ Cardinality(loaded) + Cardinality(failed) + Cardinality(loading) < Limit

LoadAnswers(c, p) ==
    /\ pc[c] = "idle"
    /\ \E a \in Answers : Immediate(c, p, a) /\ Answer(c, a)
    /\ path' = [path EXCEPT ![c] = p]
    /\ UNCHANGED <<session, pending, backend, starts, closes, outcome, cancelled, closing>>

LoadJoins(c, p) ==
    /\ pc[c] = "idle"
    /\ ~closed /\ c \notin cancelled
    /\ p \in loading \ (loaded \cup failed)
    /\ pc' = [pc EXCEPT ![c] = "waiting"]
    /\ path' = [path EXCEPT ![c] = p]
    /\ answer' = [answer EXCEPT ![c] = "none"]
    /\ UNCHANGED <<session, pending, backend, starts, closes, outcome, cancelled, closing>>

LoadStarts(c, p) ==
    /\ pc[c] = "idle"
    /\ MayStart(c, p)
    /\ loading' = loading \cup {p}
    /\ pending' = [pending EXCEPT ![p] = "open"]
    /\ starts' = [starts EXCEPT ![p] = @ + 1]
    /\ pc' = [pc EXCEPT ![c] = "loading"]
    /\ path' = [path EXCEPT ![c] = p]
    /\ answer' = [answer EXCEPT ![c] = "none"]
    /\ UNCHANGED <<closed, loaded, failed, backend, closes, outcome, cancelled, closing>>

\* s.load returns, outside the lock.
LoaderReturns(c) ==
    /\ pc[c] = "loading"
    /\ \E o \in Outcomes :
          /\ outcome' = [outcome EXCEPT ![c] = o]
          /\ backend' = [backend EXCEPT ![path[c]] = IF o = "error" THEN "none" ELSE "open"]
    /\ pc' = [pc EXCEPT ![c] = "finish"]
    /\ UNCHANGED <<session, pending, starts, closes, path, answer, cancelled, closing>>

-----------------------------------------------------------------------------
(* finish.                                                                 *)

CloseBackend(p) ==
    /\ backend' = [backend EXCEPT ![p] = "closed"]
    /\ closes' = [closes EXCEPT ![p] = @ + 1]

\* Fault: failures are not remembered.
SettleForgets(c, p) ==
    /\ IF outcome[c] = "engine"
       THEN /\ loaded' = loaded \cup {p}
            /\ pending' = [pending EXCEPT ![p] = "engine"]
            /\ Answer(c, "engine")
       ELSE /\ pending' = [pending EXCEPT ![p] = "failed"]
            /\ Answer(c, "failed")
            /\ UNCHANGED loaded
    /\ loading' = loading \ {p}
    /\ UNCHANGED <<closed, failed>>

\* Fault: the waiters are not woken.
SettleSilently(c, p) ==
    /\ IF outcome[c] = "engine"
       THEN loaded' = loaded \cup {p} /\ UNCHANGED failed /\ Answer(c, "engine")
       ELSE failed' = failed \cup {p} /\ UNCHANGED loaded /\ Answer(c, "failed")
    /\ loading' = loading \ {p}
    /\ UNCHANGED <<closed, pending>>

\* Its last critical section on an open session.
Settle(c, p) ==
    /\ IF outcome[c] = "engine"
       THEN /\ loaded' = loaded \cup {p}
            /\ pending' = [pending EXCEPT ![p] = "engine"]
            /\ Answer(c, "engine")
            /\ UNCHANGED failed
       ELSE /\ failed' = failed \cup {p}
            /\ pending' = [pending EXCEPT ![p] = "failed"]
            /\ Answer(c, "failed")
            /\ UNCHANGED loaded
    /\ loading' = loading \ {p}
    /\ UNCHANGED closed

\* Its last critical section on a closed session.
Abandon(c, p) ==
    /\ loading' = loading \ {p}
    /\ pending' = [pending EXCEPT ![p] = "closed"]
    /\ Answer(c, "closed")
    /\ UNCHANGED <<closed, loaded, failed>>

\* An engine, or an error without one, on an open session.
FinishSettles(c) ==
    /\ pc[c] = "finish"
    /\ ~closed
    /\ outcome[c] # "errorWithEngine"
    /\ Settle(c, path[c])
    /\ UNCHANGED <<backend, starts, closes, path, outcome, cancelled, closing>>

\* An error with an engine: unlock to close the engine ...
FinishRejects(c) ==
    /\ pc[c] = "finish"
    /\ ~closed
    /\ outcome[c] = "errorWithEngine"
    /\ pc' = [pc EXCEPT ![c] = "reject"]
    /\ UNCHANGED <<session, pending, backend, starts, closes, path, outcome, answer,
                   cancelled, closing>>

\* ... and lock again; the session may have been closed in between.
RejectEngine(c) ==
    /\ pc[c] = "reject"
    /\ CloseBackend(path[c])
    /\ IF closed THEN Abandon(c, path[c]) ELSE Settle(c, path[c])
    /\ UNCHANGED <<starts, path, outcome, cancelled, closing>>

\* The session was closed during the load: drop the entry, close the engine
\* without the lock, and publish the error.
FinishClosed(c) ==
    /\ pc[c] = "finish"
    /\ closed
    /\ loading' = loading \ {path[c]}
    /\ pc' = [pc EXCEPT ![c] = "discard"]
    /\ UNCHANGED <<closed, loaded, failed, pending, backend, starts, closes, path,
                   outcome, answer, cancelled, closing>>

\* Fault: the engine of an overtaken load is dropped without closing it.
DiscardOpen(c) ==
    /\ pc[c] = "discard"
    /\ Abandon(c, path[c])
    /\ UNCHANGED <<backend, closes, starts, path, outcome, cancelled, closing>>

DiscardEngine(c) ==
    /\ pc[c] = "discard"
    /\ IF outcome[c] = "error" THEN UNCHANGED <<backend, closes>>
                               ELSE CloseBackend(path[c])
    /\ Abandon(c, path[c])
    /\ UNCHANGED <<starts, path, outcome, cancelled, closing>>

-----------------------------------------------------------------------------
(* wait: any ready case of the select, then the checks under the lock.     *)

\* Fault: the session is not looked at again after the wait.
WaitOverUnchecked(c) == pending[path[c]] # "open"

WaitOver(c) ==
    pending[path[c]] # "open" /\ ~closed /\ c \notin cancelled

Wait(c) ==
    /\ pc[c] = "waiting"
    /\ \/ c \in cancelled /\ Answer(c, "cancelled")
       \/ closed /\ Answer(c, "closed")
       \/ WaitOver(c) /\ Answer(c, pending[path[c]])
    /\ UNCHANGED <<session, pending, backend, starts, closes, path, outcome,
                   cancelled, closing>>

Cancel(c) ==
    /\ c \notin cancelled
    /\ cancelled' = cancelled \cup {c}
    /\ UNCHANGED <<session, pending, backend, starts, closes, callVars, closing>>

-----------------------------------------------------------------------------
(* Close.                                                                  *)

\* A second Close returns at once, also while the first still closes engines.
Close(k) ==
    /\ ~closed
    /\ closed' = TRUE
    /\ closing' = [closing EXCEPT ![k] = loaded]
    /\ loaded' = {} /\ failed' = {} /\ loading' = {}
    /\ UNCHANGED <<pending, backend, starts, closes, callVars, cancelled>>

CloseOne(k, p) ==
    /\ p \in closing[k]
    /\ closing' = [closing EXCEPT ![k] = @ \ {p}]
    /\ CloseBackend(p)
    /\ UNCHANGED <<session, pending, starts, callVars, cancelled>>

-----------------------------------------------------------------------------
CallerStep(c) ==
    \/ LoaderReturns(c) \/ FinishSettles(c) \/ FinishRejects(c) \/ RejectEngine(c)
    \/ FinishClosed(c) \/ DiscardEngine(c) \/ Wait(c)

CallStep(c, p) == LoadAnswers(c, p) \/ LoadJoins(c, p) \/ LoadStarts(c, p)

CloserStep(k) == Close(k) \/ \E p \in Paths : CloseOne(k, p)

Next ==
    \/ \E c \in Callers : CallerStep(c) \/ Cancel(c) \/ \E p \in Paths : CallStep(c, p)
    \/ \E k \in Closers : CloserStep(k)

Spec == Init /\ [][Next]_vars

\* The loader returns (engine compilation is bounded), and the scheduler runs
\* every goroutine.  Nobody has to call Load or Close.
Fairness ==
    /\ \A c \in Callers : WF_vars(CallerStep(c))
    /\ \A k \in Closers : WF_vars(\E p \in Paths : CloseOne(k, p))

FairSpec == Spec /\ Fairness

-----------------------------------------------------------------------------
(* Properties.                                                             *)

\* "ScriptEngines retains at most four distinct module paths, including failed
\* loads" (script_engines.go:22), and no more engines than that are alive,
\* those included whose load outlives Close.
WithinLimit ==
    /\ Cardinality(loaded) + Cardinality(failed) + Cardinality(loading) <= Limit
    /\ Cardinality({p \in Paths : backend[p] = "open"}) <= Limit

\* The loader runs once per path, however many callers race for it and
\* although a failing load gives up the lock before it is recorded.
LoadedOnce == \A p \in Paths : starts[p] <= 1

\* An engine is closed at most once, and never one that Load still hands out.
ClosedOnce ==
    \A p \in Paths : closes[p] <= 1 /\ (p \in loaded => backend[p] = "open")

\* When Close and every Load have returned, no engine is left open: the one
\* whose load was overtaken by Close is closed by its own loader.
NothingLeaks ==
    closed /\ (\A c \in Callers : pc[c] = "idle") /\ (\A k \in Closers : closing[k] = {})
        => \A p \in Paths : backend[p] # "open"

\* An engine is handed to a caller only while it is open.
HandsOutOpenEngines ==
    [][\A c \in Callers :
          answer'[c] = "engine" /\ pc[c] # "idle" /\ pc'[c] = "idle"
              => ~closed' /\ backend'[path[c]] = "open"]_vars

\* Every Load returns: a waiter is never stranded by a failing loader, by
\* Close clearing the table under it, or by a cancelled loader.
EveryLoadReturns == \A c \in Callers : (pc[c] # "idle") ~> (pc[c] = "idle")
=============================================================================
