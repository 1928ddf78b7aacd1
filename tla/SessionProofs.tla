---------------------------- MODULE SessionProofs ----------------------------
(***************************************************************************)
(* The parts of a command-line session that are proved for any number of   *)
(* callers, documents and tools: the script engines and the analysis run.  *)
(***************************************************************************)
EXTENDS ScriptEngines, Analysis, FiniteSetTheorems, TLAPS

-----------------------------------------------------------------------------
(***************************************************************************)
(* ScriptEngines                                                           *)
(*                                                                         *)
(* For any number of callers, closers and module paths: the loader runs    *)
(* once per path, every engine is closed at most once and none is left     *)
(* open when the session is over, and the session stays within its limit.  *)
(*                                                                         *)
(* The argument follows the ownership of a path: from the moment its load  *)
(* starts, its engine belongs to the loading caller, then to the session's *)
(* loaded table, then to the closer that emptied the table.                *)
(***************************************************************************)

Busy == {"loading", "finish", "reject", "discard"}

\* Caller c is the loader of p.
Owns(c, p) == pc[c] \in Busy /\ path[c] = p

\* Caller c is the loader of p and holds its engine.
Holds(c, p) ==
    /\ pc[c] \in {"finish", "reject", "discard"} /\ path[c] = p
    /\ outcome[c] # "error"

\* A path has one loader, which is registered while the session is open.
OneLoader ==
    /\ \A c, d \in Callers, p \in Paths : Owns(c, p) /\ Owns(d, p) => c = d
    /\ \A c \in Callers, p \in Paths : Owns(c, p) =>
          /\ starts[p] = 1
          /\ p \notin loaded /\ (~closed => p \in loading)
          /\ \A k \in Closers : p \notin closing[k]

\* While the session is open, a path that was started is in one of its tables.
Registered ==
    \A p \in Paths :
        /\ starts[p] <= 1
        /\ p \in loaded => starts[p] = 1
        /\ ~closed /\ starts[p] # 0 => p \in loaded \cup failed \cup loading
        /\ starts[p] = 0 => backend[p] = "none" /\ closes[p] = 0
                            /\ \A k \in Closers : p \notin closing[k]

\* Who has to close an open engine.
Owned ==
    \A p \in Paths :
        /\ p \in loaded => backend[p] = "open"
        /\ \A k \in Closers : p \in closing[k] => backend[p] = "open" /\ closed /\ p \notin loaded
        /\ \A k, l \in Closers : p \in closing[k] /\ p \in closing[l] => k = l
        /\ \A c \in Callers : Holds(c, p) => backend[p] = "open"
        /\ \A c \in Callers : Owns(c, p) /\ ~Holds(c, p) => backend[p] = "none"
        /\ backend[p] = "open" =>
              \/ p \in loaded
              \/ \E k \in Closers : p \in closing[k]
              \/ \E c \in Callers : Holds(c, p)

\* An engine that was not closed yet counts no close.
Counted ==
    \A p \in Paths : closes[p] = IF backend[p] = "closed" THEN 1 ELSE 0

Shape ==
    /\ pc \in [Callers -> {"idle", "waiting"} \cup Busy]
    /\ path \in [Callers -> Paths]
    /\ outcome \in [Callers -> Outcomes]
    /\ backend \in [Paths -> {"none", "open", "closed"}]
    /\ closes \in [Paths -> Nat] /\ starts \in [Paths -> Nat]
    /\ closing \in [Closers -> SUBSET Paths]
    /\ loaded \subseteq Paths
    /\ closed \in BOOLEAN /\ (closed => loaded = {})
    /\ \A c \in Callers :
          /\ pc[c] = "reject" => outcome[c] = "errorWithEngine"
          /\ pc[c] = "discard" => closed

\* The outcome published to waiters agrees with the table.
Published ==
    /\ pending \in [Paths -> {"none", "open", "engine", "failed", "closed"}]
    /\ answer \in [Callers -> Answers]
    /\ \A p \in Paths : pending[p] = "engine" /\ ~closed => p \in loaded

IInv == Shape /\ OneLoader /\ Registered /\ Owned /\ Counted /\ Published

-----------------------------------------------------------------------------
\* The invariant holds for a new session.
LEMMA InitIInv == Init => IInv
<1> SUFFICES ASSUME Init PROVE IInv
  OBVIOUS
<1>1. (CHOOSE p \in Paths : TRUE) \in Paths
  BY LimitAssumption
<1>2. Shape
  BY <1>1 DEF Init, Shape, Busy, Outcomes
<1>3. OneLoader /\ Registered /\ Owned
  BY DEF Init, OneLoader, Registered, Owned, Owns, Holds, Busy
<1>4. Counted /\ Published
  BY DEF Init, Counted, Published, Answers
<1> QED
  BY <1>2, <1>3, <1>4 DEF IInv

\* Every step of a Load or a Close keeps the invariant.
LEMMA IInvStep == IInv /\ [Next]_vars => IInv'
<1> SUFFICES ASSUME IInv, [Next]_vars PROVE IInv'
  OBVIOUS
<1>0. Shape /\ OneLoader /\ Registered /\ Owned /\ Counted /\ Published
  BY DEF IInv
<1> USE DEF session, callVars
<1>1. ASSUME NEW c \in Callers, NEW p \in Paths, LoadAnswers(c, p) PROVE IInv'
  <2>1. Shape'
    BY <1>0, <1>1 DEF LoadAnswers, Answer, Shape, Busy, Outcomes
  <2>2. OneLoader'
    BY <1>0, <1>1 DEF LoadAnswers, Answer, Shape, OneLoader, Registered, Owned, Owns, Busy
  <2>3. Registered'
    BY <1>0, <1>1 DEF LoadAnswers, Answer, Shape, OneLoader, Registered, Owned, Owns, Busy
  <2>4. Owned'
    BY <1>0, <1>1 DEF LoadAnswers, Answer, Shape, OneLoader, Registered, Owned, Owns, Holds, Busy, Outcomes
  <2>5. Counted'
    BY <1>0, <1>1 DEF LoadAnswers, Answer, Shape, OneLoader, Registered, Owned, Counted, Owns, Holds, Busy, Outcomes
  <2>6. Published'
    BY <1>0, <1>1 DEF LoadAnswers, Answer, Shape, Published, Answers, OneLoader, Owns, Busy
  <2> QED BY <2>1, <2>2, <2>3, <2>4, <2>5, <2>6 DEF IInv
<1>2. ASSUME NEW c \in Callers, NEW p \in Paths, LoadJoins(c, p) PROVE IInv'
  <2>1. Shape'
    BY <1>0, <1>2 DEF LoadJoins, Shape, Busy, Outcomes
  <2>2. OneLoader'
    BY <1>0, <1>2 DEF LoadJoins, Shape, OneLoader, Registered, Owned, Owns, Busy
  <2>3. Registered'
    BY <1>0, <1>2 DEF LoadJoins, Shape, OneLoader, Registered, Owned, Owns, Busy
  <2>4. Owned'
    BY <1>0, <1>2 DEF LoadJoins, Shape, OneLoader, Registered, Owned, Owns, Holds, Busy, Outcomes
  <2>5. Counted'
    BY <1>0, <1>2 DEF LoadJoins, Shape, OneLoader, Registered, Owned, Counted, Owns, Holds, Busy, Outcomes
  <2>6. Published'
    BY <1>0, <1>2 DEF LoadJoins, Shape, Published, Answers, OneLoader, Owns, Busy
  <2> QED BY <2>1, <2>2, <2>3, <2>4, <2>5, <2>6 DEF IInv
<1>3. ASSUME NEW c \in Callers, NEW p \in Paths, LoadStarts(c, p) PROVE IInv'
  <2>1. Shape'
    BY <1>0, <1>3 DEF LoadStarts, MayStart, Shape, Busy, Outcomes
  <2>2. OneLoader'
    BY <1>0, <1>3 DEF LoadStarts, MayStart, Shape, OneLoader, Registered, Owned, Owns, Busy
  <2>3. Registered'
    BY <1>0, <1>3 DEF LoadStarts, MayStart, Shape, OneLoader, Registered, Owned, Owns, Busy
  <2>4. Owned'
    BY <1>0, <1>3 DEF LoadStarts, MayStart, Shape, OneLoader, Registered, Owned, Owns, Holds, Busy, Outcomes
  <2>5. Counted'
    BY <1>0, <1>3 DEF LoadStarts, MayStart, Shape, OneLoader, Registered, Owned, Counted, Owns, Holds, Busy, Outcomes
  <2>6. Published'
    BY <1>0, <1>3 DEF LoadStarts, MayStart, Shape, Published, Answers, OneLoader, Owns, Busy
  <2> QED BY <2>1, <2>2, <2>3, <2>4, <2>5, <2>6 DEF IInv
<1>4. ASSUME NEW c \in Callers, LoaderReturns(c) PROVE IInv'
  <2>1. Shape'
    BY <1>0, <1>4 DEF LoaderReturns, Shape, Busy, Outcomes
  <2>2. OneLoader'
    BY <1>0, <1>4 DEF LoaderReturns, Shape, OneLoader, Registered, Owned, Owns, Busy
  <2>3. Registered'
    BY <1>0, <1>4 DEF LoaderReturns, Shape, OneLoader, Registered, Owned, Owns, Busy
  <2>4. Owned'
    BY <1>0, <1>4 DEF LoaderReturns, Shape, OneLoader, Registered, Owned, Owns, Holds, Busy, Outcomes
  <2>5. Counted'
    BY <1>0, <1>4 DEF LoaderReturns, Shape, OneLoader, Registered, Owned, Counted, Owns, Holds, Busy, Outcomes
  <2>6. Published'
    BY <1>0, <1>4 DEF LoaderReturns, Shape, Published, Answers, OneLoader, Owns, Busy
  <2> QED BY <2>1, <2>2, <2>3, <2>4, <2>5, <2>6 DEF IInv
<1>5. ASSUME NEW c \in Callers, FinishSettles(c) PROVE IInv'
  <2>1. Shape'
    BY <1>0, <1>5 DEF FinishSettles, Settle, Answer, Shape, Busy, Outcomes
  <2>2. OneLoader'
    BY <1>0, <1>5 DEF FinishSettles, Settle, Answer, Shape, OneLoader, Registered, Owned, Owns, Busy
  <2>3. Registered'
    BY <1>0, <1>5 DEF FinishSettles, Settle, Answer, Shape, OneLoader, Registered, Owned, Owns, Busy
  <2>4. Owned'
    BY <1>0, <1>5 DEF FinishSettles, Settle, Answer, Shape, OneLoader, Registered, Owned, Owns, Holds, Busy, Outcomes
  <2>5. Counted'
    BY <1>0, <1>5 DEF FinishSettles, Settle, Answer, Shape, OneLoader, Registered, Owned, Counted, Owns, Holds, Busy, Outcomes
  <2>6. Published'
    BY <1>0, <1>5 DEF FinishSettles, Settle, Answer, Shape, Published, Answers, OneLoader, Owns, Busy
  <2> QED BY <2>1, <2>2, <2>3, <2>4, <2>5, <2>6 DEF IInv
<1>6. ASSUME NEW c \in Callers, FinishRejects(c) PROVE IInv'
  <2>1. Shape'
    BY <1>0, <1>6 DEF FinishRejects, Shape, Busy, Outcomes
  <2>2. OneLoader'
    BY <1>0, <1>6 DEF FinishRejects, Shape, OneLoader, Registered, Owned, Owns, Busy
  <2>3. Registered'
    BY <1>0, <1>6 DEF FinishRejects, Shape, OneLoader, Registered, Owned, Owns, Busy
  <2>4. Owned'
    BY <1>0, <1>6 DEF FinishRejects, Shape, OneLoader, Registered, Owned, Owns, Holds, Busy, Outcomes
  <2>5. Counted'
    BY <1>0, <1>6 DEF FinishRejects, Shape, OneLoader, Registered, Owned, Counted, Owns, Holds, Busy, Outcomes
  <2>6. Published'
    BY <1>0, <1>6 DEF FinishRejects, Shape, Published, Answers, OneLoader, Owns, Busy
  <2> QED BY <2>1, <2>2, <2>3, <2>4, <2>5, <2>6 DEF IInv
<1>7. ASSUME NEW c \in Callers, RejectEngine(c) PROVE IInv'
  <2>1. Shape'
    BY <1>0, <1>7 DEF RejectEngine, CloseBackend, Settle, Abandon, Answer, Shape, Busy, Outcomes
  <2>0. /\ pc[c] = "reject"
        /\ pc' = [pc EXCEPT ![c] = "idle"] /\ loading' = loading \ {path[c]}
        /\ UNCHANGED <<closed, loaded, starts, path, closing>>
    BY <1>0, <1>7 DEF RejectEngine, Settle, Abandon, Answer, Shape
  <2>2. OneLoader'
    BY <1>0, <2>0 DEF Shape, OneLoader, Owns, Busy
  <2>3. Registered'
    <3>1. CASE closed
      BY <1>0, <1>7, <3>1 DEF RejectEngine, CloseBackend, Abandon, Answer, Shape, OneLoader, Registered, Owns, Busy
    <3>2. CASE ~closed
      BY <1>0, <1>7, <3>2 DEF RejectEngine, CloseBackend, Settle, Answer, Shape, OneLoader, Registered, Owns, Busy
    <3> QED BY <3>1, <3>2
  <2>4. Owned'
    BY <1>0, <1>7 DEF RejectEngine, CloseBackend, Settle, Abandon, Answer, Shape, OneLoader, Registered, Owned, Owns, Holds, Busy, Outcomes
  <2>5. Counted'
    BY <1>0, <1>7 DEF RejectEngine, CloseBackend, Settle, Abandon, Answer, Shape, OneLoader, Registered, Owned, Counted, Owns, Holds, Busy, Outcomes
  <2>6. Published'
    BY <1>0, <1>7 DEF RejectEngine, CloseBackend, Settle, Abandon, Answer, Shape, Published, Answers, OneLoader, Owns, Busy
  <2> QED BY <2>1, <2>2, <2>3, <2>4, <2>5, <2>6 DEF IInv
<1>8. ASSUME NEW c \in Callers, FinishClosed(c) PROVE IInv'
  <2>1. Shape'
    BY <1>0, <1>8 DEF FinishClosed, Shape, Busy, Outcomes
  <2>2. OneLoader'
    BY <1>0, <1>8 DEF FinishClosed, Shape, OneLoader, Registered, Owned, Owns, Busy
  <2>3. Registered'
    BY <1>0, <1>8 DEF FinishClosed, Shape, OneLoader, Registered, Owned, Owns, Busy
  <2>4. Owned'
    BY <1>0, <1>8 DEF FinishClosed, Shape, OneLoader, Registered, Owned, Owns, Holds, Busy, Outcomes
  <2>5. Counted'
    BY <1>0, <1>8 DEF FinishClosed, Shape, OneLoader, Registered, Owned, Counted, Owns, Holds, Busy, Outcomes
  <2>6. Published'
    BY <1>0, <1>8 DEF FinishClosed, Shape, Published, Answers, OneLoader, Owns, Busy
  <2> QED BY <2>1, <2>2, <2>3, <2>4, <2>5, <2>6 DEF IInv
<1>9. ASSUME NEW c \in Callers, DiscardEngine(c) PROVE IInv'
  <2>1. Shape'
    BY <1>0, <1>9 DEF DiscardEngine, CloseBackend, Abandon, Answer, Shape, Busy, Outcomes
  <2>2. OneLoader'
    BY <1>0, <1>9 DEF DiscardEngine, CloseBackend, Abandon, Answer, Shape, OneLoader, Registered, Owned, Owns, Busy
  <2>3. Registered'
    BY <1>0, <1>9 DEF DiscardEngine, CloseBackend, Abandon, Answer, Shape, OneLoader, Registered, Owned, Owns, Busy
  <2>4. Owned'
    BY <1>0, <1>9 DEF DiscardEngine, CloseBackend, Abandon, Answer, Shape, OneLoader, Registered, Owned, Owns, Holds, Busy, Outcomes
  <2>5. Counted'
    BY <1>0, <1>9 DEF DiscardEngine, CloseBackend, Abandon, Answer, Shape, OneLoader, Registered, Owned, Counted, Owns, Holds, Busy, Outcomes
  <2>6. Published'
    BY <1>0, <1>9 DEF DiscardEngine, CloseBackend, Abandon, Answer, Shape, Published, Answers, OneLoader, Owns, Busy
  <2> QED BY <2>1, <2>2, <2>3, <2>4, <2>5, <2>6 DEF IInv
<1>10. ASSUME NEW c \in Callers, Wait(c) PROVE IInv'
  <2>1. Shape'
    BY <1>0, <1>10 DEF Wait, Answer, Shape, Busy, Outcomes
  <2>2. OneLoader'
    BY <1>0, <1>10 DEF Wait, Answer, Shape, OneLoader, Registered, Owned, Owns, Busy
  <2>3. Registered'
    BY <1>0, <1>10 DEF Wait, Answer, Shape, OneLoader, Registered, Owned, Owns, Busy
  <2>4. Owned'
    BY <1>0, <1>10 DEF Wait, Answer, Shape, OneLoader, Registered, Owned, Owns, Holds, Busy, Outcomes
  <2>5. Counted'
    BY <1>0, <1>10 DEF Wait, Answer, Shape, OneLoader, Registered, Owned, Counted, Owns, Holds, Busy, Outcomes
  <2>6. Published'
    BY <1>0, <1>10 DEF Wait, WaitOver, Answer, Shape, Published, Answers, OneLoader, Owns, Busy
  <2> QED BY <2>1, <2>2, <2>3, <2>4, <2>5, <2>6 DEF IInv
<1>11. ASSUME NEW c \in Callers, Cancel(c) PROVE IInv'
  <2>1. Shape'
    BY <1>0, <1>11 DEF Cancel, Shape, Busy, Outcomes
  <2>2. OneLoader'
    BY <1>0, <1>11 DEF Cancel, Shape, OneLoader, Registered, Owned, Owns, Busy
  <2>3. Registered'
    BY <1>0, <1>11 DEF Cancel, Shape, OneLoader, Registered, Owned, Owns, Busy
  <2>4. Owned'
    BY <1>0, <1>11 DEF Cancel, Shape, OneLoader, Registered, Owned, Owns, Holds, Busy, Outcomes
  <2>5. Counted'
    BY <1>0, <1>11 DEF Cancel, Shape, OneLoader, Registered, Owned, Counted, Owns, Holds, Busy, Outcomes
  <2>6. Published'
    BY <1>0, <1>11 DEF Cancel, Shape, Published, Answers, OneLoader, Owns, Busy
  <2> QED BY <2>1, <2>2, <2>3, <2>4, <2>5, <2>6 DEF IInv
<1>12. ASSUME NEW k \in Closers, Close(k) PROVE IInv'
  <2>1. Shape'
    BY <1>0, <1>12 DEF Close, Shape, Busy, Outcomes
  <2>2. OneLoader'
    BY <1>0, <1>12 DEF Close, Shape, OneLoader, Registered, Owned, Owns, Busy
  <2>3. Registered'
    BY <1>0, <1>12 DEF Close, Shape, OneLoader, Registered, Owned, Owns, Busy
  <2>4. Owned'
    BY <1>0, <1>12 DEF Close, Shape, OneLoader, Registered, Owned, Owns, Holds, Busy, Outcomes
  <2>5. Counted'
    BY <1>0, <1>12 DEF Close, Shape, OneLoader, Registered, Owned, Counted, Owns, Holds, Busy, Outcomes
  <2>6. Published'
    BY <1>0, <1>12 DEF Close, Shape, Published, Answers, OneLoader, Owns, Busy
  <2> QED BY <2>1, <2>2, <2>3, <2>4, <2>5, <2>6 DEF IInv
<1>13. ASSUME NEW k \in Closers, NEW p \in Paths, CloseOne(k, p) PROVE IInv'
  <2>1. Shape'
    BY <1>0, <1>13 DEF CloseOne, CloseBackend, Shape, Busy, Outcomes
  <2>2. OneLoader'
    BY <1>0, <1>13 DEF CloseOne, CloseBackend, Shape, OneLoader, Registered, Owned, Owns, Busy
  <2>3. Registered'
    BY <1>0, <1>13 DEF CloseOne, CloseBackend, Shape, OneLoader, Registered, Owned, Owns, Busy
  <2>4. Owned'
    BY <1>0, <1>13 DEF CloseOne, CloseBackend, Shape, OneLoader, Registered, Owned, Owns, Holds, Busy, Outcomes
  <2>5. Counted'
    BY <1>0, <1>13 DEF CloseOne, CloseBackend, Shape, OneLoader, Registered, Owned, Counted, Owns, Holds, Busy, Outcomes
  <2>6. Published'
    BY <1>0, <1>13 DEF CloseOne, CloseBackend, Shape, Published, Answers, OneLoader, Owns, Busy
  <2> QED BY <2>1, <2>2, <2>3, <2>4, <2>5, <2>6 DEF IInv
<1>14. CASE UNCHANGED vars
  BY <1>0, <1>14 DEF vars, IInv, Shape, OneLoader, Registered, Owned, Counted, Owns, Holds, Published
<1> QED
  BY <1>1, <1>2, <1>3, <1>4, <1>5, <1>6, <1>7, <1>8, <1>9, <1>10, <1>11, <1>12, <1>13, <1>14 DEF Next, CallerStep, CallStep, CloserStep

\* In every reachable state each engine has one owner: its loader, the session
\* or a Close.
THEOREM IInvHolds == Spec => []IInv
  BY InitIInv, IInvStep, PTL DEF Spec

\* The loader runs at most once for a path.
THEOREM LoaderRunsOnce == Spec => []LoadedOnce
<1>1. IInv => LoadedOnce
  BY DEF IInv, Registered, LoadedOnce
<1> QED
  BY <1>1, IInvHolds, PTL

\* No engine is closed twice, and none in the table is closed.
THEOREM EnginesClosedOnce == Spec => []ClosedOnce
<1>1. IInv => ClosedOnce
  BY DEF IInv, Shape, Owned, Counted, ClosedOnce
<1> QED
  BY <1>1, IInvHolds, PTL

\* When Close and all loads have returned, every engine is closed.
THEOREM NoEngineLeaks == Spec => []NothingLeaks
<1>1. IInv => NothingLeaks
  <2> SUFFICES ASSUME IInv, closed, \A c \in Callers : pc[c] = "idle",
                      \A k \in Closers : closing[k] = {}, NEW p \in Paths
               PROVE  backend[p] # "open"
    BY DEF NothingLeaks
  <2>1. \A c \in Callers : ~Holds(c, p)
    BY DEF Holds
  <2>2. p \notin loaded
    BY DEF IInv, Shape
  <2> QED
    BY <2>1, <2>2 DEF IInv, Owned
<1> QED
  BY <1>1, IInvHolds, PTL

\* Whoever is answered with an engine, the loader or a waiter, gets an open one.
THEOREM OnlyOpenEngines == Spec => HandsOutOpenEngines
<1> DEFINE A == \A c \in Callers :
                  answer'[c] = "engine" /\ pc[c] # "idle" /\ pc'[c] = "idle"
                     => ~closed' /\ backend'[path[c]] = "open"
<1>1. IInv /\ [Next]_vars => A
  <2> SUFFICES ASSUME IInv, [Next]_vars, NEW c \in Callers, answer'[c] = "engine",
                      pc[c] # "idle", pc'[c] = "idle"
               PROVE  ~closed' /\ backend'[path[c]] = "open"
    OBVIOUS
  <2> USE DEF session, callVars
  <2>0. Shape /\ OneLoader /\ Registered /\ Owned /\ Counted /\ Published
    BY DEF IInv
  <2>1. CASE FinishSettles(c)
    BY <2>0, <2>1 DEF FinishSettles, Settle, Answer, Shape, Owned, Holds, Outcomes, Published
  <2>2. CASE Wait(c)
    BY <2>0, <2>2 DEF Wait, WaitOver, Answer, Shape, Owned, Published
  <2>3. CASE RejectEngine(c) \/ DiscardEngine(c)
    BY <2>0, <2>3 DEF RejectEngine, DiscardEngine, Settle, Abandon, Answer, Shape, Published
  <2>4. ASSUME NEW d \in Callers, d # c, CallerStep(d) PROVE FALSE
    BY <2>0, <2>4 DEF CallerStep, LoaderReturns, FinishSettles, FinishRejects,
          RejectEngine, FinishClosed, DiscardEngine, Wait, Settle, Abandon, Answer, Shape
  <2>5. ASSUME NEW d \in Callers, NEW p \in Paths, CallStep(d, p) PROVE FALSE
    BY <2>0, <2>5 DEF CallStep, LoadAnswers, LoadJoins, LoadStarts, Answer, Shape
  <2>6. CASE LoaderReturns(c) \/ FinishRejects(c) \/ FinishClosed(c)
    BY <2>0, <2>6 DEF LoaderReturns, FinishRejects, FinishClosed, Shape
  <2>7. CASE UNCHANGED callVars
    BY <2>7
  <2> QED
    BY <2>1, <2>2, <2>3, <2>4, <2>5, <2>6, <2>7
       DEF Next, CallerStep, CloserStep, Close, CloseOne, Cancel, vars
<1>2. IInv /\ [Next]_vars => [A]_vars
  BY <1>1
<1> QED
  BY <1>2, IInvHolds, PTL DEF Spec, HandsOutOpenEngines
-----------------------------------------------------------------------------
(* The limit.  A path occupies a place in one of the three tables until    *)
(* Close empties them, but an engine may outlive its entry: a load that    *)
(* Close overtakes still ends with an open engine.  The engines are        *)
(* therefore counted by the loads that were ever started, and a load       *)
(* starts only on an open session, where each earlier one has an entry.    *)

Started == {p \in Paths : starts[p] # 0}

Entries == Cardinality(loaded) + Cardinality(failed) + Cardinality(loading)

Tables == failed \subseteq Paths /\ loading \subseteq Paths

Room ==
    /\ Tables
    /\ Entries <= Limit
    /\ Cardinality(Started) <= Limit

\* The tables are finite.
LEMMA FiniteTables ==
    ASSUME Shape, Tables
    PROVE  /\ IsFiniteSet(loaded) /\ IsFiniteSet(failed) /\ IsFiniteSet(loading)
           /\ Cardinality(loaded) \in Nat /\ Cardinality(failed) \in Nat
           /\ Cardinality(loading) \in Nat
  BY LimitAssumption, FS_Subset, FS_CardinalityType DEF Shape, Tables

\* The size of a table that gains or loses a path.
LEMMA OnePath ==
    ASSUME NEW S, IsFiniteSet(S), NEW p
    PROVE  /\ Cardinality(S \cup {p}) <= Cardinality(S) + 1
           /\ p \in S => Cardinality(S \ {p}) = Cardinality(S) - 1
           /\ Cardinality(S \ {p}) <= Cardinality(S)
           /\ Cardinality(S) \in Nat /\ Cardinality(S \ {p}) \in Nat
           /\ Cardinality(S \cup {p}) \in Nat
<1>1. /\ IsFiniteSet(S \cup {p}) /\ IsFiniteSet(S \ {p})
      /\ Cardinality(S) \in Nat
      /\ Cardinality(S \cup {p}) = IF p \in S THEN Cardinality(S) ELSE Cardinality(S) + 1
      /\ Cardinality(S \ {p}) = IF p \in S THEN Cardinality(S) - 1 ELSE Cardinality(S)
  BY FS_AddElement, FS_RemoveElement, FS_CardinalityType
<1>2. Cardinality(S \cup {p}) \in Nat /\ Cardinality(S \ {p}) \in Nat
  BY <1>1, FS_CardinalityType
<1> QED
  BY <1>1, <1>2

\* A load starts only if the tables, and hence the loads so far, leave room.
LEMMA StartHasRoom ==
    ASSUME IInv, Room, NEW c \in Callers, NEW p \in Paths, LoadStarts(c, p)
    PROVE  Room'
<1>0. Shape /\ Tables /\ Registered /\ Entries < Limit /\ ~closed
  BY DEF IInv, Room, LoadStarts, MayStart, Entries
<1> USE DEF LoadStarts, MayStart
<1>1. Tables' /\ Entries' <= Limit
  <2>1. loading' = loading \cup {p} /\ loaded' = loaded /\ failed' = failed
    OBVIOUS
  <2>2. Cardinality(loading') <= Cardinality(loading) + 1 /\ Cardinality(loading') \in Nat
    BY <1>0, <2>1, FiniteTables, OnePath
  <2>3. Tables'
    BY <1>0, <2>1 DEF Tables
  <2> QED
    BY <1>0, <2>1, <2>2, <2>3, FiniteTables, LimitAssumption DEF Entries
<1>2. Cardinality(Started') <= Limit
  <2>1. Started \subseteq (loaded \cup failed) \cup loading
    BY <1>0 DEF Registered, Started
  <2>2. /\ IsFiniteSet(loaded \cup failed)
        /\ IsFiniteSet((loaded \cup failed) \cup loading)
        /\ Cardinality(loaded \cup failed) <= Cardinality(loaded) + Cardinality(failed)
        /\ Cardinality((loaded \cup failed) \cup loading)
             <= Cardinality(loaded \cup failed) + Cardinality(loading)
    <3>1. \A S, T : IsFiniteSet(S) /\ IsFiniteSet(T) =>
             IsFiniteSet(S \cup T) /\ Cardinality(S \cup T) <= Cardinality(S) + Cardinality(T)
      <4> SUFFICES ASSUME NEW S, NEW T, IsFiniteSet(S), IsFiniteSet(T)
                   PROVE  /\ IsFiniteSet(S \cup T)
                          /\ Cardinality(S \cup T) <= Cardinality(S) + Cardinality(T)
        OBVIOUS
      <4>1. /\ IsFiniteSet(S \cup T)
            /\ Cardinality(S \cup T) = Cardinality(S) + Cardinality(T) - Cardinality(S \cap T)
        BY FS_Union
      <4>2. Cardinality(S) \in Nat /\ Cardinality(T) \in Nat /\ Cardinality(S \cap T) \in Nat
        BY FS_CardinalityType, FS_Intersection
      <4> QED
        BY <4>1, <4>2
    <3>2. IsFiniteSet(loaded) /\ IsFiniteSet(failed) /\ IsFiniteSet(loading)
      BY <1>0, FiniteTables
    <3> QED
      BY <3>1, <3>2
  <2>3. IsFiniteSet(Started) /\ Cardinality(Started) < Limit /\ Cardinality(Started) \in Nat
    <3>1. /\ IsFiniteSet(Started)
          /\ Cardinality(Started) <= Cardinality((loaded \cup failed) \cup loading)
      BY <2>1, <2>2, FS_Subset
    <3>2. Cardinality(loaded \cup failed) \in Nat /\ Cardinality((loaded \cup failed) \cup loading) \in Nat
      BY <2>2, FS_CardinalityType
    <3> QED
      BY <1>0, <2>2, <3>1, <3>2, FiniteTables, FS_CardinalityType, LimitAssumption DEF Entries
  <2>4. Started' = Started \cup {p}
    BY <1>0 DEF Started, Shape
  <2>5. Cardinality(Started \cup {p}) <= Cardinality(Started) + 1
        /\ Cardinality(Started \cup {p}) \in Nat
    BY <2>3, OnePath
  <2> QED
    BY <2>3, <2>4, <2>5, LimitAssumption
<1> QED
  BY <1>1, <1>2 DEF Room

\* The end of a load moves its path from one table to another, or drops it.
LEMMA EndKeepsRoom ==
    ASSUME IInv, Room, NEW c \in Callers, NEW p \in Paths, p \in loading \/ closed,
           (Settle(c, p) /\ ~closed) \/ Abandon(c, p), starts' = starts
    PROVE  Room'
<1>0. Shape /\ Tables /\ Entries <= Limit
  BY DEF IInv, Room
<1>1. Tables'
  BY <1>0 DEF Settle, Abandon, Tables
<1>2. Cardinality(Started') <= Limit
  BY DEF Room, Started
<1>3. loading' = loading \ {p}
  BY DEF Settle, Abandon
<1>4. CASE Abandon(c, p)
  <2>1. Cardinality(loading') <= Cardinality(loading) /\ Cardinality(loading') \in Nat
    BY <1>0, <1>3, FiniteTables, OnePath
  <2>2. loaded' = loaded /\ failed' = failed
    BY <1>4 DEF Abandon
  <2> QED
    BY <1>0, <1>1, <1>2, <2>1, <2>2, FiniteTables, LimitAssumption DEF Entries, Room
<1>5. CASE Settle(c, p) /\ ~closed
  <2>1. Cardinality(loading') = Cardinality(loading) - 1
    BY <1>0, <1>3, <1>5, FiniteTables, OnePath
  <2>2. \/ loaded' = loaded \cup {p} /\ failed' = failed
        \/ failed' = failed \cup {p} /\ loaded' = loaded
    BY <1>5 DEF Settle
  <2>3. /\ Cardinality(loaded \cup {p}) <= Cardinality(loaded) + 1
        /\ Cardinality(failed \cup {p}) <= Cardinality(failed) + 1
        /\ Cardinality(loaded \cup {p}) \in Nat /\ Cardinality(failed \cup {p}) \in Nat
    BY <1>0, FiniteTables, OnePath
  <2>4. Entries' = Cardinality(loaded') + Cardinality(failed') + Cardinality(loading')
    BY DEF Entries
  <2>5. Entries' <= Limit
    <3>1. CASE loaded' = loaded \cup {p} /\ failed' = failed
      BY <1>0, <2>1, <2>3, <2>4, <3>1, FiniteTables, LimitAssumption DEF Entries
    <3>2. CASE failed' = failed \cup {p} /\ loaded' = loaded
      BY <1>0, <2>1, <2>3, <2>4, <3>2, FiniteTables, LimitAssumption DEF Entries
    <3> QED
      BY <2>2, <3>1, <3>2
  <2> QED
    BY <1>1, <1>2, <2>5 DEF Room
<1> QED
  BY <1>4, <1>5

\* Every step of a Load or a Close leaves the session within its limit.
LEMMA RoomStep == IInv /\ Room /\ [Next]_vars => Room'
<1> SUFFICES ASSUME IInv, Room, [Next]_vars PROVE Room'
  OBVIOUS
<1> USE DEF session
<1>0. Shape /\ Tables /\ OneLoader
  BY DEF IInv, Room
<1>1. ASSUME UNCHANGED session, UNCHANGED starts PROVE Room'
  BY <1>1 DEF Room, Tables, Entries, Started
<1>2. ASSUME NEW c \in Callers, NEW p \in Paths, CallStep(c, p) PROVE Room'
  <2>1. CASE LoadStarts(c, p)
    BY <2>1, StartHasRoom
  <2>2. CASE LoadAnswers(c, p) \/ LoadJoins(c, p)
    BY <1>1, <2>2 DEF LoadAnswers, LoadJoins
  <2> QED
    BY <1>2, <2>1, <2>2 DEF CallStep
<1>3. ASSUME NEW c \in Callers, FinishSettles(c) \/ RejectEngine(c) \/ DiscardEngine(c)
      PROVE  Room'
  <2>1. path[c] \in Paths /\ (path[c] \in loading \/ closed)
    BY <1>0, <1>3 DEF FinishSettles, RejectEngine, DiscardEngine, Shape, OneLoader, Owns, Busy
  <2>2. (Settle(c, path[c]) /\ ~closed) \/ Abandon(c, path[c])
    BY <1>3 DEF FinishSettles, RejectEngine, DiscardEngine
  <2>3. starts' = starts
    BY <1>3 DEF FinishSettles, RejectEngine, DiscardEngine
  <2> QED
    BY <2>1, <2>2, <2>3, EndKeepsRoom
<1>4. ASSUME NEW c \in Callers, FinishClosed(c) PROVE Room'
  <2>1. loading' = loading \ {path[c]} /\ UNCHANGED <<loaded, failed, starts>>
    BY <1>4 DEF FinishClosed
  <2>2. Cardinality(loading') <= Cardinality(loading) /\ Cardinality(loading') \in Nat
    BY <1>0, <2>1, FiniteTables, OnePath
  <2> QED
    BY <1>0, <2>1, <2>2, FiniteTables, LimitAssumption DEF Room, Tables, Entries, Started
<1>5. ASSUME NEW c \in Callers, LoaderReturns(c) \/ FinishRejects(c) \/ Wait(c) \/ Cancel(c)
      PROVE  Room'
  BY <1>1, <1>5 DEF LoaderReturns, FinishRejects, Wait, Cancel
<1>6. ASSUME NEW k \in Closers, CloserStep(k) PROVE Room'
  <2>1. CASE Close(k)
    BY <2>1, FS_EmptySet, LimitAssumption DEF Close, Room, Tables, Entries, Started
  <2>2. CASE \E p \in Paths : CloseOne(k, p)
    BY <1>1, <2>2 DEF CloseOne
  <2> QED
    BY <1>6, <2>1, <2>2 DEF CloserStep
<1> QED
  BY <1>1, <1>2, <1>3, <1>4, <1>5, <1>6 DEF Next, CallerStep, vars

\* The session never holds more than Limit paths, failed loads and loads in
\* flight included, nor are more than Limit engines alive, not even while loads
\* that Close has overtaken are still running.
THEOREM SessionStaysWithinLimit == Spec => []WithinLimit
<1>1. Init => Room
  <2> SUFFICES ASSUME Init PROVE Room
    OBVIOUS
  <2>1. Started = {}
    BY DEF Init, Started
  <2> QED
    BY <2>1, FS_EmptySet, LimitAssumption DEF Init, Room, Tables, Entries
<1>2. Spec => []Room
  BY <1>1, RoomStep, IInvHolds, PTL DEF Spec
<1>3. IInv /\ Room => WithinLimit
  <2> SUFFICES ASSUME IInv, Room PROVE WithinLimit
    OBVIOUS
  <2>1. {p \in Paths : backend[p] = "open"} \subseteq Started
    BY DEF IInv, Registered, Started
  <2>2. IsFiniteSet(Started)
    BY LimitAssumption, FS_Subset DEF Started
  <2>3. /\ Cardinality({p \in Paths : backend[p] = "open"}) <= Cardinality(Started)
        /\ Cardinality({p \in Paths : backend[p] = "open"}) \in Nat
    BY <2>1, <2>2, FS_Subset, FS_CardinalityType
  <2>4. Cardinality(Started) \in Nat
    BY <2>2, FS_CardinalityType
  <2> QED
    BY <2>3, <2>4, LimitAssumption DEF Room, Entries, WithinLimit
<1> QED
  BY <1>2, <1>3, IInvHolds, PTL

-----------------------------------------------------------------------------
(***************************************************************************)
(* Analysis                                                                *)
(*                                                                         *)
(* For any number of documents, tools, analyzers and process slots: an     *)
(* analysis joins what it starts, and without an error it is complete.     *)
(*                                                                         *)
(* Both rest on the order in which a document passes its stages: a stage   *)
(* ends only when each of its tasks has ended, and a task that has ended   *)
(* brought something.  Check in turn passes its own stages only when the   *)
(* documents have passed theirs.                                           *)
(***************************************************************************)

Results == {"findings", "partial", "error"}

RunTypes ==
  /\ over \in BOOLEAN
  /\ main \in {"start", "wait", "join", "close", "returned"}
  /\ doc \in [Docs -> {"queued", "compose", "tools", "analyzers", "policy", "done"}]
  /\ task \in [Docs \X Tasks -> {"queued", "acquire", "work", "done"}]
  /\ brought \in [Docs \X Tasks -> {"none"} \cup Results]
  /\ kept \in [Docs -> SUBSET Tasks]
  /\ broken \subseteq Docs
  /\ err \in {"none", "document", "context"}
  /\ engines \in {"open", "closed"}
  /\ lint \in {"select", "grace", "returned"}
  /\ shown \in {"none", "analysis", "timeout"}

\* The tasks that have ended when a document is in a stage.
Ended(d) == CASE doc[d] = "analyzers" -> Tools
              [] doc[d] = "policy" -> Tasks
              [] OTHER -> {}

\* A task runs in its stage only, its stage ends after it, and a task that has
\* ended brought something.
Staged ==
  /\ \A d \in Docs, t \in Tasks :
       /\ task[<<d, t>>] \in {"acquire", "work"} => t \in StageTasks(d)
       /\ task[<<d, t>>] = "done" => brought[<<d, t>>] \in Results
  /\ \A d \in Docs : \A t \in Ended(d) : task[<<d, t>>] = "done"

\* The processes hold slots of the semaphore.
Pool == IsFiniteSet(Processes) /\ ProcessLimit

\* A document that ended without an error ran every task to its end.
Complete ==
  \A d \in Docs \ broken : doc[d] = "done" =>
    /\ kept[d] = Tasks
    /\ \A t \in Tasks : task[<<d, t>>] = "done" /\ brought[<<d, t>>] = "findings"

\* The documents are done before Check joins the processes, and an error of one
\* is an error of Check.
Phases ==
  /\ main # "start" => \A d \in Docs : doc[d] # "queued"
  /\ main \in {"join", "close", "returned"} =>
       /\ \A d \in Docs : doc[d] = "done"
       /\ err = "none" => broken = {}
  /\ engines = "closed" => main = "returned"

\* The deadline's error comes after the deadline, so a result that was received
\* before it has another error or none.
Outcome ==
  /\ err = "context" => over
  /\ shown = "analysis" => main = "returned" /\ err # "context"

RunInv == RunTypes /\ Staged /\ Pool /\ Complete /\ Phases /\ Outcome
-----------------------------------------------------------------------------
\* The invariant holds before the first document is started.
LEMMA InitRunInv == RunInit => RunInv
<1> SUFFICES ASSUME RunInit PROVE RunInv
  OBVIOUS
<1>1. RunTypes
  BY DEF RunInit, RunTypes
<1>2. Staged
  BY DEF RunInit, Staged, Ended
<1>3. Pool
  <2>1. Processes = {}
    BY DEF RunInit, Processes, Tasks
  <2> QED
    BY <2>1, FS_EmptySet, SlotsAssumption DEF Pool, ProcessLimit
<1>4. Complete /\ Phases /\ Outcome
  BY DEF RunInit, Complete, Phases, Outcome
<1> QED
  BY <1>1, <1>2, <1>3, <1>4 DEF RunInv

\* A process that ends gives its slot back, and only Acquire takes one.
LEMMA PoolStep ==
    ASSUME RunTypes, Pool, NEW d \in Docs, NEW t \in Tasks, TaskStep(d, t)
    PROVE  Pool'
<1>1. CASE Processes' \subseteq Processes
  <2>1. IsFiniteSet(Processes') /\ Cardinality(Processes') <= Cardinality(Processes)
    BY <1>1, FS_Subset DEF Pool
  <2>2. Cardinality(Processes') \in Nat /\ Cardinality(Processes) \in Nat
    BY <2>1, FS_CardinalityType DEF Pool
  <2> QED
    BY <2>1, <2>2, SlotsAssumption DEF Pool, ProcessLimit
<1>2. CASE MayRun /\ Processes' \subseteq Processes \cup {<<d, t>>}
  <2>1. /\ IsFiniteSet(Processes \cup {<<d, t>>})
        /\ Cardinality(Processes \cup {<<d, t>>}) <= Cardinality(Processes) + 1
        /\ Cardinality(Processes) \in Nat
    <3>1. IsFiniteSet(Processes) /\ Cardinality(Processes) \in Nat
      BY FS_CardinalityType DEF Pool
    <3>2. /\ IsFiniteSet(Processes \cup {<<d, t>>})
          /\ \/ Cardinality(Processes \cup {<<d, t>>}) = Cardinality(Processes)
             \/ Cardinality(Processes \cup {<<d, t>>}) = Cardinality(Processes) + 1
      BY <3>1, FS_AddElement
    <3> QED
      BY <3>1, <3>2
  <2>2. /\ IsFiniteSet(Processes')
        /\ Cardinality(Processes') <= Cardinality(Processes \cup {<<d, t>>})
    BY <1>2, <2>1, FS_Subset
  <2>3. Cardinality(Processes') \in Nat /\ Cardinality(Processes \cup {<<d, t>>}) \in Nat
    BY <2>1, <2>2, FS_CardinalityType
  <2> QED
    BY <1>2, <2>1, <2>2, <2>3, SlotsAssumption DEF Pool, ProcessLimit, MayRun
<1>3. CASE StartTask(d, t) \/ Finish(d, t)
  <2>1. \A x \in Docs \X Tools : task'[x] = "work" => task[x] = "work"
    BY <1>3 DEF StartTask, Finish, EndTask, RunTypes, Tasks
  <2> QED
    BY <1>1, <2>1 DEF Processes
<1>4. CASE Acquire(d, t)
  <2>1. CASE task' = [task EXCEPT ![<<d, t>>] = "work"] /\ MayRun
    <3>1. \A x \in Docs \X Tools : task'[x] = "work" => task[x] = "work" \/ x = <<d, t>>
      BY <2>1 DEF RunTypes, Tasks
    <3> QED
      BY <1>2, <2>1, <3>1 DEF Processes
  <2>2. CASE task' = [task EXCEPT ![<<d, t>>] = "done"]
    <3>1. \A x \in Docs \X Tools : task'[x] = "work" => task[x] = "work"
      BY <2>2 DEF RunTypes, Tasks
    <3> QED
      BY <1>1, <3>1 DEF Processes
  <2> QED
    BY <1>4, <2>1, <2>2 DEF Acquire, EndTask
<1> QED
  BY <1>3, <1>4 DEF TaskStep

\* What a step of a task does to the task, and that it leaves the rest alone.
LEMMA TaskEffect ==
    ASSUME RunTypes, NEW d \in Docs, NEW t \in Tasks, TaskStep(d, t)
    PROVE  /\ RunTypes'
           /\ UNCHANGED <<over, main, doc, kept, broken, err, engines, lint, shown>>
           /\ task[<<d, t>>] # "done"
           /\ task[<<d, t>>] = "queued" => t \in StageTasks(d)
           /\ task'[<<d, t>>] # "queued"
           /\ task'[<<d, t>>] = "done" => brought'[<<d, t>>] \in Results
           /\ \A e \in Docs, u \in Tasks : <<e, u>> # <<d, t>> =>
                task'[<<e, u>>] = task[<<e, u>>] /\ brought'[<<e, u>>] = brought[<<e, u>>]
<1> USE DEF mainVars, lintVars, Results
<1>1. CASE StartTask(d, t)
  BY <1>1 DEF RunTypes, StartTask, EndTask
<1>2. CASE Acquire(d, t)
  BY <1>2 DEF RunTypes, Acquire, EndTask
<1>3. CASE Finish(d, t)
  BY <1>3 DEF RunTypes, Finish, EndTask
<1> QED
  BY <1>1, <1>2, <1>3 DEF TaskStep

\* A task keeps the invariant.
LEMMA TaskInv ==
    ASSUME RunInv, NEW d \in Docs, NEW t \in Tasks, TaskStep(d, t)
    PROVE  RunInv'
<1>0. RunTypes /\ Staged /\ Pool /\ Complete /\ Phases /\ Outcome
  BY DEF RunInv
<1>1. /\ RunTypes'
      /\ UNCHANGED <<over, main, doc, kept, broken, err, engines, lint, shown>>
      /\ task[<<d, t>>] # "done"
      /\ task[<<d, t>>] = "queued" => t \in StageTasks(d)
      /\ task'[<<d, t>>] # "queued"
      /\ task'[<<d, t>>] = "done" => brought'[<<d, t>>] \in Results
      /\ \A e \in Docs, u \in Tasks : <<e, u>> # <<d, t>> =>
           task'[<<e, u>>] = task[<<e, u>>] /\ brought'[<<e, u>>] = brought[<<e, u>>]
  BY <1>0, TaskEffect
<1>2. Staged'
  <2>1. \A e \in Docs : StageTasks(e)' = StageTasks(e) /\ Ended(e)' = Ended(e)
    BY <1>1 DEF StageTasks, Ended
  <2>2. t \in StageTasks(d)
    BY <1>0, <1>1 DEF RunTypes, Staged
  <2>3. ASSUME NEW e \in Docs, NEW u \in Tasks
        PROVE  /\ task'[<<e, u>>] \in {"acquire", "work"} => u \in StageTasks(e)
               /\ task'[<<e, u>>] = "done" => brought'[<<e, u>>] \in Results
    <3>1. CASE <<e, u>> = <<d, t>>
      BY <1>1, <2>2, <3>1
    <3>2. CASE <<e, u>> # <<d, t>>
      BY <1>0, <1>1, <3>2 DEF Staged
    <3> QED
      BY <3>1, <3>2
  <2>4. ASSUME NEW e \in Docs, NEW u \in Ended(e) PROVE task'[<<e, u>>] = "done"
    <3>1. u \in Tasks /\ task[<<e, u>>] = "done"
      BY <1>0 DEF Staged, Ended, Tasks
    <3> QED
      BY <1>1, <3>1
  <2> QED
    BY <2>1, <2>3, <2>4 DEF Staged
<1>3. Complete'
  <2>1. ASSUME NEW e \in Docs \ broken, doc[e] = "done", NEW u \in Tasks
        PROVE  task'[<<e, u>>] = "done" /\ brought'[<<e, u>>] = "findings"
    BY <1>0, <1>1, <2>1 DEF Complete
  <2> QED
    BY <1>0, <1>1, <2>1 DEF Complete
<1>4. Phases' /\ Outcome'
  BY <1>0, <1>1 DEF Phases, Outcome
<1> QED
  BY <1>0, <1>1, <1>2, <1>3, <1>4, PoolStep DEF RunInv

\* A step of a document that does not end it.
LEMMA StageInv ==
    ASSUME RunInv, NEW d \in Docs, NEW s, doc' = [doc EXCEPT ![d] = s],
           \/ doc[d] = "queued" /\ main = "start" /\ s = "compose"
           \/ doc[d] = "compose" /\ s = "tools"
           \/ doc[d] = "tools" /\ s = "analyzers" /\ Joined(d)
           \/ doc[d] = "analyzers" /\ s = "policy" /\ Joined(d),
           UNCHANGED <<over, main, task, brought, kept, broken, err, engines, lint, shown>>
    PROVE  RunInv'
<1>0. RunTypes /\ Staged /\ Pool /\ Complete /\ Phases /\ Outcome
  BY DEF RunInv
<1>1. doc'[d] = s /\ s # "done" /\ s # "queued"
      /\ doc[d] # "done" /\ \A e \in Docs \ {d} : doc'[e] = doc[e]
  BY <1>0 DEF RunTypes
<1>2. RunTypes'
  BY <1>0 DEF RunTypes
<1>3. Pool'
  BY <1>0 DEF Pool, ProcessLimit, Processes
<1>4. Complete' /\ Phases' /\ Outcome'
  BY <1>0, <1>1 DEF Complete, Phases, Outcome
<1>5. Staged'
  <2>1. \A e \in Docs \ {d} : StageTasks(e)' = StageTasks(e) /\ Ended(e)' = Ended(e)
    BY <1>1 DEF StageTasks, Ended
  <2>2. ASSUME NEW u \in Tasks, task[<<d, u>>] \in {"acquire", "work"} PROVE u \in StageTasks(d)'
    <3>1. u \in StageTasks(d)
      BY <1>0, <2>2 DEF Staged
    <3>2. ~Joined(d)
      BY <2>2, <3>1 DEF Joined
    <3> QED
      BY <1>1, <3>1, <3>2 DEF StageTasks
  <2>3. ASSUME NEW u \in Ended(d)' PROVE task[<<d, u>>] = "done"
    <3>1. CASE doc[d] = "tools"
      <4>1. Ended(d)' = Tools /\ StageTasks(d) = Tools
        BY <1>1, <3>1 DEF Ended, StageTasks
      <4> QED
        BY <3>1, <4>1 DEF Joined
    <3>2. CASE doc[d] = "analyzers"
      <4>1. Ended(d)' = Tasks /\ StageTasks(d) = Analyzers /\ Ended(d) = Tools
        BY <1>1, <3>2 DEF Ended, StageTasks
      <4> QED
        BY <1>0, <3>2, <4>1 DEF Joined, Staged, Tasks
    <3>3. CASE doc[d] \in {"queued", "compose"}
      BY <1>1, <3>3 DEF Ended
    <3> QED
      BY <3>1, <3>2, <3>3
  <2> QED
    BY <1>0, <2>1, <2>2, <2>3 DEF Staged
<1> QED
  BY <1>2, <1>3, <1>4, <1>5 DEF RunInv

\* A document ends: in its last stage with what its tasks brought, or earlier
\* with an error.
LEMMA EndInv ==
    ASSUME RunInv, NEW d \in Docs, NEW result, NEW ok \in BOOLEAN,
           EndDocument(d, result, ok), doc[d] \in {"compose", "policy"},
           \/ ~ok /\ result \in SUBSET Tasks
           \/ doc[d] = "policy" /\ result = HasFindings(d) /\ ~TaskFailed(d),
           UNCHANGED <<over, main, task, brought, err, engines, lint, shown>>
    PROVE  RunInv'
<1>0. RunTypes /\ Staged /\ Pool /\ Complete /\ Phases /\ Outcome
  BY DEF RunInv
<1>1. /\ doc' = [doc EXCEPT ![d] = "done"] /\ kept' = [kept EXCEPT ![d] = result]
      /\ broken' = IF ok THEN broken ELSE broken \cup {d}
  BY DEF EndDocument
<1>2. doc'[d] = "done" /\ \A e \in Docs \ {d} : doc'[e] = doc[e] /\ kept'[e] = kept[e]
  BY <1>0, <1>1 DEF RunTypes
<1>3. RunTypes'
  <2>1. result \in SUBSET Tasks
    BY DEF HasFindings
  <2> QED
    BY <1>0, <1>1, <2>1 DEF RunTypes
<1>4. Pool'
  BY <1>0 DEF Pool, ProcessLimit, Processes
<1>5. Phases' /\ Outcome'
  BY <1>0, <1>1, <1>2 DEF Phases, Outcome
<1>6. Staged'
  <2>1. \A e \in Docs \ {d} : StageTasks(e)' = StageTasks(e) /\ Ended(e)' = Ended(e)
    BY <1>2 DEF StageTasks, Ended
  <2>2. Ended(d)' = {}
    BY <1>2 DEF Ended
  <2>3. ASSUME NEW u \in Tasks PROVE task[<<d, u>>] \notin {"acquire", "work"}
    BY <1>0 DEF Staged, StageTasks
  <2> QED
    BY <1>0, <2>1, <2>2, <2>3 DEF Staged
<1>7. Complete'
  <2>1. ASSUME NEW e \in Docs \ broken', doc'[e] = "done", e # d
        PROVE  /\ kept'[e] = Tasks
               /\ \A u \in Tasks : task[<<e, u>>] = "done" /\ brought[<<e, u>>] = "findings"
    BY <1>0, <1>1, <1>2, <2>1 DEF Complete
  <2>2. ASSUME d \notin broken'
        PROVE  /\ kept'[d] = Tasks
               /\ \A u \in Tasks : task[<<d, u>>] = "done" /\ brought[<<d, u>>] = "findings"
    <3>1. doc[d] = "policy" /\ result = HasFindings(d) /\ ~TaskFailed(d)
      BY <1>1, <2>2
    <3>2. \A u \in Tasks : task[<<d, u>>] = "done"
      BY <1>0, <3>1 DEF Staged, Ended
    <3>3. \A u \in Tasks : brought[<<d, u>>] \in Results
      BY <1>0, <3>2 DEF Staged
    <3>4. \A u \in Tasks : brought[<<d, u>>] = "findings"
      BY <3>1, <3>3 DEF TaskFailed, Results
    <3>5. HasFindings(d) = Tasks
      BY <3>4 DEF HasFindings
    <3> QED
      BY <1>0, <1>1, <3>1, <3>2, <3>4, <3>5 DEF RunTypes
  <2> QED
    BY <2>1, <2>2 DEF Complete
<1> QED
  BY <1>3, <1>4, <1>5, <1>6, <1>7 DEF RunInv

\* A document keeps the invariant.
LEMMA DocInv ==
    ASSUME RunInv, NEW d \in Docs, DocStep(d)
    PROVE  RunInv'
<1> USE DEF mainVars, lintVars
<1>1. CASE StartDocument(d)
  BY <1>1, StageInv DEF StartDocument
<1>2. CASE Compose(d)
  <2>1. CASE EndDocument(d, {}, FALSE)
    BY <1>2, <2>1, EndInv DEF Compose
  <2>2. CASE doc' = [doc EXCEPT ![d] = "tools"] /\ UNCHANGED <<kept, broken>>
    BY <1>2, <2>2, StageInv DEF Compose
  <2> QED
    BY <1>2, <2>1, <2>2 DEF Compose
<1>3. CASE JoinStage(d)
  <2>1. CASE doc[d] = "tools"
    BY <1>3, <2>1, StageInv DEF JoinStage
  <2>2. CASE doc[d] = "analyzers"
    BY <1>3, <2>2, StageInv DEF JoinStage
  <2> QED
    BY <1>3, <2>1, <2>2 DEF JoinStage
<1>4. CASE ApplyPolicy(d)
  <2>0. doc[d] = "policy" /\ UNCHANGED <<over, main, task, brought, err, engines, lint, shown>>
    BY <1>4 DEF ApplyPolicy
  <2>1. CASE EndDocument(d, {}, FALSE)
    BY <2>0, <2>1, EndInv
  <2>2. ASSUME NEW visited \in BOOLEAN, EndDocument(d, HasFindings(d), visited /\ ~TaskFailed(d))
        PROVE  RunInv'
    <3>1. HasFindings(d) \in SUBSET Tasks /\ (visited /\ ~TaskFailed(d)) \in BOOLEAN
      BY DEF HasFindings
    <3>2. CASE visited /\ ~TaskFailed(d)
      BY <2>0, <2>2, <3>1, <3>2, EndInv
    <3>3. CASE ~(visited /\ ~TaskFailed(d))
      BY <2>0, <2>2, <3>1, <3>3, EndInv
    <3> QED
      BY <3>2, <3>3
  <2> QED
    BY <1>4, <2>1, <2>2 DEF ApplyPolicy
<1> QED
  BY <1>1, <1>2, <1>3, <1>4 DEF DocStep

\* Check and runLint touch no document.
LEMMA MainInv ==
    ASSUME RunInv, MainStep \/ Deadline \/ LintStep \/ UNCHANGED runVars
    PROVE  RunInv'
<1>0. RunTypes /\ Staged /\ Pool /\ Complete /\ Phases /\ Outcome
  BY DEF RunInv
<1> USE DEF MainStep, AllStarted, EndRun, WaitProcesses, CloseEngines, Deadline, LintStep,
        ReceiveResult, DeadlineSeen, GraceOver, runVars, docVars, mainVars, lintVars
<1>1. UNCHANGED <<doc, task, brought, kept, broken>>
  OBVIOUS
<1>2. RunTypes'
  BY <1>0 DEF RunTypes, RunError
<1>3. Pool'
  BY <1>0, <1>1 DEF Pool, ProcessLimit, Processes
<1>4. Staged' /\ Complete'
  BY <1>0, <1>1 DEF Staged, StageTasks, Ended, Complete
<1>5. Phases'
  BY <1>0 DEF RunTypes, Phases, Active, RunError
<1>6. Outcome'
  BY <1>0 DEF RunTypes, Outcome, RunError, Usable
<1> QED
  BY <1>2, <1>3, <1>4, <1>5, <1>6 DEF RunInv

\* The invariant holds throughout an analysis, whether the deadline passes or not.
THEOREM RunInvHolds == RunSpec => []RunInv
<1>1. RunInv /\ [RunNext]_runVars => RunInv'
  BY TaskInv, DocInv, MainInv DEF RunNext
<1> QED
  BY <1>1, InitRunInv, PTL DEF RunSpec

\* All documents together never run more processes than the pool has slots, no
\* task outlives the stage that collects it, and nothing is at work once the
\* engines are closed.
THEOREM AnalysisJoinsItsWork == RunSpec => []WorkIsJoined
<1>1. RunInv => WorkIsJoined
  BY DEF RunInv, Staged, Pool, Phases, Active, WorkIsJoined
<1> QED
  BY <1>1, RunInvHolds, PTL

\* An analysis that returns no error brought the findings of every tool and
\* analyzer of every document, and a document without an error of its own kept
\* all of its findings.  The outcome of runLint is that of an analysis only when
\* the analysis has ended, with all its documents, and not by the time limit.
THEOREM CleanAnalysisIsComplete == RunSpec => []CleanIsComplete
<1>1. RunInv => CleanIsComplete
  BY DEF RunInv, RunTypes, Complete, Phases, Outcome, CleanIsComplete
<1> QED
  BY <1>1, RunInvHolds, PTL
=============================================================================
