----------------------------- MODULE IndexCache -----------------------------
(***************************************************************************)
(* IndexCache.Load of internal/workspace/index_cache.go: the first lookup  *)
(* of a repository root stores a sync.OnceValue closure over its own       *)
(* context; whichever lookup calls the closure first reads the index with  *)
(* that context, and all get the same snapshot, a read failure included.   *)
(***************************************************************************)
CONSTANTS Callers, None

VARIABLES pc,        \* where each call of Load is
          over,      \* the callers whose context is over
          creator,   \* the caller whose context the closure captured
          running,   \* the caller inside the OnceValue function, or None
          snapshot,  \* the value of the OnceValue, None before it has one
          answer     \* the snapshot each caller got

vars == <<pc, over, creator, running, snapshot, answer>>

Failure == "failure"
Snapshots == {"index", Failure}

TypeOK == /\ pc \in [Callers -> {"load", "once", "read", "doomed", "done"}]
          /\ over \subseteq Callers
          /\ creator \in Callers \cup {None}
          /\ running \in Callers \cup {None}
          /\ snapshot \in Snapshots \cup {None}
          /\ answer \in [Callers -> Snapshots \cup {None}]

Init == /\ pc = [c \in Callers |-> "load"]
        /\ over = {}
        /\ creator = None
        /\ running = None
        /\ snapshot = None
        /\ answer = [c \in Callers |-> None]

EndContext(c) == /\ c \notin over
                 /\ pc[c] # "done"
                 /\ over' = over \cup {c}
                 /\ UNCHANGED <<pc, creator, running, snapshot, answer>>

\* Under the mutex: the entry of the root is created once.
Load(c) == /\ pc[c] = "load"
           /\ creator' = IF creator = None THEN c ELSE creator
           /\ pc' = [pc EXCEPT ![c] = "once"]
           /\ UNCHANGED <<over, running, snapshot, answer>>

\* sync.OnceValue: one caller enters the function, the others block.
MayRead == running = None /\ snapshot = None

StartRead(c) == /\ pc[c] = "once"
                /\ MayRead
                /\ running' = c
                /\ pc' = [pc EXCEPT ![c] = IF creator \in over THEN "doomed"
                                                               ELSE "read"]
                /\ UNCHANGED <<over, creator, snapshot, answer>>

\* ReadIndex runs git with the creator's context, whoever reads: it must fail
\* when that context was over at the start, and may when it ends on the way.
FinishRead(c) == /\ pc[c] \in {"read", "doomed"}
                 /\ \E s \in Snapshots :
                      /\ pc[c] = "doomed" => s = Failure
                      /\ snapshot' = s
                      /\ answer' = [answer EXCEPT ![c] = s]
                 /\ running' = None
                 /\ pc' = [pc EXCEPT ![c] = "done"]
                 /\ UNCHANGED <<over, creator>>

ReturnSnapshot(c) == /\ pc[c] = "once"
                     /\ snapshot # None
                     /\ answer' = [answer EXCEPT ![c] = snapshot]
                     /\ pc' = [pc EXCEPT ![c] = "done"]
                     /\ UNCHANGED <<over, creator, running, snapshot>>

Step(c) == Load(c) \/ StartRead(c) \/ FinishRead(c) \/ ReturnSnapshot(c)

Next == \E c \in Callers : EndContext(c) \/ Step(c)

\* Every goroutine keeps running, and reading the index terminates.
Fairness == \A c \in Callers : WF_vars(Step(c))

Shared == INSTANCE SharedLookup
            WITH Lasting <- Snapshots, Transient <- {}, GaveUp <- "gaveUp",
                 kept <- snapshot

\* All documents of an analysis see one observation of a repository's index,
\* and a failed one is never replaced (index_cache.go, "retains a repository
\* observation, including read failures").
IndexIsSharedLookup == Shared!Spec
=============================================================================
