---------------------------- MODULE WorkflowCalls ----------------------------
(***************************************************************************)
(* The cache of reusable workflow metadata of one repository               *)
(* (internal/workflow/calls/reusable_workflow.go).  Callers look a local   *)
(* workflow up with FindMetadata, which reads and parses its file on a     *)
(* miss; when the workflow is itself one of the documents analysed, its    *)
(* own check writes metadata made from its syntax tree                     *)
(* (WriteWorkflowCallEventFromWorkflow, called by rule_workflow_call.go).  *)
(***************************************************************************)
CONSTANTS Callers,  \* lookups by the jobs that call the workflow
          None

VARIABLES file,     \* what reading and parsing the file gives; fixed
          cache,    \* c.cache[spec]: None, or the metadata or error kept
          pc,       \* where each lookup is
          found,    \* what each lookup returns
          writer    \* where the check of the workflow itself is, "done" too
                    \* when it is not a document of the analysis

vars == <<file, cache, pc, found, writer>>

\* A file whose metadata is well formed; one the metadata decoder rejects while
\* the workflow parser recovers a tree with the event; one with no event or no
\* tree; one that cannot be read.
Files == {"callable", "malformed", "notCallable", "unreadable"}
HasEvent == file \in {"callable", "malformed"}
Results == {"metadata", "error"}

TypeOK == /\ file \in Files
          /\ cache \in Results \cup {None}
          /\ pc \in [Callers -> {"lookup", "read", "store", "done"}]
          /\ found \in [Callers -> Results \cup {None}]
          /\ writer \in {"check", "write", "done"}

Init == /\ file \in Files
        /\ cache = None
        /\ pc = [c \in Callers |-> "lookup"]
        /\ found = [c \in Callers |-> None]
        /\ writer \in IF HasEvent THEN {"check", "done"} ELSE {"done"}

Lookup(c) == /\ pc[c] = "lookup"
             /\ pc' = [pc EXCEPT ![c] = IF cache = None THEN "read" ELSE "done"]
             /\ found' = [found EXCEPT ![c] = cache]
             /\ UNCHANGED <<file, cache, writer>>

\* ReadFile and ParseMetadata, outside any lock.
ReadAndParse(c) == /\ pc[c] = "read"
                   /\ pc' = [pc EXCEPT ![c] = "store"]
                   /\ found' = [found EXCEPT ![c] = IF file = "callable"
                                                    THEN "metadata" ELSE "error"]
                   /\ UNCHANGED <<file, cache, writer>>

\* Store keeps errors alongside metadata.
Kept(result) == result

\* Store replaces whatever has been written since the lookup missed.
Store(c) == /\ pc[c] = "store"
            /\ cache' = Kept(found[c])
            /\ pc' = [pc EXCEPT ![c] = "done"]
            /\ UNCHANGED <<file, found, writer>>

\* The check of the workflow itself: nothing to do if there is an entry.
CheckEntry == /\ writer = "check"
              /\ writer' = IF cache = None THEN "write" ELSE "done"
              /\ UNCHANGED <<file, cache, pc, found>>

\* The metadata made from the tree goes in unless an entry appeared meanwhile.
WriteEvent == /\ writer = "write"
              /\ cache' = IF cache = None THEN "metadata" ELSE cache
              /\ writer' = "done"
              /\ UNCHANGED <<file, pc, found>>

Step(c) == Lookup(c) \/ ReadAndParse(c) \/ Store(c)

Next == (\E c \in Callers : Step(c)) \/ CheckEntry \/ WriteEvent

\* Every goroutine keeps running.
Fairness == /\ \A c \in Callers : WF_vars(Step(c))
            /\ WF_vars(CheckEntry \/ WriteEvent)

Spec == Init /\ [][Next]_vars /\ Fairness

Returned == {c \in Callers : pc[c] = "done"}

\* A workflow that cannot be called is reported by every caller, a well-formed
\* one by none, in any order of the lookups and of the workflow's own check.
CallersAgree ==
  /\ ~HasEvent => \A c \in Returned : found[c] = "error"
  /\ file = "callable" => \A c \in Returned : found[c] = "metadata"

\* reusable_workflow.go:269: "Read and parse errors are cached alongside
\* metadata and returned on every lookup", "regardless of the order of
\* concurrent checks".
ErrorOnEveryLookup ==
  file # "callable" => \A c \in Returned : found[c] = "error"
=============================================================================
