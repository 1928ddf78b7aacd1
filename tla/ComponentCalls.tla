--------------------------- MODULE ComponentCalls ---------------------------
(***************************************************************************)
(* The calls of a component plugin (callScope in internal/plugins/         *)
(* component/call.go and call_teardown.go, Plugin.Close in component.go).  *)
(* Calls take turns at the gate; each one instantiates its imports and     *)
(* then the guest, any of which may fail, the guest also by a panic when   *)
(* the memory budget is spent.  "finish" runs the deferred closes, and     *)
(* each of them may fail or, in the guest's case, leave it running.        *)
(* The plugin is loaded by load.go, which itself calls it to describe it.  *)
(***************************************************************************)
EXTENDS Naturals, Sequences, FiniteSets

CONSTANTS Callers, None

\* The resources of a call in the order in which they are acquired.
Order == <<"host", "world", "stdin", "annotations", "files", "prepared",
           "guest">>
Resources == {Order[i] : i \in DOMAIN Order}

Optional == {"annotations", "files", "prepared"}
Factories == {"host"} \cup Optional

VARIABLES gate,       \* the call that holds the gate, or None
          engine,     \* Plugin.engine is not nil
          required,   \* the optional interfaces the component imports
          factories,  \* the factories that are open
          pc,         \* of each caller
          next,       \* the position in Order of the next acquisition
          live,       \* the instances of this call that are not closed
          owned,      \* the fields of callScope that are set
          plan,       \* finish: what is left to close
          leaky,      \* finish: closing the guest failed
          panicked,   \* a spent memory budget is being unwound
          stray       \* a guest that could not be closed runs in the engine

scope == <<next, live, owned, plan, leaky, panicked, stray>>
vars == <<gate, engine, required, factories, pc, scope>>

Init == /\ gate = None /\ engine = TRUE
        /\ required \in SUBSET Optional
        /\ factories = {}
        /\ pc = [c \in Callers |-> "idle"]
        /\ next = 1 /\ live = {} /\ owned = {} /\ plan = {}
        /\ leaky = FALSE /\ panicked = FALSE /\ stray = FALSE

-----------------------------------------------------------------------------
\* Prepared scripts import the annotations, whether the guest does or not.
NeededFactories ==
  {"host"} \cup required
           \cup (IF "prepared" \in required THEN {"annotations"} ELSE {})

\* Plugin.load up to the factories; see Close for a load that fails.
Load == /\ engine /\ factories = {}
        /\ factories' = NeededFactories
        /\ UNCHANGED <<gate, engine, required, pc, scope>>

\* callInterface: load itself makes the first calls.
Call(c) == /\ pc[c] = "idle" /\ (factories # {} \/ ~engine)
           /\ pc' = [pc EXCEPT ![c] = "gate"]
           /\ UNCHANGED <<gate, engine, required, factories, scope>>

\* The context ends before the gate is free.
GiveUp(c) == /\ pc[c] = "gate"
             /\ pc' = [pc EXCEPT ![c] = "idle"]
             /\ UNCHANGED <<gate, engine, required, factories, scope>>

\* A closed plugin refuses the call.
Enter(c) ==
  /\ pc[c] = "gate" /\ gate = None
  /\ IF engine
     THEN /\ gate' = c
          /\ pc' = [pc EXCEPT ![c] = "prepare"]
          /\ next' = 1
     ELSE /\ pc' = [pc EXCEPT ![c] = "idle"]
          /\ UNCHANGED <<gate, next>>
  /\ UNCHANGED <<engine, required, factories, live, owned, plan, leaky, panicked, stray>>

\* Imports with a factory are optional.
Wanted(r) == r \in Factories => r \in factories

Skip(c) == /\ pc[c] = "prepare" /\ next <= Len(Order)
           /\ ~Wanted(Order[next])
           /\ next' = next + 1
           /\ UNCHANGED <<gate, engine, required, factories, pc, live, owned, plan,
                          leaky, panicked, stray>>

\* prepareImports and prepareGuest, one instance at a time.
Acquire(c) ==
  /\ pc[c] = "prepare" /\ next <= Len(Order)
  /\ Wanted(Order[next])
  /\ live' = live \cup {Order[next]}
  /\ owned' = owned \cup {Order[next]}
  /\ next' = next + 1
  /\ UNCHANGED <<gate, engine, required, factories, pc, plan, leaky, panicked, stray>>

\* What a resource was given: stdin the streams of the world, prepared scripts
\* the annotations, the guest everything there is.
Uses(r) == CASE r = "stdin" -> {"world"}
             [] r = "prepared" -> {"annotations"}
             [] r = "guest" -> {u \in Resources \ {"guest"} : Wanted(u)}
             [] OTHER -> {}

-----------------------------------------------------------------------------
\* Mutant of TeardownOrder: the order of the comment at "finish" with the
\* later imports appended.
TeardownOrderAppended ==
  <<"guest", "annotations", "stdin", "files", "prepared">>

\* The closes "finish" defers, last deferred first; the imports follow.
TeardownOrder == <<"guest", "prepared", "files", "annotations", "stdin">>

\* "finish" detaches the resources it closes and defers their closes.
Finish(c) == /\ pc' = [pc EXCEPT ![c] = "finish"]
             /\ plan' = owned \ {"world", "host"}
             /\ owned' = owned \cap {"world", "host"}

\* An instance cannot be made, the guest lacks the export, the call fails,
\* times out or returns: what was acquired is released.
Return(c) ==
  /\ pc[c] = "prepare"
  /\ Finish(c)
  /\ UNCHANGED <<gate, engine, required, factories, next, live, leaky, panicked, stray>>

\* The memory allocator panics while the guest is instantiated, which leaves
\* parts of it in the engine.
Panic(c) ==
  /\ pc[c] = "prepare" /\ next = Len(Order)
  /\ panicked' = TRUE /\ stray' = TRUE
  /\ Finish(c)
  /\ UNCHANGED <<gate, engine, required, factories, next, live, leaky>>

\* closeResource: a failure is reported, and for the guest remembered.
Closes(r) ==
  /\ plan' = plan \ {r}
  /\ live' = live \ {r}
  /\ \E fails \in BOOLEAN :
       /\ leaky' = (leaky \/ (fails /\ r = "guest"))
       /\ stray' = (stray \/ (fails /\ r = "guest"))

CloseNext(c) ==
  /\ pc[c] = "finish"
  /\ \E i \in DOMAIN TeardownOrder :
       /\ TeardownOrder[i] \in plan
       /\ \A j \in 1..(i - 1) : TeardownOrder[j] \notin plan
       /\ Closes(TeardownOrder[i])
  /\ UNCHANGED <<gate, engine, required, factories, pc, next, owned, panicked>>

\* discardImports: the world, then the host.
DiscardWorld(c) ==
  /\ pc[c] = "finish" /\ plan = {} /\ "world" \in owned
  /\ owned' = owned \ {"world"} /\ live' = live \ {"world"}
  /\ UNCHANGED <<gate, engine, required, factories, pc, next, plan, leaky, panicked,
                 stray>>

DiscardHost(c) ==
  /\ pc[c] = "finish" /\ plan = {} /\ owned = {"host"}
  /\ owned' = {} /\ live' = live \ {"host"}
  /\ UNCHANGED <<gate, engine, required, factories, pc, next, plan, leaky, panicked,
                 stray>>

\* The engine is closed after a guest that could not be, and after a panic.
MustCloseEngine == leaky \/ panicked

\* The last deferred calls of "finish" and "invoke", and the gate.
Leave(c) ==
  /\ pc[c] = "finish" /\ plan = {} /\ owned = {}
  /\ engine' = (engine /\ ~MustCloseEngine)
  /\ stray' = (stray /\ engine')
  /\ leaky' = FALSE /\ panicked' = FALSE
  /\ gate' = None
  /\ pc' = [pc EXCEPT ![c] = "idle"]
  /\ UNCHANGED <<required, factories, next, live, owned, plan>>

\* Plugin.Close, behind the gate; also after a load that failed.
Close ==
  /\ gate = None
  /\ factories' = {} /\ engine' = FALSE /\ stray' = FALSE
  /\ UNCHANGED <<gate, required, pc, next, live, owned, plan, leaky, panicked>>

Next == \/ Load \/ Close
        \/ \E c \in Callers :
             \/ Call(c) \/ GiveUp(c) \/ Enter(c) \/ Skip(c) \/ Acquire(c)
             \/ Return(c) \/ Panic(c) \/ CloseNext(c) \/ DiscardWorld(c)
             \/ DiscardHost(c) \/ Leave(c)

Spec == Init /\ [][Next]_vars

-----------------------------------------------------------------------------
\* Wherever a call fails: what an instance imports stays open as long as the
\* instance, no instance outlives the engine or the factory it came from, and
\* a call leaves nothing behind for the next one, neither an instance nor, in
\* an engine that is still used, a guest that did not close.
CallsAreIsolated ==
  /\ \A r \in live : Uses(r) \subseteq live
  /\ live # {} => engine
  /\ live \cap Factories \subseteq factories
  /\ gate = None => live = {} /\ ~(engine /\ stray)
=============================================================================
