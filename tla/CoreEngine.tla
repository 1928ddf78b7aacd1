----------------------------- MODULE CoreEngine -----------------------------
(***************************************************************************)
(* A loaded core WebAssembly engine (internal/plugins/core/engine.go): it  *)
(* is loaded with one ready instance, serves concurrent calls with at most *)
(* MaxInstances instances, discards an instance whose call failed, and may *)
(* be closed while calls are in flight.                                    *)
(*                                                                         *)
(* A step is what happens between two lock or channel operations, or one   *)
(* call into the WebAssembly runtime.  The runtime is external: an         *)
(* instance is registered with it when it is created, closing the runtime  *)
(* closes every registered instance and refuses new ones, a context that   *)
(* is done closes the instance running under it, and a call into a closed  *)
(* instance fails.  A guest may run for ever unless it is interrupted.     *)
(***************************************************************************)
EXTENDS Naturals, Sequences, FiniteSets

CONSTANTS
    Callers,      \* goroutines that call Check or ValidateConfig
    Closers,      \* goroutines that call Close
    Loader,       \* the goroutine that runs LoadArtifact
    Instances,    \* names for instances
    NoInstance,
    MaxInstances  \* maxInstances

ASSUME PoolAssumption ==
    /\ MaxInstances \in Nat \ {0}
    /\ IsFiniteSet(Callers) /\ IsFiniteSet(Instances)
    /\ NoInstance \notin Instances
    /\ Loader \notin Closers

VARIABLES
    phase,     \* progress of LoadArtifact
    first,     \* the instance LoadArtifact is checking
    closed,    \* e.closed, and the closed done channel
    runtime,   \* whether the WebAssembly runtime is open
    idle,      \* e.idle, a stack
    active,    \* tokens in e.active
    open,      \* instances registered with the runtime and not closed
    failed,    \* instances on which an invocation has failed, until they are discarded
    pc,        \* program counter of each caller
    inst,      \* the instance a caller holds
    expired,   \* callers whose context is done
    closePc,   \* program counter of each closer
    detached   \* instances Close took from the pool and has yet to close

loadVars == <<phase, first>>
pool == <<closed, runtime, idle, active>>
guests == <<open, failed>>
callVars == <<pc, inst, expired>>
closeVars == <<closePc, detached>>
vars == <<loadVars, pool, guests, callVars, closeVars>>

Pooled == {idle[n] : n \in 1..Len(idle)}
Held == {inst[c] : c \in Callers} \ {NoInstance}

\* Callers that own an instance or are about to create one.
Owners == {c \in Callers : pc[c] \in {"instantiate", "invoke", "discard", "release"}}
\* Callers that hold a token of e.active.
Active == Owners \cup {c \in Callers : pc[c] \in {"acquire", "leave"}}

\* Types, and the capacity of the channel of tokens.
TypeOK ==
    /\ phase \in {"compile", "instantiate", "negotiate", "ready", "failing"}
    /\ first \in Instances \cup {NoInstance}
    /\ closed \in BOOLEAN /\ runtime \in BOOLEAN
    /\ idle \in Seq(Instances)
    /\ active \in 0..MaxInstances
    /\ open \subseteq Instances /\ failed \subseteq Instances
    /\ pc \in [Callers -> {"idle", "wait", "acquire", "instantiate", "invoke",
                           "discard", "release", "leave"}]
    /\ inst \in [Callers -> Instances \cup {NoInstance}]
    /\ expired \subseteq Callers
    /\ closePc \in [Closers \cup {Loader} -> {"idle", "instances", "returned"}]
    /\ detached \subseteq Instances

Init ==
    /\ phase = "compile" /\ first = NoInstance
    /\ closed = FALSE /\ runtime = TRUE
    /\ idle = <<>> /\ active = 0
    /\ open = {} /\ failed = {}
    /\ pc = [c \in Callers |-> "idle"]
    /\ inst = [c \in Callers |-> NoInstance]
    /\ expired = {}
    /\ closePc = [k \in Closers \cup {Loader} |-> "idle"]
    /\ detached = {}

\* The names an instance created now can have: no reference to it is left.
Fresh == Instances \ (open \cup Pooled \cup Held \cup detached \cup {first})

-----------------------------------------------------------------------------
(* LoadArtifact: compile, check the exports, create an instance, negotiate,*)
(* and pool it.  Any failure closes the engine before it is returned.      *)

Compile ==
    /\ phase = "compile"
    /\ phase' \in {"instantiate", "failing"}
    /\ UNCHANGED <<first, pool, guests, callVars, closeVars>>

InstantiateFirst ==
    /\ phase = "instantiate"
    /\ \/ \E i \in Fresh :
            /\ first' = i /\ open' = open \cup {i}
            /\ phase' = "negotiate"
       \/ /\ phase' = "failing"
          /\ UNCHANGED <<first, open>>
    /\ UNCHANGED <<pool, failed, callVars, closeVars>>

\* The ABI version, the metadata and the negotiated exports are acceptable.
Negotiate ==
    /\ phase = "negotiate"
    /\ phase' = "ready"
    /\ idle' = Append(idle, first) /\ first' = NoInstance
    /\ UNCHANGED <<closed, runtime, active, guests, callVars, closeVars>>

NegotiateFails ==
    /\ phase = "negotiate"
    /\ phase' = "failing"
    /\ open' = open \ {first} /\ first' = NoInstance
    /\ UNCHANGED <<pool, failed, callVars, closeVars>>

Load == Compile \/ InstantiateFirst \/ Negotiate \/ NegotiateFails

-----------------------------------------------------------------------------
(* call                                                                    *)

Goto(c, l) == pc' = [pc EXCEPT ![c] = l]

\* A request within the input limit of the engine; a larger one is refused
\* without touching the pool.
Call(c) ==
    /\ phase = "ready"
    /\ pc[c] = "idle"
    /\ Goto(c, "wait")
    /\ UNCHANGED <<loadVars, pool, guests, inst, expired, closeVars>>

\* The caller cancels the call, or the time limit of the engine passes.
Expire(c) ==
    /\ pc[c] # "idle" /\ c \notin expired
    /\ expired' = expired \cup {c}
    /\ UNCHANGED <<loadVars, pool, guests, pc, inst, closeVars>>

\* The select picks any of its ready cases.
SlotFree == active < MaxInstances
TakeSlotWhen(c, free) ==
    /\ pc[c] = "wait"
    /\ free
    /\ active' = active + 1
    /\ Goto(c, "acquire")
    /\ UNCHANGED <<loadVars, closed, runtime, idle, guests, inst, expired, closeVars>>

TakeSlot(c) == TakeSlotWhen(c, SlotFree)

\* call returns, and its deferred cancel drops the context.
Return(c) == Goto(c, "idle") /\ expired' = expired \ {c}

GiveUp(c) ==
    /\ Return(c)
    /\ UNCHANGED <<loadVars, pool, guests, inst, closeVars>>

\* Fault: the wait for a slot does not watch the context.
WaitWithoutContext(c) == pc[c] = "wait" /\ c \in expired /\ closed /\ GiveUp(c)

WaitExpires(c) == pc[c] = "wait" /\ c \in expired /\ GiveUp(c)

WaitCloses(c) == pc[c] = "wait" /\ closed /\ GiveUp(c)

AcquireClosed(c) ==
    /\ pc[c] = "acquire" /\ closed
    /\ Goto(c, "leave")
    /\ UNCHANGED <<loadVars, pool, guests, inst, expired, closeVars>>

AcquirePooled(c) ==
    /\ pc[c] = "acquire" /\ ~closed /\ idle # <<>>
    /\ inst' = [inst EXCEPT ![c] = idle[Len(idle)]]
    /\ idle' = SubSeq(idle, 1, Len(idle) - 1)
    /\ Goto(c, "invoke")
    /\ UNCHANGED <<loadVars, closed, runtime, active, guests, expired, closeVars>>

\* The pool is empty: acquire unlocks before it creates an instance.
AcquireNew(c) ==
    /\ pc[c] = "acquire" /\ ~closed /\ idle = <<>>
    /\ Goto(c, "instantiate")
    /\ UNCHANGED <<loadVars, pool, guests, inst, expired, closeVars>>

Instantiate(c) ==
    /\ pc[c] = "instantiate" /\ runtime
    /\ \E i \in Fresh :
         /\ open' = open \cup {i}
         /\ inst' = [inst EXCEPT ![c] = i]
    /\ Goto(c, "invoke")
    /\ UNCHANGED <<loadVars, pool, failed, expired, closeVars>>

\* Fault: a call that gets no instance keeps its slot.
InstantiateFailsKeepingSlot(c) ==
    /\ pc[c] = "instantiate"
    /\ Return(c)
    /\ UNCHANGED <<loadVars, pool, guests, inst, closeVars>>

\* A start function traps, the context is done or the runtime is closed.
InstantiateFails(c) ==
    /\ pc[c] = "instantiate"
    /\ Goto(c, "leave")
    /\ UNCHANGED <<loadVars, pool, guests, inst, expired, closeVars>>

\* The runtime closes an instance whose context is done.
InterruptGuest(c) ==
    /\ pc[c] = "invoke" /\ c \in expired /\ inst[c] \in open
    /\ open' = open \ {inst[c]}
    /\ UNCHANGED <<loadVars, pool, failed, callVars, closeVars>>

\* alloc, the operation, the response checks and both deallocs succeed.
InvokeReturns(c) ==
    /\ pc[c] = "invoke" /\ inst[c] \in open
    /\ Goto(c, "release")
    /\ UNCHANGED <<loadVars, pool, guests, inst, expired, closeVars>>

\* Fault: a failed instance goes back to the pool.
InvokeFailsPooled(c) ==
    /\ pc[c] = "invoke"
    /\ failed' = failed \cup {inst[c]}
    /\ Goto(c, "release")
    /\ UNCHANGED <<loadVars, pool, open, inst, expired, closeVars>>

\* A trap, a refused allocation, an oversized or invalid response, a failed
\* dealloc, an exceeded limit, or a closed instance.
InvokeFails(c) ==
    /\ pc[c] = "invoke"
    /\ failed' = failed \cup {inst[c]}
    /\ Goto(c, "discard")
    /\ UNCHANGED <<loadVars, pool, open, inst, expired, closeVars>>

\* instance.Close, after a failed call or because the engine was closed.
Discard(c) ==
    /\ pc[c] = "discard"
    /\ open' = open \ {inst[c]} /\ failed' = failed \ {inst[c]}
    /\ inst' = [inst EXCEPT ![c] = NoInstance]
    /\ Goto(c, "leave")
    /\ UNCHANGED <<loadVars, pool, expired, closeVars>>

\* release; call then decodes the response, which fails without an effect here.
Release(c) ==
    /\ pc[c] = "release"
    /\ IF closed
         THEN Goto(c, "discard") /\ UNCHANGED <<idle, inst>>
         ELSE /\ idle' = Append(idle, inst[c])
              /\ inst' = [inst EXCEPT ![c] = NoInstance]
              /\ Goto(c, "leave")
    /\ UNCHANGED <<loadVars, closed, runtime, active, guests, expired, closeVars>>

\* The deferred receive from e.active.
Leave(c) ==
    /\ pc[c] = "leave"
    /\ active' = active - 1
    /\ Return(c)
    /\ UNCHANGED <<loadVars, closed, runtime, idle, guests, inst, closeVars>>

\* The steps of call that do not depend on the guest or on another call.
HostStep(c) ==
    \/ WaitExpires(c) \/ WaitCloses(c)
    \/ AcquireClosed(c) \/ AcquirePooled(c) \/ AcquireNew(c)
    \/ Discard(c) \/ Release(c) \/ Leave(c)

GuestStep(c) ==
    \/ Instantiate(c) \/ InstantiateFails(c)
    \/ InvokeReturns(c) \/ InvokeFails(c)

-----------------------------------------------------------------------------
(* Close, called by the owner of a loaded engine or by a failing load.     *)

MayClose(k) ==
    /\ closePc[k] = "idle"
    /\ phase = IF k = Loader THEN "failing" ELSE "ready"

CloseAgain(k) ==
    /\ MayClose(k) /\ closed
    /\ closePc' = [closePc EXCEPT ![k] = "returned"]
    /\ UNCHANGED <<loadVars, pool, guests, callVars, detached>>

CloseDetach(k) ==
    /\ MayClose(k) /\ ~closed
    /\ closed' = TRUE
    /\ detached' = Pooled /\ idle' = <<>>
    /\ closePc' = [closePc EXCEPT ![k] = "instances"]
    /\ UNCHANGED <<loadVars, runtime, active, guests, callVars>>

CloseInstance(k) ==
    /\ closePc[k] = "instances"
    /\ \E i \in detached :
         detached' = detached \ {i} /\ open' = open \ {i}
    /\ UNCHANGED <<loadVars, pool, failed, callVars, closePc>>

CloseRuntime(k) ==
    /\ closePc[k] = "instances" /\ detached = {}
    /\ runtime' = FALSE /\ open' = {}
    /\ closePc' = [closePc EXCEPT ![k] = "returned"]
    /\ UNCHANGED <<loadVars, closed, idle, active, failed, callVars, detached>>

Close(k) == CloseAgain(k) \/ CloseDetach(k) \/ CloseInstance(k) \/ CloseRuntime(k)

-----------------------------------------------------------------------------
CallNext(c) ==
    \/ Call(c) \/ Expire(c)
    \/ TakeSlot(c) \/ HostStep(c) \/ GuestStep(c) \/ InterruptGuest(c)

Next ==
    \/ Load
    \/ \E c \in Callers : CallNext(c)
    \/ \E k \in Closers \cup {Loader} : Close(k)

Spec == Init /\ [][Next]_vars

\* The scheduler runs every host step; a time limit passes, and the runtime
\* then interrupts the guest; a guest whose instance is closed, or whose
\* creation is interrupted, returns an error.  Nothing is assumed of a guest
\* that runs, nor of the order in which waiting calls get a slot.
Ends(c) == \/ InstantiateFails(c) /\ (c \in expired \/ ~runtime)
           \/ InvokeFails(c) /\ inst[c] \notin open

Fairness ==
    /\ WF_vars(Load)
    /\ \A c \in Callers :
         /\ WF_vars(Expire(c)) /\ WF_vars(HostStep(c))
         /\ WF_vars(InterruptGuest(c)) /\ WF_vars(Ends(c))
    /\ \A k \in Closers \cup {Loader} :
         WF_vars(CloseInstance(k) \/ CloseRuntime(k) \/ (k = Loader /\ Close(k)))

FairSpec == Spec /\ Fairness

-----------------------------------------------------------------------------
(* Properties.                                                             *)

\* "Pools at most four instances across concurrent calls": the instances that
\* exist at any time, idle ones, running ones and those that Close has taken
\* from the pool together, never exceed maxInstances, although acquire creates
\* an instance after it has released the lock under which it saw an empty pool.
PoolBound == Cardinality(open) <= MaxInstances

\* An instance serves one call at a time: no two calls hold the same one, and
\* none that a call holds is in the pool or in the hands of Close.
Exclusive ==
    /\ \A c, d \in Callers :
         inst[c] = inst[d] /\ inst[c] # NoInstance => c = d
    /\ Held \cap (Pooled \cup detached) = {}
    /\ \A m, n \in 1..Len(idle) : idle[m] = idle[n] => m = n

\* "Discards an instance after a trap or an exceeded limit": no instance in the
\* pool has ever failed a call or been closed by an expired one, so no call is
\* ever served by the memory another call left in an unknown state.
PoolIsClean ==
    /\ Pooled \cap failed = {}
    /\ ~closed => Pooled \subseteq open

\* What the calls rely on when they share the pool: it is bounded, every
\* instance serves one call at a time, and none is damaged.
PoolIsSound == PoolBound /\ Exclusive /\ PoolIsClean

\* When no call runs every slot is free, and once Close has also returned, or a
\* failed load has cleaned up, no instance is left, however the Close overlapped
\* with calls that were creating or returning instances.
NothingLeaks ==
    (\A c \in Callers : pc[c] = "idle") =>
        /\ active = 0
        /\ closed /\ ~(\E k \in Closers \cup {Loader} : closePc[k] = "instances") => open = {}

\* Every call returns, although guests may run for ever and calls may starve
\* each other of slots: the time limit covers the wait, the creation of an
\* instance and the guest.
EveryCallReturns == \A c \in Callers : pc[c] = "wait" ~> pc[c] = "idle"
=============================================================================
