---------------------------- MODULE VersionProbe ----------------------------
(***************************************************************************)
(* versionProbe.run of internal/tools/ruff/version_probe.go: the analyses  *)
(* of all documents ask for the version of the tool, one of them runs it,  *)
(* and the others wait on a channel the prober closes.  A probe that was   *)
(* interrupted by the prober's own context is not recorded: the waiters go *)
(* round the loop again and one of them probes.                            *)
(***************************************************************************)
EXTENDS Naturals

CONSTANTS Callers, None

VARIABLES pc,          \* where each call of run is
          over,        \* the callers whose context is over
          pending,     \* p.pending: the caller that probes, or None
          ready,       \* p.ready with p.output or p.err: the recorded outcome
          answer,      \* what run returned to each caller
          warned       \* how many times the warning callback ran

vars == <<pc, over, pending, ready, answer, warned>>

Interrupted == "interrupted"           \* context.Canceled or DeadlineExceeded
Outcomes == {"version", "failure"}     \* a version, or why there is none

TypeOK == /\ pc \in [Callers -> {"enter", "wait", "probe", "done"}]
          /\ over \subseteq Callers
          /\ pending \in Callers \cup {None}
          /\ ready \in Outcomes \cup {None}
          /\ answer \in [Callers -> Outcomes \cup {Interrupted, None}]
          /\ warned \in 0..1

Init == /\ pc = [c \in Callers |-> "enter"]
        /\ over = {}
        /\ pending = None
        /\ ready = None
        /\ answer = [c \in Callers |-> None]
        /\ warned = 0

EndContext(c) == /\ c \notin over
                 /\ pc[c] # "done"
                 /\ over' = over \cup {c}
                 /\ UNCHANGED <<pc, pending, ready, answer, warned>>

Return(c, v) == /\ pc' = [pc EXCEPT ![c] = "done"]
                /\ answer' = [answer EXCEPT ![c] = v]

\* The context test at the head of the loop.
ReturnInterrupted(c) == /\ pc[c] \in {"enter", "wait"}
                        /\ c \in over
                        /\ Return(c, Interrupted)
                        /\ UNCHANGED <<over, pending, ready, warned>>

ReturnReady(c) == /\ pc[c] = "enter"
                  /\ c \notin over
                  /\ ready # None
                  /\ Return(c, ready)
                  /\ UNCHANGED <<over, pending, ready, warned>>

AwaitProber(c) == /\ pc[c] = "enter"
                  /\ c \notin over
                  /\ ready = None
                  /\ pending # None
                  /\ pc' = [pc EXCEPT ![c] = "wait"]
                  /\ UNCHANGED <<over, pending, ready, answer, warned>>

StartProbe(c) == /\ pc[c] = "enter"
                 /\ c \notin over
                 /\ ready = None
                 /\ pending = None
                 /\ pending' = c
                 /\ pc' = [pc EXCEPT ![c] = "probe"]
                 /\ UNCHANGED <<over, ready, answer, warned>>

\* Mutant of Completed: an interruption is recorded like any other outcome.
AlwaysCompleted(err) == TRUE

\* Whether an outcome is recorded for the other callers.
Completed(err) == err # Interrupted

\* Mutant of Woken: the channel is closed only when an outcome is recorded.
WokenIfReady(d) == IF pc[d] = "wait" /\ ready' # None THEN "enter" ELSE pc[d]

\* Closing the channel sends a waiter back to the head of the loop.
Woken(d) == IF pc[d] = "wait" THEN "enter" ELSE pc[d]

\* execute has returned outcome; the prober's own context decides whether it
\* counts.
FinishProbe(c, outcome) ==
  LET err == IF c \in over THEN Interrupted ELSE outcome
  IN /\ pc[c] = "probe"
     /\ ready' = IF Completed(err) THEN err ELSE ready
     /\ pending' = None
     /\ pc' = [d \in Callers |-> IF d = c THEN "done" ELSE Woken(d)]
     /\ answer' = [answer EXCEPT ![c] = err]
     /\ warned' = IF Completed(err) /\ err = "failure" THEN warned + 1 ELSE warned
     /\ UNCHANGED over

Step(c) == \/ ReturnInterrupted(c) \/ ReturnReady(c) \/ AwaitProber(c)
           \/ StartProbe(c) \/ \E outcome \in Outcomes : FinishProbe(c, outcome)

Next == \E c \in Callers : EndContext(c) \/ Step(c)

\* Every goroutine keeps running, and the probed executable terminates.
Fairness == \A c \in Callers : WF_vars(Step(c))

Shared == INSTANCE SharedLookup
            WITH Lasting <- Outcomes, Transient <- {}, GaveUp <- Interrupted,
                 kept <- ready

\* Interruptions stay with the caller they belong to: the probe is a shared
\* lookup that passes on nothing it does not record (version_probe.go, "keeping
\* cancellation local to each caller").
ProbeIsSharedLookup == Shared!Spec

=============================================================================
