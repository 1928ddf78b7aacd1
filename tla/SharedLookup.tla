---------------------------- MODULE SharedLookup ----------------------------
(***************************************************************************)
(* What a lookup shared by several callers promises.  The analysis asks    *)
(* many times for the same thing (the version of a tool, the index of a    *)
(* repository, the commit of an action) and computes it as few times as it *)
(* can:                                                                    *)
(*   - one outcome at most is kept, and it never changes;                  *)
(*   - whoever is answered with a lasting outcome gets the kept one;       *)
(*   - an outcome that is not kept may be passed on (Transient), and a     *)
(*     caller that gives up is told so only if it did give up.             *)
(* VersionProbe, IndexCache and Resolution implement it, each with its own *)
(* choice of what is kept and what is only passed on.                      *)
(***************************************************************************)
CONSTANTS Callers,     \* the concurrent lookups
          Lasting,     \* the outcomes that are kept for later callers
          Transient,   \* the outcomes handed to callers and then forgotten
          None,        \* no outcome yet
          GaveUp       \* the answer to a caller whose context is over

VARIABLES kept,        \* the outcome that later callers get
          answer,      \* what each caller was told
          over         \* the callers whose context is over

vars == <<kept, answer, over>>

Init == /\ kept = None
        /\ answer = [c \in Callers |-> None]
        /\ over = {}

\* The context of a caller ends, whatever the lookup is doing.
EndContext(c) == /\ over' = over \cup {c}
                 /\ UNCHANGED <<kept, answer>>

\* Somebody has computed a lasting outcome.
Keep(v) == /\ kept = None
           /\ kept' = v
           /\ UNCHANGED <<answer, over>>

Reply(c, v) == /\ answer[c] = None
               /\ answer' = [answer EXCEPT ![c] = v]
               /\ UNCHANGED <<kept, over>>

ReplyKept(c) == kept # None /\ Reply(c, kept)

ReplyGaveUp(c) == c \in over /\ Reply(c, GaveUp)

\* An outcome that is not kept: while nothing is kept, or for a caller whose
\* computation had begun before somebody else's outcome was kept.
ReplyTransient(c) == \E v \in Transient : Reply(c, v)

\* The caller that computes the outcome may be answered in the same step.
KeepAndReply(c, v) == /\ kept = None
                      /\ kept' = v
                      /\ answer[c] = None
                      /\ answer' = [answer EXCEPT ![c] = v]
                      /\ UNCHANGED over

Next == \/ \E v \in Lasting : Keep(v)
        \/ \E c \in Callers : \/ EndContext(c)
                              \/ ReplyKept(c)
                              \/ ReplyGaveUp(c)
                              \/ ReplyTransient(c)
                              \/ \E v \in Lasting : KeepAndReply(c, v)

Spec == Init /\ [][Next]_vars
=============================================================================
