----------------------------- MODULE Resolution -----------------------------
(***************************************************************************)
(* Remote resolution: Analyzer.resolve (internal/resolution/analyzer.go)   *)
(* over Process.Resolve (process.go).  The documents of an analysis ask    *)
(* the provider process for the commit of an action, each with the         *)
(* repository identity the session has seen so far.  Equal requests are    *)
(* answered once: the first caller runs the process under its own context, *)
(* the others wait for its result, and only a success is cached.           *)
(***************************************************************************)
CONSTANTS Callers,   \* resolutions of dependencies, one per document
          RefOf,     \* the git ref each of them asks for
          Ids,       \* identities the repository's name may stand for
          None

VARIABLES pc,        \* where each call is
          over,      \* the callers whose context is over
          known,     \* a.repositoryIDs of the repository, if it was seen
          request,   \* the request each caller sent
          cache,     \* p.cache: the identity in the cached result
          pending,   \* p.pending: the caller that runs the process
          waits,     \* whose pendingResolution a caller waits for
          outcome,   \* the result or error in a closed pendingResolution
          reply,     \* what Process.Resolve returned
          answer     \* what Analyzer.resolve returned

vars == <<pc, over, known, request, cache, pending, waits, outcome, reply,
          answer>>

Interrupted == "interrupted"
Failed == "failed"
Unknown == "unseen"
Refs == {RefOf[c] : c \in Callers}
Requests == Refs \X (Ids \cup {Unknown})
Replies == Ids \cup {Interrupted, Failed}

TypeOK == /\ pc \in [Callers -> {"expect", "ask", "wait", "run", "validate", "done"}]
          /\ over \subseteq Callers
          /\ known \in Ids \cup {Unknown}
          /\ request \in [Callers -> Requests \cup {None}]
          /\ cache \in [Requests -> Ids \cup {None}]
          /\ pending \in [Requests -> Callers \cup {None}]
          /\ waits \in [Callers -> Callers \cup {None}]
          /\ outcome \in [Callers -> Replies \cup {None}]
          /\ reply \in [Callers -> Replies \cup {None}]
          /\ answer \in [Callers -> Replies \cup {None}]

Init == /\ pc = [c \in Callers |-> "expect"]
        /\ over = {}
        /\ known = Unknown
        /\ request = [c \in Callers |-> None]
        /\ cache = [q \in Requests |-> None]
        /\ pending = [q \in Requests |-> None]
        /\ waits = [c \in Callers |-> None]
        /\ outcome = [c \in Callers |-> None]
        /\ reply = [c \in Callers |-> None]
        /\ answer = [c \in Callers |-> None]

EndContext(c) == /\ c \notin over
                 /\ pc[c] # "done"
                 /\ over' = over \cup {c}
                 /\ UNCHANGED <<pc, known, request, cache, pending, waits, outcome,
                                reply, answer>>

\* Analyzer.resolve, first critical section: the identity seen so far.
ReadExpected(c) == /\ pc[c] = "expect"
                   /\ request' = [request EXCEPT ![c] = <<RefOf[c], known>>]
                   /\ pc' = [pc EXCEPT ![c] = "ask"]
                   /\ UNCHANGED <<over, known, cache, pending, waits, outcome, reply,
                                  answer>>

\* Process.Resolve answers c: a failure ends the call, a result is validated.
Resolved(c, v) == /\ reply' = [reply EXCEPT ![c] = v]
                  /\ answer' = IF v \in Ids THEN answer
                               ELSE [answer EXCEPT ![c] = v]
                  /\ pc' = [pc EXCEPT ![c] = IF v \in Ids THEN "validate"
                                                         ELSE "done"]

\* The context test on entry, and the same test while waiting and after it.
GiveUp(c) == /\ pc[c] \in {"ask", "wait"}
             /\ c \in over
             /\ Resolved(c, Interrupted)
             /\ UNCHANGED <<over, known, request, cache, pending, waits, outcome>>

AskCached(c) == /\ pc[c] = "ask"
                /\ c \notin over
                /\ cache[request[c]] # None
                /\ Resolved(c, cache[request[c]])
                /\ UNCHANGED <<over, known, request, cache, pending, waits,
                               outcome>>

AskPending(c) == /\ pc[c] = "ask"
                 /\ c \notin over
                 /\ cache[request[c]] = None
                 /\ pending[request[c]] # None
                 /\ waits' = [waits EXCEPT ![c] = pending[request[c]]]
                 /\ pc' = [pc EXCEPT ![c] = "wait"]
                 /\ UNCHANGED <<over, known, request, cache, pending, outcome,
                                reply, answer>>

AskProcess(c) == /\ pc[c] = "ask"
                 /\ c \notin over
                 /\ cache[request[c]] = None
                 /\ pending[request[c]] = None
                 /\ pending' = [pending EXCEPT ![request[c]] = c]
                 /\ pc' = [pc EXCEPT ![c] = "run"]
                 /\ UNCHANGED <<over, known, request, cache, waits, outcome,
                                reply, answer>>

\* validateResult: the identity must be the expected one, if one is expected.
Valid(q, id) == q[2] \in {Unknown, id}

\* What the process of request q may come back with: an interruption of the
\* owner, a failure or timeout, or an identity that passes validation.
Outcomes(c) == {Failed} \cup (IF c \in over THEN {Interrupted} ELSE {})
               \cup {id \in Ids : Valid(request[c], id)}

Cached(q, v) == IF v \in Ids THEN [cache EXCEPT ![q] = v] ELSE cache

Released(q, v) == [pending EXCEPT ![q] = None]

\* The owner records the outcome, cached if it is a result, takes the request
\* off the pending ones and closes call.done, all under the mutex.
FinishProcess(c, v) == /\ pc[c] = "run"
                       /\ cache' = Cached(request[c], v)
                       /\ pending' = Released(request[c], v)
                       /\ outcome' = [outcome EXCEPT ![c] = v]
                       /\ Resolved(c, v)
                       /\ UNCHANGED <<over, known, request, waits>>

\* A waiter whose context is not over takes the owner's result, or its error.
TakeOutcome(c) == /\ pc[c] = "wait"
                  /\ c \notin over
                  /\ outcome[waits[c]] # None
                  /\ Resolved(c, outcome[waits[c]])
                  /\ UNCHANGED <<over, known, request, cache, pending, waits,
                                 outcome>>

\* Mutant of Accepts: the identity is not looked at again after the lookup.
AcceptsAny(id) == TRUE

\* The second critical section of Analyzer.resolve validates once more, since
\* another document may have established the identity in the meantime.
Accepts(id) == Valid(<<None, known>>, id)

Validate(c) == /\ pc[c] = "validate"
               /\ IF Accepts(reply[c])
                  THEN /\ known' = reply[c]
                       /\ answer' = [answer EXCEPT ![c] = reply[c]]
                  ELSE /\ answer' = [answer EXCEPT ![c] = Failed]
                       /\ UNCHANGED known
               /\ pc' = [pc EXCEPT ![c] = "done"]
               /\ UNCHANGED <<over, request, cache, pending, waits, outcome, reply>>

Step(c) == \/ ReadExpected(c) \/ GiveUp(c) \/ AskCached(c) \/ AskPending(c)
           \/ AskProcess(c) \/ TakeOutcome(c)
           \/ Validate(c)
           \/ pc[c] = "run" /\ \E v \in Outcomes(c) : FinishProcess(c, v)

Next == \E c \in Callers : EndContext(c) \/ Step(c)

\* Every goroutine keeps running; the process has a timeout.
Fairness == \A c \in Callers : WF_vars(Step(c))

Lookup(q) == INSTANCE SharedLookup
               WITH Lasting <- Ids, Transient <- {Failed, Interrupted},
                    GaveUp <- Interrupted, kept <- cache[q],
                    answer <- [c \in Callers |-> IF request[c] = q THEN reply[c]
                                                                  ELSE None]

\* For each request the provider process is a shared lookup that keeps results
\* and passes on failures, the owner's interruption among them, without keeping
\* them (process.go, "Each session caches exact requests").
ResolverIsSharedLookup ==
  /\ \A q \in Requests : Lookup(q)!Init
  /\ [][\A q \in Requests : [Lookup(q)!Next]_(Lookup(q)!vars)]_vars

\* The documents of one analysis agree on which repository a name stands for,
\* though they look it up concurrently and the provider may change its mind.
OneIdentity ==
  \A c, d \in Callers : answer[c] \in Ids /\ answer[d] \in Ids
                         => answer[c] = answer[d]

=============================================================================
