--------------------------- MODULE ResourcesProofs ---------------------------
(***************************************************************************)
(* Proofs about the components of Resources, for any number of callers,    *)
(* identities, releases and names: each component's property is proved     *)
(* from an inductive invariant of that component alone, and the last       *)
(* section carries it over to the composition, of which every step is a    *)
(* step of one component or leaves it alone.                               *)
(***************************************************************************)
EXTENDS Resources, Sequences, FiniteSetTheorems, FunctionTheorems, TLAPS

-----------------------------------------------------------------------------
(* The version probe (VersionProbe).                                       *)

\* Nobody is answered before it is done, and while somebody probes, nothing is
\* recorded: that is what makes its outcome the first one.
ProbeInv ==
  \A c \in Callers : /\ probePc[c] # "done" => probeAnswer[c] = None
                     /\ probePc[c] = "probe" => probePending = c /\ probeReady = None

ProbeTypes == /\ probePc \in [Callers -> {"enter", "wait", "probe", "done"}]
              /\ DOMAIN probeAnswer = Callers

\* The invariant of the probe is inductive: only the prober releases "pending".
LEMMA ProbeInvStep ==
  ASSUME ProbeTypes, ProbeInv, [Probe!Next]_(Probe!vars)
  PROVE  ProbeTypes' /\ ProbeInv'
  BY NoneAssumption
  DEF ProbeInv, ProbeTypes, Probe!Next, Probe!vars, Probe!Step, Probe!EndContext,
      Probe!ReturnInterrupted, Probe!ReturnReady, Probe!AwaitProber, Probe!StartProbe,
      Probe!FinishProbe, Probe!Return, Probe!Woken, Probe!Completed

\* Every step of the probe is a step of SharedLookup or changes nothing it sees.
LEMMA ProbeStepRefines ==
  ASSUME ProbeTypes, ProbeInv, [Probe!Next]_(Probe!vars)
  PROVE  [Probe!Shared!Next]_(Probe!Shared!vars)
  BY NoneAssumption
  DEF ProbeInv, ProbeTypes, Probe!Next, Probe!vars, Probe!Step, Probe!EndContext,
      Probe!ReturnInterrupted, Probe!ReturnReady, Probe!AwaitProber, Probe!StartProbe,
      Probe!FinishProbe, Probe!Return, Probe!Woken, Probe!Completed, Probe!Outcomes,
      Probe!Interrupted, Probe!Shared!Next, Probe!Shared!vars, Probe!Shared!Keep,
      Probe!Shared!EndContext, Probe!Shared!ReplyKept, Probe!Shared!ReplyGaveUp,
      Probe!Shared!KeepAndReply, Probe!Shared!Reply

\* The version probe is a shared lookup that keeps outcomes and passes on no
\* interruption (versionProbe.run), for any number of callers.
THEOREM ProbeRefines ==
  Probe!Init /\ [][Probe!Next]_(Probe!vars) => Probe!ProbeIsSharedLookup
<1>1. Probe!Init => ProbeTypes /\ ProbeInv
  BY DEF Probe!Init, ProbeTypes, ProbeInv
<1>2. Probe!Init => Probe!Shared!Init
  BY DEF Probe!Init, Probe!Shared!Init
<1> QED
  BY <1>1, <1>2, ProbeInvStep, ProbeStepRefines, PTL
  DEF Probe!ProbeIsSharedLookup, Probe!Shared!Spec

-----------------------------------------------------------------------------
(* The index cache (IndexCache).                                           *)

\* The same for the index: one caller is inside the once, and as long as it is
\* there is no snapshot.
IndexInv ==
  \A c \in Callers : /\ indexPc[c] # "done" => indexAnswer[c] = None
                     /\ indexPc[c] \in {"read", "doomed"}
                          => indexRunning = c /\ indexSnapshot = None

IndexTypes == /\ indexPc \in [Callers -> {"load", "once", "read", "doomed", "done"}]
              /\ DOMAIN indexAnswer = Callers

\* The invariant of the index cache is inductive.
LEMMA IndexInvStep ==
  ASSUME IndexTypes, IndexInv, [Index!Next]_(Index!vars)
  PROVE  IndexTypes' /\ IndexInv'
  BY NoneAssumption
  DEF IndexInv, IndexTypes, Index!Next, Index!vars, Index!Step, Index!EndContext,
      Index!Load, Index!StartRead, Index!FinishRead, Index!ReturnSnapshot, Index!MayRead

\* Every step of the index cache is a step of SharedLookup or a stutter.
LEMMA IndexStepRefines ==
  ASSUME IndexTypes, IndexInv, [Index!Next]_(Index!vars)
  PROVE  [Index!Shared!Next]_(Index!Shared!vars)
  BY NoneAssumption
  DEF IndexInv, IndexTypes, Index!Next, Index!vars, Index!Step, Index!EndContext,
      Index!Load, Index!StartRead, Index!FinishRead, Index!ReturnSnapshot, Index!MayRead,
      Index!Snapshots, Index!Failure, Index!Shared!Next, Index!Shared!vars, Index!Shared!Keep,
      Index!Shared!EndContext, Index!Shared!ReplyKept, Index!Shared!KeepAndReply,
      Index!Shared!Reply

\* All lookups of a repository's index get one snapshot, which is never
\* replaced (IndexCache.Load), for any number of callers.
THEOREM IndexRefines ==
  Index!Init /\ [][Index!Next]_(Index!vars) => Index!IndexIsSharedLookup
<1>1. Index!Init => IndexTypes /\ IndexInv
  BY DEF Index!Init, IndexTypes, IndexInv
<1>2. Index!Init => Index!Shared!Init
  BY DEF Index!Init, Index!Shared!Init
<1> QED
  BY <1>1, <1>2, IndexInvStep, IndexStepRefines, PTL
  DEF Index!IndexIsSharedLookup, Index!Shared!Spec

-----------------------------------------------------------------------------
(* The provider process and the analyzer over it (Resolution).             *)

ResolveTypes ==
  /\ resolvePc \in [Callers -> {"expect", "ask", "wait", "run", "validate", "done"}]
  /\ resolveKnown \in Ids \cup {"unseen"}
  /\ DOMAIN resolveRequest = Callers
  /\ \A c \in Callers : resolvePc[c] # "expect" => resolveRequest[c] \in Resolve!Requests
  /\ resolveCache \in [Resolve!Requests -> Ids \cup {None}]
  /\ resolvePending \in [Resolve!Requests -> Callers \cup {None}]
  /\ DOMAIN resolveWaits = Callers
  /\ resolveOutcome \in [Callers -> Resolve!Replies \cup {None}]
  /\ resolveReply \in [Callers -> Resolve!Replies \cup {None}]
  /\ DOMAIN resolveAnswer = Callers
  /\ \A c \in Callers : resolvePc[c] = "validate" => resolveReply[c] \in Ids

\* Who runs a request owns its pending entry and its result is not cached yet;
\* who waits has the owner of its own request; a result in a closed entry is
\* the cached one; and an identity that was answered is the known one.
ResolveInv ==
  /\ \A c \in Callers :
       /\ resolvePc[c] \in {"expect", "ask", "wait", "run"}
            => resolveReply[c] = None /\ resolveOutcome[c] = None
       /\ resolvePc[c] = "run" => /\ resolvePending[resolveRequest[c]] = c
                                 /\ resolveCache[resolveRequest[c]] = None
       /\ resolvePc[c] = "wait" =>
            /\ resolveWaits[c] \in Callers
            /\ resolvePc[resolveWaits[c]] # "expect"
            /\ resolveRequest[resolveWaits[c]] = resolveRequest[c]
       /\ resolveOutcome[c] \in Ids
            => resolveCache[resolveRequest[c]] = resolveOutcome[c]
  /\ \A q \in Resolve!Requests : resolvePending[q] # None =>
       /\ resolvePc[resolvePending[q]] = "run"
       /\ resolveRequest[resolvePending[q]] = q

AnswersAreKnown ==
  \A c \in Callers : resolveAnswer[c] \in Ids => resolveAnswer[c] = resolveKnown

\* The types of a resolution are inductive: what is validated is an identity.
LEMMA ResolveTypesStep ==
  ASSUME ResolveTypes, ResolveInv, [Resolve!Next]_(Resolve!vars)
  PROVE  ResolveTypes'
<1> USE NoneAssumption DEF ResolveTypes, ResolveInv, Resolve!Replies, Resolve!Interrupted,
      Resolve!Failed, Resolve!Unknown
<1>1. CASE UNCHANGED Resolve!vars
  BY <1>1 DEF Resolve!vars
<1>2. ASSUME NEW c \in Callers, Resolve!EndContext(c) PROVE ResolveTypes'
  BY <1>2 DEF Resolve!EndContext
<1>3. ASSUME NEW c \in Callers, Resolve!ReadExpected(c) PROVE ResolveTypes'
  BY <1>3 DEF Resolve!ReadExpected, Resolve!Requests, Resolve!Refs
<1>4. ASSUME NEW c \in Callers, Resolve!GiveUp(c) PROVE ResolveTypes'
  BY <1>4 DEF Resolve!GiveUp, Resolve!Resolved
<1>5. ASSUME NEW c \in Callers, Resolve!AskCached(c) PROVE ResolveTypes'
  BY <1>5 DEF Resolve!AskCached, Resolve!Resolved
<1>6. ASSUME NEW c \in Callers, Resolve!AskPending(c) PROVE ResolveTypes'
  BY <1>6 DEF Resolve!AskPending
<1>7. ASSUME NEW c \in Callers, Resolve!AskProcess(c) PROVE ResolveTypes'
  BY <1>7 DEF Resolve!AskProcess
<1>8. ASSUME NEW c \in Callers, Resolve!TakeOutcome(c) PROVE ResolveTypes'
  BY <1>8 DEF Resolve!TakeOutcome, Resolve!Resolved
<1>9. ASSUME NEW c \in Callers, Resolve!Validate(c) PROVE ResolveTypes'
  BY <1>9 DEF Resolve!Validate
<1>10. ASSUME NEW c \in Callers, resolvePc[c] = "run",
             NEW v \in Resolve!Outcomes(c), Resolve!FinishProcess(c, v)
      PROVE  ResolveTypes'
  <2>1. v \in Resolve!Replies
    BY DEF Resolve!Outcomes
  <2> QED
    BY <1>10, <2>1 DEF Resolve!FinishProcess, Resolve!Resolved, Resolve!Cached, Resolve!Released
<1> QED
  BY <1>1, <1>2, <1>3, <1>4, <1>5, <1>6, <1>7, <1>8, <1>9, <1>10 DEF Resolve!Next, Resolve!Step

\* The single flight: the pending entry names the one caller that runs.
LEMMA ResolveInvStep ==
  ASSUME ResolveTypes, ResolveInv, [Resolve!Next]_(Resolve!vars)
  PROVE  ResolveInv'
<1> USE NoneAssumption DEF ResolveTypes, ResolveInv
<1>1. CASE UNCHANGED Resolve!vars
  BY <1>1 DEF Resolve!vars
<1>2. ASSUME NEW c \in Callers, Resolve!EndContext(c) PROVE ResolveInv'
  BY <1>2 DEF Resolve!EndContext
<1>3. ASSUME NEW c \in Callers, Resolve!ReadExpected(c) PROVE ResolveInv'
  BY <1>3 DEF Resolve!ReadExpected
<1>4. ASSUME NEW c \in Callers, Resolve!GiveUp(c) PROVE ResolveInv'
  BY <1>4 DEF Resolve!GiveUp, Resolve!Resolved
<1>5. ASSUME NEW c \in Callers, Resolve!AskCached(c) PROVE ResolveInv'
  BY <1>5 DEF Resolve!AskCached, Resolve!Resolved
<1>6. ASSUME NEW c \in Callers, Resolve!AskPending(c) PROVE ResolveInv'
  BY <1>6 DEF Resolve!AskPending
<1>7. ASSUME NEW c \in Callers, Resolve!AskProcess(c) PROVE ResolveInv'
  BY <1>7 DEF Resolve!AskProcess
<1>8. ASSUME NEW c \in Callers, Resolve!TakeOutcome(c) PROVE ResolveInv'
  BY <1>8 DEF Resolve!TakeOutcome, Resolve!Resolved
<1>9. ASSUME NEW c \in Callers, Resolve!Validate(c) PROVE ResolveInv'
  BY <1>9 DEF Resolve!Validate
<1>10. ASSUME NEW c \in Callers, resolvePc[c] = "run",
             NEW v \in Resolve!Outcomes(c), Resolve!FinishProcess(c, v)
      PROVE  ResolveInv'
  BY <1>10 DEF Resolve!FinishProcess, Resolve!Resolved, Resolve!Cached, Resolve!Released
<1> QED
  BY <1>1, <1>2, <1>3, <1>4, <1>5, <1>6, <1>7, <1>8, <1>9, <1>10 DEF Resolve!Next, Resolve!Step

\* Analyzer.resolve validates an identity once more before it answers with it.
LEMMA AnswersAreKnownStep ==
  ASSUME ResolveTypes, AnswersAreKnown, [Resolve!Next]_(Resolve!vars)
  PROVE  AnswersAreKnown'
  BY NoneAssumption
  DEF ResolveTypes, AnswersAreKnown, Resolve!Next, Resolve!Step, Resolve!vars, Resolve!EndContext,
      Resolve!ReadExpected, Resolve!GiveUp, Resolve!AskCached, Resolve!AskPending,
      Resolve!AskProcess, Resolve!TakeOutcome, Resolve!Validate, Resolve!FinishProcess,
      Resolve!Resolved, Resolve!Accepts, Resolve!Valid, Resolve!Unknown, Resolve!Failed

\* The initial state satisfies the invariants.
LEMMA ResolveInit ==
  ASSUME Resolve!Init
  PROVE  ResolveTypes /\ ResolveInv /\ AnswersAreKnown
  BY NoneAssumption
  DEF Resolve!Init, ResolveTypes, ResolveInv, AnswersAreKnown, Resolve!Unknown

\* For one request, every step of the resolutions is a step of SharedLookup:
\* the owner's success is kept, and who is answered later gets it from the
\* cache or from the owner's closed entry, which is the same.
LEMMA ResolveStepRefines ==
  ASSUME ResolveTypes, ResolveInv, [Resolve!Next]_(Resolve!vars), NEW q \in Resolve!Requests
  PROVE  [Resolve!Lookup(q)!Next]_(Resolve!Lookup(q)!vars)
<1> DEFINE ans == [d \in Callers |-> IF resolveRequest[d] = q THEN resolveReply[d] ELSE None]
<1> USE NoneAssumption DEF ResolveTypes, ResolveInv, Resolve!Lookup!vars
<1>1. CASE UNCHANGED Resolve!vars
  BY <1>1 DEF Resolve!vars
<1>2. ASSUME NEW c \in Callers, Resolve!EndContext(c)
      PROVE  Resolve!Lookup(q)!EndContext(c)
  BY <1>2 DEF Resolve!EndContext, Resolve!Lookup!EndContext
<1>3. ASSUME NEW c \in Callers, Resolve!ReadExpected(c)
      PROVE  UNCHANGED Resolve!Lookup(q)!vars
  <2>1. ans' = ans
    BY <1>3 DEF Resolve!ReadExpected
  <2> QED
    BY <1>3, <2>1 DEF Resolve!ReadExpected
\* Process.Resolve answers c, which was not answered before.
<1>4. ASSUME NEW c \in Callers, NEW v, resolveReply[c] = None, Resolve!Resolved(c, v),
             resolveRequest' = resolveRequest
      PROVE  /\ resolveRequest[c] = q => ans[c] = None /\ ans' = [ans EXCEPT ![c] = v]
             /\ resolveRequest[c] # q => ans' = ans
  <2>1. \A d \in Callers : resolveReply'[d] = IF d = c THEN v ELSE resolveReply[d]
    BY <1>4 DEF Resolve!Resolved
  <2>2. CASE resolveRequest[c] = q
    <3>1. ans[c] = None
      BY <1>4, <2>2
    <3>2. ans' = [d \in Callers |-> IF d = c THEN v ELSE ans[d]]
      BY <1>4, <2>1, <2>2
    <3> HIDE DEF ans
    <3>3. [ans EXCEPT ![c] = v] = [d \in Callers |-> IF d = c THEN v ELSE ans[d]]
      BY DOMAIN ans = Callers DEF ans
    <3> QED
      BY <2>2, <3>1, <3>2, <3>3
  <2>3. CASE resolveRequest[c] # q
    BY <1>4, <2>1, <2>3
  <2> QED
    BY <2>2, <2>3
<1>5. ASSUME NEW c \in Callers, Resolve!GiveUp(c)
      PROVE  Resolve!Lookup(q)!ReplyGaveUp(c) \/ UNCHANGED Resolve!Lookup(q)!vars
  BY <1>5, <1>4 DEF Resolve!GiveUp, Resolve!Interrupted, Resolve!Lookup!ReplyGaveUp,
     Resolve!Lookup!Reply
<1>6. ASSUME NEW c \in Callers, Resolve!AskCached(c)
      PROVE  Resolve!Lookup(q)!ReplyKept(c) \/ UNCHANGED Resolve!Lookup(q)!vars
  <2> DEFINE v == resolveCache[resolveRequest[c]]
  <2>1. /\ resolveRequest[c] = q => ans[c] = None /\ ans' = [ans EXCEPT ![c] = v]
        /\ resolveRequest[c] # q => ans' = ans
    BY <1>6, <1>4 DEF Resolve!AskCached
  <2> QED
    BY <1>6, <2>1 DEF Resolve!AskCached, Resolve!Lookup!ReplyKept, Resolve!Lookup!Reply
<1>7. ASSUME NEW c \in Callers, Resolve!AskPending(c) \/ Resolve!AskProcess(c) \/ Resolve!Validate(c)
      PROVE  UNCHANGED Resolve!Lookup(q)!vars
  BY <1>7 DEF Resolve!AskPending, Resolve!AskProcess, Resolve!Validate
<1>8. ASSUME NEW c \in Callers, Resolve!TakeOutcome(c)
      PROVE  \/ Resolve!Lookup(q)!ReplyKept(c)
             \/ Resolve!Lookup(q)!ReplyTransient(c)
             \/ UNCHANGED Resolve!Lookup(q)!vars
  <2> DEFINE v == resolveOutcome[resolveWaits[c]]
  <2>1. v \in Ids \/ v \in {Resolve!Failed, Resolve!Interrupted}
    BY <1>8 DEF Resolve!TakeOutcome, Resolve!Replies
  <2>2. v \in Ids => resolveCache[resolveRequest[c]] = v
    BY <1>8 DEF Resolve!TakeOutcome
  <2>3. /\ resolveRequest[c] = q => ans[c] = None /\ ans' = [ans EXCEPT ![c] = v]
        /\ resolveRequest[c] # q => ans' = ans
    BY <1>8, <1>4 DEF Resolve!TakeOutcome
  <2> QED
    BY <1>8, <2>1, <2>2, <2>3 DEF Resolve!TakeOutcome, Resolve!Lookup!ReplyKept,
       Resolve!Lookup!ReplyTransient, Resolve!Lookup!Reply
<1>9. ASSUME NEW c \in Callers, resolvePc[c] = "run",
             NEW v \in Resolve!Outcomes(c), Resolve!FinishProcess(c, v)
      PROVE  \/ v \in Ids /\ Resolve!Lookup(q)!KeepAndReply(c, v)
             \/ Resolve!Lookup(q)!ReplyTransient(c)
             \/ UNCHANGED Resolve!Lookup(q)!vars
  <2>1. v \in Ids \/ v \in {Resolve!Failed, Resolve!Interrupted}
    BY DEF Resolve!Outcomes
  <2>2. resolveCache'[q] = IF v \in Ids /\ resolveRequest[c] = q THEN v ELSE resolveCache[q]
    BY <1>9 DEF Resolve!FinishProcess, Resolve!Cached
  <2>3. /\ resolveRequest[c] = q => ans[c] = None /\ ans' = [ans EXCEPT ![c] = v]
        /\ resolveRequest[c] # q => ans' = ans
    BY <1>9, <1>4 DEF Resolve!FinishProcess
  <2>4. CASE resolveRequest[c] # q
    BY <1>9, <2>2, <2>3, <2>4 DEF Resolve!FinishProcess
  <2>5. CASE resolveRequest[c] = q /\ v \in Ids
    BY <1>9, <2>2, <2>3, <2>5 DEF Resolve!FinishProcess, Resolve!Lookup!KeepAndReply
  <2>6. CASE resolveRequest[c] = q /\ v \notin Ids
    BY <1>9, <2>1, <2>2, <2>3, <2>6 DEF Resolve!FinishProcess, Resolve!Lookup!ReplyTransient,
       Resolve!Lookup!Reply
  <2> QED
    BY <2>4, <2>5, <2>6
<1> QED
  BY <1>1, <1>2, <1>3, <1>5, <1>6, <1>7, <1>8, <1>9
  DEF Resolve!Next, Resolve!Step, Resolve!Lookup!Next

\* For each request the provider process is a shared lookup that keeps
\* successes only (Process.Resolve), for any callers, refs and identities.
THEOREM ResolverRefines ==
  Resolve!Init /\ [][Resolve!Next]_(Resolve!vars) => Resolve!ResolverIsSharedLookup
<1>1. Resolve!Init => \A q \in Resolve!Requests : Resolve!Lookup(q)!Init
  BY DEF Resolve!Init, Resolve!Lookup!Init
<1>2. ResolveTypes /\ ResolveInv /\ [Resolve!Next]_(Resolve!vars)
        => [\A q \in Resolve!Requests : [Resolve!Lookup(q)!Next]_(Resolve!Lookup(q)!vars)]_(Resolve!vars)
  BY ResolveStepRefines
<1> QED
  BY <1>1, <1>2, ResolveInit, ResolveTypesStep, ResolveInvStep, PTL
  DEF Resolve!ResolverIsSharedLookup

\* The documents of one analysis agree on a repository's identity, whatever
\* the provider answers to each of them.
THEOREM ResolutionsAgree ==
  Resolve!Init /\ [][Resolve!Next]_(Resolve!vars) => []Resolve!OneIdentity
<1>1. AnswersAreKnown => Resolve!OneIdentity
  BY DEF AnswersAreKnown, Resolve!OneIdentity
<1> QED
  BY <1>1, ResolveInit, ResolveTypesStep, ResolveInvStep, AnswersAreKnownStep, PTL

-----------------------------------------------------------------------------
(* The revocation of releases (ReleaseStatus).                             *)

StatusTypes ==
  /\ DOMAIN statusPc = Commands
  /\ statusFile \in Status!Snapshots
  /\ statusMine \in [Commands -> Status!Snapshots]
  /\ statusTodo \in [Commands -> SUBSET Releases]
  /\ statusTook \in [Commands -> SUBSET Releases]
  /\ DOMAIN statusBefore = Commands
  /\ DOMAIN statusKind = Commands

RevokedIn(s) == {d \in Releases : s[d] = "revoked"}

\* A revocation that a command may act on has its record: the snapshot on disk
\* is replaced after the records of its revocations were written.
RecordsComeFirst ==
  /\ RevokedIn(statusFile) \subseteq statusRevoked
  /\ statusRefused \subseteq statusRevoked
  /\ \A c \in Commands :
       /\ statusBefore[c] \subseteq statusRefused
       /\ statusPc[c] = "persist"
            => RevokedIn(statusMine[c]) \subseteq statusRevoked \cup statusTodo[c]
       /\ statusPc[c] \in {"next", "decide"} /\ statusKind[c] = "resolve"
            => RevokedIn(statusMine[c]) \subseteq statusRevoked
       /\ statusPc[c] = "decide" => RevokedIn(statusMine[c]) \subseteq statusRevoked
       /\ statusPc[c] \notin {"next", "decide"} => statusTook[c] = {}
       /\ statusTook[c] \cap statusBefore[c] = {}

\* The order of the two writes of a refresh is what makes a revocation stick.
LEMMA RecordsComeFirstStep ==
  ASSUME StatusTypes, RecordsComeFirst, [Status!Next]_(Status!vars)
  PROVE  StatusTypes' /\ RecordsComeFirst'
<1> USE DEF StatusTypes, RecordsComeFirst, RevokedIn, Status!Snapshots, Status!disk
<1>1. CASE UNCHANGED Status!vars
  BY <1>1 DEF Status!vars
<1>2. ASSUME NEW c \in Commands, NEW k \in {"check", "refresh", "resolve"}, Status!Start(c, k)
      PROVE  StatusTypes' /\ RecordsComeFirst'
  <2>1. CASE k = "check"
    BY <1>2, <2>1 DEF Status!Start, Status!StartCheck
  <2>2. CASE k # "check"
    BY <1>2, <2>2 DEF Status!Start
  <2> QED
    BY <2>1, <2>2
<1>3. ASSUME NEW c \in Commands, Status!Fetch(c)
      PROVE  StatusTypes' /\ RecordsComeFirst'
  BY <1>3 DEF Status!Fetch
<1>4. ASSUME NEW c \in Commands, Status!Persist(c)
      PROVE  StatusTypes' /\ RecordsComeFirst'
  BY <1>4 DEF Status!Persist
<1>5. ASSUME NEW c \in Commands, Status!Replace(c)
      PROVE  StatusTypes' /\ RecordsComeFirst'
  BY <1>5 DEF Status!Replace, Status!MayReplace, Status!StartCheck
<1>6. ASSUME NEW c \in Commands, Status!RefreshFails(c)
      PROVE  StatusTypes' /\ RecordsComeFirst'
  BY <1>6 DEF Status!RefreshFails, Status!StartCheck
<1>7. ASSUME NEW c \in Commands, Status!ReadSnapshot(c)
      PROVE  StatusTypes' /\ RecordsComeFirst'
  BY <1>7 DEF Status!ReadSnapshot
<1>8. ASSUME NEW c \in Commands, Status!Refuse(c)
      PROVE  StatusTypes' /\ RecordsComeFirst'
  BY <1>8 DEF Status!Refuse, Status!Reset, Status!Revoked, Status!NoStatus, Status!States
<1>9. ASSUME NEW c \in Commands, Status!Accept(c)
      PROVE  StatusTypes' /\ RecordsComeFirst'
  BY <1>9 DEF Status!Accept, Status!Revoked
<1>10. ASSUME NEW c \in Commands, Status!End(c)
      PROVE  StatusTypes' /\ RecordsComeFirst'
  BY <1>10 DEF Status!End, Status!Reset, Status!NoStatus, Status!States
<1> QED
  BY <1>1, <1>2, <1>3, <1>4, <1>5, <1>6, <1>7, <1>8, <1>9, <1>10 DEF Status!Next

\* A release that some command has refused as revoked is not accepted by a
\* command that starts its check later (Client.Resolve, CheckStatuses), for any
\* number of commands and releases.
THEOREM RevocationsStick ==
  Status!Init /\ [][Status!Next]_(Status!vars) => []Status!RevocationSticks
<1>1. Status!Init => StatusTypes /\ RecordsComeFirst
  BY DEF Status!Init, StatusTypes, RecordsComeFirst, RevokedIn, Status!Snapshots,
     Status!NoStatus, Status!States
<1>2. RecordsComeFirst => Status!RevocationSticks
  BY DEF RecordsComeFirst, Status!RevocationSticks
<1> QED
  BY <1>1, <1>2, RecordsComeFirstStep, PTL

-----------------------------------------------------------------------------
(* The caches of local actions and reusable workflows (LocalActions,       *)
(* WorkflowCalls).                                                         *)

Reports == \E c \in Callers : actionErr[c] # None

\* What each place of a lookup knows: a missing action is marked before its
\* nil is cached, a failure was reported before its nil is cached, and a
\* manifest's bytes are kept before what was parsed from them.
ActionInv ==
  /\ actionPc \in [Callers -> {"start", "hit", "read", "mark", "record", "store", "found", "done"}]
  /\ actionCache \in {None, "nil", "meta"}
  /\ actionEntry \in [Callers -> {"nil", "meta"}]
  /\ DOMAIN actionErr = Callers
  /\ actionManifest \in Action!Manifests
  /\ actionMissing => actionManifest = "absent"
  /\ actionManifest = "absent" /\ actionCache # None => actionMissing
  /\ actionManifest \in {"broken", "unreadable"} /\ actionCache # None => Reports
  /\ actionManifest = "dockerUnreadable" => actionCache = None
  /\ actionCache = "meta" => actionSource
  /\ \A c \in Callers :
       /\ actionPc[c] \in {"start", "hit", "read"} => actionErr[c] = None
       /\ actionPc[c] = "hit" => actionCache # None
       /\ actionPc[c] \in {"mark", "record", "store", "found", "done"} =>
            CASE actionManifest = "absent" -> actionErr[c] = "missing"
              [] actionManifest \in {"valid", "docker"} -> actionErr[c] = None
              [] actionManifest = "broken" -> actionPc[c] = "record" \/ Reports
              [] OTHER -> Reports
       /\ actionPc[c] = "mark" => actionManifest = "absent"
       /\ actionPc[c] = "record" => actionManifest \in {"valid", "broken"}
       /\ actionPc[c] = "store" /\ actionManifest = "absent" => actionMissing
       /\ actionPc[c] = "store" => actionManifest # "dockerUnreadable"
       /\ actionEntry[c] = "meta" => actionSource
       /\ actionPc[c] = "done" /\ actionEntry[c] = "meta" => c \in actionUsed

\* The invariant of the action cache is inductive.
LEMMA ActionInvStep ==
  ASSUME ActionInv, [Action!Next]_(Action!vars)
  PROVE  ActionInv'
<1> USE NoneAssumption DEF ActionInv, Action!Goto, Action!Manifests
<1>1. CASE UNCHANGED Action!vars
  BY <1>1 DEF Action!vars, Reports
<1>2. ASSUME NEW c \in Callers, Action!ReadCache(c) PROVE ActionInv'
  BY <1>2 DEF Action!ReadCache, Reports
<1>3. ASSUME NEW c \in Callers, Action!LoadMissing(c) PROVE ActionInv'
  <2>1. Reports => Reports'
    BY <1>3 DEF Action!LoadMissing, Reports
  <2> QED
    BY <1>3, <2>1 DEF Action!LoadMissing
<1>4. ASSUME NEW c \in Callers, Action!ReadManifest(c) PROVE ActionInv'
  <2>1. Reports => Reports'
    BY <1>4 DEF Action!ReadManifest, Reports
  <2>2. actionManifest \in {"unreadable", "dockerUnreadable"} => Reports'
    BY <1>4 DEF Action!ReadManifest, Reports
  <2> QED
    BY <1>4, <2>1, <2>2 DEF Action!ReadManifest
<1>5. ASSUME NEW c \in Callers, Action!MarkMissing(c) PROVE ActionInv'
  BY <1>5 DEF Action!MarkMissing, Reports
<1>6. ASSUME NEW c \in Callers, Action!RecordSource(c) PROVE ActionInv'
  <2>1. actionManifest # "valid" => Reports'
    BY <1>6 DEF Action!RecordSource, Reports
  <2> QED
    BY <1>6, <2>1 DEF Action!RecordSource
<1>7. ASSUME NEW c \in Callers, Action!WriteCache(c) PROVE ActionInv'
  BY <1>7 DEF Action!WriteCache, Reports
<1>8. ASSUME NEW c \in Callers, Action!UseSource(c) PROVE ActionInv'
  BY <1>8 DEF Action!UseSource, Reports
<1> QED
  BY <1>1, <1>2, <1>3, <1>4, <1>5, <1>6, <1>7, <1>8 DEF Action!Next, Action!Step

\* A local action's failure is reported, and who sees its metadata depends on
\* its source (Cache.FindMetadata), for any number of lookups.
THEOREM ActionLookupsComplete ==
  Action!Init /\ [][Action!Next]_(Action!vars) => []Action!ActionLookupsAreComplete
<1>1. Action!Init => ActionInv
  BY NoneAssumption DEF Action!Init, ActionInv, Action!Manifests
<1>2. ActionInv => Action!ActionLookupsAreComplete
  BY DEF ActionInv, Reports, Action!ActionLookupsAreComplete, Action!Returned, Action!Manifests
<1> QED
  BY <1>1, <1>2, ActionInvStep, PTL

\* What every writer of the cache puts into it, unless the file is malformed.
CallInv ==
  /\ callPc \in [Callers -> {"lookup", "read", "store", "done"}]
  /\ DOMAIN callFound = Callers
  /\ callWriter \in {"check", "write", "done"}
  /\ ~Call!HasEvent => callWriter = "done" /\ callCache \in {None, "error"}
  /\ callFile = "callable" => callCache \in {None, "metadata"}
  /\ \A c \in Callers : callPc[c] \in {"store", "done"} =>
       /\ ~Call!HasEvent => callFound[c] = "error"
       /\ callFile = "callable" => callFound[c] = "metadata"

\* The invariant of the workflow cache is inductive.
LEMMA CallInvStep ==
  ASSUME CallInv, [Call!Next]_(Call!vars)
  PROVE  CallInv'
  BY NoneAssumption DEF CallInv, Call!Next, Call!vars, Call!Step, Call!Lookup, Call!ReadAndParse,
     Call!Store, Call!Kept, Call!CheckEntry, Call!WriteEvent, Call!HasEvent

\* All callers of a workflow that is well formed, or cannot be called, are told
\* the same, in any order of the lookups and of the workflow's own check.
THEOREM CallersAgreeHolds ==
  Call!Init /\ [][Call!Next]_(Call!vars) => []Call!CallersAgree
<1>1. Call!Init => CallInv
  BY DEF Call!Init, CallInv, Call!HasEvent
<1>2. CallInv => Call!CallersAgree
  BY DEF CallInv, Call!CallersAgree, Call!Returned
<1> QED
  BY <1>1, <1>2, CallInvStep, PTL

-----------------------------------------------------------------------------
(* The engines of an editor session (EditorEngines).                       *)

Digests == {"none", "old", "new"}

EditorTypes ==
  /\ editCustom \in BOOLEAN
  /\ editBytes \in [Editor!Sources -> {"old", "new"}]
  /\ editBytes["remote"] = "old"
  /\ editEngines \in Seq([id : Editor!Sources \X Digests, digest : {"old", "new"},
                          open : BOOLEAN])
  /\ editLoaded \in [DOMAIN editLoaded -> DOMAIN editEngines]
  /\ editPc \in [Analyses -> {"idle", "gate", "lookup", "resolve", "compile", "uses", "over"}]
  /\ DOMAIN editOver = Analyses
  /\ editSource \in [Analyses -> Editor!Sources]
  /\ editDigest \in [Analyses -> Digests]
  /\ editUsing \in [Analyses -> Nat]
  /\ editClosed \in BOOLEAN

\* The identity under which an analysis that has resolved its artifact compiles.
IdOf(c) == <<editSource[c],
             IF editCustom \/ editSource[c] = "remote" THEN "none" ELSE editDigest[c]>>

Behind == {"lookup", "resolve", "compile"}

\* The analysis behind the gate is its holder.
GateIsHeld ==
  \A c \in Analyses : editPc[c] \in Behind => editGate = c

\* Until the session is closed, "loaded" is exactly the table of the engines.
EnginesAreLoaded ==
  /\ ~editClosed => \A m \in DOMAIN editEngines :
       /\ editEngines[m].id \in DOMAIN editLoaded
       /\ editLoaded[editEngines[m].id] = m
       /\ editEngines[m].open
  /\ \A id \in DOMAIN editLoaded : editEngines[editLoaded[id]].id = id
  /\ \A m, j \in DOMAIN editEngines : editEngines[m].id = editEngines[j].id => m = j
  /\ editClosed => /\ \A m \in DOMAIN editEngines : ~editEngines[m].open
                   /\ \A c \in Analyses : editPc[c] = "idle"

\* An engine's identity determines its bytes, unless a loader is injected,
\* which is asked by the source alone.
EnginesAreCurrent ==
  ~editCustom => \A m \in DOMAIN editEngines :
    editEngines[m].digest = IF editEngines[m].id[1] = "remote" THEN "old"
                                                              ELSE editEngines[m].id[2]

\* What an analysis knows at each place: the digest it resolved, that its
\* identity is not compiled yet, or the engine it was given.
Served(c) ==
    /\ editPc[c] \in {"idle", "gate", "lookup", "resolve"} => editDigest[c] = "none"
    /\ editPc[c] # "uses" => editUsing[c] = 0
    /\ editPc[c] = "resolve" /\ editCustom => <<editSource[c], "none">> \notin DOMAIN editLoaded
    /\ editPc[c] = "compile" =>
         /\ editDigest[c] # "none"
         /\ editSource[c] = "remote" => editDigest[c] = "old"
         /\ IdOf(c) \notin DOMAIN editLoaded
    /\ editPc[c] = "uses" =>
         /\ editUsing[c] \in DOMAIN editEngines
         /\ editEngines[editUsing[c]].id[1] = editSource[c]
         /\ editDigest[c] # "none" => editEngines[editUsing[c]].digest = editDigest[c]

AnalysesAreServed == \A c \in Analyses : Served(c)

EditorInv == GateIsHeld /\ EnginesAreLoaded /\ EnginesAreCurrent /\ AnalysesAreServed

\* Engines are numbered from 1.
LEMMA EngineNumbers ==
  ASSUME EditorTypes
  PROVE  DOMAIN editEngines = 1..Len(editEngines) /\ Len(editEngines) \in Nat
<1> DEFINE R == [id : Editor!Sources \X Digests, digest : {"old", "new"}, open : BOOLEAN]
<1>1. editEngines \in Seq(R)
  BY DEF EditorTypes
<1> HIDE DEF R
<1> QED
  BY <1>1

\* Compiling under the gate adds one engine, under an identity nobody has.
LEMMA CompileStep ==
  ASSUME EditorTypes, EditorInv, NEW c \in Analyses, Editor!Compile(c)
  PROVE  EditorTypes' /\ EditorInv'
<1> DEFINE id == IdOf(c)
           e == [id |-> id, digest |-> editDigest[c], open |-> TRUE]
           n == Len(editEngines) + 1
<1>0. /\ editPc[c] = "compile" /\ ~editClosed /\ editGate = c /\ id \notin DOMAIN editLoaded
      /\ id \in Editor!Sources \X Digests /\ editDigest[c] \in {"old", "new"}
  BY DEF EditorInv, EnginesAreLoaded, AnalysesAreServed, Served, GateIsHeld, EditorTypes, Behind, Digests,
     Editor!Compile, IdOf
<1>1. /\ editEngines' = Append(editEngines, e)
      /\ editLoaded' = [m \in DOMAIN editLoaded \cup {id} |->
                          IF m = id THEN Len(editEngines') ELSE editLoaded[m]]
      /\ editUsing' = [editUsing EXCEPT ![c] = Len(editEngines')]
      /\ editPc' = [editPc EXCEPT ![c] = "uses"]
      /\ editGate' = None
      /\ UNCHANGED <<editDigest, editCustom, editBytes, editOver, editSource, editClosed>>
  BY DEF Editor!Compile, Editor!Borrow, Editor!Identity, Editor!NoDigest, IdOf
<1>2. /\ editEngines \in Seq([id : Editor!Sources \X Digests, digest : {"old", "new"},
                              open : BOOLEAN])
      /\ e \in [id : Editor!Sources \X Digests, digest : {"old", "new"}, open : BOOLEAN]
  BY <1>0 DEF EditorTypes
<1>3. /\ editEngines' \in Seq([id : Editor!Sources \X Digests, digest : {"old", "new"},
                               open : BOOLEAN])
      /\ Len(editEngines') = n /\ n \in Nat \ {0}
      /\ DOMAIN editEngines = 1..(n - 1) /\ DOMAIN editEngines' = 1..n
      /\ \A m \in DOMAIN editEngines : editEngines'[m] = editEngines[m]
      /\ editEngines'[n] = e
  BY <1>1, <1>2
<1>4. EditorTypes'
  BY <1>0, <1>1, <1>3 DEF EditorTypes
<1>5. GateIsHeld'
  BY <1>0, <1>1, NoneAssumption DEF GateIsHeld, EditorInv, Behind, EditorTypes
<1>6. e.id = id /\ e.digest = editDigest[c] /\ e.open
  OBVIOUS
<1>7. EnginesAreLoaded'
  BY <1>0, <1>1, <1>3, <1>6 DEF EditorInv, EnginesAreLoaded, EditorTypes
<1>8. EnginesAreCurrent'
  BY <1>0, <1>1, <1>3, <1>6 DEF EditorInv, EnginesAreCurrent, EditorTypes, AnalysesAreServed, Served, IdOf
<1>9. AnalysesAreServed'
  BY <1>0, <1>1, <1>3, <1>6 DEF EditorInv, AnalysesAreServed, Served, EditorTypes, IdOf, GateIsHeld, Behind
<1> QED
  BY <1>4, <1>5, <1>7, <1>8, <1>9 DEF EditorInv

\* The session closes what it owns, which is every engine.
LEMMA CloseStep ==
  ASSUME EditorTypes, EditorInv, Editor!Close
  PROVE  EditorTypes' /\ EditorInv'
<1> DEFINE R == [id : Editor!Sources \X Digests, digest : {"old", "new"}, open : BOOLEAN]
           Closed(r) == [r EXCEPT !.open = FALSE]
<1>1. ASSUME NEW r \in R
      PROVE  /\ Closed(r) \in R
             /\ Closed(r).id = r.id /\ Closed(r).digest = r.digest /\ Closed(r).open = FALSE
  OBVIOUS
<1>2. /\ \A m \in DOMAIN editEngines : editEngines[m] \in R
      /\ Len(editEngines) \in Nat /\ DOMAIN editEngines = 1..Len(editEngines)
  <2>1. editEngines \in Seq(R)
    BY DEF EditorTypes
  <2> HIDE DEF R
  <2> QED
    BY <2>1
<1>3. editEngines' = [m \in DOMAIN editEngines |-> Closed(editEngines[m])]
  BY DEF Editor!Close, EditorInv, EnginesAreLoaded
<1> HIDE DEF R, Closed
<1>4. editEngines' \in [1..Len(editEngines) -> R]
  BY <1>1, <1>2, <1>3
<1>5. editEngines' \in Seq(R) /\ DOMAIN editEngines' = DOMAIN editEngines
  BY <1>2, <1>4
<1>6. \A m \in DOMAIN editEngines : /\ editEngines'[m].id = editEngines[m].id
                                    /\ editEngines'[m].digest = editEngines[m].digest
                                    /\ editEngines'[m].open = FALSE
  BY <1>1, <1>2, <1>3
<1>7. DOMAIN editLoaded' = {} /\ editLoaded' \in [DOMAIN editLoaded' -> DOMAIN editEngines']
  BY DEF Editor!Close
<1>8. /\ editClosed' /\ \A c \in Analyses : editPc[c] = "idle"
      /\ UNCHANGED <<editCustom, editBytes, editGate, editPc, editOver, editSource, editDigest,
                     editUsing>>
  BY DEF Editor!Close
<1>9. EditorTypes'
  BY <1>5, <1>7, <1>8 DEF EditorTypes, R
<1>10. EnginesAreLoaded'
  BY <1>5, <1>6, <1>7, <1>8 DEF EnginesAreLoaded, EditorInv
<1>11. EnginesAreCurrent'
  BY <1>5, <1>6, <1>8 DEF EnginesAreCurrent, EditorInv
<1>12. GateIsHeld' /\ AnalysesAreServed'
  BY <1>8 DEF GateIsHeld, AnalysesAreServed, Served, EditorInv, Behind
<1> QED
  BY <1>9, <1>10, <1>11, <1>12 DEF EditorInv

\* Resolving the artifact: the analysis borrows the engine of those bytes or
\* goes on to compile one that nobody has compiled.
LEMMA ResolveArtifactStep ==
  ASSUME EditorTypes, EditorInv, NEW c \in Analyses, Editor!Resolve(c)
  PROVE  EditorTypes' /\ EditorInv'
<1> DEFINE d == editBytes[editSource[c]]
           id == <<editSource[c], IF editCustom \/ editSource[c] = "remote" THEN "none" ELSE d>>
<1>1. /\ editPc[c] = "resolve" /\ d \in {"old", "new"} /\ editGate = c /\ ~editClosed
      /\ editSource[c] = "remote" => d = "old"
      /\ editSource[c] \in {"local", "remote"}
  BY DEF Editor!Resolve, EditorTypes, Editor!Sources, EditorInv, GateIsHeld, Behind,
     EnginesAreLoaded
<1>2. /\ editDigest' = [editDigest EXCEPT ![c] = d]
      /\ UNCHANGED <<editCustom, editBytes, editLoaded, editEngines, editOver, editSource,
                     editClosed>>
  BY DEF Editor!Resolve
<1>3. IdOf(c)' = id
  BY <1>2 DEF IdOf, EditorTypes
<1>4. CASE ~editCustom /\ id \in DOMAIN editLoaded
  <2> DEFINE n == editLoaded[id]
  <2>1. /\ editUsing' = [editUsing EXCEPT ![c] = n]
        /\ editPc' = [editPc EXCEPT ![c] = "uses"]
        /\ editGate' = None
    BY <1>2, <1>4 DEF Editor!Resolve, Editor!Borrow, Editor!Identity, Editor!NoDigest, EditorTypes
  <2>2. n \in DOMAIN editEngines /\ n \in Nat /\ editEngines[n].id = id
    <3>1. n \in DOMAIN editEngines
      BY <1>4 DEF EditorTypes
    <3> QED
      BY <1>4, <3>1, EngineNumbers DEF EditorInv, EnginesAreLoaded
  <2>3. editEngines[n].id[1] = editSource[c] /\ editEngines[n].digest = d
    BY <1>1, <1>4, <2>2 DEF EditorInv, EnginesAreCurrent
  <2>4. EditorTypes'
    BY <1>1, <1>2, <2>1, <2>2 DEF EditorTypes, Digests
  <2>5. GateIsHeld' /\ EnginesAreLoaded' /\ EnginesAreCurrent'
    BY <1>1, <1>2, <2>1, NoneAssumption DEF GateIsHeld, EnginesAreLoaded, EnginesAreCurrent, EditorInv,
       EditorTypes, Behind
  <2>6. AnalysesAreServed'
    BY <1>1, <1>2, <2>1, <2>2, <2>3 DEF AnalysesAreServed, Served, EditorInv, EditorTypes, IdOf
  <2> QED
    BY <2>4, <2>5, <2>6 DEF EditorInv
<1>5. CASE ~(~editCustom /\ id \in DOMAIN editLoaded)
  <2>1. editPc' = [editPc EXCEPT ![c] = "compile"] /\ UNCHANGED <<editUsing, editGate>>
    BY <1>2, <1>5 DEF Editor!Resolve, Editor!Identity, Editor!NoDigest, EditorTypes
  <2>2. id \notin DOMAIN editLoaded
    BY <1>1, <1>5 DEF EditorInv, AnalysesAreServed, Served
  <2>3. EditorTypes'
    BY <1>1, <1>2, <2>1 DEF EditorTypes, Digests
  <2>4. GateIsHeld' /\ EnginesAreLoaded' /\ EnginesAreCurrent'
    BY <1>1, <1>2, <2>1 DEF GateIsHeld, EnginesAreLoaded, EnginesAreCurrent, EditorInv,
       EditorTypes, Behind
  <2>5. AnalysesAreServed'
    BY <1>1, <1>2, <2>1, <2>2 DEF AnalysesAreServed, Served, EditorInv, EditorTypes, IdOf
  <2> QED
    BY <2>3, <2>4, <2>5 DEF EditorInv
<1> QED
  BY <1>4, <1>5

\* The invariant of an editor session is inductive.
LEMMA EditorInvStep ==
  ASSUME EditorTypes, EditorInv, [Editor!Next]_(Editor!vars)
  PROVE  EditorTypes' /\ EditorInv'
<1> USE DEF EditorTypes, EditorInv, GateIsHeld, EnginesAreLoaded, EnginesAreCurrent,
      AnalysesAreServed, Served, IdOf, Behind
<1>1. CASE UNCHANGED Editor!vars
  BY <1>1 DEF Editor!vars
<1>2. CASE Editor!Rebuild
  BY <1>2 DEF Editor!Rebuild, Editor!Sources
<1>3. CASE Editor!Close
  BY <1>3, CloseStep
<1>4. ASSUME NEW c \in Analyses, NEW s \in Editor!Sources, Editor!Begin(c, s)
      PROVE  EditorTypes' /\ EditorInv'
  <2>1. EditorTypes'
    BY <1>4 DEF Editor!Begin
  <2>2. GateIsHeld' /\ EnginesAreLoaded' /\ EnginesAreCurrent'
    BY <1>4 DEF Editor!Begin
  <2>3. ASSUME NEW d \in Analyses PROVE Served(d)'
    <3>1. CASE d = c
      BY <1>4, <3>1 DEF Editor!Begin
    <3>2. CASE d # c
      BY <1>4, <3>2 DEF Editor!Begin
    <3> QED
      BY <3>1, <3>2
  <2> QED
    BY <2>1, <2>2, <2>3 DEF EditorInv
<1>5. ASSUME NEW c \in Analyses, Editor!ContextEnds(c)
      PROVE  EditorTypes' /\ EditorInv'
  BY <1>5 DEF Editor!ContextEnds
<1>6. ASSUME NEW c \in Analyses, Editor!Enter(c)
      PROVE  EditorTypes' /\ EditorInv'
  BY <1>6, NoneAssumption DEF Editor!Enter, Editor!MayEnter
<1>7. ASSUME NEW c \in Analyses, Editor!Fail(c)
      PROVE  EditorTypes' /\ EditorInv'
  BY <1>7 DEF Editor!Fail
<1>8. ASSUME NEW c \in Analyses, Editor!Lookup(c)
      PROVE  EditorTypes' /\ EditorInv'
  <2> DEFINE id == <<editSource[c], "none">>
             n == editLoaded[id]
  <2>1. CASE id \in DOMAIN editLoaded
    <3>1. /\ editUsing' = [editUsing EXCEPT ![c] = n]
          /\ editPc' = [editPc EXCEPT ![c] = "uses"]
          /\ editGate' = None
          /\ editPc[c] = "lookup" /\ editGate = c
          /\ UNCHANGED <<editCustom, editBytes, editLoaded, editEngines, editOver, editSource,
                         editDigest, editClosed>>
      BY <1>8, <2>1 DEF Editor!Lookup, Editor!Borrow, Editor!NoDigest
    <3>2. n \in DOMAIN editEngines /\ editEngines[n].id = id
      BY <2>1
    <3>3. n \in Nat
      BY <3>2, EngineNumbers
    <3>4. EditorTypes'
      BY <3>1, <3>3
    <3>5. GateIsHeld' /\ EnginesAreLoaded' /\ EnginesAreCurrent'
      BY <3>1, NoneAssumption
    <3>6. ASSUME NEW d \in Analyses PROVE Served(d)'
      <4>1. CASE d = c
        <5>1. editPc'[c] = "uses" /\ editUsing'[c] = n /\ editDigest[c] = "none"
          BY <3>1
        <5>2. id[1] = editSource[c]
          OBVIOUS
        <5> HIDE DEF id, n
        <5> QED
          BY <3>1, <3>2, <4>1, <5>1, <5>2
      <4>2. CASE d # c
        BY <3>1, <4>2
      <4> QED
        BY <4>1, <4>2
    <3> QED
      BY <3>4, <3>5, <3>6
  <2>2. CASE id \notin DOMAIN editLoaded
    <3>1. /\ editPc[c] = "lookup" /\ editPc' = [editPc EXCEPT ![c] = "resolve"]
          /\ UNCHANGED <<editCustom, editBytes, editGate, editLoaded, editEngines, editOver,
                         editSource, editDigest, editUsing, editClosed>>
      BY <1>8, <2>2 DEF Editor!Lookup, Editor!NoDigest
    <3>2. EditorTypes' /\ GateIsHeld' /\ EnginesAreLoaded' /\ EnginesAreCurrent'
      BY <3>1
    <3>3. ASSUME NEW d \in Analyses PROVE Served(d)'
      BY <3>1, <2>2
    <3> QED
      BY <3>2, <3>3
  <2> QED
    BY <2>1, <2>2
<1>9. ASSUME NEW c \in Analyses, Editor!EndAnalysis(c)
      PROVE  EditorTypes' /\ EditorInv'
  BY <1>9 DEF Editor!EndAnalysis, Editor!NoDigest, Digests
<1> QED
  BY <1>1, <1>2, <1>3, <1>4, <1>5, <1>6, <1>7, <1>8, <1>9, ResolveArtifactStep, CompileStep
  DEF Editor!Next

\* No identity is compiled twice, an analysis runs the engine of the bytes it
\* resolved, and that engine is open until the session closes all of them
\* (editorSession), for any number of overlapping analyses.
THEOREM EnginesOwned ==
  Editor!Init /\ [][Editor!Next]_(Editor!vars) => []Editor!EnginesAreOwned
<1>1. Editor!Init => EditorTypes
  <2> SUFFICES ASSUME Editor!Init PROVE EditorTypes
    OBVIOUS
  <2>1. editEngines = <<>> /\ editLoaded = <<>>
    BY DEF Editor!Init
  <2>2. /\ editEngines \in Seq([id : Editor!Sources \X Digests, digest : {"old", "new"},
                                open : BOOLEAN])
        /\ editLoaded \in [DOMAIN editLoaded -> DOMAIN editEngines]
    BY <2>1
  <2> QED
    BY <2>2 DEF Editor!Init, EditorTypes, Digests, Editor!Sources, Editor!NoDigest
<1>2. Editor!Init => EditorInv
  BY DEF Editor!Init, EditorInv, GateIsHeld, EnginesAreLoaded, EnginesAreCurrent,
     AnalysesAreServed, Served, Behind, Editor!Sources, Editor!NoDigest
<1>3. EditorTypes /\ EditorInv => Editor!EnginesAreOwned
  BY DEF EditorTypes, EditorInv, EnginesAreLoaded, AnalysesAreServed, Served, Editor!EnginesAreOwned,
     Editor!NoDigest
<1> QED
  BY <1>1, <1>2, <1>3, EditorInvStep, PTL

-----------------------------------------------------------------------------
(* The file snapshot of a plugin call (SnapshotFiles).                     *)

FileIds == 1..(Cardinality(Names) + MaxChanges)
KeptFiles == [id : Nat, content : Nat]
NameEntries == [path : Names, id : FileIds]

SnapTypes ==
  /\ snapLink \in [Names -> Names]
  /\ snapInode \in [Names -> FileIds]
  /\ snapBytes \in [FileIds -> Nat]
  /\ snapChanges \in 0..MaxChanges
  /\ DOMAIN snapNames = Names
  /\ snapFiles \in [Names -> KeptFiles \cup {None}]
  /\ snapFailure \in BOOLEAN /\ snapRefused \in BOOLEAN /\ snapReported \in BOOLEAN
  /\ snapOp \in {"idle", "resolve", "open", "stat", "closed"}

Known == {p \in Names : snapFiles[p] # None}

\* A name in work resolves to one of the names, what was read is what was kept,
\* and a refusal is remembered.
SnapInv ==
  /\ \A n \in Names : snapNames[n] # None => snapNames[n] \in NameEntries
  /\ snapOp = "resolve" =>
       snapWants \in {"open", "stat"} /\ snapName \in Names /\ snapAt \in Names
  /\ snapOp \in {"open", "stat"} => snapName \in Names /\ snapNames[snapName] \in NameEntries
  /\ \A r \in snapReads : /\ r.path \in Known
                          /\ r.id = snapFiles[r.path].id
                          /\ r.content = snapFiles[r.path].content
  /\ Cardinality(Known) <= MaxFiles
  /\ snapRefused => snapFailure
  /\ snapOp = "closed" /\ snapRefused => snapReported

\* SnapshotFiles counts as this module does.
LEMMA SameCardinality == \A S : Snap!Cardinality(S) = Cardinality(S)
  BY DEF Cardinality, Snap!Cardinality

\* The files of a tree can be told apart by numbers.
LEMMA FilesAreNumbered ==
  \E f \in [Names -> 1..Cardinality(Names)] : \A m, n \in Names : f[m] = f[n] => m = n
<1>1. ExistsBijection(1..Cardinality(Names), Names)
  BY FS_CardinalityType, SnapshotAssumption
<1>2. ExistsBijection(Names, 1..Cardinality(Names))
  BY <1>1, Fun_ExistsBijSymmetric
<1> QED
  BY <1>2 DEF ExistsBijection, Bijection, Injection, Surjection, IsInjective

\* The initial state satisfies the invariant.
LEMMA SnapInit ==
  ASSUME Snap!Init
  PROVE  SnapTypes /\ SnapInv
<1>1. Cardinality(Names) \in Nat
  BY FS_CardinalityType, SnapshotAssumption
<1>2. snapInode \in [Names -> 1..Cardinality(Names)]
  <2> DEFINE S == [Names -> 1..Cardinality(Names)]
             P(f) == \A m, n \in Names : f[m] = f[n] => m = n
  <2>1. \E f \in S : P(f)
    BY FilesAreNumbered
  <2>2. snapInode = CHOOSE f \in S : P(f)
    BY SameCardinality DEF Snap!Init
  <2> HIDE DEF S, P
  <2>3. snapInode \in S
    BY <2>1, <2>2
  <2> QED
    BY <2>3 DEF S
<1>3. SnapTypes
  <2>1. 1..Cardinality(Names) \subseteq FileIds
    BY <1>1, SnapshotAssumption DEF FileIds
  <2>2. snapInode \in [Names -> FileIds]
    BY <1>2, <2>1
  <2>3. snapBytes \in [FileIds -> Nat]
    BY SameCardinality DEF Snap!Init, FileIds
  <2>4. snapChanges \in 0..MaxChanges
    BY SnapshotAssumption DEF Snap!Init
  <2>5. /\ snapLink \in [Names -> Names] /\ DOMAIN snapNames = Names
        /\ snapFiles \in [Names -> KeptFiles \cup {None}]
        /\ snapFailure \in BOOLEAN /\ snapRefused \in BOOLEAN /\ snapReported \in BOOLEAN
        /\ snapOp = "idle"
    BY DEF Snap!Init
  <2> QED
    BY <2>2, <2>3, <2>4, <2>5 DEF SnapTypes
<1>4. Known = {}
  BY DEF Snap!Init, Known
<1>5. Cardinality(Known) <= MaxFiles
  BY <1>4, FS_EmptySet, SnapshotAssumption
<1> QED
  BY <1>3, <1>5 DEF Snap!Init, SnapInv

\* Another process changes the tree; nothing that was kept follows it.
LEMMA ChangeStep ==
  ASSUME SnapTypes, SnapInv, Snap!Change
  PROVE  SnapTypes' /\ SnapInv'
<1>1. Cardinality(Names) \in Nat
  BY FS_CardinalityType, SnapshotAssumption
<1>2. /\ snapChanges' = snapChanges + 1 /\ snapChanges' \in 0..MaxChanges
      /\ Cardinality(Names) + snapChanges' \in FileIds
  BY <1>1, SnapshotAssumption DEF Snap!Change, SnapTypes, FileIds
<1>3. SnapTypes'
  <2>1. snapLink' \in [Names -> Names]
    BY DEF Snap!Change, SnapTypes
  <2>2. snapInode' \in [Names -> FileIds]
    <3> DEFINE k == Cardinality(Names) + snapChanges'
    <3>1. snapInode' = snapInode \/ \E n \in Names : snapInode' = [snapInode EXCEPT ![n] = k]
      BY SameCardinality DEF Snap!Change
    <3>2. k \in FileIds
      BY <1>2
    <3> HIDE DEF k
    <3> QED
      BY <3>1, <3>2 DEF SnapTypes
  <2>3. snapBytes' \in [FileIds -> Nat]
    BY <1>2 DEF Snap!Change, SnapTypes
  <2> QED
    BY <1>2, <2>1, <2>2, <2>3 DEF Snap!Change, SnapTypes
<1>4. UNCHANGED <<snapOp, snapWants, snapName, snapAt, snapNames, snapFiles, snapFailure,
                  snapRefused, snapReads, snapReported>>
  BY DEF Snap!Change, Snap!cursor
<1>5. Known' = Known
  BY <1>4 DEF Known
<1> QED
  BY <1>3, <1>4, <1>5 DEF SnapInv

\* Opening a file that was not read yet keeps it, within the limit.
LEMMA OpenFileStep ==
  ASSUME SnapTypes, SnapInv, Snap!OpenFile
  PROVE  SnapTypes' /\ SnapInv'
<1> DEFINE p == snapNames[snapName].path
           m == snapNames[snapName].id
           f == [id |-> m, content |-> snapBytes[m]]
<1>1. p \in Names /\ m \in FileIds /\ snapFiles[p] = None /\ snapName \in Names
  BY DEF Snap!OpenFile, Snap!Kept, Snap!Path, SnapInv, NameEntries
<1>2. f \in KeptFiles /\ f # None
  <2>1. m \in Nat
    BY <1>1, FS_CardinalityType, SnapshotAssumption DEF FileIds
  <2>2. snapBytes[m] \in Nat
    BY <1>1 DEF SnapTypes
  <2> QED
    BY <2>1, <2>2, SnapshotAssumption DEF KeptFiles
<1>3. /\ snapOp' = "idle"
      /\ UNCHANGED <<snapLink, snapInode, snapBytes, snapChanges, snapNames, snapReported>>
  BY DEF Snap!OpenFile, Snap!Done, Snap!disk
<1>4. CASE /\ Cardinality(Known) < MaxFiles
           /\ snapFiles' = [snapFiles EXCEPT ![p] = f]
           /\ snapReads' = snapReads \cup {Snap!Read(f)}
           /\ UNCHANGED <<snapFailure, snapRefused>>
  <2>1. SnapTypes'
    BY <1>1, <1>2, <1>3, <1>4 DEF SnapTypes
  <2>2. Known' = Known \cup {p}
    BY <1>1, <1>2, <1>4 DEF Known, SnapTypes
  <2>3. IsFiniteSet(Known) /\ Cardinality(Known) \in Nat
    BY FS_Subset, FS_CardinalityType, SnapshotAssumption DEF Known
  <2>4. Cardinality(Known \cup {p})
          = IF p \in Known THEN Cardinality(Known) ELSE Cardinality(Known) + 1
    BY <2>3, FS_AddElement
  <2>5. Cardinality(Known') <= MaxFiles
    BY <1>4, <2>2, <2>3, <2>4, SnapshotAssumption
  <2>6. ASSUME NEW r \in snapReads'
        PROVE  /\ r.path \in Known' /\ r.id = snapFiles'[r.path].id
               /\ r.content = snapFiles'[r.path].content
    <3>1. CASE r \in snapReads
      <4>1. r.path \in Known /\ r.path # p
        BY <1>1, <3>1 DEF SnapInv, Known
      <4> QED
        BY <1>1, <1>4, <2>2, <3>1, <4>1 DEF SnapInv, SnapTypes, Known
    <3>2. CASE r = Snap!Read(f)
      <4>1. r.path = p /\ r.id = f.id /\ r.content = f.content
        BY <3>2 DEF Snap!Read, Snap!Path
      <4> QED
        BY <1>1, <1>4, <2>2, <4>1 DEF SnapTypes
    <3> QED
      BY <1>4, <3>1, <3>2
  <2> QED
    BY <1>3, <1>4, <2>1, <2>5, <2>6 DEF SnapInv
<1>5. CASE snapFailure' /\ snapRefused' /\ UNCHANGED <<snapFiles, snapReads>>
  <2>1. Known' = Known
    BY <1>5 DEF Known
  <2> QED
    BY <1>3, <1>5, <2>1 DEF SnapTypes, SnapInv
<1>6. CASE snapInode[Snap!Opened] = m /\ Cardinality(Known) < MaxFiles
  <2>1. snapBytes[snapInode[Snap!Opened]] = snapBytes[m]
    BY <1>6
  <2>2. /\ snapFiles' = [snapFiles EXCEPT ![p] = [id |-> snapInode[Snap!Opened],
                                       content |-> snapBytes[snapInode[Snap!Opened]]]]
        /\ snapReads' = snapReads \cup {Snap!Read([id |-> snapInode[Snap!Opened],
                                       content |-> snapBytes[snapInode[Snap!Opened]]])}
        /\ UNCHANGED <<snapFailure, snapRefused>>
    BY <1>6, SameCardinality DEF Snap!OpenFile, Snap!Path, Known
  <2> QED
    BY <1>4, <1>6, <2>1, <2>2
<1>7. CASE ~(snapInode[Snap!Opened] = m /\ Cardinality(Known) < MaxFiles)
  <2>1. ~(/\ snapInode[Snap!Opened] = snapNames[snapName].id
          /\ Cardinality({q \in Names : snapFiles[q] # None}) < MaxFiles)
    BY <1>7 DEF Known
  <2>2. snapFailure' = TRUE /\ snapRefused' = TRUE /\ UNCHANGED <<snapFiles, snapReads>>
    BY <2>1, SameCardinality DEF Snap!OpenFile
  <2> QED
    BY <1>5, <2>2
<1> QED
  BY <1>6, <1>7

\* The invariant of a file snapshot is inductive.
LEMMA SnapInvStep ==
  ASSUME SnapTypes, SnapInv, [Snap!Next]_(Snap!vars)
  PROVE  SnapTypes' /\ SnapInv'
<1> USE DEF SnapTypes, SnapInv, Known, Snap!disk, Snap!cursor, Snap!Done
<1>1. CASE UNCHANGED Snap!vars
  BY <1>1 DEF Snap!vars
<1>2. CASE Snap!Change
  BY <1>2, ChangeStep
<1>3. ASSUME NEW n \in Names, NEW k \in {"open", "stat"}, Snap!Ask(n, k)
      PROVE  SnapTypes' /\ SnapInv'
  BY <1>3 DEF Snap!Ask
<1>4. CASE Snap!Remembered
  BY <1>4 DEF Snap!Remembered
<1>5. CASE Snap!RefuseWalk \/ Snap!RefuseOpen \/ Snap!RefuseStat
  BY <1>5 DEF Snap!RefuseWalk, Snap!RefuseOpen, Snap!RefuseStat, Snap!Refused, Snap!Walking
<1>6. CASE Snap!FollowLink
  BY <1>6 DEF Snap!FollowLink, Snap!Walking
<1>7. CASE Snap!ReachFile
  BY <1>7 DEF Snap!ReachFile, Snap!Walking, NameEntries
<1>8. CASE Snap!LookupFails
  BY <1>8 DEF Snap!LookupFails
<1>9. CASE Snap!OpenKept
  BY <1>9 DEF Snap!OpenKept, Snap!Kept, Snap!Path, Snap!Read, NameEntries
<1>10. CASE Snap!OpenFile
  BY <1>10, OpenFileStep
<1>11. CASE Snap!Stat
  BY <1>11 DEF Snap!Stat
<1>12. CASE Snap!Close
  BY <1>12 DEF Snap!Close
<1> QED
  BY <1>1, <1>2, <1>3, <1>4, <1>5, <1>6, <1>7, <1>8, <1>9, <1>10, <1>11, <1>12 DEF Snap!Next

\* The guest reads one version of each file and no more files than the limit,
\* and a refusal is an error of the call (SnapshotFS), whatever another process
\* does to the tree meanwhile, for any tree and any limits.
THEOREM SnapshotReadsAgree ==
  Snap!Init /\ [][Snap!Next]_(Snap!vars) => []Snap!ReadsAgree
<1>1. ASSUME SnapTypes, SnapInv PROVE Snap!ReadsAgree
  <2>1. {r.path : r \in snapReads} \in SUBSET Known
    BY <1>1 DEF SnapInv
  <2>2. IsFiniteSet(Known) /\ Cardinality(Known) \in Nat
    BY FS_Subset, FS_CardinalityType, SnapshotAssumption DEF Known
  <2>3. /\ Cardinality({r.path : r \in snapReads}) <= Cardinality(Known)
        /\ IsFiniteSet({r.path : r \in snapReads})
    BY <2>1, <2>2, FS_Subset
  <2>4. Cardinality({r.path : r \in snapReads}) \in Nat
    BY <2>3, FS_CardinalityType
  <2>5. Cardinality({r.path : r \in snapReads}) <= MaxFiles
    BY <1>1, <2>2, <2>3, <2>4, SnapshotAssumption DEF SnapInv
  <2> QED
    BY <1>1, <2>5, SameCardinality DEF SnapInv, Snap!ReadsAgree
<1> QED
  BY <1>1, SnapInit, SnapInvStep, PTL

-----------------------------------------------------------------------------
(* The calls of a component plugin (ComponentCalls).                       *)

Wants(r) == Component!Wanted(r)

CompTypes ==
  /\ compEngine \in BOOLEAN
  /\ compLeaky \in BOOLEAN /\ compPanicked \in BOOLEAN /\ compStray \in BOOLEAN
  /\ compRequired \subseteq Component!Optional
  /\ compPc \in [PluginCalls -> {"idle", "gate", "prepare", "finish"}]
  /\ compNext \in 1..8

\* Only the call that holds the gate has instances, and while it does, the
\* engine and the factories are there.
CallHoldsGate ==
  /\ \A c \in PluginCalls : compPc[c] \in {"prepare", "finish"} => compGate = c
  /\ compGate = None =>
       /\ compLive = {} /\ compOwned = {} /\ compPlan = {}
       /\ ~compLeaky /\ ~compPanicked /\ ~(compEngine /\ compStray)
  /\ compGate # None => /\ compGate \in PluginCalls
                        /\ compPc[compGate] \in {"prepare", "finish"}
                        /\ compEngine /\ compFactories = Component!NeededFactories
  /\ compFactories \in {{}, Component!NeededFactories}
  /\ compEngine /\ (\E c \in PluginCalls : compPc[c] # "idle")
       => compFactories = Component!NeededFactories

\* What a call has acquired before "next".
AcquiredBefore(n) ==
  {r \in Component!Resources :
     \E m \in 1..(n - 1) : Component!Order[m] = r /\ Wants(r)}

\* A call that prepares owns what it acquired; one that finishes has what is
\* left to close, of which nothing is used by something it has closed earlier.
CallOwnsInstances ==
  \A c \in PluginCalls :
    /\ compPc[c] = "prepare" =>
         /\ compPlan = {} /\ compOwned = compLive
         /\ ~compLeaky /\ ~compPanicked /\ ~compStray
         /\ compLive = AcquiredBefore(compNext)
    /\ compPc[c] = "finish" =>
         /\ compLive = compPlan \cup compOwned
         /\ compOwned \subseteq {"world", "host"}
         /\ compPlan \subseteq {"guest", "prepared", "files", "annotations", "stdin"}
         /\ \A r \in compPlan : Wants(r) /\ Component!Uses(r) \subseteq compLive
         /\ compStray => compLeaky \/ compPanicked

CompInv == CallHoldsGate /\ CallOwnsInstances

\* The seven resources of a call by name.
LEMMA ResourceNames ==
  /\ Component!Resources
       = {"host", "world", "stdin", "annotations", "files", "prepared", "guest"}
  /\ Len(Component!Order) = 7
  /\ Component!Order[1] = "host" /\ Component!Order[2] = "world" /\ Component!Order[3] = "stdin"
  /\ Component!Order[4] = "annotations" /\ Component!Order[5] = "files"
  /\ Component!Order[6] = "prepared" /\ Component!Order[7] = "guest"
<1>1. DOMAIN Component!Order = 1..7 /\ Len(Component!Order) = 7
  BY DEF Component!Order
<1>2. /\ Component!Order[1] = "host" /\ Component!Order[2] = "world"
      /\ Component!Order[3] = "stdin" /\ Component!Order[4] = "annotations"
      /\ Component!Order[5] = "files" /\ Component!Order[6] = "prepared"
      /\ Component!Order[7] = "guest"
  BY DEF Component!Order
<1>3. 1..7 = {1, 2, 3, 4, 5, 6, 7}
  OBVIOUS
<1>4. Component!Resources = {Component!Order[m] : m \in {1, 2, 3, 4, 5, 6, 7}}
  BY <1>1, <1>3 DEF Component!Resources
<1> HIDE DEF Component!Order
<1>5. Component!Resources
       = {"host", "world", "stdin", "annotations", "files", "prepared", "guest"}
  BY <1>2, <1>4
<1> QED
  BY <1>1, <1>2, <1>5

\* What an instance uses was acquired before it, when the factories are open.
LEMMA UsesAcquired ==
  ASSUME compRequired \subseteq Component!Optional,
         compFactories = Component!NeededFactories,
         NEW n \in 1..8, NEW r \in AcquiredBefore(n)
  PROVE  Wants(r) /\ Component!Uses(r) \subseteq AcquiredBefore(n)
<1>1. PICK m \in 1..(n - 1) : Component!Order[m] = r /\ Wants(r)
  BY DEF AcquiredBefore
<1>2. \A u \in Component!Resources, j \in 1..(m - 1) :
         Wants(u) /\ Component!Order[j] = u => u \in AcquiredBefore(n)
  BY DEF AcquiredBefore
<1>3. m \in 1..7
  OBVIOUS
<1>4. CASE r = "stdin"
  <2>1. m = 3
    BY <1>1, <1>3, <1>4, ResourceNames
  <2> QED
    BY <1>1, <1>2, <1>4, <2>1, ResourceNames DEF Component!Uses, Wants, Component!Wanted,
       Component!Factories, Component!Optional
<1>5. CASE r = "prepared"
  <2>1. m = 6
    BY <1>1, <1>3, <1>5, ResourceNames
  <2>2. Wants("annotations")
    BY <1>1, <1>5 DEF Wants, Component!Wanted, Component!Factories, Component!Optional,
       Component!NeededFactories
  <2> QED
    BY <1>1, <1>2, <1>5, <2>1, <2>2, ResourceNames DEF Component!Uses
<1>6. CASE r = "guest"
  <2>1. m = 7
    BY <1>1, <1>3, <1>6, ResourceNames
  <2>2. ASSUME NEW u \in Component!Resources \ {"guest"}, Wants(u) PROVE u \in AcquiredBefore(n)
    BY <1>2, <2>1, <2>2, ResourceNames
  <2> QED
    BY <1>1, <1>6, <2>2 DEF Component!Uses, Wants
<1>7. CASE r \notin {"stdin", "prepared", "guest"}
  BY <1>1, <1>7 DEF Component!Uses
<1> QED
  BY <1>4, <1>5, <1>6, <1>7

\* One position further, a call has one more resource if it wants it.
LEMMA AcquiredNext ==
  ASSUME NEW n \in 1..7
  PROVE  AcquiredBefore(n + 1) = AcquiredBefore(n) \cup
           (IF Wants(Component!Order[n]) THEN {Component!Order[n]} ELSE {})
<1>1. Component!Order[n] \in Component!Resources
  BY ResourceNames DEF Component!Resources, Component!Order
<1>2. 1..((n + 1) - 1) = (1..(n - 1)) \cup {n}
  OBVIOUS
<1> QED
  BY <1>1, <1>2 DEF AcquiredBefore

\* Acquiring and skipping keep to the order.
LEMMA PrepareStep ==
  ASSUME CompTypes, CompInv, NEW c \in PluginCalls,
         Component!Acquire(c) \/ Component!Skip(c)
  PROVE  CompTypes' /\ CompInv'
<1> DEFINE r == Component!Order[compNext]
<1>1. /\ compPc[c] = "prepare" /\ compNext \in 1..7 /\ compNext' = compNext + 1
      /\ UNCHANGED <<compGate, compEngine, compRequired, compFactories, compPc, compPlan,
                     compLeaky, compPanicked, compStray>>
      /\ compLive' = compLive \cup (IF Wants(r) THEN {r} ELSE {})
      /\ compOwned' = compOwned \cup (IF Wants(r) THEN {r} ELSE {})
  BY ResourceNames DEF Component!Acquire, Component!Skip, CompTypes, Wants
<1>2. /\ compGate = c /\ compGate # None
      /\ \A d \in PluginCalls : compPc[d] \in {"prepare", "finish"} => d = c
  BY <1>1, NoneAssumption DEF CompInv, CallHoldsGate
<1>3. CompTypes'
  BY <1>1 DEF CompTypes
<1>4. CallHoldsGate'
  BY <1>1, <1>2 DEF CallHoldsGate, CompInv, Component!NeededFactories
<1>5. CallOwnsInstances'
  <2>1. compLive' = AcquiredBefore(compNext + 1)
    <3>1. compLive = AcquiredBefore(compNext)
      BY <1>1 DEF CompInv, CallOwnsInstances
    <3>2. AcquiredBefore(compNext + 1)
            = AcquiredBefore(compNext) \cup (IF Wants(r) THEN {r} ELSE {})
      BY <1>1, AcquiredNext
    <3> QED
      BY <1>1, <3>1, <3>2
  <2>2. AcquiredBefore(compNext)' = AcquiredBefore(compNext + 1)
    BY <1>1 DEF AcquiredBefore, Wants, Component!Wanted
  <2>3. compOwned' = compLive'
    BY <1>1 DEF CompInv, CallOwnsInstances
  <2>4. compPlan = {} /\ ~compLeaky /\ ~compPanicked /\ ~compStray
    BY <1>1 DEF CompInv, CallOwnsInstances
  <2> QED
    BY <1>1, <1>2, <2>1, <2>2, <2>3, <2>4 DEF CallOwnsInstances
<1> QED
  BY <1>3, <1>4, <1>5 DEF CompInv

\* Finishing starts with everything the call has.
LEMMA FinishStep ==
  ASSUME CompTypes, CompInv, NEW c \in PluginCalls,
         Component!Return(c) \/ Component!Panic(c)
  PROVE  CompTypes' /\ CompInv'
<1>1. /\ compPc[c] = "prepare" /\ compPc' = [compPc EXCEPT ![c] = "finish"]
      /\ compPlan' = compOwned \ {"world", "host"}
      /\ compOwned' = compOwned \cap {"world", "host"}
      /\ UNCHANGED <<compGate, compEngine, compRequired, compFactories, compNext, compLive,
                     compLeaky>>
      /\ \/ UNCHANGED <<compPanicked, compStray>>
         \/ compPanicked' = TRUE /\ compStray' = TRUE
  BY DEF Component!Return, Component!Panic, Component!Finish
<1>2. /\ compGate = c /\ compGate # None /\ compFactories = Component!NeededFactories
      /\ \A d \in PluginCalls : compPc[d] \in {"prepare", "finish"} => d = c
      /\ compOwned = compLive /\ compLive = AcquiredBefore(compNext)
      /\ ~compLeaky /\ ~compPanicked /\ ~compStray
  BY <1>1, NoneAssumption DEF CompInv, CallHoldsGate, CallOwnsInstances
<1>3. CompTypes'
  BY <1>1 DEF CompTypes
<1>4. CallHoldsGate'
  BY <1>1, <1>2 DEF CallHoldsGate, CompInv, CompTypes, Component!NeededFactories
<1>5. compLive \subseteq {"host", "world", "stdin", "annotations", "files", "prepared", "guest"}
  BY <1>2, ResourceNames DEF AcquiredBefore
<1>6. \A r \in compLive : Wants(r) /\ Component!Uses(r) \subseteq compLive
  BY <1>2, UsesAcquired DEF CompTypes
<1>7. \A r : Wants(r)' = Wants(r) /\ Component!Uses(r)' = Component!Uses(r)
  BY <1>1 DEF Wants, Component!Wanted, Component!Uses
<1>8. CallOwnsInstances'
  BY <1>1, <1>2, <1>5, <1>6, <1>7 DEF CallOwnsInstances, CompTypes
<1> QED
  BY <1>3, <1>4, <1>8 DEF CompInv

\* Closing in the order of "finish" closes nothing that is still used.
LEMMA CloseNextStep ==
  ASSUME CompTypes, CompInv, NEW c \in PluginCalls, Component!CloseNext(c)
  PROVE  CompTypes' /\ CompInv'
<1> DEFINE T == Component!TeardownOrder
<1>1. /\ DOMAIN T = 1..5
      /\ T[1] = "guest" /\ T[2] = "prepared" /\ T[3] = "files" /\ T[4] = "annotations"
      /\ T[5] = "stdin"
  BY DEF Component!TeardownOrder
<1>2. PICK m \in 1..5 : /\ T[m] \in compPlan
                        /\ \A j \in 1..(m - 1) : T[j] \notin compPlan
                        /\ Component!Closes(T[m])
  BY <1>1 DEF Component!CloseNext
<1> HIDE DEF T
<1>3. /\ compPc[c] = "finish"
      /\ UNCHANGED <<compGate, compEngine, compRequired, compFactories, compPc, compNext,
                     compOwned, compPanicked>>
      /\ compPlan' = compPlan \ {T[m]} /\ compLive' = compLive \ {T[m]}
  BY <1>2 DEF Component!CloseNext, Component!Closes
<1>4. /\ compLeaky' \in BOOLEAN /\ compStray' \in BOOLEAN
      /\ compStray' => compStray \/ compLeaky'
      /\ compLeaky => compLeaky'
  BY <1>2 DEF Component!Closes, CompTypes
<1>5. /\ compGate = c /\ compGate # None
      /\ \A d \in PluginCalls : compPc[d] \in {"prepare", "finish"} => d = c
  BY <1>3, NoneAssumption DEF CompInv, CallHoldsGate
<1>6. /\ compLive = compPlan \cup compOwned
      /\ compOwned \subseteq {"world", "host"}
      /\ compPlan \subseteq {"guest", "prepared", "files", "annotations", "stdin"}
      /\ \A r \in compPlan : Wants(r) /\ Component!Uses(r) \subseteq compLive
      /\ compStray => compLeaky \/ compPanicked
  BY <1>3 DEF CompInv, CallOwnsInstances
<1>7. ASSUME NEW r \in compPlan' PROVE T[m] \notin Component!Uses(r)
  <2>1. r # "guest"
    BY <1>1, <1>2, <1>3
  <2>2. r = "prepared" => m = 1
    BY <1>1, <1>2, <1>3
  <2>3. r = "stdin" => Component!Uses(r) = {"world"}
    BY DEF Component!Uses
  <2>4. r = "prepared" => Component!Uses(r) = {"annotations"}
    BY DEF Component!Uses
  <2>5. r \notin {"stdin", "prepared", "guest"} => Component!Uses(r) = {}
    BY DEF Component!Uses
  <2>6. T[m] # "world" /\ (m = 1 => T[m] = "guest")
    BY <1>1, <1>2
  <2> QED
    BY <2>1, <2>2, <2>3, <2>4, <2>5, <2>6
<1>8. \A r : Wants(r)' = Wants(r) /\ Component!Uses(r)' = Component!Uses(r)
  BY <1>3 DEF Wants, Component!Wanted, Component!Uses
<1>9. CompTypes'
  BY <1>3, <1>4 DEF CompTypes
<1>10. CallHoldsGate'
  BY <1>3, <1>5 DEF CallHoldsGate, CompInv, Component!NeededFactories
<1>11. T[m] \notin compOwned
  BY <1>1, <1>2, <1>6
<1>12. CallOwnsInstances'
  <2>1. \A r \in compPlan' : Wants(r)' /\ Component!Uses(r)' \subseteq compLive'
    BY <1>3, <1>6, <1>7, <1>8
  <2>2. compLive' = compPlan' \cup compOwned'
    BY <1>3, <1>6, <1>11
  <2>3. compStray' => compLeaky' \/ compPanicked'
    BY <1>3, <1>4, <1>6
  <2>4. \A d \in PluginCalls : compPc'[d] # "prepare"
    BY <1>3, <1>5
  <2> QED
    BY <1>3, <1>6, <2>1, <2>2, <2>3, <2>4 DEF CallOwnsInstances
<1> QED
  BY <1>9, <1>10, <1>12 DEF CompInv

\* The invariant of the plugin calls is inductive.
LEMMA CompInvStep ==
  ASSUME CompTypes, CompInv, [Component!Next]_(Component!vars)
  PROVE  CompTypes' /\ CompInv'
<1> USE DEF CompTypes, CompInv, CallHoldsGate, CallOwnsInstances, AcquiredBefore, Wants,
      Component!Wanted, Component!Uses, Component!NeededFactories, Component!scope
<1>1. CASE UNCHANGED Component!vars
  BY <1>1 DEF Component!vars
<1>2. CASE Component!Load
  BY <1>2 DEF Component!Load
<1>3. CASE Component!Close
  BY <1>3 DEF Component!Close
<1>4. ASSUME NEW c \in PluginCalls, Component!Call(c) PROVE CompTypes' /\ CompInv'
  BY <1>4 DEF Component!Call
<1>5. ASSUME NEW c \in PluginCalls, Component!GiveUp(c) PROVE CompTypes' /\ CompInv'
  BY <1>5 DEF Component!GiveUp
<1>6. ASSUME NEW c \in PluginCalls, Component!Enter(c) PROVE CompTypes' /\ CompInv'
  <2>1. CASE compEngine
    <3>1. /\ compGate = None /\ compGate' = c /\ compNext' = 1 /\ c # None
          /\ compPc[c] = "gate" /\ compPc' = [compPc EXCEPT ![c] = "prepare"]
          /\ UNCHANGED <<compEngine, compRequired, compFactories, compLive, compOwned, compPlan,
                         compLeaky, compPanicked, compStray>>
      BY <1>6, <2>1, NoneAssumption DEF Component!Enter
    <3>2. CompTypes'
      BY <3>1
    <3>5. /\ compFactories = Component!NeededFactories
          /\ \A d \in PluginCalls : compPc[d] \notin {"prepare", "finish"}
      BY <2>1, <3>1, NoneAssumption
    <3>6. CallHoldsGate'
      BY <2>1, <3>1, <3>5
    <3>3. AcquiredBefore(compNext)' = {}
      BY <3>1
    <3>4. CallOwnsInstances'
      BY <2>1, <3>1, <3>3
    <3> QED
      BY <3>2, <3>4, <3>6
  <2>2. CASE ~compEngine
    BY <1>6, <2>2 DEF Component!Enter
  <2> QED
    BY <2>1, <2>2
<1>7. ASSUME NEW c \in PluginCalls, Component!DiscardWorld(c) \/ Component!DiscardHost(c)
      PROVE  CompTypes' /\ CompInv'
  BY <1>7, NoneAssumption DEF Component!DiscardWorld, Component!DiscardHost
<1>8. ASSUME NEW c \in PluginCalls, Component!Leave(c) PROVE CompTypes' /\ CompInv'
  BY <1>8, NoneAssumption DEF Component!Leave, Component!MustCloseEngine
<1> QED
  BY <1>1, <1>2, <1>3, <1>4, <1>5, <1>6, <1>7, <1>8, PrepareStep, FinishStep, CloseNextStep
  DEF Component!Next

\* A call leaves nothing behind for the next one, and no instance outlives what
\* it imports, its factory or the engine (callScope), wherever the call fails,
\* for any number of callers.
THEOREM CallsIsolated ==
  Component!Init /\ [][Component!Next]_(Component!vars) => []Component!CallsAreIsolated
<1>1. Component!Init => CompTypes /\ CompInv
  <2> SUFFICES ASSUME Component!Init PROVE CompTypes /\ CompInv
    OBVIOUS
  <2>1. \A c \in PluginCalls : compPc[c] = "idle"
    BY DEF Component!Init
  <2>2. CompTypes
    <3>1. compRequired \subseteq Component!Optional
      BY DEF Component!Init
    <3>2. compPc \in [PluginCalls -> {"idle", "gate", "prepare", "finish"}]
      BY DEF Component!Init
    <3>3. /\ compEngine \in BOOLEAN /\ compLeaky \in BOOLEAN /\ compPanicked \in BOOLEAN
          /\ compStray \in BOOLEAN
      BY Zenon DEF Component!Init
    <3>4. compNext \in 1..8
      BY DEF Component!Init
    <3> QED
      BY <3>1, <3>2, <3>3, <3>4 DEF CompTypes
  <2>3. CallHoldsGate
    BY <2>1 DEF Component!Init, CallHoldsGate
  <2>4. CallOwnsInstances
    BY <2>1 DEF CallOwnsInstances
  <2> QED
    BY <2>2, <2>3, <2>4 DEF CompInv
<1>2. ASSUME CompTypes, CompInv PROVE Component!CallsAreIsolated
  <2>1. CASE compGate = None
    BY <1>2, <2>1 DEF CompInv, CallHoldsGate, Component!CallsAreIsolated
  <2>2. CASE compGate # None
    <3>1. /\ compEngine /\ compFactories = Component!NeededFactories /\ compGate \in PluginCalls
          /\ compPc[compGate] \in {"prepare", "finish"}
      BY <1>2, <2>2 DEF CompInv, CallHoldsGate
    <3>2. CASE compPc[compGate] = "prepare"
      <4>1. compLive = AcquiredBefore(compNext)
        BY <1>2, <3>1, <3>2 DEF CompInv, CallOwnsInstances
      <4>2. \A r \in compLive : Wants(r) /\ Component!Uses(r) \subseteq compLive
        BY <1>2, <3>1, <4>1, UsesAcquired DEF CompTypes
      <4> QED
        BY <2>2, <3>1, <4>2 DEF Component!CallsAreIsolated, Wants, Component!Wanted
    <3>3. CASE compPc[compGate] = "finish"
      <4>1. /\ compLive = compPlan \cup compOwned /\ compOwned \subseteq {"world", "host"}
            /\ \A r \in compPlan : Wants(r) /\ Component!Uses(r) \subseteq compLive
        BY <1>2, <3>1, <3>3 DEF CompInv, CallOwnsInstances
      <4>2. \A r \in compLive : Component!Uses(r) \subseteq compLive
        BY <4>1 DEF Component!Uses
      <4>3. compLive \cap Component!Factories \subseteq compFactories
        BY <3>1, <4>1 DEF Wants, Component!Wanted, Component!NeededFactories,
           Component!Factories, Component!Optional
      <4> QED
        BY <2>2, <3>1, <4>2, <4>3 DEF Component!CallsAreIsolated
    <3> QED
      BY <3>1, <3>2, <3>3
  <2> QED
    BY <2>1, <2>2
<1> QED
  BY <1>1, <1>2, CompInvStep, PTL

-----------------------------------------------------------------------------
(* The composition.                                                        *)

\* Every step of the composition is a step of a component or leaves it alone.
LEMMA StepsAreSeparate ==
  ASSUME [ResourcesNext]_allVars
  PROVE  /\ [Probe!Next]_(Probe!vars) /\ [Index!Next]_(Index!vars)
         /\ [Resolve!Next]_(Resolve!vars)
         /\ [Action!Next]_(Action!vars) /\ [Call!Next]_(Call!vars)
         /\ [Status!Next]_(Status!vars) /\ [Editor!Next]_(Editor!vars)
         /\ [Snap!Next]_(Snap!vars) /\ [Component!Next]_(Component!vars)
  BY DEF ResourcesNext, allVars, Only, FixNext, ProbeNext, IndexNext, ResolveNext, ActionNext,
     CallNext, StatusNext, EditorNext, SnapshotNext, ComponentNext, fixVars, probeVars, indexVars,
     resolveVars, actionVars, callVars, statusVars, editVars, snapVars, compVars,
     Probe!vars, Index!vars, Resolve!vars, Action!vars, Call!vars, Status!vars, Status!disk,
     Editor!vars, Snap!vars, Snap!disk, Snap!cursor, Component!vars, Component!scope

\* The composition starts with every component in an initial state of its own.
LEMMA StartsAreSeparate ==
  ASSUME ResourcesInit
  PROVE  /\ Probe!Init /\ Index!Init /\ Resolve!Init /\ Action!Init /\ Call!Init
         /\ Status!Init /\ Editor!Init /\ Snap!Init /\ Component!Init
  BY DEF ResourcesInit

\* The version probe, the index cache and the provider process implement
\* SharedLookup: one lasting outcome, and whoever gets a lasting one gets it.
THEOREM SharedLookupsAreImplemented == ResourcesSpec => LookupsAreShared
  BY StepsAreSeparate, StartsAreSeparate, ProbeRefines, IndexRefines, ResolverRefines, PTL
  DEF ResourcesSpec, LookupsAreShared

\* The documents of an analysis agree on which repository a name stands for.
THEOREM IdentityIsOne == ResourcesSpec => []OneIdentity
  BY StepsAreSeparate, StartsAreSeparate, ResolutionsAgree, PTL DEF ResourcesSpec, OneIdentity

\* Local actions and reusable workflows are reported in any order of lookups.
THEOREM MetadataReported == ResourcesSpec => []MetadataIsReported
  BY StepsAreSeparate, StartsAreSeparate, ActionLookupsComplete, CallersAgreeHolds, PTL
  DEF ResourcesSpec, MetadataIsReported

\* A revoked release stays refused to whoever checks it later.
THEOREM RevocationsStay == ResourcesSpec => []RevocationSticks
  BY StepsAreSeparate, StartsAreSeparate, RevocationsStick, PTL
  DEF ResourcesSpec, RevocationSticks

\* Engines are compiled once, current, open while used and closed at the end.
THEOREM EditorOwnsEngines == ResourcesSpec => []EnginesAreOwned
  BY StepsAreSeparate, StartsAreSeparate, EnginesOwned, PTL DEF ResourcesSpec, EnginesAreOwned

\* The guest of a plugin call reads one version of each file, within the limit.
THEOREM GuestReadsAgree == ResourcesSpec => []ReadsAgree
  BY StepsAreSeparate, StartsAreSeparate, SnapshotReadsAgree, PTL DEF ResourcesSpec, ReadsAgree

\* A call of a component plugin leaves nothing behind.
THEOREM PluginCallsAreIsolated == ResourcesSpec => []CallsAreIsolated
  BY StepsAreSeparate, StartsAreSeparate, CallsIsolated, PTL DEF ResourcesSpec, CallsAreIsolated
=============================================================================
