----------------------------- MODULE Resources -----------------------------
(***************************************************************************)
(* The components that share files, caches, engines or processes among     *)
(* concurrent callers: the five shared lookups, the revocation of plugin   *)
(* releases, the engines of an editor session, the file snapshot of a      *)
(* plugin call, the calls of a component plugin and the application of     *)
(* fixes.  They do not interact, so a behaviour is about one of them, the  *)
(* subject chosen in the initial state, and the others stay as they start: *)
(* the state space is their sum.                                           *)
(***************************************************************************)
EXTENDS FixApply

CONSTANTS Callers,     \* the concurrent lookups
          RefOf, Ids,  \* of Resolution
          Commands, Releases,  \* of ReleaseStatus
          Analyses,            \* the callers of EditorEngines
          Names, MaxChanges, MaxLinks, MaxLookups, MaxFiles, \* of SnapshotFiles
          PluginCalls,         \* the callers of ComponentCalls
          None

\* None is nobody and no value of a cache, and the outcomes of a lookup differ.
ASSUME NoneAssumption ==
  /\ None \notin Callers \cup Analyses \cup PluginCalls
  /\ None \notin Ids
  /\ None \notin {"version", "failure", "interrupted", "index", "failed",
               "nil", "meta", "parse", "read", "dockerfile", "missing",
               "metadata", "error"}
  /\ Ids \cap {"interrupted", "failed", "unseen"} = {}

ASSUME SnapshotAssumption ==
  /\ IsFiniteSet(Names)
  /\ MaxChanges \in Nat /\ MaxLinks \in Nat /\ MaxLookups \in Nat /\ MaxFiles \in Nat
  /\ None \notin [id : Nat, content : Nat]

VARIABLES subject,
          probePc, probeOver, probePending, probeReady, probeAnswer,
          probeWarned,
          indexPc, indexOver, indexCreator, indexRunning, indexSnapshot,
          indexAnswer,
          resolvePc, resolveOver, resolveKnown, resolveRequest,
          resolveCache, resolvePending, resolveWaits, resolveOutcome,
          resolveReply, resolveAnswer,
          actionManifest, actionPc, actionCache, actionMissing,
          actionSource, actionEntry, actionErr, actionUsed,
          callFile, callCache, callPc, callFound, callWriter,
          statusRevoked, statusFile, statusPc, statusKind, statusMine,
          statusTodo, statusTook, statusRefused, statusBefore,
          editCustom, editBytes, editGate, editLoaded, editEngines, editPc,
          editOver, editSource, editDigest, editUsing, editClosed,
          snapLink, snapInode, snapBytes, snapChanges, snapOp, snapWants,
          snapName, snapAt, snapLinks, snapNames, snapFiles, snapLookups,
          snapFailure, snapRefused, snapReads, snapReported,
          compGate, compEngine, compRequired, compFactories, compPc,
          compNext, compLive, compOwned, compPlan, compLeaky, compPanicked,
          compStray

Probe == INSTANCE VersionProbe
  WITH pc <- probePc, over <- probeOver, pending <- probePending,
       ready <- probeReady, answer <- probeAnswer, warned <- probeWarned

Index == INSTANCE IndexCache
  WITH pc <- indexPc, over <- indexOver, creator <- indexCreator,
       running <- indexRunning, snapshot <- indexSnapshot,
       answer <- indexAnswer

Resolve == INSTANCE Resolution
  WITH pc <- resolvePc, over <- resolveOver, known <- resolveKnown,
       request <- resolveRequest, cache <- resolveCache,
       pending <- resolvePending, waits <- resolveWaits,
       outcome <- resolveOutcome, reply <- resolveReply,
       answer <- resolveAnswer

Action == INSTANCE LocalActions
  WITH manifest <- actionManifest, pc <- actionPc, cache <- actionCache,
       missing <- actionMissing, source <- actionSource,
       entry <- actionEntry, err <- actionErr, used <- actionUsed

Call == INSTANCE WorkflowCalls
  WITH file <- callFile, cache <- callCache, pc <- callPc,
       found <- callFound, writer <- callWriter

Status == INSTANCE ReleaseStatus
  WITH revoked <- statusRevoked, statuses <- statusFile, pc <- statusPc,
       kind <- statusKind, mine <- statusMine, todo <- statusTodo,
       took <- statusTook, refused <- statusRefused, before <- statusBefore

Editor == INSTANCE EditorEngines
  WITH Callers <- Analyses, custom <- editCustom, bytes <- editBytes,
       gate <- editGate, loaded <- editLoaded, engines <- editEngines,
       pc <- editPc, over <- editOver, source <- editSource,
       digest <- editDigest, using <- editUsing, closed <- editClosed

Snap == INSTANCE SnapshotFiles
  WITH link <- snapLink, inode <- snapInode, bytes <- snapBytes,
       changes <- snapChanges,
       op <- snapOp, wants <- snapWants, name <- snapName, at <- snapAt,
       links <- snapLinks, names <- snapNames, files <- snapFiles,
       lookups <- snapLookups, failure <- snapFailure,
       refused <- snapRefused, reads <- snapReads, reported <- snapReported

Component == INSTANCE ComponentCalls
  WITH Callers <- PluginCalls, gate <- compGate, engine <- compEngine,
       required <- compRequired, factories <- compFactories, pc <- compPc,
       next <- compNext, live <- compLive, owned <- compOwned,
       plan <- compPlan, leaky <- compLeaky, panicked <- compPanicked,
       stray <- compStray

fixVars == vars
probeVars == <<probePc, probeOver, probePending, probeReady, probeAnswer,
               probeWarned>>
indexVars == <<indexPc, indexOver, indexCreator, indexRunning,
               indexSnapshot, indexAnswer>>
resolveVars == <<resolvePc, resolveOver, resolveKnown, resolveRequest,
                 resolveCache, resolvePending, resolveWaits,
                 resolveOutcome, resolveReply, resolveAnswer>>
actionVars == <<actionManifest, actionPc, actionCache, actionMissing,
                actionSource, actionEntry, actionErr, actionUsed>>
callVars == <<callFile, callCache, callPc, callFound, callWriter>>

statusVars == <<statusRevoked, statusFile, statusPc, statusKind, statusMine,
                statusTodo, statusTook, statusRefused, statusBefore>>
editVars == <<editCustom, editBytes, editGate, editLoaded, editEngines,
              editPc, editOver, editSource, editDigest, editUsing,
              editClosed>>
snapVars == <<snapLink, snapInode, snapBytes, snapChanges, snapOp,
              snapWants, snapName, snapAt, snapLinks, snapNames, snapFiles,
              snapLookups, snapFailure, snapRefused, snapReads,
              snapReported>>
compVars == <<compGate, compEngine, compRequired, compFactories, compPc,
              compNext, compLive, compOwned, compPlan, compLeaky,
              compPanicked, compStray>>

allVars == <<subject, fixVars, probeVars, indexVars, resolveVars, actionVars,
             callVars, statusVars, editVars, snapVars, compVars>>

-----------------------------------------------------------------------------
Lookups == {"probe", "index", "resolve", "action", "call"}
Subjects == Lookups \cup {"status", "editor", "snapshot", "component", "fix"}

ResourcesInit ==
  /\ subject \in Subjects
  /\ Init
  /\ Probe!Init /\ Index!Init /\ Resolve!Init /\ Status!Init
  /\ Action!Init /\ Call!Init /\ Editor!Init /\ Snap!Init /\ Component!Init
  /\ subject # "action" => actionManifest = "valid"
  /\ subject # "call" => callFile = "callable" /\ callWriter = "done"
  /\ subject # "editor" => ~editCustom
  /\ subject # "snapshot" => snapLink = [n \in DOMAIN snapLink |-> n]
  /\ subject # "component" => compRequired = {}

Only(s) == /\ subject = s /\ UNCHANGED subject
           /\ s # "fix" => UNCHANGED fixVars
           /\ s # "probe" => UNCHANGED probeVars
           /\ s # "index" => UNCHANGED indexVars
           /\ s # "resolve" => UNCHANGED resolveVars
           /\ s # "action" => UNCHANGED actionVars
           /\ s # "call" => UNCHANGED callVars
           /\ s # "status" => UNCHANGED statusVars
           /\ s # "editor" => UNCHANGED editVars
           /\ s # "snapshot" => UNCHANGED snapVars
           /\ s # "component" => UNCHANGED compVars

FixNext == Only("fix") /\ Next
ProbeNext == Only("probe") /\ Probe!Next
IndexNext == Only("index") /\ Index!Next
ResolveNext == Only("resolve") /\ Resolve!Next
ActionNext == Only("action") /\ Action!Next
CallNext == Only("call") /\ Call!Next
StatusNext == Only("status") /\ Status!Next
EditorNext == Only("editor") /\ Editor!Next
SnapshotNext == Only("snapshot") /\ Snap!Next
ComponentNext == Only("component") /\ Component!Next

ResourcesNext ==
          \/ FixNext \/ ProbeNext \/ IndexNext \/ ResolveNext \/ ActionNext
          \/ CallNext \/ StatusNext \/ EditorNext \/ SnapshotNext
          \/ ComponentNext

\* A step of one lookup, with the fairness of its module.
Step(c) == \/ Only("probe") /\ Probe!Step(c)
           \/ Only("index") /\ Index!Step(c)
           \/ Only("resolve") /\ Resolve!Step(c)
           \/ Only("action") /\ Action!Step(c)
           \/ Only("call") /\ Call!Step(c)

Fairness ==
  /\ \A c \in Callers : WF_allVars(Step(c))
  /\ WF_allVars(Only("call") /\ (Call!CheckEntry \/ Call!WriteEvent))

\* Where a lookup of the subject is.
PcOf(c) == CASE subject = "probe" -> probePc[c]
             [] subject = "index" -> indexPc[c]
             [] subject = "resolve" -> resolvePc[c]
             [] subject = "action" -> actionPc[c]
             [] subject = "call" -> callPc[c]

ResourcesSpec == ResourcesInit /\ [][ResourcesNext]_allVars /\ Fairness

-----------------------------------------------------------------------------
\* The version probe, the index cache and, for each request, the provider
\* process implement SharedLookup: see VersionProbe, IndexCache, Resolution.
LookupsAreShared == /\ Probe!ProbeIsSharedLookup
                    /\ Index!IndexIsSharedLookup
                    /\ Resolve!ResolverIsSharedLookup

\* The documents of one analysis agree on a repository's identity.
OneIdentity == Resolve!OneIdentity

\* Whoever looks up a local action's manifest or a reusable workflow is told of
\* its failure, or all are told the same: see LocalActions and WorkflowCalls.
MetadataIsReported == Action!ActionLookupsAreComplete /\ Call!CallersAgree

\* Every lookup comes back, whichever contexts end while it waits.
EveryLookupReturns ==
  <>(subject \in Lookups => \A c \in Callers : PcOf(c) = "done")

\* A revoked release stays refused: see ReleaseStatus.
RevocationSticks == Status!RevocationSticks

\* Engines are compiled once, current, open while used and closed at the
\* end: see EditorEngines.
EnginesAreOwned == Editor!EnginesAreOwned

\* The guest reads one version of each file, within its limits: see
\* SnapshotFiles.
ReadsAgree == Snap!ReadsAgree

\* A call of a component leaves nothing behind: see ComponentCalls.
CallsAreIsolated == Component!CallsAreIsolated
=============================================================================
