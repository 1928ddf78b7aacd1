----------------------------- MODULE LangServer -----------------------------
(***************************************************************************)
(* The language server's Serve function (internal/langserver/server.go):   *)
(* a reader goroutine, a select loop that owns all the session state, and  *)
(* one analysis worker per scheduled generation.                           *)
(*                                                                         *)
(* Text is a member of a small set.  A diagnostic list is abstracted to    *)
(* what its correctness depends on: the snapshot of open documents it was  *)
(* computed from, and whether it is empty.  The analysis itself reads the  *)
(* disk, so which paths it reports on is a free choice.                    *)
(***************************************************************************)
EXTENDS Naturals, Sequences, FiniteSets

CONSTANTS
    Paths,        \* local files; numbers, since targets are published sorted
    Uris,         \* the spellings of file URIs a client may use
    PathOf,       \* filePath: URI -> path
    FileURI,      \* FileURI: path -> the spelling the server itself uses
    Texts,        \* contents of a document
    MaxVersion,   \* bound: document versions are 1 .. MaxVersion
    MaxMessages,  \* bound: messages the client sends before end of input
    Closable,     \* whether the input stream implements io.Closer
    Absent, Cleared

ASSUME UriAssumption ==
    /\ Paths \subseteq Nat /\ Uris # {} /\ Texts # {}
    /\ PathOf \in [Uris -> Paths]
    /\ FileURI \in [Paths -> Uris]
    /\ \A p \in Paths : PathOf[FileURI[p]] = p

ASSUME BoundAssumption ==
    MaxVersion \in Nat \ {0} /\ MaxMessages \in Nat /\ Closable \in BOOLEAN

Doc == [uri : Uris, version : 1 .. MaxVersion, text : Texts]

ASSUME AbsentAssumption ==
    /\ Absent \notin Doc
    /\ Absent \notin Uris
    /\ Cleared \notin [of : [Paths -> Doc \cup {Absent}], found : BOOLEAN]

\* What a worker sees: maps.Clone(documents).
Snapshot == [Paths -> Doc \cup {Absent}]

\* The content of a publishDiagnostics message.
Items == [of : Snapshot, found : BOOLEAN]

Result == [gen : Nat, snapshot : Snapshot, found : SUBSET Paths]

Kinds == {"initialize", "shutdown", "exit", "open", "change", "close",
          "other", "end"}

\* "other" is every message that leaves the session state alone: malformed
\* parameters, foreign URIs, out of range edits, completion, code actions,
\* unknown methods.  "end" is end of input or a framing error.
Message == [kind : Kinds, doc : Doc]

NoMessage == [kind |-> "end", doc |-> CHOOSE d \in Doc : TRUE]

VARIABLES
    phase,         \* "running", "closing" (deferred cleanup), "returned"
    ctxDone,       \* the Serve context is cancelled
    initialized, shutdown,
    documents,     \* open documents by path
    latest,        \* snapshot the findings offered as code actions came from
    published,     \* URI under which a path was last published
    generation,
    live,          \* generations whose work context is not cancelled
    analyzing,     \* workers inside analyze
    sending,       \* workers offering their result
    results,       \* channel of capacity 1
    reader, held,  \* the reader goroutine and the message it offers
    input,         \* channel of capacity 1
    sent,          \* messages sent by the client (bound only)
    shown          \* last publishDiagnostics written for each URI

sessionVars == <<initialized, shutdown, documents, latest, published, generation>>
workerVars  == <<live, analyzing, sending, results>>
readerVars  == <<reader, held, sent>>
vars == <<phase, ctxDone, sessionVars, workerVars, readerVars, input, shown>>

NoDocuments == [p \in Paths |-> Absent]
NoFindings  == [p \in Paths |-> Absent]

\* Types, and the capacities of the input and results channels.
TypeOK ==
    /\ phase \in {"running", "closing", "returned"}
    /\ ctxDone \in BOOLEAN /\ initialized \in BOOLEAN /\ shutdown \in BOOLEAN
    /\ documents \in Snapshot
    /\ latest \in [Paths -> Snapshot \cup {Absent}]
    /\ published \in [Paths -> Uris \cup {Absent}]
    /\ generation \in Nat
    /\ live \subseteq Nat
    /\ analyzing \subseteq [gen : Nat, snapshot : Snapshot]
    /\ sending \subseteq Result
    /\ results \in Seq(Result) /\ Len(results) <= 1
    /\ reader \in {"reading", "offering", "done"}
    /\ held \in Message
    /\ input \in Seq(Message) /\ Len(input) <= 1
    /\ sent \in 0 .. MaxMessages
    /\ shown \in [Uris -> Items \cup {Cleared}]

Init ==
    /\ phase = "running" /\ ctxDone = FALSE
    /\ initialized = FALSE /\ shutdown = FALSE
    /\ documents = NoDocuments /\ latest = NoFindings
    /\ published = [p \in Paths |-> Absent]
    /\ generation = 0
    /\ live = {} /\ analyzing = {} /\ sending = {} /\ results = <<>>
    /\ reader = "reading" /\ held = NoMessage
    /\ input = <<>> /\ sent = 0
    /\ shown = [u \in Uris |-> Cleared]

-----------------------------------------------------------------------------
(* The reader goroutine.                                                   *)

\* readMessage returns a message of the client; a closed input yields none.
ReadMessage ==
    /\ reader = "reading"
    /\ phase = "running" \/ ~Closable
    /\ sent < MaxMessages
    /\ \E m \in Message :
          /\ m.kind # "end"
          \* the document is irrelevant to the messages without one
          /\ m.kind \notin {"open", "change"} =>
                /\ m.doc.version = 1 /\ m.doc.text = CHOOSE t \in Texts : TRUE
                /\ m.kind # "close" => m.doc = NoMessage.doc
          /\ held' = m
    /\ sent' = sent + 1
    /\ reader' = "offering"
    /\ UNCHANGED <<phase, ctxDone, sessionVars, workerVars, input, shown>>

\* readMessage fails: the client closed the stream, or Serve did on exit.
ReadEnd ==
    /\ reader = "reading"
    /\ held' = NoMessage
    /\ reader' = "offering"
    /\ UNCHANGED <<phase, ctxDone, sessionVars, workerVars, input, shown, sent>>

OfferMessage ==
    /\ reader = "offering"
    /\ input = <<>>
    /\ input' = <<held>>
    /\ held' = NoMessage
    /\ reader' = IF held.kind = "end" THEN "done" ELSE "reading"
    /\ UNCHANGED <<phase, ctxDone, sessionVars, workerVars, sent, shown>>

ReaderStops ==
    /\ reader = "offering"
    /\ ctxDone
    /\ reader' = "done"
    /\ held' = NoMessage
    /\ UNCHANGED <<phase, ctxDone, sessionVars, workerVars, sent, input, shown>>

-----------------------------------------------------------------------------
(* Analysis workers.                                                       *)

\* Fault: the worker sends its result without watching its context.
NeverCancelled(gen) == FALSE

Cancelled(gen) == ctxDone \/ gen \notin live

\* analyze returns.  A cancelled analysis may still return findings.
AnalyzeReturns(w) ==
    /\ w \in analyzing
    /\ \E found \in SUBSET Paths :
          sending' = sending \cup
              {[gen |-> w.gen, snapshot |-> w.snapshot, found |-> found]}
    /\ analyzing' = analyzing \ {w}
    /\ UNCHANGED <<phase, ctxDone, sessionVars, live, results, readerVars, input, shown>>

DeliverResult(r) ==
    /\ r \in sending
    /\ results = <<>>
    /\ results' = <<r>>
    /\ sending' = sending \ {r}
    /\ UNCHANGED <<phase, ctxDone, sessionVars, live, analyzing, readerVars, input, shown>>

\* The other case of the worker's select: its context is done.
DiscardResult(r) ==
    /\ r \in sending
    /\ Cancelled(r.gen)
    /\ sending' = sending \ {r}
    /\ UNCHANGED <<phase, ctxDone, sessionVars, live, analyzing, results, readerVars, input, shown>>

\* Fault: stop is called after it was assigned the new context.
ScheduleStopsItself(docs) ==
    /\ documents' = docs
    /\ latest' = NoFindings
    /\ generation' = generation + 1
    /\ live' = live
    /\ analyzing' = analyzing \cup {[gen |-> generation + 1, snapshot |-> docs]}
    /\ UNCHANGED <<sending, results>>

\* schedule: forget the findings, cancel the running analysis, start another
\* one on a copy of the documents.
Schedule(docs) ==
    /\ documents' = docs
    /\ latest' = NoFindings
    /\ generation' = generation + 1
    /\ live' = {generation + 1}
    /\ analyzing' = analyzing \cup {[gen |-> generation + 1, snapshot |-> docs]}
    /\ UNCHANGED <<sending, results>>

-----------------------------------------------------------------------------
(* The select loop.                                                        *)

\* Leaving the loop runs the deferred cleanup up to workers.Wait.
Return ==
    /\ phase' = "closing"
    /\ ctxDone' = TRUE
    /\ live' = {}

Join ==
    /\ phase = "closing"
    /\ analyzing = {} /\ sending = {}
    /\ phase' = "returned"
    /\ UNCHANGED <<ctxDone, sessionVars, workerVars, readerVars, input, shown>>

\* The caller cancels the context given to Serve.
CancelContext ==
    /\ ~ctxDone
    /\ ctxDone' = TRUE
    /\ UNCHANGED <<phase, sessionVars, workerVars, readerVars, input, shown>>

ContextDone ==
    /\ phase = "running" /\ ctxDone
    /\ Return
    /\ UNCHANGED <<sessionVars, analyzing, sending, results, readerVars, input, shown>>

TakeResult == phase = "running" /\ results # <<>> /\ results' = <<>>

\* Fault: results of superseded generations are applied.
StaleAfterShutdownOnly(r) == shutdown

Stale(r) == r.gen # generation \/ shutdown

DropResult ==
    /\ TakeResult
    /\ Stale(Head(results))
    /\ UNCHANGED <<phase, ctxDone, sessionVars, live, analyzing, sending, readerVars, input, shown>>

Findings(r) == [p \in Paths |-> IF p \in r.found THEN r.snapshot ELSE Absent]

\* Open documents, and every other path with findings.
Current(r) ==
    [p \in Paths |-> IF documents[p] # Absent THEN documents[p].uri
                     ELSE IF p \in r.found THEN FileURI[p] ELSE Absent]

\* Fault: only the current paths are published.
TargetsCurrentOnly(r) == Current(r)

\* Old publications once more, overridden by the current ones.
Targets(r) ==
    [p \in Paths |-> IF Current(r)[p] # Absent THEN Current(r)[p] ELSE published[p]]

\* Messages for the targets among ps.
Publish(r, ps) ==
    shown' = [u \in Uris |->
                IF PathOf[u] \in ps /\ Targets(r)[PathOf[u]] = u
                THEN [of |-> r.snapshot, found |-> PathOf[u] \in r.found]
                ELSE shown[u]]

PublishResult ==
    /\ TakeResult
    /\ LET r == Head(results) IN
          /\ ~Stale(r)
          /\ latest' = Findings(r)
          /\ published' = Current(r)
          /\ Publish(r, Paths)
    /\ UNCHANGED <<phase, ctxDone, initialized, shutdown, documents, generation,
                   live, analyzing, sending, readerVars, input>>

\* A write fails: that of the analysis error, which comes first, or one in the
\* middle of the targets, of which those before it were published.
PublishFails ==
    /\ TakeResult
    /\ LET r == Head(results) IN
          /\ ~Stale(r)
          /\ \/ latest' = NoFindings /\ UNCHANGED shown
             \/ /\ latest' = Findings(r)
                /\ \E cut \in Paths : Publish(r, {p \in Paths : p < cut})
    /\ Return
    /\ UNCHANGED <<initialized, shutdown, documents, published, generation,
                   analyzing, sending, readerVars, input>>

\* Receive the message from the input channel.
Receive(kinds) ==
    /\ phase = "running"
    /\ input # <<>>
    /\ Head(input).kind \in kinds
    /\ input' = <<>>

Serving == initialized /\ ~shutdown

Doc1 == Head(input).doc

\* Writing the response or notification succeeds, or fails and ends Serve.
Write(contexts) ==
    \/ live' = contexts /\ UNCHANGED <<phase, ctxDone>>
    \/ Return

\* End of input, or exit.
Leave ==
    /\ Receive({"end", "exit"})
    /\ Return
    /\ UNCHANGED <<sessionVars, analyzing, sending, results, readerVars, shown>>

Initialize ==
    /\ Receive({"initialize"})
    /\ ~initialized
    /\ initialized' = TRUE
    /\ Write(live)
    /\ UNCHANGED <<shutdown, documents, latest, published, generation,
                   analyzing, sending, results, readerVars, shown>>

\* Requests that only get a response: refused before initialize and after
\* shutdown, a second initialize, and everything in "other".
Respond ==
    /\ \/ Receive({"other"})
       \/ Receive({"initialize"}) /\ initialized
       \/ Receive({"shutdown"}) /\ ~Serving
    /\ Write(live)
    /\ UNCHANGED <<sessionVars, analyzing, sending, results, readerVars, shown>>

\* Notifications are dropped silently before initialize and after shutdown.
IgnoreNotification ==
    /\ Receive({"open", "change", "close"})
    /\ ~Serving
    /\ UNCHANGED <<phase, ctxDone, sessionVars, workerVars, readerVars, shown>>

Shutdown ==
    /\ Receive({"shutdown"})
    /\ Serving
    /\ shutdown' = TRUE
    /\ Write({})
    /\ UNCHANGED <<initialized, documents, latest, published,
                   generation, analyzing, sending, results, readerVars, shown>>

DidOpen ==
    /\ Receive({"open"})
    /\ Serving
    /\ Schedule([documents EXCEPT ![PathOf[Doc1.uri]] = Doc1])
    /\ UNCHANGED <<phase, ctxDone, initialized, shutdown, published, readerVars, shown>>

\* The stored document keeps its URI; the notification brings text and version.
Newer == /\ documents[PathOf[Doc1.uri]] # Absent
         /\ Doc1.version > documents[PathOf[Doc1.uri]].version

DidChange ==
    /\ Receive({"change"})
    /\ Serving
    /\ Newer
    /\ Schedule([documents EXCEPT ![PathOf[Doc1.uri]] =
                    [@ EXCEPT !.version = Doc1.version, !.text = Doc1.text]])
    /\ UNCHANGED <<phase, ctxDone, initialized, shutdown, published, readerVars, shown>>

IgnoreChange ==
    /\ Receive({"change"})
    /\ Serving
    /\ ~Newer
    /\ UNCHANGED <<phase, ctxDone, sessionVars, workerVars, readerVars, shown>>

\* Closing clears the client's list before the next analysis is scheduled.
DidClose ==
    /\ Receive({"close"})
    /\ Serving
    /\ published' = [published EXCEPT ![PathOf[Doc1.uri]] = Absent]
    /\ shown' = [shown EXCEPT ![Doc1.uri] = Cleared]
    /\ Schedule([documents EXCEPT ![PathOf[Doc1.uri]] = Absent])
    /\ UNCHANGED <<phase, ctxDone, initialized, shutdown, readerVars>>

DidCloseFails ==
    /\ Receive({"close"})
    /\ Serving
    /\ documents' = [documents EXCEPT ![PathOf[Doc1.uri]] = Absent]
    /\ latest' = [latest EXCEPT ![PathOf[Doc1.uri]] = Absent]
    /\ published' = [published EXCEPT ![PathOf[Doc1.uri]] = Absent]
    /\ Return
    /\ UNCHANGED <<initialized, shutdown, generation,
                   analyzing, sending, results, readerVars, shown>>

-----------------------------------------------------------------------------
Terminated == phase = "returned" /\ reader = "done" /\ UNCHANGED vars

ReaderStep == ReadMessage \/ ReadEnd \/ OfferMessage \/ ReaderStops

WorkerStep ==
    \/ \E w \in analyzing : AnalyzeReturns(w)
    \/ \E r \in sending : DeliverResult(r) \/ DiscardResult(r)

TakeStep == DropResult \/ PublishResult \/ PublishFails

InputStep ==
    \/ Leave \/ Initialize \/ Respond \/ IgnoreNotification \/ Shutdown
    \/ DidOpen \/ DidChange \/ IgnoreChange \/ DidClose \/ DidCloseFails

Next ==
    \/ ReaderStep \/ WorkerStep \/ TakeStep \/ InputStep
    \/ CancelContext \/ ContextDone \/ Join \/ Terminated

Spec == Init /\ [][Next]_vars

(***************************************************************************)
(* The scheduler runs every goroutine, select picks among its ready cases  *)
(* at random, and Analyze returns.  Nothing makes the client send a        *)
(* message, and only a closable input makes the pending read fail.         *)
(***************************************************************************)
Fairness ==
    /\ WF_vars(WorkerStep)
    /\ WF_vars(TakeStep) /\ WF_vars(InputStep)
    /\ WF_vars(ContextDone) /\ WF_vars(Join)
    /\ WF_vars(OfferMessage \/ ReaderStops)
    /\ WF_vars(phase # "running" /\ Closable /\ ReadEnd)

FairSpec == Spec /\ Fairness
-----------------------------------------------------------------------------
(* Properties.                                                             *)

\* Findings offered as code actions were computed from exactly the documents
\* that are open now: schedule empties them before the documents they belong
\* to can be edited under them, and a late result of an older generation
\* never refills them.
CodeActionsCurrent ==
    phase = "running" =>
        \A p \in Paths : latest[p] # Absent => latest[p] = documents

\* Why the two properties below hold: a result that carries the current
\* generation was computed from the current documents.
SnapshotsCurrent ==
    /\ \A w \in analyzing \cup sending :
          /\ w.gen <= generation
          /\ phase = "running" /\ w.gen = generation => w.snapshot = documents
    /\ results # <<>> =>
          /\ Head(results).gen <= generation
          /\ phase = "running" /\ Head(results).gen = generation
                => Head(results).snapshot = documents

\* A publishDiagnostics message written for a URI is computed from the open
\* documents at the moment it is written, whatever older analyses are still
\* running, queued in the results channel or cancelled; and after shutdown, or
\* once the loop is left, no worker that was still running gets a word in.
PublishesCurrent ==
    [][\A u \in Uris : shown'[u] # shown[u] =>
          /\ phase = "running" /\ ~shutdown
          /\ shown'[u] # Cleared => shown'[u].of = documents]_vars

\* Every non-empty list the client still shows belongs to a path the server
\* remembers having published under that URI, so that a later publication
\* can clear it: "Include old publications once more to clear removed
\* dependencies" (server.go:140).
ListsCanBeCleared ==
    phase = "running" =>
        \A u \in Uris : shown[u] # Cleared /\ shown[u].found => published[PathOf[u]] = u

\* The lists of all open documents are those of the documents as they are.
Settled ==
    \A p \in Paths : documents[p] # Absent =>
        /\ shown[documents[p].uri] # Cleared
        /\ shown[documents[p].uri].of = documents

\* Once settled, the findings of an open document are shown under its own URI
\* only: what was published for it as a dependency was cleared, as server.go:140
\* says of removed dependencies.
OneListPerDocument ==
    phase = "running" /\ Settled =>
        \A u \in Uris :
            shown[u] # Cleared /\ shown[u].found /\ documents[PathOf[u]] # Absent
                => documents[PathOf[u]].uri = u

\* While the session lasts, it settles again and again: the last edit is
\* always analysed and published, although every edit cancels the analysis
\* before it and the results channel holds a single, maybe stale, result.
LastEditIsPublished ==
    []<>(phase # "running" \/ ctxDone \/ shutdown \/ Settled)

\* Once the loop is left, workers.Wait returns: no worker stays blocked on the
\* results channel nobody reads any more.  A closable input then ends the reader
\* goroutine as well.
SessionEnds ==
    /\ phase = "closing" ~> phase = "returned"
    /\ (Closable /\ phase = "returned") ~> (reader = "done")
=============================================================================
