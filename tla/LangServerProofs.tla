-------------------------- MODULE LangServerProofs --------------------------
(***************************************************************************)
(* Type correctness of LangServer, and the two safety properties that rest *)
(* on the generation counter: code actions and published diagnostics are   *)
(* computed from the documents that are open.  With one spelling per file, *)
(* every list the client shows can still be cleared.                       *)
(***************************************************************************)
EXTENDS LangServer, TLAPS

\* The placeholder for no message is a message.
LEMMA MessageType == NoMessage \in Message
<1>1. 1 \in 1 .. MaxVersion
  BY BoundAssumption
<1>2. PICK u \in Uris, t \in Texts : TRUE
  BY UriAssumption
<1>3. [uri |-> u, version |-> 1, text |-> t] \in Doc
  BY <1>1, <1>2 DEF Doc
<1>4. (CHOOSE d \in Doc : TRUE) \in Doc
  BY <1>3
<1> QED
  BY <1>4 DEF NoMessage, Message, Kinds

\* Serve starts with values of the right types.
LEMMA InitType == Init => TypeOK
<1> SUFFICES ASSUME Init PROVE TypeOK
  OBVIOUS
<1>1. NoDocuments \in Snapshot
  BY DEF NoDocuments, Snapshot
<1>2. NoFindings \in [Paths -> Snapshot \cup {Absent}]
  BY DEF NoFindings
<1>3. results \in Seq(Result) /\ Len(results) <= 1
  BY DEF Init
<1>4. input \in Seq(Message) /\ Len(input) <= 1
  BY DEF Init
<1>5. shown \in [Uris -> Items \cup {Cleared}]
  BY DEF Init
<1>6. published \in [Paths -> Uris \cup {Absent}]
  BY DEF Init
<1>7. /\ analyzing \subseteq [gen : Nat, snapshot : Snapshot]
      /\ sending \subseteq Result /\ live \subseteq Nat
      /\ generation \in Nat /\ sent \in 0 .. MaxMessages
  BY BoundAssumption DEF Init
<1> QED
  BY <1>1, <1>2, <1>3, <1>4, <1>5, <1>6, <1>7, MessageType DEF Init, TypeOK

\* A schedule keeps the session and worker state well typed.
LEMMA ScheduleType ==
    ASSUME TypeOK, NEW docs \in Snapshot, Schedule(docs)
    PROVE  /\ documents' \in Snapshot
           /\ latest' \in [Paths -> Snapshot \cup {Absent}]
           /\ generation' \in Nat
           /\ live' \subseteq Nat
           /\ analyzing' \subseteq [gen : Nat, snapshot : Snapshot]
           /\ sending' = sending /\ results' = results
<1>1. NoFindings \in [Paths -> Snapshot \cup {Absent}]
  BY DEF NoFindings
<1> QED
  BY <1>1 DEF TypeOK, Schedule

\* What a receive takes from the input or the results channel.
LEMMA HeadType ==
    ASSUME TypeOK
    PROVE  /\ results # <<>> => Head(results) \in Result
           /\ input # <<>> => Head(input) \in Message /\ Doc1 \in Doc
<1>1. results # <<>> => Head(results) \in Result
  BY DEF TypeOK
<1>2. input # <<>> => Head(input) \in Message
  BY DEF TypeOK
<1> QED
  BY <1>1, <1>2 DEF Doc1, Message

\* Publishing some targets of a result keeps the type of the client's lists.
LEMMA PublishType ==
    ASSUME TypeOK, NEW r \in Result, NEW ps \in SUBSET Paths, Publish(r, ps)
    PROVE  shown' \in [Uris -> Items \cup {Cleared}]
<1>1. ASSUME NEW u \in Uris
      PROVE  [of |-> r.snapshot, found |-> PathOf[u] \in r.found] \in Items
  BY DEF Result, Items
<1> QED
  BY <1>1 DEF Publish, TypeOK

\* The findings and the publications of a result have their types.
LEMMA FindingsType ==
    ASSUME TypeOK, NEW r \in Result
    PROVE  /\ Findings(r) \in [Paths -> Snapshot \cup {Absent}]
           /\ Current(r) \in [Paths -> Uris \cup {Absent}]
<1>1. Findings(r) \in [Paths -> Snapshot \cup {Absent}]
  BY DEF Findings, Result
<1>2. ASSUME NEW p \in Paths, documents[p] # Absent PROVE documents[p].uri \in Uris
  BY <1>2 DEF TypeOK, Snapshot, Doc
<1>3. Current(r) \in [Paths -> Uris \cup {Absent}]
  BY <1>2, UriAssumption DEF Current
<1> QED
  BY <1>1, <1>3

\* Every step keeps every variable in its type.
LEMMA TypeStep == TypeOK /\ [Next]_vars => TypeOK'
<1> SUFFICES ASSUME TypeOK, [Next]_vars PROVE TypeOK'
  OBVIOUS
<1> USE DEF sessionVars, workerVars, readerVars
<1>1. CASE ReadMessage
  BY <1>1, BoundAssumption DEF TypeOK, ReadMessage
<1>2. CASE ReadEnd
  BY <1>2, MessageType DEF TypeOK, ReadEnd
<1>3. CASE OfferMessage
  <2>1. <<held>> \in Seq(Message) /\ Len(<<held>>) <= 1
    BY DEF TypeOK
  <2> QED BY <1>3, <2>1, MessageType DEF TypeOK, OfferMessage
<1>4. CASE ReaderStops
  BY <1>4, MessageType DEF TypeOK, ReaderStops
<1>5. ASSUME NEW w \in analyzing, AnalyzeReturns(w) PROVE TypeOK'
  BY <1>5 DEF TypeOK, AnalyzeReturns, Result
<1>6. ASSUME NEW r \in sending, DeliverResult(r) PROVE TypeOK'
  <2>1. <<r>> \in Seq(Result) /\ Len(<<r>>) <= 1
    BY DEF TypeOK
  <2> QED BY <1>6, <2>1 DEF TypeOK, DeliverResult
<1>7. ASSUME NEW r \in sending, DiscardResult(r) PROVE TypeOK'
  BY <1>7 DEF TypeOK, DiscardResult
<1>8. <<>> \in Seq(Result) /\ Len(<<>>) <= 1 /\ <<>> \in Seq(Message)
  OBVIOUS
<1>9. CASE DropResult
  BY <1>9, <1>8 DEF TypeOK, DropResult, TakeResult
<1>10. CASE PublishResult
  <2> DEFINE r == Head(results)
  <2>1. r \in Result
    BY <1>10, HeadType DEF PublishResult, TakeResult
  <2>2. shown' \in [Uris -> Items \cup {Cleared}]
    BY <1>10, <2>1, PublishType DEF PublishResult
  <2> QED BY <1>10, <1>8, <2>1, <2>2, FindingsType DEF TypeOK, PublishResult, TakeResult
<1>11. CASE PublishFails
  <2> DEFINE r == Head(results)
  <2>1. r \in Result
    BY <1>11, HeadType DEF PublishFails, TakeResult
  <2>2. shown' \in [Uris -> Items \cup {Cleared}]
    <3>1. CASE UNCHANGED shown
      BY <3>1 DEF TypeOK
    <3>2. ASSUME NEW cut \in Paths, Publish(r, {p \in Paths : p < cut})
          PROVE  shown' \in [Uris -> Items \cup {Cleared}]
      BY <2>1, <3>2, PublishType
    <3> QED BY <1>11, <3>1, <3>2 DEF PublishFails
  <2>3. latest' \in [Paths -> Snapshot \cup {Absent}]
    BY <1>11, <2>1, FindingsType DEF PublishFails, NoFindings
  <2> QED BY <1>11, <1>8, <2>1, <2>2, <2>3
          DEF TypeOK, PublishFails, TakeResult, Return
<1>12. CASE Leave
  BY <1>12, <1>8 DEF TypeOK, Leave, Receive, Return
<1>13. CASE Initialize
  BY <1>13, <1>8 DEF TypeOK, Initialize, Receive, Write, Return
<1>14. CASE Respond
  BY <1>14, <1>8 DEF TypeOK, Respond, Receive, Write, Return
<1>15. CASE IgnoreNotification
  BY <1>15, <1>8 DEF TypeOK, IgnoreNotification, Receive
<1>16. CASE Shutdown
  BY <1>16, <1>8 DEF TypeOK, Shutdown, Receive, Write, Return
<1>17. CASE DidOpen
  <2>1. [documents EXCEPT ![PathOf[Doc1.uri]] = Doc1] \in Snapshot
    BY <1>17, HeadType DEF TypeOK, Snapshot, DidOpen, Receive
  <2> QED BY <1>17, <1>8, <2>1, ScheduleType DEF TypeOK, DidOpen, Receive
<1>18. CASE DidChange
  <2> DEFINE p == PathOf[Doc1.uri]
             d == [documents[p] EXCEPT !.version = Doc1.version, !.text = Doc1.text]
  <2>1. Doc1 \in Doc /\ p \in Paths /\ documents[p] \in Doc
    BY <1>18, HeadType, UriAssumption DEF TypeOK, Snapshot, DidChange, Receive, Newer, Doc
  <2>2. d \in Doc
    BY <2>1 DEF Doc
  <2>3. [documents EXCEPT ![p] = d] \in Snapshot
    BY <2>1, <2>2 DEF TypeOK, Snapshot
  <2>4. Schedule([documents EXCEPT ![p] = d])
    BY <1>18 DEF DidChange
  <2> QED BY <1>18, <1>8, <2>3, <2>4, ScheduleType DEF TypeOK, DidChange, Receive
<1>19. CASE IgnoreChange
  BY <1>19, <1>8 DEF TypeOK, IgnoreChange, Receive
<1>20. CASE DidClose
  <2>1. [documents EXCEPT ![PathOf[Doc1.uri]] = Absent] \in Snapshot
    BY <1>20 DEF TypeOK, Snapshot
  <2> QED BY <1>20, <1>8, <2>1, ScheduleType DEF TypeOK, DidClose, Receive
<1>21. CASE DidCloseFails
  <2>1. [documents EXCEPT ![PathOf[Doc1.uri]] = Absent] \in Snapshot
    BY <1>21 DEF TypeOK, Snapshot
  <2> QED BY <1>21, <1>8, <2>1 DEF TypeOK, DidCloseFails, Receive, Return
<1>22. CASE CancelContext
  BY <1>22 DEF TypeOK, CancelContext
<1>23. CASE ContextDone
  BY <1>23 DEF TypeOK, ContextDone, Return
<1>24. CASE Join
  BY <1>24 DEF TypeOK, Join
<1>25. CASE Terminated \/ UNCHANGED vars
  BY <1>25 DEF TypeOK, Terminated, vars
<1> QED
  BY <1>1, <1>2, <1>3, <1>4, <1>5, <1>6, <1>7, <1>9, <1>10, <1>11, <1>12, <1>13,
     <1>14, <1>15, <1>16, <1>17, <1>18, <1>19, <1>20, <1>21, <1>22, <1>23, <1>24, <1>25
     DEF Next, ReaderStep, WorkerStep, TakeStep, InputStep

\* Type correctness: channels never hold more than one element and every
\* piece of session state stays in its domain, for any set of files, URIs and
\* texts.
THEOREM TypeCorrect == Spec => []TypeOK
<1>1. Init => TypeOK
  BY InitType
<1>2. TypeOK /\ [Next]_vars => TypeOK'
  BY TypeStep
<1> QED
  BY <1>1, <1>2, PTL DEF Spec
-----------------------------------------------------------------------------
(* The inductive invariant.                                                *)

Inv == TypeOK /\ SnapshotsCurrent /\ CodeActionsCurrent

\* Receiving a message or discarding one touches no analysis.
LEMMA FrameStep ==
    ASSUME SnapshotsCurrent, CodeActionsCurrent,
           UNCHANGED <<documents, latest, generation, analyzing>>,
           sending' \subseteq sending,
           results' = results \/ results' = <<>>,
           phase' = "running" => phase = "running"
    PROVE  SnapshotsCurrent' /\ CodeActionsCurrent'
BY DEF SnapshotsCurrent, CodeActionsCurrent

\* A new generation: older results no longer carry the current number.
LEMMA ScheduleStep ==
    ASSUME TypeOK, SnapshotsCurrent, NEW docs \in Snapshot, Schedule(docs),
           UNCHANGED phase
    PROVE  SnapshotsCurrent' /\ CodeActionsCurrent'
<1>1. /\ documents' = docs /\ generation' = generation + 1
      /\ analyzing' = analyzing \cup {[gen |-> generation + 1, snapshot |-> docs]}
      /\ sending' = sending /\ results' = results
  BY DEF Schedule
<1>2. generation \in Nat
  BY DEF TypeOK
<1>3. ASSUME NEW w \in analyzing \cup sending
      PROVE  w.gen \in Nat /\ w.gen <= generation
  BY DEF TypeOK, Result, SnapshotsCurrent
<1>4. results # <<>> => Head(results).gen \in Nat /\ Head(results).gen <= generation
  BY HeadType DEF Result, SnapshotsCurrent
<1>5. ASSUME NEW w \in (analyzing \cup sending)'
      PROVE  w.gen <= generation' /\ (w.gen = generation' => w.snapshot = documents')
  <2>1. CASE w \in analyzing \cup sending
    BY <1>1, <1>2, <1>3, <2>1
  <2>2. CASE w = [gen |-> generation + 1, snapshot |-> docs]
    BY <1>1, <1>2, <2>2
  <2> QED BY <1>1, <2>1, <2>2
<1>6. results' # <<>> => /\ Head(results').gen <= generation'
                         /\ Head(results').gen # generation'
  BY <1>1, <1>2, <1>4
<1>7. CodeActionsCurrent'
  BY DEF Schedule, CodeActionsCurrent, NoFindings
<1> QED
  BY <1>5, <1>6, <1>7 DEF SnapshotsCurrent

\* Every step of the reader, the workers and the loop keeps the invariant.
LEMMA InvStep == Inv /\ [Next]_vars => Inv'
<1> SUFFICES ASSUME Inv, [Next]_vars PROVE SnapshotsCurrent' /\ CodeActionsCurrent'
  BY TypeStep DEF Inv
<1>0. TypeOK /\ SnapshotsCurrent /\ CodeActionsCurrent
  BY DEF Inv
<1> USE <1>0 DEF sessionVars, workerVars, readerVars
<1>1. CASE ReaderStep
  BY <1>1, FrameStep DEF ReaderStep, ReadMessage, ReadEnd, OfferMessage, ReaderStops
<1>2. ASSUME NEW w \in analyzing, AnalyzeReturns(w)
      PROVE  SnapshotsCurrent' /\ CodeActionsCurrent'
  <2>1. PICK found \in SUBSET Paths :
          sending' = sending \cup
              {[gen |-> w.gen, snapshot |-> w.snapshot, found |-> found]}
    BY <1>2 DEF AnalyzeReturns
  <2>2. CodeActionsCurrent'
    BY <1>2 DEF AnalyzeReturns, CodeActionsCurrent
  <2>3. SnapshotsCurrent'
    BY <1>2, <2>1 DEF AnalyzeReturns, SnapshotsCurrent
  <2> QED BY <2>2, <2>3
<1>3. ASSUME NEW r \in sending, DeliverResult(r)
      PROVE  SnapshotsCurrent' /\ CodeActionsCurrent'
  <2>1. Head(<<r>>) = r
    OBVIOUS
  <2>2. CodeActionsCurrent'
    BY <1>3 DEF DeliverResult, CodeActionsCurrent
  <2>3. SnapshotsCurrent'
    BY <1>3, <2>1 DEF DeliverResult, SnapshotsCurrent
  <2> QED BY <2>2, <2>3
<1>4. ASSUME NEW r \in sending, DiscardResult(r)
      PROVE  SnapshotsCurrent' /\ CodeActionsCurrent'
  BY <1>4, FrameStep DEF DiscardResult
<1>5. CASE DropResult
  BY <1>5, FrameStep DEF DropResult, TakeResult
<1>6. CASE PublishResult
  <2> DEFINE r == Head(results)
  <2>1. r.gen = generation /\ phase = "running" /\ results # <<>>
    BY <1>6 DEF PublishResult, TakeResult, Stale
  <2>2. r.snapshot = documents
    BY <2>1 DEF SnapshotsCurrent
  <2>3. CodeActionsCurrent'
    BY <1>6, <2>2 DEF PublishResult, CodeActionsCurrent, Findings
  <2>4. SnapshotsCurrent'
    BY <1>6 DEF PublishResult, TakeResult, SnapshotsCurrent
  <2> QED BY <2>3, <2>4
<1>7. CASE PublishFails
  <2>1. phase' = "closing"
    BY <1>7 DEF PublishFails, Return
  <2>2. SnapshotsCurrent'
    BY <1>7, <2>1 DEF PublishFails, TakeResult, SnapshotsCurrent
  <2> QED BY <2>1, <2>2 DEF CodeActionsCurrent
<1>8. CASE Leave \/ Initialize \/ Respond \/ IgnoreNotification \/ Shutdown \/ IgnoreChange
  <2>1. /\ UNCHANGED <<documents, latest, generation, analyzing, sending, results>>
        /\ phase' = "running" => phase = "running"
    BY <1>8 DEF Leave, Initialize, Respond, IgnoreNotification, Shutdown,
                IgnoreChange, Receive, Write, Return
  <2> QED BY <2>1, FrameStep
<1>9. CASE DidOpen
  <2>1. [documents EXCEPT ![PathOf[Doc1.uri]] = Doc1] \in Snapshot
    BY <1>9, HeadType DEF TypeOK, Snapshot, DidOpen, Receive
  <2> QED BY <1>9, <2>1, ScheduleStep DEF DidOpen
<1>10. CASE DidChange
  <2> DEFINE p == PathOf[Doc1.uri]
             d == [documents[p] EXCEPT !.version = Doc1.version, !.text = Doc1.text]
  <2>1. Doc1 \in Doc /\ p \in Paths /\ documents[p] \in Doc
    BY <1>10, HeadType, UriAssumption DEF TypeOK, Snapshot, DidChange, Receive, Newer, Doc
  <2>2. d \in Doc
    BY <2>1 DEF Doc
  <2>3. [documents EXCEPT ![p] = d] \in Snapshot
    BY <2>1, <2>2 DEF TypeOK, Snapshot
  <2>4. Schedule([documents EXCEPT ![p] = d]) /\ UNCHANGED phase
    BY <1>10 DEF DidChange
  <2> QED BY <2>3, <2>4, ScheduleStep
<1>11. CASE DidClose
  <2>1. [documents EXCEPT ![PathOf[Doc1.uri]] = Absent] \in Snapshot
    BY DEF TypeOK, Snapshot
  <2> QED BY <1>11, <2>1, ScheduleStep DEF DidClose
<1>12. CASE DidCloseFails
  <2>1. phase' = "closing"
    BY <1>12 DEF DidCloseFails, Return
  <2>2. SnapshotsCurrent'
    BY <1>12, <2>1 DEF DidCloseFails, SnapshotsCurrent
  <2> QED BY <2>1, <2>2 DEF CodeActionsCurrent
<1>13. CASE CancelContext \/ ContextDone \/ Join \/ Terminated \/ UNCHANGED vars
  <2>1. /\ UNCHANGED <<documents, latest, generation, analyzing, sending, results>>
        /\ phase' = "running" => phase = "running"
    BY <1>13 DEF CancelContext, ContextDone, Join, Terminated, vars, Return
  <2> QED BY <2>1, FrameStep
<1> QED
  BY <1>1, <1>2, <1>3, <1>4, <1>5, <1>6, <1>7, <1>8, <1>9, <1>10, <1>11, <1>12, <1>13
     DEF Next, WorkerStep, TakeStep, InputStep

\* The invariant holds when Serve starts.
LEMMA InitInv == Init => Inv
<1>1. Init => SnapshotsCurrent /\ CodeActionsCurrent
  BY DEF Init, SnapshotsCurrent, CodeActionsCurrent, NoFindings
<1> QED
  BY <1>1, InitType DEF Inv

\* In every reachable state a result of the current generation was computed
\* from the documents that are open, and so were the findings kept.
THEOREM InvHolds == Spec => []Inv
  BY InitInv, InvStep, PTL DEF Spec

\* The findings behind code actions always belong to the open documents,
\* however many cancelled analyses are still running or queued.
THEOREM CodeActionsAreCurrent == Spec => []CodeActionsCurrent
<1>1. Inv => CodeActionsCurrent
  BY DEF Inv
<1> QED
  BY <1>1, InvHolds, PTL

\* No publishDiagnostics message is ever computed from superseded documents.
THEOREM PublicationsAreCurrent == Spec => PublishesCurrent
<1> DEFINE A == \A u \in Uris : shown'[u] # shown[u] =>
                   /\ phase = "running" /\ ~shutdown
                   /\ shown'[u] # Cleared => shown'[u].of = documents
<1>1. Inv /\ [Next]_vars => A
  <2> SUFFICES ASSUME Inv, [Next]_vars, NEW u \in Uris,
                      shown'[u] # shown[u]
               PROVE  /\ phase = "running" /\ ~shutdown
                      /\ shown'[u] # Cleared => shown'[u].of = documents
    OBVIOUS
  <2> USE DEF sessionVars, workerVars, readerVars
  <2>0. shown \in [Uris -> Items \cup {Cleared}]
    BY DEF Inv, TypeOK
  <2>1. ASSUME NEW ps \in SUBSET Paths, results # <<>>, phase = "running",
               ~Stale(Head(results)), Publish(Head(results), ps)
        PROVE  /\ ~shutdown
               /\ shown'[u] # Cleared => shown'[u].of = documents
    <3>1. Head(results).snapshot = documents
      BY <2>1 DEF Inv, SnapshotsCurrent, Stale
    <3> QED BY <2>0, <2>1, <3>1 DEF Publish, Stale
  <2>2. CASE PublishResult
    BY <2>1, <2>2 DEF PublishResult, TakeResult
  <2>3. CASE PublishFails
    BY <2>1, <2>3 DEF PublishFails, TakeResult
  <2>4. CASE DidClose
    BY <2>0, <2>4 DEF DidClose, Receive, Serving
  <2>5. CASE UNCHANGED shown
    BY <2>5
  <2> QED
    BY <2>2, <2>3, <2>4, <2>5
       DEF Next, ReaderStep, WorkerStep, TakeStep, InputStep, vars,
           ReadMessage, ReadEnd, OfferMessage, ReaderStops, AnalyzeReturns,
           DeliverResult, DiscardResult, DropResult, Leave, Initialize, Respond,
           IgnoreNotification, Shutdown, DidOpen, DidChange, IgnoreChange,
           DidCloseFails, CancelContext, ContextDone, Join, Terminated
<1>2. Inv /\ [Next]_vars => [A]_vars
  BY <1>1
<1> QED
  BY <1>2, InvHolds, PTL DEF Spec, PublishesCurrent
-----------------------------------------------------------------------------
(* Lists the client can be told to clear.  A list that the server forgets  *)
(* stays in the editor for ever.  The server keeps one URI per path, so a  *)
(* client that spells a file in two ways can make it forget one (see       *)
(* OneListPerDocument); with one spelling per file it never does.          *)

OneSpelling == \A u, v \in Uris : PathOf[u] = PathOf[v] => u = v

\* An open document is stored under the path of its own URI.
DocumentsAreFiled ==
    \A p \in Paths : documents[p] # Absent => PathOf[documents[p].uri] = p

\* Receiving, scheduling and closing keep documents under their paths.
LEMMA FiledStep == TypeOK /\ DocumentsAreFiled /\ [Next]_vars => DocumentsAreFiled'
<1> SUFFICES ASSUME TypeOK, DocumentsAreFiled, [Next]_vars PROVE DocumentsAreFiled'
  OBVIOUS
<1> USE DEF sessionVars, workerVars, readerVars
<1>0. documents \in [Paths -> Doc \cup {Absent}]
  BY DEF TypeOK, Snapshot
<1>1. CASE DidOpen
  <2>1. documents' = [documents EXCEPT ![PathOf[Doc1.uri]] = Doc1]
    BY <1>1 DEF DidOpen, Schedule
  <2> QED
    BY <1>0, <2>1 DEF DocumentsAreFiled
<1>2. CASE DidChange
  <2> DEFINE p == PathOf[Doc1.uri]
             d == [documents[p] EXCEPT !.version = Doc1.version, !.text = Doc1.text]
  <2>1. Doc1 \in Doc /\ p \in Paths /\ documents[p] \in Doc /\ documents[p] # Absent
    BY <1>0, <1>2, HeadType, UriAssumption DEF DidChange, Receive, Newer, Doc
  <2>2. documents' = [documents EXCEPT ![p] = d]
    BY <1>2 DEF DidChange, Schedule
  <2>3. d.uri = documents[p].uri
    BY <2>1 DEF Doc
  <2> HIDE DEF p, d
  <2> QED
    BY <1>0, <2>1, <2>2, <2>3 DEF DocumentsAreFiled
<1>3. CASE DidClose \/ DidCloseFails
  <2>1. documents' = [documents EXCEPT ![PathOf[Doc1.uri]] = Absent]
    BY <1>3 DEF DidClose, DidCloseFails, Schedule
  <2> QED
    BY <1>0, <2>1 DEF DocumentsAreFiled
<1>4. CASE UNCHANGED documents
  BY <1>4 DEF DocumentsAreFiled
<1> QED
  BY <1>1, <1>2, <1>3, <1>4
     DEF Next, ReaderStep, WorkerStep, TakeStep, InputStep, vars,
         ReadMessage, ReadEnd, OfferMessage, ReaderStops, AnalyzeReturns,
         DeliverResult, DiscardResult, DropResult, PublishResult, PublishFails, Leave,
         Initialize, Respond, IgnoreNotification, Shutdown, IgnoreChange,
         CancelContext, ContextDone, Join, Terminated

\* A publication that replaces the remembered URIs has cleared, or shown anew,
\* every list it stops remembering.
LEMMA PublishRemembers ==
    ASSUME OneSpelling, TypeOK, DocumentsAreFiled, ListsCanBeCleared, PublishResult
    PROVE  ListsCanBeCleared'
<1> DEFINE r == Head(results)
<1>0. /\ r \in Result /\ phase = "running" /\ Publish(r, Paths) /\ published' = Current(r)
      /\ shown \in [Uris -> Items \cup {Cleared}]
  BY HeadType DEF PublishResult, TakeResult, TypeOK
<1> HIDE DEF r
<1> SUFFICES ASSUME NEW u \in Uris, shown'[u] # Cleared, shown'[u].found
             PROVE  published'[PathOf[u]] = u
  BY DEF ListsCanBeCleared
<1> DEFINE q == PathOf[u]
<1>1. q \in Paths
  BY UriAssumption
<1>2. Current(r)[q] # Absent => Current(r)[q] = u
  <2>1. CASE documents[q] # Absent
    <3>1. documents[q] \in Doc /\ PathOf[documents[q].uri] = q
      BY <1>1, <2>1 DEF TypeOK, Snapshot, DocumentsAreFiled
    <3>2. documents[q].uri \in Uris /\ Current(r)[q] = documents[q].uri
      BY <1>1, <2>1, <3>1 DEF Doc, Current
    <3> QED
      BY <3>1, <3>2 DEF OneSpelling
  <2>2. CASE documents[q] = Absent /\ q \in r.found
    <3>1. Current(r)[q] = FileURI[q]
      BY <1>1, <2>2 DEF Current
    <3> QED
      BY <1>1, <3>1, UriAssumption DEF OneSpelling
  <2>3. CASE documents[q] = Absent /\ q \notin r.found
    BY <1>1, <2>3 DEF Current
  <2> QED
    BY <2>1, <2>2, <2>3
<1>3. CASE Targets(r)[q] = u
  <2>1. shown'[u] = [of |-> r.snapshot, found |-> q \in r.found]
    BY <1>0, <1>1, <1>3 DEF Publish
  <2>2. q \in r.found
    <3>1. [of |-> r.snapshot, found |-> q \in r.found].found = (q \in r.found)
      OBVIOUS
    <3> HIDE DEF q
    <3> QED
      BY <2>1, <3>1, Zenon
  <2>3. Current(r)[q] # Absent
    <3>1. documents[q] # Absent => documents[q].uri # Absent
      BY <1>1, AbsentAssumption DEF TypeOK, Snapshot, Doc
    <3>2. FileURI[q] # Absent
      BY <1>1, UriAssumption, AbsentAssumption
    <3> QED
      BY <1>1, <2>2, <3>1, <3>2 DEF Current
  <2> QED
    BY <1>0, <1>2, <2>3
<1>4. CASE Targets(r)[q] # u
  <2>1. shown'[u] = shown[u]
    BY <1>0, <1>4 DEF Publish
  <2>2. published[q] = u
    BY <1>0, <2>1 DEF ListsCanBeCleared
  <2>3. Current(r)[q] # Absent
    BY <1>1, <1>4, <2>2 DEF Targets
  <2> QED
    BY <1>0, <1>2, <2>3
<1> QED
  BY <1>3, <1>4

\* A list the client shows is never forgotten, provided every file has one
\* spelling: whatever is opened, closed, published as a dependency or dropped
\* because a newer edit superseded it.
THEOREM ListsStayClearable ==
    ASSUME OneSpelling
    PROVE  Spec => []ListsCanBeCleared
<1>1. Init => DocumentsAreFiled /\ ListsCanBeCleared
  BY DEF Init, DocumentsAreFiled, ListsCanBeCleared, NoDocuments
<1>2. TypeOK /\ DocumentsAreFiled /\ ListsCanBeCleared /\ [Next]_vars => ListsCanBeCleared'
  <2> SUFFICES ASSUME TypeOK, DocumentsAreFiled, ListsCanBeCleared, [Next]_vars
               PROVE  ListsCanBeCleared'
    OBVIOUS
  <2> USE DEF sessionVars, workerVars, readerVars
  <2>1. CASE PublishResult
    BY <2>1, PublishRemembers
  <2>2. CASE PublishFails \/ DidCloseFails
    BY <2>2 DEF PublishFails, DidCloseFails, Return, ListsCanBeCleared
  <2>3. CASE DidClose
    <3>1. Doc1 \in Doc /\ phase = "running"
      BY <2>3, HeadType DEF DidClose, Receive
    <3>2. Doc1.uri \in Uris
      BY <3>1 DEF Doc
    <3>3. /\ shown' = [shown EXCEPT ![Doc1.uri] = Cleared]
          /\ published' = [published EXCEPT ![PathOf[Doc1.uri]] = Absent]
      BY <2>3 DEF DidClose
    <3>4. shown \in [Uris -> Items \cup {Cleared}] /\ published \in [Paths -> Uris \cup {Absent}]
      BY DEF TypeOK
    <3>5. ASSUME NEW u \in Uris, shown'[u] # Cleared, shown'[u].found
          PROVE  published'[PathOf[u]] = u
      <4>1. u # Doc1.uri /\ shown'[u] = shown[u]
        BY <3>2, <3>3, <3>4, <3>5
      <4>2. PathOf[u] # PathOf[Doc1.uri] /\ PathOf[u] \in Paths
        BY <3>2, <4>1, UriAssumption DEF OneSpelling
      <4>3. published[PathOf[u]] = u
        BY <3>1, <3>5, <4>1 DEF ListsCanBeCleared
      <4> QED
        BY <3>3, <3>4, <4>2, <4>3
    <3> QED
      BY <3>5 DEF ListsCanBeCleared
  <2>4. CASE UNCHANGED <<shown, published>> /\ (phase' = "running" => phase = "running")
    BY <2>4 DEF ListsCanBeCleared
  <2> QED
    BY <2>1, <2>2, <2>3, <2>4
       DEF Next, ReaderStep, WorkerStep, TakeStep, InputStep, vars,
           ReadMessage, ReadEnd, OfferMessage, ReaderStops, AnalyzeReturns,
           DeliverResult, DiscardResult, DropResult, Leave, Initialize, Respond,
           IgnoreNotification, Shutdown, DidOpen, DidChange, IgnoreChange,
           CancelContext, ContextDone, Join, Terminated, Receive, Write, Return
<1> QED
  BY <1>1, <1>2, FiledStep, TypeCorrect, PTL DEF Spec
=============================================================================
