--------------------------- MODULE EditorEngines ---------------------------
(***************************************************************************)
(* The script engines a language server keeps between analyses             *)
(* (editorEngines in internal/localapp/editor_session.go).  The analyses   *)
(* of successive generations call "load" concurrently, each with a context *)
(* that ends when it is superseded; a local artifact may be rebuilt at any *)
(* time; "close" runs once, after Serve has waited for every analysis.     *)
(*                                                                         *)
(* An artifact's bytes stand for their digest.  A remote artifact is       *)
(* pinned, so its bytes never change; an injected loader, when there is    *)
(* one, interprets every source itself.                                    *)
(***************************************************************************)
EXTENDS Naturals, Sequences, FiniteSets

CONSTANTS Callers, None

Sources == {"local", "remote"}
NoDigest == "none"

VARIABLES custom,     \* customLoad is set
          bytes,      \* the bytes of each artifact
          gate,       \* the caller that holds the gate, or None
          loaded,     \* identity |-> index in engines, a partial function
          engines,    \* every engine ever compiled
          pc, over,   \* of each call: where it is; its context has ended
          source,     \* the source it was asked for
          digest,     \* the digest it resolved
          using,      \* the engine it returned, 0 for none
          closed      \* the session is closed

vars == <<custom, bytes, gate, loaded, engines, pc, over, source, digest,
          using, closed>>

Init == /\ custom \in BOOLEAN
        /\ bytes = [s \in Sources |-> "old"]
        /\ gate = None
        /\ loaded = <<>>
        /\ engines = <<>>
        /\ pc = [c \in Callers |-> "idle"]
        /\ over = [c \in Callers |-> FALSE]
        /\ source = [c \in Callers |-> "local"]
        /\ digest = [c \in Callers |-> NoDigest]
        /\ using = [c \in Callers |-> 0]
        /\ closed = FALSE

\* The artifact is rebuilt.
Rebuild == /\ ~closed
           /\ bytes["local"] = "old"
           /\ bytes' = [bytes EXCEPT !["local"] = "new"]
           /\ UNCHANGED <<custom, gate, loaded, engines, pc, over, source,
                          digest, using, closed>>

\* The analysis is superseded.
ContextEnds(c) == /\ pc[c] # "idle" /\ ~over[c]
                  /\ over' = [over EXCEPT ![c] = TRUE]
                  /\ UNCHANGED <<custom, bytes, gate, loaded, engines, pc,
                                 source, digest, using, closed>>

Begin(c, s) == /\ pc[c] = "idle" /\ ~closed
               /\ pc' = [pc EXCEPT ![c] = "gate"]
               /\ source' = [source EXCEPT ![c] = s]
               /\ UNCHANGED <<custom, bytes, gate, loaded, engines, over,
                              digest, using, closed>>

-----------------------------------------------------------------------------
\* Mutant of MayEnter: the gate is not waited for.
MayEnterAnyway(c) == TRUE

MayEnter(c) == gate = None

Enter(c) == /\ pc[c] = "gate" /\ MayEnter(c)
            /\ gate' = c
            /\ pc' = [pc EXCEPT ![c] = "lookup"]
            /\ UNCHANGED <<custom, bytes, loaded, engines, over, source,
                           digest, using, closed>>

\* The call returns an error: its context has ended, before the gate or
\* behind it, or the artifact cannot be resolved or compiled.
Fail(c) == /\ pc[c] = "gate" => over[c]
           /\ pc[c] = "lookup" => over[c]
           /\ pc[c] \in {"gate", "lookup", "resolve", "compile"}
           /\ gate' = IF pc[c] = "gate" THEN gate ELSE None
           /\ pc' = [pc EXCEPT ![c] = "over"]
           /\ UNCHANGED <<custom, bytes, loaded, engines, over, source,
                          digest, using, closed>>

\* borrowEditorEngine: the caller gets an engine without a Close method.
Borrow(c, e) == /\ using' = [using EXCEPT ![c] = e]
                /\ gate' = None
                /\ pc' = [pc EXCEPT ![c] = "uses"]

\* The first look at "loaded", with the source as the identity.
Lookup(c) ==
  /\ pc[c] = "lookup" /\ ~over[c]
  /\ LET id == <<source[c], NoDigest>> IN
       IF id \in DOMAIN loaded
       THEN Borrow(c, loaded[id])
       ELSE pc' = [pc EXCEPT ![c] = "resolve"] /\ UNCHANGED <<using, gate>>
  /\ UNCHANGED <<custom, bytes, loaded, engines, over, source, digest, closed>>

\* editorEngineIdentity, once the artifact is resolved.
Identity(c) ==
  <<source[c],
    IF custom \/ source[c] = "remote" THEN NoDigest ELSE digest'[c]>>

\* pluginartifact.Resolve reads the artifact, and "loaded" is looked at again;
\* an injected loader has no artifact.
Resolve(c) ==
  /\ pc[c] = "resolve"
  /\ digest' = [digest EXCEPT ![c] = bytes[source[c]]]
  /\ IF ~custom /\ Identity(c) \in DOMAIN loaded
     THEN Borrow(c, loaded[Identity(c)])
     ELSE pc' = [pc EXCEPT ![c] = "compile"] /\ UNCHANGED <<using, gate>>
  /\ UNCHANGED <<custom, bytes, loaded, engines, over, source, closed>>

\* loadScriptArtifact, or the injected loader, succeeds.
Compile(c) ==
  /\ pc[c] = "compile"
  /\ UNCHANGED digest
  /\ engines' = Append(engines, [id |-> Identity(c), digest |-> digest[c],
                                 open |-> TRUE])
  /\ loaded' = [i \in DOMAIN loaded \cup {Identity(c)} |->
                  IF i = Identity(c) THEN Len(engines') ELSE loaded[i]]
  /\ Borrow(c, Len(engines'))
  /\ UNCHANGED <<custom, bytes, over, source, closed>>

\* The analysis ends; the next generation may use the slot.
EndAnalysis(c) ==
  /\ pc[c] \in {"uses", "over"}
  /\ pc' = [pc EXCEPT ![c] = "idle"]
  /\ over' = [over EXCEPT ![c] = FALSE]
  /\ digest' = [digest EXCEPT ![c] = NoDigest]
  /\ using' = [using EXCEPT ![c] = 0]
  /\ UNCHANGED <<custom, bytes, gate, loaded, engines, source, closed>>

\* Serve has waited for every analysis: the session closes what it owns.
Close ==
  /\ ~closed /\ \A c \in Callers : pc[c] = "idle"
  /\ closed' = TRUE
  /\ engines' = [i \in DOMAIN engines |->
                   IF \E id \in DOMAIN loaded : loaded[id] = i
                   THEN [engines[i] EXCEPT !.open = FALSE]
                   ELSE engines[i]]
  /\ loaded' = <<>>
  /\ UNCHANGED <<custom, bytes, gate, pc, over, source, digest, using>>

Next == \/ Rebuild \/ Close
        \/ \E c \in Callers :
             \/ \E s \in Sources : Begin(c, s)
             \/ ContextEnds(c) \/ Enter(c) \/ Fail(c) \/ Lookup(c)
             \/ Resolve(c) \/ Compile(c) \/ EndAnalysis(c)

Spec == Init /\ [][Next]_vars

-----------------------------------------------------------------------------
\* However analyses overlap and end, no identity is compiled twice, an
\* analysis that resolved an artifact runs the engine of those bytes and not
\* of a rebuilt or older one, that engine stays open while it is used, and the
\* session's close leaves no engine open.
EnginesAreOwned ==
  /\ \A i, j \in DOMAIN engines : engines[i].id = engines[j].id => i = j
  /\ \A c \in Callers : using[c] # 0 =>
       /\ engines[using[c]].open
       /\ engines[using[c]].id[1] = source[c]
       /\ digest[c] # NoDigest => engines[using[c]].digest = digest[c]
  /\ closed => \A i \in DOMAIN engines : ~engines[i].open
=============================================================================
