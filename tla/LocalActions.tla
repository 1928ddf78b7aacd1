---------------------------- MODULE LocalActions ----------------------------
(***************************************************************************)
(* Cache.FindMetadata of internal/action/local/cache.go and the end of     *)
(* findRepositoryMetadata of resolver.go: the checks of several documents  *)
(* look up the manifest of one local action, concurrently, in a cache that *)
(* is filled by stores of which each is atomic but the sequence is not.    *)
(***************************************************************************)
CONSTANTS Callers, None

VARIABLES manifest,   \* what the directory holds; it does not change
          pc,         \* where each lookup is
          cache,      \* c.cache[spec]: None, "nil" or "meta"
          missing,    \* whether c.missing has the spec
          source,     \* whether c.sources has the manifest's bytes
          entry,      \* the metadata a lookup is about to store or return
          err,        \* the error a lookup returns, None when there is none
          used        \* the lookups that recorded the source they consulted

vars == <<manifest, pc, cache, missing, source, entry, err, used>>

\* A manifest that parses or not, that cannot be read; or no manifest and a
\* Dockerfile, one that cannot be read, or nothing at all.
Manifests == {"valid", "broken", "unreadable", "docker", "dockerUnreadable",
              "absent"}
Errors == {"parse", "read", "dockerfile", "missing"}

TypeOK == /\ manifest \in Manifests
          /\ pc \in [Callers -> {"start", "hit", "read", "mark", "record",
                                 "store", "found", "done"}]
          /\ cache \in {None, "nil", "meta"}
          /\ missing \in BOOLEAN /\ source \in BOOLEAN
          /\ entry \in [Callers -> {"nil", "meta"}]
          /\ err \in [Callers -> Errors \cup {None}]
          /\ used \subseteq Callers

Init == /\ manifest \in Manifests
        /\ pc = [c \in Callers |-> "start"]
        /\ cache = None
        /\ missing = FALSE
        /\ source = FALSE
        /\ entry = [c \in Callers |-> "nil"]
        /\ err = [c \in Callers |-> None]
        /\ used = {}

Goto(c, from, to) == pc[c] = from /\ pc' = [pc EXCEPT ![c] = to]

ReadCache(c) == /\ Goto(c, "start", IF cache = None THEN "read" ELSE "hit")
                /\ entry' = [entry EXCEPT ![c] = IF cache = "meta" THEN cache
                                                                  ELSE "nil"]
                /\ UNCHANGED <<manifest, cache, missing, source, err, used>>

\* A hit asks c.missing, after the cache's lock is gone.
LoadMissing(c) == /\ Goto(c, "hit", "found")
                  /\ err' = [err EXCEPT ![c] = IF missing THEN "missing" ELSE None]
                  /\ UNCHANGED <<manifest, cache, missing, source, entry, used>>

\* readLocalActionMetadataFile and hasDockerfile, then the way to the stores.
ReadManifest(c) ==
  /\ Goto(c, "read", CASE manifest \in {"valid", "broken"} -> "record"
                       [] manifest \in {"unreadable", "docker"} -> "store"
                       [] manifest = "dockerUnreadable" -> "found"
                       [] manifest = "absent" -> "mark")
  /\ err' = [err EXCEPT ![c] = CASE manifest = "unreadable" -> "read"
                                 [] manifest = "dockerUnreadable" -> "dockerfile"
                                 [] manifest = "absent" -> "missing"
                                 [] OTHER -> None]
  /\ UNCHANGED <<manifest, cache, missing, source, entry, used>>

\* Mutant of MarkMissing: the nil is cached first and the mark set after it.
MarkMissingLate(c) == /\ Goto(c, "mark", IF cache = None THEN "mark" ELSE "store")
                      /\ cache' = "nil"
                      /\ missing' = (cache # None)
                      /\ UNCHANGED <<manifest, source, entry, err, used>>

MarkMissing(c) == /\ Goto(c, "mark", "store")
                  /\ missing' = TRUE
                  /\ UNCHANGED <<manifest, cache, source, entry, err, used>>

\* The bytes are kept before they are parsed, so that they are there for every
\* lookup that sees the parsed manifest.
RecordSource(c) ==
  /\ Goto(c, "record", "store")
  /\ source' = TRUE
  /\ entry' = [entry EXCEPT ![c] = IF manifest = "valid" THEN "meta" ELSE "nil"]
  /\ err' = [err EXCEPT ![c] = IF manifest = "valid" THEN None ELSE "parse"]
  /\ UNCHANGED <<manifest, cache, missing, used>>

WriteCache(c) == /\ Goto(c, "store", "found")
                 /\ cache' = entry[c]
                 /\ UNCHANGED <<manifest, missing, source, entry, err, used>>

\* findRepositoryMetadata: the document records the source it depends on.
UseSource(c) == /\ Goto(c, "found", "done")
                /\ used' = IF source THEN used \cup {c} ELSE used
                /\ UNCHANGED <<manifest, cache, missing, source, entry, err>>

Step(c) == \/ ReadCache(c) \/ LoadMissing(c) \/ ReadManifest(c)
           \/ MarkMissing(c) \/ RecordSource(c) \/ WriteCache(c) \/ UseSource(c)

Next == \E c \in Callers : Step(c)

\* Every goroutine keeps running.
Fairness == \A c \in Callers : WF_vars(Step(c))

Returned == {c \in Callers : pc[c] = "done"}

\* A missing action is reported at every reference; any other failure is
\* reported at least once before the lookups that see only the cached nil
\* (cache.go, "Missing manifests are cached and reported at every reference").
\* Whoever sees the metadata knows the source it came from, also when another
\* document read it: suppressions and positions depend on it.
ActionLookupsAreComplete ==
  /\ manifest = "absent" => \A c \in Returned : err[c] = "missing"
  /\ manifest \in {"broken", "unreadable", "dockerUnreadable"} /\ Returned # {}
       => \E c \in Callers : err[c] # None
  /\ manifest \in {"valid", "docker"} => \A c \in Callers : err[c] = None
  /\ \A c \in Returned : entry[c] = "meta" => c \in used

=============================================================================
