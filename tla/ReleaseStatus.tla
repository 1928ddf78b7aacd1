--------------------------- MODULE ReleaseStatus ---------------------------
(***************************************************************************)
(* The revocation of plugin releases (internal/pluginregistry/status.go    *)
(* and Client.Resolve in client.go).  Commands on one machine share a      *)
(* directory per registry: "statuses.json", replaced by every refresh, and *)
(* one record per revoked digest, created and never replaced.  Commands    *)
(* run concurrently, fail or are killed at any point, and the registry may *)
(* serve a snapshot that is older than one it served before.               *)
(*                                                                         *)
(* A release stands for its digest; "deprecated" only warns, like          *)
(* "active".                                                               *)
(***************************************************************************)
EXTENDS FiniteSets

CONSTANTS Commands,   \* commands that run at the same time
          Releases    \* releases of one registry that the lock pins

States == {"active", "withdrawn", "revoked"}
Snapshots == [Releases -> States]
NoStatus == [d \in Releases |-> "active"]

VARIABLES revoked,    \* digests with a file in the directory "revoked"
          statuses,   \* statuses.json
          pc, kind,   \* of each command: where it is and what it was asked for
          mine,       \* the snapshot it has fetched or read
          todo,       \* revocations it has yet to persist, then pins to check
          took,       \* the releases it has accepted
          refused,    \* releases some command has refused as revoked
          before      \* "refused" when the command started to check

disk == <<revoked, statuses>>
vars == <<disk, pc, kind, mine, todo, took, refused, before>>

Init == /\ revoked = {} /\ statuses = NoStatus
        /\ pc = [c \in Commands |-> "idle"]
        /\ kind = [c \in Commands |-> "check"]
        /\ mine = [c \in Commands |-> NoStatus]
        /\ todo = [c \in Commands |-> {}]
        /\ took = [c \in Commands |-> {}]
        /\ refused = {}
        /\ before = [c \in Commands |-> {}]

\* The command ends, or is killed, and the next one starts from nothing.
Reset(c) == /\ pc' = [pc EXCEPT ![c] = "idle"]
            /\ kind' = [kind EXCEPT ![c] = "check"]
            /\ mine' = [mine EXCEPT ![c] = NoStatus]
            /\ todo' = [todo EXCEPT ![c] = {}]
            /\ took' = [took EXCEPT ![c] = {}]
            /\ before' = [before EXCEPT ![c] = {}]

-----------------------------------------------------------------------------
\* CheckStatuses starts ("check", and the end of Lock.RefreshStatuses), or
\* Client.Resolve has its own snapshot.
StartCheck(c) == /\ pc' = [pc EXCEPT ![c] = "next"]
                 /\ todo' = [todo EXCEPT ![c] = Releases]
                 /\ before' = [before EXCEPT ![c] = refused]

\* "check" is offline, "refresh" is Lock.RefreshStatuses, "resolve" is
\* Client.Resolve.
Start(c, k) ==
  /\ pc[c] = "idle"
  /\ kind' = [kind EXCEPT ![c] = k]
  /\ IF k = "check" THEN StartCheck(c)
     ELSE pc' = [pc EXCEPT ![c] = "fetch"] /\ UNCHANGED <<todo, before>>
  /\ UNCHANGED <<disk, mine, took, refused>>

\* Client.RefreshStatuses, up to a snapshot that is valid.
Fetch(c) ==
  /\ pc[c] = "fetch"
  /\ \E s \in Snapshots :
       /\ mine' = [mine EXCEPT ![c] = s]
       /\ todo' = [todo EXCEPT ![c] = {d \in Releases : s[d] = "revoked"}]
  /\ pc' = [pc EXCEPT ![c] = "persist"]
  /\ UNCHANGED <<disk, kind, took, refused, before>>

\* writeStatusFile links the record, unless there is one, and readRevocation
\* reads it back.
Persist(c) ==
  /\ pc[c] = "persist"
  /\ \E d \in todo[c] :
       /\ revoked' = revoked \cup {d}
       /\ todo' = [todo EXCEPT ![c] = @ \ {d}]
  /\ UNCHANGED <<statuses, pc, kind, mine, took, refused, before>>

\* Mutant of MayReplace: the snapshot is replaced while revocations are
\* persisted.
MayReplaceEarly(c) == TRUE

\* The snapshot is written last.
MayReplace(c) == todo[c] = {}

Replace(c) ==
  /\ pc[c] = "persist"
  /\ MayReplace(c)
  /\ statuses' = mine[c]
  /\ StartCheck(c)
  /\ UNCHANGED <<revoked, kind, mine, took, refused>>

\* The registry is unavailable or a file operation fails: Lock.RefreshStatuses
\* warns and goes on with what is cached; see End for Client.Resolve.
RefreshFails(c) ==
  /\ pc[c] \in {"fetch", "persist"}
  /\ kind[c] = "refresh"
  /\ StartCheck(c)
  /\ UNCHANGED <<disk, kind, mine, took, refused>>

\* CheckStatuses reads the snapshot anew for every pin; Client.Resolve has the
\* one it fetched.
ReadSnapshot(c) ==
  /\ pc[c] = "next" /\ todo[c] # {}
  /\ mine' = IF kind[c] = "resolve" THEN mine ELSE [mine EXCEPT ![c] = statuses]
  /\ pc' = [pc EXCEPT ![c] = "decide"]
  /\ UNCHANGED <<disk, kind, todo, took, refused, before>>

\* checkStatus, from the read of the record on.
Revoked(c, d) == d \in revoked \/ mine[c][d] = "revoked"

Refuse(c) ==
  /\ pc[c] = "decide"
  /\ \E d \in todo[c] : Revoked(c, d) /\ refused' = refused \cup {d}
  /\ Reset(c)
  /\ UNCHANGED disk

\* A withdrawn release is refused to whoever does not have it yet.
Accept(c) ==
  /\ pc[c] = "decide"
  /\ \E d \in todo[c] :
       /\ ~Revoked(c, d)
       /\ kind[c] = "resolve" => mine[c][d] # "withdrawn"
       /\ took' = [took EXCEPT ![c] = @ \cup {d}]
       /\ todo' = [todo EXCEPT ![c] = @ \ {d}]
  /\ pc' = [pc EXCEPT ![c] = "next"]
  /\ UNCHANGED <<disk, kind, mine, refused, before>>

\* The command is done, returns another error or is killed.
End(c) == pc[c] # "idle" /\ Reset(c) /\ UNCHANGED <<disk, refused>>

Next == \E c \in Commands :
  \/ \E k \in {"check", "refresh", "resolve"} : Start(c, k)
  \/ Fetch(c) \/ Persist(c) \/ Replace(c) \/ RefreshFails(c)
  \/ ReadSnapshot(c) \/ Refuse(c) \/ Accept(c) \/ End(c)

Spec == Init /\ [][Next]_vars

\* A release that any command has refused as revoked is not accepted by a
\* command that starts its check later: whatever the registry serves by then,
\* whichever refresh overwrites the snapshot of another, and wherever one was
\* killed.
RevocationSticks == \A c \in Commands : took[c] \cap before[c] = {}
=============================================================================
