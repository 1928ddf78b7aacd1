--------------------------- MODULE SnapshotFiles ---------------------------
(***************************************************************************)
(* The files a plugin may read during one call (SnapshotFS in              *)
(* internal/fsread/snapshot.go): a name is resolved through symbolic links *)
(* one component at a time, a resolved name is memoised together with the  *)
(* identity of its file, and a file that was read is kept.  Another        *)
(* process retargets links, replaces files and rewrites them between any   *)
(* two of these steps.                                                     *)
(*                                                                         *)
(* Names are the entries of the root: a path of several components walks   *)
(* its directories the same way.  A file stands for its identity and its   *)
(* bytes; the byte limit behaves like the limit on files.                  *)
(***************************************************************************)
EXTENDS Naturals, FiniteSets

CONSTANTS Names,
          MaxChanges,   \* of the other process
          MaxLinks,     \* 40 in the code
          MaxLookups,   \* 4096 in the code
          MaxFiles,     \* 256 in the code
          None

VARIABLES link,       \* the target of each name, itself when it is a file
          inode,      \* the identity of the file at each name
          bytes,      \* identity |-> content
          changes,    \* made by the other process
          op,         \* "idle", "resolve", "open", "stat" or "closed"
          wants,      \* "open" or "stat": what the name is resolved for
          name, at,   \* the name asked for, and the one being looked at
          links,      \* followed for this name
          names,      \* memoised: name |-> [path, id]
          files,      \* memoised: path |-> [id, content]
          lookups,    \* SnapshotBudget.lookups
          failure,    \* SnapshotBudget.failure is set
          refused,    \* a request was refused for the budget or an identity
          reads,      \* every [name, path, id, content] the guest has read
          reported    \* Close returned an error

disk == <<link, inode, bytes, changes>>
cursor == <<wants, name, at, links>>
vars == <<disk, op, cursor, names, files, lookups, failure, refused, reads,
          reported>>

\* The request is over.
Done == op' = "idle" /\ wants' = None /\ name' = None /\ at' = None /\ links' = 0

\* Any links between the names, cycles too.
Init == /\ link \in [Names -> Names]
        /\ inode = CHOOSE f \in [Names -> 1..Cardinality(Names)] :
                     \A m, n \in Names : f[m] = f[n] => m = n
        /\ bytes = [i \in 1..(Cardinality(Names) + MaxChanges) |-> 0]
        /\ changes = 0
        /\ op = "idle" /\ wants = None
        /\ name = None /\ at = None /\ links = 0
        /\ names = [n \in Names |-> None]
        /\ files = [n \in Names |-> None]
        /\ lookups = 0 /\ failure = FALSE /\ refused = FALSE
        /\ reads = {} /\ reported = FALSE

-----------------------------------------------------------------------------
\* The other process makes a link, replaces what is there by a new file, or
\* writes into a file.
Change ==
  /\ changes < MaxChanges /\ op # "closed"
  /\ changes' = changes + 1
  /\ \E n \in Names :
       \/ \E m \in Names \ {n} :
            link' = [link EXCEPT ![n] = m] /\ UNCHANGED <<inode, bytes>>
       \/ /\ link' = [link EXCEPT ![n] = n]
          /\ inode' = [inode EXCEPT ![n] = Cardinality(Names) + changes']
          /\ UNCHANGED bytes
       \/ /\ link[n] = n
          /\ bytes' = [bytes EXCEPT ![inode[n]] = changes']
          /\ UNCHANGED <<link, inode>>
  /\ UNCHANGED <<op, cursor, names, files, lookups, failure, refused, reads,
                 reported>>

\* The guest opens a name, or asks for its metadata (StatAt).
Ask(n, k) ==
  /\ op = "idle"
  /\ op' = "resolve" /\ wants' = k /\ name' = n /\ at' = n /\ links' = 0
  /\ UNCHANGED <<disk, names, files, lookups, failure, refused, reads,
                 reported>>

\* "lookup" refuses once the budget is spent.
Refused ==
  /\ lookups >= MaxLookups
  /\ failure' = TRUE /\ refused' = TRUE
  /\ Done
  /\ UNCHANGED <<disk, names, files, lookups, reads, reported>>

\* "resolve": a name that was resolved before.
Remembered ==
  /\ op = "resolve" /\ at = name /\ links = 0 /\ names[name] # None
  /\ op' = wants
  /\ UNCHANGED <<disk, cursor, names, files, lookups, failure, refused, reads,
                 reported>>

Walking == op = "resolve" /\ (links # 0 \/ names[name] = None)

RefuseWalk == Walking /\ Refused

\* Lstat finds a link: its target is looked at next.
FollowLink ==
  /\ Walking /\ lookups < MaxLookups
  /\ lookups' = lookups + 1
  /\ link[at] # at
  /\ IF links < MaxLinks
     THEN at' = link[at] /\ links' = links + 1 /\ UNCHANGED <<op, wants, name>>
     ELSE Done
  /\ UNCHANGED <<disk, names, files, failure, refused, reads, reported>>

\* Lstat finds a file: the entry is kept for the name that was asked for and
\* for the resolved one.
ReachFile ==
  /\ Walking /\ lookups < MaxLookups
  /\ lookups' = lookups + 1
  /\ link[at] = at
  /\ LET entry == [path |-> at, id |-> inode[at]] IN
       names' = [names EXCEPT ![name] = entry, ![at] = entry]
  /\ op' = wants
  /\ UNCHANGED <<disk, cursor, files, failure, refused, reads, reported>>

-----------------------------------------------------------------------------
\* Mutant of Kept: a file is read anew each time.
KeptNever(p) == FALSE

Kept(p) == files[p] # None

Path == names[name].path

Read(f) == [name |-> name, path |-> Path, id |-> f.id, content |-> f.content]

\* "open" answers from the files it has read.
OpenKept ==
  /\ op = "open" /\ Kept(Path)
  /\ reads' = reads \cup {Read(files[Path])}
  /\ Done
  /\ UNCHANGED <<disk, names, files, lookups, failure, refused,
                 reported>>

RefuseOpen == op = "open" /\ ~Kept(Path) /\ Refused

\* The name the path leads to by now, links followed.
Opened == LET to[k \in 0..Cardinality(Names)] ==
                IF k = 0 THEN Path ELSE link[to[k - 1]]
          IN to[Cardinality(Names)]

\* It has to be the file that was resolved, within the limit on files.
OpenFile ==
  /\ op = "open" /\ ~Kept(Path) /\ lookups < MaxLookups
  /\ link[Opened] = Opened
  /\ lookups' = lookups + 1
  /\ IF /\ inode[Opened] = names[name].id
        /\ Cardinality({p \in Names : files[p] # None}) < MaxFiles
     THEN LET f == [id |-> inode[Opened], content |-> bytes[inode[Opened]]] IN
            /\ files' = [files EXCEPT ![Path] = f]
            /\ reads' = reads \cup {Read(f)}
            /\ UNCHANGED <<failure, refused>>
     ELSE failure' = TRUE /\ refused' = TRUE /\ UNCHANGED <<files, reads>>
  /\ Done
  /\ UNCHANGED <<disk, names, reported>>

RefuseStat == op = "stat" /\ Refused

\* StatAt returns what was kept, or what is there.
Stat ==
  /\ op = "stat" /\ lookups < MaxLookups
  /\ lookups' = lookups + 1
  /\ Done
  /\ UNCHANGED <<disk, names, files, failure, refused, reads, reported>>

\* The context has ended, an operation of the file system fails, a link has
\* changed under Readlink, or the file is gone.
LookupFails ==
  /\ \/ op \in {"resolve", "stat"}
     \/ op = "open" /\ ~Kept(Path)
  /\ \E n \in {lookups, lookups + 1} : n <= MaxLookups /\ lookups' = n
  /\ Done
  /\ UNCHANGED <<disk, names, files, failure, refused, reads, reported>>

\* Close after the guest's teardown.
Close ==
  /\ op = "idle"
  /\ op' = "closed"
  /\ \E closeFails \in BOOLEAN : reported' = (failure \/ closeFails)
  /\ UNCHANGED <<disk, cursor, names, files, lookups, failure, refused, reads>>

Next == \/ Change
        \/ \E n \in Names, k \in {"open", "stat"} : Ask(n, k)
        \/ Remembered \/ RefuseWalk \/ FollowLink \/ ReachFile \/ LookupFails
        \/ OpenKept \/ RefuseOpen \/ OpenFile \/ RefuseStat \/ Stat
        \/ Close

Spec == Init /\ [][Next]_vars

-----------------------------------------------------------------------------
\* Whatever the other process does, the guest reads one version of a file
\* however often and under whichever names it opens it, no more files than
\* the limit, and a request refused for the budget or a changed identity is
\* an error of the call even if the guest ignored it.
ReadsAgree ==
  /\ \A r, s \in reads :
       r.path = s.path => r.id = s.id /\ r.content = s.content
  /\ Cardinality({r.path : r \in reads}) <= MaxFiles
  /\ op = "closed" /\ refused => reported

\* Content: what the host takes for the bytes the guest read under a name.
Content(n) == IF names[n] = None THEN None ELSE files[names[n].path]

\* "Content returns the resolved name and exact bytes read by the guest."
ContentIsWhatWasRead ==
  \A r \in reads :
    /\ names[r.name].path = r.path
    /\ Content(r.name) = [id |-> r.id, content |-> r.content]
=============================================================================
