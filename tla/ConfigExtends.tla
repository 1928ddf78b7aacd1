--------------------------- MODULE ConfigExtends ---------------------------
(***************************************************************************)
(* The files a configuration extends (internal/config/tree): Load follows  *)
(* the extends lists depth first with a path cache, refuses cycles and     *)
(* chains beyond a limit, and Merge lays one document over another.        *)
(*                                                                         *)
(* A name is a clean path; several names may lead to one file through a    *)
(* symbolic link.  What a file holds is chosen when it is read.  Of a      *)
(* document one setting is kept: a mapping of options, or a value that     *)
(* replaces (a list, a scalar, null).  These and the values of options are *)
(* known by the file that gave them.                                       *)
(***************************************************************************)
EXTENDS Naturals, Sequences, SequencesExt

CONSTANTS NumNames,    \* paths that are named in extends
          MaxBases,    \* length of an extends list
          MaxDepth     \* levels of extends, 32 in the code

ASSUME ExtendAssumption == NumNames \in Nat \ {0} /\ MaxDepth \in Nat

Names == 1..NumNames
Options == {"a", "b"}

VARIABLES link,      \* the file a name leads to
          content,   \* what is known of each file
          frames,    \* the calls of load that have not returned
          cache,     \* the merged documents by name
          listed,    \* result.Files
          result     \* what load of the first name returned

extendVars == <<link, content, frames, cache, listed, result>>

-----------------------------------------------------------------------------
(* Documents. *)

Absent == [is |-> "absent"]
Plain(f) == [is |-> "plain", by |-> f]
OptionsOf(m) == [is |-> "mapping", of |-> m]

\* What the file f may say of the setting.
Settings(f) == {Absent, Plain(f)} \cup {OptionsOf([o \in {p} |-> f]) : p \in Options}

\* Mutant of Merge: mappings replace like everything else.
MergeShallow(base, overlay) == IF overlay = Absent THEN base ELSE overlay

\* Merge of the setting's values: lists, scalars and null replace, mappings
\* merge, and what the overlay does not mention stays.  (The mark of a null that
\* an overlay input gave is not needed between files.)
Merge(base, overlay) ==
  IF overlay = Absent THEN base
  ELSE IF base.is # "mapping" \/ overlay.is # "mapping" THEN overlay
  ELSE OptionsOf([o \in DOMAIN base.of \cup DOMAIN overlay.of |->
                    IF o \in DOMAIN overlay.of THEN overlay.of[o] ELSE base.of[o]])

-----------------------------------------------------------------------------
(* Load. *)

Unknown == [state |-> "unknown"]
Unreadable == [state |-> "unreadable"]
File(bases, setting) == [state |-> "read", bases |-> bases, setting |-> setting]

NotCached == [is |-> "not cached"]

\* A file is known by the first of the names that lead to it.
ExtendInit ==
  /\ link \in {l \in [Names -> Names] : \A n \in Names : l[n] <= n /\ l[l[n]] = l[n]}
  /\ content = [n \in Names |-> Unknown]
  /\ frames = <<[name |-> 1, next |-> 1, base |-> Absent]>>
  /\ cache = [n \in Names |-> NotCached]
  /\ listed = <<>>
  /\ result = "none"

Frame == Last(frames)
FileOf(frame) == content[link[frame.name]]

\* The identities in active: the files of the calls below a new one.
Active == {link[frames[i].name] : i \in DOMAIN frames}

\* Names mean nothing, so they are first mentioned in their order.
Mentioned == {1} \cup UNION {Range(content[f].bases) :
                              f \in {g \in Names : content[g].state = "read"}}
InOrder(bases) ==
  \A i \in DOMAIN bases :
    bases[i] = 1 \/ bases[i] - 1 \in Mentioned \cup {bases[j] : j \in 1..(i - 1)}

\* read, Decode, Expand and normalize of the file behind the innermost call;
\* any of them may fail.  A list with an entry that is no local path counts as
\* a failure of the file.
ReadFile ==
  /\ result = "none"
  /\ FileOf(Frame) = Unknown
  /\ \/ content' = [content EXCEPT ![link[Frame.name]] = Unreadable]
     \/ \E bases \in SeqOf(Names, MaxBases), s \in Settings(link[Frame.name]) :
          /\ InOrder(bases)
          /\ content' = [content EXCEPT ![link[Frame.name]] = File(bases, s)]
  /\ UNCHANGED <<link, frames, cache, listed, result>>

\* An error of one call is the error of all.
Fail(why) == /\ result' = why
             /\ UNCHANGED <<link, content, frames, cache, listed>>

ReadFails == /\ result = "none"
             /\ FileOf(Frame) = Unreadable
             /\ Fail("unreadable")

HasNext == /\ result = "none"
           /\ FileOf(Frame).state = "read"
           /\ Frame.next <= Len(FileOf(Frame).bases)

NextBase == FileOf(Frame).bases[Frame.next]

IsCycle(n) == link[n] \in Active

\* The depth of the call for the next base is the number of calls below it.
TooDeep == Len(frames) > MaxDepth

BaseCycle == HasNext /\ IsCycle(NextBase) /\ Fail("cycle")

BaseTooDeep == HasNext /\ ~IsCycle(NextBase) /\ TooDeep /\ Fail("depth")

\* The base of a call with the document of its next base over it.
Laid(frame, document) ==
  [name |-> frame.name, next |-> frame.next + 1, base |-> Merge(frame.base, document)]

BaseCached ==
  /\ HasNext /\ ~IsCycle(NextBase) /\ ~TooDeep
  /\ cache[NextBase] # NotCached
  /\ frames' = Append(Front(frames), Laid(Frame, cache[NextBase]))
  /\ UNCHANGED <<link, content, cache, listed, result>>

BaseCalled ==
  /\ HasNext /\ ~IsCycle(NextBase) /\ ~TooDeep
  /\ cache[NextBase] = NotCached
  /\ frames' = Append(frames, [name |-> NextBase, next |-> 1, base |-> Absent])
  /\ UNCHANGED <<link, content, cache, listed, result>>

\* The declaring file over its bases; the call returns to the one below.
Return ==
  /\ result = "none"
  /\ FileOf(Frame).state = "read"
  /\ Frame.next > Len(FileOf(Frame).bases)
  /\ LET merged == Merge(Frame.base, FileOf(Frame).setting)
         below == Front(frames)
     IN /\ cache' = [cache EXCEPT ![Frame.name] = merged]
        /\ listed' = Append(listed, Frame.name)
        /\ IF below = <<>> THEN result' = "loaded" /\ UNCHANGED frames
           ELSE /\ frames' = Append(Front(below), Laid(Last(below), merged))
                /\ UNCHANGED result
  /\ UNCHANGED <<link, content>>

ExtendNext == \/ ReadFile \/ ReadFails \/ BaseCycle \/ BaseTooDeep
              \/ BaseCached \/ BaseCalled \/ Return

ExtendSpec == ExtendInit /\ [][ExtendNext]_extendVars

-----------------------------------------------------------------------------
(* What the documentation says, from the graph alone.                      *)

BasesOf(n) == IF content[link[n]].state = "read" THEN content[link[n]].bases ELSE <<>>

Closed(S) == \A n \in S : Range(BasesOf(n)) \subseteq S

\* The names that n extends, directly or through others.
Extended(n) ==
  {m \in Names : \A S \in SUBSET Names :
                   Range(BasesOf(n)) \subseteq S /\ Closed(S) => m \in S}

Reached == {1} \cup Extended(1)

\* Settings applied in order: what replaces wins over everything before it,
\* and of the mappings since then the last that has an option.
Said(settings) == {i \in DOMAIN settings : settings[i] # Absent}
Replacing(settings) == {i \in Said(settings) : settings[i].is # "mapping"}
Since(settings) == {i \in Said(settings) : \A j \in Replacing(settings) : i > j}
Giving(settings, o) == {i \in Since(settings) : o \in DOMAIN settings[i].of}
Latest(S) == CHOOSE i \in S : \A j \in S : i >= j

Overlaid(settings) ==
  IF Since(settings) # {}
  THEN OptionsOf([o \in {p \in Options : Giving(settings, p) # {}} |->
                    settings[Latest(Giving(settings, o))].of[o]])
  ELSE IF Replacing(settings) # {} THEN settings[Latest(Replacing(settings))]
  ELSE Absent

\* The documents of all bases in order, then the declaring file.
Effective(n) ==
  Overlaid([i \in DOMAIN BasesOf(n) |-> cache[BasesOf(n)[i]]] \o <<content[link[n]].setting>>)

\* A load that succeeds has read every file that is extended, met no file twice
\* on a chain, lists each name once after its bases, and gives each name the
\* document that applying its bases in order, then the declaring file, gives it
\* (docs/config.md), although files are shared and cached.  As no name extends
\* itself, this determines the documents.
LoadedIsEffective ==
  result = "loaded" =>
    /\ \A n \in Reached : content[link[n]].state = "read"
    /\ \A n \in Reached : \A m \in Extended(n) : link[m] # link[n]
    /\ Range(listed) = Reached /\ IsInjective(listed)
    /\ \A i \in DOMAIN listed :
         Range(BasesOf(listed[i])) \subseteq {listed[j] : j \in 1..(i - 1)}
    /\ \A n \in Reached : cache[n] = Effective(n)

\* A load that fails has the reason it gives.
RefusedIsReal ==
  /\ result = "unreadable" => \E n \in Reached : content[link[n]].state = "unreadable"
  /\ result = "cycle" => \E n \in Reached : \E m \in Extended(n) : link[m] = link[n]
  /\ result = "depth" =>
       \E chain \in [0..(MaxDepth + 1) -> Names] :
         /\ chain[0] = 1
         /\ \A i \in 0..MaxDepth : chain[i + 1] \in Range(BasesOf(chain[i]))

\* Loading a configuration is exact, whatever shape the files' extends have.
ExtendsAreExact == LoadedIsEffective /\ RefusedIsReal
=============================================================================
