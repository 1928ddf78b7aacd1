----------------------------- MODULE PluginPair -----------------------------
(***************************************************************************)
(* What the commands of a plugin project promise: the lock and the         *)
(* manifest change together, as one pair.  A command reads, in its own     *)
(* time and perhaps while another saves, and later replaces the pair in    *)
(* one step by one that can be loaded, provided that the files it replaces *)
(* are still those it read; or it changes nothing.                         *)
(*                                                                         *)
(* Crashes, editors and failing clean-ups are disturbances, after which    *)
(* nothing is promised.  PluginProject implements this, although it writes *)
(* two files, one after the other.                                         *)
(***************************************************************************)
CONSTANTS Commands,  \* the processes
          Pairs,     \* a lock and a manifest
          Loadable   \* the pairs in which every declared plugin has its pin

VARIABLES pair,      \* <<lock, manifest>>
          read,      \* what each command has read
          disturbed

vars == <<pair, read, disturbed>>

Init == /\ pair \in Loadable
        /\ read \in [Commands -> Pairs]
        /\ disturbed = FALSE

Forgets(c) == \E p \in Pairs : read' = [read EXCEPT ![c] = p]

\* Reading may give a lock and a manifest that were never there together.
Read(c) == /\ Forgets(c)
           /\ UNCHANGED <<pair, disturbed>>

\* The manifest is always replaced, the lock where there are pins.
Save(c) == /\ ~disturbed
           /\ pair' \in Loadable
           /\ read[c][2] = pair[2]
           /\ pair'[1] # pair[1] => read[c][1] = pair[1]
           /\ Forgets(c)
           /\ UNCHANGED disturbed

\* Whatever the files are then, and whatever is read.
Disturb == disturbed' = TRUE

Next == Disturb \/ \E c \in Commands : Read(c) \/ Save(c)

Spec == Init /\ [][Next]_vars
=============================================================================
