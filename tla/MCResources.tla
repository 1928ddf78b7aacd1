---------------------------- MODULE MCResources ----------------------------
(***************************************************************************)
(* Resources for TLC: three lookups, two commands that check one pinned    *)
(* release, two analyses and two plugin calls that overlap, and three file *)
(* names of which one is changed, with every limit within reach.           *)
(***************************************************************************)
EXTENDS Resources, TLC

CONSTANTS c1, c2, c3

\* Two documents ask for one ref of the repository, the third for another.
MCRefOf == c1 :> "r1" @@ c2 :> "r1" @@ c3 :> "r2"
=============================================================================
