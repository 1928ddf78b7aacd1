-------------------------- MODULE MCPluginProject --------------------------
(* PluginProject for TLC: the commands are interchangeable.                *)
EXTENDS PluginProject, TLC

Symmetry == Permutations(Writers)
=============================================================================
