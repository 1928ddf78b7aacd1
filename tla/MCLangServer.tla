---------------------------- MODULE MCLangServer ----------------------------
(* LangServer for TLC: two files.  File 2 may be spelled in two ways.       *)
EXTENDS LangServer

CONSTANTS u1, u2, alias

MCPathOf  == [u \in Uris |-> IF u = u1 THEN 1 ELSE 2]
MCFileURI == [p \in Paths |-> IF p = 1 THEN u1 ELSE u2]
=============================================================================
