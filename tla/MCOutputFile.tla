---------------------------- MODULE MCOutputFile ----------------------------
(* Three runs with the same process id, as in containers that share a
   directory; two names to try, so that killed runs use them up. *)
EXTENDS OutputFile

CONSTANTS w1, w2, w3

MCWriters == {w1, w2, w3}
MCPid == [w \in MCWriters |-> 1]
MCNoSync == {w3}
=============================================================================
