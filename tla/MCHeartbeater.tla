--------------------------- MODULE MCHeartbeater ---------------------------
(* Small instances of Heartbeater: two boots of one system, one of another. *)
EXTENDS Heartbeater

CONSTANTS a1, a2, a3, s1, s2

MCSystemOf == [a \in Agents |-> IF a = a3 THEN s2 ELSE s1]
=============================================================================
