---------------------------- MODULE MCLifecycle ----------------------------
(* Small instances of Lifecycle: two handlers, each of which would start a *)
(* heartbeat thread, and up to two boots of a system.                      *)
EXTENDS Lifecycle

CONSTANTS a1, a2, a3, s1, s2, h1, h2, t1, t2

MCSystemOf == [a \in Agents |-> IF a = a3 THEN s2 ELSE s1]
MCPoolOf == [h \in Handlers |-> IF h = h1 THEN {t1} ELSE {t2}]
=============================================================================
