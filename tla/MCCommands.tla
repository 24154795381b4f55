----------------------------- MODULE MCCommands -----------------------------
(* Small instances of Commands: up to three commands of one agent, posted  *)
(* by one or two clients and polled by one.                                *)
EXTENDS Commands

CONSTANTS p1, p2, l1
=============================================================================
