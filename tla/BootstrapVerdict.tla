-------------------------- MODULE BootstrapVerdict --------------------------
(***************************************************************************)
(* What the README of cloud-init-tool promises of one run: each of the     *)
(* hosts that were given is judged once, and the exit status is 0 exactly  *)
(* if all of them have bootstrapped.  A run that cannot execute properly   *)
(* exits with 1 at once, one that is killed says nothing.                  *)
(***************************************************************************)
CONSTANTS Positions, None

VARIABLES
  given,    \* the hosts that were given, by position
  judged,   \* those the tool is done with
  passed,   \* those of them that have bootstrapped
  status    \* the exit status, or None while there is none

vars == <<given, judged, passed, status>>

Init ==
  /\ given = {}
  /\ judged = {}
  /\ passed = {}
  /\ status = None

Begin ==
  /\ given' \in SUBSET Positions
  /\ judged' = {}
  /\ passed' = {}
  /\ status' \in {None, 1}

Judge(i) ==
  /\ status = None
  /\ i \in given \ judged
  /\ judged' = judged \cup {i}
  /\ passed' \in {passed, passed \cup {i}}
  /\ UNCHANGED <<given, status>>

Conclude ==
  /\ status = None
  /\ judged = given
  /\ status' = IF passed = given THEN 0 ELSE 1
  /\ UNCHANGED <<given, judged, passed>>

Abort ==
  /\ status = None
  /\ status' = 1
  /\ UNCHANGED <<given, judged, passed>>

Next == Begin \/ (\E i \in Positions : Judge(i)) \/ Conclude \/ Abort

Spec == Init /\ [][Next]_vars
=============================================================================
