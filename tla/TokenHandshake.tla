--------------------------- MODULE TokenHandshake ---------------------------
(***************************************************************************)
(* What the lookup and the heartbeats of one boot promise: Ironic hands a  *)
(* token out at most once while the agent looks its node up, the agent is  *)
(* done with that token, without one or not at all, and Ironic accepts an  *)
(* agent only if it holds the very token Ironic expects.                   *)
(***************************************************************************)
CONSTANTS Tokens, None

VARIABLES
  stage,     \* "looking", "ready" or "failed"
  holds,     \* the token of the agent, or None
  expects,   \* the token Ironic handed out for the node, or None
  accepted   \* Ironic has accepted a heartbeat of this agent

vars == <<stage, holds, expects, accepted>>

Init ==
  /\ stage = "looking"
  /\ holds = None
  /\ expects \in Tokens \cup {None}
  /\ accepted = FALSE

(* The token may be lost on its way: handing it out is not receiving it. *)
HandOut ==
  /\ stage = "looking"
  /\ expects = None
  /\ expects' \in Tokens
  /\ UNCHANGED <<stage, holds, accepted>>

Finish ==
  /\ stage = "looking"
  /\ stage' = "ready"
  /\ holds' \in {None, expects}
  /\ UNCHANGED <<expects, accepted>>

(* The answer the boot fails on may be the one that handed the token out. *)
Fail ==
  /\ stage = "looking"
  /\ stage' = "failed"
  /\ \/ UNCHANGED expects
     \/ expects = None /\ expects' \in Tokens
  /\ UNCHANGED <<holds, accepted>>

Accept ==
  /\ stage = "ready"
  /\ holds = expects
  /\ accepted' = TRUE
  /\ UNCHANGED <<stage, holds, expects>>

Next == HandOut \/ Finish \/ Fail \/ Accept

Spec == Init /\ [][Next]_vars
=============================================================================
