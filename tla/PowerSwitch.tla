---------------------------- MODULE PowerSwitch ----------------------------
(***************************************************************************)
(* What notification_handler promises the virtual machines, without its    *)
(* threads, sets and marks on their way: a system that is switched on      *)
(* boots one agent, once; one that is switched off has its agent marked,   *)
(* is not switched on again before it left, and no mark outlives the next  *)
(* boot.  Promised only to systems whose power changes do not overlap: a   *)
(* system for which they did is out of reach for good.                     *)
(***************************************************************************)
CONSTANTS Systems

VARIABLES
  power,   \* "off", "on", "stopping" or "unknown"
  agent,   \* "none", "due", "booting", "serving" or "unknown"
  marked   \* systems whose agent is to be taken out

vars == <<power, agent, marked>>

Init ==
  /\ power = [s \in Systems |-> "off"]
  /\ agent = [s \in Systems |-> "none"]
  /\ marked = {}

Turn(s, p) == power' = [power EXCEPT ![s] = p]
Becomes(s, a) == agent' = [agent EXCEPT ![s] = a]

SwitchOn(s) ==
  /\ power[s] = "off" /\ agent[s] = "none"
  /\ Turn(s, "on") /\ Becomes(s, "due")
  /\ UNCHANGED marked

Boot(s) ==
  /\ power[s] = "on" /\ agent[s] = "due"
  /\ Becomes(s, "booting")
  /\ UNCHANGED <<power, marked>>

BootFails(s) ==
  /\ agent[s] = "booting"
  /\ Becomes(s, "none")
  /\ UNCHANGED <<power, marked>>

(* A boot cancels the mark that an earlier one has left. *)
Unmark(s) ==
  /\ agent[s] = "booting" /\ s \in marked
  /\ marked' = marked \ {s}
  /\ UNCHANGED <<power, agent>>

Join(s) ==
  /\ power[s] = "on" /\ agent[s] = "booting" /\ s \notin marked
  /\ Becomes(s, "serving")
  /\ UNCHANGED <<power, marked>>

(* Ironic does not know the node. *)
NotFound(s) ==
  /\ agent[s] = "serving"
  /\ marked' = marked \cup {s}
  /\ UNCHANGED <<power, agent>>

(* A marked agent leaves with its mark, *)
Leave(s) ==
  /\ agent[s] = "serving" /\ s \in marked
  /\ Becomes(s, "none")
  /\ marked' = marked \ {s}
  /\ UNCHANGED power

(* or it is lost with the thread that handles it. *)
Lose(s) ==
  /\ agent[s] = "serving"
  /\ Becomes(s, "none")
  /\ UNCHANGED <<power, marked>>

SwitchOff(s) ==
  /\ power[s] = "on" /\ agent[s] \in {"none", "serving"}
  /\ Turn(s, "stopping")
  /\ UNCHANGED <<agent, marked>>

Mark(s) ==
  /\ power[s] = "stopping"
  /\ Turn(s, "off")
  /\ marked' = marked \cup {s}
  /\ UNCHANGED agent

Overlap(s) ==
  /\ Turn(s, "unknown") /\ Becomes(s, "unknown")
  /\ marked' = marked \ {s}

Next ==
  \E s \in Systems :
    \/ SwitchOn(s) \/ Boot(s) \/ BootFails(s) \/ Unmark(s) \/ Join(s)
    \/ NotFound(s) \/ Leave(s) \/ Lose(s)
    \/ SwitchOff(s) \/ Mark(s) \/ Overlap(s)

Spec == Init /\ [][Next]_vars
=============================================================================
