--------------------------- MODULE HeartbeatPool ---------------------------
(***************************************************************************)
(* What the heartbeater promises the rest of FakeIPA, without its deque    *)
(* and its threads: agents join once, are heartbeated by one caller at a   *)
(* time, and leave by a removal mark, each mark taking out one agent.      *)
(***************************************************************************)
CONSTANTS Agents, Systems, SystemOf

VARIABLES
  status,  \* "new", "idle", "beating" or "gone"
  marks    \* systems whose next idle agent is to be taken out

vars == <<status, marks>>

Init ==
  /\ status = [a \in Agents |-> "new"]
  /\ marks = {}

Move(a, from, to) ==
  /\ status[a] = from
  /\ status' = [status EXCEPT ![a] = to]

Admit(a) == Move(a, "new", "idle") /\ UNCHANGED marks
Beat(a) == Move(a, "idle", "beating") /\ UNCHANGED marks
Answered(a) == Move(a, "beating", "idle") /\ UNCHANGED marks

(* Ironic does not know the node: it is to be taken out. *)
NotFound(a) ==
  /\ Move(a, "beating", "idle")
  /\ marks' = marks \cup {SystemOf[a]}

Mark(s) ==
  /\ marks' = marks \cup {s}
  /\ UNCHANGED status

(* A boot of the system in progress cancels its mark. *)
CancelMark(a) ==
  /\ status[a] = "new"
  /\ SystemOf[a] \in marks
  /\ marks' = marks \ {SystemOf[a]}
  /\ UNCHANGED status

(* An agent leaves by using up the mark of its system, *)
Leave(a) ==
  /\ Move(a, "idle", "gone")
  /\ SystemOf[a] \in marks
  /\ marks' = marks \ {SystemOf[a]}

(* or because the thread that handles it dies outside a heartbeat. *)
Lose(a) == Move(a, "idle", "gone") /\ UNCHANGED marks

Next ==
  \/ \E a \in Agents :
       \/ Admit(a) \/ Beat(a) \/ Answered(a) \/ NotFound(a)
       \/ CancelMark(a) \/ Leave(a) \/ Lose(a)
  \/ \E s \in Systems : Mark(s)

Spec == Init /\ [][Next]_vars
=============================================================================
