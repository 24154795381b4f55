----------------------------- MODULE CommandLog -----------------------------
(***************************************************************************)
(* What the command interface promises Ironic, without its requests and    *)
(* refreshes: a log of commands, to which one is added when all before it  *)
(* are done.  Each comes to its outcome at once, the status, the result    *)
(* and the error together: a background command once, when its time is     *)
(* reached, every other when it is logged.                                 *)
(***************************************************************************)
EXTENDS Naturals, Sequences

CONSTANTS
  Names,       \* commands
  Background,  \* those that come to their outcome later
  OutcomeOf,   \* what each comes to
  Pending      \* what is seen of a command until then

VARIABLE log

Init == log = << >>

Entry(cmd, reached, outcome) ==
  [command |-> cmd, time_reached |-> reached, outcome |-> outcome]

Pends(i) == log[i].outcome = Pending

Add(cmd) ==
  log' = Append(log, IF cmd \in Background THEN Entry(cmd, FALSE, Pending)
                     ELSE Entry(cmd, TRUE, OutcomeOf[cmd]))

Record(cmd) == (\A i \in DOMAIN log : ~Pends(i)) /\ Add(cmd)

TimePasses(i) ==
  /\ ~log[i].time_reached
  /\ log' = [log EXCEPT ![i] = Entry(@.command, TRUE, @.outcome)]

Complete(i) ==
  /\ Pends(i)
  /\ log[i].time_reached
  /\ log' = [log EXCEPT ![i] = Entry(@.command, TRUE, OutcomeOf[@.command])]

Progress == \E i \in DOMAIN log : TimePasses(i) \/ Complete(i)

Next == Progress \/ \E cmd \in Names : Record(cmd)

Spec == Init /\ [][Next]_log

(* What is left of it when several clients execute commands: a command may  *)
(* be added before those ahead of it are done.                              *)
SpecOfMany == Init /\ [][Progress \/ \E cmd \in Names : Add(cmd)]_log
=============================================================================
