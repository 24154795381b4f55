------------------------------ MODULE Commands ------------------------------
(***************************************************************************)
(* The command interface of one fake agent: fake_ipa/base.py, the handlers *)
(* of fake_ipa/main.py that reach it, and the extensions standby, clean,   *)
(* deploy, image and log.                                                  *)
(*                                                                         *)
(* A synchronous command is executed while it is recorded.  An             *)
(* asynchronous one is recorded RUNNING and executed by a later request    *)
(* that finds it last in command_results with its time reached.  Flask     *)
(* serves each request in a thread of its own and command_lock is never    *)
(* taken, so a step is one access to what the requests share: the results  *)
(* and their fields.  Requests that are refused before they reach the      *)
(* agent (body, token, unknown uuid) change nothing and are left out.      *)
(***************************************************************************)
EXTENDS Naturals, Sequences, FiniteSets

CONSTANTS
  Posters,    \* clients that execute commands and read single results
  Pollers,    \* clients that list the results
  MaxResults  \* bound: commands posted to the agent

ASSUME CommandsAssumption ==
  /\ Posters \cap Pollers = {}
  /\ MaxResults \in Nat

Clients == Posters \cup Pollers

(* What a command comes to, by its name and its parameters:                *)
(*   done     a sync_command that returns                                  *)
(*   raises   a sync_command called with the wrong parameters: TypeError   *)
(*   later    an async_command whose execution will succeed                *)
(*   fails    one whose execution will fail                                *)
(*   noext    an extension that does not exist: ExtensionError             *)
(*   nocmd    an extension without this command: InvalidCommandError       *)
(*   nodot    not of the form <extension>.<name>: InvalidCommandError      *)
Async == {"later", "fails"}

(* get_extension makes every extension without its agent, so that          *)
(* power_off, which asks the agent for its configuration, always fails.    *)
StandbyExtension == [power_off |-> {"fails"},
                     get_partition_uuids |-> {"done", "raises"}]
CleanExtension == [get_clean_steps |-> {"done", "raises"},
                   execute_clean_step |-> {"later", "fails"}]
DeployExtension == [get_deploy_steps |-> {"done", "raises"},
                    execute_deploy_step |-> {"later", "fails"}]
ImageExtension == [install_bootloader |-> {"later", "fails"}]
LogExtension == [collect_system_logs |-> {"done", "raises"}]

ComesTo(ext) == UNION {ext[name] : name \in DOMAIN ext}
Recorded == {"noext"} \cup ComesTo(StandbyExtension) \cup ComesTo(CleanExtension)
              \cup ComesTo(DeployExtension) \cup ComesTo(ImageExtension)
              \cup ComesTo(LogExtension)
Commands == Recorded \cup {"nocmd", "nodot"}

VARIABLES
  results,   \* command_results.values(), in the order of the OrderedDict
  pc,        \* where each client's request is
  command,   \* the command of the request
  at,        \* the position of the result that the request works on
  until,     \* the results that a request to list serialises
  response   \* the command_status that was put into the response

vars == <<results, pc, command, at, until, response>>

Statuses == {"RUNNING", "SUCCEEDED", "FAILED"}
Results == [command : Recorded, command_status : Statuses, time_reached : BOOLEAN,
            command_result : BOOLEAN, command_error : {"none", "rest", "raw"}]

is_done(i) == results[i].command_status # "RUNNING"

(* What execute_command records: only SyncCommandResults are done at once, *)
(* and the exception of a failed one is recorded as it is.                 *)
NewResult(c) ==
  [command        |-> c,
   command_status |-> IF c \in Async THEN "RUNNING"
                      ELSE IF c = "done" THEN "SUCCEEDED" ELSE "FAILED",
   time_reached   |-> c \notin Async,
   command_result |-> c = "done",
   command_error  |-> CASE c = "raises" -> "raw" [] c = "noext" -> "rest"
                        [] OTHER -> "none"]

Init ==
  /\ results = << >>
  /\ pc = [c \in Clients |-> "idle"]
  /\ command = [c \in Clients |-> "done"]
  /\ at = [c \in Clients |-> 0]
  /\ until = [c \in Clients |-> 0]
  /\ response = [c \in Clients |-> "RUNNING"]

-----------------------------------------------------------------------------
Goto(c, label) == pc' = [pc EXCEPT ![c] = label]

(* The request is answered, and its thread ends. *)
Answer(c) ==
  /\ Goto(c, "idle")
  /\ command' = [command EXCEPT ![c] = "done"]
  /\ at' = [at EXCEPT ![c] = 0]
  /\ until' = [until EXCEPT ![c] = 0]
  /\ response' = [response EXCEPT ![c] = "RUNNING"]

(* api_run_command *)
Post(c, cmd) ==
  /\ pc[c] = "idle"
  /\ Len(results) + Cardinality({d \in Posters : pc[d] \in {"refresh", "run",
       "finish", "test", "execute"}}) < MaxResults
  /\ Goto(c, "refresh")
  /\ command' = [command EXCEPT ![c] = cmd]
  /\ UNCHANGED <<results, at, until, response>>

(* api_get_command, with or without wait=true *)
Get(c, i) ==
  /\ pc[c] = "idle"
  /\ i \in DOMAIN results
  /\ at' = [at EXCEPT ![c] = i]
  /\ until' = [until EXCEPT ![c] = i]
  /\ pc' \in {[pc EXCEPT ![c] = l] : l \in {"join", "read"}}
  /\ UNCHANGED <<results, command, response>>

(* api_list_commands *)
List(c) ==
  /\ pc[c] = "idle"
  /\ Goto(c, "refresh")
  /\ UNCHANGED <<results, command, at, until, response>>

-----------------------------------------------------------------------------
(* refresh_last_async_command *)

AfterRefresh(c) == IF c \in Posters THEN "test" ELSE "list"

(* Mutant: its time is not looked at. *)
LastIsDueEarly == results # << >> /\ ~is_done(Len(results))

LastIsDue == /\ results # << >>
             /\ ~is_done(Len(results))
             /\ results[Len(results)].time_reached

(* Mutant: the first result is refreshed. *)
RefreshFirst(c) ==
  /\ pc[c] = "refresh"
  /\ IF results # << >> /\ ~is_done(1) /\ results[1].time_reached
     THEN Goto(c, "run") /\ at' = [at EXCEPT ![c] = 1]
     ELSE Goto(c, AfterRefresh(c)) /\ UNCHANGED at
  /\ UNCHANGED <<results, command, until, response>>

RefreshLast(c) ==
  /\ pc[c] = "refresh"
  /\ IF LastIsDue
     THEN Goto(c, "run") /\ at' = [at EXCEPT ![c] = Len(results)]
     ELSE Goto(c, AfterRefresh(c)) /\ UNCHANGED at
  /\ UNCHANGED <<results, command, until, response>>

Fails(c) == results[at[c]].command = "fails"

(* Mutant: the status is set before the method is called. *)
RunStatusFirst(c) ==
  /\ pc[c] = "run"
  /\ results' = [results EXCEPT ![at[c]].command_status =
                   IF Fails(c) THEN "FAILED" ELSE "SUCCEEDED"]
  /\ Goto(c, "finish")
  /\ UNCHANGED <<command, at, until, response>>

(* AsyncCommandResult.run: the method, then command_result or              *)
(* command_error, *)
Run(c) ==
  /\ pc[c] = "run"
  /\ results' = [results EXCEPT
       ![at[c]].command_result = @ \/ ~Fails(c),
       ![at[c]].command_error = IF Fails(c) THEN "rest" ELSE @]
  /\ Goto(c, "finish")
  /\ UNCHANGED <<command, at, until, response>>

(* and at last command_status. *)
Finish(c) ==
  /\ pc[c] = "finish"
  /\ results' = [results EXCEPT ![at[c]].command_status =
                   IF Fails(c) THEN "FAILED" ELSE "SUCCEEDED"]
  /\ Goto(c, AfterRefresh(c))
  /\ at' = [at EXCEPT ![c] = 0]
  /\ UNCHANGED <<command, until, response>>

-----------------------------------------------------------------------------
(* execute_command, after its refresh *)

(* split_command refuses the name, or AgentIsBusy the agent. *)
Refuse(c) ==
  /\ pc[c] = "test"
  /\ \/ command[c] = "nodot"
     \/ results # << >> /\ ~is_done(Len(results))
  /\ Answer(c)
  /\ UNCHANGED results

(* Mutant: a busy agent is not noticed. *)
AcceptBusy(c) ==
  /\ pc[c] = "test"
  /\ command[c] # "nodot"
  /\ Goto(c, "execute")
  /\ UNCHANGED <<results, command, at, until, response>>

Accept(c) ==
  /\ pc[c] = "test"
  /\ command[c] # "nodot"
  /\ results # << >> => is_done(Len(results))
  /\ Goto(c, "execute")
  /\ UNCHANGED <<results, command, at, until, response>>

(* An InvalidContentError is for the caller, and recorded nowhere. *)
RaiseInvalidContent(c) ==
  /\ pc[c] = "execute"
  /\ command[c] = "nocmd"
  /\ Answer(c)
  /\ UNCHANGED results

(* Mutant: the results are kept under the command's name. *)
RecordByName(c) ==
  /\ pc[c] = "execute"
  /\ command[c] \in Recorded
  /\ LET same == {i \in DOMAIN results : results[i].command = command[c]}
         i == IF same = {} THEN Len(results) + 1 ELSE CHOOSE j \in same : TRUE
     IN /\ results' = [j \in DOMAIN results \cup {i} |->
                         IF j = i THEN NewResult(command[c]) ELSE results[j]]
        /\ at' = [at EXCEPT ![c] = i]
        /\ until' = [until EXCEPT ![c] = i]
  /\ pc' \in {[pc EXCEPT ![c] = l] : l \in {"join", "read"}}
  /\ UNCHANGED <<command, response>>

Record(c) ==
  /\ pc[c] = "execute"
  /\ command[c] \in Recorded
  /\ results' = Append(results, NewResult(command[c]))
  /\ at' = [at EXCEPT ![c] = Len(results')]
  /\ until' = [until EXCEPT ![c] = Len(results')]
  /\ pc' \in {[pc EXCEPT ![c] = l] : l \in {"join", "read"}}
  /\ UNCHANGED <<command, response>>

-----------------------------------------------------------------------------
(* The response *)

(* join sleeps until the time of the result, and looks at nothing else. *)
Join(c) ==
  /\ pc[c] = "join"
  /\ results[at[c]].time_reached
  /\ Goto(c, "joined")
  /\ UNCHANGED <<results, command, at, until, response>>

(* list_command_results copies the values; no result, no more to do. *)
ListResults(c) ==
  /\ pc[c] = "list"
  /\ IF results = << >> THEN Answer(c)
     ELSE /\ Goto(c, "read")
          /\ at' = [at EXCEPT ![c] = 1]
          /\ until' = [until EXCEPT ![c] = Len(results)]
          /\ UNCHANGED <<command, response>>
  /\ UNCHANGED results

(* serialize reads the fields one by one: the status, *)
ReadStatus(c) ==
  /\ pc[c] \in {"read", "joined"}
  /\ response' = [response EXCEPT ![c] = results[at[c]].command_status]
  /\ Goto(c, IF pc[c] = "joined" THEN "serialize_joined" ELSE "serialize")
  /\ UNCHANGED <<results, command, at, until>>

(* Mutant: one result more than the list has. *)
SerializeTooFar(c) ==
  /\ pc[c] \in {"serialize", "serialize_joined"}
  /\ IF at[c] > until[c] \/ results[at[c]].command_error = "raw" THEN Answer(c)
     ELSE /\ Goto(c, "read")
          /\ at' = [at EXCEPT ![c] = @ + 1]
          /\ UNCHANGED <<command, until, response>>
  /\ UNCHANGED results

(* then the error and the result.  The encoder raises TypeError on a raw   *)
(* exception, and the whole response is a 500.                             *)
Serialize(c) ==
  /\ pc[c] \in {"serialize", "serialize_joined"}
  /\ IF at[c] = until[c] \/ results[at[c]].command_error = "raw" THEN Answer(c)
     ELSE /\ Goto(c, "read")
          /\ at' = [at EXCEPT ![c] = @ + 1]
          /\ UNCHANGED <<command, until, response>>
  /\ UNCHANGED results

-----------------------------------------------------------------------------
RequestStep(c) ==
  \/ RefreshLast(c)
  \/ Run(c)
  \/ Finish(c)
  \/ Refuse(c)
  \/ Accept(c)
  \/ RaiseInvalidContent(c)
  \/ Record(c)
  \/ Join(c)
  \/ ListResults(c)
  \/ ReadStatus(c)
  \/ Serialize(c)

(* The 5 to 10 seconds of AsyncCommandResult.time pass. *)
TimePasses(i) ==
  /\ i \in DOMAIN results
  /\ ~results[i].time_reached
  /\ results' = [results EXCEPT ![i].time_reached = TRUE]
  /\ UNCHANGED <<pc, command, at, until, response>>

Next ==
  \/ \E c \in Clients : RequestStep(c)
  \/ \E c \in Posters : \/ \E cmd \in Commands : Post(c, cmd)
                        \/ \E i \in DOMAIN results : Get(c, i)
  \/ \E c \in Pollers : List(c)
  \/ \E i \in DOMAIN results : TimePasses(i)

Spec == Init /\ [][Next]_vars

(* The scheduler runs the thread of every request, time passes, and the    *)
(* pollers keep polling, as Ironic does while it waits for a command.      *)
Fairness ==
  /\ \A c \in Clients : WF_vars(RequestStep(c))
  /\ \A i \in 1 .. MaxResults : WF_vars(TimePasses(i))
  /\ \A c \in Pollers : WF_vars(List(c))

FairSpec == Spec /\ Fairness

-----------------------------------------------------------------------------
(* Properties *)

(* Every variable keeps its type, and a request works on a result that is  *)
(* there.                                                                  *)
TypeOK ==
  /\ results \in Seq(Results)
  /\ pc \in [Clients -> {"idle", "refresh", "run", "finish", "test", "execute",
                         "join", "joined", "list", "read", "serialize",
                         "serialize_joined"}]
  /\ command \in [Clients -> Commands]
  /\ at \in [Clients -> Nat]
  /\ until \in [Clients -> Nat]
  /\ response \in [Clients -> Statuses]
  /\ \A c \in Clients :
       pc[c] \notin {"idle", "refresh", "test", "execute", "list"}
         => at[c] \in DOMAIN results

(* Only the last command is ever refreshed, so a command that is still     *)
(* RUNNING when another is recorded would run for ever.  With one client   *)
(* that executes commands this does not happen, however its requests       *)
(* interleave with those that list the results.                            *)
OnlyLastRuns == \A i \in DOMAIN results : i < Len(results) => is_done(i)

(* Two requests may both find the last command due and both run it.  Even  *)
(* so a command that was seen done keeps its status, its result and its    *)
(* error, and no result is ever dropped or replaced.                       *)
DoneIsFinal ==
  [][\A i \in DOMAIN results :
       /\ i \in DOMAIN results'
       /\ results'[i].command = results[i].command
       /\ is_done(i) => results'[i] = results[i]]_vars

(* The status is read before the fields it speaks of and written after     *)
(* them: a response that says SUCCEEDED carries the result, and one that   *)
(* says FAILED the error, also when the command is run meanwhile.          *)
ResponseIsComplete ==
  \A c \in Clients :
    pc[c] \in {"serialize", "serialize_joined"} =>
      /\ response[c] = "SUCCEEDED" => results[at[c]].command_result
      /\ response[c] = "FAILED" => results[at[c]].command_error # "none"

(* The results as CommandLog sees them: a result and an error that run has *)
(* set before the status are not seen yet.                                 *)
Pending == [command_status |-> "RUNNING", command_result |-> FALSE,
            command_error |-> "none"]

Outcome == [cmd \in Recorded |->
  [command_status |-> IF cmd \in {"done", "later"} THEN "SUCCEEDED" ELSE "FAILED",
   command_result |-> cmd \in {"done", "later"},
   command_error  |-> CASE cmd = "raises" -> "raw"
                        [] cmd \in {"noext", "fails"} -> "rest"
                        [] OTHER -> "none"]]

Seen(r) ==
  [command      |-> r.command,
   time_reached |-> r.time_reached,
   outcome      |-> IF r.command_status = "RUNNING" THEN Pending
                    ELSE [command_status |-> r.command_status,
                          command_result |-> r.command_result,
                          command_error  |-> r.command_error]]

Log == INSTANCE CommandLog WITH
  Names <- Recorded,
  Background <- Async,
  OutcomeOf <- Outcome,
  log <- [i \in DOMAIN results |-> Seen(results[i])]

(* With one client that executes commands, requests that refresh, run and  *)
(* read them together keep what CommandLog promises: a command is accepted *)
(* when all before it are done, and comes to its outcome once, all of it   *)
(* at once and not before its time, though two requests may run it.        *)
LogSpec == Log!Spec

(* As long as somebody lists the results, every command that was accepted  *)
(* is done in the end.                                                     *)
PolledCommandsFinish ==
  \A i \in 1 .. MaxResults :
    Len(results) >= i ~> (Len(results) >= i /\ is_done(i))

(* execute_command logs that the agent is still executing a command and    *)
(* raises AgentIsBusy: an agent executes one command at a time.            *)
AtMostOneRunning ==
  \A i, j \in DOMAIN results : ~is_done(i) /\ ~is_done(j) => i = j

(* The docstring of AsyncCommandResult.join: block until command has       *)
(* completed, and return result.                                           *)
JoinedIsDone ==
  \A c \in Clients : pc[c] = "serialize_joined" => response[c] # "RUNNING"

(* The comment in execute_command: other errors are recorded as a failed   *)
(* SyncCommandResult with an error message.  A message can be serialised,  *)
(* so that the results can be listed.                                      *)
ErrorsAreMessages == \A i \in DOMAIN results : results[i].command_error # "raw"
=============================================================================
