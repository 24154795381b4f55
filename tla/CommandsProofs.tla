--------------------------- MODULE CommandsProofs ---------------------------
(***************************************************************************)
(* Proofs about Commands for any number of clients and any bound on the    *)
(* commands: its type invariant, that responses are complete and results   *)
(* final whatever requests interleave, and that no accepted command is     *)
(* forgotten if one client executes commands.                              *)
(***************************************************************************)
EXTENDS Commands, TLAPS

LEMMA RecordedIs == Recorded = {"done", "raises", "later", "fails", "noext"}
<1>1. /\ ComesTo(StandbyExtension) = {"fails", "done", "raises"}
      /\ ComesTo(CleanExtension) = {"done", "raises", "later", "fails"}
      /\ ComesTo(DeployExtension) = {"done", "raises", "later", "fails"}
      /\ ComesTo(ImageExtension) = {"later", "fails"}
      /\ ComesTo(LogExtension) = {"done", "raises"}
  BY DEF ComesTo, StandbyExtension, CleanExtension, DeployExtension,
         ImageExtension, LogExtension
<1>2. QED BY <1>1 DEF Recorded

(* A result is well formed: a SyncCommandResult is done when it is made, a *)
(* status is only set when the time is reached, and together with what it  *)
(* speaks of.                                                              *)
WellFormed(r) ==
  /\ r.command \notin Async => r.command_status # "RUNNING"
  /\ r.command_status # "RUNNING" => r.time_reached
  /\ r.command_status = "SUCCEEDED" => r.command_result /\ r.command # "fails"
  /\ r.command_status = "FAILED" => r.command_error # "none" /\ r.command # "later"
  /\ r.command = "fails" => r.command_error \in {"none", "rest"}

(* What the fields of a result may do in a step. *)
Grows(r, q) ==
  /\ q.command = r.command
  /\ r.command_status # "RUNNING" => q = r
  /\ r.time_reached => q.time_reached
  /\ r.command_result => q.command_result
  /\ r.command_error # "none" => q.command_error # "none"

(* What a request knows of the result it works on. *)
RequestKnows(c) ==
  /\ pc[c] \in {"test", "execute"} => c \in Posters
  /\ pc[c] \in {"run", "finish"} =>
       /\ results[at[c]].command \in Async
       /\ results[at[c]].time_reached
  /\ pc[c] = "finish" =>
       IF Fails(c) THEN results[at[c]].command_error # "none"
                   ELSE results[at[c]].command_result
  /\ pc[c] \in {"serialize", "serialize_joined"} =>
       /\ response[c] = "SUCCEEDED" => results[at[c]].command_result
       /\ response[c] = "FAILED" => results[at[c]].command_error # "none"
  /\ pc[c] \notin {"idle", "refresh", "test", "execute", "list"} =>
       at[c] <= until[c] \/ pc[c] \in {"run", "finish"}
  /\ pc[c] \in {"read", "serialize", "join", "joined", "serialize_joined"} =>
       until[c] \in DOMAIN results

Inv ==
  /\ TypeOK
  /\ \A i \in DOMAIN results : WellFormed(results[i])
  /\ \A c \in Clients : RequestKnows(c)

LEMMA InitInv == Init => Inv
  BY CommandsAssumption, RecordedIs
     DEF Init, Inv, TypeOK, RequestKnows, Results, Statuses, Commands, Clients

-----------------------------------------------------------------------------
(* The results *)

(* All that a step may do to the results. *)
ResultsGrow ==
  /\ results' \in Seq(Results)
  /\ DOMAIN results \subseteq DOMAIN results'
  /\ \A i \in DOMAIN results : Grows(results[i], results'[i])
  /\ \A i \in DOMAIN results' : WellFormed(results'[i])

LEMMA EveryResult ==
  ASSUME Inv, NEW i \in DOMAIN results
  PROVE  results[i] \in Results /\ WellFormed(results[i])
<1>1. results \in Seq(Results)
  BY DEF Inv, TypeOK
<1>2. QED BY <1>1 DEF Inv

LEMMA UnchangedGrows ==
  ASSUME Inv, UNCHANGED results
  PROVE  ResultsGrow
  BY DEF Inv, TypeOK, ResultsGrow, Grows

(* One result is written. *)
LEMMA WriteGrows ==
  ASSUME Inv, NEW i \in DOMAIN results, NEW r \in Results,
         results' = [results EXCEPT ![i] = r],
         Grows(results[i], r), WellFormed(r)
  PROVE  ResultsGrow
<1>1. /\ results' \in Seq(Results) /\ DOMAIN results' = DOMAIN results
      /\ \A j \in DOMAIN results : results'[j] = IF j = i THEN r ELSE results[j]
  BY DEF Inv, TypeOK
<1>2. QED BY <1>1 DEF Inv, ResultsGrow, Grows

LEMMA RecordGrows ==
  ASSUME Inv, NEW c \in Clients, Record(c)
  PROVE  /\ ResultsGrow
         /\ DOMAIN results' = 1 .. Len(results) + 1
         /\ Len(results') = Len(results) + 1
         /\ results'[Len(results) + 1] = NewResult(command[c])
<1> DEFINE r == NewResult(command[c])
<1>1. r \in Results /\ WellFormed(r)
  <2>1. command[c] \in {"done", "raises", "later", "fails", "noext"}
    BY RecordedIs DEF Record
  <2>2. r \in Results
    BY <2>1, RecordedIs DEF NewResult, Results, Statuses, Async
  <2>3. WellFormed(r)
    BY <2>1 DEF NewResult, WellFormed, Async
  <2>4. QED BY <2>2, <2>3
<1> HIDE DEF r
<1>2. /\ results' \in Seq(Results) /\ DOMAIN results' = 1 .. Len(results) + 1
      /\ Len(results') = Len(results) + 1
      /\ results'[Len(results) + 1] = r
      /\ \A i \in DOMAIN results : results'[i] = results[i]
  BY <1>1 DEF Record, Inv, TypeOK, r
<1>3. /\ DOMAIN results \subseteq DOMAIN results'
      /\ \A i \in DOMAIN results' : i \in DOMAIN results \/ i = Len(results) + 1
  BY <1>2 DEF Inv, TypeOK
<1>4. \A i \in DOMAIN results : Grows(results[i], results'[i])
  BY <1>2 DEF Grows
<1>5. \A i \in DOMAIN results' : WellFormed(results'[i])
  BY <1>1, <1>2, <1>3 DEF Inv
<1>6. QED BY <1>2, <1>3, <1>4, <1>5 DEF ResultsGrow, r

LEMMA RunGrows ==
  ASSUME Inv, NEW c \in Clients, Run(c)
  PROVE  /\ ResultsGrow
         /\ IF Fails(c) THEN results'[at[c]].command_error # "none"
                       ELSE results'[at[c]].command_result
<1> DEFINE i == at[c]
           r == [results[i] EXCEPT
                   !.command_result = @ \/ results[i].command # "fails",
                   !.command_error = IF results[i].command = "fails" THEN "rest" ELSE @]
<1>1. /\ i \in DOMAIN results /\ results[i] \in Results /\ WellFormed(results[i])
      /\ results[i].command \in {"later", "fails"}
  <2>1. pc[c] = "run" /\ i \in DOMAIN results
    BY DEF Run, Inv, TypeOK
  <2>2. results[i].command \in {"later", "fails"}
    BY <2>1 DEF Inv, RequestKnows, Async
  <2>3. QED BY <2>1, <2>2, EveryResult
<1>2. results' = [results EXCEPT ![i] = r]
  BY <1>1 DEF Run, Fails, Inv, TypeOK
<1>3. r \in Results /\ Grows(results[i], r) /\ WellFormed(r)
  BY <1>1 DEF Results, Statuses, Grows, WellFormed, Async
<1>4. results'[i] = r
  BY <1>1, <1>2
<1>5. IF Fails(c) THEN r.command_error # "none" ELSE r.command_result
  BY <1>1 DEF Fails, Results
<1>6. QED BY <1>1, <1>2, <1>3, <1>4, <1>5, WriteGrows

LEMMA FinishGrows ==
  ASSUME Inv, NEW c \in Clients, Finish(c)
  PROVE  ResultsGrow
<1> DEFINE i == at[c]
           r == [results[i] EXCEPT !.command_status =
                   IF Fails(c) THEN "FAILED" ELSE "SUCCEEDED"]
<1>1. /\ i \in DOMAIN results /\ results[i] \in Results /\ WellFormed(results[i])
      /\ results[i].command \in {"later", "fails"} /\ results[i].time_reached
      /\ IF Fails(c) THEN results[i].command_error # "none"
                    ELSE results[i].command_result
  <2>1. pc[c] = "finish" /\ i \in DOMAIN results
    BY DEF Finish, Inv, TypeOK
  <2>2. /\ results[i].command \in {"later", "fails"} /\ results[i].time_reached
        /\ IF Fails(c) THEN results[i].command_error # "none"
                      ELSE results[i].command_result
    BY <2>1 DEF Inv, RequestKnows, Async
  <2>3. QED BY <2>1, <2>2, EveryResult
<1>2. results' = [results EXCEPT ![i] = r]
  BY <1>1 DEF Finish, Inv, TypeOK
<1>3. r \in Results /\ Grows(results[i], r) /\ WellFormed(r)
  BY <1>1 DEF Results, Statuses, Grows, WellFormed, Async, Fails
<1>4. QED BY <1>1, <1>2, <1>3, WriteGrows

LEMMA TimeGrows ==
  ASSUME Inv, NEW i \in DOMAIN results, TimePasses(i)
  PROVE  ResultsGrow
<1> DEFINE r == [results[i] EXCEPT !.time_reached = TRUE]
<1>1. results[i] \in Results /\ WellFormed(results[i]) /\ ~results[i].time_reached
  BY EveryResult DEF TimePasses
<1>2. results' = [results EXCEPT ![i] = r]
  BY <1>1 DEF TimePasses, Inv, TypeOK
<1>3. r \in Results /\ Grows(results[i], r) /\ WellFormed(r)
  BY <1>1 DEF Results, Statuses, Grows, WellFormed, Async
<1>4. QED BY <1>1, <1>2, <1>3, WriteGrows

LEMMA NextGrows ==
  ASSUME Inv, [Next]_vars
  PROVE  ResultsGrow
<1>1. ASSUME NEW c \in Clients, RequestStep(c)
      PROVE  ResultsGrow
  BY <1>1, UnchangedGrows, RecordGrows, RunGrows, FinishGrows
     DEF RequestStep, RefreshLast, Refuse, Accept, RaiseInvalidContent, Join,
         ListResults, ReadStatus, Serialize
<1>2. QED
  BY <1>1, UnchangedGrows, TimeGrows DEF Next, Post, Get, List, vars

-----------------------------------------------------------------------------
(* The requests *)

(* A request that does not move keeps what it knows: results only grow. *)
LEMMA IdleRequestKnows ==
  ASSUME Inv, ResultsGrow, NEW d \in Clients,
         pc'[d] = pc[d], at'[d] = at[d], until'[d] = until[d],
         response'[d] = response[d]
  PROVE  /\ RequestKnows(d)'
         /\ pc[d] \notin {"idle", "refresh", "test", "execute", "list"}
              => at'[d] \in DOMAIN results'
<1>1. pc[d] \notin {"idle", "refresh", "test", "execute", "list"}
        => /\ at[d] \in DOMAIN results /\ at[d] \in DOMAIN results'
           /\ Grows(results[at[d]], results'[at[d]])
           /\ WellFormed(results[at[d]])
  BY DEF Inv, TypeOK, ResultsGrow
<1>2. RequestKnows(d) /\ DOMAIN results \subseteq DOMAIN results'
  BY DEF Inv, ResultsGrow
<1>3. QED BY <1>1, <1>2 DEF RequestKnows, Grows, WellFormed, Fails

(* The types of what a request writes. *)
RequestTyped(c) ==
  /\ pc'[c] \in {"idle", "refresh", "run", "finish", "test", "execute", "join",
                 "joined", "list", "read", "serialize", "serialize_joined"}
  /\ command'[c] \in Commands
  /\ at'[c] \in Nat
  /\ until'[c] \in Nat
  /\ response'[c] \in Statuses
  /\ pc'[c] \notin {"idle", "refresh", "test", "execute", "list"}
       => at'[c] \in DOMAIN results'

(* Only the request that takes the step moves. *)
OnlyMoves(c) ==
  /\ pc' = [pc EXCEPT ![c] = pc'[c]]
  /\ command' = [command EXCEPT ![c] = command'[c]]
  /\ at' = [at EXCEPT ![c] = at'[c]]
  /\ until' = [until EXCEPT ![c] = until'[c]]
  /\ response' = [response EXCEPT ![c] = response'[c]]

LEMMA OneRequestMoves ==
  ASSUME Inv, ResultsGrow, NEW c \in Clients,
         OnlyMoves(c), RequestTyped(c), RequestKnows(c)'
  PROVE  Inv'
<1>1. \A d \in Clients \ {c} :
        pc'[d] = pc[d] /\ at'[d] = at[d] /\ until'[d] = until[d]
          /\ response'[d] = response[d]
  BY DEF OnlyMoves, Inv, TypeOK
<1>2. \A d \in Clients \ {c} :
        /\ RequestKnows(d)'
        /\ pc'[d] \notin {"idle", "refresh", "test", "execute", "list"}
             => at'[d] \in DOMAIN results'
  BY <1>1, IdleRequestKnows
<1>3. TypeOK'
  BY <1>2 DEF Inv, TypeOK, OnlyMoves, RequestTyped, ResultsGrow
<1>4. \A d \in Clients : RequestKnows(d)'
  BY <1>2
<1>5. QED BY <1>3, <1>4 DEF Inv, ResultsGrow

LEMMA RequestStepInv ==
  ASSUME Inv, NEW c \in Clients, RequestStep(c)
  PROVE  Inv'
<1>1. ResultsGrow
  BY NextGrows DEF Next
<1>2. /\ pc \in [Clients -> {"idle", "refresh", "run", "finish", "test",
            "execute", "join", "joined", "list", "read", "serialize",
            "serialize_joined"}]
      /\ command \in [Clients -> Commands] /\ at \in [Clients -> Nat]
      /\ until \in [Clients -> Nat] /\ response \in [Clients -> Statuses]
      /\ results \in Seq(Results) /\ DOMAIN results = 1 .. Len(results)
      /\ Len(results) \in Nat
      /\ "done" \in Commands /\ "RUNNING" \in Statuses
  BY RecordedIs DEF Inv, TypeOK, Commands, Statuses
<1>3. OnlyMoves(c)
  BY <1>2 DEF OnlyMoves, RequestStep, RefreshLast, Run, Finish, Refuse, Accept,
      RaiseInvalidContent, Record, Join, ListResults, ReadStatus, Serialize,
      Goto, Answer
<1>4. RequestKnows(c) /\ pc[c] \notin {"idle", "refresh", "test", "execute", "list"}
        => at[c] \in DOMAIN results /\ at[c] \in DOMAIN results'
             /\ Grows(results[at[c]], results'[at[c]])
             /\ WellFormed(results[at[c]]) /\ results[at[c]] \in Results
  BY <1>1, EveryResult DEF Inv, TypeOK, ResultsGrow
<1>5. RequestKnows(c)
  BY DEF Inv
<1>6. ASSUME Refuse(c) \/ RaiseInvalidContent(c)
             \/ (ListResults(c) /\ results = << >>)
             \/ (Serialize(c) /\ pc'[c] = "idle")
      PROVE  RequestTyped(c) /\ RequestKnows(c)'
  <2>1. Answer(c)
    BY <1>2, <1>6 DEF Refuse, RaiseInvalidContent, ListResults, Serialize, Goto
  <2>2. /\ pc'[c] = "idle" /\ command'[c] = "done" /\ at'[c] = 0 /\ until'[c] = 0
        /\ response'[c] = "RUNNING"
    BY <1>2, <2>1 DEF Answer, Goto
  <2>3. QED BY <1>2, <2>2 DEF RequestTyped, RequestKnows
<1>7. ASSUME RefreshLast(c)
      PROVE  RequestTyped(c) /\ RequestKnows(c)'
  <2>1. CASE LastIsDue
    <3>1. /\ pc'[c] = "run" /\ at'[c] = Len(results) /\ results' = results
          /\ command'[c] = command[c] /\ until'[c] = until[c]
          /\ response'[c] = response[c]
      BY <1>2, <1>7, <2>1 DEF RefreshLast, Goto
    <3>2. /\ Len(results) \in DOMAIN results /\ results[Len(results)].time_reached
          /\ results[Len(results)].command \in Async
      BY <1>2, <2>1 DEF LastIsDue, is_done, Inv, WellFormed
    <3>3. QED BY <1>2, <3>1, <3>2 DEF RequestTyped, RequestKnows
  <2>2. CASE ~LastIsDue
    BY <1>2, <1>7, <2>2 DEF RefreshLast, Goto, AfterRefresh, RequestTyped, RequestKnows
  <2>3. QED BY <2>1, <2>2
<1>8. ASSUME Run(c)
      PROVE  RequestTyped(c) /\ RequestKnows(c)'
  <2>1. /\ pc[c] = "run" /\ pc'[c] = "finish" /\ at'[c] = at[c]
        /\ command'[c] = command[c] /\ until'[c] = until[c]
        /\ response'[c] = response[c]
    BY <1>2, <1>8 DEF Run, Goto
  <2>2. IF Fails(c) THEN results'[at[c]].command_error # "none"
                  ELSE results'[at[c]].command_result
    BY <1>8, RunGrows
  <2>3. QED
    BY <1>2, <1>4, <1>5, <2>1, <2>2 DEF RequestTyped, RequestKnows, Grows, Fails
<1>9. ASSUME Finish(c)
      PROVE  RequestTyped(c) /\ RequestKnows(c)'
  BY <1>2, <1>9 DEF Finish, Goto, AfterRefresh, RequestTyped, RequestKnows
<1>10. ASSUME Accept(c) \/ Join(c) \/ ReadStatus(c)
       PROVE  RequestTyped(c) /\ RequestKnows(c)'
  <2>1. CASE Accept(c)
    BY <1>2, <1>5, <2>1 DEF Accept, Goto, RequestTyped, RequestKnows
  <2>2. CASE Join(c)
    BY <1>2, <1>4, <1>5, <2>2 DEF Join, Goto, RequestTyped, RequestKnows
  <2>3. CASE ReadStatus(c)
    <3>1. /\ pc[c] \in {"read", "joined"} /\ pc'[c] \in {"serialize", "serialize_joined"}
          /\ at'[c] = at[c] /\ until'[c] = until[c] /\ command'[c] = command[c]
          /\ response'[c] = results[at[c]].command_status /\ results' = results
      BY <1>2, <2>3 DEF ReadStatus, Goto
    <3>2. response'[c] \in Statuses
      BY <1>4, <1>5, <3>1 DEF Results
    <3>3. QED
      BY <1>2, <1>4, <1>5, <3>1, <3>2 DEF RequestTyped, RequestKnows, WellFormed
  <2>4. QED BY <1>10, <2>1, <2>2, <2>3
<1>11. ASSUME Record(c)
       PROVE  RequestTyped(c) /\ RequestKnows(c)'
  <2>1. /\ Len(results') = Len(results) + 1 /\ DOMAIN results' = 1 .. Len(results) + 1
        /\ pc'[c] \in {"join", "read"}
        /\ command'[c] = command[c] /\ response'[c] = response[c]
    BY <1>2, <1>11, RecordGrows DEF Record
  <2>2. at'[c] = Len(results) + 1 /\ until'[c] = Len(results) + 1
    BY <1>2, <1>11, <2>1 DEF Record
  <2>3. QED BY <1>2, <2>1, <2>2 DEF RequestTyped, RequestKnows
<1>12. ASSUME ListResults(c), results # << >>
       PROVE  RequestTyped(c) /\ RequestKnows(c)'
  <2>1. /\ pc'[c] = "read" /\ at'[c] = 1 /\ until'[c] = Len(results)
        /\ command'[c] = command[c] /\ response'[c] = response[c] /\ results' = results
    BY <1>2, <1>12 DEF ListResults, Goto
  <2>2. QED BY <1>2, <1>12, <2>1 DEF RequestTyped, RequestKnows
<1>13. ASSUME Serialize(c), pc'[c] # "idle"
       PROVE  RequestTyped(c) /\ RequestKnows(c)'
  <2>1. /\ pc[c] \in {"serialize", "serialize_joined"} /\ at[c] # until[c]
        /\ pc'[c] = "read" /\ at'[c] = at[c] + 1 /\ until'[c] = until[c]
        /\ command'[c] = command[c] /\ response'[c] = response[c] /\ results' = results
    BY <1>2, <1>13 DEF Serialize, Answer, Goto
  <2>2. at[c] <= until[c] /\ at[c] \in DOMAIN results /\ until[c] \in DOMAIN results
    BY <1>4, <1>5, <2>1 DEF RequestKnows
  <2>3. QED BY <1>2, <2>1, <2>2 DEF RequestTyped, RequestKnows
<1>14. RequestTyped(c) /\ RequestKnows(c)'
  BY <1>6, <1>7, <1>8, <1>9, <1>10, <1>11, <1>12, <1>13 DEF RequestStep
<1>15. QED BY <1>1, <1>3, <1>14, OneRequestMoves

LEMMA NextInv == Inv /\ [Next]_vars => Inv'
<1> SUFFICES ASSUME Inv, [Next]_vars PROVE Inv'
  OBVIOUS
<1>1. ResultsGrow
  BY NextGrows
<1>2. ASSUME NEW c \in Posters, NEW cmd \in Commands, Post(c, cmd)
      PROVE  Inv'
  <2>1. c \in Clients /\ OnlyMoves(c) /\ RequestTyped(c) /\ RequestKnows(c)'
    BY <1>2 DEF Post, Goto, Inv, TypeOK, Clients, OnlyMoves, RequestTyped, RequestKnows
  <2>2. QED BY <1>1, <2>1, OneRequestMoves
<1>3. ASSUME NEW c \in Posters, NEW i \in DOMAIN results, Get(c, i)
      PROVE  Inv'
  <2>1. c \in Clients /\ i \in Nat /\ results' = results
    BY <1>3 DEF Get, Inv, TypeOK, Clients
  <2>2. /\ pc'[c] \in {"join", "read"} /\ at'[c] = i /\ until'[c] = i
        /\ command'[c] = command[c] /\ response'[c] = response[c]
    BY <1>3, <2>1 DEF Get, Inv, TypeOK
  <2>3. OnlyMoves(c)
    BY <1>3, <2>1 DEF Get, Inv, TypeOK, OnlyMoves
  <2>4. RequestTyped(c) /\ RequestKnows(c)'
    BY <2>1, <2>2 DEF Inv, TypeOK, RequestTyped, RequestKnows
  <2>5. QED BY <1>1, <2>1, <2>3, <2>4, OneRequestMoves
<1>4. ASSUME NEW c \in Pollers, List(c)
      PROVE  Inv'
  <2>1. c \in Clients /\ OnlyMoves(c) /\ RequestTyped(c) /\ RequestKnows(c)'
    BY <1>4 DEF List, Goto, Inv, TypeOK, Clients, OnlyMoves, RequestTyped, RequestKnows
  <2>2. QED BY <1>1, <2>1, OneRequestMoves
<1>5. ASSUME UNCHANGED <<pc, command, at, until, response>>
      PROVE  Inv'
  <2>1. \A d \in Clients :
          /\ RequestKnows(d)'
          /\ pc[d] \notin {"idle", "refresh", "test", "execute", "list"}
               => at'[d] \in DOMAIN results'
    BY <1>1, <1>5, IdleRequestKnows
  <2>2. TypeOK'
    BY <1>1, <1>5, <2>1 DEF Inv, TypeOK, ResultsGrow
  <2>3. QED BY <1>1, <2>1, <2>2 DEF Inv, ResultsGrow
<1>6. QED
  BY <1>2, <1>3, <1>4, <1>5, RequestStepInv DEF Next, TimePasses, vars

THEOREM Invariance == Spec => []Inv
  BY InitInv, NextInv, PTL DEF Spec

-----------------------------------------------------------------------------
(* What follows *)

(* Every reachable state is well typed, and a request works on a result    *)
(* that is in command_results.                                             *)
THEOREM TypeCorrect == Spec => []TypeOK
<1>1. Inv => TypeOK
  BY DEF Inv
<1>2. QED BY <1>1, Invariance, PTL

(* However many requests run the last command and read the results at the  *)
(* same time, a response that says SUCCEEDED carries the result and one    *)
(* that says FAILED the error.                                             *)
THEOREM ResponsesComplete == Spec => []ResponseIsComplete
<1>1. Inv => ResponseIsComplete
  BY DEF Inv, RequestKnows, ResponseIsComplete
<1>2. QED BY <1>1, Invariance, PTL

(* Running a command twice does not change what was seen of it, and        *)
(* command_results only ever grows.                                        *)
THEOREM ResultsAreFinal == Spec => DoneIsFinal
<1> DEFINE Keeps == \A i \in DOMAIN results :
                      /\ i \in DOMAIN results'
                      /\ results'[i].command = results[i].command
                      /\ is_done(i) => results'[i] = results[i]
<1>1. Inv /\ [Next]_vars => [Keeps]_vars
  BY NextGrows DEF ResultsGrow, Grows, is_done
<1>2. QED BY <1>1, Invariance, PTL DEF Spec, DoneIsFinal

(* All results are done while a command is executed, if no other client    *)
(* executes commands.                                                      *)
Alone ==
  /\ OnlyLastRuns
  /\ \A c \in Posters : pc[c] = "execute" => \A i \in DOMAIN results : is_done(i)

LEMMA NextAlone ==
  ASSUME \A c, d \in Posters : c = d, Inv, Inv', Alone, [Next]_vars
  PROVE  Alone'
<1> USE DEF is_done
<1>1. ResultsGrow /\ Len(results) \in Nat /\ DOMAIN results = 1 .. Len(results)
  BY NextGrows DEF Inv, TypeOK
<1>2. ASSUME NEW c \in Clients, Record(c)
      PROVE  Alone'
  <2>1. c \in Posters /\ \A i \in DOMAIN results : is_done(i)
    BY <1>2 DEF Record, Inv, RequestKnows, Alone
  <2>2. /\ DOMAIN results' = 1 .. Len(results) + 1 /\ Len(results') = Len(results) + 1
        /\ \A i \in DOMAIN results : results'[i].command_status # "RUNNING"
    BY <1>1, <1>2, <2>1, RecordGrows DEF ResultsGrow, Grows
  <2>3. \A d \in Posters : pc'[d] # "execute"
    BY <1>2, <2>1 DEF Record, Inv, TypeOK
  <2>4. QED BY <1>1, <2>2, <2>3 DEF Alone, OnlyLastRuns
<1>3. ASSUME Len(results') = Len(results)
      PROVE  Alone'
  <2>1. DOMAIN results' = DOMAIN results
    BY <1>1, <1>3 DEF ResultsGrow
  <2>2. \A i \in DOMAIN results : is_done(i) => is_done(i)'
    BY <1>1 DEF ResultsGrow, Grows
  <2>3. \A c \in Posters : pc'[c] = "execute" =>
          pc[c] = "execute" \/ (results # << >> => is_done(Len(results)))
    <3>1. pc \in [Clients -> {"idle", "refresh", "run", "finish", "test",
            "execute", "join", "joined", "list", "read", "serialize",
            "serialize_joined"}]
      BY DEF Inv, TypeOK
    <3>2. ASSUME NEW d \in Clients, RequestStep(d), ~Accept(d)
          PROVE  \A c \in Clients : pc'[c] = "execute" => pc[c] = "execute"
      BY <3>1, <3>2 DEF RequestStep, RefreshLast, Run, Finish, Refuse,
         RaiseInvalidContent, Record, Join, ListResults, ReadStatus, Serialize,
         Goto, Answer, AfterRefresh
    <3>3. ASSUME NEW d \in Clients, Accept(d)
          PROVE  results # << >> => is_done(Len(results))
      BY <3>3 DEF Accept
    <3>4. ASSUME NEW d \in Clients,
                 (\E cmd \in Commands : Post(d, cmd))
                   \/ (\E i \in DOMAIN results : Get(d, i)) \/ List(d)
          PROVE  \A c \in Clients : pc'[c] = "execute" => pc[c] = "execute"
      BY <3>1, <3>4 DEF Post, Get, List, Goto
    <3>5. ASSUME UNCHANGED pc
          PROVE  \A c \in Clients : pc'[c] = "execute" => pc[c] = "execute"
      BY <3>5
    <3>6. QED
      BY <3>2, <3>3, <3>4, <3>5 DEF Next, Clients, TimePasses, vars
  <2>4. \A c \in Posters : pc'[c] = "execute" => \A i \in DOMAIN results : is_done(i)
    BY <1>1, <2>3 DEF Alone, OnlyLastRuns
  <2>5. QED BY <1>1, <1>3, <2>1, <2>2, <2>4 DEF Alone, OnlyLastRuns
<1>4. Len(results') = Len(results) \/ \E c \in Clients : Record(c)
  <2>1. CASE \E c \in Clients : Run(c) \/ Finish(c)
    BY <2>1 DEF Run, Finish, Inv, TypeOK
  <2>2. CASE \E i \in DOMAIN results : TimePasses(i)
    BY <2>2 DEF TimePasses, Inv, TypeOK
  <2>3. QED
    BY <2>1, <2>2 DEF Next, RequestStep, RefreshLast, Refuse, Accept,
       RaiseInvalidContent, Join, ListResults, ReadStatus, Serialize, Post, Get,
       List, vars
<1>5. QED BY <1>2, <1>3, <1>4

(* One client that executes commands never leaves one RUNNING behind,      *)
(* whatever the clients that poll do meanwhile.                            *)
THEOREM NoCommandForgotten ==
  ASSUME \A c, d \in Posters : c = d
  PROVE  Spec => []OnlyLastRuns
<1>1. Init => Alone
  BY DEF Init, Alone, OnlyLastRuns, Clients
<1>2. Inv /\ Inv' /\ Alone /\ [Next]_vars => Alone'
  BY NextAlone
<1>3. Alone => OnlyLastRuns
  BY DEF Alone
<1>4. QED BY <1>1, <1>2, <1>3, Invariance, PTL DEF Spec
-----------------------------------------------------------------------------
(* The results implement CommandLog *)

(* A result comes out as its command says, and while it is RUNNING run can *)
(* only have set what it will come out as.                                 *)
Succeeds == {"done", "later"}

Fits(r) ==
  /\ r.command_result => r.command \in Succeeds
  /\ r.command_error # "none" =>
       /\ r.command \notin Succeeds
       /\ r.command_error = IF r.command = "raises" THEN "raw" ELSE "rest"
  /\ r.command_status # "RUNNING" =>
       IF r.command \in Succeeds
       THEN r.command_status = "SUCCEEDED" /\ r.command_result
       ELSE r.command_status = "FAILED" /\ r.command_error # "none"

AllFit == \A i \in DOMAIN results : Fits(results[i])

(* A result that is done is seen with the outcome of its command. *)
LEMMA OutcomeSeen ==
  ASSUME NEW r \in Results, Fits(r), r.command_status # "RUNNING"
  PROVE  Seen(r) = [command |-> r.command, time_reached |-> r.time_reached,
                    outcome |-> Outcome[r.command]]
<1> DEFINE o == [command_status |-> r.command_status,
                 command_result |-> r.command_result,
                 command_error  |-> r.command_error]
<1>1. /\ r.command \in {"done", "raises", "later", "fails", "noext"}
      /\ r.command_result \in BOOLEAN
  BY RecordedIs DEF Results
<1>2. CASE r.command \in Succeeds
  <2>1. /\ r.command_status = "SUCCEEDED" /\ r.command_result = TRUE
        /\ r.command_error = "none"
    BY <1>1, <1>2 DEF Fits
  <2>2. Outcome[r.command] = [command_status |-> "SUCCEEDED", command_result |-> TRUE,
                              command_error  |-> "none"]
    BY <1>1, <1>2, RecordedIs DEF Outcome, Succeeds
  <2>3. o = Outcome[r.command]
    BY <2>1, <2>2
  <2>4. QED BY <2>3 DEF Seen
<1>3. CASE r.command \notin Succeeds
  <2>1. /\ r.command_status = "FAILED" /\ r.command_result = FALSE
        /\ r.command_error = IF r.command = "raises" THEN "raw" ELSE "rest"
    BY <1>1, <1>3 DEF Fits
  <2>2. Outcome[r.command] =
          [command_status |-> "FAILED", command_result |-> FALSE,
           command_error  |-> IF r.command = "raises" THEN "raw" ELSE "rest"]
    <3> DEFINE error == CASE r.command = "raises" -> "raw"
                          [] r.command \in {"noext", "fails"} -> "rest"
                          [] OTHER -> "none"
    <3>1. r.command \in Recorded /\ r.command \notin {"done", "later"}
      BY <1>1, <1>3, RecordedIs DEF Succeeds
    <3>2. error = IF r.command = "raises" THEN "raw" ELSE "rest"
      BY <1>1, <3>1
    <3>3. Outcome[r.command] = [command_status |-> "FAILED", command_result |-> FALSE,
                                command_error |-> error]
      <4>1. (r.command \in {"done", "later"}) = FALSE
        BY <3>1
      <4> HIDE DEF error
      <4>2. QED BY <3>1, <4>1 DEF Outcome, error
    <3>4. QED BY <3>2, <3>3
  <2>3. o = Outcome[r.command]
    BY <2>1, <2>2
  <2>4. QED BY <2>3 DEF Seen
<1>4. QED BY <1>2, <1>3

(* What run and the setting of the status write. *)
LEMMA RunWrites ==
  ASSUME Inv, AllFit, NEW c \in Clients, Run(c) \/ Finish(c)
  PROVE  /\ at[c] \in DOMAIN results
         /\ results[at[c]].time_reached
         /\ results' = [results EXCEPT ![at[c]] = results'[at[c]]]
         /\ Fits(results'[at[c]])
         /\ Run(c) => results'[at[c]].command_status = results[at[c]].command_status
         /\ Finish(c) => results'[at[c]].command_status # "RUNNING"
<1> DEFINE i == at[c]
<1>1. /\ i \in DOMAIN results /\ results[i] \in Results /\ Fits(results[i])
      /\ results[i].command \in {"later", "fails"} /\ results[i].time_reached
      /\ RequestKnows(c)
  <2>1. pc[c] \in {"run", "finish"} /\ i \in DOMAIN results
    BY DEF Run, Finish, Inv, TypeOK
  <2>2. RequestKnows(c) /\ results[i].command \in {"later", "fails"}
          /\ results[i].time_reached
    BY <2>1 DEF Inv, RequestKnows, Async
  <2>3. QED BY <2>1, <2>2, EveryResult DEF AllFit
<1>2. ASSUME Run(c)
      PROVE  /\ results' = [results EXCEPT ![i] = results'[i]]
             /\ Fits(results'[i])
             /\ results'[i].command_status = results[i].command_status
  <2> DEFINE r == [results[i] EXCEPT
                     !.command_result = @ \/ results[i].command # "fails",
                     !.command_error = IF results[i].command = "fails"
                                       THEN "rest" ELSE @]
  <2>1. results' = [results EXCEPT ![i] = r]
    BY <1>1, <1>2 DEF Run, Fails, Inv, TypeOK
  <2>2. results'[i] = r
    BY <1>1, <2>1
  <2>3. Fits(r) /\ r.command_status = results[i].command_status
    BY <1>1 DEF Fits, Results, Succeeds
  <2>4. QED BY <2>1, <2>2, <2>3
<1>3. ASSUME Finish(c)
      PROVE  /\ results' = [results EXCEPT ![i] = results'[i]]
             /\ Fits(results'[i])
             /\ results'[i].command_status # "RUNNING"
  <2> DEFINE r == [results[i] EXCEPT !.command_status =
                     IF Fails(c) THEN "FAILED" ELSE "SUCCEEDED"]
  <2>1. results' = [results EXCEPT ![i] = r]
    BY <1>1, <1>3 DEF Finish, Inv, TypeOK
  <2>2. results'[i] = r
    BY <1>1, <2>1
  <2>3. IF results[i].command = "fails" THEN results[i].command_error # "none"
                                         ELSE results[i].command_result
    BY <1>1, <1>3 DEF Finish, RequestKnows, Fails
  <2>4. Fits(r) /\ r.command_status # "RUNNING"
    BY <1>1, <2>3 DEF Fits, Results, Fails, Succeeds
  <2>5. QED BY <2>1, <2>2, <2>4
<1>4. QED BY <1>1, <1>2, <1>3

LEMMA TimeWrites ==
  ASSUME Inv, NEW i \in DOMAIN results, TimePasses(i)
  PROVE  /\ results' = [results EXCEPT ![i] = results'[i]]
         /\ results'[i] = [results[i] EXCEPT !.time_reached = TRUE]
         /\ results[i] \in Results
<1>1. results[i] \in Results
  BY EveryResult
<1>2. QED BY <1>1 DEF TimePasses, Inv, TypeOK

(* Which steps write results. *)
LEMMA Writers ==
  ASSUME [Next]_vars
  PROVE  \/ \E c \in Clients : Record(c) \/ Run(c) \/ Finish(c)
         \/ \E i \in DOMAIN results : TimePasses(i)
         \/ UNCHANGED results
  BY DEF Next, RequestStep, RefreshLast, Refuse, Accept, RaiseInvalidContent, Join,
     ListResults, ReadStatus, Serialize, Post, Get, List, vars

LEMMA RecordFits ==
  ASSUME NEW c \in Clients, Record(c)
  PROVE  /\ Fits(NewResult(command[c]))
         /\ Seen(NewResult(command[c])) =
              IF command[c] \in Async THEN Log!Entry(command[c], FALSE, Pending)
              ELSE Log!Entry(command[c], TRUE, Outcome[command[c]])
<1> DEFINE r == NewResult(command[c])
<1>1. command[c] \in {"done", "raises", "later", "fails", "noext"}
  BY RecordedIs DEF Record
<1>2. /\ r.command = command[c]
      /\ r.time_reached = IF command[c] \in Async THEN FALSE ELSE TRUE
      /\ r.command_status = "RUNNING" <=> command[c] \in Async
      /\ Fits(r)
  BY <1>1 DEF NewResult, Fits, Succeeds, Async
<1>3. r \in Results
  BY <1>1, RecordedIs DEF NewResult, Results, Statuses, Async
<1> HIDE DEF r
<1>4. CASE command[c] \in Async
  BY <1>2, <1>4 DEF Seen, r, Log!Entry
<1>5. CASE command[c] \notin Async
  BY <1>2, <1>3, <1>5, OutcomeSeen DEF r, Log!Entry
<1>6. QED BY <1>2, <1>4, <1>5 DEF r

LEMMA NextFit ==
  ASSUME Inv, AllFit, [Next]_vars
  PROVE  AllFit'
<1>1. results \in Seq(Results)
  BY DEF Inv, TypeOK
<1>2. ASSUME NEW i \in DOMAIN results, results' = [results EXCEPT ![i] = results'[i]],
             Fits(results'[i])
      PROVE  AllFit'
  BY <1>2 DEF AllFit
<1>3. ASSUME NEW c \in Clients, Record(c)
      PROVE  AllFit'
  <2>1. /\ DOMAIN results' = 1 .. Len(results) + 1
        /\ results'[Len(results) + 1] = NewResult(command[c])
        /\ Fits(NewResult(command[c]))
    BY <1>3, RecordGrows, RecordFits
  <2>2. \A i \in DOMAIN results : results'[i] = results[i]
    BY <1>1, <1>3, RecordGrows DEF Record, ResultsGrow
  <2>3. \A i \in DOMAIN results' : i \in DOMAIN results \/ i = Len(results) + 1
    BY <1>1, <2>1
  <2>4. QED BY <2>1, <2>2, <2>3 DEF AllFit
<1>4. ASSUME NEW c \in Clients, Run(c) \/ Finish(c)
      PROVE  AllFit'
  BY <1>2, <1>4, RunWrites
<1>5. ASSUME NEW i \in DOMAIN results, TimePasses(i)
      PROVE  AllFit'
  <2>1. /\ results'[i].command = results[i].command
        /\ results'[i].command_status = results[i].command_status
        /\ results'[i].command_result = results[i].command_result
        /\ results'[i].command_error = results[i].command_error
    BY <1>5, TimeWrites DEF Results
  <2>2. Fits(results'[i])
    BY <2>1 DEF AllFit, Fits
  <2>3. QED BY <1>2, <1>5, <2>2, TimeWrites
<1>6. ASSUME UNCHANGED results
      PROVE  AllFit'
  BY <1>6 DEF AllFit
<1>7. QED BY <1>3, <1>4, <1>5, <1>6, Writers

(* What CommandLog sees of a result that is written. *)
LEMMA WriteSeen ==
  ASSUME NEW i \in DOMAIN results, results' = [results EXCEPT ![i] = results'[i]]
  PROVE  [j \in DOMAIN results |-> Seen(results[j])]' =
           [[j \in DOMAIN results |-> Seen(results[j])] EXCEPT ![i] = Seen(results'[i])]
<1>1. DOMAIN results' = DOMAIN results
  OBVIOUS
<1>2. \A j \in DOMAIN results : results'[j] = IF j = i THEN results'[i] ELSE results[j]
  OBVIOUS
<1>3. QED BY <1>1, <1>2

(* A request that records a command adds it, every other step is one of the *)
(* log or none.                                                             *)
LEMMA LogSteps ==
  ASSUME Inv, AllFit, AllFit', [Next]_vars
  PROVE  \/ \E c \in Clients : Record(c) /\ command[c] \in Recorded /\ Log!Add(command[c])
         \/ Log!Progress
         \/ UNCHANGED [i \in DOMAIN results |-> Seen(results[i])]
<1> DEFINE log == [i \in DOMAIN results |-> Seen(results[i])]
<1>1. results \in Seq(Results) /\ \A i \in DOMAIN results : log[i] = Seen(results[i])
  BY DEF Inv, TypeOK
<1>2. ASSUME NEW c \in Clients, Record(c)
      PROVE  command[c] \in Recorded /\ Log!Add(command[c])
  <2>1. command[c] \in Recorded
    BY <1>2 DEF Record
  <2>2. log' = Append(log, Seen(NewResult(command[c])))
    <3>1. /\ DOMAIN results' = 1 .. Len(results) + 1
          /\ results'[Len(results) + 1] = NewResult(command[c])
          /\ \A i \in DOMAIN results : results'[i] = results[i]
      BY <1>1, <1>2, RecordGrows DEF Record
    <3>2. /\ log \in Seq({Seen(r) : r \in Results}) /\ Len(log) = Len(results)
          /\ DOMAIN log = 1 .. Len(results) /\ Len(results) \in Nat
      BY <1>1
    <3>3. /\ log' = [i \in 1 .. Len(results) + 1 |->
                       IF i = Len(results) + 1 THEN Seen(NewResult(command[c]))
                       ELSE log[i]]
      BY <1>1, <3>1, <3>2
    <3> HIDE DEF log
    <3>4. QED BY <3>2, <3>3
  <2>3. QED BY <1>2, <2>1, <2>2, RecordFits DEF Log!Add
<1>3. ASSUME NEW c \in Clients, Run(c)
      PROVE  UNCHANGED log
  <2>1. /\ at[c] \in DOMAIN results
        /\ results' = [results EXCEPT ![at[c]] = results'[at[c]]]
        /\ Grows(results[at[c]], results'[at[c]])
        /\ results'[at[c]].command_status = results[at[c]].command_status
        /\ results[at[c]].time_reached = results'[at[c]].time_reached
    <3>1. results'[at[c]] \in Results /\ results[at[c]] \in Results
      BY <1>1, <1>3, RunWrites, RunGrows DEF ResultsGrow
    <3>2. QED BY <1>3, <3>1, RunWrites, RunGrows DEF ResultsGrow, Grows, Results
  <2>2. Seen(results'[at[c]]) = Seen(results[at[c]])
    BY <2>1 DEF Seen, Grows
  <2>3. QED BY <2>1, <2>2, WriteSeen
<1>4. ASSUME NEW c \in Clients, Finish(c)
      PROVE  Log!Progress \/ UNCHANGED log
  <2> DEFINE i == at[c]
  <2>1. /\ i \in DOMAIN results /\ results[i].time_reached
        /\ results' = [results EXCEPT ![i] = results'[i]]
        /\ Grows(results[i], results'[i]) /\ Fits(results'[i])
        /\ results'[i].command_status # "RUNNING"
        /\ results[i] \in Results /\ results'[i] \in Results
    BY <1>1, <1>4, RunWrites, FinishGrows DEF ResultsGrow
  <2>2. log' = [log EXCEPT ![i] = Seen(results'[i])]
    BY <2>1, WriteSeen
  <2>3. CASE results[i].command_status # "RUNNING"
    BY <2>1, <2>2, <2>3 DEF Grows
  <2>4. CASE results[i].command_status = "RUNNING"
    <3>1. Seen(results[i]) = [command |-> results[i].command, time_reached |-> TRUE,
                              outcome |-> Pending]
      BY <2>1, <2>4 DEF Seen, Results
    <3>2. Seen(results'[i]) = [command |-> results[i].command, time_reached |-> TRUE,
                               outcome |-> Outcome[results[i].command]]
      <4>1. /\ results'[i].command = results[i].command
            /\ results'[i].time_reached = TRUE
        BY <2>1 DEF Grows, Results
      <4>2. QED BY <2>1, <4>1, OutcomeSeen
    <3>3. log[i] = Seen(results[i])
      BY <1>1, <2>1
    <3>4. /\ log[i].command = results[i].command /\ log[i].outcome = Pending
          /\ log[i].time_reached
      BY <3>1, <3>3
    <3>5. Log!Complete(i)
      BY <2>2, <3>2, <3>4 DEF Log!Complete, Log!Pends, Log!Entry
    <3>6. QED BY <2>1, <3>5 DEF Log!Progress
  <2>5. QED BY <2>3, <2>4
<1>5. ASSUME NEW i \in DOMAIN results, TimePasses(i)
      PROVE  Log!Progress
  <2>1. /\ results' = [results EXCEPT ![i] = results'[i]] /\ results[i] \in Results
        /\ results'[i] = [results[i] EXCEPT !.time_reached = TRUE]
        /\ ~results[i].time_reached
    BY <1>5, TimeWrites DEF TimePasses
  <2>2. /\ results'[i].command = results[i].command
        /\ results'[i].command_status = results[i].command_status
        /\ results'[i].command_result = results[i].command_result
        /\ results'[i].command_error = results[i].command_error
        /\ results'[i].time_reached = TRUE
    BY <2>1 DEF Results
  <2>3. log[i] = Seen(results[i])
    BY <1>1
  <2>4. /\ log[i].command = results[i].command /\ ~log[i].time_reached
        /\ Seen(results'[i]) = [command |-> results[i].command, time_reached |-> TRUE,
                                outcome |-> log[i].outcome]
    <3>1. Seen(results'[i]).outcome = Seen(results[i]).outcome
      BY <2>2 DEF Seen
    <3>2. Seen(results'[i]) = [command |-> results[i].command, time_reached |-> TRUE,
                               outcome |-> Seen(results'[i]).outcome]
      BY <2>2 DEF Seen
    <3>3. Seen(results[i]).command = results[i].command /\ ~Seen(results[i]).time_reached
      BY <2>1 DEF Seen
    <3> HIDE DEF log
    <3>4. QED BY <2>3, <3>1, <3>2, <3>3
  <2>5. Log!TimePasses(i)
    BY <2>1, <2>4, WriteSeen DEF Log!TimePasses, Log!Entry
  <2>6. QED BY <2>5 DEF Log!Progress
<1>6. ASSUME UNCHANGED results
      PROVE  UNCHANGED log
  BY <1>6
<1>7. QED BY <1>2, <1>3, <1>4, <1>5, <1>6, Writers

(* With one client that executes commands the busy test holds until the    *)
(* command is recorded.                                                    *)
LEMMA NextLog ==
  ASSUME Inv, AllFit, AllFit', Alone, [Next]_vars
  PROVE  [Log!Next]_([i \in DOMAIN results |-> Seen(results[i])])
<1>1. ASSUME NEW c \in Clients, Record(c)
      PROVE  \A i \in DOMAIN results : ~Log!Pends(i)
  <2>1. c \in Posters
    BY <1>1 DEF Record, Inv, RequestKnows
  <2>2. \A i \in DOMAIN results : is_done(i)
    BY <1>1, <2>1 DEF Alone, Record
  <2>3. QED BY <2>2 DEF Log!Pends, Seen, Pending, is_done
<1>2. ASSUME NEW c \in Clients, Record(c), command[c] \in Recorded, Log!Add(command[c])
      PROVE  Log!Next
  <2>1. Log!Record(command[c])
    BY <1>1, <1>2 DEF Log!Record
  <2>2. QED BY <1>2, <2>1 DEF Log!Next
<1>3. QED BY <1>2, LogSteps DEF Log!Next

(* However many clients execute commands, and whichever of them pass the   *)
(* busy test together, no command is lost or takes the place of another,   *)
(* and each that finishes comes to its outcome once, all at once and not   *)
(* before its time; only that they are executed one at a time is lost.     *)
THEOREM KeepsLogOfMany == Spec => Log!SpecOfMany
<1>1. Init => Log!Init /\ AllFit
  BY DEF Init, Log!Init, AllFit
<1>2. ASSUME Inv, AllFit, AllFit', [Next]_vars
      PROVE  [Log!Progress \/ \E cmd \in Recorded : Log!Add(cmd)]_(
               [i \in DOMAIN results |-> Seen(results[i])])
  BY <1>2, LogSteps
<1>3. QED
  BY <1>1, <1>2, Invariance, NextInv, NextFit, PTL DEF Spec, Log!SpecOfMany

(* One client that executes commands, and any number that poll, see what   *)
(* CommandLog promises: commands are executed one at a time, and each      *)
(* comes to its outcome once, all at once and not before its time.         *)
THEOREM KeepsLog ==
  ASSUME \A c, d \in Posters : c = d
  PROVE  Spec => LogSpec
<1>1. Init => Log!Init /\ AllFit /\ Alone
  BY DEF Init, Log!Init, AllFit, Alone, OnlyLastRuns, Clients
<1>2. QED
  BY <1>1, Invariance, NextInv, NextAlone, NextFit, NextLog, PTL
     DEF Spec, LogSpec, Log!Spec
=============================================================================
