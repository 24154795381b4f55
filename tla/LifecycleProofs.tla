-------------------------- MODULE LifecycleProofs --------------------------
(***************************************************************************)
(* Proofs about Lifecycle for any number of systems, boots, handlers and   *)
(* heartbeat threads: the program uses the heartbeater as Heartbeater      *)
(* allows, and the notifications of a system that do not overlap keep one  *)
(* agent per system and switch it off.                                     *)
(***************************************************************************)
EXTENDS Lifecycle, HeartbeaterProofs

(* Every step of the program is a step of the heartbeater or none. *)
LEMMA StepOfHeartbeater ==
  ASSUME LifecycleTypeOK, [LifecycleNext]_lifecycle_vars
  PROVE  [Next]_vars
<1> USE LifecycleAssumption
<1>1. ASSUME NEW h \in Handlers, HandlerStep(h)
      PROVE  [Next]_vars
  <2>1. CASE StartHeartbeaters(h)
    BY <2>1 DEF StartHeartbeaters, Next
  <2>2. CASE RequestRemoval(h)
    <3>1. request[h].system \in Systems
      BY <2>2 DEF RequestRemoval, LifecycleTypeOK, Requests
    <3>2. QED BY <2>2, <3>1 DEF RequestRemoval, Next
  <2>3. CASE ~StartHeartbeaters(h) /\ ~RequestRemoval(h)
    BY <1>1, <2>3 DEF HandlerStep, AddBooted, RemoveBooted, RemoveBootedKeyError,
       CheckInitialized, SetApi, StartBoot, RequestRemovalAttributeError
  <2>4. QED BY <2>1, <2>2, <2>3
<1>2. ASSUME NEW h \in Handlers, NEW s \in Systems, ReceiveOn(h, s) \/ ReceiveOff(h, s)
      PROVE  [Next]_vars
  BY <1>2 DEF ReceiveOn, ReceiveOff
<1>3. ASSUME NEW a \in Agents, BootStep(a) \/ TimePasses(a)
      PROVE  [Next]_vars
  BY <1>3 DEF BootStep, LookupFails, ProcessLookupData, LookupDataIncomplete,
              JoinHeartbeater, TimePasses, Next
<1>4. ASSUME NEW t \in Threads, HeartbeatStep(t)
      PROVE  [Next]_vars
  BY <1>4 DEF HeartbeatStep, Next
<1>5. CASE UNCHANGED lifecycle_vars
  BY <1>5 DEF lifecycle_vars
<1>6. QED
  BY <1>1, <1>2, <1>3, <1>4, <1>5 DEF LifecycleNext

LEMMA InitLifecycleTypeOK == LifecycleInit => LifecycleTypeOK
<1> SUFFICES ASSUME LifecycleInit PROVE LifecycleTypeOK
  OBVIOUS
<1>1. TypeOK /\ \A a \in Agents : adding[a] = "out"
  BY InitTypeOK DEF LifecycleInit, Init
<1>2. NoRequest \in Requests /\ NoRequest.system = None
  BY DEF NoRequest, Requests
<1>3. QED
  BY <1>1, <1>2 DEF LifecycleInit, LifecycleTypeOK, HandlerLabels

(* The handler of a notification preserves the types. *)
LEMMA HandlerTypeOK ==
  ASSUME LifecycleTypeOK, TypeOK', NEW h \in Handlers,
         HandlerStep(h) \/ \E s \in Systems : ReceiveOn(h, s) \/ ReceiveOff(h, s)
  PROVE  LifecycleTypeOK'
<1> USE LifecycleAssumption DEF LifecycleTypeOK, HandlerLabels, Requests, NoRequest
<1>1. ASSUME NEW s \in Systems, ReceiveOn(h, s) \/ ReceiveOff(h, s)
      PROVE  LifecycleTypeOK'
  <2>1. PICK power \in {"On", "Off"}, label \in {"add", "remove"} :
          /\ request' = [request EXCEPT ![h] = [power |-> power, system |-> s]]
          /\ hpc' = [hpc EXCEPT ![h] = label]
    BY <1>1 DEF ReceiveOn, ReceiveOff, Goto
  <2>2. /\ overlapped' \in SUBSET Systems
        /\ UNCHANGED <<vars, booted_q, api, logger, boot, agents>>
    BY <1>1 DEF ReceiveOn, ReceiveOff
  <2>3. QED BY <2>1, <2>2 DEF vars
<1>2. CASE AddBooted(h) \/ RemoveBooted(h) \/ CheckInitialized(h) \/ SetApi(h)
  <2>1. request[h].system # None => request[h].system \in Systems
    OBVIOUS
  <2>2. CASE AddBooted(h) \/ RemoveBooted(h)
    BY <2>1, <2>2 DEF AddBooted, RemoveBooted, Goto, vars
  <2>3. CASE CheckInitialized(h) \/ SetApi(h)
    BY <2>3 DEF CheckInitialized, SetApi, Goto, vars
  <2>4. QED BY <1>2, <2>2, <2>3
<1>3. CASE RemoveBootedKeyError(h) \/ RequestRemovalAttributeError(h)
  BY <1>3 DEF RemoveBootedKeyError, RequestRemovalAttributeError, Done, Goto, vars
<1>4. CASE StartHeartbeaters(h)
  BY <1>4 DEF StartHeartbeaters, RunHeartbeaterThreads, Goto
<1>5. CASE StartBoot(h)
  BY <1>5 DEF StartBoot, AgentsOf, Done, Goto, vars
<1>6. CASE RequestRemoval(h)
  BY <1>6 DEF RequestRemoval, RemoveFromHeartbeaterQ, Done, Goto
<1>7. QED
  BY <1>1, <1>2, <1>3, <1>4, <1>5, <1>6 DEF HandlerStep

LEMMA NextLifecycleTypeOK ==
  ASSUME LifecycleTypeOK, [LifecycleNext]_lifecycle_vars
  PROVE  LifecycleTypeOK'
<1> USE LifecycleAssumption, HeartbeaterAssumption
<1>1. TypeOK'
  BY StepOfHeartbeater, NextTypeOK DEF LifecycleTypeOK
<1>2. ASSUME NEW a \in Agents, BootStep(a)
      PROVE  LifecycleTypeOK'
  <2>1. CASE LookupFails(a) \/ ProcessLookupData(a) \/ LookupDataIncomplete(a)
    BY <1>1, <2>1 DEF LookupFails, ProcessLookupData, LookupDataIncomplete,
       LifecycleTypeOK, notification, vars, TypeOK
  <2>2. CASE JoinHeartbeater(a)
    <3>1. \A b \in Agents : b # a => adding'[b] = adding[b]
      BY <2>2 DEF JoinHeartbeater, AddStep, AddToQ, Unmark, UnmarkKeyError, Enqueue,
         LifecycleTypeOK, TypeOK
    <3>2. QED BY <1>1, <2>2, <3>1 DEF JoinHeartbeater, LifecycleTypeOK, lifecycle
  <2>3. QED BY <1>2, <2>1, <2>2 DEF BootStep
<1>3. ASSUME NEW a \in Agents, TimePasses(a)
      PROVE  LifecycleTypeOK'
  BY <1>1, <1>3 DEF TimePasses, Tick, LifecycleTypeOK, lifecycle
<1>4. ASSUME NEW t \in Threads, HeartbeatStep(t)
      PROVE  LifecycleTypeOK'
  <2>1. adding' = adding
    BY <1>4 DEF HeartbeatStep, ThreadStep, PopLeft, CheckRemoved, Drop, DropKeyError,
       Die, HeartbeatExpected, PrintQ, PrintQRuntimeError, HeartbeatAnswered,
       HeartbeatNotFound, Requeue
  <2>2. QED BY <1>1, <1>4, <2>1 DEF HeartbeatStep, LifecycleTypeOK, lifecycle
<1>5. CASE UNCHANGED lifecycle_vars
  BY <1>1, <1>5 DEF lifecycle_vars, lifecycle, vars, LifecycleTypeOK
<1>6. QED
  BY <1>1, <1>2, <1>3, <1>4, <1>5, HandlerTypeOK DEF LifecycleNext

(* Every reachable state of the program is well typed. *)
THEOREM LifecycleTypeCorrect == LifecycleSpec => []LifecycleTypeOK
  BY InitLifecycleTypeOK, NextLifecycleTypeOK, PTL DEF LifecycleSpec

(* All that is proved of the heartbeater driven by any callers holds of it *)
(* in the program: its callers call it as Heartbeater assumes.             *)
LEMMA ProgramUsesHeartbeater == LifecycleSpec => Spec
<1>1. LifecycleInit => Init
  BY DEF LifecycleInit
<1>2. QED
  BY <1>1, InitLifecycleTypeOK, NextLifecycleTypeOK, StepOfHeartbeater, PTL
     DEF LifecycleSpec, Spec

(* In the program, whatever Flask threads and boots do: no two heartbeat   *)
(* threads carry the same agent, *)
THEOREM ProgramSingleCarrier == LifecycleSpec => []SingleCarrier
  BY ProgramUsesHeartbeater, AgentInOnePlace

(* a mark that was seen vanishes only if a second agent was added for its  *)
(* system, *)
THEOREM ProgramMarksAreSafe == LifecycleSpec => []MarkStolenOnlyByTwin
  BY ProgramUsesHeartbeater, MarksAreSafe

(* agents are served in the order of the deque, *)
THEOREM ProgramServesInOrder == LifecycleSpec => NoOvertaking
  BY ProgramUsesHeartbeater, ServedInOrder

(* and the pool of agents is the abstract HeartbeatPool. *)
THEOREM ProgramImplementsPool == LifecycleSpec => PoolSpec
  BY ProgramUsesHeartbeater, ImplementsPool

-----------------------------------------------------------------------------
(* What a step of the heartbeater does to who is in service, and to marks. *)

LEMMA ServiceShrinks ==
  ASSUME TypeOK, SingleCarrier, [Next]_vars, NEW a \in Agents, InService(a)'
  PROVE  InService(a) \/ adding[a] = "append"
<1>1. TypeOK' /\ SingleCarrier'
  BY NextTypeOK, NextSingleCarrier
<1>2. adding'[a] = "in"
  BY <1>1, HeartbeaterAssumption
     DEF InService, InQueue, Held, Range, SingleCarrier
<1>3. status'[a] \in {"beating", "idle"}
  BY <1>2 DEF status
<1>4. status[a] \in {"beating", "idle", "new"}
  BY <1>3, NextRefines DEF Pool!Next, Pool!vars, Pool!Admit, Pool!Beat, Pool!Answered,
     Pool!NotFound, Pool!CancelMark, Pool!Leave, Pool!Lose, Pool!Mark, Pool!Move, status
<1>5. CASE status[a] \in {"beating", "idle"}
  BY <1>5 DEF status, Beating, InService, Held
<1>6. CASE status[a] = "new"
  <2>1. adding[a] # "in"
    BY <1>6 DEF status, Beating
  <2>2. QED
    BY <1>2, <2>1
       DEF Next, ThreadStep, PopLeft, CheckRemoved, Drop, DropKeyError, Die,
           HeartbeatExpected, PrintQ, PrintQRuntimeError, HeartbeatAnswered,
           HeartbeatNotFound, Requeue, RunHeartbeaterThreads, AddStep, AddToQ,
           Unmark, UnmarkKeyError, Enqueue, Tick, RemoveFromHeartbeaterQ, vars,
           TypeOK
<1>7. QED BY <1>4, <1>5, <1>6

(* A mark is used up by a boot that cancels it or by an agent that leaves. *)
LEMMA MarkUsedUp ==
  ASSUME TypeOK, SingleCarrier, [Next]_vars, NEW s \in remove_from_q,
         s \notin remove_from_q'
  PROVE  \E a \in Agents :
           /\ SystemOf[a] = s
           /\ \/ Unmark(a)
              \/ /\ InService(a) /\ ~InService(a)'
                 /\ \E t \in Threads : Drop(t) /\ entry[t] = a
<1> USE HeartbeaterAssumption
<1>1. PICK a \in Agents :
        /\ SystemOf[a] = s
        /\ Unmark(a) \/ \E t \in Threads : Drop(t) /\ entry[t] = a
  <2>1. \A t \in Threads : Drop(t) => entry[t] \in Agents
    BY DEF Drop, TypeOK, Carrying
  <2>2. QED
    BY <2>1
       DEF Next, ThreadStep, PopLeft, CheckRemoved, Drop, DropKeyError, Die,
           HeartbeatExpected, PrintQ, PrintQRuntimeError, HeartbeatAnswered,
           HeartbeatNotFound, Requeue, RunHeartbeaterThreads, AddStep, AddToQ,
           Unmark, UnmarkKeyError, Enqueue, Tick, RemoveFromHeartbeaterQ, vars
<1>2. ASSUME NEW t \in Threads, Drop(t), entry[t] = a
      PROVE  InService(a) /\ ~InService(a)'
  <2>1. /\ \A u \in Threads : entry[u] = a => u = t
        /\ \A i \in DOMAIN queue : queue[i] # a
    BY <1>2 DEF SingleCarrier
  <2>2. /\ queue' = queue
        /\ \A u \in Threads : entry'[u] = IF u = t THEN None ELSE entry[u]
    BY <1>2 DEF Drop, TypeOK
  <2>3. ~InQueue(a)' /\ ~Held(a)'
    BY <2>1, <2>2 DEF InQueue, Held, Range
  <2>4. QED BY <1>2, <2>3 DEF InService, Held
<1>3. QED BY <1>1, <1>2

-----------------------------------------------------------------------------
(* The inductive invariant.  Of a system whose notifications never         *)
(* overlapped: *)

(* one handler at most works for it, and beside one that does there are    *)
(* only power-offs that came too late;                                     *)
OneHandler(s) ==
  \A h, k \in Handlers :
    request[h].system = s /\ hpc[h] # "remove" /\ request[k].system = s
      => h = k \/ (request[h].power = "Off" /\ hpc[k] = "remove")

(* when it is switched on nothing of it is left; *)
BootsFromNothing(s) ==
  \A h \in Handlers : Handles(h, s, "On") =>
    /\ \A a \in AgentsOf(s) : ~Live(a)
    /\ hpc[h] # "add" => s \in booted_q

(* when it is switched off its boot is over, and one power-off removes it; *)
StopsTheRunning(s) ==
  \A h \in Handlers : Handles(h, s, "Off") =>
    /\ logger
    /\ \A a \in AgentsOf(s) : ~Booting(a)
    /\ hpc[h] # "remove" => s \notin booted_q

(* one agent of it lives; *)
OneLive(s) == \A a, b \in AgentsOf(s) : Live(a) /\ Live(b) => a = b

(* after it was switched off the agent in service is marked; *)
OffIsMarked(s) ==
  s \notin booted_q /\ ~Working(s) =>
    \A a \in AgentsOf(s) : ~Booting(a) /\ (InService(a) => s \in remove_from_q)

(* and marks that were seen are there. *)
MarksStay(s) ==
  /\ \A t \in Threads :
       pc[t] = "drop" /\ SystemOf[entry[t]] = s => s \in remove_from_q
  /\ \A a \in AgentsOf(s) : adding[a] = "unmark" => s \in remove_from_q

Alone(s) ==
  /\ OneHandler(s)
  /\ BootsFromNothing(s)
  /\ StopsTheRunning(s)
  /\ OneLive(s)
  /\ OffIsMarked(s)
  /\ MarksStay(s)

PowerOfLabel ==
  \A h \in Handlers :
    /\ hpc[h] = "remove" => request[h].power = "Off"
    /\ hpc[h] = "add" => request[h].power = "On"

(* A system that was booted had the classes initialised, or is about to.   *)
ApiIsSet ==
  /\ \A s \in booted_q :
       \/ api
       \/ \E h \in Handlers : /\ request[h].system = s
                              /\ hpc[h] \in {"hasattr", "initialize"}
  /\ \A h \in Handlers : hpc[h] \in {"threads", "act"} => api

IInv ==
  /\ LifecycleTypeOK
  /\ SingleCarrier
  /\ PowerOfLabel
  /\ ApiIsSet
  /\ \A s \in Systems \ overlapped : Alone(s)

LEMMA InitIInv == LifecycleInit => IInv
<1> SUFFICES ASSUME LifecycleInit PROVE IInv
  OBVIOUS
<1>1. LifecycleTypeOK /\ SingleCarrier
  BY InitLifecycleTypeOK, InitSingleCarrier DEF LifecycleInit
<1>2. \A h \in Handlers : request[h].system = None /\ hpc[h] = "idle"
  BY DEF LifecycleInit, NoRequest
<1>3. \A a \in Agents : ~Live(a) /\ ~Booting(a) /\ adding[a] = "out"
  <2>1. \A a \in Agents : ~InService(a)
    BY HeartbeaterAssumption
       DEF LifecycleInit, Init, InService, InQueue, Held, Range
  <2>2. QED BY <2>1 DEF LifecycleInit, Init, Live, Booting
<1>4. \A t \in Threads : pc[t] # "drop"
  BY DEF LifecycleInit, Init
<1>5. ASSUME NEW s \in Systems
      PROVE  Alone(s)
  <2>1. \A h \in Handlers : request[h].system # s
    BY <1>2, LifecycleAssumption
  <2>2. \A a \in AgentsOf(s) : ~Live(a) /\ ~Booting(a) /\ adding[a] = "out"
    BY <1>3 DEF AgentsOf
  <2>3. OneHandler(s) /\ BootsFromNothing(s) /\ StopsTheRunning(s)
    BY <2>1 DEF OneHandler, BootsFromNothing, StopsTheRunning, Handles
  <2>4. OneLive(s) /\ OffIsMarked(s) /\ MarksStay(s)
    BY <1>4, <2>2 DEF OneLive, OffIsMarked, MarksStay, Live
  <2>5. QED BY <2>3, <2>4 DEF Alone
<1>6. PowerOfLabel /\ ApiIsSet
  BY <1>2 DEF LifecycleInit, PowerOfLabel, ApiIsSet
<1>7. QED BY <1>1, <1>5, <1>6 DEF IInv

(* Only StartBoot adds to the agents that boot or live. *)
LEMMA LiveShrinks ==
  ASSUME LifecycleTypeOK, SingleCarrier, [LifecycleNext]_lifecycle_vars,
         NEW a \in Agents
  PROVE  /\ InService(a)' => Live(a)
         /\ (~\E h \in Handlers : StartBoot(h))
              => (Booting(a)' => Booting(a)) /\ (Live(a)' => Live(a))
<1>1. [Next]_vars /\ TypeOK
  BY StepOfHeartbeater DEF LifecycleTypeOK
<1>2. InService(a)' => Live(a)
  <2>1. adding[a] = "append" => Booting(a)
    BY DEF LifecycleTypeOK, Booting
  <2>2. QED BY <1>1, <2>1, ServiceShrinks DEF Live
<1>3. ASSUME ~\E h \in Handlers : StartBoot(h), Booting(a)'
      PROVE  Booting(a)
  <2>1. boot[a] \in {"asleep", "registered"}
    BY <1>3 DEF Booting, LifecycleNext, HandlerStep, ReceiveOn, ReceiveOff, AddBooted,
       RemoveBooted, RemoveBootedKeyError, CheckInitialized, SetApi, StartHeartbeaters,
       RequestRemoval, RequestRemovalAttributeError, BootStep, LookupFails,
       ProcessLookupData, LookupDataIncomplete, JoinHeartbeater, HeartbeatStep,
       TimePasses, lifecycle_vars, lifecycle, LifecycleTypeOK
  <2>2. adding[a] \notin {"in", "failed"}
    BY <1>1, <1>3, MarkSeen DEF Booting
  <2>3. QED BY <2>1, <2>2 DEF Booting
<1>4. QED BY <1>2, <1>3 DEF Live

(* A boot starts for an agent that neither boots nor lives, and nothing    *)
(* else changes. *)
LEMMA BootStarts ==
  ASSUME LifecycleTypeOK, SingleCarrier, NEW h \in Handlers, StartBoot(h)
  PROVE  \E a \in AgentsOf(request[h].system) :
           \A b \in Agents \ {a} : /\ Booting(b)' <=> Booting(b)
                                   /\ Live(b)' <=> Live(b)
<1>1. PICK a \in AgentsOf(request[h].system) : boot' = [boot EXCEPT ![a] = "asleep"]
  BY DEF StartBoot
<1>2. \A b \in Agents \ {a} : boot'[b] = boot[b]
  BY <1>1 DEF LifecycleTypeOK
<1>3. QED
  BY <1>1, <1>2 DEF StartBoot, Booting, Live, InService, InQueue, Held, vars

LEMMA BusyMeans ==
  ASSUME LifecycleTypeOK, NEW s \in Systems
  PROVE  /\ Busy(s) <=> \E h \in Handlers : request[h].system = s
         /\ Working(s) => Busy(s)
  BY LifecycleAssumption DEF Busy, Working, LifecycleTypeOK

(* A seen mark is not used up by another: that would be a second live      *)
(* agent of the system.                                                    *)
LEMMA MarksStayStep ==
  ASSUME LifecycleTypeOK, SingleCarrier, [LifecycleNext]_lifecycle_vars,
         NEW s \in Systems, OneLive(s), MarksStay(s)
  PROVE  MarksStay(s)'
<1> USE HeartbeaterAssumption
<1>1. [Next]_vars /\ TypeOK
  BY StepOfHeartbeater DEF LifecycleTypeOK
<1>2. \A a \in Agents : adding[a] \in {"unmark", "append"} => Live(a)
  BY DEF LifecycleTypeOK, Live, Booting
<1>3. \A t \in Threads : pc[t] = "drop" =>
        entry[t] \in Agents /\ Live(entry[t]) /\ adding[entry[t]] = "in"
  BY <1>1 DEF TypeOK, Carrying, Live, InService, Held, SingleCarrier
<1>4. ASSUME s \in remove_from_q, s \notin remove_from_q'
      PROVE  /\ \A t \in Threads :
                  pc[t] = "drop" /\ pc'[t] = "drop" => SystemOf[entry[t]] # s
             /\ \A a \in AgentsOf(s) : adding[a] = "unmark" => adding'[a] # "unmark"
  <2>1. PICK b \in AgentsOf(s) :
          Unmark(b) \/ \E u \in Threads : Drop(u) /\ entry[u] = b
    BY <1>1, <1>4, MarkUsedUp DEF AgentsOf
  <2>2. Live(b)
    BY <1>2, <1>3, <2>1 DEF Unmark, Drop, AgentsOf
  <2>3. ASSUME NEW t \in Threads, pc[t] = "drop", pc'[t] = "drop",
               SystemOf[entry[t]] = s
        PROVE  FALSE
    <3>1. entry[t] = b
      BY <1>3, <2>2, <2>3 DEF OneLive, AgentsOf
    <3>2. CASE Unmark(b)
      BY <1>3, <2>3, <3>1, <3>2 DEF Unmark
    <3>3. ASSUME NEW u \in Threads, Drop(u), entry[u] = b
          PROVE  FALSE
      <4>1. u = t
        BY <1>3, <2>3, <3>1, <3>3 DEF SingleCarrier
      <4>2. QED BY <1>1, <2>3, <3>3, <4>1 DEF Drop, TypeOK
    <3>4. QED BY <2>1, <3>2, <3>3
  <2>4. ASSUME NEW a \in AgentsOf(s), adding[a] = "unmark", adding'[a] = "unmark"
        PROVE  FALSE
    <3>1. a = b
      BY <1>2, <2>2, <2>4 DEF OneLive, AgentsOf
    <3>2. CASE Unmark(b)
      BY <1>1, <2>4, <3>1, <3>2 DEF Unmark, TypeOK, AgentsOf
    <3>3. ASSUME NEW u \in Threads, Drop(u), entry[u] = b
          PROVE  FALSE
      BY <1>3, <2>4, <3>1, <3>3 DEF Drop
    <3>4. QED BY <2>1, <3>2, <3>3
  <2>5. QED BY <2>3, <2>4
<1>5. QED BY <1>1, <1>4, MarkSeen DEF MarksStay, AgentsOf

LEMMA NextGlobal ==
  ASSUME IInv, [LifecycleNext]_lifecycle_vars
  PROVE  PowerOfLabel' /\ ApiIsSet'
<1> USE LifecycleAssumption DEF IInv, PowerOfLabel, ApiIsSet, LifecycleTypeOK
<1>1. ASSUME NEW h \in Handlers, NEW s \in Systems, ReceiveOn(h, s) \/ ReceiveOff(h, s)
      PROVE  PowerOfLabel' /\ ApiIsSet'
  BY <1>1 DEF ReceiveOn, ReceiveOff, Goto
<1>2. ASSUME NEW h \in Handlers, HandlerStep(h)
      PROVE  PowerOfLabel' /\ ApiIsSet'
  <2>1. CASE AddBooted(h)
    BY <2>1 DEF AddBooted, Goto
  <2>2. CASE RemoveBooted(h)
    BY <2>2 DEF RemoveBooted, Goto
  <2>3. CASE CheckInitialized(h)
    BY <2>3 DEF CheckInitialized, Goto
  <2>4. CASE SetApi(h) \/ StartHeartbeaters(h)
    BY <2>4 DEF SetApi, StartHeartbeaters, Goto
  <2>5. CASE \/ RemoveBootedKeyError(h) \/ StartBoot(h) \/ RequestRemoval(h)
             \/ RequestRemovalAttributeError(h)
    BY <2>5 DEF RemoveBootedKeyError, StartBoot, RequestRemoval,
       RequestRemovalAttributeError, Done, Goto
  <2>6. QED BY <1>2, <2>1, <2>2, <2>3, <2>4, <2>5 DEF HandlerStep
<1>3. CASE UNCHANGED <<hpc, request, booted_q, api>>
  BY <1>3
<1>4. QED
  BY <1>1, <1>2, <1>3 DEF LifecycleNext, BootStep, LookupFails, ProcessLookupData,
     LookupDataIncomplete, JoinHeartbeater, HeartbeatStep, TimePasses, notification,
     lifecycle, lifecycle_vars

(* A step that is no handler's work on s, and starts no boot of it. *)
LEMMA AloneElsewhere ==
  ASSUME IInv, [LifecycleNext]_lifecycle_vars,
         NEW s \in Systems \ overlapped,
         \A a \in AgentsOf(s) : (Booting(a)' => Booting(a)) /\ (Live(a)' => Live(a)),
         \A h \in Handlers :
           \/ request'[h].system # s /\ request[h].system # s
           \/ request'[h] = request[h] /\ hpc'[h] = hpc[h],
         s \in booted_q' <=> s \in booted_q,
         logger => logger'
  PROVE  Alone(s)'
<1>1. LifecycleTypeOK /\ SingleCarrier /\ Alone(s) /\ LifecycleTypeOK'
  BY NextLifecycleTypeOK DEF IInv
<1>2. OneHandler(s)'
  BY <1>1 DEF Alone, OneHandler
<1>3. BootsFromNothing(s)' /\ StopsTheRunning(s)'
  BY <1>1 DEF Alone, BootsFromNothing, StopsTheRunning, Handles, AgentsOf
<1>4. OneLive(s)'
  BY <1>1 DEF Alone, OneLive, AgentsOf
<1>5. MarksStay(s)'
  BY <1>1, MarksStayStep DEF Alone
<1>6. ASSUME s \notin booted_q', ~Working(s)', NEW a \in AgentsOf(s)
      PROVE  ~Booting(a)' /\ (InService(a)' => s \in remove_from_q')
  <2>1. ~Working(s) /\ s \notin booted_q
    BY <1>1, <1>6 DEF Working
  <2>2. \A b \in AgentsOf(s) : ~Booting(b) /\ (InService(b) => s \in remove_from_q)
    BY <1>1, <2>1 DEF Alone, OffIsMarked
  <2>3. ASSUME InService(a)', s \notin remove_from_q'
        PROVE  FALSE
    <3>1. InService(a) /\ s \in remove_from_q
      BY <2>2, <2>3, <1>1, LiveShrinks DEF Live, AgentsOf
    <3>2. PICK b \in AgentsOf(s) : Unmark(b) \/ (InService(b) /\ ~InService(b)')
      BY <1>1, <2>3, <3>1, StepOfHeartbeater, MarkUsedUp DEF LifecycleTypeOK, AgentsOf
    <3>3. ~Unmark(b)
      BY <1>1, <2>2 DEF Unmark, LifecycleTypeOK, Booting, AgentsOf
    <3>4. a = b
      BY <1>1, <3>1, <3>2, <3>3 DEF Alone, OneLive, Live
    <3>5. QED BY <2>3, <3>2, <3>3, <3>4
  <2>4. QED BY <1>6, <2>2, <2>3
<1>7. OffIsMarked(s)'
  BY <1>6 DEF OffIsMarked, AgentsOf
<1>8. QED BY <1>2, <1>3, <1>4, <1>5, <1>7 DEF Alone

(* A notification for s that is acted upon while nothing is under way. *)
LEMMA AloneReceive ==
  ASSUME IInv, NEW h \in Handlers, NEW s \in Systems \ overlapped',
         ReceiveOn(h, s) \/ ReceiveOff(h, s)
  PROVE  Alone(s)'
<1>1. /\ LifecycleTypeOK /\ s \notin overlapped
      /\ [LifecycleNext]_lifecycle_vars /\ SingleCarrier
      /\ ReceiveOff(h, s) => (api => logger)
      /\ ReceiveOff(h, s) => ~NotYetOn(s) /\ s \in booted_q
      /\ ReceiveOn(h, s) => ~NotYetOff(s) /\ s \notin booted_q
      /\ request[h].system = None
  BY LifecycleAssumption
     DEF ReceiveOn, ReceiveOff, IInv, LifecycleNext, LifecycleTypeOK
<1>2. /\ Alone(s) /\ ~Working(s)
      /\ \A a \in AgentsOf(s) : ~Booting(a)
      /\ ReceiveOn(h, s) => \A a \in AgentsOf(s) : ~Live(a)
  BY <1>1, BusyMeans DEF IInv, NotYetOff, NotYetOn, Live
<1>3. /\ \A k \in Handlers : request[k].system = s =>
           hpc[k] = "remove" /\ request[k].power = "Off"
      /\ ReceiveOn(h, s) => \A k \in Handlers : request[k].system # s
  BY <1>1, <1>2, BusyMeans DEF Working, NotYetOff, IInv, PowerOfLabel
<1>4. PICK power \in {"On", "Off"}, label \in {"add", "remove"} :
        /\ request' = [request EXCEPT ![h] = [power |-> power, system |-> s]]
        /\ hpc' = [hpc EXCEPT ![h] = label]
        /\ power = "On" => label = "add" /\ ReceiveOn(h, s)
        /\ power = "Off" => label = "remove" /\ ReceiveOff(h, s)
  BY DEF ReceiveOn, ReceiveOff, Goto
<1>5. \A k \in Handlers : IF k = h
        THEN /\ request'[k].system = s /\ request'[k].power = power
             /\ hpc'[k] = label
        ELSE /\ request'[k] = request[k] /\ hpc'[k] = hpc[k]
             /\ request'[k].system = s => power = "Off"
  BY <1>1, <1>3, <1>4 DEF LifecycleTypeOK
<1>6. /\ UNCHANGED <<vars, booted_q, api, logger, boot, agents>>
      /\ \A a \in Agents : /\ InService(a)' <=> InService(a)
                           /\ Booting(a)' <=> Booting(a)
                           /\ Live(a)' <=> Live(a)
  BY DEF ReceiveOn, ReceiveOff, vars, InService, InQueue, Held, Booting, Live
<1>7. OneHandler(s)'
  BY <1>3, <1>4, <1>5 DEF OneHandler
<1>8. BootsFromNothing(s)'
  BY <1>2, <1>3, <1>4, <1>5, <1>6 DEF BootsFromNothing, Handles, AgentsOf
<1>9. StopsTheRunning(s)'
  <2>1. ReceiveOff(h, s) => logger
    BY <1>1, <1>2 DEF IInv, ApiIsSet, Working
  <2>2. QED
    BY <1>2, <1>4, <1>5, <1>6, <2>1 DEF Alone, StopsTheRunning, Handles, AgentsOf
<1>10. OneLive(s)' /\ MarksStay(s)'
  BY <1>1, <1>2, <1>6, MarksStayStep DEF Alone, OneLive, AgentsOf
<1>11. OffIsMarked(s)'
  <2>1. Working(s)' \/ s \in booted_q'
    BY <1>1, <1>4, <1>5, <1>6 DEF Working
  <2>2. QED BY <2>1 DEF OffIsMarked
<1>12. QED BY <1>7, <1>8, <1>9, <1>10, <1>11 DEF Alone

(* A handler goes on with its notification for s. *)
LEMMA AloneGoesOn ==
  ASSUME IInv, NEW h \in Handlers, NEW s \in Systems \ overlapped,
         request[h].system = s,
         \/ AddBooted(h) \/ RemoveBooted(h) \/ CheckInitialized(h)
         \/ SetApi(h) \/ StartHeartbeaters(h)
  PROVE  Alone(s)'
<1>1. /\ LifecycleTypeOK /\ SingleCarrier /\ Alone(s)
      /\ [LifecycleNext]_lifecycle_vars
  BY DEF IInv, LifecycleNext, HandlerStep
<1>2. \A k \in Handlers \ {h} : request[k].system = s =>
        hpc[k] = "remove" /\ request[k].power = "Off" /\ request[h].power = "Off"
  <2> SUFFICES ASSUME NEW k \in Handlers \ {h}, request[k].system = s
               PROVE  /\ hpc[k] = "remove" /\ request[k].power = "Off"
                      /\ request[h].power = "Off"
    OBVIOUS
  <2>1. hpc[k] = "remove" => request[k].power = "Off"
    BY DEF IInv, PowerOfLabel
  <2>2. CASE hpc[h] = "remove"
    <3>1. request[h].power = "Off" /\ s \in booted_q
      BY <2>2 DEF IInv, PowerOfLabel, AddBooted, RemoveBooted, CheckInitialized,
         SetApi, StartHeartbeaters
    <3>2. hpc[k] = "remove"
      BY <1>1, <2>2, <3>1 DEF Alone, OneHandler, StopsTheRunning, Handles
    <3>3. QED BY <2>1, <3>1, <3>2
  <2>3. CASE hpc[h] # "remove"
    BY <1>1, <2>1, <2>3 DEF Alone, OneHandler
  <2>4. QED BY <2>2, <2>3
<1>3. PICK label \in {"hasattr", "initialize", "threads", "act"} :
        hpc' = [hpc EXCEPT ![h] = label]
  BY DEF AddBooted, RemoveBooted, CheckInitialized, SetApi, StartHeartbeaters, Goto
<1>4. /\ request' = request /\ hpc'[h] = label /\ (logger => logger')
      /\ \A k \in Handlers \ {h} : hpc'[k] = hpc[k]
  BY <1>1, <1>3 DEF AddBooted, RemoveBooted, CheckInitialized, SetApi,
     StartHeartbeaters, LifecycleTypeOK
<1>5. \A a \in AgentsOf(s) : (Booting(a)' => Booting(a)) /\ (Live(a)' => Live(a))
  <2>1. boot' = boot /\ adding' = adding /\ queue' = queue /\ entry' = entry
    BY DEF AddBooted, RemoveBooted, CheckInitialized, SetApi, StartHeartbeaters,
       RunHeartbeaterThreads, vars
  <2>2. QED BY <2>1 DEF Booting, Live, InService, InQueue, Held
<1>6. /\ request[h].power = "On" => s \in booted_q'
      /\ request[h].power = "Off" => s \notin booted_q'
  <2>1. request[h].power \in {"On", "Off"}
    BY <1>1, LifecycleAssumption DEF LifecycleTypeOK, Requests, NoRequest
  <2>2. hpc[h] = "add" => request[h].power = "On"
    BY DEF IInv, PowerOfLabel
  <2>3. QED
    BY <1>1, <2>1, <2>2 DEF IInv, PowerOfLabel, Alone, BootsFromNothing,
       StopsTheRunning, Handles, AddBooted, RemoveBooted, CheckInitialized, SetApi,
       StartHeartbeaters
<1>7. OneHandler(s)' /\ OneLive(s)'
  BY <1>1, <1>2, <1>4, <1>5 DEF Alone, OneHandler, OneLive
<1>8. BootsFromNothing(s)'
  BY <1>1, <1>2, <1>4, <1>5, <1>6 DEF Alone, BootsFromNothing, Handles
<1>9. StopsTheRunning(s)'
  BY <1>1, <1>2, <1>4, <1>5, <1>6 DEF Alone, StopsTheRunning, Handles
<1>10. MarksStay(s)'
  BY <1>1, MarksStayStep DEF Alone
<1>11. OffIsMarked(s)'
  BY <1>3, <1>4 DEF OffIsMarked, Working
<1>12. QED BY <1>7, <1>8, <1>9, <1>10, <1>11 DEF Alone

(* It is done with it. *)
LEMMA AloneDone ==
  ASSUME IInv, NEW h \in Handlers, NEW s \in Systems \ overlapped,
         request[h].system = s,
         \/ RemoveBootedKeyError(h) \/ StartBoot(h) \/ RequestRemoval(h)
         \/ RequestRemovalAttributeError(h)
  PROVE  Alone(s)'
<1>1. /\ LifecycleTypeOK /\ SingleCarrier /\ Alone(s)
      /\ [LifecycleNext]_lifecycle_vars
  BY DEF IInv, LifecycleNext, HandlerStep
<1>2. /\ booted_q' = booted_q /\ logger' = logger
      /\ request' = [request EXCEPT ![h] = NoRequest]
      /\ hpc' = [hpc EXCEPT ![h] = "idle"]
  BY DEF RemoveBootedKeyError, StartBoot, RequestRemoval,
     RequestRemovalAttributeError, Done, Goto
<1>3. /\ request'[h].system # s
      /\ \A k \in Handlers \ {h} : request'[k] = request[k] /\ hpc'[k] = hpc[k]
  BY <1>1, <1>2, LifecycleAssumption DEF LifecycleTypeOK, NoRequest
<1>4. OneHandler(s)'
  BY <1>1, <1>3 DEF Alone, OneHandler
<1>5. MarksStay(s)'
  BY <1>1, MarksStayStep DEF Alone
<1>6. ~RequestRemovalAttributeError(h)
  BY <1>1 DEF Alone, StopsTheRunning, Handles, RequestRemovalAttributeError
<1>7. CASE RemoveBootedKeyError(h)
  <2>1. /\ hpc[h] = "remove" /\ s \notin booted_q
        /\ UNCHANGED <<queue, entry, adding, boot, remove_from_q>>
    BY <1>7 DEF RemoveBootedKeyError, vars
  <2>2. \A a \in Agents : /\ InService(a)' <=> InService(a)
                          /\ Booting(a)' <=> Booting(a)
                          /\ Live(a)' <=> Live(a)
    BY <2>1 DEF InService, InQueue, Held, Booting, Live
  <2>3. Working(s)' <=> Working(s)
    BY <1>3, <2>1 DEF Working
  <2>4. BootsFromNothing(s)' /\ StopsTheRunning(s)'
    BY <1>1, <1>2, <1>3, <2>2
       DEF Alone, BootsFromNothing, StopsTheRunning, Handles, AgentsOf
  <2>5. OneLive(s)' /\ OffIsMarked(s)'
    BY <1>1, <1>2, <2>1, <2>2, <2>3 DEF Alone, OneLive, OffIsMarked, AgentsOf
  <2>6. QED BY <1>4, <1>5, <2>4, <2>5 DEF Alone
<1>8. CASE StartBoot(h)
  <2>1. Handles(h, s, "On") /\ hpc[h] = "act"
    BY <1>8 DEF StartBoot, Handles
  <2>2. s \in booted_q /\ \A a \in AgentsOf(s) : ~Live(a)
    BY <1>1, <2>1 DEF Alone, BootsFromNothing
  <2>3. \A k \in Handlers : request'[k].system # s
    BY <1>1, <1>3, <2>1 DEF Alone, OneHandler, Handles
  <2>4. PICK b \in AgentsOf(s) : \A a \in Agents \ {b} : Live(a)' <=> Live(a)
    BY <1>1, <1>8, BootStarts
  <2>5. OneLive(s)'
    BY <2>2, <2>4 DEF OneLive, AgentsOf
  <2>6. OffIsMarked(s)'
    BY <1>2, <2>2 DEF OffIsMarked
  <2>7. BootsFromNothing(s)' /\ StopsTheRunning(s)'
    BY <2>3 DEF BootsFromNothing, StopsTheRunning, Handles
  <2>8. QED BY <1>4, <1>5, <2>5, <2>6, <2>7 DEF Alone
<1>9. CASE RequestRemoval(h)
  <2>1. /\ hpc[h] = "act" /\ Handles(h, s, "Off")
        /\ s \in remove_from_q' /\ UNCHANGED <<queue, entry, adding, boot>>
    BY <1>9 DEF RequestRemoval, RemoveFromHeartbeaterQ, Handles
  <2>2. logger /\ \A a \in AgentsOf(s) : ~Booting(a)
    BY <1>1, <2>1 DEF Alone, StopsTheRunning
  <2>3. \A k \in Handlers \ {h} : request[k].system = s =>
          hpc[k] = "remove" /\ request[k].power = "Off"
    BY <1>1, <2>1 DEF Alone, OneHandler, IInv, PowerOfLabel
  <2>4. \A a \in Agents : /\ InService(a)' <=> InService(a)
                          /\ Booting(a)' <=> Booting(a)
                          /\ Live(a)' <=> Live(a)
    BY <2>1 DEF InService, InQueue, Held, Booting, Live
  <2>5. OneLive(s)' /\ OffIsMarked(s)'
    BY <1>1, <2>1, <2>2, <2>4 DEF Alone, OneLive, OffIsMarked, AgentsOf
  <2>6. BootsFromNothing(s)' /\ StopsTheRunning(s)'
    BY <1>2, <1>3, <2>2, <2>3, <2>4
       DEF BootsFromNothing, StopsTheRunning, Handles, AgentsOf
  <2>7. QED BY <1>4, <1>5, <2>5, <2>6 DEF Alone
<1>10. QED BY <1>6, <1>7, <1>8, <1>9

LEMMA NextIInv ==
  ASSUME IInv, [LifecycleNext]_lifecycle_vars
  PROVE  IInv'
<1>1. /\ LifecycleTypeOK /\ SingleCarrier /\ [Next]_vars /\ LifecycleTypeOK'
      /\ SingleCarrier'
  BY StepOfHeartbeater, NextLifecycleTypeOK, NextSingleCarrier DEF IInv, LifecycleTypeOK
<1>2. SUFFICES ASSUME NEW s \in Systems \ overlapped'
               PROVE  Alone(s)'
  BY <1>1, NextGlobal DEF IInv
<1>3. s \notin overlapped
  BY <1>2 DEF LifecycleNext, HandlerStep, ReceiveOn, ReceiveOff, AddBooted,
     RemoveBooted, RemoveBootedKeyError, CheckInitialized, SetApi, StartHeartbeaters,
     StartBoot, RequestRemoval, RequestRemovalAttributeError, BootStep, LookupFails,
     ProcessLookupData, LookupDataIncomplete, JoinHeartbeater, HeartbeatStep,
     TimePasses, lifecycle_vars, lifecycle
<1>4. ASSUME NEW h \in Handlers, NEW r \in Systems, ReceiveOn(h, r) \/ ReceiveOff(h, r),
             r # s
      PROVE  Alone(s)'
  <2>1. \A k \in Handlers : \/ request'[k].system # s /\ request[k].system # s
                            \/ request'[k] = request[k] /\ hpc'[k] = hpc[k]
    BY <1>1, <1>2, <1>4, LifecycleAssumption
       DEF ReceiveOn, ReceiveOff, Goto, LifecycleTypeOK
  <2>2. UNCHANGED <<vars, booted_q, logger, boot>>
    BY <1>4 DEF ReceiveOn, ReceiveOff
  <2>3. \A a \in AgentsOf(s) : (Booting(a)' => Booting(a)) /\ (Live(a)' => Live(a))
    BY <2>2 DEF Booting, Live, InService, InQueue, Held, vars
  <2>4. QED BY <1>3, <2>1, <2>2, <2>3, AloneElsewhere
<1>5. ASSUME NEW h \in Handlers, HandlerStep(h), request[h].system # s
      PROVE  Alone(s)'
  <2>1. \A k \in Handlers : \/ request'[k].system # s /\ request[k].system # s
                            \/ request'[k] = request[k] /\ hpc'[k] = hpc[k]
    <3>1. NoRequest.system # s
      BY <1>2, LifecycleAssumption DEF NoRequest
    <3>2. request' = request \/ request' = [request EXCEPT ![h] = NoRequest]
      BY <1>5 DEF HandlerStep, AddBooted, RemoveBooted, RemoveBootedKeyError,
         CheckInitialized, SetApi, StartHeartbeaters, StartBoot, RequestRemoval,
         RequestRemovalAttributeError, Done
    <3>3. \A k \in Handlers \ {h} : hpc'[k] = hpc[k]
      BY <1>1, <1>5 DEF HandlerStep, AddBooted, RemoveBooted, RemoveBootedKeyError,
         CheckInitialized, SetApi, StartHeartbeaters, StartBoot, RequestRemoval,
         RequestRemovalAttributeError, Done, Goto, LifecycleTypeOK
    <3>4. QED BY <1>1, <1>5, <3>1, <3>2, <3>3 DEF LifecycleTypeOK
  <2>2. s \in booted_q' <=> s \in booted_q
    BY <1>5 DEF HandlerStep, AddBooted, RemoveBooted, RemoveBootedKeyError,
       CheckInitialized, SetApi, StartHeartbeaters, StartBoot, RequestRemoval,
       RequestRemovalAttributeError
  <2>3. logger => logger'
    BY <1>5 DEF HandlerStep, AddBooted, RemoveBooted, RemoveBootedKeyError,
       CheckInitialized, SetApi, StartHeartbeaters, StartBoot, RequestRemoval,
       RequestRemovalAttributeError
  <2>4. \A a \in AgentsOf(s) : (Booting(a)' => Booting(a)) /\ (Live(a)' => Live(a))
    <3>1. CASE StartBoot(h)
      BY <1>1, <1>5, <3>1, BootStarts DEF AgentsOf
    <3>2. CASE ~StartBoot(h)
      <4>1. UNCHANGED boot /\ UNCHANGED <<queue, entry, adding>>
        BY <1>5, <3>2 DEF HandlerStep, AddBooted, RemoveBooted, RemoveBootedKeyError,
           CheckInitialized, SetApi, StartHeartbeaters, RequestRemoval, vars,
           RequestRemovalAttributeError, RunHeartbeaterThreads, RemoveFromHeartbeaterQ
      <4>2. QED BY <4>1 DEF Booting, Live, InService, InQueue, Held
    <3>3. QED BY <3>1, <3>2
  <2>5. QED BY <1>3, <2>1, <2>2, <2>3, <2>4, AloneElsewhere
<1>6. ASSUME ~\E h \in Handlers : StartBoot(h),
             UNCHANGED <<booted_q, logger, hpc, request>>
      PROVE  Alone(s)'
  <2>1. \A a \in AgentsOf(s) : (Booting(a)' => Booting(a)) /\ (Live(a)' => Live(a))
    BY <1>1, <1>6, LiveShrinks DEF AgentsOf
  <2>2. QED BY <1>3, <1>6, <2>1, AloneElsewhere
<1>7. ASSUME NEW h \in Handlers, HandlerStep(h), request[h].system = s
      PROVE  Alone(s)'
  BY <1>3, <1>7, AloneGoesOn, AloneDone DEF HandlerStep
<1>8. ASSUME NEW h \in Handlers, ReceiveOn(h, s) \/ ReceiveOff(h, s)
      PROVE  Alone(s)'
  BY <1>8, AloneReceive
<1>9. ASSUME UNCHANGED <<booted_q, logger, hpc, request>>
      PROVE  Alone(s)'
  <2>1. \A h \in Handlers : ~StartBoot(h)
    BY <1>1, <1>9, LifecycleAssumption DEF StartBoot, Done, Goto, LifecycleTypeOK
  <2>2. QED BY <1>6, <1>9, <2>1
<1>10. QED
  BY <1>4, <1>5, <1>7, <1>8, <1>9
     DEF LifecycleNext, BootStep, LookupFails, ProcessLookupData, LookupDataIncomplete,
         JoinHeartbeater, HeartbeatStep, TimePasses, notification, lifecycle,
         lifecycle_vars

LEMMA Invariant == LifecycleSpec => []IInv
  BY InitIInv, NextIInv, PTL DEF LifecycleSpec

(* However boots, heartbeats and other systems interleave, a system whose  *)
(* notifications do not overlap never has two agents that boot or are in   *)
(* service: the next boot waits for the last agent to be gone.             *)
THEOREM OneAgentPerSystem == LifecycleSpec => []OneLiveAgent
<1>1. IInv => OneLiveAgent
  BY HeartbeaterAssumption DEF IInv, Alone, OneLive, OneLiveAgent, AgentsOf
<1>2. QED BY <1>1, Invariant, PTL

(* A system that is off, with no notification under way and no mark left,  *)
(* has no agent that boots or is heartbeated, unless notifications for it  *)
(* overlapped.                                                             *)
THEOREM OffMeansNoAgent == LifecycleSpec => []OffTakesEffectAlone
<1>1. IInv => OffTakesEffectAlone
  BY BusyMeans DEF IInv, Alone, OffIsMarked, OffTakesEffectAlone, ShutDown, Live
<1>2. QED BY <1>1, Invariant, PTL

(* No thread dies of KeyError over a mark, unless notifications overlapped. *)
THEOREM MarksAreKept == LifecycleSpec => []MarkKeptAlone
<1>1. IInv => MarkKeptAlone
  <2>1. ASSUME IInv, NEW t \in Threads, pc[t] = "drop",
               SystemOf[entry[t]] \notin overlapped
        PROVE  SystemOf[entry[t]] \in remove_from_q
    <3>1. SystemOf[entry[t]] \in Systems
      BY <2>1, HeartbeaterAssumption DEF IInv, LifecycleTypeOK, TypeOK, Carrying
    <3>2. QED BY <2>1, <3>1 DEF IInv, Alone, MarksStay
  <2>2. ASSUME IInv, NEW a \in Agents, adding[a] = "unmark",
               SystemOf[a] \notin overlapped
        PROVE  SystemOf[a] \in remove_from_q
    BY <2>2, HeartbeaterAssumption DEF IInv, Alone, MarksStay, AgentsOf
  <2>3. QED BY <2>1, <2>2 DEF MarkKeptAlone
<1>2. QED BY <1>1, Invariant, PTL

-----------------------------------------------------------------------------
(* No agent of a system is switched off by a mark of an earlier boot. *)

(* The mark of a system whose agent is about to be appended could come     *)
(* from a power-off, which waits until the boot is over, or from a         *)
(* heartbeat that was not found, which would be of a second live agent.    *)
LEMMA NotMarkedMeanwhile ==
  ASSUME IInv, [LifecycleNext]_lifecycle_vars, NEW a \in Agents,
         SystemOf[a] \notin overlapped, adding[a] = "append",
         SystemOf[a] \notin remove_from_q
  PROVE  SystemOf[a] \notin remove_from_q'
<1> USE HeartbeaterAssumption
<1>1. /\ LifecycleTypeOK /\ TypeOK /\ SingleCarrier
      /\ SystemOf[a] \in Systems /\ a \in AgentsOf(SystemOf[a])
      /\ Alone(SystemOf[a]) /\ Booting(a)
  BY DEF IInv, LifecycleTypeOK, AgentsOf, Booting
<1>2. ASSUME NEW h \in Handlers, RequestRemoval(h)
      PROVE  SystemOf[a] \notin remove_from_q'
  <2>1. request[h].system # SystemOf[a]
    BY <1>1, <1>2 DEF RequestRemoval, Alone, StopsTheRunning, Handles
  <2>2. QED BY <1>2, <2>1 DEF RequestRemoval, RemoveFromHeartbeaterQ
<1>3. ASSUME NEW t \in Threads, HeartbeatNotFound(t)
      PROVE  SystemOf[a] \notin remove_from_q'
  <2>1. /\ entry[t] \in Agents /\ Live(entry[t]) /\ adding[entry[t]] = "in"
    BY <1>1, <1>3 DEF HeartbeatNotFound, TypeOK, Carrying, Live, InService, Held,
       SingleCarrier
  <2>2. SystemOf[entry[t]] # SystemOf[a]
    BY <1>1, <2>1 DEF Alone, OneLive, AgentsOf, Live
  <2>3. QED BY <1>3, <2>2 DEF HeartbeatNotFound
<1>4. ASSUME ~\E h \in Handlers : RequestRemoval(h),
             ~\E t \in Threads : HeartbeatNotFound(t)
      PROVE  remove_from_q' \subseteq remove_from_q
  BY <1>4
     DEF LifecycleNext, HandlerStep, ReceiveOn, ReceiveOff, AddBooted, RemoveBooted,
         RemoveBootedKeyError, CheckInitialized, SetApi, StartHeartbeaters, StartBoot,
         RequestRemovalAttributeError, RunHeartbeaterThreads, BootStep, LookupFails,
         ProcessLookupData, LookupDataIncomplete, JoinHeartbeater, AddStep, AddToQ,
         Unmark, UnmarkKeyError, Enqueue, HeartbeatStep, ThreadStep, PopLeft,
         CheckRemoved, Drop, DropKeyError, Die, HeartbeatExpected, PrintQ,
         PrintQRuntimeError, HeartbeatAnswered, Requeue, TimePasses, Tick,
         lifecycle_vars, lifecycle, vars
<1>5. QED BY <1>2, <1>3, <1>4

LEMMA NextJoinsUnmarked ==
  ASSUME IInv, JoinsUnmarked, [LifecycleNext]_lifecycle_vars
  PROVE  JoinsUnmarked'
<1> USE HeartbeaterAssumption
<1>1. SUFFICES ASSUME NEW a \in Agents, adding'[a] = "append",
                      SystemOf[a] \notin overlapped'
               PROVE  SystemOf[a] \notin remove_from_q'
  BY DEF JoinsUnmarked
<1>2. TypeOK /\ [Next]_vars /\ overlapped \subseteq overlapped'
  BY StepOfHeartbeater
     DEF IInv, LifecycleTypeOK, LifecycleNext, HandlerStep, ReceiveOn, ReceiveOff,
         AddBooted, RemoveBooted, RemoveBootedKeyError, CheckInitialized, SetApi,
         StartHeartbeaters, StartBoot, RequestRemoval, RequestRemovalAttributeError,
         BootStep, LookupFails, ProcessLookupData, LookupDataIncomplete,
         JoinHeartbeater, HeartbeatStep, TimePasses, lifecycle_vars, lifecycle
<1>3. CASE adding[a] = "append"
  BY <1>1, <1>2, <1>3, NotMarkedMeanwhile DEF JoinsUnmarked
<1>4. CASE adding[a] # "append"
  <2>1. AddToQ(a) \/ Unmark(a)
    BY <1>1, <1>2, <1>4
       DEF Next, ThreadStep, PopLeft, CheckRemoved, Drop, DropKeyError, Die,
           HeartbeatExpected, PrintQ, PrintQRuntimeError, HeartbeatAnswered,
           HeartbeatNotFound, Requeue, RunHeartbeaterThreads, AddStep, AddToQ,
           Unmark, UnmarkKeyError, Enqueue, Tick, RemoveFromHeartbeaterQ, vars,
           TypeOK
  <2>2. CASE AddToQ(a)
    BY <1>1, <1>2, <2>2 DEF AddToQ, TypeOK
  <2>3. CASE Unmark(a)
    BY <2>3 DEF Unmark
  <2>4. QED BY <2>1, <2>2, <2>3
<1>5. QED BY <1>3, <1>4

(* An agent that joins has no mark left over from an earlier boot, however *)
(* many of them failed, unless notifications for its system overlapped.    *)
THEOREM NextBootIsNotMarked == LifecycleSpec => []JoinsUnmarked
<1>1. LifecycleInit => JoinsUnmarked
  BY DEF LifecycleInit, Init, JoinsUnmarked
<1>2. QED BY <1>1, InitIInv, NextIInv, NextJoinsUnmarked, PTL DEF LifecycleSpec

-----------------------------------------------------------------------------
(* Whom the callback of a heartbeat reaches *)

Registered(s) ==
  agents[s] \in AgentsOf(s) /\ boot[agents[s]] \in {"registered", "failed"}

Callbacks ==
  \A a \in Agents : boot[a] = "registered" =>
    /\ Registered(SystemOf[a])
    /\ Live(a) /\ SystemOf[a] \notin overlapped => agents[SystemOf[a]] = a

LEMMA NextCallbacks ==
  ASSUME IInv, Callbacks, [LifecycleNext]_lifecycle_vars
  PROVE  Callbacks'
<1> USE HeartbeaterAssumption
<1>1. LifecycleTypeOK /\ SingleCarrier /\ overlapped \subseteq overlapped'
  BY DEF IInv, LifecycleNext, HandlerStep, ReceiveOn, ReceiveOff, AddBooted,
     RemoveBooted, RemoveBootedKeyError, CheckInitialized, SetApi, StartHeartbeaters,
     StartBoot, RequestRemoval, RequestRemovalAttributeError, BootStep, LookupFails,
     ProcessLookupData, LookupDataIncomplete, JoinHeartbeater, HeartbeatStep,
     TimePasses, lifecycle_vars, lifecycle
<1>2. ASSUME NEW h \in Handlers, StartBoot(h)
      PROVE  Callbacks'
  <2>1. PICK b \in AgentsOf(request[h].system) :
          boot[b] = "unborn" /\ boot' = [boot EXCEPT ![b] = "asleep"]
    BY <1>2 DEF StartBoot
  <2>2. \A a \in Agents : /\ boot'[a] = "registered" => boot[a] = "registered"
                          /\ boot[a] \in {"registered", "failed"} => boot'[a] = boot[a]
                          /\ Live(a)' /\ boot'[a] = "registered" => Live(a)
    BY <1>1, <1>2, <2>1
       DEF LifecycleTypeOK, StartBoot, Live, Booting, InService, InQueue, Held, vars
  <2>3. QED
    BY <1>1, <1>2, <2>2 DEF Callbacks, Registered, AgentsOf, StartBoot
<1>3. ASSUME NEW b \in Agents, ProcessLookupData(b)
      PROVE  Callbacks'
  <2>1. /\ agents' = [agents EXCEPT ![SystemOf[b]] = b]
        /\ boot' = [boot EXCEPT ![b] = "registered"]
        /\ boot[b] = "asleep" /\ SystemOf[b] \in Systems
    BY <1>3 DEF ProcessLookupData
  <2>2. \A s \in Systems : agents'[s] = IF s = SystemOf[b] THEN b ELSE agents[s]
    BY <1>1, <2>1 DEF LifecycleTypeOK
  <2>3. \A a \in Agents : boot'[a] = IF a = b THEN "registered" ELSE boot[a]
    BY <1>1, <2>1 DEF LifecycleTypeOK
  <2>4. Live(b) /\ \A a \in Agents : Live(a)' => Live(a)
    <3>1. \A h \in Handlers : ~StartBoot(h)
      BY <1>3, <1>1 DEF ProcessLookupData, StartBoot, Done, Goto, notification,
         LifecycleTypeOK
    <3>2. adding[b] = "out"
      BY <1>1, <2>1 DEF LifecycleTypeOK, TypeOK
    <3>3. QED BY <1>1, <2>1, <3>1, <3>2, LiveShrinks DEF Live, Booting
  <2>5. ASSUME NEW a \in Agents, boot'[a] = "registered"
        PROVE  /\ Registered(SystemOf[a])'
               /\ Live(a)' /\ SystemOf[a] \notin overlapped' => agents'[SystemOf[a]] = a
    <3>1. CASE SystemOf[a] = SystemOf[b]
      <4>1. Registered(SystemOf[a])'
        BY <2>1, <2>2, <2>3, <3>1 DEF Registered, AgentsOf
      <4>2. ASSUME Live(a)', SystemOf[a] \notin overlapped'
            PROVE  a = b
        BY <1>1, <2>1, <2>4, <3>1, <4>2 DEF IInv, Alone, OneLive, AgentsOf
      <4>3. QED BY <2>1, <2>2, <3>1, <4>1, <4>2
    <3>2. CASE SystemOf[a] # SystemOf[b]
      <4>1. boot[a] = "registered" /\ SystemOf[a] \in Systems
        BY <2>3, <2>5, <3>2
      <4>2. QED
        BY <1>1, <2>2, <2>3, <2>4, <3>2, <4>1 DEF Callbacks, Registered, AgentsOf
    <3>3. QED BY <3>1, <3>2
  <2>6. QED BY <2>5 DEF Callbacks
<1>4. ASSUME \A h \in Handlers : ~StartBoot(h),
             \A b \in Agents : ~ProcessLookupData(b)
      PROVE  Callbacks'
  <2>1. /\ agents' = agents
        /\ \A a \in Agents : /\ boot'[a] = "registered" => boot[a] = "registered"
                             /\ boot[a] \in {"registered", "failed"}
                                  => boot'[a] \in {"registered", "failed"}
    BY <1>1, <1>4 DEF LifecycleTypeOK, LifecycleNext, HandlerStep, ReceiveOn,
       ReceiveOff, AddBooted, RemoveBooted, RemoveBootedKeyError, CheckInitialized,
       SetApi, StartHeartbeaters, RequestRemoval, RequestRemovalAttributeError,
       BootStep, LookupFails, LookupDataIncomplete, JoinHeartbeater, HeartbeatStep,
       TimePasses, lifecycle_vars, lifecycle
  <2>2. \A a \in Agents : Live(a)' => Live(a)
    BY <1>1, <1>4, LiveShrinks
  <2>3. QED BY <1>1, <2>1, <2>2 DEF Callbacks, Registered, AgentsOf
<1>5. QED BY <1>2, <1>3, <1>4

(* Whatever overlaps, the callback URL of an agent in service reaches an   *)
(* agent of its system, and itself if the notifications did not overlap.   *)
THEOREM CallbacksResolve == LifecycleSpec => []CallbackResolves
<1>1. LifecycleInit => Callbacks
  BY DEF LifecycleInit, Callbacks
<1>2. IInv /\ Callbacks => CallbackResolves
  <2>1. ASSUME IInv, NEW a \in Agents, InService(a)
        PROVE  boot[a] = "registered" /\ Live(a)
    BY <2>1, HeartbeaterAssumption DEF IInv, SingleCarrier, LifecycleTypeOK,
       InService, InQueue, Held, Range, Live
  <2>2. QED BY <2>1 DEF Callbacks, Registered, CallbackResolves
<1>3. QED BY <1>1, <1>2, InitIInv, NextIInv, NextCallbacks, PTL DEF LifecycleSpec
-----------------------------------------------------------------------------
(* The invariant of the refinement *)

SInv ==
  /\ IInv
  /\ JoinsUnmarked

LEMMA OverlappedGrows ==
  ASSUME [LifecycleNext]_lifecycle_vars
  PROVE  overlapped \subseteq overlapped'
  BY DEF LifecycleNext, HandlerStep, ReceiveOn, ReceiveOff, AddBooted, RemoveBooted,
     RemoveBootedKeyError, CheckInitialized, SetApi, StartHeartbeaters, StartBoot,
     RequestRemoval, RequestRemovalAttributeError, BootStep, LookupFails,
     ProcessLookupData, LookupDataIncomplete, JoinHeartbeater, HeartbeatStep,
     TimePasses, lifecycle_vars, lifecycle

LEMMA SwitchInvariant == LifecycleSpec => []SInv
<1>1. LifecycleInit => SInv
  BY InitIInv DEF LifecycleInit, Init, JoinsUnmarked, SInv
<1>2. SInv /\ [LifecycleNext]_lifecycle_vars => SInv'
  BY NextIInv, NextJoinsUnmarked DEF SInv
<1>3. QED BY <1>1, <1>2, PTL DEF LifecycleSpec

(* Only a power-off that has left booted_q and a heartbeat that was not    *)
(* found mark a system. *)
LEMMA MarkedBy ==
  ASSUME LifecycleTypeOK, [LifecycleNext]_lifecycle_vars,
         NEW s \in Systems, s \notin remove_from_q, s \in remove_from_q'
  PROVE  \/ \E h \in Handlers : RequestRemoval(h) /\ request[h].system = s
         \/ \E t \in Threads : HeartbeatNotFound(t) /\ SystemOf[entry[t]] = s
<1>1. ASSUME ~\E h \in Handlers : RequestRemoval(h),
             ~\E t \in Threads : HeartbeatNotFound(t)
      PROVE  remove_from_q' \subseteq remove_from_q
  BY <1>1
     DEF LifecycleNext, HandlerStep, ReceiveOn, ReceiveOff, AddBooted, RemoveBooted,
         RemoveBootedKeyError, CheckInitialized, SetApi, StartHeartbeaters, StartBoot,
         RequestRemovalAttributeError, RunHeartbeaterThreads, BootStep, LookupFails,
         ProcessLookupData, LookupDataIncomplete, JoinHeartbeater, AddStep, AddToQ,
         Unmark, UnmarkKeyError, Enqueue, HeartbeatStep, ThreadStep, PopLeft,
         CheckRemoved, Drop, DropKeyError, Die, HeartbeatExpected, PrintQ,
         PrintQRuntimeError, HeartbeatAnswered, Requeue, TimePasses, Tick,
         lifecycle_vars, lifecycle, vars
<1>2. QED
  BY <1>1 DEF RequestRemoval, RemoveFromHeartbeaterQ, HeartbeatNotFound

(* While its system is on and notifications do not overlap, an agent in    *)
(* service is marked by its own heartbeat only.                            *)
THEOREM OnlyItselfMarksWhileOn == LifecycleSpec => MarkedByItselfWhileOn
<1> DEFINE Marked(a) == /\ InService(a)
                        /\ SystemOf[a] \in booted_q
                        /\ SystemOf[a] \in remove_from_q' \ (remove_from_q \cup overlapped')
           ByItself == \A a \in Agents : Marked(a) =>
                         \E t \in Threads : entry[t] = a /\ HeartbeatNotFound(t)
<1>1. ASSUME SInv, [LifecycleNext]_lifecycle_vars, NEW a \in Agents, Marked(a)
      PROVE  \E t \in Threads : entry[t] = a /\ HeartbeatNotFound(t)
  <2>1. /\ SystemOf[a] \in Systems \ overlapped /\ a \in AgentsOf(SystemOf[a])
        /\ LifecycleTypeOK /\ SingleCarrier /\ Alone(SystemOf[a])
    BY <1>1, OverlappedGrows, HeartbeaterAssumption DEF SInv, IInv, AgentsOf
  <2>2. ASSUME NEW h \in Handlers, RequestRemoval(h), request[h].system = SystemOf[a]
        PROVE  FALSE
    BY <1>1, <2>1, <2>2 DEF Alone, StopsTheRunning, Handles, RequestRemoval
  <2>3. PICK t \in Threads : HeartbeatNotFound(t) /\ SystemOf[entry[t]] = SystemOf[a]
    BY <1>1, <2>1, <2>2, MarkedBy
  <2>4. entry[t] \in Agents /\ Live(entry[t])
    BY <2>1, <2>3 DEF HeartbeatNotFound, LifecycleTypeOK, TypeOK, Carrying, Live,
       InService, Held
  <2>5. entry[t] = a
    BY <1>1, <2>1, <2>3, <2>4 DEF Alone, OneLive, AgentsOf, Live
  <2>6. QED BY <2>3, <2>5
<1>2. SInv /\ [LifecycleNext]_lifecycle_vars => [ByItself]_lifecycle_vars
  BY <1>1
<1>3. QED BY <1>2, SwitchInvariant, PTL DEF LifecycleSpec, MarkedByItselfWhileOn
-----------------------------------------------------------------------------
(* The program implements PowerSwitch *)

BootingOf(s) == \E a \in AgentsOf(s) : Booting(a)
ServingOf(s) == \E a \in AgentsOf(s) : InService(a)

(* What PowerSwitch may see of a system does not change. *)
SameSwitch(s) ==
  /\ s \in overlapped' <=> s \in overlapped
  /\ s \in remove_from_q' <=> s \in remove_from_q
  /\ Handled(s, "On")' <=> Handled(s, "On")
  /\ Handled(s, "Off")' <=> Handled(s, "Off")
  /\ s \in booted_q' <=> s \in booted_q
  /\ BootingOf(s)' <=> BootingOf(s)
  /\ ServingOf(s)' <=> ServingOf(s)

LEMMA SameValues ==
  ASSUME NEW s \in Systems, SameSwitch(s)
  PROVE  Power(s)' = Power(s) /\ AgentOf(s)' = AgentOf(s)
<1>1. Power(s)' = Power(s)
  BY DEF SameSwitch, Power
<1>2. AgentOf(s)' = AgentOf(s)
  BY DEF SameSwitch, AgentOf, BootingOf, ServingOf
<1>3. QED BY <1>1, <1>2

(* What it sees of the system that a step is about. *)
Is(s, p, a) == Power(s) = p /\ AgentOf(s) = a
Marked(s) == s \in remove_from_q /\ s \notin overlapped
KeepsMark(s) == Marked(s)' <=> Marked(s)
KeepsPower(s) == Power(s)' = Power(s)

SwitchMove(s) ==
  \/ KeepsPower(s) /\ AgentOf(s)' = AgentOf(s) /\ KeepsMark(s)
  \/ Is(s, "off", "none") /\ Is(s, "on", "due")' /\ KeepsMark(s)
  \/ Is(s, "on", "due") /\ Is(s, "on", "booting")' /\ KeepsMark(s)
  \/ KeepsPower(s) /\ AgentOf(s) = "booting" /\ AgentOf(s)' = "none" /\ KeepsMark(s)
  \/ KeepsPower(s) /\ AgentOf(s) = "booting" /\ AgentOf(s)' = "booting"
       /\ Marked(s) /\ ~Marked(s)'
  \/ Is(s, "on", "booting") /\ Is(s, "on", "serving")' /\ ~Marked(s) /\ ~Marked(s)'
  \/ KeepsPower(s) /\ AgentOf(s) = "serving" /\ AgentOf(s)' = "serving" /\ Marked(s)'
  \/ KeepsPower(s) /\ AgentOf(s) = "serving" /\ AgentOf(s)' = "none"
       /\ ((Marked(s) /\ ~Marked(s)') \/ KeepsMark(s))
  \/ Power(s) = "on" /\ AgentOf(s) \in {"none", "serving"}
       /\ Power(s)' = "stopping" /\ AgentOf(s)' = AgentOf(s) /\ KeepsMark(s)
  \/ Power(s) = "stopping" /\ Power(s)' = "off" /\ AgentOf(s)' = AgentOf(s) /\ Marked(s)'
  \/ Is(s, "unknown", "unknown")' /\ ~Marked(s)'

(* A step about one system is a step of PowerSwitch. *)
LEMMA OneSystemMoves ==
  ASSUME NEW s \in Systems,
         \A r \in Systems \ {s} : SameSwitch(r),
         SwitchMove(s),
         remove_from_q \subseteq Systems, remove_from_q' \subseteq Systems
  PROVE  Switch!Next \/ UNCHANGED Switch!vars
<1> DEFINE M == remove_from_q \ overlapped
<1>1. /\ Switch!Turn(s, Power(s)') /\ Switch!Becomes(s, AgentOf(s)')
      /\ KeepsPower(s) => UNCHANGED [r \in Systems |-> Power(r)]
      /\ AgentOf(s)' = AgentOf(s) => UNCHANGED [r \in Systems |-> AgentOf(r)]
  <2>1. \A r \in Systems \ {s} : Power(r)' = Power(r) /\ AgentOf(r)' = AgentOf(r)
    BY SameValues
  <2>2. QED BY <2>1 DEF Switch!Turn, Switch!Becomes, KeepsPower
<1>2. /\ KeepsMark(s) => M' = M
      /\ Marked(s)' => M' = M \cup {s}
      /\ ~Marked(s)' => M' = M \ {s}
      /\ Marked(s) <=> s \in M
  BY DEF SameSwitch, Marked, KeepsMark
<1> HIDE DEF M
<1>3. ASSUME KeepsMark(s), KeepsPower(s), AgentOf(s)' = AgentOf(s)
      PROVE  UNCHANGED Switch!vars
  BY <1>1, <1>2, <1>3 DEF M, Switch!vars
<1> DEFINE SwitchesOn == /\ KeepsMark(s)
                         /\ Is(s, "off", "none") /\ Is(s, "on", "due")'
           Boots == KeepsMark(s) /\ Is(s, "on", "due") /\ Is(s, "on", "booting")'
           GoesAway == /\ KeepsMark(s) /\ KeepsPower(s)
                       /\ AgentOf(s) \in {"booting", "serving"} /\ AgentOf(s)' = "none"
           SwitchesOff == /\ KeepsMark(s)
                          /\ Power(s) = "on" /\ AgentOf(s) \in {"none", "serving"}
                          /\ Power(s)' = "stopping" /\ AgentOf(s)' = AgentOf(s)
<1>4. ASSUME SwitchesOn
       PROVE  Switch!SwitchOn(s)
  BY <1>1, <1>2, <1>4 DEF M, Is, Switch!SwitchOn
<1>5. ASSUME Boots
       PROVE  Switch!Boot(s)
  <2>1. KeepsPower(s)
    BY <1>5 DEF Is, KeepsPower
  <2>2. QED BY <1>1, <1>2, <1>5, <2>1 DEF M, Is, Switch!Boot
<1>6. ASSUME GoesAway
       PROVE  Switch!BootFails(s) \/ Switch!Lose(s)
  BY <1>1, <1>2, <1>6 DEF M, Switch!BootFails, Switch!Lose
<1>7. ASSUME SwitchesOff
       PROVE  Switch!SwitchOff(s)
  BY <1>1, <1>2, <1>7 DEF M, Switch!SwitchOff
<1>8. ASSUME Is(s, "on", "booting"), Is(s, "on", "serving")', ~Marked(s), ~Marked(s)'
      PROVE  Switch!Join(s)
  <2>1. KeepsPower(s) /\ KeepsMark(s)
    BY <1>8 DEF Is, KeepsPower, KeepsMark
  <2>2. QED BY <1>1, <1>2, <1>8, <2>1 DEF M, Is, Switch!Join
<1>9. ASSUME KeepsPower(s), AgentOf(s) = "booting", AgentOf(s)' = "booting",
             Marked(s), ~Marked(s)'
      PROVE  Switch!Unmark(s)
  BY <1>1, <1>2, <1>9 DEF M, Switch!Unmark
<1>10. ASSUME KeepsPower(s), AgentOf(s) = "serving", AgentOf(s)' = "serving", Marked(s)'
      PROVE  Switch!NotFound(s)
  BY <1>1, <1>2, <1>10 DEF M, Switch!NotFound
<1>11. ASSUME KeepsPower(s), AgentOf(s) = "serving", AgentOf(s)' = "none",
             Marked(s), ~Marked(s)'
      PROVE  Switch!Leave(s)
  BY <1>1, <1>2, <1>11 DEF M, Switch!Leave
<1>12. ASSUME Power(s) = "stopping", Power(s)' = "off", AgentOf(s)' = AgentOf(s), Marked(s)'
      PROVE  Switch!Mark(s)
  BY <1>1, <1>2, <1>12 DEF M, Switch!Mark
<1>13. ASSUME Is(s, "unknown", "unknown")', ~Marked(s)'
      PROVE  Switch!Overlap(s)
  BY <1>1, <1>2, <1>13 DEF M, Is, Switch!Overlap
<1>14. QED
  <2>1. \/ KeepsPower(s) /\ AgentOf(s)' = AgentOf(s) /\ KeepsMark(s)
        \/ SwitchesOn \/ Boots \/ GoesAway \/ SwitchesOff
        \/ Switch!Join(s) \/ Switch!Unmark(s) \/ Switch!NotFound(s)
        \/ Switch!Leave(s) \/ Switch!Mark(s) \/ Switch!Overlap(s)
    BY <1>8, <1>9, <1>10, <1>11, <1>12, <1>13 DEF SwitchMove
  <2>2. QED BY <1>3, <1>4, <1>5, <1>6, <1>7, <2>1 DEF Switch!Next

(* What is true of a system whose notifications do not overlap. *)
LEMMA SwitchFacts ==
  ASSUME SInv, NEW s \in Systems \ overlapped
  PROVE  /\ Handled(s, "On") => ~Handled(s, "Off") /\ ~BootingOf(s) /\ ~ServingOf(s)
         /\ Handled(s, "Off") => ~BootingOf(s)
         /\ BootingOf(s) => Power(s) = "on" /\ AgentOf(s) = "booting" /\ ~ServingOf(s)
         /\ ServingOf(s) => AgentOf(s) = "serving"
         /\ \A a, b \in AgentsOf(s) : Live(a) /\ Live(b) => a = b
<1>1. /\ Alone(s) /\ LifecycleTypeOK /\ SingleCarrier
      /\ \A a, b \in AgentsOf(s) : Live(a) /\ Live(b) => a = b
  BY DEF SInv, IInv, Alone, OneLive
<1>2. Handled(s, "On") => ~Handled(s, "Off") /\ ~BootingOf(s) /\ ~ServingOf(s)
  <2>1. \A h \in Handlers : Handles(h, s, "On") => hpc[h] # "remove"
    BY DEF SInv, IInv, PowerOfLabel, Handles
  <2>2. QED
    BY <1>1, <2>1 DEF Alone, OneHandler, BootsFromNothing, Handled, Handles,
       BootingOf, ServingOf, Live
<1>3. Handled(s, "Off") => ~BootingOf(s)
  BY <1>1 DEF Alone, StopsTheRunning, Handled, BootingOf
<1>4. BootingOf(s) => s \in booted_q
  <2>1. Working(s) => Handled(s, "On") \/ Handled(s, "Off")
    BY LifecycleAssumption
       DEF Working, Handled, Handles, TooLate, SInv, IInv, LifecycleTypeOK, Requests,
           NoRequest
  <2>2. QED BY <1>1, <1>2, <1>3, <2>1 DEF Alone, OffIsMarked, BootingOf
<1>5. BootingOf(s) => ~ServingOf(s)
  <2>1. \A a \in AgentsOf(s) : InService(a) => ~Booting(a)
    BY <1>1, HeartbeaterAssumption
       DEF SingleCarrier, InService, InQueue, Held, Booting, AgentsOf, Range
  <2>2. QED BY <1>1, <2>1 DEF BootingOf, ServingOf, Live
<1>6. BootingOf(s) => Power(s) = "on" /\ AgentOf(s) = "booting"
  BY <1>2, <1>3, <1>4 DEF Power, AgentOf, BootingOf
<1>7. ServingOf(s) => AgentOf(s) = "serving"
  BY <1>2, <1>5 DEF AgentOf, BootingOf, ServingOf
<1>8. QED BY <1>1, <1>2, <1>3, <1>5, <1>6, <1>7

LEMMA OverlappedMoves ==
  ASSUME NEW s \in overlapped'
  PROVE  SwitchMove(s)
  BY DEF SwitchMove, Is, Power, AgentOf, Marked
(* A step is about s. *)
About(s) == (\A r \in Systems \ {s} : SameSwitch(r)) /\ SwitchMove(s)

LEMMA SeesNothing ==
  ASSUME \A s \in Systems : SameSwitch(s),
         remove_from_q \subseteq Systems, remove_from_q' \subseteq Systems
  PROVE  UNCHANGED Switch!vars
<1>1. \A s \in Systems : Power(s)' = Power(s) /\ AgentOf(s)' = AgentOf(s)
  BY SameValues
<1>2. (remove_from_q \ overlapped)' = remove_from_q \ overlapped
  BY DEF SameSwitch
<1>3. QED BY <1>1, <1>2 DEF Switch!vars

LEMMA SameMoves ==
  ASSUME NEW s \in Systems, SameSwitch(s)
  PROVE  SwitchMove(s)
  BY SameValues DEF SwitchMove, KeepsPower, KeepsMark, Marked, SameSwitch

(* What SameSwitch depends on. *)
LEMMA SameWhen ==
  ASSUME NEW s \in Systems,
         s \in overlapped' <=> s \in overlapped,
         s \in remove_from_q' <=> s \in remove_from_q,
         s \in booted_q' <=> s \in booted_q,
         \A h \in Handlers :
           \/ request'[h] = request[h] /\ hpc'[h] = hpc[h]
           \/ request'[h].system # s /\ request[h].system # s,
         \A a \in AgentsOf(s) : /\ Booting(a)' <=> Booting(a)
                                /\ InService(a)' <=> InService(a)
  PROVE  SameSwitch(s)
<1>1. Handled(s, "On")' <=> Handled(s, "On")
  BY DEF Handled, Handles, TooLate
<1>2. Handled(s, "Off")' <=> Handled(s, "Off")
  BY DEF Handled, Handles, TooLate
<1>3. /\ BootingOf(s)' <=> BootingOf(s)
      /\ ServingOf(s)' <=> ServingOf(s)
  BY DEF BootingOf, ServingOf, AgentsOf
<1>4. QED BY <1>1, <1>2, <1>3 DEF SameSwitch

(* Only a power-off can come too late. *)
LEMMA OnIsHandled ==
  ASSUME PowerOfLabel, PowerOfLabel', NEW s \in Systems
  PROVE  /\ Handled(s, "On") <=> \E h \in Handlers : Handles(h, s, "On")
         /\ Handled(s, "On")' <=> \E h \in Handlers : Handles(h, s, "On")'
<1>1. Handled(s, "On") <=> \E h \in Handlers : Handles(h, s, "On")
  BY DEF PowerOfLabel, Handled, Handles, TooLate
<1>2. Handled(s, "On")' <=> \E h \in Handlers : Handles(h, s, "On")'
  BY DEF PowerOfLabel, Handled, Handles, TooLate
<1>3. QED BY <1>1, <1>2

(* A notification arrives. *)
LEMMA ReceiveMoves ==
  ASSUME SInv, PowerOfLabel', NEW h \in Handlers, NEW s \in Systems,
         ReceiveOn(h, s) \/ ReceiveOff(h, s)
  PROVE  About(s)
<1>1. /\ LifecycleTypeOK /\ PowerOfLabel /\ request[h].system = None /\ None # s
      /\ UNCHANGED <<vars, booted_q, api, logger, boot, agents>>
      /\ overlapped' \in {overlapped, overlapped \cup {s}}
  BY LifecycleAssumption DEF SInv, IInv, LifecycleTypeOK, ReceiveOn, ReceiveOff
<1>2. PICK power \in {"On", "Off"}, label \in {"add", "remove"} :
        /\ request' = [request EXCEPT ![h] = [power |-> power, system |-> s]]
        /\ hpc' = [hpc EXCEPT ![h] = label]
        /\ power = "On" => s \notin booted_q /\ (s \notin overlapped' => ~NotYetOff(s))
        /\ power = "Off" => s \in booted_q /\ (s \notin overlapped' => ~NotYetOn(s))
  BY DEF ReceiveOn, ReceiveOff, Goto
<1>3. \A k \in Handlers :
        IF k = h THEN request'[k] = [power |-> power, system |-> s]
        ELSE request'[k] = request[k] /\ hpc'[k] = hpc[k]
  BY <1>1, <1>2 DEF LifecycleTypeOK
<1>4. \A a \in Agents : (Booting(a)' <=> Booting(a)) /\ (InService(a)' <=> InService(a))
  BY <1>1 DEF vars, Booting, InService, InQueue, Held
<1>5. \A r \in Systems \ {s} : SameSwitch(r)
  <2>1. \A r \in Systems \ {s}, k \in Handlers :
          \/ request'[k] = request[k] /\ hpc'[k] = hpc[k]
          \/ request'[k].system # r /\ request[k].system # r
    BY <1>1, <1>3, LifecycleAssumption
  <2>2. QED BY <1>1, <1>4, <2>1, SameWhen DEF vars, AgentsOf
<1>6. ASSUME s \notin overlapped'
      PROVE  SwitchMove(s)
  <2>1. s \notin overlapped /\ ~Working(s) /\ ~BootingOf(s)
    BY <1>1, <1>2, <1>6, BusyMeans DEF NotYetOff, NotYetOn, BootingOf, Live
  <2>2. ~Handled(s, "On")
    BY <1>1, <2>1, OnIsHandled DEF Handles, Working, PowerOfLabel
  <2>3. Handled(s, "On")' <=> power = "On"
    BY <1>1, <1>3, <2>2, OnIsHandled DEF Handles
  <2>4. /\ BootingOf(s)' <=> BootingOf(s)
        /\ ServingOf(s)' <=> ServingOf(s)
    BY <1>4 DEF BootingOf, ServingOf, AgentsOf
  <2>5. KeepsMark(s)
    BY <1>1, <1>6, <2>1 DEF KeepsMark, Marked, vars
  <2>6. CASE power = "On"
    <3>1. /\ ~ServingOf(s) /\ \A k \in Handlers : request[k].system # s
      BY <1>1, <1>2, <1>6, <2>6, BusyMeans DEF NotYetOff, ServingOf, Live
    <3>2. ~Handled(s, "Off") /\ ~Handled(s, "Off")'
      BY <1>3, <2>6, <3>1 DEF Handled, Handles
    <3>3. Is(s, "off", "none")
      BY <1>2, <2>1, <2>2, <2>6, <3>1, <3>2 DEF Is, Power, AgentOf, BootingOf, ServingOf
    <3>4. Is(s, "on", "due")'
      BY <1>6, <2>3, <2>6, <3>2 DEF Is, Power, AgentOf
    <3>5. QED BY <2>5, <3>3, <3>4 DEF SwitchMove
  <2>7. CASE power = "Off"
    <3>1. Handled(s, "Off")'
      BY <1>1, <1>2, <1>3, <2>7 DEF Handled, Handles, TooLate
    <3>2. Power(s) \in {"on", "stopping"} /\ AgentOf(s) \in {"none", "serving"}
      BY <1>2, <2>1, <2>2, <2>7 DEF Power, AgentOf, BootingOf
    <3>3. Power(s)' = "stopping"
      BY <1>6, <3>1 DEF Power
    <3>4. AgentOf(s)' = AgentOf(s)
      BY <1>6, <2>1, <2>2, <2>3, <2>4, <2>7 DEF AgentOf, BootingOf, ServingOf
    <3>5. QED BY <2>5, <3>2, <3>3, <3>4 DEF SwitchMove, KeepsPower
  <2>8. QED BY <2>6, <2>7
<1>7. QED BY <1>5, <1>6, OverlappedMoves DEF About

(* A handler goes on, and is done. *)
LEMMA GoesOnMoves ==
  ASSUME SInv, PowerOfLabel', NEW h \in Handlers, NEW s \in Systems,
         request[h].system = s,
         \/ AddBooted(h) \/ RemoveBooted(h) \/ CheckInitialized(h)
         \/ SetApi(h) \/ StartHeartbeaters(h)
  PROVE  About(s)
<1>1. /\ UNCHANGED <<queue, remove_from_q, entry, adding, request, boot, overlapped>>
      /\ \A r \in Systems \ {s} : r \in booted_q' <=> r \in booted_q
  BY DEF AddBooted, RemoveBooted, CheckInitialized, SetApi, StartHeartbeaters,
     RunHeartbeaterThreads, vars
<1>2. \A a \in Agents : (Booting(a)' <=> Booting(a)) /\ (InService(a)' <=> InService(a))
  BY <1>1 DEF Booting, InService, InQueue, Held
<1>3. /\ hpc'[h] # "remove" /\ ~TooLate(h)
      /\ \A k \in Handlers \ {h} : hpc'[k] = hpc[k]
  BY DEF AddBooted, RemoveBooted, CheckInitialized, SetApi, StartHeartbeaters, Goto,
     TooLate, SInv, IInv, LifecycleTypeOK
<1>4. \A r \in Systems \ {s} : SameSwitch(r)
  BY <1>1, <1>2, <1>3, SameWhen DEF AgentsOf
<1>5. ASSUME s \notin overlapped
      PROVE  SwitchMove(s)
  <2>1. Handled(s, request[h].power) /\ Handled(s, request[h].power)'
    BY <1>1, <1>3 DEF Handled, Handles, TooLate
  <2>2. Handled(s, "On")' <=> Handled(s, "On")
    <3>1. PowerOfLabel /\ request' = request
      BY <1>1 DEF SInv, IInv
    <3>2. QED BY <3>1, OnIsHandled DEF Handles
  <2>3. Handled(s, "Off")' <=> Handled(s, "Off")
    <3>1. CASE request[h].power = "Off"
      BY <1>1, <1>3, <3>1 DEF Handled, Handles, TooLate
    <3>2. CASE request[h].power = "On"
      <4>1. hpc[h] # "remove" /\ OneHandler(s)
        BY <1>5, <3>2 DEF SInv, IInv, PowerOfLabel, Alone
      <4>2. \A k \in Handlers : request[k].system = s => k = h
        BY <3>2, <4>1 DEF OneHandler
      <4>3. QED BY <1>1, <3>2, <4>2 DEF Handled, Handles
    <3>3. QED
      BY <3>1, <3>2, LifecycleAssumption
         DEF SInv, IInv, LifecycleTypeOK, Requests, NoRequest
  <2>4. Handled(s, "On") \/ Handled(s, "Off")
    BY <2>1, LifecycleAssumption DEF SInv, IInv, LifecycleTypeOK, Requests, NoRequest
  <2>5. /\ BootingOf(s)' <=> BootingOf(s)
        /\ ServingOf(s)' <=> ServingOf(s)
    BY <1>2 DEF BootingOf, ServingOf, AgentsOf
  <2>6. Power(s)' = Power(s) /\ AgentOf(s)' = AgentOf(s)
    BY <1>1, <2>2, <2>3, <2>4, <2>5 DEF Power, AgentOf, BootingOf, ServingOf
  <2>7. QED BY <1>1, <2>6 DEF SwitchMove, KeepsPower, KeepsMark, Marked
<1>6. QED BY <1>1, <1>4, <1>5, OverlappedMoves DEF About

LEMMA DoneMoves ==
  ASSUME SInv, NEW h \in Handlers, NEW s \in Systems, request[h].system = s,
         \/ RemoveBootedKeyError(h) \/ StartBoot(h) \/ RequestRemoval(h)
         \/ RequestRemovalAttributeError(h)
  PROVE  About(s)
<1>1. LifecycleTypeOK /\ SingleCarrier /\ PowerOfLabel
  BY DEF SInv, IInv
<1>2. /\ booted_q' = booted_q /\ overlapped' = overlapped
      /\ request' = [request EXCEPT ![h] = NoRequest]
      /\ hpc' = [hpc EXCEPT ![h] = "idle"]
      /\ \A r \in Systems \ {s} : r \in remove_from_q' <=> r \in remove_from_q
  BY DEF RemoveBootedKeyError, StartBoot, RequestRemoval, Done, Goto, vars,
     RequestRemovalAttributeError, RemoveFromHeartbeaterQ
<1>3. \A k \in Handlers :
        IF k = h THEN request'[k] = NoRequest
        ELSE request'[k] = request[k] /\ hpc'[k] = hpc[k]
  BY <1>1, <1>2 DEF LifecycleTypeOK
<1>4. \A a \in Agents : InService(a)' <=> InService(a)
  BY DEF RemoveBootedKeyError, StartBoot, RequestRemoval, vars, InService, InQueue,
     Held, RequestRemovalAttributeError, RemoveFromHeartbeaterQ
<1>5. \A a \in Agents : SystemOf[a] # s => (Booting(a)' <=> Booting(a))
  <2>1. CASE StartBoot(h)
    BY <1>1, <2>1, BootStarts DEF AgentsOf
  <2>2. CASE ~StartBoot(h)
    BY <2>2 DEF RemoveBootedKeyError, RequestRemoval, vars, Booting,
       RequestRemovalAttributeError, RemoveFromHeartbeaterQ
  <2>3. QED BY <2>1, <2>2
<1>6. \A r \in Systems \ {s} : SameSwitch(r)
  <2>1. \A r \in Systems, k \in Handlers : r # s =>
          \/ request'[k] = request[k] /\ hpc'[k] = hpc[k]
          \/ request'[k].system # r /\ request[k].system # r
    BY <1>3, LifecycleAssumption DEF NoRequest
  <2>2. QED BY <1>2, <1>4, <1>5, <2>1, SameWhen DEF AgentsOf
<1>7. ASSUME s \notin overlapped
      PROVE  SwitchMove(s)
  <2>1. Alone(s) /\ s \notin overlapped'
    BY <1>2, <1>7 DEF SInv, IInv
  <2>2. CASE RemoveBootedKeyError(h)
    <3>1. TooLate(h) /\ NoRequest.system # s
      BY <2>2, LifecycleAssumption DEF RemoveBootedKeyError, TooLate, NoRequest
    <3>2. \A power \in {"On", "Off"} : Handled(s, power)' <=> Handled(s, power)
      BY <1>2, <1>3, <3>1 DEF Handled, Handles, TooLate
    <3>3. UNCHANGED <<boot, adding, remove_from_q>>
      BY <2>2 DEF RemoveBootedKeyError, vars
    <3>4. SameSwitch(s)
      BY <1>2, <1>4, <3>2, <3>3 DEF SameSwitch, BootingOf, ServingOf, Booting, AgentsOf
    <3>5. QED BY <3>4, SameMoves
  <2>3. ServingOf(s)' <=> ServingOf(s)
    BY <1>4 DEF ServingOf, AgentsOf
  <2>4. ~RequestRemovalAttributeError(h)
    BY <2>1 DEF Alone, StopsTheRunning, Handles, RequestRemovalAttributeError
  <2>5. CASE StartBoot(h)
    <3>1. /\ Handled(s, "On") /\ s \in booted_q
          /\ ~Handled(s, "On")' /\ ~Handled(s, "Off")'
      <4>1. Handles(h, s, "On") /\ hpc[h] = "act"
        BY <2>5 DEF StartBoot, Handles
      <4>2. \A k \in Handlers : request'[k].system # s
        BY <1>3, <2>1, <4>1, LifecycleAssumption DEF Alone, OneHandler, Handles, NoRequest
      <4>3. QED
        BY <2>1, <4>1, <4>2 DEF Handled, Handles, TooLate, Alone, BootsFromNothing
    <3>2. Is(s, "on", "due")
      BY <1>7, <3>1, SwitchFacts DEF Is, Power, AgentOf
    <3>3. BootingOf(s)'
      <4>1. PICK a \in AgentsOf(s) : /\ boot[a] = "unborn"
                                     /\ boot' = [boot EXCEPT ![a] = "asleep"]
        BY <2>5 DEF StartBoot
      <4>2. boot'[a] = "asleep" /\ adding'[a] = "out"
        BY <1>1, <2>5, <4>1 DEF StartBoot, vars, LifecycleTypeOK, TypeOK, AgentsOf
      <4>3. QED BY <4>2 DEF BootingOf, Booting, AgentsOf
    <3>4. Is(s, "on", "booting")'
      BY <1>2, <2>1, <3>1, <3>3 DEF Is, Power, AgentOf, BootingOf
    <3>5. KeepsMark(s)
      BY <2>5, <1>2 DEF StartBoot, vars, KeepsMark, Marked
    <3>6. QED BY <3>2, <3>4, <3>5 DEF SwitchMove
  <2>6. CASE RequestRemoval(h)
    <3>1. /\ Handled(s, "Off") /\ s \notin booted_q
          /\ ~Handled(s, "On")' /\ ~Handled(s, "Off")'
      <4>1. Handles(h, s, "Off") /\ hpc[h] = "act"
        BY <2>6 DEF RequestRemoval, Handles
      <4>2. s \notin booted_q
        BY <2>1, <4>1 DEF Alone, StopsTheRunning
      <4>3. \A k \in Handlers : request'[k].system = s => k # h /\ hpc[k] = "remove"
        BY <1>3, <2>1, <4>1, LifecycleAssumption DEF Alone, OneHandler, Handles, NoRequest
      <4>4. \A k \in Handlers : request'[k].system = s => TooLate(k)'
        BY <1>2, <1>3, <4>2, <4>3 DEF TooLate
      <4>5. QED BY <4>1, <4>2, <4>4 DEF Handled, Handles, TooLate
    <3>2. Power(s) = "stopping" /\ Power(s)' = "off"
      BY <1>2, <1>7, <2>1, <3>1 DEF Power
    <3>3. ~Handled(s, "On")
      BY <1>7, <3>1, SwitchFacts
    <3>4. BootingOf(s)' <=> BootingOf(s)
      BY <2>6 DEF RequestRemoval, RemoveFromHeartbeaterQ, BootingOf, Booting, AgentsOf
    <3>5. AgentOf(s)' = AgentOf(s)
      BY <1>7, <2>1, <2>3, <3>1, <3>3, <3>4 DEF AgentOf, BootingOf, ServingOf
    <3>6. Marked(s)'
      BY <2>1, <2>6 DEF RequestRemoval, RemoveFromHeartbeaterQ, Marked
    <3>7. QED BY <3>2, <3>5, <3>6 DEF SwitchMove
  <2>7. QED BY <2>2, <2>4, <2>5, <2>6
<1>8. QED BY <1>2, <1>6, <1>7, OverlappedMoves DEF About

(* The boot thread of an agent, unless it is the last step of its boot. *)
LEMMA BootMoves ==
  ASSUME SInv, SInv', NEW a \in Agents, BootStep(a)
  PROVE  About(SystemOf[a])
<1> DEFINE s == SystemOf[a]
<1> USE HeartbeaterAssumption
<1>1. /\ LifecycleTypeOK /\ SingleCarrier /\ s \in Systems /\ a \in AgentsOf(s)
      /\ UNCHANGED <<booted_q, hpc, request, overlapped, entry>>
  BY DEF SInv, IInv, AgentsOf, BootStep, LookupFails, ProcessLookupData,
     LookupDataIncomplete, JoinHeartbeater, AddStep, AddToQ, Unmark, UnmarkKeyError,
     Enqueue, vars, lifecycle, notification
<1>2. \A b \in Agents \ {a} : (Booting(b)' <=> Booting(b)) /\ (InService(b)' <=> InService(b))
  <2>1. \A b \in Agents \ {a} : boot'[b] = boot[b] /\ adding'[b] = adding[b]
    BY <1>1 DEF BootStep, LookupFails, ProcessLookupData, LookupDataIncomplete,
       JoinHeartbeater, AddStep, AddToQ, Unmark, UnmarkKeyError, Enqueue, vars,
       lifecycle, LifecycleTypeOK, TypeOK
  <2>2. Range(queue') \in {Range(queue), Range(queue) \cup {a}}
    <3>1. CASE Enqueue(a)
      BY <1>1, <3>1, RangeAppend DEF Enqueue, LifecycleTypeOK, TypeOK
    <3>2. CASE ~Enqueue(a)
      BY <3>2 DEF BootStep, LookupFails, ProcessLookupData, LookupDataIncomplete,
         JoinHeartbeater, AddStep, AddToQ, Unmark, UnmarkKeyError, vars
    <3>3. QED BY <3>1, <3>2
  <2>3. QED BY <1>1, <2>1, <2>2 DEF Booting, InService, InQueue, Held
<1>3. \A r \in Systems \ {s} : r \in remove_from_q' <=> r \in remove_from_q
  BY DEF BootStep, LookupFails, ProcessLookupData, LookupDataIncomplete,
     JoinHeartbeater, AddStep, AddToQ, Unmark, UnmarkKeyError, Enqueue, vars
<1>4. \A r \in Systems \ {s} : SameSwitch(r)
  BY <1>1, <1>2, <1>3, SameWhen DEF AgentsOf
<1>5. ASSUME s \notin overlapped
      PROVE  SwitchMove(s)
  <2>1. /\ Booting(a) <=> boot[a] \in {"asleep", "registered"} /\ adding[a] \notin {"in", "failed"}
        /\ Booting(a)' <=> boot'[a] \in {"asleep", "registered"} /\ adding'[a] \notin {"in", "failed"}
    BY DEF Booting
  <2>2. Booting(a)
    BY <1>1, <2>1 DEF BootStep, LookupFails, ProcessLookupData, LookupDataIncomplete,
       JoinHeartbeater, AddStep, AddToQ, Unmark, UnmarkKeyError, Enqueue,
       LifecycleTypeOK
  <2>3. /\ BootingOf(s) /\ ~ServingOf(s) /\ ~InService(a)
        /\ Power(s) = "on" /\ AgentOf(s) = "booting" /\ ~Handled(s, "On")
        /\ \A b \in AgentsOf(s) : b # a => ~Booting(b) /\ ~InService(b)
    BY <1>1, <1>5, <2>2, SwitchFacts DEF BootingOf, ServingOf, Live
  <2>4. Power(s)' = Power(s) /\ ~Handled(s, "On")'
    BY <1>1, <1>5, <2>3 DEF Power, Handled, Handles, TooLate
  <2>5. \A b \in AgentsOf(s) : b # a => ~Booting(b)' /\ ~InService(b)'
    BY <1>2, <2>3 DEF AgentsOf
  <2>6. AgentOf(s)' = IF Booting(a)' THEN "booting"
                      ELSE IF InService(a)' THEN "serving" ELSE "none"
    BY <1>1, <1>5, <2>4, <2>5 DEF AgentOf, AgentsOf
  <2> HIDE DEF s
  <2>7. CASE LookupFails(a) \/ LookupDataIncomplete(a)
    <3>1. /\ ~Booting(a)' /\ ~InService(a)' /\ remove_from_q' = remove_from_q
      BY <1>1, <2>1, <2>3, <2>7 DEF LookupFails, LookupDataIncomplete, LifecycleTypeOK,
         vars, InService, InQueue, Held
    <3>2. QED
      BY <1>1, <2>3, <2>4, <2>6, <3>1 DEF SwitchMove, KeepsPower, KeepsMark, Marked
  <2>8. CASE ProcessLookupData(a) \/ (JoinHeartbeater(a) /\ AddToQ(a))
    <3>1. /\ Booting(a)' /\ remove_from_q' = remove_from_q
      BY <1>1, <2>1, <2>2, <2>8 DEF ProcessLookupData, JoinHeartbeater, AddToQ,
         LifecycleTypeOK, TypeOK, vars, lifecycle
    <3>2. QED
      BY <1>1, <2>3, <2>4, <2>6, <3>1 DEF SwitchMove, KeepsPower, KeepsMark, Marked
  <2>9. CASE JoinHeartbeater(a) /\ Unmark(a)
    <3>1. /\ Booting(a)' /\ s \in remove_from_q /\ s \notin remove_from_q'
      BY <1>1, <2>1, <2>2, <2>9 DEF JoinHeartbeater, Unmark, LifecycleTypeOK, TypeOK,
         lifecycle, s
    <3>2. QED
      BY <1>1, <1>5, <2>3, <2>4, <2>6, <3>1 DEF SwitchMove, KeepsPower, Marked
  <2>10. ~UnmarkKeyError(a)
    BY <1>1, <1>5 DEF UnmarkKeyError, SInv, IInv, Alone, MarksStay, s
  <2>11. CASE JoinHeartbeater(a) /\ Enqueue(a)
    <3>1. adding'[a] = "in" /\ remove_from_q' = remove_from_q /\ s \notin remove_from_q
      BY <1>1, <1>5, <2>11 DEF Enqueue, LifecycleTypeOK, TypeOK, SInv, JoinsUnmarked, s
    <3>2. InService(a)'
      BY <1>1, <2>11, RangeAppend DEF Enqueue, InService, InQueue, LifecycleTypeOK, TypeOK
    <3>3. ~Booting(a)' /\ Is(s, "on", "booting") /\ Is(s, "on", "serving")'
      BY <2>1, <2>3, <2>4, <2>6, <3>1, <3>2 DEF Is
    <3>4. QED BY <3>1, <3>3 DEF SwitchMove, Marked
  <2>12. QED
    BY <2>7, <2>8, <2>9, <2>10, <2>11 DEF BootStep, JoinHeartbeater, AddStep
<1>6. QED BY <1>1, <1>4, <1>5, OverlappedMoves DEF About

(* A heartbeat thread. *)
LEMMA HeartbeatMoves ==
  ASSUME SInv, NEW t \in Threads, HeartbeatStep(t)
  PROVE  (\E s \in Systems : About(s)) \/ \A s \in Systems : SameSwitch(s)
<1> USE HeartbeaterAssumption
<1>1. /\ LifecycleTypeOK /\ TypeOK /\ SingleCarrier /\ ThreadStep(t)
      /\ UNCHANGED <<booted_q, hpc, request, overlapped, boot, adding>>
  BY DEF SInv, IInv, LifecycleTypeOK, HeartbeatStep, ThreadStep, PopLeft, CheckRemoved,
     Drop, DropKeyError, Die, HeartbeatExpected, PrintQ, PrintQRuntimeError, lifecycle,
     HeartbeatAnswered, HeartbeatNotFound, Requeue
<1>2. \A a \in Agents : Booting(a)' <=> Booting(a)
  BY <1>1 DEF Booting
<1>3. CASE Drop(t) \/ DropKeyError(t) \/ PrintQRuntimeError(t)
  <2>1. PICK a \in Agents :
          /\ entry[t] = a /\ InService(a) /\ ~InService(a)'
          /\ \A b \in Agents \ {a} : InService(b)' <=> InService(b)
    BY <1>1, <1>3, ThreadLetsGo
  <2> DEFINE s == SystemOf[a]
  <2>2. s \in Systems /\ a \in AgentsOf(s)
    BY DEF AgentsOf
  <2>3. \A r \in Systems \ {s} : r \in remove_from_q' <=> r \in remove_from_q
    BY <1>3, <2>1 DEF Drop, DropKeyError, PrintQRuntimeError, Die
  <2>4. \A r \in Systems \ {s} : SameSwitch(r)
    BY <1>1, <1>2, <2>1, <2>3, SameWhen DEF AgentsOf
  <2>5. ASSUME s \notin overlapped
        PROVE  SwitchMove(s)
    <3>1. ServingOf(s) /\ AgentOf(s) = "serving" /\ ~BootingOf(s) /\ ~Handled(s, "On")
      BY <2>1, <2>2, <2>5, SwitchFacts DEF ServingOf
    <3>2. ~ServingOf(s)'
      BY <2>1, <2>2, <2>5, SwitchFacts DEF ServingOf, AgentsOf, Live
    <3>3. KeepsPower(s) /\ ~Handled(s, "On")' /\ (BootingOf(s)' <=> BootingOf(s))
      BY <1>1, <1>2, <3>1 DEF KeepsPower, Power, Handled, Handles, TooLate, BootingOf,
         AgentsOf
    <3>4. AgentOf(s)' = "none"
      BY <1>1, <2>5, <3>1, <3>2, <3>3 DEF AgentOf, BootingOf, ServingOf
    <3>5. (Marked(s) /\ ~Marked(s)') \/ KeepsMark(s)
      BY <1>1, <1>3, <2>1, <2>5
         DEF Drop, DropKeyError, PrintQRuntimeError, Die, Marked, KeepsMark
    <3>6. QED BY <3>1, <3>3, <3>4, <3>5 DEF SwitchMove
  <2>6. QED BY <1>1, <2>2, <2>4, <2>5, OverlappedMoves DEF About
<1>4. CASE HeartbeatNotFound(t)
  <2>1. PICK a \in Agents : entry[t] = a /\ InService(a)
    BY <1>1, <1>4 DEF HeartbeatNotFound, TypeOK, Carrying, InService, Held
  <2> DEFINE s == SystemOf[a]
  <2>2. s \in Systems /\ a \in AgentsOf(s)
    BY DEF AgentsOf
  <2>3. \A b \in Agents : InService(b)' <=> InService(b)
    BY <1>4 DEF HeartbeatNotFound, InService, InQueue, Held
  <2>4. remove_from_q' = remove_from_q \cup {s}
    BY <1>4, <2>1 DEF HeartbeatNotFound
  <2>5. \A r \in Systems \ {s} : SameSwitch(r)
    BY <1>1, <1>2, <2>3, <2>4, SameWhen DEF AgentsOf
  <2>6. ASSUME s \notin overlapped
        PROVE  SwitchMove(s)
    <3>1. AgentOf(s) = "serving"
      BY <2>1, <2>2, <2>6, SwitchFacts DEF ServingOf
    <3>2. KeepsPower(s) /\ AgentOf(s)' = AgentOf(s)
      BY <1>1, <1>2, <2>3 DEF KeepsPower, Power, AgentOf, Handled, Handles, TooLate,
         AgentsOf
    <3>3. Marked(s)'
      BY <1>1, <2>4, <2>6 DEF Marked
    <3>4. QED BY <3>1, <3>2, <3>3 DEF SwitchMove
  <2>7. QED BY <1>1, <2>2, <2>5, <2>6, OverlappedMoves DEF About
<1>5. CASE ~(Drop(t) \/ DropKeyError(t) \/ PrintQRuntimeError(t) \/ HeartbeatNotFound(t))
  <2>1. remove_from_q' = remove_from_q
    BY <1>1, <1>5 DEF ThreadStep, PopLeft, CheckRemoved, HeartbeatExpected, PrintQ,
       HeartbeatAnswered, Requeue
  <2>2. QED BY <1>1, <1>2, <1>5, <2>1, ThreadKeepsService, SameWhen DEF AgentsOf
<1>6. QED BY <1>3, <1>4, <1>5

LEMMA NextSwitch ==
  ASSUME SInv, SInv', [LifecycleNext]_lifecycle_vars
  PROVE  [Switch!Next]_(Switch!vars)
<1>1. /\ LifecycleTypeOK
      /\ remove_from_q \subseteq Systems /\ remove_from_q' \subseteq Systems
  BY DEF SInv, IInv, LifecycleTypeOK, TypeOK
<1>2. (\E s \in Systems : About(s)) => (Switch!Next \/ UNCHANGED Switch!vars)
  BY <1>1, OneSystemMoves DEF About
<1>3. (\A s \in Systems : SameSwitch(s)) => UNCHANGED Switch!vars
  BY <1>1, SeesNothing
<1>4. ASSUME NEW h \in Handlers, NEW s \in Systems, ReceiveOn(h, s) \/ ReceiveOff(h, s)
      PROVE  \E r \in Systems : About(r)
  BY <1>4, ReceiveMoves DEF SInv, IInv
<1>5. ASSUME NEW h \in Handlers, HandlerStep(h)
      PROVE  \E r \in Systems : About(r)
  <2>1. request[h].system \in Systems
    BY <1>1, <1>5 DEF LifecycleTypeOK, Requests, HandlerStep, AddBooted, RemoveBooted,
       RemoveBootedKeyError, CheckInitialized, SetApi, StartHeartbeaters, StartBoot,
       RequestRemoval, RequestRemovalAttributeError
  <2>2. QED BY <1>5, <2>1, GoesOnMoves, DoneMoves DEF HandlerStep, SInv, IInv
<1>6. ASSUME NEW a \in Agents, BootStep(a)
      PROVE  \E r \in Systems : About(r)
  BY <1>6, BootMoves, HeartbeaterAssumption
<1>7. ASSUME \/ \E a \in Agents : TimePasses(a)
             \/ UNCHANGED lifecycle_vars
      PROVE  \A s \in Systems : SameSwitch(s)
  <2>1. UNCHANGED <<queue, remove_from_q, entry, adding, boot, hpc, request, booted_q,
                    overlapped>>
    BY <1>7 DEF TimePasses, Tick, lifecycle_vars, vars, lifecycle, notification
  <2>2. \A a \in Agents : (Booting(a)' <=> Booting(a)) /\ (InService(a)' <=> InService(a))
    BY <2>1 DEF Booting, InService, InQueue, Held
  <2>3. QED BY <2>1, <2>2, SameWhen DEF AgentsOf
<1>8. QED
  BY <1>2, <1>3, <1>4, <1>5, <1>6, <1>7, HeartbeatMoves DEF LifecycleNext

(* The program implements PowerSwitch: each time that a system is switched *)
(* on it boots one agent, after the last one has left and without its      *)
(* mark, and a system that counts as off has its agent marked.             *)
THEOREM ImplementsPowerSwitch == LifecycleSpec => SwitchSpec
<1>1. LifecycleInit => Switch!Init
  <2>1. ASSUME LifecycleInit, NEW s \in Systems
        PROVE  Power(s) = "off" /\ AgentOf(s) = "none"
    <3>1. /\ \A h \in Handlers : request[h].system # s
          /\ s \notin overlapped /\ s \notin booted_q
      BY <2>1, LifecycleAssumption DEF LifecycleInit, NoRequest
    <3>2. \A a \in Agents : ~Booting(a) /\ ~InService(a)
      BY <2>1, HeartbeaterAssumption
         DEF LifecycleInit, Init, Booting, InService, InQueue, Held, Range
    <3>3. QED BY <3>1, <3>2 DEF Power, AgentOf, Handled, Handles, AgentsOf
  <2>2. LifecycleInit => remove_from_q = {}
    BY DEF LifecycleInit, Init
  <2>3. QED BY <2>1, <2>2 DEF Switch!Init
<1>2. QED
  BY <1>1, SwitchInvariant, NextSwitch, PTL DEF LifecycleSpec, SwitchSpec, Switch!Spec
=============================================================================
