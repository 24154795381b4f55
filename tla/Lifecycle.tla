----------------------------- MODULE Lifecycle -----------------------------
(***************************************************************************)
(* The life of fake agents: power notifications handled by Flask threads   *)
(* (fake_ipa/main.py), the agents they boot (fake_ipa/fake_agent.py), and  *)
(* the heartbeater that the agents join and are taken out of.              *)
(*                                                                         *)
(* Flask handles every request in a thread of its own and the program      *)
(* takes no lock, so a step of a handler is one operation on what the      *)
(* threads share: booted_q, app.agents, the class attributes that say      *)
(* whether the classes are initialised, and the heartbeater.  A            *)
(* notification that finds nothing to do changes nothing and is no step.   *)
(* The node uuid under which Ironic knows a system stands for the system.  *)
(***************************************************************************)
EXTENDS Heartbeater, FiniteSets

CONSTANTS
  Handlers,  \* Flask threads
  PoolOf     \* the heartbeat threads that each of them would start

ASSUME LifecycleAssumption ==
  /\ PoolOf \in [Handlers -> SUBSET Threads]
  /\ \A h, k \in Handlers : h # k => PoolOf[h] \cap PoolOf[k] = {}
  /\ None \notin Systems

VARIABLES
  booted_q,   \* app.booted_q
  api,        \* hasattr(FakeIronicPythonAgent, 'api')
  logger,     \* hasattr(Heatbeater, '_logger')
  hpc,        \* where each Flask thread is in notification_handler
  request,    \* the power state and the system of its notification
  boot,       \* how far each agent is in FakeIronicPythonAgent.boot
  agents,     \* app.agents
  overlapped  \* history: systems for which a notification was acted upon
              \* before the opposite one was settled, or a power-off while
              \* another system's handler was initialising the classes

notification == <<hpc, request>>
lifecycle == <<booted_q, api, logger, hpc, request, boot, agents, overlapped>>

HandlerLabels == {"idle", "add", "remove", "hasattr", "initialize", "threads", "act"}
Requests == [power : {"On", "Off"}, system : Systems \cup {None}]
NoRequest == [power |-> "Off", system |-> None]

AgentsOf(s) == {a \in Agents : SystemOf[a] = s}

LifecycleInit ==
  /\ Init
  /\ booted_q = {}
  /\ api = FALSE
  /\ logger = FALSE
  /\ hpc = [h \in Handlers |-> "idle"]
  /\ request = [h \in Handlers |-> NoRequest]
  /\ boot = [a \in Agents |-> "unborn"]
  /\ agents = [s \in Systems |-> None]
  /\ overlapped = {}

-----------------------------------------------------------------------------
(* What still is under way for a system. *)

Busy(s) == \E h \in Handlers : hpc[h] # "idle" /\ request[h].system = s
Booting(a) ==
  boot[a] \in {"asleep", "registered"} /\ adding[a] \notin {"in", "failed"}
Live(a) == Booting(a) \/ InService(a)

(* A handler of s has left is_booted and remove behind it. *)
Working(s) == \E h \in Handlers : request[h].system = s /\ hpc[h] # "remove"

(* What keeps s from being off: a notification that is handled, a boot, or  *)
(* an agent that is still to be taken out; and from being on: a power       *)
(* change that is carried out, or a boot.  Power-offs may come as many as   *)
(* they like: the first of them to remove s carries it out, the others end  *)
(* in a KeyError.                                                           *)
NotYetOff(s) ==
  \/ Busy(s)
  \/ \E a \in AgentsOf(s) : Booting(a) \/ (s \notin booted_q /\ InService(a))
NotYetOn(s) == Working(s) \/ \E a \in AgentsOf(s) : Booting(a)

(* Bound: at most Cardinality(AgentsOf(s)) boots of a system. *)
RoomFor(s) ==
  Cardinality({a \in AgentsOf(s) : boot[a] = "unborn"})
    > Cardinality({h \in Handlers : request[h] = [power |-> "On", system |-> s]})

-----------------------------------------------------------------------------
(* notification_handler *)

Goto(h, label) == hpc' = [hpc EXCEPT ![h] = label]

Done(h) == Goto(h, "idle") /\ request' = [request EXCEPT ![h] = NoRequest]

(* Mutant: is_booted is not asked. *)
ReceiveOnUnchecked(h, s) ==
  /\ hpc[h] = "idle"
  /\ RoomFor(s)
  /\ Goto(h, "add")
  /\ request' = [request EXCEPT ![h] = [power |-> "On", system |-> s]]
  /\ overlapped' = IF NotYetOff(s) THEN overlapped \cup {s} ELSE overlapped
  /\ UNCHANGED <<vars, booted_q, api, logger, boot, agents>>

(* 'On' for a system that is not booted and does not boot from disk *)
ReceiveOn(h, s) ==
  /\ hpc[h] = "idle"
  /\ s \notin booted_q
  /\ RoomFor(s)
  /\ Goto(h, "add")
  /\ request' = [request EXCEPT ![h] = [power |-> "On", system |-> s]]
  /\ overlapped' = IF NotYetOff(s) THEN overlapped \cup {s} ELSE overlapped
  /\ UNCHANGED <<vars, booted_q, api, logger, boot, agents>>

(* any other power state, for a system that is booted *)
ReceiveOff(h, s) ==
  /\ hpc[h] = "idle"
  /\ s \in booted_q
  /\ Goto(h, "remove")
  /\ request' = [request EXCEPT ![h] = [power |-> "Off", system |-> s]]
  /\ overlapped' = IF NotYetOn(s) \/ (api /\ ~logger)
                   THEN overlapped \cup {s} ELSE overlapped
  /\ UNCHANGED <<vars, booted_q, api, logger, boot, agents>>

AddBooted(h) ==
  /\ hpc[h] = "add"
  /\ booted_q' = booted_q \cup {request[h].system}
  /\ Goto(h, "hasattr")
  /\ UNCHANGED <<vars, request, api, logger, boot, agents, overlapped>>

(* Mutant: the system stays in booted_q. *)
RemoveBootedForgotten(h) ==
  /\ hpc[h] = "remove"
  /\ request[h].system \in booted_q
  /\ Goto(h, "hasattr")
  /\ UNCHANGED <<vars, booted_q, request, api, logger, boot, agents, overlapped>>

(* Mutant: discard, which does not mind that the system is not there. *)
RemoveBootedDiscard(h) ==
  /\ hpc[h] = "remove"
  /\ booted_q' = booted_q \ {request[h].system}
  /\ Goto(h, "hasattr")
  /\ UNCHANGED <<vars, request, api, logger, boot, agents, overlapped>>

RemoveBooted(h) ==
  /\ hpc[h] = "remove"
  /\ request[h].system \in booted_q
  /\ booted_q' = booted_q \ {request[h].system}
  /\ Goto(h, "hasattr")
  /\ UNCHANGED <<vars, request, api, logger, boot, agents, overlapped>>

(* Another handler removed it since is_booted: KeyError, and a 500. *)
RemoveBootedKeyError(h) ==
  /\ hpc[h] = "remove"
  /\ request[h].system \notin booted_q
  /\ Done(h)
  /\ UNCHANGED <<vars, booted_q, api, logger, boot, agents, overlapped>>

(* Both boot and remove_from_heartbeater initialise the classes first. *)
CheckInitialized(h) ==
  /\ hpc[h] = "hasattr"
  /\ Goto(h, IF api THEN "act" ELSE "initialize")
  /\ UNCHANGED <<vars, request, booted_q, api, logger, boot, agents, overlapped>>

SetApi(h) ==
  /\ hpc[h] = "initialize"
  /\ api' = TRUE
  /\ Goto(h, "threads")
  /\ UNCHANGED <<vars, request, booted_q, logger, boot, agents, overlapped>>

StartHeartbeaters(h) ==
  /\ hpc[h] = "threads"
  /\ logger' = TRUE
  /\ RunHeartbeaterThreads(PoolOf[h])
  /\ Goto(h, "act")
  /\ UNCHANGED <<request, booted_q, api, boot, agents, overlapped>>

(* boot: a new agent and its thread *)
StartBoot(h) ==
  /\ hpc[h] = "act"
  /\ request[h].power = "On"
  /\ \E a \in AgentsOf(request[h].system) :
       /\ boot[a] = "unborn"
       /\ boot' = [boot EXCEPT ![a] = "asleep"]
  /\ Done(h)
  /\ UNCHANGED <<vars, booted_q, api, logger, agents, overlapped>>

(* Mutant: the heartbeater is not told. *)
RequestRemovalForgotten(h) ==
  /\ hpc[h] = "act"
  /\ request[h].power = "Off"
  /\ Done(h)
  /\ UNCHANGED <<vars, booted_q, api, logger, boot, agents, overlapped>>

RequestRemoval(h) ==
  /\ hpc[h] = "act"
  /\ request[h].power = "Off"
  /\ logger
  /\ RemoveFromHeartbeaterQ(request[h].system)
  /\ Done(h)
  /\ UNCHANGED <<booted_q, api, logger, boot, agents, overlapped>>

(* Heatbeater._logger is not there before the class is initialised. *)
RequestRemovalAttributeError(h) ==
  /\ hpc[h] = "act"
  /\ request[h].power = "Off"
  /\ ~logger
  /\ Done(h)
  /\ UNCHANGED <<vars, booted_q, api, logger, boot, agents, overlapped>>

HandlerStep(h) ==
  \/ AddBooted(h)
  \/ RemoveBooted(h)
  \/ RemoveBootedKeyError(h)
  \/ CheckInitialized(h)
  \/ SetApi(h)
  \/ StartHeartbeaters(h)
  \/ StartBoot(h)
  \/ RequestRemoval(h)
  \/ RequestRemovalAttributeError(h)

-----------------------------------------------------------------------------
(* FakeIronicPythonAgent.boot: it sleeps, sends inspection data whose loss *)
(* is ignored, and looks the node up.                                      *)

(* LookupNodeError after lookup_timeout ends the boot thread. *)
LookupFails(a) ==
  /\ boot[a] = "asleep"
  /\ boot' = [boot EXCEPT ![a] = "failed"]
  /\ UNCHANGED <<vars, booted_q, api, logger, notification, agents, overlapped>>

(* Mutant: setdefault, which keeps the agent of an earlier boot. *)
ProcessLookupDataKeepsOld(a) ==
  /\ boot[a] = "asleep"
  /\ boot' = [boot EXCEPT ![a] = "registered"]
  /\ agents' = [agents EXCEPT ![SystemOf[a]] = IF @ = None THEN a ELSE @]
  /\ UNCHANGED <<vars, booted_q, api, logger, notification, overlapped>>

(* process_lookup_data registers the agent, *)
ProcessLookupData(a) ==
  /\ boot[a] = "asleep"
  /\ boot' = [boot EXCEPT ![a] = "registered"]
  /\ agents' = [agents EXCEPT ![SystemOf[a]] = a]
  /\ UNCHANGED <<vars, booted_q, api, logger, notification, overlapped>>

(* and only then finds the heartbeat_timeout missing (KeyError), or the    *)
(* token masked (agent_token_required was never set: AttributeError).      *)
LookupDataIncomplete(a) ==
  /\ boot[a] = "registered"
  /\ adding[a] = "out"
  /\ boot' = [boot EXCEPT ![a] = "failed"]
  /\ UNCHANGED <<vars, booted_q, api, logger, notification, agents, overlapped>>

(* Mutant: the agent joins before its lookup. *)
JoinHeartbeaterFirst(a) ==
  /\ boot[a] \in {"asleep", "registered"}
  /\ AddStep(a)
  /\ UNCHANGED lifecycle

JoinHeartbeater(a) ==
  /\ boot[a] = "registered"
  /\ AddStep(a)
  /\ UNCHANGED lifecycle

BootStep(a) ==
  \/ LookupFails(a)
  \/ ProcessLookupData(a)
  \/ LookupDataIncomplete(a)
  \/ JoinHeartbeater(a)

HeartbeatStep(t) == ThreadStep(t) /\ UNCHANGED lifecycle
TimePasses(a) == Tick(a) /\ UNCHANGED lifecycle

LifecycleNext ==
  \/ \E h \in Handlers :
       HandlerStep(h) \/ \E s \in Systems : ReceiveOn(h, s) \/ ReceiveOff(h, s)
  \/ \E a \in Agents : BootStep(a) \/ TimePasses(a)
  \/ \E t \in Threads : HeartbeatStep(t)

lifecycle_vars == <<vars, lifecycle>>

LifecycleSpec == LifecycleInit /\ [][LifecycleNext]_lifecycle_vars

(* The scheduler runs every handler and heartbeat thread, and time passes. *)
(* Nothing obliges the power state to change or a lookup to be answered.   *)
LifecycleFairness ==
  /\ \A h \in Handlers : WF_lifecycle_vars(HandlerStep(h))
  /\ \A t \in Threads : WF_lifecycle_vars(HeartbeatStep(t))
  /\ \A a \in Agents : WF_lifecycle_vars(TimePasses(a))

FairLifecycleSpec == LifecycleSpec /\ LifecycleFairness

-----------------------------------------------------------------------------
(* Properties *)

(* Every variable keeps its type, a handler knows its system while it has  *)
(* one, and only a registered agent joins the heartbeater.                 *)
LifecycleTypeOK ==
  /\ TypeOK
  /\ booted_q \in SUBSET Systems
  /\ api \in BOOLEAN
  /\ logger \in BOOLEAN
  /\ hpc \in [Handlers -> HandlerLabels]
  /\ request \in [Handlers -> Requests]
  /\ boot \in [Agents -> {"unborn", "asleep", "registered", "failed"}]
  /\ agents \in [Systems -> Agents \cup {None}]
  /\ overlapped \in SUBSET Systems
  /\ \A h \in Handlers : hpc[h] = "idle" <=> request[h].system = None
  /\ \A a \in Agents : adding[a] # "out" => boot[a] = "registered"

(* The callback URL of a heartbeat names the node, and Ironic then calls   *)
(* it: whenever an agent is heartbeated, app.agents has an agent of its    *)
(* system that completed its lookup, the agent itself unless the system    *)
(* was booted again.                                                       *)
CallbackResolves ==
  \A a \in Agents : InService(a) =>
    LET served == agents[SystemOf[a]] IN
      /\ served \in AgentsOf(SystemOf[a])
      /\ boot[served] \in {"registered", "failed"}
      /\ SystemOf[a] \notin overlapped => served = a

(* The test of booted_q and the later removal mark are meant to keep one   *)
(* agent per system: there is one, unless notifications overlapped.        *)
OneLiveAgent ==
  \A a, b \in Agents :
    Live(a) /\ Live(b) /\ SystemOf[a] = SystemOf[b] /\ a # b
      => SystemOf[a] \in overlapped

(* notification_handler shuts the agent of a system down: once the handler *)
(* is done and its mark used up, no agent of the system is heartbeated or  *)
(* about to be.                                                            *)
ShutDown(s) ==
  s \notin booted_q /\ ~Busy(s) /\ s \notin remove_from_q
    => \A a \in AgentsOf(s) : ~Live(a)

(* It does so unless notifications for the system overlapped.              *)
OffTakesEffectAlone == \A s \in Systems : s \notin overlapped => ShutDown(s)

(* It does so always: what the processing logic in the docstring of        *)
(* notification_handler says.                                              *)
OffTakesEffect == \A s \in Systems : ShutDown(s)

(* A heartbeat or boot thread that has seen a removal mark finds it there  *)
(* when it removes it, and does not die of KeyError, unless notifications  *)
(* for the system overlapped.                                              *)
MarkKeptAlone ==
  /\ \A t \in Threads :
       pc[t] = "drop" => SystemOf[entry[t]] \in remove_from_q \cup overlapped
  /\ \A a \in Agents :
       adding[a] = "unmark" => SystemOf[a] \in remove_from_q \cup overlapped

(* A mark that no agent was left to use up, of a boot that failed or that  *)
(* died with its thread, must not take out the agent of the next boot: one *)
(* that is about to be appended has none, unless notifications overlapped. *)
JoinsUnmarked ==
  \A a \in Agents :
    adding[a] = "append" /\ SystemOf[a] \notin overlapped
      => SystemOf[a] \notin remove_from_q

(* An agent of a system that is on is not taken out by mistake: while its  *)
(* system is in booted_q only a heartbeat of its own that Ironic answers   *)
(* with not found marks it, no late power-off and no agent of an earlier   *)
(* boot, unless notifications overlapped.                                  *)
MarkedByItselfWhileOn ==
  [][\A a \in Agents :
       /\ InService(a)
       /\ SystemOf[a] \in booted_q
       /\ SystemOf[a] \in remove_from_q' \ (remove_from_q \cup overlapped')
       => \E t \in Threads : entry[t] = a /\ HeartbeatNotFound(t)]_lifecycle_vars

(* The power of a system and its agent, as PowerSwitch sees them.  A        *)
(* power-off that comes too late to remove the system is none.             *)
Handles(h, s, p) == request[h].system = s /\ request[h].power = p
TooLate(h) == hpc[h] = "remove" /\ request[h].system \notin booted_q
Handled(s, p) == \E h \in Handlers : Handles(h, s, p) /\ ~TooLate(h)

Power(s) ==
  IF s \in overlapped THEN "unknown"
  ELSE IF Handled(s, "Off") THEN "stopping"
  ELSE IF Handled(s, "On") \/ s \in booted_q THEN "on" ELSE "off"

AgentOf(s) ==
  IF s \in overlapped THEN "unknown"
  ELSE IF Handled(s, "On") THEN "due"
  ELSE IF \E a \in AgentsOf(s) : Booting(a) THEN "booting"
  ELSE IF \E a \in AgentsOf(s) : InService(a) THEN "serving" ELSE "none"

Switch == INSTANCE PowerSwitch WITH
  power <- [s \in Systems |-> Power(s)],
  agent <- [s \in Systems |-> AgentOf(s)],
  marked <- remove_from_q \ overlapped

(* The handlers, boots and heartbeats together keep what PowerSwitch        *)
(* promises: one boot for each time that a system is switched on, only      *)
(* after the last agent has left, none that joins with the mark of another, *)
(* and a mark for the agent of a system before that counts as off.          *)
SwitchSpec == Switch!Spec

(* A system is booted again only after it was switched off: two handlers   *)
(* are not both on their way to boot it.  The note in the docstring of     *)
(* notification_handler says that duplicate updates are ignored.           *)
DuplicateOnIgnored ==
  \A h, k \in Handlers :
    h # k /\ request[h].power = "On" /\ request[k].power = "On"
      => request[h].system # request[k].system

(* A system that is switched off, and not switched on again, goes quiet,   *)
(* as long as notifications for it do not overlap and a heartbeat thread   *)
(* is left to take its agent out.                                          *)
SwitchedOffGoesQuiet ==
  \A s \in Systems :
    s \notin booted_q
      ~> \/ s \in booted_q \cup overlapped
         \/ \A a \in AgentsOf(s) : ~InService(a)
         \/ NoThreadLeft
=============================================================================
