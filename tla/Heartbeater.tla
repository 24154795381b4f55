---------------------------- MODULE Heartbeater ----------------------------
(***************************************************************************)
(* fake_ipa/heartbeater.py: a pool of heartbeat threads that share one     *)
(* deque of (system, agent, previous_heartbeat) entries and one set        *)
(* remove_from_q of system uuids whose next entry is to be thrown away.    *)
(*                                                                         *)
(* Nothing in the class takes a lock, so a step here is one operation on   *)
(* an object that the threads share: a popleft, a membership test, a       *)
(* remove, an append, one loop over the deque.  Boot threads enter through *)
(* add_to_q, Flask threads through remove_from_heartbeater_q.              *)
(*                                                                         *)
(* An entry is the agent it carries: the agent determines its system, and  *)
(* of previous_heartbeat only the outcome of _heartbeat_expected is kept,  *)
(* in due.  Sleeping changes no shared object and is not a step, and       *)
(* neither is a popleft that finds the deque empty.                        *)
(***************************************************************************)
EXTENDS Naturals, Sequences, Functions

CONSTANTS
  Agents,    \* FakeIronicPythonAgent objects, each made for one boot
  Systems,   \* system uuids
  SystemOf,  \* agent.system['uuid'] of each agent
  Threads,   \* heartbeat threads that may be started
  Silent,    \* agents whose heartbeat request is never answered
  None

ASSUME HeartbeaterAssumption ==
  /\ SystemOf \in [Agents -> Systems]
  /\ Silent \subseteq Agents
  /\ None \notin Agents

VARIABLES
  queue,          \* Heatbeater.queue
  remove_from_q,  \* Heatbeater.remove_from_q
  due,            \* due[a]: more than the interval has passed since the
                  \* previous_heartbeat of a's entry
  pc,             \* where each heartbeat thread is in heartbeat()
  entry,          \* the entry a thread has popped and not put back
  adding          \* how far the boot thread of an agent is in add_to_q

vars == <<queue, remove_from_q, due, pc, entry, adding>>

Carrying == {"check", "drop", "expected", "printing", "torn", "send",
             "stamp", "requeue"}
Labels == Carrying \cup {"unstarted", "pop", "dead"}

Init ==
  /\ queue = << >>
  /\ remove_from_q = {}
  /\ due = [a \in Agents |-> FALSE]
  /\ pc = [t \in Threads |-> "unstarted"]
  /\ entry = [t \in Threads |-> None]
  /\ adding = [a \in Agents |-> "out"]

(* A deque iterator that finds the deque changed raises RuntimeError, which *)
(* heartbeat() does not catch: a change tears every printq under way.       *)
Disturbed == [t \in Threads |-> IF pc[t] = "printing" THEN "torn" ELSE pc[t]]

-----------------------------------------------------------------------------
(* The loop of heartbeat(). *)

(* Mutant: the entry is read with queue[0] and stays in the deque. *)
PopLeftPeeks(t) ==
  /\ pc[t] = "pop"
  /\ queue # << >>
  /\ entry' = [entry EXCEPT ![t] = Head(queue)]
  /\ pc' = [pc EXCEPT ![t] = "check"]
  /\ UNCHANGED <<queue, remove_from_q, due, adding>>

PopLeft(t) ==
  /\ pc[t] = "pop"
  /\ queue # << >>
  /\ entry' = [entry EXCEPT ![t] = Head(queue)]
  /\ queue' = Tail(queue)
  /\ pc' = [Disturbed EXCEPT ![t] = "check"]
  /\ UNCHANGED <<remove_from_q, due, adding>>

(* Mutant: the mark is not looked at. *)
CheckRemovedNever(t) ==
  /\ pc[t] = "check"
  /\ pc' = [pc EXCEPT ![t] = "expected"]
  /\ UNCHANGED <<queue, remove_from_q, due, entry, adding>>

CheckRemoved(t) ==
  /\ pc[t] = "check"
  /\ pc' = [pc EXCEPT ![t] = IF SystemOf[entry[t]] \in remove_from_q
                             THEN "drop" ELSE "expected"]
  /\ UNCHANGED <<queue, remove_from_q, due, entry, adding>>

(* Mutant: the set of marks is cleared, not the one mark removed. *)
DropClearsMarks(t) ==
  /\ pc[t] = "drop"
  /\ SystemOf[entry[t]] \in remove_from_q
  /\ remove_from_q' = {}
  /\ pc' = [pc EXCEPT ![t] = "pop"]
  /\ entry' = [entry EXCEPT ![t] = None]
  /\ UNCHANGED <<queue, due, adding>>

(* Mutant: without the continue the removed agent is heartbeated and put   *)
(* back.                                                                   *)
DropGoesOn(t) ==
  /\ pc[t] = "drop"
  /\ SystemOf[entry[t]] \in remove_from_q
  /\ remove_from_q' = remove_from_q \ {SystemOf[entry[t]]}
  /\ pc' = [pc EXCEPT ![t] = "expected"]
  /\ UNCHANGED <<queue, due, entry, adding>>

(* remove_from_q.remove(uuid) and continue: the entry is not put back. *)
Drop(t) ==
  /\ pc[t] = "drop"
  /\ SystemOf[entry[t]] \in remove_from_q
  /\ remove_from_q' = remove_from_q \ {SystemOf[entry[t]]}
  /\ pc' = [pc EXCEPT ![t] = "pop"]
  /\ entry' = [entry EXCEPT ![t] = None]
  /\ UNCHANGED <<queue, due, adding>>

(* A thread that dies takes its entry along. *)
Die(t) ==
  /\ pc' = [pc EXCEPT ![t] = "dead"]
  /\ entry' = [entry EXCEPT ![t] = None]
  /\ UNCHANGED <<queue, remove_from_q, due, adding>>

(* The mark seen by CheckRemoved is gone: KeyError, which is not the       *)
(* IndexError that heartbeat() catches.                                    *)
DropKeyError(t) ==
  /\ pc[t] = "drop"
  /\ SystemOf[entry[t]] \notin remove_from_q
  /\ Die(t)

(* _heartbeat_expected, and the start of the loop of printq, which ends at *)
(* once on an empty deque.                                                 *)
HeartbeatExpected(t) ==
  /\ pc[t] = "expected"
  /\ pc' = [pc EXCEPT ![t] = IF ~due[entry[t]] THEN "requeue"
                             ELSE IF queue = << >> THEN "send"
                             ELSE "printing"]
  /\ UNCHANGED <<queue, remove_from_q, due, entry, adding>>

PrintQ(t) ==
  /\ pc[t] = "printing"
  /\ pc' = [pc EXCEPT ![t] = "send"]
  /\ UNCHANGED <<queue, remove_from_q, due, entry, adding>>

PrintQRuntimeError(t) ==
  /\ pc[t] = "torn"
  /\ Die(t)

(* do_heartbeat: accepted, conflict and any other error all end in the     *)
(* entry being stamped and put back; not found also marks the system.      *)
HeartbeatAnswered(t) ==
  /\ pc[t] = "send"
  /\ entry[t] \notin Silent
  /\ pc' = [pc EXCEPT ![t] = "stamp"]
  /\ UNCHANGED <<queue, remove_from_q, due, entry, adding>>

(* Mutant: the node of the agent is marked, not its system. *)
HeartbeatNotFoundMarksNode(t) ==
  /\ pc[t] = "send"
  /\ entry[t] \notin Silent
  /\ remove_from_q' = remove_from_q \cup {entry[t]}
  /\ pc' = [pc EXCEPT ![t] = "stamp"]
  /\ UNCHANGED <<queue, due, entry, adding>>

HeartbeatNotFound(t) ==
  /\ pc[t] = "send"
  /\ entry[t] \notin Silent
  /\ remove_from_q' = remove_from_q \cup {SystemOf[entry[t]]}
  /\ pc' = [pc EXCEPT ![t] = "stamp"]
  /\ UNCHANGED <<queue, due, entry, adding>>

(* Mutant: the entry goes back to the head of the deque. *)
RequeueAtHead(t) ==
  /\ pc[t] \in {"stamp", "requeue"}
  /\ queue' = <<entry[t]>> \o queue
  /\ due' = [due EXCEPT ![entry[t]] = @ /\ pc[t] = "requeue"]
  /\ pc' = [Disturbed EXCEPT ![t] = "pop"]
  /\ entry' = [entry EXCEPT ![t] = None]
  /\ UNCHANGED <<remove_from_q, adding>>

(* queue.append with time.time() after a heartbeat ("stamp"), with the old *)
(* previous_heartbeat when none was expected ("requeue").                  *)
Requeue(t) ==
  /\ pc[t] \in {"stamp", "requeue"}
  /\ queue' = Append(queue, entry[t])
  /\ due' = [due EXCEPT ![entry[t]] = @ /\ pc[t] = "requeue"]
  /\ pc' = [Disturbed EXCEPT ![t] = "pop"]
  /\ entry' = [entry EXCEPT ![t] = None]
  /\ UNCHANGED <<remove_from_q, adding>>

ThreadStep(t) ==
  \/ PopLeft(t)
  \/ CheckRemoved(t)
  \/ Drop(t)
  \/ DropKeyError(t)
  \/ HeartbeatExpected(t)
  \/ PrintQ(t)
  \/ PrintQRuntimeError(t)
  \/ HeartbeatAnswered(t)
  \/ HeartbeatNotFound(t)
  \/ Requeue(t)

-----------------------------------------------------------------------------
(* What the rest of the program calls. *)

(* run_heartbeater_threads starts the threads of one pool. *)
RunHeartbeaterThreads(T) ==
  /\ \A t \in T : pc[t] = "unstarted"
  /\ pc' = [t \in Threads |-> IF t \in T THEN "pop" ELSE pc[t]]
  /\ UNCHANGED <<queue, remove_from_q, due, entry, adding>>

(* Mutant: a mark from before the boot is kept. *)
AddToQKeepsMark(a) ==
  /\ adding[a] = "out"
  /\ adding' = [adding EXCEPT ![a] = "append"]
  /\ UNCHANGED <<queue, remove_from_q, due, pc, entry>>

(* add_to_q by the boot thread of a: the membership test, *)
AddToQ(a) ==
  /\ adding[a] = "out"
  /\ adding' = [adding EXCEPT ![a] = IF SystemOf[a] \in remove_from_q
                                     THEN "unmark" ELSE "append"]
  /\ UNCHANGED <<queue, remove_from_q, due, pc, entry>>

(* the remove that follows it, *)
Unmark(a) ==
  /\ adding[a] = "unmark"
  /\ SystemOf[a] \in remove_from_q
  /\ remove_from_q' = remove_from_q \ {SystemOf[a]}
  /\ adding' = [adding EXCEPT ![a] = "append"]
  /\ UNCHANGED <<queue, due, pc, entry>>

(* which raises KeyError and ends the boot thread if the mark is gone, *)
UnmarkKeyError(a) ==
  /\ adding[a] = "unmark"
  /\ SystemOf[a] \notin remove_from_q
  /\ adding' = [adding EXCEPT ![a] = "failed"]
  /\ UNCHANGED <<queue, remove_from_q, due, pc, entry>>

(* and the append with time.time(). *)
Enqueue(a) ==
  /\ adding[a] = "append"
  /\ queue' = Append(queue, a)
  /\ due' = [due EXCEPT ![a] = FALSE]
  /\ pc' = Disturbed
  /\ adding' = [adding EXCEPT ![a] = "in"]
  /\ UNCHANGED <<remove_from_q, entry>>

AddStep(a) == AddToQ(a) \/ Unmark(a) \/ UnmarkKeyError(a) \/ Enqueue(a)

RemoveFromHeartbeaterQ(s) ==
  /\ remove_from_q' = remove_from_q \cup {s}
  /\ UNCHANGED <<queue, due, pc, entry, adding>>

(* Time passes until a heartbeat of a is expected. *)
Tick(a) ==
  /\ adding[a] = "in"
  /\ ~due[a]
  /\ due' = [due EXCEPT ![a] = TRUE]
  /\ UNCHANGED <<queue, remove_from_q, pc, entry, adding>>

Next ==
  \/ \E t \in Threads : ThreadStep(t)
  \/ \E T \in SUBSET Threads : RunHeartbeaterThreads(T)
  \/ \E a \in Agents : AddStep(a) \/ Tick(a)
  \/ \E s \in Systems : RemoveFromHeartbeaterQ(s)

Spec == Init /\ [][Next]_vars

(* The scheduler runs every thread, and time passes.  That a request is    *)
(* answered is not the code's doing: Silent says for which agents it never *)
(* is.  Callers of the class are not obliged to call it.                   *)
Fairness ==
  /\ \A t \in Threads : WF_vars(ThreadStep(t))
  /\ \A a \in Agents : WF_vars(Unmark(a) \/ UnmarkKeyError(a) \/ Enqueue(a))
  /\ \A a \in Agents : WF_vars(Tick(a))

FairSpec == Spec /\ Fairness
-----------------------------------------------------------------------------
(* Safety *)

(* Every variable keeps its type, and a thread holds an entry exactly while *)
(* it is between the popleft and the append of one turn of heartbeat().     *)
TypeOK ==
  /\ queue \in Seq(Agents)
  /\ remove_from_q \in SUBSET Systems
  /\ due \in [Agents -> BOOLEAN]
  /\ pc \in [Threads -> Labels]
  /\ entry \in [Threads -> Agents \cup {None}]
  /\ adding \in [Agents -> {"out", "unmark", "append", "in", "failed"}]
  /\ \A t \in Threads : entry[t] = None <=> pc[t] \notin Carrying

(* Lock freedom rests on this: an agent is in one place at a time, at one   *)
(* position of the deque or in the hands of one thread, so no two threads   *)
(* ever heartbeat the same agent, and only agents whose add_to_q is over    *)
(* are in circulation.                                                      *)
SingleCarrier ==
  /\ \A i, j \in DOMAIN queue : queue[i] = queue[j] => i = j
  /\ \A t, u \in Threads : entry[t] = entry[u] /\ entry[t] # None => t = u
  /\ \A t \in Threads, i \in DOMAIN queue : entry[t] # queue[i]
  /\ \A i \in DOMAIN queue : adding[queue[i]] = "in"
  /\ \A t \in Threads : entry[t] # None => adding[entry[t]] = "in"

(* Another agent of the same system has been or is being added. *)
HasTwin(a) ==
  \E b \in Agents \ {a} : SystemOf[b] = SystemOf[a] /\ adding[b] # "out"

(* The comment of remove_from_heartbeater_q: only the threads that          *)
(* heartbeat a node remove it, to avoid conflicts.  The mark that           *)
(* heartbeat() or add_to_q saw can vanish before the remove that follows,   *)
(* and the thread die of KeyError, only if a second agent was added for     *)
(* the same system.                                                         *)
MarkStolenOnlyByTwin ==
  /\ \A t \in Threads :
       pc[t] = "drop" /\ SystemOf[entry[t]] \notin remove_from_q
         => HasTwin(entry[t])
  /\ \A a \in Agents :
       adding[a] = "unmark" /\ SystemOf[a] \notin remove_from_q => HasTwin(a)

(* README.md says that the agents are heartbeated by several threads        *)
(* looping over a queue, and heartbeat() is a while True: no thread ends.   *)
HeartbeatersSurvive == \A t \in Threads : pc[t] # "dead"

-----------------------------------------------------------------------------
(* What the class promises, and liveness *)

InQueue(a) == a \in Range(queue)
Held(a) == \E t \in Threads : entry[t] = a
InService(a) == InQueue(a) \/ Held(a)
Beating(a) == \E t \in Threads : entry[t] = a /\ pc[t] = "send"

(* The pool of HeartbeatPool as this class realises it. *)
status == [a \in Agents |->
             IF adding[a] # "in" THEN "new"
             ELSE IF Beating(a) THEN "beating"
             ELSE IF InService(a) THEN "idle" ELSE "gone"]
Pool == INSTANCE HeartbeatPool WITH marks <- remove_from_q

(* The threads and callers together implement the pool: an agent that is    *)
(* heartbeating is never lost, one that left never comes back, and each     *)
(* mark takes out at most one agent.                                        *)
PoolSpec == Pool!Spec

(* The deque is served in order: an agent that waits in it leaves it only   *)
(* when it is the first, and is never overtaken by one that was put back or *)
(* added after it, whichever threads and callers append meanwhile.          *)
NoOvertaking ==
  [][\A i \in DOMAIN queue :
       \/ i = 1 /\ queue[1] \notin Range(queue')
       \/ \E j \in DOMAIN queue' : j <= i /\ queue'[j] = queue[i]]_vars

(* A thread that will never take another step: not started, dead, or        *)
(* waiting for an answer that never comes (the requests carry no timeout).  *)
Stopped(t) ==
  \/ pc[t] \in {"unstarted", "dead"}
  \/ pc[t] = "send" /\ entry[t] \in Silent
NoThreadLeft == \A t \in Threads : Stopped(t)

(* Every agent in circulation is heartbeated again, whatever the others do: *)
(* the deque is served in order and no agent starves, as long as one thread *)
(* is left.                                                                 *)
ServedAgentBeats ==
  \A a \in Agents :
    InService(a) ~> (Beating(a) \/ ~InService(a) \/ NoThreadLeft)

(* A mark reaches its agent: after remove_from_heartbeater_q an agent of    *)
(* the system leaves circulation, or another agent of the same system takes *)
(* the mark, as long as one thread is left.                                 *)
MarkedAgentLeaves ==
  \A a \in Agents \ Silent :
    (InService(a) /\ SystemOf[a] \in remove_from_q)
      ~> (~InService(a) \/ SystemOf[a] \notin remove_from_q \/ NoThreadLeft)
=============================================================================
