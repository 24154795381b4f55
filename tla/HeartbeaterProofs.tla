------------------------- MODULE HeartbeaterProofs -------------------------
(***************************************************************************)
(* Proofs about Heartbeater for any number of agents, systems and heartbeat *)
(* threads: its type invariant, that an agent is in one place at a time,   *)
(* and when a thread can lose the race for a removal mark.                 *)
(***************************************************************************)
EXTENDS Heartbeater, TLAPS

LEMMA InitTypeOK == Init => TypeOK
  BY HeartbeaterAssumption DEF Init, TypeOK, Labels, Carrying

(* The deque operations keep queue a sequence of agents. *)
LEMMA QueueTyping ==
  ASSUME NEW q \in Seq(Agents), NEW a \in Agents
  PROVE  /\ Append(q, a) \in Seq(Agents)
         /\ q # << >> => Head(q) \in Agents /\ Tail(q) \in Seq(Agents)
  OBVIOUS

(* Tearing the printq loops under way moves no thread in or out of the     *)
(* labels at which it carries an entry.                                    *)
LEMMA DisturbedTyping ==
  ASSUME pc \in [Threads -> Labels]
  PROVE  /\ Disturbed \in [Threads -> Labels]
         /\ \A t \in Threads : Disturbed[t] \in Carrying <=> pc[t] \in Carrying
  BY DEF Disturbed, Labels, Carrying

(* A step of a heartbeat thread preserves the types. *)
LEMMA ThreadStepTypeOK ==
  ASSUME TypeOK, NEW t \in Threads, ThreadStep(t)
  PROVE  TypeOK'
<1> USE HeartbeaterAssumption DEF TypeOK, Labels, Carrying
<1>1. CASE PopLeft(t)
  BY <1>1, QueueTyping, DisturbedTyping DEF PopLeft
<1>2. CASE CheckRemoved(t)
  BY <1>2 DEF CheckRemoved
<1>3. CASE Drop(t)
  BY <1>3 DEF Drop
<1>4. CASE DropKeyError(t)
  BY <1>4 DEF DropKeyError, Die
<1>5. CASE HeartbeatExpected(t)
  BY <1>5 DEF HeartbeatExpected
<1>6. CASE PrintQ(t)
  BY <1>6 DEF PrintQ
<1>7. CASE PrintQRuntimeError(t)
  BY <1>7 DEF PrintQRuntimeError, Die
<1>8. CASE HeartbeatAnswered(t)
  BY <1>8 DEF HeartbeatAnswered
<1>9. CASE HeartbeatNotFound(t)
  BY <1>9 DEF HeartbeatNotFound
<1>10. CASE Requeue(t)
  <2>1. entry[t] \in Agents
    BY <1>10 DEF Requeue
  <2>2. QED BY <1>10, <2>1, QueueTyping, DisturbedTyping DEF Requeue
<1>11. QED
  BY <1>1, <1>2, <1>3, <1>4, <1>5, <1>6, <1>7, <1>8, <1>9, <1>10 DEF ThreadStep

(* So does a step of a boot thread in add_to_q. *)
LEMMA AddStepTypeOK ==
  ASSUME TypeOK, NEW a \in Agents, AddStep(a)
  PROVE  TypeOK'
<1> USE HeartbeaterAssumption DEF TypeOK, Labels, Carrying
<1>1. CASE AddToQ(a)
  BY <1>1 DEF AddToQ
<1>2. CASE Unmark(a)
  BY <1>2 DEF Unmark
<1>3. CASE UnmarkKeyError(a)
  BY <1>3 DEF UnmarkKeyError
<1>4. CASE Enqueue(a)
  BY <1>4, QueueTyping, DisturbedTyping DEF Enqueue
<1>5. QED BY <1>1, <1>2, <1>3, <1>4 DEF AddStep

LEMMA NextTypeOK == TypeOK /\ [Next]_vars => TypeOK'
<1> SUFFICES ASSUME TypeOK, [Next]_vars PROVE TypeOK'
  OBVIOUS
<1> USE HeartbeaterAssumption
<1>1. ASSUME NEW T \in SUBSET Threads, RunHeartbeaterThreads(T)
      PROVE  TypeOK'
  BY <1>1 DEF RunHeartbeaterThreads, TypeOK, Labels, Carrying
<1>2. ASSUME NEW a \in Agents, Tick(a)
      PROVE  TypeOK'
  BY <1>2 DEF Tick, TypeOK
<1>3. ASSUME NEW s \in Systems, RemoveFromHeartbeaterQ(s)
      PROVE  TypeOK'
  BY <1>3 DEF RemoveFromHeartbeaterQ, TypeOK
<1>4. CASE UNCHANGED vars
  BY <1>4 DEF vars, TypeOK
<1>5. QED
  BY <1>1, <1>2, <1>3, <1>4, ThreadStepTypeOK, AddStepTypeOK DEF Next

(* Every reachable state is well typed, and a thread holds an entry exactly *)
(* between the popleft and the append of a turn of heartbeat().            *)
THEOREM TypeCorrect == Spec => []TypeOK
  BY InitTypeOK, NextTypeOK, PTL DEF Spec

-----------------------------------------------------------------------------
(* Who carries an agent *)

LEMMA InitSingleCarrier == Init => SingleCarrier
  BY DEF Init, SingleCarrier

(* Only a popleft, an append, and the loss of an entry with its thread or  *)
(* with its mark move an agent.                                            *)
LEMMA ThreadStepSingleCarrier ==
  ASSUME TypeOK, SingleCarrier, NEW t \in Threads, ThreadStep(t)
  PROVE  SingleCarrier'
<1> USE HeartbeaterAssumption DEF SingleCarrier
<1>1. CASE PopLeft(t)
  <2>1. /\ Head(queue) = queue[1]
        /\ \A i \in DOMAIN Tail(queue) :
             i + 1 \in DOMAIN queue /\ i + 1 # 1 /\ Tail(queue)[i] = queue[i + 1]
    BY <1>1 DEF PopLeft, TypeOK
  <2>2. queue[1] \in Agents /\ 1 \in DOMAIN queue
    BY <1>1 DEF PopLeft, TypeOK
  <2>3. \A u \in Threads : entry'[u] = IF u = t THEN queue[1] ELSE entry[u]
    BY <1>1, <2>1 DEF PopLeft, TypeOK
  <2>4. \A i, j \in DOMAIN queue' : queue'[i] = queue'[j] => i = j
    BY <1>1, <2>1 DEF PopLeft, TypeOK
  <2>5. QED BY <1>1, <2>1, <2>2, <2>3, <2>4 DEF PopLeft
<1>2. CASE Drop(t) \/ DropKeyError(t) \/ PrintQRuntimeError(t)
  <2>1. /\ queue' = queue /\ adding' = adding
        /\ \A u \in Threads : entry'[u] = IF u = t THEN None ELSE entry[u]
    BY <1>2 DEF Drop, DropKeyError, PrintQRuntimeError, Die, TypeOK
  <2>2. \A i \in DOMAIN queue : queue[i] # None
    BY DEF TypeOK
  <2>3. QED BY <2>1, <2>2
<1>3. CASE Requeue(t)
  <2>1. entry[t] # None /\ entry[t] \in Agents
    BY <1>3 DEF Requeue, TypeOK, Carrying
  <2>2. \A u \in Threads : entry'[u] = IF u = t THEN None ELSE entry[u]
    BY <1>3 DEF Requeue, TypeOK
  <2>3. \A i \in DOMAIN queue' :
          \/ i \in DOMAIN queue /\ queue'[i] = queue[i]
          \/ i = Len(queue) + 1 /\ queue'[i] = entry[t]
    BY <1>3, <2>1 DEF Requeue, TypeOK
  <2>4. \A i \in DOMAIN queue' : queue'[i] # None
    BY <2>1, <2>3 DEF TypeOK
  <2>5. QED BY <1>3, <2>1, <2>2, <2>3, <2>4 DEF Requeue
<1>4. CASE \/ CheckRemoved(t) \/ HeartbeatExpected(t) \/ PrintQ(t)
           \/ HeartbeatAnswered(t) \/ HeartbeatNotFound(t)
  BY <1>4 DEF CheckRemoved, HeartbeatExpected, PrintQ, HeartbeatAnswered,
              HeartbeatNotFound
<1>5. QED BY <1>1, <1>2, <1>3, <1>4 DEF ThreadStep

LEMMA AddStepSingleCarrier ==
  ASSUME TypeOK, SingleCarrier, NEW a \in Agents, AddStep(a)
  PROVE  SingleCarrier'
<1> USE HeartbeaterAssumption DEF SingleCarrier
<1>1. CASE AddToQ(a) \/ Unmark(a) \/ UnmarkKeyError(a)
  <2>1. /\ queue' = queue /\ entry' = entry
        /\ \A b \in Agents : adding[b] = "in" => adding'[b] = "in"
    BY <1>1 DEF AddToQ, Unmark, UnmarkKeyError, TypeOK
  <2>2. /\ \A i \in DOMAIN queue : queue[i] \in Agents
        /\ \A t \in Threads : entry[t] # None => entry[t] \in Agents
    BY DEF TypeOK
  <2>3. QED BY <2>1, <2>2
<1>2. CASE Enqueue(a)
  <2>1. /\ \A i \in DOMAIN queue : queue[i] # a
        /\ \A t \in Threads : entry[t] # a
    BY <1>2 DEF Enqueue
  <2>2. /\ entry' = entry
        /\ adding' = [adding EXCEPT ![a] = "in"]
        /\ \A i \in DOMAIN queue' :
             \/ i \in DOMAIN queue /\ queue'[i] = queue[i]
             \/ i = Len(queue) + 1 /\ queue'[i] = a
    BY <1>2 DEF Enqueue, TypeOK
  <2>3. /\ \A i \in DOMAIN queue' : queue'[i] \in Agents
        /\ \A t \in Threads : entry[t] # None => entry[t] \in Agents
        /\ adding \in [Agents -> {"out", "unmark", "append", "in", "failed"}]
    BY <2>2 DEF TypeOK
  <2>4. QED BY <2>1, <2>2, <2>3
<1>3. QED BY <1>1, <1>2 DEF AddStep

LEMMA NextSingleCarrier ==
  TypeOK /\ SingleCarrier /\ [Next]_vars => SingleCarrier'
<1> SUFFICES ASSUME TypeOK, SingleCarrier, [Next]_vars PROVE SingleCarrier'
  OBVIOUS
<1>1. ASSUME UNCHANGED <<queue, entry, adding>>
      PROVE  SingleCarrier'
  BY <1>1 DEF SingleCarrier
<1>2. QED
  BY <1>1, ThreadStepSingleCarrier, AddStepSingleCarrier
     DEF Next, RunHeartbeaterThreads, Tick, RemoveFromHeartbeaterQ, vars

(* The pool needs no lock for its entries: whatever the threads interleave, *)
(* an agent is at one position of the deque or in the hands of one thread. *)
THEOREM AgentInOnePlace == Spec => []SingleCarrier
  BY InitTypeOK, NextTypeOK, InitSingleCarrier, NextSingleCarrier, PTL DEF Spec

-----------------------------------------------------------------------------
(* Who takes a removal mark *)

(* No step takes an agent back out of add_to_q. *)
LEMMA TwinsStay ==
  ASSUME TypeOK, [Next]_vars
  PROVE  \A a \in Agents : HasTwin(a) => HasTwin(a)'
<1>1. \A b \in Agents : adding[b] # "out" => adding'[b] # "out"
  BY DEF Next, ThreadStep, PopLeft, CheckRemoved, Drop, DropKeyError, Die,
         HeartbeatExpected, PrintQ, PrintQRuntimeError, HeartbeatAnswered,
         HeartbeatNotFound, Requeue, RunHeartbeaterThreads, AddStep, AddToQ,
         Unmark, UnmarkKeyError, Enqueue, Tick, RemoveFromHeartbeaterQ, vars,
         TypeOK
<1>2. QED BY <1>1 DEF HasTwin

LEMMA InitMarkStolen == Init => MarkStolenOnlyByTwin
  BY DEF Init, MarkStolenOnlyByTwin

(* A mark that was just seen is still there. *)
LEMMA MarkSeen ==
  ASSUME TypeOK, [Next]_vars
  PROVE  /\ \A t \in Threads : pc'[t] = "drop" =>
              \/ pc[t] = "drop" /\ entry'[t] = entry[t]
              \/ SystemOf[entry'[t]] \in remove_from_q'
         /\ \A a \in Agents : adding'[a] = "unmark" =>
              adding[a] = "unmark" \/ SystemOf[a] \in remove_from_q'
         /\ \A a \in Agents : adding[a] \in {"in", "failed"} => adding'[a] = adding[a]
<1>1. CASE \E t \in Threads : ThreadStep(t)
  <2>1. PICK t \in Threads : ThreadStep(t)
    BY <1>1
  <2>2. /\ \A u \in Threads \ {t} :
             entry'[u] = entry[u] /\ (pc'[u] = "drop" <=> pc[u] = "drop")
        /\ pc'[t] = "drop" => CheckRemoved(t) /\ SystemOf[entry[t]] \in remove_from_q
        /\ adding' = adding
    BY <2>1 DEF ThreadStep, PopLeft, CheckRemoved, Drop, DropKeyError, Die,
          HeartbeatExpected, PrintQ, PrintQRuntimeError, HeartbeatAnswered,
          HeartbeatNotFound, Requeue, TypeOK, Disturbed
  <2>3. QED BY <2>2 DEF CheckRemoved
<1>2. CASE \E b \in Agents : AddStep(b)
  <2>1. PICK b \in Agents : AddStep(b)
    BY <1>2
  <2>2. entry' = entry /\ \A u \in Threads : pc'[u] = "drop" <=> pc[u] = "drop"
    BY <2>1 DEF AddStep, AddToQ, Unmark, UnmarkKeyError, Enqueue, Disturbed, TypeOK
  <2>3. \A c \in Agents :
          /\ adding'[c] = "unmark" => adding[c] = "unmark" \/ SystemOf[c] \in remove_from_q'
          /\ adding[c] \in {"in", "failed"} => adding'[c] = adding[c]
    BY <2>1 DEF AddStep, AddToQ, Unmark, UnmarkKeyError, Enqueue, TypeOK
  <2>4. QED BY <2>2, <2>3
<1>3. CASE \/ \E T \in SUBSET Threads : RunHeartbeaterThreads(T)
           \/ \E b \in Agents : Tick(b)
           \/ \E s \in Systems : RemoveFromHeartbeaterQ(s)
           \/ UNCHANGED vars
  BY <1>3 DEF RunHeartbeaterThreads, Tick, RemoveFromHeartbeaterQ, vars, TypeOK
<1>4. QED BY <1>1, <1>2, <1>3 DEF Next

(* A mark vanishes only in Drop and Unmark, and then the agent that used   *)
(* it up is a twin of every other agent that has just seen it.             *)
LEMMA NextMarkStolen ==
  TypeOK /\ SingleCarrier /\ MarkStolenOnlyByTwin /\ [Next]_vars
    => MarkStolenOnlyByTwin'
<1> SUFFICES ASSUME TypeOK, SingleCarrier, MarkStolenOnlyByTwin, [Next]_vars
             PROVE  MarkStolenOnlyByTwin'
  OBVIOUS
<1> USE HeartbeaterAssumption
<1> DEFINE Seen(a) == \/ \E t \in Threads : pc[t] = "drop" /\ entry[t] = a
                      \/ adding[a] = "unmark"
<1>1. /\ TypeOK' /\ \A a \in Agents : HasTwin(a) => HasTwin(a)'
      /\ \A t \in Threads : pc[t] = "drop" => entry[t] \in Agents
      /\ \A a \in Agents : Seen(a) => \/ SystemOf[a] \in remove_from_q
                                     \/ HasTwin(a)
  <2>1. \A t \in Threads : pc[t] = "drop" => entry[t] \in Agents
    BY DEF TypeOK, Carrying
  <2>2. QED BY <2>1, NextTypeOK, TwinsStay DEF MarkStolenOnlyByTwin
<1>2. SUFFICES ASSUME NEW a \in Agents, Seen(a)', SystemOf[a] \notin remove_from_q'
               PROVE  HasTwin(a)'
  <2>1. \A t \in Threads : pc'[t] = "drop" => entry'[t] \in Agents
    BY <1>1 DEF TypeOK, Carrying
  <2>2. QED BY <1>2, <2>1 DEF MarkStolenOnlyByTwin
(* The mark was seen in this step, so it is still there, or before it.     *)
<1>3. Seen(a)
  BY <1>2, MarkSeen
<1>4. CASE HasTwin(a)
  BY <1>1, <1>4
<1>5. CASE SystemOf[a] \in remove_from_q
  (* Somebody else took the mark in this step. *)
  <2>1. PICK b \in Agents : /\ SystemOf[b] = SystemOf[a]
                            /\ \/ Unmark(b)
                               \/ \E t \in Threads : Drop(t) /\ entry[t] = b
    BY <1>1, <1>2, <1>5
       DEF Next, ThreadStep, PopLeft, CheckRemoved, Drop, DropKeyError, Die,
           HeartbeatExpected, PrintQ, PrintQRuntimeError, HeartbeatAnswered,
           HeartbeatNotFound, Requeue, RunHeartbeaterThreads, AddStep, AddToQ,
           Unmark, UnmarkKeyError, Enqueue, Tick, RemoveFromHeartbeaterQ, vars
  <2>2. a # b
    <3>1. CASE Unmark(b)
      BY <1>2, <3>1 DEF Unmark, TypeOK, SingleCarrier
    <3>2. ASSUME NEW t \in Threads, Drop(t), entry[t] = b
          PROVE  a # b
      BY <1>1, <1>2, <3>2 DEF Drop, TypeOK, SingleCarrier, Carrying
    <3>3. QED BY <2>1, <3>1, <3>2
  <2>3. adding[b] # "out"
    <3>1. CASE Unmark(b)
      BY <3>1 DEF Unmark
    <3>2. ASSUME NEW t \in Threads, Drop(t), entry[t] = b
          PROVE  adding[b] # "out"
      BY <3>2 DEF Drop, SingleCarrier
    <3>3. QED BY <2>1, <3>1, <3>2
  <2>4. QED BY <1>1, <2>1, <2>2, <2>3 DEF HasTwin
<1>6. QED BY <1>1, <1>3, <1>4, <1>5

(* A thread loses the race for a removal mark, and dies of it, only if two *)
(* agents were made for one system.                                        *)
THEOREM MarksAreSafe == Spec => []MarkStolenOnlyByTwin
  BY InitTypeOK, NextTypeOK, InitSingleCarrier, NextSingleCarrier,
     InitMarkStolen, NextMarkStolen, PTL DEF Spec

-----------------------------------------------------------------------------
(* The deque is served in order *)

InOrder ==
  \A i \in DOMAIN queue :
    \/ i = 1 /\ queue[1] \notin Range(queue')
    \/ \E j \in DOMAIN queue' : j <= i /\ queue'[j] = queue[i]

(* Everybody behind the head moves up, and the head is not elsewhere. *)
LEMMA PopLeftInOrder ==
  ASSUME TypeOK, SingleCarrier, NEW t \in Threads, PopLeft(t)
  PROVE  InOrder
<1>1. /\ queue \in Seq(Agents) /\ queue # << >> /\ queue' = Tail(queue)
      /\ \A i, j \in DOMAIN queue : queue[i] = queue[j] => i = j
  BY DEF PopLeft, TypeOK, SingleCarrier
<1>2. /\ DOMAIN queue = 1 .. Len(queue) /\ Len(queue) \in Nat \ {0}
      /\ DOMAIN queue' = 1 .. Len(queue) - 1
      /\ \A j \in DOMAIN queue' : queue'[j] = queue[j + 1]
  BY <1>1
<1>3. ASSUME NEW i \in DOMAIN queue, i # 1
      PROVE  \E j \in DOMAIN queue' : j <= i /\ queue'[j] = queue[i]
  <2>1. i - 1 \in DOMAIN queue' /\ i - 1 <= i /\ queue'[i - 1] = queue[i]
    BY <1>2, <1>3
  <2>2. QED BY <2>1
<1>4. queue[1] \notin Range(queue')
  <2>1. ASSUME NEW j \in DOMAIN queue'
        PROVE  queue'[j] # queue[1]
    <3>1. /\ j + 1 \in DOMAIN queue /\ 1 \in DOMAIN queue /\ j + 1 # 1
          /\ queue'[j] = queue[j + 1]
      BY <1>2
    <3>2. QED BY <1>1, <3>1
  <2>2. QED BY <2>1 DEF Range
<1>5. QED BY <1>3, <1>4 DEF InOrder

LEMMA AppendInOrder ==
  ASSUME TypeOK, NEW a \in Agents, queue' = Append(queue, a)
  PROVE  InOrder
<1>1. /\ queue \in Seq(Agents) /\ DOMAIN queue = 1 .. Len(queue)
      /\ Len(queue) \in Nat /\ DOMAIN queue' = 1 .. Len(queue) + 1
      /\ \A i \in DOMAIN queue : queue'[i] = queue[i]
  BY DEF TypeOK
<1>2. \A i \in DOMAIN queue : i \in DOMAIN queue' /\ i <= i
  BY <1>1
<1>3. QED BY <1>1, <1>2 DEF InOrder

LEMMA UnchangedInOrder ==
  ASSUME TypeOK, UNCHANGED queue
  PROVE  InOrder
<1>1. \A i \in DOMAIN queue : i \in DOMAIN queue' /\ i <= i
  BY DEF TypeOK
<1>2. QED BY <1>1 DEF InOrder

(* Agents that wait in the deque are served in the order in which they     *)
(* came, for any number of threads and callers.                            *)
THEOREM ServedInOrder == Spec => NoOvertaking
<1>1. TypeOK /\ SingleCarrier /\ [Next]_vars => [InOrder]_vars
  <2> SUFFICES ASSUME TypeOK, SingleCarrier, Next
               PROVE  InOrder
    OBVIOUS
  <2>1. ASSUME NEW t \in Threads, Requeue(t)
        PROVE  InOrder
    <3>1. entry[t] \in Agents
      BY <2>1 DEF Requeue, TypeOK, Carrying
    <3>2. QED BY <2>1, <3>1, AppendInOrder DEF Requeue
  <2>2. ASSUME NEW a \in Agents, Enqueue(a)
        PROVE  InOrder
    BY <2>2, AppendInOrder DEF Enqueue
  <2>3. ASSUME UNCHANGED queue
        PROVE  InOrder
    BY <2>3, UnchangedInOrder
  <2>4. QED
    BY <2>1, <2>2, <2>3, PopLeftInOrder
       DEF Next, ThreadStep, CheckRemoved, Drop, DropKeyError, Die,
           HeartbeatExpected, PrintQ, PrintQRuntimeError, HeartbeatAnswered,
           HeartbeatNotFound, RunHeartbeaterThreads, AddStep, AddToQ,
           Unmark, UnmarkKeyError, Tick, RemoveFromHeartbeaterQ
<1>2. QED
  BY <1>1, InitTypeOK, NextTypeOK, InitSingleCarrier, NextSingleCarrier, PTL
     DEF Spec, NoOvertaking, InOrder

-----------------------------------------------------------------------------
(* The threads implement the pool *)

(* What appending and popping do to the agents in a deque. *)
LEMMA RangeAppend ==
  ASSUME NEW q \in Seq(Agents), NEW a \in Agents
  PROVE  Range(Append(q, a)) = Range(q) \cup {a}
<1> DEFINE r == Append(q, a)
<1>1. /\ DOMAIN r = 1 .. Len(q) + 1 /\ DOMAIN q = 1 .. Len(q) /\ Len(q) \in Nat
      /\ \A i \in 1 .. Len(q) : r[i] = q[i]
      /\ r[Len(q) + 1] = a
  OBVIOUS
<1> HIDE DEF r
<1>2. /\ \A i \in DOMAIN q : i \in DOMAIN r /\ r[i] = q[i]
      /\ Len(q) + 1 \in DOMAIN r
      /\ \A i \in DOMAIN r : i \in DOMAIN q \/ i = Len(q) + 1
  BY <1>1
<1>3. Range(r) = Range(q) \cup {a}
  <2>1. ASSUME NEW x \in Range(r) PROVE x \in Range(q) \cup {a}
    BY <1>1, <1>2 DEF Range
  <2>2. ASSUME NEW x \in Range(q) \cup {a} PROVE x \in Range(r)
    BY <1>1, <1>2 DEF Range
  <2>3. QED BY <2>1, <2>2
<1>4. QED BY <1>3 DEF r

LEMMA RangeTail ==
  ASSUME NEW q \in Seq(Agents), q # << >>
  PROVE  Range(q) = Range(Tail(q)) \cup {Head(q)}
<1> DEFINE r == Tail(q)
<1>1. /\ DOMAIN r = 1 .. Len(q) - 1 /\ DOMAIN q = 1 .. Len(q)
      /\ Len(q) \in Nat \ {0} /\ Head(q) = q[1]
      /\ \A i \in 1 .. Len(q) - 1 : r[i] = q[i + 1]
  OBVIOUS
<1> HIDE DEF r
<1>2. /\ \A i \in DOMAIN r : i + 1 \in DOMAIN q /\ r[i] = q[i + 1]
      /\ 1 \in DOMAIN q
      /\ \A i \in DOMAIN q : i = 1 \/ (i - 1 \in DOMAIN r /\ q[i] = r[i - 1])
  BY <1>1
<1>3. Range(q) = Range(r) \cup {Head(q)}
  <2>1. ASSUME NEW x \in Range(q) PROVE x \in Range(r) \cup {Head(q)}
    BY <1>1, <1>2 DEF Range
  <2>2. ASSUME NEW x \in Range(r) \cup {Head(q)} PROVE x \in Range(q)
    BY <1>1, <1>2 DEF Range
  <2>3. QED BY <2>1, <2>2
<1>4. QED BY <1>3 DEF r

(* Who is in service changes only when a thread drops its agent or dies. *)
LEMMA ThreadKeepsService ==
  ASSUME TypeOK, NEW t \in Threads, ThreadStep(t),
         ~Drop(t), ~DropKeyError(t), ~PrintQRuntimeError(t)
  PROVE  \A b \in Agents : InService(b)' <=> InService(b)
<1>1. ASSUME PopLeft(t)
      PROVE  \A b \in Agents : InService(b)' <=> InService(b)
  <2>1. Range(queue) = Range(queue') \cup {Head(queue)}
    BY <1>1, RangeTail DEF PopLeft, TypeOK
  <2>2. entry[t] = None /\ None \notin Agents
    BY <1>1, HeartbeaterAssumption DEF PopLeft, TypeOK, Carrying
  <2>3. \A u \in Threads : entry'[u] = IF u = t THEN Head(queue) ELSE entry[u]
    BY <1>1 DEF PopLeft, TypeOK
  <2>4. QED BY <2>1, <2>2, <2>3 DEF InService, InQueue, Held
<1>2. ASSUME Requeue(t)
      PROVE  \A b \in Agents : InService(b)' <=> InService(b)
  <2>1. entry[t] \in Agents /\ None \notin Agents
    BY <1>2, HeartbeaterAssumption DEF Requeue, TypeOK, Carrying
  <2>2. Range(queue') = Range(queue) \cup {entry[t]}
    BY <1>2, <2>1, RangeAppend DEF Requeue, TypeOK
  <2>3. \A u \in Threads : entry'[u] = IF u = t THEN None ELSE entry[u]
    BY <1>2 DEF Requeue, TypeOK
  <2>4. QED BY <2>1, <2>2, <2>3 DEF InService, InQueue, Held
<1>3. ASSUME UNCHANGED <<queue, entry>>
      PROVE  \A b \in Agents : InService(b)' <=> InService(b)
  BY <1>3 DEF InService, InQueue, Held
<1>4. QED
  BY <1>1, <1>2, <1>3 DEF ThreadStep, CheckRemoved, HeartbeatExpected, PrintQ,
     HeartbeatAnswered, HeartbeatNotFound

LEMMA ThreadLetsGo ==
  ASSUME TypeOK, SingleCarrier, NEW t \in Threads,
         Drop(t) \/ DropKeyError(t) \/ PrintQRuntimeError(t)
  PROVE  \E a \in Agents :
           /\ entry[t] = a /\ InService(a) /\ ~InService(a)'
           /\ \A b \in Agents \ {a} : InService(b)' <=> InService(b)
<1>1. /\ pc[t] \in Carrying /\ queue' = queue
      /\ \A u \in Threads : entry'[u] = IF u = t THEN None ELSE entry[u]
  BY DEF Drop, DropKeyError, PrintQRuntimeError, Die, Carrying, TypeOK
<1>2. PICK a \in Agents : entry[t] = a /\ a # None /\ None \notin Agents
  BY <1>1, HeartbeaterAssumption DEF TypeOK
<1>3. ~InQueue(a) /\ \A u \in Threads : entry[u] = a => u = t
  BY <1>2 DEF SingleCarrier, InQueue, Range
<1>4. ~InQueue(a)' /\ ~Held(a)'
  BY <1>1, <1>2, <1>3 DEF InQueue, Held
<1>5. \A b \in Agents \ {a} : InService(b)' <=> InService(b)
  BY <1>1, <1>2 DEF InService, InQueue, Held
<1>6. InService(a) /\ ~InService(a)'
  BY <1>2, <1>4 DEF InService, Held
<1>7. QED BY <1>2, <1>5, <1>6

(* What status depends on. *)
SameService(b) ==
  /\ adding'[b] = "in" <=> adding[b] = "in"
  /\ Beating(b)' <=> Beating(b)
  /\ InService(b)' <=> InService(b)

LEMMA StatusSame ==
  ASSUME \A b \in Agents : SameService(b)
  PROVE  status' = status
  BY DEF SameService, status

LEMMA StatusMoves ==
  ASSUME NEW a \in Agents, \A b \in Agents \ {a} : SameService(b)
  PROVE  status' = [status EXCEPT ![a] = status'[a]]
  BY DEF SameService, status

(* A thread step moves the agent that the thread carries, and no other. *)
LEMMA ThreadStepRefines ==
  ASSUME TypeOK, SingleCarrier, NEW t \in Threads, ThreadStep(t)
  PROVE  Pool!Next \/ UNCHANGED Pool!vars
<1> USE HeartbeaterAssumption
<1> DEFINE e == entry[t]
<1>1. TypeOK'
  BY ThreadStepTypeOK
<1>2. ASSUME PopLeft(t)
      PROVE  UNCHANGED Pool!vars
  <2>1. /\ Head(queue) \in Agents /\ entry[t] = None
        /\ Range(queue) = Range(queue') \cup {Head(queue)}
    <3>1. queue \in Seq(Agents) /\ queue # << >> /\ queue' = Tail(queue)
      BY <1>2 DEF PopLeft, TypeOK
    <3>2. entry[t] = None
      BY <1>2 DEF PopLeft, TypeOK, Carrying
    <3>3. QED BY <3>1, <3>2, RangeTail
  <2>2. \A u \in Threads : /\ entry'[u] = IF u = t THEN Head(queue) ELSE entry[u]
                           /\ pc'[u] = "send" <=> pc[u] = "send"
    BY <1>2 DEF PopLeft, TypeOK, Disturbed
  <2>3. \A b \in Agents : SameService(b)
    BY <1>2, <2>1, <2>2 DEF SameService, InService, InQueue, Held, Beating, PopLeft
  <2>4. QED BY <1>2, <2>3, StatusSame DEF Pool!vars, PopLeft
<1>3. ASSUME Requeue(t)
      PROVE  UNCHANGED Pool!vars
  <2>1. e \in Agents
    BY <1>3 DEF Requeue, TypeOK, Carrying
  <2>2. /\ Range(queue') = Range(queue) \cup {e}
        /\ \A u \in Threads : /\ entry'[u] = IF u = t THEN None ELSE entry[u]
                              /\ pc'[u] = "send" <=> pc[u] = "send"
    BY <1>3, <2>1, RangeAppend DEF Requeue, TypeOK, Disturbed
  <2>3. \A b \in Agents : SameService(b)
    BY <1>3, <2>1, <2>2 DEF SameService, InService, InQueue, Held, Beating, Requeue
  <2>4. QED BY <1>3, <2>3, StatusSame DEF Pool!vars, Requeue
<1>4. ASSUME CheckRemoved(t) \/ (HeartbeatExpected(t) /\ pc'[t] # "send")
      PROVE  UNCHANGED Pool!vars
  <2>1. \A b \in Agents : SameService(b)
    BY <1>4 DEF SameService, InService, InQueue, Held, Beating, TypeOK,
                CheckRemoved, HeartbeatExpected
  <2>2. QED BY <1>4, <2>1, StatusSame DEF Pool!vars, CheckRemoved, HeartbeatExpected
(* The other steps are steps of the pool. *)
<1>5. ASSUME pc[t] \in Carrying
      PROVE  /\ e \in Agents /\ e # None /\ adding[e] = "in" /\ ~InQueue(e)
             /\ \A u \in Threads : entry[u] = e => u = t
             /\ status[e] = IF pc[t] = "send" THEN "beating" ELSE "idle"
  <2>1. e \in Agents /\ e # None
    BY <1>5 DEF TypeOK
  <2>2. /\ adding[e] = "in" /\ ~InQueue(e)
        /\ \A u \in Threads : entry[u] = e => u = t
    BY <2>1 DEF SingleCarrier, InQueue, Range
  <2>3. QED BY <2>1, <2>2 DEF status, Beating, InService, Held
<1>6. ASSUME PrintQ(t) \/ (HeartbeatExpected(t) /\ pc'[t] = "send")
      PROVE  Pool!Next
  <2>1. /\ pc[t] \in Carrying /\ pc[t] # "send"
        /\ entry' = entry /\ queue' = queue /\ adding' = adding
        /\ remove_from_q' = remove_from_q
        /\ \A u \in Threads : pc'[u] = IF u = t THEN "send" ELSE pc[u]
    BY <1>6 DEF PrintQ, HeartbeatExpected, Carrying, TypeOK
  <2>2. /\ \A b \in Agents \ {e} : SameService(b)
        /\ status'[e] = "beating"
    BY <1>5, <2>1 DEF SameService, InService, InQueue, Held, Beating, status
  <2>3. Pool!Beat(e)
    BY <1>5, <2>1, <2>2, StatusMoves DEF Pool!Beat, Pool!Move
  <2>4. QED BY <1>5, <2>1, <2>3 DEF Pool!Next
<1>7. ASSUME HeartbeatAnswered(t) \/ HeartbeatNotFound(t)
      PROVE  Pool!Next
  <2>1. /\ pc[t] = "send" /\ pc[t] \in Carrying
        /\ entry' = entry /\ queue' = queue /\ adding' = adding
        /\ \A u \in Threads : pc'[u] = IF u = t THEN "stamp" ELSE pc[u]
    BY <1>7 DEF HeartbeatAnswered, HeartbeatNotFound, Carrying, TypeOK
  <2>2. /\ \A b \in Agents \ {e} : SameService(b)
        /\ status'[e] = "idle"
    BY <1>5, <2>1 DEF SameService, InService, InQueue, Held, Beating, status
  <2>3. Pool!Answered(e) \/ Pool!NotFound(e)
    BY <1>5, <1>7, <2>1, <2>2, StatusMoves
       DEF Pool!Answered, Pool!NotFound, Pool!Move, HeartbeatAnswered, HeartbeatNotFound
  <2>4. QED BY <1>5, <2>1, <2>3 DEF Pool!Next
<1>8. ASSUME Drop(t) \/ DropKeyError(t) \/ PrintQRuntimeError(t)
      PROVE  Pool!Next
  <2>1. /\ pc[t] \in {"drop", "torn"} /\ pc[t] \in Carrying
        /\ queue' = queue /\ adding' = adding
        /\ \A u \in Threads : /\ entry'[u] = IF u = t THEN None ELSE entry[u]
                              /\ pc'[u] = "send" <=> pc[u] = "send"
    BY <1>8 DEF Drop, DropKeyError, PrintQRuntimeError, Die, Carrying, TypeOK
  <2>2. /\ \A b \in Agents \ {e} : SameService(b)
        /\ status'[e] = "gone"
    BY <1>5, <2>1 DEF SameService, InService, InQueue, Held, Beating, status
  <2>3. Pool!Leave(e) \/ Pool!Lose(e)
    BY <1>5, <1>8, <2>1, <2>2, StatusMoves
       DEF Pool!Leave, Pool!Lose, Pool!Move, Drop, DropKeyError, PrintQRuntimeError, Die
  <2>4. QED BY <1>5, <2>1, <2>3 DEF Pool!Next
<1>9. QED
  BY <1>2, <1>3, <1>4, <1>6, <1>7, <1>8 DEF ThreadStep

(* A boot thread admits its own agent. *)
LEMMA AddStepRefines ==
  ASSUME TypeOK, SingleCarrier, NEW a \in Agents, AddStep(a)
  PROVE  Pool!Next \/ UNCHANGED Pool!vars
<1> USE HeartbeaterAssumption
<1>1. ASSUME AddToQ(a) \/ UnmarkKeyError(a) \/ Unmark(a)
      PROVE  /\ UNCHANGED status
             /\ status[a] = "new"
    BY <1>1, StatusSame DEF SameService, InService, InQueue, Held, Beating, TypeOK,
       AddToQ, UnmarkKeyError, Unmark, status
<1>2. ASSUME Unmark(a)
      PROVE  Pool!CancelMark(a)
  BY <1>1, <1>2 DEF Pool!CancelMark, Unmark
<1>3. ASSUME Enqueue(a)
      PROVE  Pool!Admit(a)
  <2>1. /\ Range(queue') = Range(queue) \cup {a} /\ entry' = entry
        /\ \A u \in Threads : pc'[u] = "send" <=> pc[u] = "send"
        /\ \A b \in Agents : adding'[b] = IF b = a THEN "in" ELSE adding[b]
    BY <1>3, RangeAppend DEF Enqueue, TypeOK, Disturbed
  <2>2. \A u \in Threads : entry[u] # a
    BY <1>3, HeartbeaterAssumption DEF Enqueue, SingleCarrier, TypeOK
  <2>3. /\ \A b \in Agents \ {a} : SameService(b)
        /\ status[a] = "new" /\ status'[a] = "idle"
    BY <1>3, <2>1, <2>2 DEF SameService, InService, InQueue, Held, Beating, status, Enqueue
  <2>4. QED BY <1>3, <2>3, StatusMoves DEF Pool!Admit, Pool!Move, Enqueue
<1>4. QED
  BY <1>1, <1>2, <1>3 DEF AddStep, AddToQ, UnmarkKeyError, Pool!Next, Pool!vars

LEMMA NextRefines ==
  TypeOK /\ SingleCarrier /\ [Next]_vars => [Pool!Next]_(Pool!vars)
<1> SUFFICES ASSUME TypeOK, SingleCarrier, [Next]_vars
             PROVE  Pool!Next \/ UNCHANGED Pool!vars
  OBVIOUS
<1>1. ASSUME NEW T \in SUBSET Threads, RunHeartbeaterThreads(T)
      PROVE  UNCHANGED Pool!vars
  <2>1. \A b \in Agents : SameService(b)
    BY <1>1 DEF RunHeartbeaterThreads, SameService, InService, InQueue, Held,
       Beating, TypeOK
  <2>2. QED BY <1>1, <2>1, StatusSame DEF RunHeartbeaterThreads, Pool!vars
<1>2. ASSUME NEW s \in Systems, RemoveFromHeartbeaterQ(s)
      PROVE  Pool!Next
  <2>1. \A b \in Agents : SameService(b)
    BY <1>2 DEF RemoveFromHeartbeaterQ, SameService, InService, InQueue, Held, Beating
  <2>2. QED BY <1>2, <2>1, StatusSame DEF RemoveFromHeartbeaterQ, Pool!Mark, Pool!Next
<1>3. ASSUME (\E a \in Agents : Tick(a)) \/ UNCHANGED vars
      PROVE  UNCHANGED Pool!vars
  <2>1. \A b \in Agents : SameService(b)
    BY <1>3 DEF Tick, vars, SameService, InService, InQueue, Held, Beating
  <2>2. QED BY <1>3, <2>1, StatusSame DEF Tick, vars, Pool!vars
<1>4. QED
  BY <1>1, <1>2, <1>3, ThreadStepRefines, AddStepRefines DEF Next

(* Whatever its threads and callers interleave, the class does what the    *)
(* lock-free pool of HeartbeatPool does.                                   *)
THEOREM ImplementsPool == Spec => PoolSpec
<1>1. Init => Pool!Init
  BY DEF Init, Pool!Init, status
<1>2. QED
  BY <1>1, InitTypeOK, NextTypeOK, InitSingleCarrier, NextSingleCarrier,
     NextRefines, PTL DEF Spec, PoolSpec, Pool!Spec

=============================================================================
