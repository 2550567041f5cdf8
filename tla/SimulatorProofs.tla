--------------------------- MODULE SimulatorProofs ---------------------------
(***************************************************************************)
(* Theorems about module Simulator, for every number of nodes, every set   *)
(* of messages and timers, every set of setups and every bound.            *)
(***************************************************************************)
EXTENDS Simulator, TLAPS, FiniteSetTheorems, SequenceTheorems, WellFoundedInduction

-----------------------------------------------------------------------------
(* Lemmas about the data the model is built from.                          *)

(* The nodes are a finite set of naturals.                                 *)
LEMMA NodeFinite == Node \subseteq Nat /\ IsFiniteSet(Node)
BY NodeCountAssumption, FS_Interval DEF Node

(* An event is the record schedule_delivery, arm_timer, schedule_fault and *)
(* schedule_client_op push on the heap.                                    *)
LEMMA ScheduledType ==
  ASSUME NEW at \in Nat, NEW n \in Nat, NEW kind \in EventKind
  PROVE  /\ Scheduled(at, n, kind) \in Event
         /\ Scheduled(at, n, kind).at = at
         /\ Scheduled(at, n, kind).seq = n
         /\ Scheduled(at, n, kind).kind = kind
BY DEF Scheduled, Event

LEMMA DeliverType ==
  ASSUME NEW from \in Node, NEW to \in Node, NEW msg \in Msg
  PROVE  [type |-> "deliver", from |-> from, to |-> to, msg |-> msg] \in EventKind
BY DEF EventKind, Deliver

LEMMA FiringType ==
  ASSUME NEW n \in Node, NEW t \in Timer, NEW gen \in Nat
  PROVE  [type |-> "timer", node |-> n, timer |-> t, gen |-> gen] \in EventKind
BY DEF EventKind, Firing

LEMMA ClientOpType ==
  ASSUME NEW p \in Node, NEW i \in Nat
  PROVE  [type |-> "op", process |-> p, index |-> i] \in EventKind
BY DEF EventKind, ClientOp

LEMMA FaultType ==
  ASSUME NEW f \in FaultAction
  PROVE  [type |-> "fault", action |-> f] \in EventKind
BY DEF EventKind, Fault

(* What an event of the heap holds, by its type.                           *)
LEMMA EventFields ==
  ASSUME NEW e \in Event
  PROVE  /\ e.at \in Nat /\ e.seq \in Nat
         /\ e.kind.type = "deliver" => e.kind.from \in Node /\ e.kind.to \in Node
         /\ e.kind.type = "timer" => e.kind.node \in Node /\ e.kind.timer \in Timer /\ e.kind.gen \in Nat
         /\ e.kind.type = "op" => e.kind.process \in Node
         /\ e.kind.type = "fault" => e.kind.action \in FaultAction
BY DEF Event, EventKind, Deliver, Firing, ClientOp, Fault

LEMMA ElementOfSequence ==
  ASSUME NEW S, NEW q \in Seq(S), NEW i \in DOMAIN q
  PROVE  q[i] \in S /\ i \in Nat /\ i >= 1 /\ i - 1 \in Nat /\ i - 1 < Len(q)
OBVIOUS

(* A set of numbers has a smallest one: numbers are compared as intervals, *)
(* which are finite.                                                       *)
LEMMA SmallestOf ==
  ASSUME NEW S, S \subseteq Nat, S # {}
  PROVE  \E i \in S : \A j \in S : i <= j
<1> DEFINE Downs == {0 .. i : i \in S}
<1>1. Downs # {} /\ Downs \subseteq FiniteSubsetsOf(Nat)
  <2>1. \A i \in Nat : IsFiniteSet(0 .. i) /\ 0 .. i \subseteq Nat
    BY FS_Interval
  <2>2. QED
    BY <2>1 DEF FiniteSubsetsOf
<1>2. PICK x \in Downs : \A y \in Downs : ~ (<<y, x>> \in StrictSubsetOrdering(Nat))
  BY <1>1, FS_StrictSubsetOrderingWellFounded, WFMin
<1>3. PICK i \in S : x = 0 .. i
  BY <1>2
<1>4. ASSUME NEW j \in S, j < i
      PROVE  FALSE
  <2>1. 0 .. j \subseteq 0 .. i /\ i \in 0 .. i /\ i \notin 0 .. j
    BY <1>4
  <2>2. <<0 .. j, 0 .. i>> \in StrictSubsetOrdering(Nat)
    BY <2>1 DEF StrictSubsetOrdering
  <2>3. QED
    BY <1>2, <1>3, <2>2
<1>5. QED
  BY <1>4

(* The front of the VecDeque is the smallest of its op indices.            *)
LEMMA FrontInTodo ==
  ASSUME NEW p, todo[p] \subseteq Nat, todo[p] # {}
  PROVE  FrontOf(p) \in todo[p] /\ \A j \in todo[p] : FrontOf(p) <= j
BY SmallestOf DEF FrontOf

-----------------------------------------------------------------------------
(* Lemmas about the driver's helpers, under the type invariant.            *)

(* The processes the pump serves, and the numbers it gives their events.   *)
LEMMA FreeProcesses ==
  /\ Free \subseteq Node /\ IsFiniteSet(Free) /\ Cardinality(Free) \in Nat
  /\ \A p \in Free : Rank(p) \in Nat
<1>1. Free \subseteq Node /\ IsFiniteSet(Free) /\ Cardinality(Free) \in Nat
  BY NodeFinite, FS_Subset, FS_CardinalityType DEF Free
<1>2. ASSUME NEW p \in Free
      PROVE  Rank(p) \in Nat
  <2>1. {q \in Free : q < p} \in SUBSET Free
    OBVIOUS
  <2>2. QED
    BY <1>1, <2>1, FS_Subset, FS_CardinalityType DEF Rank
<1>3. QED
  BY <1>1, <1>2

(* The node of the running callback is a node.                             *)
LEMMA CallbackNode ==
  ASSUME ControlTypeOK, pc = "callback"
  PROVE  cb.node \in Node /\ cb.left \in 0 .. MaxEffects
BY DEF ControlTypeOK, Callback

LEMMA SpendType ==
  ASSUME ControlTypeOK, Running, Spend
  PROVE  /\ ControlTypeOK' /\ pc = "callback" /\ pc' = "callback"
         /\ cb'.kind = cb.kind /\ cb'.node = cb.node
<1> USE SimulatorAssumption
<1>0. pc = "callback" /\ cb.kind \in {"boot", "start", "msg", "timer", "op"}
  BY DEF ControlTypeOK, Running
<1>1. pc' = "callback" /\ cb.left - 1 \in 0 .. MaxEffects
  BY DEF ControlTypeOK, Callback, Running, Spend
<1>2. CASE cb \in [kind : {"boot", "start", "msg"}, node : Node, left : 0 .. MaxEffects]
  BY <1>0, <1>1, <1>2 DEF Spend, Callback, ControlTypeOK
<1>3. CASE cb \in [kind : {"timer"}, node : Node, timer : Timer, left : 0 .. MaxEffects]
  BY <1>0, <1>1, <1>3 DEF Spend, Callback, ControlTypeOK
<1>4. CASE cb \in [kind : {"op"}, node : Node, token : Nat, left : 0 .. MaxEffects]
  BY <1>0, <1>1, <1>4 DEF Spend, Callback, ControlTypeOK
<1>5. QED
  BY <1>2, <1>3, <1>4 DEF ControlTypeOK, Callback, Running

LEMMA CloseOpType ==
  ASSUME CoreTypeOK, NEW token, NEW kind \in Terminal, CloseOp(token, kind)
  PROVE  history' \in Seq(OpEntry) /\ pending' \in SUBSET pending
<1>1. CASE \A o \in pending : o.token # token
  BY <1>1 DEF CloseOp, CoreTypeOK
<1>2. ASSUME NEW o \in pending,
             pending' = pending \ {o},
             history' = Append(history, Entry(now, kind, o.process, o.op))
      PROVE  history' \in Seq(OpEntry) /\ pending' \in SUBSET pending
  <2>1. Entry(now, kind, o.process, o.op) \in OpEntry
    BY DEF CoreTypeOK, PendingOp, Entry, OpEntry
  <2>2. QED
    BY <1>2, <2>1 DEF CoreTypeOK
<1>3. QED
  BY <1>1, <1>2 DEF CloseOp

LEMMA TargetType ==
  ASSUME TypeOK, NEW p \in Node, NEW i \in DOMAIN ops
  PROVE  Target(p, i) \in Node
<1>1. ops[i].route \in Nat \cup {NoRoute}
  <2>1. ops[i] \in FrozenOp
    BY ElementOfSequence DEF TypeOK, DriverTypeOK
  <2>2. QED
    BY <2>1 DEF FrozenOp
<1>2. \A n \in Nat : n % NodeCount \in Node
  BY NodeCountAssumption DEF Node
<1>3. p \in Nat
  BY NodeFinite
<1>4. QED
  BY <1>1, <1>2, <1>3 DEF Target

-----------------------------------------------------------------------------
(* Type correctness.                                                       *)

LEMMA TypeInit == Init => TypeOK
<1> SUFFICES ASSUME NEW s \in Setups, 
                    CoreInit(s.model, s.horizon),
                    queue = {Scheduled(s.timeline[i].at, i - 1,
                               [type |-> "fault", action |-> s.timeline[i].action])
                               : i \in DOMAIN s.timeline},
                    seq = Len(s.timeline),
                    ops = s.ops,
                    todo = [p \in Node |->
                              {i \in DOMAIN s.ops : s.ops[i].process % NodeCount = p}],
                    scheduled = [p \in Node |-> 0],
                    pc = "callback", cb = Boot(0)
             PROVE  TypeOK
  BY DEF Init
<1>1. s.model \in NetworkModel /\ s.horizon \in Nat /\ s.ops \in Seq(FrozenOp)
      /\ s.timeline \in Seq([at : Nat, action : FaultAction])
  BY SimulatorAssumption DEF Setup
<1>2. \A e \in queue : e \in Event /\ e.kind.type = "fault"
  <2> DEFINE K(i) == [type |-> "fault", action |-> s.timeline[i].action]
  <2>1. ASSUME NEW i \in DOMAIN s.timeline
        PROVE  /\ Scheduled(s.timeline[i].at, i - 1, K(i)) \in Event
               /\ Scheduled(s.timeline[i].at, i - 1, K(i)).kind = K(i)
    <3>1. s.timeline[i] \in [at : Nat, action : FaultAction] /\ i - 1 \in Nat
      BY <1>1, ElementOfSequence, Zenon
    <3>2. s.timeline[i].at \in Nat /\ s.timeline[i].action \in FaultAction
      BY <3>1
    <3>3. K(i) \in EventKind
      BY <3>2, FaultType
    <3>4. QED
      BY <3>1, <3>2, <3>3, ScheduledType
  <2>2. \A i : K(i).type = "fault"
    OBVIOUS
  <2> HIDE DEF K
  <2>3. queue = {Scheduled(s.timeline[i].at, i - 1, K(i)) : i \in DOMAIN s.timeline}
    BY DEF K
  <2>4. QED
    BY <2>1, <2>2, <2>3
<1>3. cb \in Callback /\ cb.kind = "boot"
  BY NodeCountAssumption, SimulatorAssumption DEF Boot, Callback, Node
<1>4. history \in Seq(OpEntry) /\ events \in Seq(RunEvent)
  BY DEF CoreInit
<1>5. todo \in [Node -> SUBSET DOMAIN ops] /\ scheduled \in [Node -> Nat]
  OBVIOUS
<1>6. seq \in Nat
  BY <1>1
<1>7. CoreTypeOK
  BY <1>1, <1>2, <1>4, <1>6 DEF CoreTypeOK, CoreInit
<1>8. DriverTypeOK
  BY <1>1, <1>2, <1>5 DEF DriverTypeOK
<1>9. QED
  BY <1>3, <1>7, <1>8 DEF TypeOK, ControlTypeOK

(* Enqueueing one event keeps the types of the queue and the counter.      *)
LEMMA EnqueueType ==
  ASSUME CoreTypeOK, NEW at \in Nat, NEW kind \in EventKind, Enqueue(at, kind)
  PROVE  queue' \in SUBSET Event /\ seq' \in Nat
BY ScheduledType DEF CoreTypeOK, Enqueue

LEMMA DeliveryTimeType ==
  ASSUME CoreTypeOK, NEW from \in Node, NEW to \in Node, NEW delay \in model.delays
  PROVE  DeliveryTime(from, to, delay) \in Nat
<1>1. delay \in Nat /\ lastLink[<<from, to>>] \in Nat /\ now \in Nat
  BY DEF CoreTypeOK, NetworkModel
<1>2. QED
  BY <1>1 DEF DeliveryTime

(* Sending puts one or two deliveries on the queue, and at most moves the  *)
(* floor of the link.                                                      *)
LEMMA ScheduleDeliveryType ==
  ASSUME CoreTypeOK, NEW from \in Node, NEW to \in Node, NEW msg \in Msg,
         ScheduleDelivery(from, to, msg)
  PROVE  /\ queue' \in SUBSET Event /\ seq' \in Nat
         /\ lastLink' \in [Node \X Node -> Nat]
         /\ \A e \in queue' : e \in queue \/ e.kind.type = "deliver"
<1> DEFINE copy == [type |-> "deliver", from |-> from, to |-> to, msg |-> msg]
<1>1. copy \in EventKind /\ copy.type = "deliver"
  BY DeliverType
<1>2. PICK delay \in model.delays :
        LET at == DeliveryTime(from, to, delay)
        IN /\ lastLink' = IF model.ordered
                          THEN [lastLink EXCEPT ![<<from, to>>] = at]
                          ELSE lastLink
           /\ \/ Enqueue(at, copy)
              \/ /\ queue' = queue \cup {Scheduled(at, seq, copy),
                                         Scheduled(at, seq + 1, copy)}
                 /\ seq' = seq + 2
  BY DEF ScheduleDelivery
<1> DEFINE at == DeliveryTime(from, to, delay)
<1>3. at \in Nat
  BY DeliveryTimeType
<1>4. lastLink' \in [Node \X Node -> Nat]
  BY <1>2, <1>3 DEF CoreTypeOK
<1> HIDE DEF copy, at
<1>5. seq \in Nat /\ seq + 1 \in Nat /\ queue \in SUBSET Event
  BY DEF CoreTypeOK
<1>6. /\ Scheduled(at, seq, copy) \in Event
      /\ Scheduled(at, seq, copy).kind = copy
      /\ Scheduled(at, seq + 1, copy) \in Event
      /\ Scheduled(at, seq + 1, copy).kind = copy
  BY <1>1, <1>3, <1>5, ScheduledType
<1>7. CASE Enqueue(at, copy)
  BY <1>1, <1>4, <1>5, <1>6, <1>7 DEF Enqueue
<1>8. CASE /\ queue' = queue \cup {Scheduled(at, seq, copy), Scheduled(at, seq + 1, copy)}
           /\ seq' = seq + 2
  BY <1>1, <1>4, <1>5, <1>6, <1>8
<1>9. QED
  BY <1>2, <1>7, <1>8 DEF copy, at

(* An entry for an op of the stream.                                       *)
LEMMA OpEntryType ==
  ASSUME NEW at \in Nat, NEW kind \in {"invoke"} \cup Terminal,
         NEW p \in Node, NEW i \in Nat
  PROVE  Entry(at, kind, p, i) \in OpEntry
BY DEF Entry, OpEntry

(* The indices of the ops are naturals.                                    *)
LEMMA OpIndices == DriverTypeOK => DOMAIN ops \subseteq Nat
BY DEF DriverTypeOK

LEMMA TypeEffect == TypeOK /\ Effect => TypeOK'
<1> SUFFICES ASSUME TypeOK, Effect
             PROVE  TypeOK'
  OBVIOUS
<1> USE DEF TypeOK
<1>a. ASSUME Running PROVE cb.node \in Node
  BY <1>a, CallbackNode DEF Running
<1>1. ASSUME NEW to \in Node, SendLost(to)
      PROVE  TypeOK'
  BY <1>1, SpendType DEF SendLost, LoseMessage, CoreTypeOK, DriverTypeOK, driverVars
<1>2. ASSUME NEW to \in Node, NEW msg \in Msg, Send(to, msg)
      PROVE  TypeOK'
  <2>1. ControlTypeOK'
    BY <1>2, SpendType DEF Send
  <2>2. /\ queue' \in SUBSET Event /\ seq' \in Nat
        /\ lastLink' \in [Node \X Node -> Nat]
        /\ \A e \in queue' : e \in queue \/ e.kind.type = "deliver"
    BY <1>a, <1>2, ScheduleDeliveryType DEF Send
  <2>3. CoreTypeOK'
    BY <1>2, <2>2 DEF Send, CoreTypeOK
  <2>4. DriverTypeOK'
    BY <1>2, <2>2 DEF Send, DriverTypeOK, driverVars
  <2>5. QED
    BY <2>1, <2>3, <2>4
<1>3. ASSUME NEW t \in Timer, Cancel(t)
      PROVE  TypeOK'
  BY <1>a, <1>3, SpendType DEF Cancel, CancelTimer, CoreTypeOK, DriverTypeOK, driverVars
<1>4. ASSUME NEW t \in Timer, NEW after \in After, SetTimer(t, after)
      PROVE  TypeOK'
  <2> DEFINE gen == timerGen[<<cb.node, t>>] + 1
             kind == [type |-> "timer", node |-> cb.node, timer |-> t, gen |-> gen]
  <2>1. ControlTypeOK'
    BY <1>4, SpendType DEF SetTimer
  <2>2. cb.node \in Node /\ gen \in Nat /\ now + after \in Nat
    BY <1>a, <1>4, SimulatorAssumption DEF SetTimer, CoreTypeOK
  <2>3. kind \in EventKind /\ kind.type = "timer"
    BY <2>2, FiringType
  <2>4. Enqueue(now + after, kind) /\ timerGen' = [timerGen EXCEPT ![<<cb.node, t>>] = gen]
    BY <1>4 DEF SetTimer, ArmTimer
  <2> HIDE DEF kind, gen
  <2>5. queue' \in SUBSET Event /\ seq' \in Nat /\ timerGen' \in [Node \X Timer -> Nat]
    BY <2>2, <2>3, <2>4, EnqueueType DEF CoreTypeOK
  <2>6. \A e \in queue' : e \in queue \/ e.kind.type = "timer"
    BY <2>2, <2>3, <2>4, ScheduledType DEF Enqueue, CoreTypeOK
  <2>7. CoreTypeOK'
    BY <1>4, <2>5 DEF SetTimer, CoreTypeOK
  <2>8. DriverTypeOK'
    BY <1>4, <2>6 DEF SetTimer, DriverTypeOK, driverVars
  <2>9. QED
    BY <2>1, <2>7, <2>8
<1>5. ASSUME NEW token, NEW kind \in Terminal, CompleteOp(token, kind)
      PROVE  TypeOK'
  <2>1. history' \in Seq(OpEntry) /\ pending' \in SUBSET pending
    BY <1>5, CloseOpType DEF CompleteOp
  <2>2. QED
    BY <1>5, <2>1, SpendType DEF CompleteOp, CoreTypeOK, DriverTypeOK, driverVars
<1>6. QED
  BY <1>1, <1>2, <1>3, <1>4, <1>5 DEF Effect

LEMMA TypeReturn == TypeOK /\ Return => TypeOK'
<1> SUFFICES ASSUME TypeOK, Return
             PROVE  TypeOK'
  OBVIOUS
<1> USE DEF TypeOK
<1>1. CASE ReturnBoot
  <2>1. ControlTypeOK'
    <3>1. CASE cb.node + 1 < NodeCount
      <4>1. cb.node + 1 \in Node
        BY <1>1, <3>1, CallbackNode, NodeCountAssumption DEF ReturnBoot, Node
      <4>2. Boot(cb.node + 1) \in Callback /\ Boot(cb.node + 1).kind = "boot"
        BY <4>1, SimulatorAssumption DEF Boot, Callback
      <4>3. QED
        BY <1>1, <3>1, <4>2 DEF ReturnBoot, ControlTypeOK
    <3>2. CASE ~(cb.node + 1 < NodeCount)
      BY <1>1, <3>2 DEF ReturnBoot, ControlTypeOK, Idle, Callback
    <3>3. QED
      BY <3>1, <3>2
  <2>2. QED
    BY <1>1, <2>1 DEF ReturnBoot, CoreTypeOK, DriverTypeOK, coreVars, driverVars
<1>2. CASE ReturnHandler \/ ReturnPending
  BY <1>2 DEF ReturnHandler, ReturnPending, Idle, Callback,
              CoreTypeOK, DriverTypeOK, ControlTypeOK, coreVars, driverVars
<1>3. CASE ReturnDone
  <2>1. history' \in Seq(OpEntry) /\ pending' \in SUBSET pending
    BY <1>3, CloseOpType DEF ReturnDone, Terminal
  <2>2. ControlTypeOK'
    BY <1>3 DEF ReturnDone, ControlTypeOK, Idle, Callback
  <2>3. QED
    BY <1>3, <2>1, <2>2 DEF ReturnDone, CoreTypeOK, DriverTypeOK, driverVars
<1>4. QED
  BY <1>1, <1>2, <1>3 DEF Return

LEMMA TypePump == TypeOK /\ Pump => TypeOK'
<1> SUFFICES ASSUME TypeOK, Pump
             PROVE  TypeOK'
  OBVIOUS
<1> USE DEF TypeOK
<1> DEFINE K(p) == [type |-> "op", process |-> p, index |-> FrontOf(p)]
           E(p) == Scheduled(now + 1, seq + Rank(p), K(p))
<1>1. ASSUME NEW p \in Free
      PROVE  FrontOf(p) \in DOMAIN ops
  <2>1. todo[p] # {} /\ todo[p] \subseteq DOMAIN ops
    BY <1>1 DEF Free, DriverTypeOK
  <2>2. QED
    BY <2>1, OpIndices, FrontInTodo
<1>2. ASSUME NEW p \in Free
      PROVE  E(p) \in Event /\ E(p).kind.index \in DOMAIN ops
  <2>1. K(p) \in EventKind /\ K(p).index \in DOMAIN ops
    BY <1>1, OpIndices, ClientOpType, FreeProcesses
  <2>2. now + 1 \in Nat /\ seq + Rank(p) \in Nat
    BY FreeProcesses DEF CoreTypeOK
  <2>3. QED
    BY <2>1, <2>2, ScheduledType
<1>3. queue' = queue \cup {E(p) : p \in Free}
  BY DEF Pump
<1> HIDE DEF K, E
<1>4. queue' \in SUBSET Event /\ seq' \in Nat
  <2>1. queue' \in SUBSET Event
    BY <1>2, <1>3 DEF CoreTypeOK
  <2>2. seq' = seq + Cardinality(Free)
    BY DEF Pump
  <2>3. QED
    BY <2>1, <2>2, FreeProcesses DEF CoreTypeOK
<1>5. \A e \in queue' : e.kind.type = "op" => e.kind.index \in DOMAIN ops
  BY <1>2, <1>3 DEF DriverTypeOK
<1>6. CoreTypeOK'
  BY <1>4 DEF Pump, CoreTypeOK
<1>7. DriverTypeOK'
  BY <1>5 DEF Pump, DriverTypeOK
<1>8. ControlTypeOK'
  BY DEF Pump, ControlTypeOK
<1>9. QED
  BY <1>6, <1>7, <1>8

(* Popping an event keeps the queue and the clock well typed.              *)
LEMMA PopType ==
  ASSUME CoreTypeOK, NEW e \in queue, Pop(e)
  PROVE  /\ e \in Event /\ now' = e.at /\ now' \in Nat
         /\ queue' = queue \ {e} /\ queue' \in SUBSET Event
         /\ pc = "pop"
         /\ UNCHANGED <<model, horizon, seq, timerGen, lastLink>>
BY EventFields DEF CoreTypeOK, Pop

LEMMA ApplyFaultType ==
  ASSUME CoreTypeOK, NEW at \in Nat, NEW f \in FaultAction, ApplyFault(at, f)
  PROVE  /\ partitions' \in SUBSET SUBSET Node
         /\ crashed' \in SUBSET Node
         /\ events' \in Seq(RunEvent)
         /\ f.type \in {"crash", "restart"} => f.node \in Node
         /\ f.type \in {"crash", "restart", "partition", "heal"}
<1>1. CASE f.type = "partition"
  <2>1. f.groups \in SUBSET SUBSET Node
    BY <1>1 DEF FaultAction
  <2>2. QED
    BY <1>1, <2>1 DEF ApplyFault, CoreTypeOK
<1>2. CASE f.type = "heal"
  <2>1. [type |-> "NetworkHealed", at |-> at] \in RunEvent
    BY DEF RunEvent
  <2>2. Append(events, [type |-> "NetworkHealed", at |-> at]) \in Seq(RunEvent)
    BY <2>1, AppendProperties DEF CoreTypeOK
  <2>3. QED
    BY <1>2, <2>2 DEF ApplyFault, CoreTypeOK
<1>3. CASE f.type \in {"crash", "restart"}
  <2>1. f.node \in Node
    BY <1>3 DEF FaultAction
  <2>2. [type |-> "NodeRejoined", at |-> at, node |-> f.node] \in RunEvent
    BY <2>1 DEF RunEvent
  <2>3. Append(events, [type |-> "NodeRejoined", at |-> at, node |-> f.node]) \in Seq(RunEvent)
    BY <2>2, AppendProperties DEF CoreTypeOK
  <2>4. QED
    BY <1>3, <2>1, <2>3 DEF ApplyFault, CoreTypeOK
<1>4. QED
  BY <1>1, <1>2, <1>3 DEF FaultAction

LEMMA TypeDispatch == TypeOK /\ Dispatch => TypeOK'
<1> SUFFICES ASSUME TypeOK, NEW e \in queue,
                    \/ PopDeliver(e) \/ PopTimer(e) \/ Skip(e)
                    \/ PopClientOp(e) \/ PopFault(e)
             PROVE  TypeOK'
  BY DEF Dispatch
<1> USE DEF TypeOK
<1>0. Pop(e) /\ CoreTypeOK
  BY DEF PopDeliver, PopTimer, Skip, PopClientOp, PopFault
<1>p. /\ e \in Event /\ now' = e.at /\ now' \in Nat /\ pc = "pop"
      /\ queue' = queue \ {e} /\ queue' \in SUBSET Event
      /\ UNCHANGED <<model, horizon, seq, timerGen, lastLink>>
  BY <1>0, PopType
<1>1. CASE PopDeliver(e)
  <2>1. OnMsg(e.kind.to) \in Callback /\ OnMsg(e.kind.to).kind = "msg"
    BY <1>1, <1>p, EventFields, SimulatorAssumption DEF PopDeliver, OnMsg, Callback
  <2>2. ControlTypeOK'
    BY <1>1, <2>1 DEF PopDeliver, ControlTypeOK
  <2>3. QED
    BY <1>1, <1>p, <2>2 DEF PopDeliver, CoreTypeOK, DriverTypeOK, driverVars
<1>2. CASE PopTimer(e)
  <2>1. /\ OnTimer(e.kind.node, e.kind.timer) \in Callback
        /\ OnTimer(e.kind.node, e.kind.timer).kind = "timer"
    BY <1>2, <1>p, EventFields, SimulatorAssumption DEF PopTimer, OnTimer, Callback
  <2>2. ControlTypeOK'
    BY <1>2, <2>1 DEF PopTimer, ControlTypeOK
  <2>3. QED
    BY <1>2, <1>p, <2>2 DEF PopTimer, CoreTypeOK, DriverTypeOK, driverVars
<1>3. CASE Skip(e)
  BY <1>3, <1>p DEF Skip, CoreTypeOK, DriverTypeOK, ControlTypeOK, driverVars, control
<1>4. CASE PopClientOp(e)
  <2> DEFINE p == e.kind.process
             i == e.kind.index
  <2>1. p \in Node /\ i \in DOMAIN ops /\ i \in Nat
    BY <1>4, <1>p, EventFields, OpIndices DEF PopClientOp, DriverTypeOK
  <2>2. CASE ops[i].decodes
    <3>1. OpenOp(e.at, p, i) /\ pc' = "callback" /\ cb' = OnClientOp(Target(p, i), nextToken)
      BY <1>4, <2>2 DEF PopClientOp
    <3>2. Target(p, i) \in Node
      BY <2>1, TargetType
    <3> HIDE DEF p, i
    <3>3. nextToken \in Nat
      BY DEF CoreTypeOK
    <3>4. /\ OnClientOp(Target(p, i), nextToken) \in Callback
          /\ OnClientOp(Target(p, i), nextToken).kind = "op"
      BY <3>2, <3>3, SimulatorAssumption DEF OnClientOp, Callback
    <3>5. ControlTypeOK'
      BY <3>1, <3>4 DEF ControlTypeOK
    <3>6. Entry(e.at, "invoke", p, i) \in OpEntry
      BY <1>p, <2>1, OpEntryType
    <3>7. history' \in Seq(OpEntry)
      BY <3>1, <3>6 DEF OpenOp, CoreTypeOK
    <3>8. pending' \in SUBSET PendingOp /\ nextToken' \in Nat
      BY <2>1, <3>1, <3>3 DEF OpenOp, CoreTypeOK, PendingOp
    <3>9. QED
      BY <1>4, <1>p, <3>5, <3>7, <3>8 DEF PopClientOp, CoreTypeOK, DriverTypeOK, driverVars
  <2>3. CASE ~ops[i].decodes
    <3>1. RejectOp(e.at, p, i) /\ pc' = "pump" /\ UNCHANGED cb
      BY <1>4, <2>3 DEF PopClientOp
    <3> HIDE DEF p, i
    <3>2. Entry(e.at, "invoke", p, i) \in OpEntry /\ Entry(e.at, "fail", p, i) \in OpEntry
      BY <1>p, <2>1, OpEntryType DEF Terminal
    <3>3. history' \in Seq(OpEntry)
      BY <3>1, <3>2 DEF RejectOp, CoreTypeOK
    <3>4. ControlTypeOK'
      BY <1>p, <3>1 DEF ControlTypeOK
    <3>5. QED
      BY <1>4, <1>p, <3>1, <3>3, <3>4
      DEF PopClientOp, RejectOp, CoreTypeOK, DriverTypeOK, driverVars
  <2>4. QED
    BY <2>2, <2>3
<1>5. CASE PopFault(e)
  <2> DEFINE f == e.kind.action
  <2>1. f \in FaultAction /\ ApplyFault(e.at, f) /\ e.at \in Nat
    BY <1>5, <1>p, EventFields DEF PopFault
  <2>2. /\ partitions' \in SUBSET SUBSET Node
        /\ crashed' \in SUBSET Node
        /\ events' \in Seq(RunEvent)
        /\ f.type \in {"crash", "restart"} => f.node \in Node
        /\ f.type \in {"crash", "restart", "partition", "heal"}
    BY <2>1, ApplyFaultType
  <2>3. /\ f.type = "crash" => pc' = "closing" /\ cb' = Closing(f.node)
        /\ f.type = "restart" => pc' = "callback" /\ cb' = OnStart(f.node)
        /\ f.type \in {"partition", "heal"} => pc' = "pump" /\ UNCHANGED cb
    BY <1>5 DEF PopFault
  <2> HIDE DEF f
  <2>4. ControlTypeOK'
    <3>1. CASE f.type = "crash"
      BY <2>2, <2>3, <3>1 DEF ControlTypeOK, Closing, Callback
    <3>2. CASE f.type = "restart"
      BY <2>2, <2>3, <3>2, SimulatorAssumption DEF ControlTypeOK, OnStart, Callback
    <3>3. CASE f.type \in {"partition", "heal"}
      BY <1>p, <2>3, <3>3 DEF ControlTypeOK
    <3>4. QED
      BY <2>2, <3>1, <3>2, <3>3
  <2>5. QED
    BY <1>5, <1>p, <2>2, <2>4 DEF PopFault, CoreTypeOK, DriverTypeOK, driverVars
<1>6. QED
  BY <1>1, <1>2, <1>3, <1>4, <1>5

LEMMA TypeClosing ==
  TypeOK /\ (CloseVictim \/ VictimsClosed \/ ForceClose \/ Stop) => TypeOK'
<1> SUFFICES ASSUME TypeOK, CloseVictim \/ VictimsClosed \/ ForceClose \/ Stop
             PROVE  TypeOK'
  OBVIOUS
<1> USE DEF TypeOK
<1>1. CASE CloseVictim \/ ForceClose
  <2>1. PICK o \in pending : CloseOp(o.token, "info")
    BY <1>1 DEF CloseVictim, ForceClose, Victims
  <2>2. history' \in Seq(OpEntry) /\ pending' \in SUBSET pending
    BY <2>1, CloseOpType DEF Terminal
  <2>3. QED
    BY <1>1, <2>2 DEF CloseVictim, ForceClose, CoreTypeOK, DriverTypeOK,
                      ControlTypeOK, driverVars, control
<1>2. CASE VictimsClosed \/ Stop
  BY <1>2 DEF VictimsClosed, Stop, Idle, Callback, CoreTypeOK, DriverTypeOK,
              ControlTypeOK, coreVars, driverVars
<1>3. QED
  BY <1>1, <1>2

LEMMA TypeFinish == TypeOK /\ Finish => TypeOK'
BY DEF TypeOK, Finish, CoreTypeOK, DriverTypeOK, ControlTypeOK, driverVars

LEMMA TypeStutter == TypeOK /\ UNCHANGED vars => TypeOK'
BY DEF TypeOK, vars, coreVars, driverVars, control, CoreTypeOK, DriverTypeOK, ControlTypeOK

LEMMA TypeNext == TypeOK /\ [Next]_vars => TypeOK'
BY TypeEffect, TypeReturn, TypePump, TypeDispatch, TypeClosing, TypeFinish, TypeStutter
DEF Next, Terminated

(* Every variable always has its type: in particular no event, callback or *)
(* op ever names a node that does not exist, for which the code would      *)
(* index its node vector out of bounds, and every dispatched op index is   *)
(* an index of the op stream.                                              *)
THEOREM TypeCorrect == Spec => []TypeOK
BY TypeInit, TypeNext, PTL DEF Spec

-----------------------------------------------------------------------------
(* Time.                                                                   *)

(* Pushing events that do not lie before the clock, under fresh numbers.   *)
LEMMA FreshEvents ==
  ASSUME CoreTypeOK, TimeMovesForward,
         NEW S \in SUBSET Event, queue' = queue \cup S, now' = now,
         seq' \in Nat, seq <= seq',
         \A e \in S : now <= e.at /\ seq <= e.seq /\ e.seq < seq',
         \A e, f \in S : e.seq = f.seq => e = f
  PROVE  TimeMovesForward'
<1>1. now \in Nat /\ seq \in Nat
  BY DEF CoreTypeOK
<1>2. \A e \in queue \cup S : e.at \in Nat /\ e.seq \in Nat
  BY EventFields DEF CoreTypeOK
<1>3. \A e \in queue' : now' <= e.at /\ e.seq < seq'
  BY <1>1, <1>2 DEF TimeMovesForward
<1>4. \A e, f \in queue' : e.seq = f.seq => e = f
  BY <1>1, <1>2 DEF TimeMovesForward
<1>5. QED
  BY <1>3, <1>4 DEF TimeMovesForward

LEMMA FreshEvent ==
  ASSUME CoreTypeOK, TimeMovesForward,
         NEW at \in Nat, NEW kind \in EventKind, now <= at, now' = now,
         Enqueue(at, kind)
  PROVE  TimeMovesForward'
<1> DEFINE e == Scheduled(at, seq, kind)
<1>1. e \in Event /\ e.at = at /\ e.seq = seq /\ seq \in Nat
  BY ScheduledType DEF CoreTypeOK
<1>2. queue' = queue \cup {e} /\ seq' = seq + 1
  BY DEF Enqueue
<1> HIDE DEF e
<1> DEFINE S == {e}
<1>3. S \in SUBSET Event /\ queue' = queue \cup S /\ seq' \in Nat /\ seq <= seq'
  BY <1>1, <1>2
<1>4. \A g \in S : now <= g.at /\ seq <= g.seq /\ g.seq < seq'
  BY <1>1, <1>2
<1>5. \A g, h \in S : g.seq = h.seq => g = h
  OBVIOUS
<1> HIDE DEF S
<1>6. QED
  BY <1>3, <1>4, <1>5, FreshEvents

(* The delivery time is never before the clock, and on a FIFO link never   *)
(* before the floor.                                                       *)
LEMMA DeliveryTimeBounds ==
  ASSUME CoreTypeOK, NEW from \in Node, NEW to \in Node, NEW delay \in model.delays
  PROVE  /\ now <= DeliveryTime(from, to, delay)
         /\ model.ordered => lastLink[<<from, to>>] <= DeliveryTime(from, to, delay)
<1>1. delay \in Nat /\ lastLink[<<from, to>>] \in Nat /\ now \in Nat
  BY DEF CoreTypeOK, NetworkModel
<1>2. QED
  BY <1>1 DEF DeliveryTime

(* What a send adds to the queue: copies delivered at the same time, under *)
(* fresh numbers; that time becomes the floor of a FIFO link.              *)
Sent(from, to, at, S) ==
  /\ S \in SUBSET Event /\ queue' = queue \cup S
  /\ seq' \in Nat /\ seq <= seq' /\ now <= at
  /\ \A e \in S : /\ e.at = at /\ seq <= e.seq /\ e.seq < seq'
                  /\ e.kind.type = "deliver" /\ e.kind.from = from /\ e.kind.to = to
  /\ \A e, f \in S : e.seq = f.seq => e = f
  /\ model.ordered => /\ lastLink[<<from, to>>] <= at
                      /\ lastLink' = [lastLink EXCEPT ![<<from, to>>] = at]

LEMMA SentCopies ==
  ASSUME CoreTypeOK, NEW from \in Node, NEW to \in Node, NEW msg \in Msg,
         ScheduleDelivery(from, to, msg)
  PROVE  \E at, S : at \in Nat /\ Sent(from, to, at, S)
<1> DEFINE copy == [type |-> "deliver", from |-> from, to |-> to, msg |-> msg]
<1>1. copy \in EventKind /\ copy.type = "deliver" /\ copy.from = from /\ copy.to = to
  BY DeliverType
<1>2. PICK delay \in model.delays :
        LET at == DeliveryTime(from, to, delay)
        IN /\ lastLink' = IF model.ordered
                          THEN [lastLink EXCEPT ![<<from, to>>] = at]
                          ELSE lastLink
           /\ \/ Enqueue(at, copy)
              \/ /\ queue' = queue \cup {Scheduled(at, seq, copy),
                                         Scheduled(at, seq + 1, copy)}
                 /\ seq' = seq + 2
  BY DEF ScheduleDelivery
<1> DEFINE at == DeliveryTime(from, to, delay)
           first == Scheduled(at, seq, copy)
           second == Scheduled(at, seq + 1, copy)
<1>3. /\ at \in Nat /\ now <= at
      /\ model.ordered => lastLink[<<from, to>>] <= at
  BY DeliveryTimeType, DeliveryTimeBounds
<1>4. seq \in Nat /\ seq + 1 \in Nat
  BY DEF CoreTypeOK
<1>5. model.ordered => lastLink' = [lastLink EXCEPT ![<<from, to>>] = at]
  BY <1>2
<1>6. \/ queue' = queue \cup {first} /\ seq' = seq + 1
      \/ queue' = queue \cup {first, second} /\ seq' = seq + 2
  BY <1>2 DEF Enqueue
<1> HIDE DEF copy, at
<1>7. /\ first \in Event /\ first.at = at /\ first.seq = seq /\ first.kind = copy
      /\ second \in Event /\ second.at = at /\ second.seq = seq + 1 /\ second.kind = copy
  BY <1>1, <1>3, <1>4, ScheduledType
<1> HIDE DEF first, second
<1>8. CASE queue' = queue \cup {first} /\ seq' = seq + 1
  <2>1. Sent(from, to, at, {first})
    BY <1>1, <1>3, <1>4, <1>5, <1>7, <1>8 DEF Sent
  <2>2. QED
    BY <1>3, <2>1
<1>9. CASE queue' = queue \cup {first, second} /\ seq' = seq + 2
  <2>1. Sent(from, to, at, {first, second})
    BY <1>1, <1>3, <1>4, <1>5, <1>7, <1>9 DEF Sent
  <2>2. QED
    BY <1>3, <2>1
<1>10. QED
  BY <1>6, <1>8, <1>9

(* The pump numbers the events of different processes differently, below   *)
(* the new counter.                                                        *)
LEMMA Ranks ==
  /\ \A p \in Free : Rank(p) < Cardinality(Free)
  /\ \A p, q \in Free : Rank(p) = Rank(q) => p = q
<1> DEFINE Below(p) == {q \in Free : q < p}
<1>1. Free \subseteq Nat /\ IsFiniteSet(Free)
  BY FreeProcesses, NodeFinite
<1>2. \A p \in Free : IsFiniteSet(Below(p)) /\ Cardinality(Below(p)) \in Nat
  BY <1>1, FS_Subset, FS_CardinalityType
<1>3. ASSUME NEW p \in Free, NEW S \in SUBSET Free, p \in S,
             \A q \in Below(p) : q \in S
      PROVE  Rank(p) < Cardinality(S)
  <2>1. IsFiniteSet(S) /\ Cardinality(S) \in Nat
    BY <1>1, FS_Subset, FS_CardinalityType
  <2>2. Below(p) \in SUBSET S /\ p \notin Below(p)
    <3>1. p \in Nat /\ ~(p < p)
      BY <1>1
    <3>2. QED
      BY <1>3, <3>1
  <2>3. Cardinality(Below(p)) <= Cardinality(S) /\ Cardinality(Below(p)) # Cardinality(S)
    BY <1>3, <2>1, <2>2, FS_Subset
  <2>4. QED
    BY <1>2, <2>1, <2>3 DEF Rank
<1>4. \A p \in Free : Rank(p) < Cardinality(Free)
  BY <1>3
<1>5. ASSUME NEW p \in Free, NEW q \in Free, p < q
      PROVE  Rank(p) < Rank(q)
  <2>1. Below(q) \in SUBSET Free /\ p \in Below(q)
    BY <1>5
  <2>2. \A r \in Below(p) : r \in Below(q)
    BY <1>1, <1>5
  <2>3. QED
    BY <1>3, <2>1, <2>2 DEF Rank
<1>6. ASSUME NEW p \in Free, NEW q \in Free, p # q
      PROVE  Rank(p) # Rank(q)
  <2>1. p < q \/ q < p
    BY <1>1, <1>6
  <2>2. Rank(p) \in Nat /\ Rank(q) \in Nat
    BY FreeProcesses
  <2>3. QED
    BY <1>5, <2>1, <2>2
<1>7. QED
  BY <1>4, <1>6

LEMMA TimePump == TypeOK /\ TimeMovesForward /\ Pump => TimeMovesForward'
<1> SUFFICES ASSUME TypeOK, TimeMovesForward, Pump
             PROVE  TimeMovesForward'
  OBVIOUS
<1> DEFINE K(p) == [type |-> "op", process |-> p, index |-> FrontOf(p)]
           E(p) == Scheduled(now + 1, seq + Rank(p), K(p))
           S == {E(p) : p \in Free}
<1>1. ASSUME NEW p \in Free
      PROVE  E(p) \in Event /\ E(p).at = now + 1 /\ E(p).seq = seq + Rank(p)
  <2>1. todo[p] # {} /\ todo[p] \subseteq DOMAIN ops
    BY <1>1 DEF Free, TypeOK, DriverTypeOK
  <2>2. FrontOf(p) \in Nat
    BY <2>1, OpIndices, FrontInTodo DEF TypeOK
  <2>3. K(p) \in EventKind
    BY <2>2, ClientOpType, FreeProcesses
  <2>4. now + 1 \in Nat /\ seq + Rank(p) \in Nat
    BY FreeProcesses DEF TypeOK, CoreTypeOK
  <2>5. QED
    BY <2>3, <2>4, ScheduledType
<1>2. queue' = queue \cup S /\ seq' = seq + Cardinality(Free) /\ now' = now
  BY DEF Pump
<1>3. now \in Nat /\ seq \in Nat /\ Cardinality(Free) \in Nat /\ \A p \in Free : Rank(p) \in Nat
  BY FreeProcesses DEF TypeOK, CoreTypeOK
<1> HIDE DEF K, E
<1>4. \A e \in S : e \in Event /\ now <= e.at /\ seq <= e.seq /\ e.seq < seq'
  BY <1>1, <1>2, <1>3, Ranks
<1>5. ASSUME NEW p \in Free, NEW q \in Free, E(p).seq = E(q).seq
      PROVE  p = q
  BY <1>1, <1>3, <1>5, Ranks
<1>6. \A e, f \in S : e.seq = f.seq => e = f
  BY <1>5
<1> HIDE DEF S
<1>7. S \in SUBSET Event /\ seq' \in Nat /\ seq <= seq'
  BY <1>2, <1>3, <1>4
<1>8. QED
  BY <1>2, <1>4, <1>6, <1>7, FreshEvents DEF TypeOK

(* The popped event is the earliest, so nothing left lies before the new   *)
(* clock.                                                                  *)
LEMMA TimePop ==
  ASSUME CoreTypeOK, TimeMovesForward, NEW e \in queue, IsNext(e),
         queue' = queue \ {e}, seq' = seq,
         now' = e.at \/ (horizon <= e.at /\ now' = horizon)
  PROVE  TimeMovesForward'
<1>1. \A f \in queue : f.at \in Nat /\ f.seq \in Nat
  BY EventFields DEF CoreTypeOK
<1>2. \A f \in queue' : now' <= e.at /\ e.at <= f.at
  BY <1>1 DEF IsNext, Before, CoreTypeOK
<1>3. now' \in Nat /\ \A f \in queue' : now' <= f.at
  BY <1>1, <1>2 DEF CoreTypeOK
<1>4. QED
  BY <1>3 DEF TimeMovesForward

LEMMA TimeInit == Init => TimeMovesForward
<1> SUFFICES ASSUME Init
             PROVE  TimeMovesForward
  OBVIOUS
<1>1. PICK s \in Setups :
        /\ now = 0
        /\ queue = {Scheduled(s.timeline[i].at, i - 1,
                              [type |-> "fault", action |-> s.timeline[i].action])
                      : i \in DOMAIN s.timeline}
        /\ seq = Len(s.timeline)
  BY DEF Init, CoreInit
<1> DEFINE K(i) == [type |-> "fault", action |-> s.timeline[i].action]
           E(i) == Scheduled(s.timeline[i].at, i - 1, K(i))
<1>2. s.timeline \in Seq([at : Nat, action : FaultAction])
  BY SimulatorAssumption DEF Setup
<1>3. ASSUME NEW i \in DOMAIN s.timeline
      PROVE  /\ i \in Nat /\ i - 1 < Len(s.timeline)
             /\ E(i).at \in Nat /\ E(i).seq = i - 1
  <2>1. /\ s.timeline[i] \in [at : Nat, action : FaultAction]
        /\ i \in Nat /\ i - 1 < Len(s.timeline)
    BY <1>2, ElementOfSequence, Zenon
  <2>2. QED
    BY <2>1 DEF Scheduled
<1>4. queue = {E(i) : i \in DOMAIN s.timeline}
  BY <1>1
<1> HIDE DEF E
<1>5. \A e \in queue : now <= e.at /\ e.seq < seq
  <2>1. \A i \in DOMAIN s.timeline : now <= E(i).at /\ E(i).seq < seq
    BY <1>1, <1>3
  <2>2. QED
    BY <1>4, <2>1
<1>6. ASSUME NEW i \in DOMAIN s.timeline, NEW j \in DOMAIN s.timeline, E(i).seq = E(j).seq
      PROVE  i = j
  BY <1>3, <1>6
<1>7. QED
  BY <1>4, <1>5, <1>6 DEF TimeMovesForward

LEMMA TimeNext == TypeOK /\ TimeMovesForward /\ [Next]_vars => TimeMovesForward'
<1> SUFFICES ASSUME TypeOK, TimeMovesForward, [Next]_vars
             PROVE  TimeMovesForward'
  OBVIOUS
<1> USE DEF TypeOK
<1>a. ASSUME Running PROVE cb.node \in Node
  BY <1>a, CallbackNode DEF Running
<1>s. ASSUME UNCHANGED <<queue, seq, now>> PROVE TimeMovesForward'
  BY <1>s DEF TimeMovesForward
<1>1. ASSUME NEW to \in Node, NEW msg \in Msg, Send(to, msg)
      PROVE  TimeMovesForward'
  <2>1. ScheduleDelivery(cb.node, to, msg) /\ cb.node \in Node /\ now' = now
    BY <1>a, <1>1 DEF Send
  <2>2. PICK at, S : at \in Nat /\ Sent(cb.node, to, at, S)
    BY <2>1, SentCopies
  <2>3. QED
    BY <2>1, <2>2, FreshEvents DEF Sent
<1>2. ASSUME NEW t \in Timer, NEW after \in After, SetTimer(t, after)
      PROVE  TimeMovesForward'
  <2> DEFINE gen == timerGen[<<cb.node, t>>] + 1
             kind == [type |-> "timer", node |-> cb.node, timer |-> t, gen |-> gen]
  <2>1. /\ cb.node \in Node /\ gen \in Nat
        /\ now + after \in Nat /\ now <= now + after /\ now' = now
    BY <1>a, <1>2, SimulatorAssumption DEF SetTimer, CoreTypeOK
  <2>2. kind \in EventKind
    BY <2>1, FiringType
  <2>3. Enqueue(now + after, kind)
    BY <1>2 DEF SetTimer, ArmTimer
  <2>4. QED
    BY <2>1, <2>2, <2>3, FreshEvent
<1>3. CASE Effect
  BY <1>1, <1>2, <1>3, <1>s DEF Effect, SendLost, LoseMessage, Cancel, CompleteOp
<1>4. CASE Dispatch
  <2>1. PICK e \in queue : Pop(e)
    BY <1>4 DEF Dispatch, PopDeliver, PopTimer, Skip, PopClientOp, PopFault
  <2>2. QED
    BY <2>1, TimePop DEF Pop
<1>5. CASE Finish
  BY <1>5, <1>s, TimePop DEF Finish
<1>6. CASE Return \/ CloseVictim \/ VictimsClosed \/ ForceClose \/ Stop
           \/ Terminated \/ UNCHANGED vars
  BY <1>6, <1>s DEF Return, ReturnBoot, ReturnHandler, ReturnDone, ReturnPending,
     CloseVictim, VictimsClosed, ForceClose, Stop, Terminated, vars, coreVars
<1>7. QED
  BY <1>3, <1>4, <1>5, <1>6, TimePump DEF Next

(* No event is ever queued in the past and no two have the same number: so *)
(* popping the least <<at, seq>> is deterministic and never moves the      *)
(* virtual clock back.                                                     *)
THEOREM TimeCorrect == Spec => []TimeMovesForward
<1>1. Init => TypeOK /\ TimeMovesForward
  BY TypeInit, TimeInit
<1>2. TypeOK /\ TimeMovesForward /\ [Next]_vars => (TypeOK /\ TimeMovesForward)'
  BY TypeNext, TimeNext
<1>3. QED
  BY <1>1, <1>2, PTL DEF Spec

-----------------------------------------------------------------------------
(* FIFO links.  LinksAreFifo is not inductive: what a send draws is only   *)
(* bounded by the floor of its link, so the invariant adds that no queued  *)
(* delivery lies beyond the floor.                                         *)

BelowFloor ==
  \A e \in queue : e.kind.type = "deliver" => e.at <= lastLink[<<e.kind.from, e.kind.to>>]

InSendOrder ==
  \A e, f \in queue : OnSameLink(e, f) /\ e.seq < f.seq => e.at <= f.at

FifoInv == model.ordered => BelowFloor /\ InSendOrder

LEMMA FifoInit == Init => FifoInv
<1> SUFFICES ASSUME Init
             PROVE  BelowFloor /\ InSendOrder
  BY DEF FifoInv
<1>1. PICK s \in Setups :
        queue = {Scheduled(s.timeline[i].at, i - 1,
                           [type |-> "fault", action |-> s.timeline[i].action])
                   : i \in DOMAIN s.timeline}
  BY DEF Init
<1>2. \A e \in queue : e.kind.type = "fault"
  BY <1>1 DEF Scheduled
<1>3. QED
  BY <1>2 DEF BelowFloor, InSendOrder, OnSameLink

(* Taking deliveries off the queue, or pushing other events.               *)
LEMMA FifoKept ==
  ASSUME FifoInv, UNCHANGED <<model, lastLink>>,
         \A e \in queue' : e \in queue \/ e.kind.type # "deliver"
  PROVE  FifoInv'
BY DEF FifoInv, BelowFloor, InSendOrder, OnSameLink

LEMMA FifoSend ==
  ASSUME TypeOK, TimeMovesForward, FifoInv, NEW to \in Node, NEW msg \in Msg, Send(to, msg)
  PROVE  FifoInv'
<1> SUFFICES ASSUME model.ordered
             PROVE  BelowFloor' /\ InSendOrder'
  BY DEF FifoInv, Send
<1> DEFINE l == <<cb.node, to>>
<1>1. cb.node \in Node /\ ScheduleDelivery(cb.node, to, msg)
  BY CallbackNode DEF TypeOK, Send, Running
<1>2. PICK at, S : at \in Nat /\ Sent(cb.node, to, at, S)
  BY <1>1, SentCopies DEF TypeOK
<1>3. /\ lastLink \in [Node \X Node -> Nat] /\ l \in Node \X Node
      /\ lastLink' = [lastLink EXCEPT ![l] = at] /\ lastLink[l] <= at
  BY <1>1, <1>2 DEF Sent, TypeOK, CoreTypeOK
<1>4. \A e \in queue \cup S : /\ e.at \in Nat /\ e.seq \in Nat
                              /\ e.kind.type = "deliver" =>
                                   <<e.kind.from, e.kind.to>> \in Node \X Node
  BY <1>2, EventFields DEF Sent, TypeOK, CoreTypeOK
<1>5. BelowFloor /\ InSendOrder
  BY DEF FifoInv
<1>6. queue' = queue \cup S
  BY <1>2 DEF Sent
<1>7. \A e \in S : e.at = at /\ <<e.kind.from, e.kind.to>> = l
  BY <1>2 DEF Sent
<1>8. \A k \in Node \X Node : lastLink'[k] \in Nat /\ lastLink[k] \in Nat /\ lastLink[k] <= lastLink'[k]
  BY <1>2, <1>3
<1>9. lastLink'[l] = at
  BY <1>3
<1>10. BelowFloor'
  <2>1. ASSUME NEW e \in queue, e.kind.type = "deliver"
        PROVE  e.at <= lastLink'[<<e.kind.from, e.kind.to>>]
    <3>1. e.at <= lastLink[<<e.kind.from, e.kind.to>>]
      BY <1>5, <2>1 DEF BelowFloor
    <3>2. QED
      BY <1>4, <1>8, <2>1, <3>1
  <2>2. \A e \in S : e.at <= lastLink'[<<e.kind.from, e.kind.to>>]
    BY <1>2, <1>7, <1>9
  <2>3. QED
    BY <1>6, <2>1, <2>2 DEF BelowFloor
<1>11. InSendOrder'
  <2>1. ASSUME NEW e \in queue, NEW f \in S, OnSameLink(e, f)
        PROVE  e.at <= f.at
    <3>1. <<e.kind.from, e.kind.to>> = l /\ e.kind.type = "deliver"
      BY <1>7, <2>1 DEF OnSameLink
    <3>2. e.at <= lastLink[l]
      BY <1>5, <3>1 DEF BelowFloor
    <3>3. f.at = at /\ e.at \in Nat /\ at \in Nat /\ lastLink[l] \in Nat
      BY <1>2, <1>3, <1>4, <1>7
    <3>4. QED
      BY <1>3, <3>2, <3>3
  <2>2. ASSUME NEW e \in S, NEW f \in queue
        PROVE  ~(e.seq < f.seq)
    <3>1. f.seq < seq /\ seq <= e.seq /\ seq \in Nat
      BY <1>2, <2>2 DEF TimeMovesForward, Sent, TypeOK, CoreTypeOK
    <3>2. e.seq \in Nat /\ f.seq \in Nat
      BY <1>4, <2>2
    <3>3. QED
      BY <3>1, <3>2
  <2>3. \A e, f \in S : e.at <= f.at
    BY <1>2, <1>7
  <2>4. \A e, f \in queue : OnSameLink(e, f) /\ e.seq < f.seq => e.at <= f.at
    BY <1>5 DEF InSendOrder
  <2>5. QED
    BY <1>6, <2>1, <2>2, <2>3, <2>4 DEF InSendOrder
<1>12. QED
  BY <1>10, <1>11

LEMMA FifoNext ==
  TypeOK /\ TimeMovesForward /\ FifoInv /\ [Next]_vars => FifoInv'
<1> SUFFICES ASSUME TypeOK, TimeMovesForward, FifoInv, [Next]_vars
             PROVE  FifoInv'
  OBVIOUS
<1>s. ASSUME UNCHANGED <<model, lastLink>>, queue' \subseteq queue PROVE FifoInv'
  BY <1>s, FifoKept
<1>1. ASSUME NEW t \in Timer, NEW after \in After, SetTimer(t, after)
      PROVE  FifoInv'
  <2>1. \A e \in queue' : e \in queue \/ e.kind.type # "deliver"
    BY <1>1 DEF SetTimer, ArmTimer, Enqueue, Scheduled
  <2>2. QED
    BY <1>1, <2>1, FifoKept DEF SetTimer
<1>2. CASE Effect
  BY <1>1, <1>2, <1>s, FifoSend DEF Effect, SendLost, LoseMessage, Cancel, CompleteOp
<1>3. CASE Pump
  <2>1. \A e \in queue' : e \in queue \/ e.kind.type # "deliver"
    BY <1>3 DEF Pump, Scheduled
  <2>2. QED
    BY <1>3, <2>1, FifoKept DEF Pump
<1>4. CASE Dispatch
  BY <1>4, <1>s DEF Dispatch, PopDeliver, PopTimer, Skip, PopClientOp, PopFault, Pop
<1>5. CASE Finish
  BY <1>5, <1>s DEF Finish
<1>6. CASE Return \/ CloseVictim \/ VictimsClosed \/ ForceClose \/ Stop
           \/ Terminated \/ UNCHANGED vars
  BY <1>6, <1>s DEF Return, ReturnBoot, ReturnHandler, ReturnDone, ReturnPending,
     CloseVictim, VictimsClosed, ForceClose, Stop, Terminated, vars, coreVars
<1>7. QED
  BY <1>2, <1>3, <1>4, <1>5, <1>6 DEF Next

LEMMA FifoImplied == TypeOK /\ FifoInv => LinksAreFifo
<1> SUFFICES ASSUME TypeOK, FifoInv, model.ordered,
                    NEW e \in queue, NEW f \in queue, OnSameLink(e, f), e.seq < f.seq
             PROVE  Before(e, f)
  BY DEF LinksAreFifo
<1>1. e.at <= f.at
  BY DEF FifoInv, InSendOrder
<1>2. e.at \in Nat /\ f.at \in Nat
  BY EventFields DEF TypeOK, CoreTypeOK
<1>3. QED
  BY <1>1, <1>2 DEF Before

(* On FIFO links messages are delivered in the order they were sent, for   *)
(* every delay drawn and with duplicates, whatever happens on other links. *)
THEOREM FifoCorrect == Spec => []LinksAreFifo
<1> DEFINE Inv == TypeOK /\ TimeMovesForward /\ FifoInv
<1>1. Init => Inv
  BY TypeInit, TimeInit, FifoInit
<1>2. Inv /\ [Next]_vars => Inv'
  BY TypeNext, TimeNext, FifoNext
<1>3. Inv => LinksAreFifo
  BY FifoImplied
<1>4. QED
  BY <1>1, <1>2, <1>3, PTL DEF Spec

-----------------------------------------------------------------------------
(* Gated issue.                                                            *)

(* Recording an entry raises the closed count of its process by one if it  *)
(* is terminal, and no other count.                                        *)
LEMMA ClosedCount ==
  ASSUME CoreTypeOK, NEW p \in Node
  PROVE  IsFiniteSet(ClosedEntries(p)) /\ ClosedFor(p) \in Nat
<1>1. ClosedEntries(p) \in SUBSET (1 .. Len(history))
  BY DEF ClosedEntries, CoreTypeOK
<1>2. Len(history) \in Int /\ 1 \in Int
  BY DEF CoreTypeOK
<1>3. QED
  BY <1>1, <1>2, FS_Interval, FS_Subset, FS_CardinalityType DEF ClosedFor

LEMMA ClosedAfterAppend ==
  ASSUME CoreTypeOK, NEW p \in Node, NEW entry \in OpEntry,
         history' = Append(history, entry)
  PROVE  ClosedFor(p)' = IF entry.process = p /\ entry.kind \in Terminal
                         THEN ClosedFor(p) + 1 ELSE ClosedFor(p)
<1> DEFINE n == Len(history) + 1
<1>1. history \in Seq(OpEntry) /\ Len(history) \in Nat /\ DOMAIN history = 1 .. Len(history)
  BY DEF CoreTypeOK
<1>2. /\ DOMAIN history' = DOMAIN history \cup {n} /\ n \notin DOMAIN history
      /\ \A k \in DOMAIN history : history'[k] = history[k]
      /\ history'[n] = entry
  BY <1>1
<1> HIDE DEF n
<1>3. ClosedEntries(p)' = IF entry.process = p /\ entry.kind \in Terminal
                          THEN ClosedEntries(p) \cup {n} ELSE ClosedEntries(p)
  BY <1>2 DEF ClosedEntries
<1>4. n \notin ClosedEntries(p)
  BY <1>2 DEF ClosedEntries
<1>5. QED
  BY <1>3, <1>4, ClosedCount, FS_AddElement DEF ClosedFor

LEMMA ClosedAfterReject ==
  ASSUME CoreTypeOK, NEW p \in Node, NEW at \in Nat, NEW q \in Node, NEW i \in Nat,
         RejectOp(at, q, i)
  PROVE  ClosedFor(p)' = IF p = q THEN ClosedFor(p) + 1 ELSE ClosedFor(p)
<1> DEFINE n == Len(history) + 1
           a == Entry(at, "invoke", q, i)
           b == Entry(at, "fail", q, i)
<1>1. history \in Seq(OpEntry) /\ Len(history) \in Nat /\ DOMAIN history = 1 .. Len(history)
  BY DEF CoreTypeOK
<1>2. a.process = q /\ a.kind \notin Terminal /\ b.process = q /\ b.kind \in Terminal
  BY DEF Entry, Terminal
<1>3. a \in OpEntry /\ b \in OpEntry
  BY OpEntryType DEF Terminal
<1>4. history' = history \o <<a, b>>
  BY DEF RejectOp
<1> HIDE DEF a, b
<1>5. /\ DOMAIN history' = DOMAIN history \cup {n, n + 1}
      /\ n \notin DOMAIN history /\ n + 1 \notin DOMAIN history /\ n # n + 1
      /\ \A k \in DOMAIN history : history'[k] = history[k]
      /\ history'[n] = a /\ history'[n + 1] = b
  BY <1>1, <1>3, <1>4
<1> HIDE DEF n
<1>6. ClosedEntries(p)' = IF p = q THEN ClosedEntries(p) \cup {n + 1} ELSE ClosedEntries(p)
  BY <1>2, <1>5 DEF ClosedEntries
<1>7. n + 1 \notin ClosedEntries(p)
  BY <1>5 DEF ClosedEntries
<1>8. QED
  BY <1>6, <1>7, ClosedCount, FS_AddElement DEF ClosedFor

(* The three situations of a process: nothing in flight, its op queued,    *)
(* its op open.                                                            *)
NothingInFlight(p) ==
  /\ QueuedOps(p) = {} /\ OpenOps(p) = {}
  /\ scheduled[p] = ClosedFor(p) \/ pc \in {"drain", "done"}

OpQueued(p) ==
  /\ \E e \in QueuedOps(p) : QueuedOps(p) = {e}
  /\ OpenOps(p) = {} /\ scheduled[p] = ClosedFor(p) + 1

OpOpen(p) ==
  /\ \E o \in OpenOps(p) : OpenOps(p) = {o}
  /\ QueuedOps(p) = {} /\ scheduled[p] = ClosedFor(p) + 1

LEMMA OneInFlightCases ==
  OneInFlight <=> \A p \in Node : NothingInFlight(p) \/ OpQueued(p) \/ OpOpen(p)
BY DEF OneInFlight, NothingInFlight, OpQueued, OpOpen

LEMMA OneInFlightAfter ==
  ASSUME \A p \in Node : (NothingInFlight(p) \/ OpQueued(p) \/ OpOpen(p))'
  PROVE  OneInFlight'
BY DEF OneInFlight, NothingInFlight, OpQueued, OpOpen

LEMMA FlightInit == Init => OneInFlight
<1> SUFFICES ASSUME Init, NEW p \in Node
             PROVE  NothingInFlight(p)
  BY OneInFlightCases
<1>1. PICK s \in Setups :
        /\ queue = {Scheduled(s.timeline[i].at, i - 1,
                              [type |-> "fault", action |-> s.timeline[i].action])
                      : i \in DOMAIN s.timeline}
        /\ scheduled = [q \in Node |-> 0]
        /\ history = <<>> /\ pending = {}
  BY DEF Init, CoreInit
<1>2. QueuedOps(p) = {}
  BY <1>1 DEF QueuedOps, Scheduled
<1>3. OpenOps(p) = {}
  BY <1>1 DEF OpenOps
<1>4. ClosedEntries(p) = {}
  BY <1>1 DEF ClosedEntries
<1>5. QED
  BY <1>1, <1>2, <1>3, <1>4, FS_EmptySet DEF NothingInFlight, ClosedFor

(* Steps that touch neither the client ops nor the end of the run.         *)
LEMMA FlightKept ==
  ASSUME OneInFlight, UNCHANGED <<history, pending, scheduled>>,
         \A p \in Node : QueuedOps(p)' = QueuedOps(p),
         pc \in {"drain", "done"} => pc' \in {"drain", "done"}
  PROVE  OneInFlight'
<1>1. ASSUME NEW p \in Node
      PROVE  (NothingInFlight(p) \/ OpQueued(p) \/ OpOpen(p))'
  <2>1. /\ QueuedOps(p)' = QueuedOps(p) /\ OpenOps(p)' = OpenOps(p)
        /\ ClosedFor(p)' = ClosedFor(p) /\ scheduled'[p] = scheduled[p]
    BY DEF OpenOps, ClosedFor, ClosedEntries
  <2>2. NothingInFlight(p) \/ OpQueued(p) \/ OpOpen(p)
    BY OneInFlightCases
  <2>3. QED
    BY <2>1, <2>2 DEF NothingInFlight, OpQueued, OpOpen
<1>2. QED
  BY <1>1, OneInFlightAfter

(* Closing an op: its process has nothing in flight afterwards.            *)
LEMMA FlightClose ==
  ASSUME CoreTypeOK, OneInFlight, NEW token, NEW kind \in Terminal, CloseOp(token, kind),
         UNCHANGED <<queue, scheduled>>,
         pc \in {"drain", "done"} => pc' \in {"drain", "done"}
  PROVE  OneInFlight'
<1>q. \A p \in Node : QueuedOps(p)' = QueuedOps(p)
  BY DEF QueuedOps
<1>1. CASE UNCHANGED <<pending, history>>
  BY <1>q, <1>1, FlightKept
<1>2. ASSUME NEW o \in pending,
             pending' = pending \ {o},
             history' = Append(history, Entry(now, kind, o.process, o.op))
      PROVE  OneInFlight'
  <2>1. o.process \in Node /\ o.op \in Nat /\ now \in Nat
    BY DEF CoreTypeOK, PendingOp
  <2>2. Entry(now, kind, o.process, o.op) \in OpEntry
    BY <2>1, OpEntryType
  <2>3. /\ Entry(now, kind, o.process, o.op).process = o.process
        /\ Entry(now, kind, o.process, o.op).kind = kind
    BY DEF Entry
  <2>4. ASSUME NEW p \in Node
        PROVE  (NothingInFlight(p) \/ OpQueued(p) \/ OpOpen(p))'
    <3>1. ClosedFor(p)' = IF o.process = p THEN ClosedFor(p) + 1 ELSE ClosedFor(p)
      BY <1>2, <2>2, <2>3, ClosedAfterAppend
    <3>2. NothingInFlight(p) \/ OpQueued(p) \/ OpOpen(p)
      BY OneInFlightCases
    <3>3. CASE o.process = p
      <4>1. o \in OpenOps(p)
        BY <3>3 DEF OpenOps
      <4>2. OpOpen(p)
        BY <3>2, <4>1 DEF NothingInFlight, OpQueued
      <4>3. OpenOps(p)' = {}
        BY <1>2, <4>1, <4>2 DEF OpOpen, OpenOps
      <4>4. QED
        BY <1>q, <3>1, <3>3, <4>2, <4>3 DEF OpOpen, NothingInFlight
    <3>4. CASE o.process # p
      <4>1. OpenOps(p)' = OpenOps(p)
        BY <1>2, <3>4 DEF OpenOps
      <4>2. QED
        BY <1>q, <3>1, <3>2, <3>4, <4>1 DEF NothingInFlight, OpQueued, OpOpen
    <3>5. QED
      BY <3>3, <3>4
  <2>5. QED
    BY <2>4, OneInFlightAfter
<1>3. QED
  BY <1>1, <1>2 DEF CloseOp

LEMMA FlightEffect == TypeOK /\ OneInFlight /\ Effect => OneInFlight'
<1> SUFFICES ASSUME TypeOK, OneInFlight, Effect
             PROVE  OneInFlight'
  OBVIOUS
<1> USE DEF TypeOK
<1>a. ASSUME Running, Spend PROVE cb.node \in Node /\ pc = "callback"
  BY <1>a, CallbackNode DEF Running
<1>0. ASSUME UNCHANGED <<history, pending, scheduled>>, pc = "callback",
             \A e \in queue' : e \in queue \/ e.kind.type # "op", queue \subseteq queue'
      PROVE  OneInFlight'
  BY <1>0, FlightKept DEF QueuedOps
<1>1. ASSUME NEW to \in Node, SendLost(to) PROVE OneInFlight'
  BY <1>1, <1>0, <1>a DEF SendLost, LoseMessage, driverVars
<1>2. ASSUME NEW to \in Node, NEW msg \in Msg, Send(to, msg) PROVE OneInFlight'
  <2>1. ScheduleDelivery(cb.node, to, msg) /\ cb.node \in Node /\ pc = "callback"
    BY <1>a, <1>2 DEF Send
  <2>2. PICK at, S : at \in Nat /\ Sent(cb.node, to, at, S)
    BY <2>1, SentCopies
  <2>3. (\A e \in queue' : e \in queue \/ e.kind.type # "op") /\ queue \subseteq queue'
    BY <2>2 DEF Sent
  <2>4. QED
    BY <1>0, <1>2, <2>1, <2>3 DEF Send, driverVars
<1>3. ASSUME NEW t \in Timer, Cancel(t) PROVE OneInFlight'
  BY <1>3, <1>0, <1>a DEF Cancel, driverVars
<1>4. ASSUME NEW t \in Timer, NEW after \in After, SetTimer(t, after) PROVE OneInFlight'
  <2>1. (\A e \in queue' : e \in queue \/ e.kind.type # "op") /\ queue \subseteq queue'
    BY <1>4 DEF SetTimer, ArmTimer, Enqueue, Scheduled
  <2>2. QED
    BY <1>0, <1>4, <1>a, <2>1 DEF SetTimer, driverVars
<1>5. ASSUME NEW token, NEW kind \in Terminal, CompleteOp(token, kind) PROVE OneInFlight'
  <2>1. CloseOp(token, kind) /\ UNCHANGED <<queue, scheduled>> /\ pc = "callback"
    BY <1>5, <1>a DEF CompleteOp, driverVars
  <2>2. QED
    BY <2>1, FlightClose
<1>6. QED
  BY <1>1, <1>2, <1>3, <1>4, <1>5 DEF Effect

LEMMA FlightPump == TypeOK /\ OneInFlight /\ Pump => OneInFlight'
<1> SUFFICES ASSUME TypeOK, OneInFlight, Pump
             PROVE  OneInFlight'
  OBVIOUS
<1> DEFINE K(p) == [type |-> "op", process |-> p, index |-> FrontOf(p)]
           E(p) == Scheduled(now + 1, seq + Rank(p), K(p))
<1>1. \A p : E(p).kind.type = "op" /\ E(p).kind.process = p
  BY DEF Scheduled
<1>2. /\ queue' = queue \cup {E(p) : p \in Free} /\ pc = "pump"
      /\ scheduled' = [p \in Node |-> IF p \in Free THEN scheduled[p] + 1 ELSE scheduled[p]]
      /\ history' = history /\ pending' = pending
  BY DEF Pump
<1> HIDE DEF K, E
<1>3. ASSUME NEW p \in Node
      PROVE  (NothingInFlight(p) \/ OpQueued(p) \/ OpOpen(p))'
  <2>1. OpenOps(p)' = OpenOps(p) /\ ClosedFor(p)' = ClosedFor(p)
    BY <1>2 DEF OpenOps, ClosedFor, ClosedEntries
  <2>2. QueuedOps(p)' = QueuedOps(p) \cup (IF p \in Free THEN {E(p)} ELSE {})
    BY <1>1, <1>2 DEF QueuedOps
  <2>3. ClosedFor(p) \in Nat /\ scheduled[p] \in Nat
    BY ClosedCount DEF TypeOK, DriverTypeOK
  <2>4. NothingInFlight(p) \/ OpQueued(p) \/ OpOpen(p)
    BY OneInFlightCases
  <2>5. CASE p \in Free
    <3>1. scheduled[p] <= ClosedFor(p)
      BY <2>5 DEF Free
    <3>2. NothingInFlight(p)
      BY <2>3, <2>4, <3>1 DEF OpQueued, OpOpen
    <3>3. QueuedOps(p)' = {E(p)} /\ OpenOps(p)' = {} /\ scheduled'[p] = ClosedFor(p) + 1
      BY <1>2, <2>1, <2>2, <2>5, <3>2 DEF NothingInFlight
    <3>4. QED
      BY <2>1, <3>3 DEF OpQueued
  <2>6. CASE p \notin Free
    <3>1. QueuedOps(p)' = QueuedOps(p) /\ scheduled'[p] = scheduled[p]
      BY <1>2, <2>2, <2>6
    <3>2. QED
      BY <1>2, <2>1, <2>4, <3>1 DEF NothingInFlight, OpQueued, OpOpen
  <2>7. QED
    BY <2>5, <2>6
<1>4. QED
  BY <1>3, OneInFlightAfter

LEMMA FlightDispatch == TypeOK /\ OneInFlight /\ Dispatch => OneInFlight'
<1> SUFFICES ASSUME TypeOK, OneInFlight, NEW e \in queue,
                    \/ PopDeliver(e) \/ PopTimer(e) \/ Skip(e)
                    \/ PopClientOp(e) \/ PopFault(e)
             PROVE  OneInFlight'
  BY DEF Dispatch
<1>0. Pop(e) /\ CoreTypeOK
  BY DEF PopDeliver, PopTimer, Skip, PopClientOp, PopFault, TypeOK
<1>p. e \in Event /\ pc = "pop" /\ queue' = queue \ {e}
  BY <1>0, PopType
<1>1. CASE PopDeliver(e) \/ PopTimer(e) \/ Skip(e) \/ PopFault(e)
  <2>1. e.kind.type # "op" /\ UNCHANGED <<history, pending, scheduled>>
    BY <1>1 DEF PopDeliver, PopTimer, Skip, PopFault, driverVars
  <2>2. \A p \in Node : QueuedOps(p)' = QueuedOps(p)
    BY <1>p, <2>1 DEF QueuedOps
  <2>3. QED
    BY <1>p, <2>1, <2>2, FlightKept
<1>2. CASE PopClientOp(e)
  <2> DEFINE p == e.kind.process
             i == e.kind.index
  <2>1. e.kind.type = "op" /\ p \in Node /\ i \in Nat /\ e.at \in Nat /\ scheduled' = scheduled
    BY <1>2, <1>p, EventFields, OpIndices DEF PopClientOp, TypeOK, DriverTypeOK, driverVars
  <2>2. e \in QueuedOps(p)
    BY <2>1 DEF QueuedOps
  <2>3. OpQueued(p) /\ QueuedOps(p) = {e}
    BY <2>1, <2>2, OneInFlightCases DEF NothingInFlight, OpQueued, OpOpen
  <2>4. QueuedOps(p)' = {} /\ \A q \in Node \ {p} : QueuedOps(q)' = QueuedOps(q)
    BY <1>p, <2>3 DEF QueuedOps
  <2>5. CASE OpenOp(e.at, p, i)
    <3> DEFINE o == [token |-> nextToken, process |-> p, op |-> i]
    <3>1. pending' = pending \cup {o} /\ o.process = p
          /\ history' = Append(history, Entry(e.at, "invoke", p, i))
      BY <2>5 DEF OpenOp
    <3>2. /\ Entry(e.at, "invoke", p, i) \in OpEntry
          /\ Entry(e.at, "invoke", p, i).kind \notin Terminal
      BY <2>1, OpEntryType DEF Entry, Terminal
    <3> HIDE DEF o, p, i
    <3>3. \A q \in Node : ClosedFor(q)' = ClosedFor(q)
      BY <1>0, <3>1, <3>2, ClosedAfterAppend
    <3>4. OpenOps(p)' = OpenOps(p) \cup {o} /\ \A q \in Node \ {p} : OpenOps(q)' = OpenOps(q)
      BY <3>1 DEF OpenOps
    <3>5. OpOpen(p)'
      BY <2>1, <2>3, <2>4, <3>3, <3>4 DEF OpQueued, OpOpen
    <3>6. ASSUME NEW q \in Node \ {p}
          PROVE  (NothingInFlight(q) \/ OpQueued(q) \/ OpOpen(q))'
      BY <1>p, <2>1, <2>4, <3>3, <3>4, OneInFlightCases DEF NothingInFlight, OpQueued, OpOpen
    <3>7. QED
      BY <3>5, <3>6, OneInFlightAfter
  <2>6. CASE RejectOp(e.at, p, i)
    <3> HIDE DEF p, i
    <3>1. \A q \in Node : ClosedFor(q)' = IF q = p THEN ClosedFor(q) + 1 ELSE ClosedFor(q)
      BY <1>0, <2>1, <2>6, ClosedAfterReject
    <3>2. \A q \in Node : OpenOps(q)' = OpenOps(q)
      BY <2>6 DEF RejectOp, OpenOps
    <3>3. NothingInFlight(p)'
      BY <2>1, <2>3, <2>4, <3>1, <3>2 DEF OpQueued, NothingInFlight
    <3>4. ASSUME NEW q \in Node \ {p}
          PROVE  (NothingInFlight(q) \/ OpQueued(q) \/ OpOpen(q))'
      BY <1>p, <2>1, <2>4, <3>1, <3>2, OneInFlightCases DEF NothingInFlight, OpQueued, OpOpen
    <3>5. QED
      BY <3>3, <3>4, OneInFlightAfter
  <2>7. QED
    BY <1>2, <2>5, <2>6 DEF PopClientOp
<1>3. QED
  BY <1>1, <1>2

LEMMA FlightFinish == TypeOK /\ OneInFlight /\ Finish => OneInFlight'
<1> SUFFICES ASSUME TypeOK, OneInFlight, Finish, NEW p \in Node
             PROVE  (NothingInFlight(p) \/ OpQueued(p) \/ OpOpen(p))'
  BY OneInFlightAfter
<1>1. /\ queue' \subseteq queue /\ pc' = "drain" /\ pc = "pop"
      /\ UNCHANGED <<history, pending, scheduled>>
  BY DEF Finish, driverVars
<1>2. /\ OpenOps(p)' = OpenOps(p) /\ QueuedOps(p)' \subseteq QueuedOps(p)
      /\ ClosedFor(p)' = ClosedFor(p) /\ scheduled'[p] = scheduled[p]
  BY <1>1 DEF OpenOps, QueuedOps, ClosedFor, ClosedEntries
<1>3. NothingInFlight(p) \/ OpQueued(p) \/ OpOpen(p)
  BY OneInFlightCases
<1>4. QED
  BY <1>1, <1>2, <1>3 DEF NothingInFlight, OpQueued, OpOpen

LEMMA FlightNext == TypeOK /\ OneInFlight /\ [Next]_vars => OneInFlight'
<1> SUFFICES ASSUME TypeOK, OneInFlight, [Next]_vars
             PROVE  OneInFlight'
  OBVIOUS
<1>0. ASSUME UNCHANGED <<queue, history, pending, scheduled>>,
             pc \in {"drain", "done"} => pc' \in {"drain", "done"}
      PROVE  OneInFlight'
  BY <1>0, FlightKept DEF QueuedOps
<1>1. CASE ReturnDone
  <2>1. /\ CloseOp(cb.token, "ok") /\ "ok" \in Terminal /\ pc = "callback"
        /\ UNCHANGED <<queue, scheduled>>
    BY <1>1 DEF ReturnDone, driverVars, Terminal
  <2>2. QED
    BY <2>1, FlightClose DEF TypeOK
<1>2. CASE CloseVictim \/ ForceClose
  <2>1. PICK token : CloseOp(token, "info")
    BY <1>2 DEF CloseVictim, ForceClose
  <2>2. "info" \in Terminal /\ UNCHANGED <<queue, scheduled, pc>>
    BY <1>2 DEF CloseVictim, ForceClose, driverVars, control, Terminal
  <2>3. QED
    BY <2>1, <2>2, FlightClose DEF TypeOK
<1>3. CASE ReturnBoot \/ ReturnHandler \/ ReturnPending \/ VictimsClosed
           \/ Stop \/ Terminated \/ UNCHANGED vars
  BY <1>0, <1>3 DEF ReturnBoot, ReturnHandler, ReturnPending, VictimsClosed, Stop,
                    Terminated, vars, coreVars, driverVars, control
<1>4. QED
  BY <1>1, <1>2, <1>3, FlightEffect, FlightPump, FlightDispatch, FlightFinish DEF Next, Return

(* A process never has two ops in flight, and the count that gates it is   *)
(* exact: an op is closed exactly once, whoever closes it.                 *)
THEOREM GatingCorrect == Spec => []OneInFlight
<1> DEFINE Inv == TypeOK /\ OneInFlight
<1>1. Init => Inv
  BY TypeInit, FlightInit
<1>2. Inv /\ [Next]_vars => Inv'
  BY TypeNext, FlightNext
<1>3. Inv => OneInFlight
  OBVIOUS
<1>4. QED
  BY <1>1, <1>2, <1>3, PTL DEF Spec
=============================================================================
