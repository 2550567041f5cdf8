------------------------------ MODULE SchedCore ------------------------------
(***************************************************************************)
(* The state of the deterministic scheduler (propsim-sim/src/scheduler.rs, *)
(* struct SchedCore) and its operations: the event queue, the network, the *)
(* timers, the faults and the recording of client operations.  The driver  *)
(* that calls them is module Simulator.                                    *)
(*                                                                         *)
(* One tick of virtual time is one millisecond.  A random draw of the code *)
(* (loss, duplication, delay) is a choice over the values the draw can     *)
(* return, so one behaviour of the specification stands for every seed     *)
(* that draws the same values.                                             *)
(***************************************************************************)
EXTENDS Naturals, Sequences, FiniteSets

CONSTANTS
  NodeCount,  \* number of simulated nodes
  Msg,        \* the messages nodes exchange
  Timer       \* the timer tags of a node

ASSUME NodeCountAssumption == NodeCount \in Nat \ {0}

Node == 0 .. (NodeCount - 1)

(* A NetworkModel: the outcomes of the loss and duplication draws, whether *)
(* links are FIFO, and the delays a message can draw.                      *)
NetworkModel ==
  [loss : (SUBSET BOOLEAN) \ {{}}, duplicate : (SUBSET BOOLEAN) \ {{}},
   ordered : BOOLEAN, delays : (SUBSET Nat) \ {{}}]

(* A partition names its two groups.                                       *)
FaultAction ==
       [type : {"partition"}, groups : SUBSET SUBSET Node]
  \cup [type : {"heal"}]
  \cup [type : {"crash", "restart"}, node : Node]

Deliver  == [type : {"deliver"}, from : Node, to : Node, msg : Msg]
Firing   == [type : {"timer"}, node : Node, timer : Timer, gen : Nat]
ClientOp == [type : {"op"}, process : Node, index : Nat]
Fault    == [type : {"fault"}, action : FaultAction]

EventKind == Deliver \cup Firing \cup ClientOp \cup Fault
Event     == [at : Nat, seq : Nat, kind : EventKind]

(* history::OpEntry.  The index of an entry is its position; `op' is the   *)
(* index of the client op, which determines the recorded :f.               *)
Terminal == {"ok", "fail", "info"}
OpEntry  == [time : Nat, kind : {"invoke"} \cup Terminal,
             process : Node, op : Nat]

VARIABLES
  now,         \* the virtual clock
  model,       \* the active NetworkModel
  horizon,     \* events at or after this time are not fired
  queue,       \* the pending events, a heap ordered by <<at, seq>>
  seq,         \* the next sequence number
  timerGen,    \* current generation of each <<node, timer>>
  partitions,  \* active partition groups; {} means fully connected
  crashed,     \* the crashed nodes
  lastLink,    \* last scheduled delivery time of each <<from, to>>
  history,     \* the recorded operation history
  events,      \* the run-level events deadlines are anchored at
  pending,     \* client ops awaiting completion
  nextToken    \* the token of the next client op

coreVars == <<now, model, horizon, queue, seq, timerGen, partitions, crashed,
              lastLink, history, events, pending, nextToken>>

CoreInit(m, h) ==
  /\ now = 0
  /\ model = m
  /\ horizon = h
  /\ timerGen = [k \in Node \X Timer |-> 0]
  /\ partitions = {}
  /\ crashed = {}
  /\ lastLink = [l \in Node \X Node |-> 0]
  /\ history = <<>>
  /\ events = <<>>
  /\ pending = {}
  /\ nextToken = 0

-----------------------------------------------------------------------------
(* The event queue.                                                        *)

Scheduled(at, n, kind) == [at |-> at, seq |-> n, kind |-> kind]

Before(e, f) == e.at < f.at \/ (e.at = f.at /\ e.seq < f.seq)

(* The event the heap yields next.                                         *)
IsNext(e) == e \in queue /\ \A f \in queue \ {e} : Before(e, f)

Enqueue(at, kind) ==
  /\ queue' = queue \cup {Scheduled(at, seq, kind)}
  /\ seq' = seq + 1

-----------------------------------------------------------------------------
(* The network.                                                            *)

Connected(a, b) ==
  /\ a \notin crashed
  /\ b \notin crashed
  /\ partitions = {} \/ \E g \in partitions : a \in g /\ b \in g

(* When a message drawing this delay is delivered: no earlier than the     *)
(* last one scheduled on its link, if links are FIFO.                      *)
DeliveryTimeWithoutFloor(from, to, delay) == now + delay  \* mutant

DeliveryTimeFromZero(from, to, delay) == delay  \* mutant

DeliveryTimeAfterFloor(from, to, delay) ==  \* mutant: one tick after the last
  IF model.ordered /\ now + delay <= lastLink[<<from, to>>]
  THEN lastLink[<<from, to>>] + 1
  ELSE now + delay

DeliveryTime(from, to, delay) ==
  IF model.ordered /\ now + delay < lastLink[<<from, to>>]
  THEN lastLink[<<from, to>>]
  ELSE now + delay

(* The message is dropped, by a partition, a crash or a loss draw.         *)
LoseMessage(from, to) ==
  /\ Connected(from, to) => TRUE \in model.loss
  /\ UNCHANGED <<queue, seq, lastLink>>

(* One or two copies are scheduled, at the same time.                      *)
ScheduleDelivery(from, to, msg) ==
  LET copy == [type |-> "deliver", from |-> from, to |-> to, msg |-> msg]
  IN /\ Connected(from, to)
     /\ FALSE \in model.loss
     /\ \E delay \in model.delays :
          LET at == DeliveryTime(from, to, delay)
          IN /\ lastLink' = IF model.ordered
                            THEN [lastLink EXCEPT ![<<from, to>>] = at]
                            ELSE lastLink
             /\ \/ FALSE \in model.duplicate /\ Enqueue(at, copy)
                \/ /\ TRUE \in model.duplicate
                   /\ queue' = queue \cup {Scheduled(at, seq, copy),
                                           Scheduled(at, seq + 1, copy)}
                   /\ seq' = seq + 2

-----------------------------------------------------------------------------
(* The timers.  A set or a cancel bumps the generation, which makes every  *)
(* firing already queued for the timer stale.                              *)

ArmTimerAgain(n, t, after) ==  \* mutant: the generation is not bumped
  LET gen == timerGen[<<n, t>>]
  IN /\ UNCHANGED timerGen
     /\ Enqueue(now + after,
                [type |-> "timer", node |-> n, timer |-> t, gen |-> gen])

ArmTimer(n, t, after) ==
  LET gen == timerGen[<<n, t>>] + 1
  IN /\ timerGen' = [timerGen EXCEPT ![<<n, t>>] = gen]
     /\ Enqueue(now + after,
                [type |-> "timer", node |-> n, timer |-> t, gen |-> gen])

CancelTimerForgotten(n, t) == UNCHANGED timerGen  \* mutant

CancelTimer(n, t) ==
  timerGen' = [timerGen EXCEPT ![<<n, t>>] = timerGen[<<n, t>>] + 1]

TimerIsCurrent(k) == timerGen[<<k.node, k.timer>>] = k.gen

-----------------------------------------------------------------------------
(* Client operations: an Invoke entry opens one, a terminal entry closes   *)
(* it.                                                                     *)

Entry(at, kind, p, i) == [time |-> at, kind |-> kind, process |-> p, op |-> i]

OpenOp(at, p, i) ==
  /\ history' = Append(history, Entry(at, "invoke", p, i))
  /\ pending' = pending \cup {[token |-> nextToken, process |-> p, op |-> i]}
  /\ nextToken' = nextToken + 1

(* Closing an unknown or closed token does nothing.                        *)
CloseOpTwice(token, kind) ==  \* mutant: a closed op stays pending
  \/ \E o \in pending :
       /\ o.token = token
       /\ history' = Append(history, Entry(now, kind, o.process, o.op))
       /\ UNCHANGED pending
  \/ /\ \A o \in pending : o.token # token
     /\ UNCHANGED <<pending, history>>

CloseOp(token, kind) ==
  \/ \E o \in pending :
       /\ o.token = token
       /\ pending' = pending \ {o}
       /\ history' = Append(history, Entry(now, kind, o.process, o.op))
  \/ /\ \A o \in pending : o.token # token
     /\ UNCHANGED <<pending, history>>

(* An op whose payload does not decode is opened and failed at once.       *)
RejectOp(at, p, i) ==
  /\ history' = history \o <<Entry(at, "invoke", p, i), Entry(at, "fail", p, i)>>
  /\ nextToken' = nextToken + 1
  /\ UNCHANGED pending

ClosedEntriesButInfo(p) ==  \* mutant
  {k \in DOMAIN history : history[k].process = p /\ history[k].kind \in {"ok", "fail"}}

ClosedEntries(p) ==
  {k \in DOMAIN history : history[k].process = p /\ history[k].kind \in Terminal}

ClosedFor(p) == Cardinality(ClosedEntries(p))

(* The one of the pending ops S with the smallest token: force-close       *)
(* drains a BTreeMap keyed by the token.                                   *)
IsFirst(o, S) == o \in S /\ \A q \in S : o.token <= q.token

(* The ops force-closed when node n crashes.                               *)
Victims(n) == {o \in pending : o.process = n}

-----------------------------------------------------------------------------
(* Applying a fault at time `at'.  Crash only marks the node here; the ops *)
(* it closes are closed one by one by the driver's next steps.             *)

ApplyFault(at, f) ==
  \/ /\ f.type = "partition"
     /\ partitions' = f.groups
     /\ UNCHANGED <<crashed, events>>
  \/ /\ f.type = "heal"
     /\ partitions' = {}
     /\ events' = Append(events, [type |-> "NetworkHealed", at |-> at])
     /\ UNCHANGED crashed
  \/ /\ f.type = "crash"
     /\ crashed' = crashed \cup {f.node}
     /\ UNCHANGED <<partitions, events>>
  \/ /\ f.type = "restart"
     /\ crashed' = crashed \ {f.node}
     /\ events' = Append(events, [type |-> "NodeRejoined", at |-> at, node |-> f.node])
     /\ UNCHANGED partitions

-----------------------------------------------------------------------------
(* The type of the state, used by every module that runs the scheduler.    *)

RunEvent ==
       [type : {"NetworkHealed"}, at : Nat]
  \cup [type : {"NodeRejoined"}, at : Nat, node : Node]

PendingOp == [token : Nat, process : Node, op : Nat]

CoreTypeOK ==
  /\ now \in Nat /\ horizon \in Nat /\ seq \in Nat /\ nextToken \in Nat
  /\ model \in NetworkModel
  /\ queue \in SUBSET Event
  /\ timerGen \in [Node \X Timer -> Nat]
  /\ partitions \in SUBSET SUBSET Node
  /\ crashed \in SUBSET Node
  /\ lastLink \in [Node \X Node -> Nat]
  /\ history \in Seq(OpEntry)
  /\ events \in Seq(RunEvent)
  /\ pending \in SUBSET PendingOp
=============================================================================
