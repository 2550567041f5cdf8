------------------------------ MODULE Simulator ------------------------------
(***************************************************************************)
(* The deterministic driver (propsim-sim/src/lib.rs, run_deterministic) of *)
(* the scheduler of module SchedCore, running arbitrary nodes.             *)
(*                                                                         *)
(* The program is single-threaded: it pops an event, runs the callback of  *)
(* one node to its end, issues the next client ops and pops again.  `pc'   *)
(* says where it is.  What a node does in a callback is not known here:    *)
(* each effect of its Ctx (send, set_timer, cancel_timer, complete_op) is  *)
(* an action, and a callback is any sequence of at most MaxEffects of them *)
(* followed by its return.                                                 *)
(***************************************************************************)
EXTENDS SchedCore

CONSTANTS
  NoRoute,     \* the route of an op that names no target node
  Setups,      \* the runs considered: network, fault timeline, horizon, ops
  After,       \* the durations a node sets a timer for
  MaxEffects,  \* bound: effects of one callback
  MaxSeq       \* bound: a node schedules no event from this number on

(* A workload::FrozenOp, reduced to what the driver looks at.              *)
FrozenOp == [process : Nat, route : Nat \cup {NoRoute}, decodes : BOOLEAN]

Setup == [model : NetworkModel,
          timeline : Seq([at : Nat, action : FaultAction]),
          horizon : Nat,
          ops : Seq(FrozenOp)]

ASSUME SimulatorAssumption ==
  /\ NoRoute \notin Nat
  /\ Setups \subseteq Setup
  /\ After \subseteq Nat
  /\ MaxEffects \in Nat
  /\ MaxSeq \in Nat

VARIABLES
  ops,        \* the client op stream of the run
  todo,       \* per_process: indices of the ops not yet scheduled
  scheduled,  \* count of ops scheduled, per process
  pc,         \* where the driver is
  cb          \* the callback that is running

driverVars == <<ops, todo, scheduled>>
control == <<pc, cb>>
vars == <<coreVars, driverVars, control>>

Idle         == [kind |-> "none"]
Boot(n)      == [kind |-> "boot", node |-> n, left |-> MaxEffects]
OnStart(n)   == [kind |-> "start", node |-> n, left |-> MaxEffects]
OnMsg(n)     == [kind |-> "msg", node |-> n, left |-> MaxEffects]
OnTimer(n, t) == [kind |-> "timer", node |-> n, timer |-> t, left |-> MaxEffects]
OnClientOp(n, tok) ==
  [kind |-> "op", node |-> n, token |-> tok, left |-> MaxEffects]
Closing(n)   == [kind |-> "closing", node |-> n]

(* The node a client op is dispatched to.                                  *)
TargetUnreduced(p, i) ==  \* mutant
  IF ops[i].route = NoRoute THEN p ELSE ops[i].route

Target(p, i) ==
  IF ops[i].route = NoRoute THEN p % NodeCount ELSE ops[i].route % NodeCount

Init ==
  \E s \in Setups :
    /\ CoreInit(s.model, s.horizon)
    /\ queue = {Scheduled(s.timeline[i].at, i - 1,
                          [type |-> "fault", action |-> s.timeline[i].action])
                 : i \in DOMAIN s.timeline}
    /\ seq = Len(s.timeline)
    /\ ops = s.ops
    /\ todo = [p \in Node |->
                 {i \in DOMAIN s.ops : s.ops[i].process % NodeCount = p}]
    /\ scheduled = [p \in Node |-> 0]
    /\ pc = "callback"
    /\ cb = Boot(0)

-----------------------------------------------------------------------------
(* The effects of a running callback.                                      *)

Running == pc = "callback" /\ cb.left > 0

Spend == cb' = [cb EXCEPT !.left = @ - 1] /\ UNCHANGED pc

Send(to, msg) ==
  /\ Running /\ seq < MaxSeq
  /\ ScheduleDelivery(cb.node, to, msg)
  /\ Spend
  /\ UNCHANGED <<now, model, horizon, timerGen, partitions, crashed,
                 history, events, pending, nextToken, driverVars>>

SendLost(to) ==
  /\ Running
  /\ LoseMessage(cb.node, to)
  /\ Spend
  /\ UNCHANGED <<now, model, horizon, timerGen, partitions, crashed,
                 history, events, pending, nextToken, driverVars>>

SetTimer(t, after) ==
  /\ Running /\ seq < MaxSeq
  /\ ArmTimer(cb.node, t, after)
  /\ Spend
  /\ UNCHANGED <<now, model, horizon, partitions, crashed, lastLink,
                 history, events, pending, nextToken, driverVars>>

Cancel(t) ==
  /\ Running
  /\ CancelTimer(cb.node, t)
  /\ Spend
  /\ UNCHANGED <<now, model, horizon, queue, seq, partitions, crashed,
                 lastLink, history, events, pending, nextToken, driverVars>>

CompleteOp(token, kind) ==
  /\ Running
  /\ CloseOp(token, kind)
  /\ Spend
  /\ UNCHANGED <<now, model, horizon, queue, seq, timerGen, partitions,
                 crashed, lastLink, events, nextToken, driverVars>>

Effect ==
  \/ \E to \in Node : SendLost(to) \/ \E msg \in Msg : Send(to, msg)
  \/ \E t \in Timer : Cancel(t) \/ \E after \in After : SetTimer(t, after)
  \/ \E token \in 0 .. (nextToken - 1), kind \in Terminal : CompleteOp(token, kind)

-----------------------------------------------------------------------------
(* The return of a callback.                                               *)

(* on_start of every node in turn, then the first pump.                    *)
ReturnBoot ==
  /\ pc = "callback" /\ cb.kind = "boot"
  /\ IF cb.node + 1 < NodeCount
     THEN cb' = Boot(cb.node + 1) /\ UNCHANGED pc
     ELSE cb' = Idle /\ pc' = "pump"
  /\ UNCHANGED <<coreVars, driverVars>>

ReturnHandler ==
  /\ pc = "callback" /\ cb.kind \in {"start", "msg", "timer"}
  /\ pc' = "pump" /\ cb' = Idle
  /\ UNCHANGED <<coreVars, driverVars>>

(* OpOutcome::Done: the op is recorded Ok.                                 *)
ReturnDone ==
  /\ pc = "callback" /\ cb.kind = "op"
  /\ CloseOp(cb.token, "ok")
  /\ pc' = "pump" /\ cb' = Idle
  /\ UNCHANGED <<now, model, horizon, queue, seq, timerGen, partitions,
                 crashed, lastLink, events, nextToken, driverVars>>

(* OpOutcome::Pending: the node completes the op later.                    *)
ReturnPending ==
  /\ pc = "callback" /\ cb.kind = "op"
  /\ pc' = "pump" /\ cb' = Idle
  /\ UNCHANGED <<coreVars, driverVars>>

-----------------------------------------------------------------------------
(* Gated issue: every process with ops left and none in flight gets its    *)
(* next op scheduled one tick from now, in process order.                  *)

FreeOfPending ==  \* mutant: gates on the pending ops only
  {p \in Node : todo[p] # {} /\ \A o \in pending : o.process # p}

Free == {p \in Node : todo[p] # {} /\ scheduled[p] <= ClosedFor(p)}

FrontOf(p) == CHOOSE i \in todo[p] : \A j \in todo[p] : i <= j

Rank(p) == Cardinality({q \in Free : q < p})

Pump ==
  /\ pc = "pump"
  /\ queue' = queue \cup
       {Scheduled(now + 1, seq + Rank(p),
                  [type |-> "op", process |-> p, index |-> FrontOf(p)]) : p \in Free}
  /\ seq' = seq + Cardinality(Free)
  /\ todo' = [p \in Node |-> IF p \in Free THEN todo[p] \ {FrontOf(p)} ELSE todo[p]]
  /\ scheduled' = [p \in Node |-> IF p \in Free THEN scheduled[p] + 1 ELSE scheduled[p]]
  /\ pc' = "pop"
  /\ UNCHANGED <<now, model, horizon, timerGen, partitions, crashed, lastLink,
                 history, events, pending, nextToken, ops, cb>>

-----------------------------------------------------------------------------
(* Popping an event before the horizon.                                    *)

Pop(e) ==
  /\ pc = "pop"
  /\ IsNext(e)
  /\ e.at < horizon
  /\ queue' = queue \ {e}
  /\ now' = e.at
  /\ UNCHANGED <<model, horizon, seq, timerGen, lastLink>>

PopDeliver(e) ==
  /\ Pop(e) /\ e.kind.type = "deliver"
  /\ e.kind.to \notin crashed
  /\ pc' = "callback" /\ cb' = OnMsg(e.kind.to)
  /\ UNCHANGED <<partitions, crashed, history, events, pending, nextToken, driverVars>>

PopTimer(e) ==
  /\ Pop(e) /\ e.kind.type = "timer"
  /\ TimerIsCurrent(e.kind) /\ e.kind.node \notin crashed
  /\ pc' = "callback" /\ cb' = OnTimer(e.kind.node, e.kind.timer)
  /\ UNCHANGED <<partitions, crashed, history, events, pending, nextToken, driverVars>>

(* A delivery to a crashed node, a stale firing and the firing of a        *)
(* crashed node are skipped inside pop: nothing is dispatched.             *)
Skip(e) ==
  /\ Pop(e)
  /\ \/ e.kind.type = "deliver" /\ e.kind.to \in crashed
     \/ /\ e.kind.type = "timer"
        /\ ~TimerIsCurrent(e.kind) \/ e.kind.node \in crashed
  /\ UNCHANGED <<partitions, crashed, history, events, pending, nextToken,
                 driverVars, control>>

(* Whether the target is crashed is not looked at: its slot is never empty.*)
PopClientOp(e) ==
  /\ Pop(e) /\ e.kind.type = "op"
  /\ LET p == e.kind.process
         i == e.kind.index
     IN \/ /\ ops[i].decodes
           /\ OpenOp(e.at, p, i)
           /\ pc' = "callback" /\ cb' = OnClientOp(Target(p, i), nextToken)
        \/ /\ ~ops[i].decodes
           /\ RejectOp(e.at, p, i)
           /\ pc' = "pump" /\ UNCHANGED cb
  /\ UNCHANGED <<partitions, crashed, events, driverVars>>

PopFault(e) ==
  /\ Pop(e) /\ e.kind.type = "fault"
  /\ LET f == e.kind.action
     IN /\ ApplyFault(e.at, f)
        /\ \/ f.type = "crash"   /\ pc' = "closing"  /\ cb' = Closing(f.node)
           \/ f.type = "restart" /\ pc' = "callback" /\ cb' = OnStart(f.node)
           \/ f.type \in {"partition", "heal"} /\ pc' = "pump" /\ UNCHANGED cb
  /\ UNCHANGED <<history, pending, nextToken, driverVars>>

(* The loop of Crash over the ops it closes.                               *)
CloseVictim ==
  /\ pc = "closing"
  /\ \E o \in Victims(cb.node) :
       IsFirst(o, Victims(cb.node)) /\ CloseOp(o.token, "info")
  /\ UNCHANGED <<now, model, horizon, queue, seq, timerGen, partitions,
                 crashed, lastLink, events, nextToken, driverVars, control>>

VictimsClosed ==
  /\ pc = "closing"
  /\ Victims(cb.node) = {}
  /\ pc' = "pump" /\ cb' = Idle
  /\ UNCHANGED <<coreVars, driverVars>>

-----------------------------------------------------------------------------
(* The end of the run.                                                     *)

FinishAtHorizonOnly ==  \* mutant: a drained queue does not stop the loop
  /\ pc = "pop"
  /\ \E e \in queue :
       IsNext(e) /\ e.at >= horizon /\ queue' = queue \ {e} /\ now' = horizon
  /\ pc' = "drain"
  /\ UNCHANGED <<model, horizon, seq, timerGen, partitions, crashed, lastLink,
                 history, events, pending, nextToken, driverVars, cb>>

Finish ==
  /\ pc = "pop"
  /\ \/ queue = {} /\ UNCHANGED <<queue, now>>
     \/ \E e \in queue :
          IsNext(e) /\ e.at >= horizon /\ queue' = queue \ {e} /\ now' = horizon
  /\ pc' = "drain"
  /\ UNCHANGED <<model, horizon, seq, timerGen, partitions, crashed, lastLink,
                 history, events, pending, nextToken, driverVars, cb>>

ForceClose ==
  /\ pc = "drain"
  /\ \E o \in pending : IsFirst(o, pending) /\ CloseOp(o.token, "info")
  /\ UNCHANGED <<now, model, horizon, queue, seq, timerGen, partitions,
                 crashed, lastLink, events, nextToken, driverVars, control>>

StopWithOpenOps ==  \* mutant
  /\ pc = "drain"
  /\ pc' = "done"
  /\ UNCHANGED <<coreVars, driverVars, cb>>

Stop ==
  /\ pc = "drain" /\ pending = {}
  /\ pc' = "done"
  /\ UNCHANGED <<coreVars, driverVars, cb>>

Terminated == pc = "done" /\ UNCHANGED vars

-----------------------------------------------------------------------------
Return == ReturnBoot \/ ReturnHandler \/ ReturnDone \/ ReturnPending

Dispatch ==
  \E e \in queue : \/ PopDeliver(e) \/ PopTimer(e) \/ Skip(e)
                   \/ PopClientOp(e) \/ PopFault(e)

Next ==
  \/ Effect \/ Return \/ Pump \/ Dispatch
  \/ CloseVictim \/ VictimsClosed
  \/ Finish \/ ForceClose \/ Stop \/ Terminated

(* The one thread of the program keeps running, and a callback returns.    *)
Spec == Init /\ [][Next]_vars /\ WF_vars(Next)

-----------------------------------------------------------------------------
(* The type invariant.                                                     *)

Callback ==
       [kind : {"none"}]
  \cup [kind : {"boot", "start", "msg"}, node : Node, left : 0 .. MaxEffects]
  \cup [kind : {"timer"}, node : Node, timer : Timer, left : 0 .. MaxEffects]
  \cup [kind : {"op"}, node : Node, token : Nat, left : 0 .. MaxEffects]
  \cup [kind : {"closing"}, node : Node]

(* TypeOK: every variable has the type the code gives it, a queued client  *)
(* op names an op of the stream, and the callback running matches the      *)
(* place the driver is at.                                                 *)
DriverTypeOK ==
  /\ ops \in Seq(FrozenOp)
  /\ todo \in [Node -> SUBSET (DOMAIN ops)]
  /\ scheduled \in [Node -> Nat]
  /\ \A e \in queue : e.kind.type = "op" => e.kind.index \in DOMAIN ops

ControlTypeOK ==
  /\ cb \in Callback
  /\ \/ pc = "callback" /\ cb.kind \in {"boot", "start", "msg", "timer", "op"}
     \/ pc = "closing" /\ cb.kind = "closing"
     \/ pc \in {"pump", "pop", "drain", "done"} /\ cb.kind = "none"

TypeOK == CoreTypeOK /\ DriverTypeOK /\ ControlTypeOK

-----------------------------------------------------------------------------
(* Safety.                                                                 *)

(* Virtual time never goes back: no queued event lies before the clock and *)
(* the heap's order is total, whatever delays were drawn (pop).            *)
TimeMovesForward ==
  /\ \A e \in queue : now <= e.at /\ e.seq < seq
  /\ \A e, f \in queue : e.seq = f.seq => e = f

(* On a FIFO link no message overtakes one sent before it, duplicates      *)
(* included (schedule_delivery).                                           *)
OnSameLink(e, f) ==
  /\ e.kind.type = "deliver" /\ f.kind.type = "deliver"
  /\ e.kind.from = f.kind.from /\ e.kind.to = f.kind.to

LinksAreFifo ==
  model.ordered =>
    \A e, f \in queue : OnSameLink(e, f) /\ e.seq < f.seq => Before(e, f)

(* An open op has a token of its own, issued before, and its process has   *)
(* no other op open or queued; the processes with nothing in flight are    *)
(* those whose scheduled ops are all closed (pump_client_ops, "one op per  *)
(* process is in flight at a time").                                       *)
QueuedOps(p) == {e \in queue : e.kind.type = "op" /\ e.kind.process = p}
OpenOps(p) == {o \in pending : o.process = p}

OneInFlight ==
  \A p \in Node :
    \/ /\ QueuedOps(p) = {} /\ OpenOps(p) = {}
       /\ scheduled[p] = ClosedFor(p) \/ pc \in {"drain", "done"}
    \/ /\ \E e \in QueuedOps(p) : QueuedOps(p) = {e}
       /\ OpenOps(p) = {} /\ scheduled[p] = ClosedFor(p) + 1
    \/ /\ \E o \in OpenOps(p) : OpenOps(p) = {o}
       /\ QueuedOps(p) = {} /\ scheduled[p] = ClosedFor(p) + 1

(* The pump never forgets a process: whenever the driver is about to pop,  *)
(* a process with ops left has one in flight, also when its last op was    *)
(* closed by a crash, by another node's callback or as malformed.          *)
NobodyStarves ==
  pc = "pop" => \A p \in Node : todo[p] # {} => QueuedOps(p) # {} \/ OpenOps(p) # {}

(* When the run is over, every Invoke has its completion                   *)
(* (force_close_pending: "so every Invoke has a terminal entry").          *)
Occurrences(kinds, p) == {k \in DOMAIN history : history[k].process = p /\ history[k].kind \in kinds}

HistoryIsComplete ==
  pc = "done" =>
    \A p \in Node : Cardinality(Occurrences({"invoke"}, p)) = ClosedFor(p)

-----------------------------------------------------------------------------
(* What a comment of the code says and the code does not do.               *)

(* lib.rs:374 "The target node may be crashed (slot empty) -> indeterminate" *)
(* in dispatch_client_op: no op is handed to a crashed node.               *)
CrashedNodesGetNoOps == pc = "callback" /\ cb.kind = "op" => cb.node \notin crashed

-----------------------------------------------------------------------------
(* The abstract specifications the simulator implements.                   *)

OpenOpOf(p) ==
  IF OpenOps(p) = {} THEN 0 ELSE (CHOOSE o \in OpenOps(p) : TRUE).op

Clients ==
  INSTANCE SequentialClients WITH
    Process <- Node,
    Op <- UNION {DOMAIN s.ops : s \in Setups},
    log <- history,
    open <- [p \in Node |-> OpenOpOf(p)],
    over <- pc = "done"

(* The recorded history is one of sequential clients.                      *)
ImplementsSequentialClients == Clients!Spec

LiveFirings(k) ==
  {e \in queue : /\ e.kind.type = "timer" /\ <<e.kind.node, e.kind.timer>> = k
                 /\ TimerIsCurrent(e.kind)}

AlarmsOf(k) == {e.at : e \in LiveFirings(k)}

Stopped == pc \in {"drain", "done"}

Alarms ==
  INSTANCE TimerService WITH
    Owner <- Node,
    Tag <- Timer,
    clock <- now,
    alarm <- [k \in Node \X Timer |-> IF Stopped THEN {} ELSE AlarmsOf(k)],
    ringing <- IF cb.kind = "timer" THEN <<cb.node, cb.timer>> ELSE <<>>,
    down <- crashed,
    over <- Stopped

(* Lazy cancellation by generation numbers is exact: the timers are alarm  *)
(* clocks.                                                                 *)
ImplementsTimerService == Alarms!Spec

(* The alarms are those the nodes asked for: a set leaves the new deadline *)
(* alone and a cancel leaves none, whatever firings of it were queued      *)
(* (arm_timer; cancel_timer, "Cancel a previously-armed timer").           *)
AlarmsAreAsSet ==
  [][\A t \in Timer :
       /\ Cancel(t) => AlarmsOf(<<cb.node, t>>)' = {}
       /\ \A after \in After :
            SetTimer(t, after) => AlarmsOf(<<cb.node, t>>)' = {now + after}]_vars

Copies ==
  {[id |-> e.seq, from |-> e.kind.from, to |-> e.kind.to,
    letter |-> e.kind.msg, due |-> e.at] : e \in {f \in queue : f.kind.type = "deliver"}}

Wire ==
  INSTANCE LossyNetwork WITH
    law <- model,
    clock <- now,
    groups <- partitions,
    down <- crashed,
    wire <- IF Stopped THEN {} ELSE Copies,
    handling <- IF cb.kind = "msg" THEN {cb.node} ELSE {},
    over <- Stopped

(* The heap and its floors are a network of bounded latency: what was sent *)
(* while sender and receiver reached each other arrives in time and in     *)
(* order, also across a partition that began meanwhile, unless the         *)
(* receiver is down when it is due.                                        *)
ImplementsLossyNetwork == Wire!Spec

-----------------------------------------------------------------------------
(* Liveness.                                                               *)

(* What is left of a run, the more important first: the time up to the    *)
(* horizon, the events of this instant, the way to the next pop, and what *)
(* the callback or the closing of ops still does.                          *)
TimeLeft == IF Stopped THEN 0 ELSE horizon - now + 1

Due == {e \in queue : e.at = now}

WayToPop ==
  CASE pc = "callback" -> IF cb.kind = "boot" THEN NodeCount - cb.node + 1 ELSE 2
    [] pc = "closing"  -> 2
    [] pc \in {"pump", "drain"} -> 1
    [] pc \in {"pop", "done"}   -> 0

WorkLeft == Cardinality(pending) + IF pc = "callback" THEN cb.left ELSE 0

Left == <<TimeLeft, Cardinality(Due), WayToPop, WorkLeft>>

Lower(f, g) == \E i \in 1 .. 4 : f[i] < g[i] /\ \A j \in 1 .. (i - 1) : f[j] = g[j]

(* Every step brings the end of the run nearer, also while nodes re-arm    *)
(* their timers for ever, unless a timer or a link has no delay at all     *)
(* (the loop of run_deterministic; SchedCore::pop, the horizon).           *)
Undelayed == 0 \in After \cup model.delays

EndComesNearer == [][~Undelayed => Lower(Left', Left)]_vars

(* A run ends, even when nodes re-arm their timers for ever: the horizon   *)
(* stops it.                                                               *)
RunTerminates == <>(pc = "done")
=============================================================================
