------------------------------ MODULE Lowering -------------------------------
(***************************************************************************)
(* Lowering a fault description onto the scheduler (propsim-sim/src/       *)
(* faults.rs, lower and lower_swarm; run_horizon in lib.rs), followed by   *)
(* the faults firing in a run whose nodes are idle.  Times are the         *)
(* milliseconds of the code.                                               *)
(***************************************************************************)
EXTENDS SchedCore

CONSTANTS
  Plans,   \* the plans considered
  Sampled  \* the values a draw of the fault RNG is taken at

Mode == {"safety", "liveness"}

FaultKind ==
       [type : {"latency"}, delays : (SUBSET Nat) \ {{}}]
  \cup [type : {"drop", "duplicate"}, outcomes : (SUBSET BOOLEAN) \ {{}}]
  \cup [type : {"reorder", "partitions", "crash_restart"}]

ScriptedEvent == [at : Nat, action : FaultAction]

Faults ==
       [spec : {"none"}]
  \cup [spec : {"swarm"}, kinds : Seq(FaultKind), mode : Mode]
  \cup [spec : {"scripted"}, script : Seq(ScriptedEvent), mode : Mode]

(* The builder verbs: each regime has its own, and one that is used on the *)
(* other regime is dropped.  The mode heals swarms only.                   *)
Swarm    == [spec |-> "swarm", kinds |-> <<>>, mode |-> "safety"]
Scripted == [spec |-> "scripted", script |-> <<>>, mode |-> "safety"]

InMode(f, mode) == [f EXCEPT !.mode = mode]

PushKind(f, kind) ==
  IF f.spec = "swarm" THEN [f EXCEPT !.kinds = Append(@, kind)] ELSE f

Commit(f, step) ==
  IF f.spec = "scripted" THEN [f EXCEPT !.script = Append(@, step)] ELSE f

(* What PlanData holds for a run: `replay' are the faults of a scenario.   *)
Plan == [network : NetworkModel, faults : Faults, replay : Faults]

ASSUME LoweringAssumption ==
  /\ Plans \subseteq Plan
  /\ Sampled \subseteq Nat

VARIABLES
  plan,   \* the plan that is run
  rest,   \* the swarm kinds or scripted events still to lower
  split,  \* scheduled_partition
  pc      \* "lower", "run" or "done"

vars == <<coreVars, plan, rest, split, pc>>

(* range_u64.                                                              *)
Draw(lo, hi) == IF hi <= lo THEN {lo} ELSE (lo .. (hi - 1)) \cap Sampled

-----------------------------------------------------------------------------
(* run_horizon: the faults of the plan count, or else those of a replayed  *)
(* scenario.                                                               *)

Script(f) == IF f.spec = "scripted" THEN f.script ELSE <<>>

Timed(p) == Script(IF p.faults.spec = "none" THEN p.replay ELSE p.faults)

Times(p) == {5000} \cup {Timed(p)[i].at : i \in DOMAIN Timed(p)}

Latest(p) == CHOOSE t \in Times(p) : \A u \in Times(p) : u <= t

HorizonWithoutMargin(p) == Latest(p)  \* mutant

Horizon(p) == Latest(p) + 10000

Init ==
  \E p \in Plans :
    /\ plan = p
    /\ CoreInit(p.network, Horizon(p))
    /\ queue = {} /\ seq = 0
    /\ \/ p.faults.spec = "none"     /\ rest = <<>>
       \/ p.faults.spec = "swarm"    /\ rest = p.faults.kinds
       \/ p.faults.spec = "scripted" /\ rest = p.faults.script
    /\ split = FALSE
    /\ pc = "lower"

-----------------------------------------------------------------------------
(* The faults of a swarm.                                                  *)
FaultOf(action) == [type |-> "fault", action |-> action]

CutFault(cut)   == FaultOf([type |-> "partition",
                            groups |-> {{n \in Node : n < cut}, {n \in Node : n >= cut}}])
CrashFault(n)   == FaultOf([type |-> "crash", node |-> n])
RestartFault(n) == FaultOf([type |-> "restart", node |-> n])
HealFault       == FaultOf([type |-> "heal"])

(* What stays as it is while faults are lowered.                           *)
OtherCore == <<now, horizon, timerGen, partitions, crashed, lastLink,
               history, events, pending, nextToken>>

Lower(spec) ==
  /\ pc = "lower" /\ rest # <<>> /\ plan.faults.spec = spec
  /\ rest' = Tail(rest)
  /\ UNCHANGED <<OtherCore, plan, pc>>

LowerScripted ==
  /\ Lower("scripted")
  /\ Enqueue(Head(rest).at, FaultOf(Head(rest).action))
  /\ UNCHANGED <<model, split>>

(* A swarm tosses a coin for each of its kinds and leaves some out.        *)
Omit == Lower("swarm") /\ UNCHANGED <<model, queue, seq, split>>

(* Continuous kinds change the network model.                              *)
LowerContinuous ==
  /\ Lower("swarm")
  /\ LET kind == Head(rest)
     IN \/ kind.type = "latency"   /\ model' = [model EXCEPT !.delays = kind.delays]
        \/ kind.type = "drop"      /\ model' = [model EXCEPT !.loss = kind.outcomes]
        \/ kind.type = "duplicate" /\ model' = [model EXCEPT !.duplicate = kind.outcomes]
        \/ kind.type = "reorder"   /\ model' = [model EXCEPT !.ordered = FALSE]
  /\ UNCHANGED <<queue, seq, split>>

(* The cluster is cut at a random index.                                   *)
LowerPartitions ==
  /\ Lower("swarm") /\ Head(rest).type = "partitions"
  /\ \/ /\ NodeCount >= 2
        /\ \E cut \in Draw(1, NodeCount), at \in Draw(100, 1000) :
             Enqueue(at, CutFault(cut))
        /\ split' = TRUE
     \/ NodeCount < 2 /\ UNCHANGED <<queue, seq, split>>
  /\ UNCHANGED model

LowerCrashRestart ==
  /\ Lower("swarm") /\ Head(rest).type = "crash_restart"
  /\ \E victim \in Draw(0, NodeCount), at \in Draw(100, 1000) :
       \/ /\ plan.faults.mode = "safety"
          /\ Enqueue(at, CrashFault(victim))
       \/ /\ plan.faults.mode = "liveness"
          /\ \E delay \in Draw(500, 2000) :
               queue' = queue \cup {Scheduled(at, seq, CrashFault(victim)),
                                    Scheduled(at + delay, seq + 1, RestartFault(victim))}
          /\ seq' = seq + 2
  /\ UNCHANGED <<model, split>>

(* Liveness mode heals a partition it scheduled.                           *)
HealAtEarly == Draw(500, 2000)  \* mutant

HealAt == Draw(2000, 4000)

Healing == plan.faults.spec = "swarm" /\ plan.faults.mode = "liveness" /\ split

Lowered ==
  /\ pc = "lower" /\ rest = <<>>
  /\ \/ /\ Healing
        /\ \E at \in HealAt : Enqueue(at, HealFault)
     \/ ~Healing /\ UNCHANGED <<queue, seq>>
  /\ pc' = "run"
  /\ UNCHANGED <<OtherCore, model, plan, rest, split>>

-----------------------------------------------------------------------------
(* The run: the faults fire, at their times.                               *)

Fire ==
  /\ pc = "run"
  /\ \E e \in queue :
       /\ IsNext(e) /\ e.at < horizon
       /\ queue' = queue \ {e}
       /\ now' = e.at
       /\ ApplyFault(e.at, e.kind.action)
  /\ UNCHANGED <<model, horizon, seq, timerGen, lastLink, history, pending,
                 nextToken, plan, rest, split, pc>>

Finish ==
  /\ pc = "run"
  /\ \/ queue = {} /\ UNCHANGED <<queue, now>>
     \/ \E e \in queue :
          IsNext(e) /\ e.at >= horizon /\ queue' = queue \ {e} /\ now' = horizon
  /\ pc' = "done"
  /\ UNCHANGED <<model, horizon, seq, timerGen, partitions, crashed, lastLink,
                 history, events, pending, nextToken, plan, rest, split>>

Terminated == pc = "done" /\ UNCHANGED vars

Next ==
  \/ LowerScripted \/ Omit \/ LowerContinuous
  \/ LowerPartitions \/ LowerCrashRestart \/ Lowered \/ Fire \/ Finish \/ Terminated

Spec == Init /\ [][Next]_vars

-----------------------------------------------------------------------------
Swarming(mode) == plan.faults.spec = "swarm" /\ plan.faults.mode = mode

(* The horizon cuts off no fault: a run does not end before every fault of *)
(* its plan has fired (run_horizon, "covers the latest scripted fault").   *)
EveryFaultFires == [][pc' = "done" => queue = {}]_vars

(* A swarm in liveness mode injures and then heals: when its run ends no   *)
(* partition and no crash is left (lower_swarm, "injures, then heals").    *)
LivenessHeals ==
  Swarming("liveness") /\ pc = "done" => partitions = {} /\ crashed = {}

(* Once the network is reported healed, nothing is to come that injures    *)
(* the cluster: a deadline anchored at NetworkHealed is not disturbed.     *)
Healed == \E i \in DOMAIN events : events[i].type = "NetworkHealed"

HealedForGood ==
  Swarming("liveness") /\ Healed =>
    partitions = {} /\ \A e \in queue : e.kind.action.type = "restart"

-----------------------------------------------------------------------------
(* What a comment of the code says and the code does not do.               *)

(* propsim-core/src/scenario.rs:61 "The fault schedule to apply during     *)
(* replay": the faults of a replayed scenario are on the timeline.         *)
ReplayedFaultsAreScheduled ==
  [][Lowered => \A i \in DOMAIN Script(plan.replay) :
                  \E e \in queue : /\ e.at = plan.replay.script[i].at
                                   /\ e.kind.action = plan.replay.script[i].action]_vars
=============================================================================
