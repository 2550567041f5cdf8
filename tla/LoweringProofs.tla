--------------------------- MODULE LoweringProofs ----------------------------
(***************************************************************************)
(* Theorems about module Lowering, for every number of nodes, every set of *)
(* plans and all the values the fault RNG may draw: what is lowered is     *)
(* what the plan asked for, and a swarm in liveness mode heals, and stays  *)
(* healed.                                                                 *)
(***************************************************************************)
EXTENDS Lowering, TLAPS, FiniteSetTheorems, WellFoundedInduction

-----------------------------------------------------------------------------
(* Lemmas about the operators.                                             *)

(* A finite, non-empty set of naturals has a greatest element.             *)
LEMMA GreatestExists ==
  ASSUME NEW S \in SUBSET Nat, IsFiniteSet(S), S # {}
  PROVE  \E t \in S : \A u \in S : u <= t
<1> DEFINE Above(t) == {u \in S : u > t}
           Aboves == {Above(t) : t \in S}
<1>1. Aboves # {} /\ Aboves \subseteq FiniteSubsetsOf(S)
  <2>1. \A t \in S : IsFiniteSet(Above(t)) /\ Above(t) \subseteq S
    BY FS_Subset
  <2>2. QED
    BY <2>1 DEF FiniteSubsetsOf
<1>2. PICK x \in Aboves : \A y \in Aboves : ~(<<y, x>> \in StrictSubsetOrdering(S))
  BY <1>1, FS_StrictSubsetOrderingWellFounded, WFMin
<1>3. PICK t \in S : x = Above(t)
  BY <1>2
<1>4. ASSUME NEW u \in S, u > t
      PROVE  FALSE
  <2>1. /\ t \in Nat /\ u \in Nat /\ \A v \in S : v \in Nat
        /\ u > t
    BY <1>4
  <2>2. Above(u) \subseteq Above(t)
    <3>1. ASSUME NEW v \in S, v > u
          PROVE  v > t
      BY <2>1, <3>1
    <3>2. QED
      BY <3>1
  <2>3. u \in Above(t) /\ u \notin Above(u)
    BY <2>1
  <2>4. <<Above(u), Above(t)>> \in StrictSubsetOrdering(S)
    BY <2>2, <2>3 DEF StrictSubsetOrdering
  <2>5. QED
    BY <1>2, <1>3, <2>4
<1>5. QED
  BY <1>4

LEMMA TimedType ==
  ASSUME NEW p \in Plan
  PROVE  Timed(p) \in Seq(ScriptedEvent)
<1>1. p.faults \in Faults /\ p.replay \in Faults
  BY DEF Plan
<1>2. \A f \in Faults : Script(f) \in Seq(ScriptedEvent)
  BY DEF Faults, Script
<1>3. QED
  BY <1>1, <1>2 DEF Timed

(* The horizon lies ten seconds after five seconds and after every event   *)
(* of the script that counts.                                              *)
LEMMA HorizonBounds ==
  ASSUME NEW p \in Plan
  PROVE  /\ Horizon(p) \in Nat /\ 15000 <= Horizon(p)
         /\ \A i \in DOMAIN Timed(p) : Timed(p)[i].at + 10000 <= Horizon(p)
<1> DEFINE ats == {Timed(p)[i].at : i \in DOMAIN Timed(p)}
<1>1. Timed(p) \in Seq(ScriptedEvent)
  BY TimedType
<1>2. /\ DOMAIN Timed(p) = 1 .. Len(Timed(p)) /\ Len(Timed(p)) \in Nat
      /\ \A i \in DOMAIN Timed(p) : Timed(p)[i] \in ScriptedEvent
  BY <1>1
<1>3. \A i \in DOMAIN Timed(p) : Timed(p)[i].at \in Nat
  BY <1>2 DEF ScriptedEvent
<1>4. IsFiniteSet(ats)
  <2> DEFINE f == [i \in DOMAIN Timed(p) |-> Timed(p)[i].at]
  <2>1. IsFiniteSet(DOMAIN Timed(p))
    BY <1>2, FS_Interval
  <2>2. f \in Surjection(DOMAIN Timed(p), ats)
    BY DEF Surjection
  <2>3. QED
    BY <2>1, <2>2, FS_Surjection
<1>5. IsFiniteSet(Times(p)) /\ Times(p) \in SUBSET Nat /\ Times(p) # {}
  <2>1. Times(p) = ats \cup {5000}
    BY DEF Times
  <2>2. QED
    BY <1>3, <1>4, <2>1, FS_AddElement
<1>6. \E t \in Times(p) : \A u \in Times(p) : u <= t
  BY <1>5, GreatestExists
<1>7. Latest(p) \in Times(p) /\ \A u \in Times(p) : u <= Latest(p)
  BY <1>6, Zenon DEF Latest
<1>8. Latest(p) \in Nat
  BY <1>5, <1>7
<1>9. 5000 \in Times(p) /\ \A i \in DOMAIN Timed(p) : Timed(p)[i].at \in Times(p)
  BY DEF Times
<1>10. 5000 <= Latest(p) /\ \A i \in DOMAIN Timed(p) : Timed(p)[i].at <= Latest(p)
  BY <1>7, <1>9
<1>11. QED
  BY <1>3, <1>8, <1>10 DEF Horizon

(* A draw from a range that is not empty.                                  *)
LEMMA DrawRange ==
  ASSUME NEW lo \in Nat, NEW hi \in Nat, lo < hi, NEW x \in Draw(lo, hi)
  PROVE  x \in Nat /\ lo <= x /\ x < hi
BY DEF Draw

-----------------------------------------------------------------------------
(* The type of the state, and the times of the faults.                     *)

FaultEvent == [at : Nat, seq : Nat, kind : Fault]

LoweringTypeOK ==
  /\ plan \in Plan
  /\ pc \in {"lower", "run", "done"} /\ split \in BOOLEAN
  /\ plan.faults.spec = "none" => rest = <<>>
  /\ plan.faults.spec = "swarm" => rest \in Seq(FaultKind)
  /\ plan.faults.spec = "scripted" => rest \in Seq(ScriptedEvent)
  /\ queue \in SUBSET FaultEvent /\ seq \in Nat
  /\ crashed \in SUBSET Node
  /\ events \in Seq(RunEvent)
  /\ horizon = Horizon(plan)

(* Why every fault fires: no fault queued or still to be lowered lies      *)
(* beyond the horizon.                                                     *)
WithinHorizon ==
  /\ \A e \in queue : e.at < horizon
  /\ plan.faults.spec = "scripted" => \A i \in DOMAIN rest : rest[i].at < horizon

LEMMA FaultEventFields ==
  ASSUME NEW e \in FaultEvent
  PROVE  /\ e.at \in Nat /\ e.seq \in Nat
         /\ e.kind.type = "fault" /\ e.kind.action \in FaultAction
BY DEF FaultEvent, Fault

LEMMA ScheduledFault ==
  ASSUME NEW at \in Nat, NEW n \in Nat, NEW f \in Fault
  PROVE  LET e == Scheduled(at, n, f)
         IN e \in FaultEvent /\ e.at = at /\ e.seq = n /\ e.kind = f
BY DEF Scheduled, FaultEvent, Fault

LEMMA PlanTypes ==
  ASSUME NEW p \in Plan
  PROVE  /\ p.faults \in Faults
         /\ p.faults.spec \in {"none", "swarm", "scripted"}
         /\ p.faults.spec = "swarm" => p.faults.kinds \in Seq(FaultKind)
         /\ p.faults.spec = "scripted" =>
              p.faults.script \in Seq(ScriptedEvent) /\ Timed(p) = p.faults.script
<1>1. p.faults \in Faults
  BY DEF Plan
<1>2. /\ p.faults.spec \in {"none", "swarm", "scripted"}
      /\ p.faults.spec = "swarm" => p.faults.kinds \in Seq(FaultKind)
      /\ p.faults.spec = "scripted" => p.faults.script \in Seq(ScriptedEvent)
  BY <1>1 DEF Faults
<1>3. QED
  BY <1>1, <1>2 DEF Timed, Script

(* A step that lowers a fault, by the events S it queues.                  *)
Adds(S) == queue' = queue \cup S /\ S \subseteq FaultEvent /\ seq' \in Nat

LEMMA LoweringInit == Init => LoweringTypeOK /\ WithinHorizon
<1> SUFFICES ASSUME Init
             PROVE  LoweringTypeOK /\ WithinHorizon
  OBVIOUS
<1>1. /\ plan \in Plan /\ CoreInit(plan.network, Horizon(plan))
      /\ queue = {} /\ seq = 0 /\ split = FALSE /\ pc = "lower"
  BY LoweringAssumption DEF Init
<1>2. /\ plan.faults.spec = "none" => rest = <<>>
      /\ plan.faults.spec = "swarm" => rest = plan.faults.kinds
      /\ plan.faults.spec = "scripted" => rest = plan.faults.script
  BY DEF Init
<1>i. crashed = {} /\ events = <<>> /\ horizon = Horizon(plan)
  BY <1>1 DEF CoreInit
<1>3. LoweringTypeOK
  <2>1. <<>> \in Seq(RunEvent) /\ 0 \in Nat
    OBVIOUS
  <2>2. /\ plan.faults.spec = "swarm" => rest \in Seq(FaultKind)
        /\ plan.faults.spec = "scripted" => rest \in Seq(ScriptedEvent)
    BY <1>1, <1>2, PlanTypes
  <2>3. QED
    BY <1>1, <1>2, <1>i, <2>1, <2>2 DEF LoweringTypeOK
<1>4. ASSUME plan.faults.spec = "scripted", NEW i \in DOMAIN rest
      PROVE  rest[i].at < horizon
  <2>1. i \in DOMAIN Timed(plan) /\ rest[i] = Timed(plan)[i] /\ horizon = Horizon(plan)
    BY <1>1, <1>2, <1>i, <1>4, PlanTypes
  <2>2. rest[i] \in ScriptedEvent
    BY <1>3, <1>4 DEF LoweringTypeOK
  <2>3. rest[i].at \in Nat
    BY <2>2 DEF ScriptedEvent
  <2>4. Horizon(plan) \in Nat /\ rest[i].at + 10000 <= Horizon(plan)
    <3>1. Timed(plan)[i].at + 10000 <= Horizon(plan)
      BY <1>1, <2>1, HorizonBounds
    <3>2. QED
      BY <1>1, <2>1, <3>1, HorizonBounds
  <2>5. QED
    BY <2>1, <2>3, <2>4
<1>5. QED
  BY <1>1, <1>3, <1>4 DEF WithinHorizon

LEMMA TailOf ==
  ASSUME NEW S, NEW q \in Seq(S), q # <<>>
  PROVE  /\ Tail(q) \in Seq(S)
         /\ Head(q) \in S /\ Head(q) = q[1] /\ 1 \in DOMAIN q
         /\ \A i \in DOMAIN Tail(q) : i + 1 \in DOMAIN q /\ Tail(q)[i] = q[i + 1]
OBVIOUS

(* Lowering one fault keeps the types and the horizon, whatever it queues  *)
(* before the horizon.                                                     *)
LEMMA LowerKeeps ==
  ASSUME LoweringTypeOK, WithinHorizon, NEW spec \in {"swarm", "scripted"}, Lower(spec),
         NEW S, Adds(S), \A e \in S : e.at < horizon, split' \in BOOLEAN
  PROVE  LoweringTypeOK' /\ WithinHorizon'
<1>1. UNCHANGED <<plan, pc, crashed, events, horizon>> /\ rest' = Tail(rest)
      /\ rest # <<>> /\ plan.faults.spec = spec /\ pc = "lower"
  BY DEF Lower, OtherCore
<1>2. /\ spec = "swarm" => rest' \in Seq(FaultKind)
      /\ spec = "scripted" => rest' \in Seq(ScriptedEvent)
  BY <1>1, TailOf DEF LoweringTypeOK
<1>3. LoweringTypeOK'
  BY <1>1, <1>2 DEF LoweringTypeOK, Adds
<1>4. ASSUME spec = "scripted", NEW i \in DOMAIN rest'
      PROVE  rest'[i].at < horizon
  <2>1. i + 1 \in DOMAIN rest /\ rest'[i] = rest[i + 1]
    BY <1>1, <1>4, TailOf DEF LoweringTypeOK
  <2>2. QED
    BY <1>1, <1>4, <2>1 DEF WithinHorizon
<1>5. QED
  BY <1>1, <1>3, <1>4 DEF WithinHorizon, Adds

LEMMA KeepsSwarm ==
  ASSUME LoweringTypeOK, WithinHorizon, Lower("swarm"),
         NEW S, Adds(S), \A e \in S : e.at < horizon, split' \in BOOLEAN
  PROVE  LoweringTypeOK' /\ WithinHorizon'
<1> DEFINE spec == "swarm"
<1>1. spec \in {"swarm", "scripted"} /\ Lower(spec)
  OBVIOUS
<1> HIDE DEF spec
<1>2. QED
  BY <1>1, LowerKeeps

LEMMA KeepsScripted ==
  ASSUME LoweringTypeOK, WithinHorizon, Lower("scripted"),
         NEW S, Adds(S), \A e \in S : e.at < horizon, split' \in BOOLEAN
  PROVE  LoweringTypeOK' /\ WithinHorizon'
<1> DEFINE spec == "scripted"
<1>1. spec \in {"swarm", "scripted"} /\ Lower(spec)
  OBVIOUS
<1> HIDE DEF spec
<1>2. QED
  BY <1>1, LowerKeeps

(* The faults a swarm queues, and when.                                    *)
LEMMA SwarmHorizon ==
  LoweringTypeOK => horizon \in Nat /\ 15000 <= horizon
BY HorizonBounds DEF LoweringTypeOK

LEMMA SwarmFaults ==
  /\ \A cut : CutFault(cut) \in Fault /\ CutFault(cut).action.type = "partition"
  /\ \A n \in Node : /\ CrashFault(n) \in Fault /\ RestartFault(n) \in Fault
                     /\ CrashFault(n).action.type = "crash" /\ CrashFault(n).action.node = n
                     /\ RestartFault(n).action.type = "restart" /\ RestartFault(n).action.node = n
  /\ HealFault \in Fault /\ HealFault.action.type = "heal"
BY DEF CutFault, CrashFault, RestartFault, HealFault, FaultOf, Fault, FaultAction

LEMMA PartitionsQueue ==
  ASSUME LoweringTypeOK, LowerPartitions
  PROVE  \/ UNCHANGED <<queue, seq, split>>
         \/ /\ split' = TRUE /\ seq' = seq + 1
            /\ \E cut \in Nat, at \in Nat : at < 1000 /\ queue' = queue \cup {Scheduled(at, seq, CutFault(cut))}
<1> SUFFICES ASSUME NodeCount >= 2
             PROVE  /\ split' = TRUE /\ seq' = seq + 1
                    /\ \E cut \in Nat, at \in Nat :
                         at < 1000 /\ queue' = queue \cup {Scheduled(at, seq, CutFault(cut))}
  <2>1. NodeCount >= 2 \/ UNCHANGED <<queue, seq, split>>
    BY DEF LowerPartitions
  <2>2. QED
    BY <2>1
<1>1. /\ split' = TRUE
      /\ \E cut \in Draw(1, NodeCount), at \in Draw(100, 1000) : Enqueue(at, CutFault(cut))
  BY NodeCountAssumption DEF LowerPartitions
<1>2. PICK cut \in Draw(1, NodeCount), at \in Draw(100, 1000) : Enqueue(at, CutFault(cut))
  BY <1>1
<1>3. at \in Nat /\ at < 1000 /\ cut \in Nat
  BY <1>2, DrawRange, NodeCountAssumption
<1>4. QED
  BY <1>1, <1>2, <1>3 DEF Enqueue

(* A crash, and in liveness mode the later restart of the same node.       *)
LEMMA CrashQueue ==
  ASSUME LoweringTypeOK, LowerCrashRestart
  PROVE  \E victim \in Node, at \in Nat :
           LET crash == Scheduled(at, seq, CrashFault(victim))
           IN /\ at < 1000 /\ UNCHANGED split
              /\ \/ /\ plan.faults.mode = "safety"
                    /\ queue' = queue \cup {crash} /\ seq' = seq + 1
                 \/ /\ plan.faults.mode = "liveness"
                    /\ \E later \in Nat :
                         /\ at < later /\ later < 3000
                         /\ queue' = queue \cup {crash, Scheduled(later, seq + 1, RestartFault(victim))}
                    /\ seq' = seq + 2
<1>1. PICK victim \in Draw(0, NodeCount), at \in Draw(100, 1000) :
        \/ /\ plan.faults.mode = "safety"
           /\ Enqueue(at, CrashFault(victim))
        \/ /\ plan.faults.mode = "liveness"
           /\ \E delay \in Draw(500, 2000) :
                queue' = queue \cup {Scheduled(at, seq, CrashFault(victim)),
                                     Scheduled(at + delay, seq + 1, RestartFault(victim))}
           /\ seq' = seq + 2
  BY DEF LowerCrashRestart
<1>2. victim \in Node /\ at \in Nat /\ at < 1000
  <2>1. victim \in Nat /\ victim < NodeCount
    BY <1>1, NodeCountAssumption, DrawRange
  <2>2. at \in Nat /\ at < 1000
    BY <1>1, DrawRange
  <2>3. QED
    BY <2>1, <2>2, NodeCountAssumption DEF Node
<1>3. CASE plan.faults.mode = "safety" /\ Enqueue(at, CrashFault(victim))
  BY <1>2, <1>3 DEF Enqueue, LowerCrashRestart
<1>4. ASSUME plan.faults.mode = "liveness", seq' = seq + 2, NEW delay \in Draw(500, 2000),
             queue' = queue \cup {Scheduled(at, seq, CrashFault(victim)),
                                  Scheduled(at + delay, seq + 1, RestartFault(victim))}
      PROVE  \E later \in Nat :
               /\ at < later /\ later < 3000
               /\ queue' = queue \cup {Scheduled(at, seq, CrashFault(victim)),
                                       Scheduled(later, seq + 1, RestartFault(victim))}
  <2>1. delay \in Nat /\ 500 <= delay /\ delay < 2000
    BY <1>4, DrawRange
  <2>2. at + delay \in Nat /\ at < at + delay /\ at + delay < 3000
    BY <1>2, <2>1
  <2>3. QED
    BY <1>4, <2>2
<1>5. QED
  BY <1>1, <1>2, <1>3, <1>4 DEF LowerCrashRestart

(* What firing a fault takes off the queue.                                *)
LEMMA FireFields ==
  ASSUME LoweringTypeOK, Fire
  PROVE  \E e \in queue :
           /\ IsNext(e) /\ e.at < horizon /\ e \in FaultEvent
           /\ queue' = queue \ {e} /\ ApplyFault(e.at, e.kind.action)
           /\ UNCHANGED <<plan, rest, split, pc, horizon, seq>> /\ pc = "run"
BY DEF Fire, LoweringTypeOK

LEMMA AppliedTypes ==
  ASSUME LoweringTypeOK, NEW at \in Nat, NEW f \in FaultAction, ApplyFault(at, f)
  PROVE  crashed' \in SUBSET Node /\ events' \in Seq(RunEvent)
<1>1. CASE f.type \in {"partition", "crash"}
  <2>1. f.type = "crash" => f.node \in Node
    BY DEF FaultAction
  <2>2. QED
    BY <1>1, <2>1 DEF ApplyFault, LoweringTypeOK
<1>2. CASE f.type = "heal"
  <2>1. [type |-> "NetworkHealed", at |-> at] \in RunEvent
    BY DEF RunEvent
  <2>2. QED
    BY <1>2, <2>1 DEF ApplyFault, LoweringTypeOK
<1>3. CASE f.type = "restart"
  <2>1. f.node \in Node
    BY <1>3 DEF FaultAction
  <2>2. [type |-> "NodeRejoined", at |-> at, node |-> f.node] \in RunEvent
    BY <2>1 DEF RunEvent
  <2>3. QED
    BY <1>3, <2>2 DEF ApplyFault, LoweringTypeOK
<1>4. QED
  BY <1>1, <1>2, <1>3 DEF FaultAction

LEMMA FinishWhenEmpty ==
  ASSUME LoweringTypeOK, WithinHorizon, Finish
  PROVE  queue = {}
<1>1. horizon \in Nat
  BY SwarmHorizon DEF LoweringTypeOK
<1>2. ASSUME NEW e \in queue, e.at >= horizon
      PROVE  FALSE
  BY <1>1, <1>2, FaultEventFields DEF WithinHorizon, LoweringTypeOK
<1>3. QED
  BY <1>2 DEF Finish

LEMMA LoweringNext ==
  LoweringTypeOK /\ WithinHorizon /\ [Next]_vars => LoweringTypeOK' /\ WithinHorizon'
<1> SUFFICES ASSUME LoweringTypeOK, WithinHorizon, [Next]_vars
             PROVE  LoweringTypeOK' /\ WithinHorizon'
  OBVIOUS
<1>h. horizon \in Nat /\ 15000 <= horizon /\ seq \in Nat /\ seq + 1 \in Nat /\ seq + 2 \in Nat
      /\ split \in BOOLEAN
  BY SwarmHorizon DEF LoweringTypeOK
<1>n. ASSUME UNCHANGED <<queue, seq, split>>, Lower("swarm")
      PROVE  LoweringTypeOK' /\ WithinHorizon'
  <2>1. Adds({}) /\ split' \in BOOLEAN
    BY <1>n, <1>h DEF Adds
  <2>2. QED
    BY <1>n, <2>1, KeepsSwarm
<1>1. CASE LowerScripted
  <2> DEFINE e == Scheduled(Head(rest).at, seq, FaultOf(Head(rest).action))
  <2>1. Lower("scripted") /\ rest # <<>> /\ plan.faults.spec = "scripted"
        /\ queue' = queue \cup {e} /\ seq' = seq + 1 /\ split' = split
    BY <1>1 DEF LowerScripted, Lower, Enqueue
  <2>2. Head(rest) \in ScriptedEvent /\ Head(rest) = rest[1] /\ 1 \in DOMAIN rest
    BY <2>1, TailOf DEF LoweringTypeOK
  <2>3. Head(rest).at \in Nat /\ FaultOf(Head(rest).action) \in Fault
    BY <2>2 DEF ScriptedEvent, FaultOf, Fault
  <2>4. e \in FaultEvent /\ e.at = Head(rest).at
    BY <1>h, <2>3, ScheduledFault
  <2>5. e.at < horizon
    BY <2>1, <2>2, <2>4 DEF WithinHorizon
  <2> HIDE DEF e
  <2>6. Adds({e}) /\ split' \in BOOLEAN
    BY <1>h, <2>1, <2>4 DEF Adds
  <2>7. QED
    BY <2>1, <2>5, <2>6, KeepsScripted
<1>2. CASE Omit
  <2>1. UNCHANGED <<queue, seq, split>> /\ Lower("swarm")
    BY <1>2, Zenon DEF Omit
  <2>2. QED
    BY <2>1, <1>n
<1>3. CASE LowerContinuous
  <2>1. UNCHANGED <<queue, seq, split>> /\ Lower("swarm")
    BY <1>3, Zenon DEF LowerContinuous
  <2>2. QED
    BY <2>1, <1>n
<1>4. CASE LowerPartitions
  <2>1. Lower("swarm")
    BY <1>4 DEF LowerPartitions
  <2>2. CASE UNCHANGED <<queue, seq, split>>
    BY <1>n, <2>1, <2>2
  <2>3. ASSUME split' = TRUE, seq' = seq + 1, NEW cut \in Nat, NEW at \in Nat, at < 1000,
               queue' = queue \cup {Scheduled(at, seq, CutFault(cut))}
        PROVE  LoweringTypeOK' /\ WithinHorizon'
    <3> DEFINE e == Scheduled(at, seq, CutFault(cut))
    <3>1. e \in FaultEvent /\ e.at = at
      BY <1>h, SwarmFaults, ScheduledFault
    <3>2. queue' = queue \cup {e}
      BY <2>3
    <3> HIDE DEF e
    <3>3. Adds({e}) /\ split' \in BOOLEAN /\ \A x \in {e} : x.at < horizon
      BY <1>h, <2>3, <3>1, <3>2 DEF Adds
    <3>4. QED
      BY <2>1, <3>3, KeepsSwarm
  <2>4. QED
    BY <1>4, <2>2, <2>3, PartitionsQueue
<1>5. CASE LowerCrashRestart
  <2>1. Lower("swarm")
    BY <1>5 DEF LowerCrashRestart
  <2>2. PICK victim \in Node, at \in Nat :
          /\ at < 1000 /\ UNCHANGED split
          /\ \/ /\ queue' = queue \cup {Scheduled(at, seq, CrashFault(victim))}
                /\ seq' = seq + 1
             \/ /\ \E later \in Nat :
                     /\ at < later /\ later < 3000
                     /\ queue' = queue \cup {Scheduled(at, seq, CrashFault(victim)),
                                             Scheduled(later, seq + 1, RestartFault(victim))}
                /\ seq' = seq + 2
    BY <1>5, CrashQueue
  <2> DEFINE crash == Scheduled(at, seq, CrashFault(victim))
  <2>3. crash \in FaultEvent /\ crash.at = at
    BY <1>h, SwarmFaults, ScheduledFault
  <2>4. ASSUME NEW later \in Nat
        PROVE  Scheduled(later, seq + 1, RestartFault(victim)) \in FaultEvent
               /\ Scheduled(later, seq + 1, RestartFault(victim)).at = later
    BY <1>h, SwarmFaults, ScheduledFault
  <2>5. CASE queue' = queue \cup {crash} /\ seq' = seq + 1
    <3> HIDE DEF crash
    <3>1. Adds({crash}) /\ split' \in BOOLEAN /\ \A x \in {crash} : x.at < horizon
      BY <1>h, <2>2, <2>3, <2>5 DEF Adds
    <3>2. QED
      BY <2>1, <3>1, KeepsSwarm
  <2>6. ASSUME NEW later \in Nat, later < 3000, seq' = seq + 2,
               queue' = queue \cup {crash, Scheduled(later, seq + 1, RestartFault(victim))}
        PROVE  LoweringTypeOK' /\ WithinHorizon'
    <3> DEFINE restart == Scheduled(later, seq + 1, RestartFault(victim))
    <3>1. restart \in FaultEvent /\ restart.at = later
      BY <2>4
    <3>2. queue' = queue \cup {crash, restart}
      BY <2>6
    <3> HIDE DEF crash, restart
    <3>3. Adds({crash, restart}) /\ split' \in BOOLEAN /\ \A x \in {crash, restart} : x.at < horizon
      BY <1>h, <2>2, <2>3, <2>6, <3>1, <3>2 DEF Adds
    <3>4. QED
      BY <2>1, <3>3, KeepsSwarm
  <2>7. QED
    BY <2>2, <2>5, <2>6
<1>6. CASE Lowered
  <2>1. UNCHANGED <<plan, rest, split, crashed, events, horizon>> /\ pc' = "run"
    BY <1>6 DEF Lowered, OtherCore
  <2>2. ASSUME NEW at \in HealAt, Enqueue(at, HealFault)
        PROVE  LoweringTypeOK' /\ WithinHorizon'
    <3>1. at \in Nat /\ at < 4000
      BY <2>2, DrawRange DEF HealAt
    <3>2. Scheduled(at, seq, HealFault) \in FaultEvent
          /\ Scheduled(at, seq, HealFault).at = at
      BY <1>h, <3>1, SwarmFaults, ScheduledFault
    <3>3. queue' = queue \cup {Scheduled(at, seq, HealFault)} /\ seq' = seq + 1
      BY <2>2 DEF Enqueue
    <3>4. QED
      BY <1>h, <2>1, <3>1, <3>2, <3>3 DEF LoweringTypeOK, WithinHorizon
  <2>3. CASE UNCHANGED <<queue, seq>>
    BY <1>h, <2>1, <2>3 DEF LoweringTypeOK, WithinHorizon
  <2>4. QED
    BY <1>6, <2>2, <2>3 DEF Lowered
<1>7. CASE Fire
  <2>1. PICK e \in queue :
           /\ IsNext(e) /\ e.at < horizon /\ e \in FaultEvent
           /\ queue' = queue \ {e} /\ ApplyFault(e.at, e.kind.action)
           /\ UNCHANGED <<plan, rest, split, pc, horizon, seq>> /\ pc = "run"
    BY <1>7, FireFields
  <2>2. crashed' \in SUBSET Node /\ events' \in Seq(RunEvent)
    BY <2>1, FaultEventFields, AppliedTypes
  <2>3. QED
    BY <2>1, <2>2 DEF LoweringTypeOK, WithinHorizon
<1>8. CASE Finish
  <2>1. queue = {}
    BY <1>8, FinishWhenEmpty
  <2>2. QED
    BY <1>8, <2>1 DEF Finish, LoweringTypeOK, WithinHorizon
<1>9. CASE Terminated \/ UNCHANGED vars
  BY <1>9 DEF Terminated, vars, coreVars, LoweringTypeOK, WithinHorizon
<1>10. QED
  BY <1>1, <1>2, <1>3, <1>4, <1>5, <1>6, <1>7, <1>8, <1>9 DEF Next

(* The horizon of a run lies after every fault of its plan, scripted or    *)
(* drawn: when a run ends all of them have fired.                          *)
THEOREM HorizonCoversFaults == Spec => EveryFaultFires
<1>1. Init => LoweringTypeOK /\ WithinHorizon
  BY LoweringInit
<1>2. LoweringTypeOK /\ WithinHorizon /\ [Next]_vars => (LoweringTypeOK /\ WithinHorizon)'
  BY LoweringNext
<1>3. LoweringTypeOK /\ WithinHorizon /\ [Next]_vars => [pc' = "done" => queue = {}]_vars
  <2> SUFFICES ASSUME LoweringTypeOK, WithinHorizon, Next
               PROVE  (pc' = "done" => queue = {}) \/ UNCHANGED vars
    OBVIOUS
  <2>1. CASE Finish
    BY <2>1, FinishWhenEmpty
  <2>2. CASE Terminated
    BY <2>2 DEF Terminated
  <2>3. CASE LowerScripted \/ Omit \/ LowerContinuous \/ LowerPartitions \/ LowerCrashRestart
    BY <2>3 DEF LowerScripted, Omit, LowerContinuous, LowerPartitions, LowerCrashRestart, Lower
  <2>4. CASE Lowered \/ Fire
    BY <2>4 DEF Lowered, Fire
  <2>5. QED
    BY <2>1, <2>2, <2>3, <2>4 DEF Next
<1>4. QED
  BY <1>1, <1>2, <1>3, PTL DEF Spec, EveryFaultFires

-----------------------------------------------------------------------------
(* A swarm in liveness mode heals, and stays healed.                       *)

Act(e) == e.kind.action

Partitions(q) == {e \in q : Act(e).type = "partition"}
Crashes(q)    == {e \in q : Act(e).type = "crash"}
Restarts(q)   == {e \in q : Act(e).type = "restart"}
Heals(q)      == {e \in q : Act(e).type = "heal"}

(* All injuries lie before all heals.                                      *)
InjuriesFirst ==
  /\ \A e \in Partitions(queue) \cup Crashes(queue) : e.at < 1000
  /\ \A e \in Heals(queue) : 2000 <= e.at

(* Every crash that is to come is followed by a restart of its node, and   *)
(* a node that is down has its restart to come.                            *)
CrashesEnd ==
  /\ \A c \in Crashes(queue) :
       \E r \in Restarts(queue) : Act(r).node = Act(c).node /\ c.at < r.at
  /\ \A n \in crashed : \E r \in Restarts(queue) : Act(r).node = n

(* A partition, present or to come, has its heal to come, or it is known   *)
(* to the end of the lowering, which schedules one.                        *)
PartitionsEnd ==
  Partitions(queue) # {} \/ partitions # {} =>
    IF pc = "lower" THEN split ELSE Heals(queue) # {}

(* There is one heal, scheduled last, and nothing was healed before it.    *)
OneHeal ==
  /\ pc = "lower" => Heals(queue) = {} /\ ~Healed
  /\ \A e, f \in Heals(queue) : e = f
  /\ Healed => partitions = {} /\ queue = Restarts(queue)

HealInv ==
  /\ LoweringTypeOK /\ WithinHorizon
  /\ pc = "done" => queue = {}
  /\ Swarming("liveness") => InjuriesFirst /\ CrashesEnd /\ PartitionsEnd /\ OneHeal

-----------------------------------------------------------------------------
LEMMA HealInit == Init => HealInv
<1> SUFFICES ASSUME Init
             PROVE  HealInv
  OBVIOUS
<1>1. /\ queue = {} /\ partitions = {} /\ crashed = {} /\ events = <<>> /\ pc = "lower"
  BY DEF Init, CoreInit
<1>2. ~Healed
  BY <1>1 DEF Healed
<1>3. InjuriesFirst /\ CrashesEnd /\ PartitionsEnd /\ OneHeal
  BY <1>1, <1>2
     DEF InjuriesFirst, CrashesEnd, PartitionsEnd, OneHeal, Partitions, Crashes, Restarts, Heals
<1>4. QED
  BY <1>1, <1>3, LoweringInit DEF HealInv

(* What lowering leaves alone.                                             *)
LEMMA LowerFrame ==
  ASSUME Lower("swarm")
  PROVE  /\ pc = "lower" /\ pc' = "lower"
         /\ UNCHANGED <<plan, partitions, crashed, events>>
         /\ Healed' <=> Healed
BY DEF Lower, OtherCore, Healed

LEMMA QueueSame ==
  ASSUME UNCHANGED <<queue, split, pc, plan, partitions, crashed, events>>, HealInv,
         LoweringTypeOK', WithinHorizon'
  PROVE  HealInv'
BY DEF HealInv, Swarming, InjuriesFirst, CrashesEnd, PartitionsEnd, OneHeal, Healed,
       Partitions, Crashes, Restarts, Heals

(* Lowering the partitions: the cut is remembered in `split'.              *)
LEMMA HealPartitions == HealInv /\ LowerPartitions => HealInv'
<1> SUFFICES ASSUME HealInv, LowerPartitions
             PROVE  HealInv'
  OBVIOUS
<1>1. LoweringTypeOK' /\ WithinHorizon'
  BY LoweringNext DEF HealInv, Next
<1>2. Lower("swarm")
  BY DEF LowerPartitions
<1>3. CASE UNCHANGED <<queue, seq, split>>
  BY <1>1, <1>2, <1>3, LowerFrame, QueueSame
<1>4. ASSUME split' = TRUE, NEW cut \in Nat, NEW at \in Nat, at < 1000,
             queue' = queue \cup {Scheduled(at, seq, CutFault(cut))}
      PROVE  HealInv'
  <2> DEFINE e == Scheduled(at, seq, CutFault(cut))
  <2>1. e.at = at /\ Act(e).type = "partition"
    BY DEF Scheduled, Act, CutFault, FaultOf
  <2>2. queue' = queue \cup {e}
    BY <1>4
  <2> HIDE DEF e
  <2>3. /\ Partitions(queue') = Partitions(queue) \cup {e} /\ Crashes(queue') = Crashes(queue)
        /\ Restarts(queue') = Restarts(queue) /\ Heals(queue') = Heals(queue)
    BY <2>1, <2>2 DEF Partitions, Crashes, Restarts, Heals
  <2> SUFFICES ASSUME Swarming("liveness")
               PROVE  InjuriesFirst' /\ CrashesEnd' /\ PartitionsEnd' /\ OneHeal'
    BY <1>1, <1>2, LowerFrame DEF HealInv, Swarming
  <2>4. InjuriesFirst'
    <3>1. InjuriesFirst /\ e.at < 1000
      BY <1>4, <2>1 DEF HealInv
    <3>2. QED
      BY <2>3, <3>1 DEF InjuriesFirst
  <2>5. CrashesEnd' /\ PartitionsEnd' /\ OneHeal'
    BY <1>2, <1>4, <2>3, LowerFrame DEF HealInv, CrashesEnd, PartitionsEnd, OneHeal
  <2>6. QED
    BY <2>4, <2>5
<1>5. QED
  BY <1>3, <1>4, PartitionsQueue DEF HealInv

(* Lowering a crash: in liveness mode its restart comes with it.           *)
LEMMA HealCrash == HealInv /\ LowerCrashRestart => HealInv'
<1> SUFFICES ASSUME HealInv, LowerCrashRestart
             PROVE  HealInv'
  OBVIOUS
<1>1. LoweringTypeOK' /\ WithinHorizon'
  BY LoweringNext DEF HealInv, Next
<1>2. Lower("swarm")
  BY DEF LowerCrashRestart
<1> SUFFICES ASSUME Swarming("liveness")
             PROVE  InjuriesFirst' /\ CrashesEnd' /\ PartitionsEnd' /\ OneHeal'
  BY <1>1, <1>2, LowerFrame DEF HealInv, Swarming
<1>3. PICK victim \in Node, at \in Nat, later \in Nat :
        /\ at < 1000 /\ at < later /\ UNCHANGED split
        /\ queue' = queue \cup {Scheduled(at, seq, CrashFault(victim)),
                                Scheduled(later, seq + 1, RestartFault(victim))}
  <2>1. plan.faults.mode = "liveness" /\ plan.faults.mode # "safety"
    BY DEF Swarming
  <2>2. QED
    BY <2>1, CrashQueue DEF HealInv
<1> DEFINE c == Scheduled(at, seq, CrashFault(victim))
           r == Scheduled(later, seq + 1, RestartFault(victim))
<1>4. /\ c.at = at /\ Act(c).type = "crash" /\ Act(c).node = victim
      /\ r.at = later /\ Act(r).type = "restart" /\ Act(r).node = victim
  BY DEF Scheduled, Act, CrashFault, RestartFault, FaultOf
<1>5. queue' = queue \cup {c, r}
  BY <1>3
<1> HIDE DEF c, r
<1>6. /\ Partitions(queue') = Partitions(queue) /\ Crashes(queue') = Crashes(queue) \cup {c}
      /\ Restarts(queue') = Restarts(queue) \cup {r} /\ Heals(queue') = Heals(queue)
  BY <1>4, <1>5 DEF Partitions, Crashes, Restarts, Heals
<1>7. InjuriesFirst'
  <2>1. InjuriesFirst /\ c.at < 1000
    BY <1>3, <1>4 DEF HealInv
  <2>2. QED
    BY <1>6, <2>1 DEF InjuriesFirst
<1>8. CrashesEnd'
  <2>1. CrashesEnd /\ UNCHANGED crashed
    BY <1>2, LowerFrame DEF HealInv
  <2>2. r \in Restarts(queue') /\ Act(r).node = Act(c).node /\ c.at < r.at
    BY <1>3, <1>4, <1>6
  <2>3. QED
    BY <1>6, <2>1, <2>2 DEF CrashesEnd
<1>9. PartitionsEnd' /\ OneHeal'
  BY <1>2, <1>3, <1>6, LowerFrame DEF HealInv, PartitionsEnd, OneHeal
<1>10. QED
  BY <1>7, <1>8, <1>9

(* The end of the lowering schedules the heal, if something was cut.       *)
LEMMA HealLowered == HealInv /\ Lowered => HealInv'
<1> SUFFICES ASSUME HealInv, Lowered
             PROVE  HealInv'
  OBVIOUS
<1>1. LoweringTypeOK' /\ WithinHorizon'
  BY LoweringNext DEF HealInv, Next
<1>2. /\ UNCHANGED <<plan, split, partitions, crashed, events>> /\ pc = "lower" /\ pc' = "run"
      /\ Healed' <=> Healed
  BY DEF Lowered, OtherCore, Healed
<1> SUFFICES ASSUME Swarming("liveness")
             PROVE  InjuriesFirst' /\ CrashesEnd' /\ PartitionsEnd' /\ OneHeal'
  BY <1>1, <1>2 DEF HealInv, Swarming
<1>3. Healing <=> split
  BY DEF Healing, Swarming
<1>4. CASE ~Healing /\ UNCHANGED <<queue, seq>>
  BY <1>2, <1>3, <1>4
     DEF HealInv, InjuriesFirst, CrashesEnd, PartitionsEnd, OneHeal, Partitions, Crashes, Restarts, Heals
<1>5. ASSUME NEW at \in HealAt, Enqueue(at, HealFault)
      PROVE  InjuriesFirst' /\ CrashesEnd' /\ PartitionsEnd' /\ OneHeal'
  <2> DEFINE h == Scheduled(at, seq, HealFault)
  <2>1. at \in Nat /\ 2000 <= at
    BY DrawRange DEF HealAt
  <2>2. h.at = at /\ Act(h).type = "heal"
    BY DEF Scheduled, Act, HealFault, FaultOf
  <2>3. queue' = queue \cup {h}
    BY <1>5 DEF Enqueue
  <2> HIDE DEF h
  <2>4. /\ Partitions(queue') = Partitions(queue) /\ Crashes(queue') = Crashes(queue)
        /\ Restarts(queue') = Restarts(queue) /\ Heals(queue') = Heals(queue) \cup {h}
    BY <2>2, <2>3 DEF Partitions, Crashes, Restarts, Heals
  <2>5. InjuriesFirst' /\ CrashesEnd' /\ PartitionsEnd'
    BY <1>2, <2>1, <2>2, <2>4 DEF HealInv, InjuriesFirst, CrashesEnd, PartitionsEnd
  <2>6. OneHeal'
    BY <1>2, <2>4 DEF HealInv, OneHeal
  <2>7. QED
    BY <2>5, <2>6
<1>6. QED
  BY <1>4, <1>5 DEF Lowered

(* A fault fires: nothing that is queued lies before it.                   *)
LEMMA HealFire == HealInv /\ Fire => HealInv'
<1> SUFFICES ASSUME HealInv, Fire
             PROVE  HealInv'
  OBVIOUS
<1>1. LoweringTypeOK' /\ WithinHorizon'
  BY LoweringNext DEF HealInv, Next
<1>2. PICK e \in queue :
        /\ IsNext(e) /\ e \in FaultEvent
        /\ queue' = queue \ {e} /\ ApplyFault(e.at, Act(e))
        /\ UNCHANGED <<plan, split, pc>> /\ pc = "run"
  BY FireFields DEF HealInv, Act
<1> SUFFICES ASSUME Swarming("liveness")
             PROVE  InjuriesFirst' /\ CrashesEnd' /\ PartitionsEnd' /\ OneHeal'
  BY <1>1, <1>2 DEF HealInv, Swarming
<1>3. \A f \in queue : f.at \in Nat /\ e.at <= f.at
  BY <1>2, FaultEventFields DEF HealInv, LoweringTypeOK, IsNext, Before
<1>4. /\ Partitions(queue') = Partitions(queue) \ {e} /\ Crashes(queue') = Crashes(queue) \ {e}
      /\ Restarts(queue') = Restarts(queue) \ {e} /\ Heals(queue') = Heals(queue) \ {e}
  BY <1>2 DEF Partitions, Crashes, Restarts, Heals
<1>5. InjuriesFirst'
  BY <1>4 DEF HealInv, InjuriesFirst
<1>6. \A c \in Crashes(queue) : \E r \in Restarts(queue) \ {e} :
        Act(r).node = Act(c).node /\ c.at < r.at
  <2> SUFFICES ASSUME NEW c \in Crashes(queue)
               PROVE  \E r \in Restarts(queue) \ {e} : Act(r).node = Act(c).node /\ c.at < r.at
    OBVIOUS
  <2>1. PICK r \in Restarts(queue) : Act(r).node = Act(c).node /\ c.at < r.at
    BY DEF HealInv, CrashesEnd
  <2>2. c \in queue /\ r \in queue
    BY DEF Crashes, Restarts
  <2>3. r # e
    BY <1>3, <2>1, <2>2
  <2>4. QED
    BY <2>1, <2>3
<1>7. events \in Seq(RunEvent)
  BY DEF HealInv, LoweringTypeOK
<1>8. CASE Act(e).type = "partition"
  <2>1. UNCHANGED <<crashed, events>>
    BY <1>2, <1>8 DEF ApplyFault
  <2>2. e \in Partitions(queue) /\ e \notin Restarts(queue) /\ e \notin Heals(queue)
    BY <1>2, <1>8 DEF Partitions, Restarts, Heals
  <2>3. ~Healed
    BY <1>2, <2>2 DEF HealInv, OneHeal
  <2>4. CrashesEnd'
    BY <1>4, <1>6, <2>1, <2>2 DEF HealInv, CrashesEnd
  <2>5. PartitionsEnd' /\ OneHeal'
    BY <1>2, <1>4, <2>1, <2>2, <2>3 DEF HealInv, PartitionsEnd, OneHeal, Healed
  <2>6. QED
    BY <1>5, <2>4, <2>5
<1>9. CASE Act(e).type = "crash"
  <2>1. crashed' = crashed \cup {Act(e).node} /\ UNCHANGED <<partitions, events>>
    BY <1>2, <1>9 DEF ApplyFault
  <2>2. e \in Crashes(queue) /\ e \notin Restarts(queue) /\ e \notin Heals(queue)
        /\ e \notin Partitions(queue)
    BY <1>2, <1>9 DEF Crashes, Partitions, Restarts, Heals
  <2>3. ~Healed
    BY <1>2, <2>2 DEF HealInv, OneHeal
  <2>4. CrashesEnd'
    BY <1>4, <1>6, <2>1, <2>2 DEF HealInv, CrashesEnd
  <2>5. PartitionsEnd' /\ OneHeal'
    BY <1>2, <1>4, <2>1, <2>2, <2>3 DEF HealInv, PartitionsEnd, OneHeal, Healed
  <2>6. QED
    BY <1>5, <2>4, <2>5
<1>10. CASE Act(e).type = "restart"
  <2>1. crashed' = crashed \ {Act(e).node} /\ UNCHANGED partitions
        /\ events' = Append(events, [type |-> "NodeRejoined", at |-> e.at, node |-> Act(e).node])
    BY <1>2, <1>10 DEF ApplyFault
  <2>2. e \in Restarts(queue) /\ e \notin Crashes(queue) /\ e \notin Heals(queue)
        /\ e \notin Partitions(queue)
    BY <1>2, <1>10 DEF Crashes, Partitions, Restarts, Heals
  <2>3. Healed' => Healed
    BY <1>7, <2>1 DEF Healed
  <2>4. CrashesEnd'
    BY <1>4, <1>6, <2>1, <2>2 DEF HealInv, CrashesEnd
  <2>5. PartitionsEnd'
    BY <1>2, <1>4, <2>1, <2>2 DEF HealInv, PartitionsEnd
  <2>6. OneHeal'
    BY <1>2, <1>4, <2>1, <2>2, <2>3 DEF HealInv, OneHeal
  <2>7. QED
    BY <1>5, <2>4, <2>5, <2>6
<1>11. CASE Act(e).type = "heal"
  <2>1. partitions' = {} /\ UNCHANGED crashed
    BY <1>2, <1>11 DEF ApplyFault
  <2>2. e \in Heals(queue) /\ e \notin Crashes(queue) /\ e \notin Restarts(queue)
        /\ e \notin Partitions(queue)
    BY <1>2, <1>11 DEF Crashes, Partitions, Restarts, Heals
  <2>3. Partitions(queue) = {} /\ Crashes(queue) = {}
    <3>1. 2000 <= e.at
      BY <2>2 DEF HealInv, InjuriesFirst
    <3>2. ASSUME NEW f \in Partitions(queue) \cup Crashes(queue)
          PROVE  FALSE
      <4>1. f.at < 1000 /\ f \in queue
        BY DEF HealInv, InjuriesFirst, Partitions, Crashes
      <4>2. QED
        BY <1>3, <3>1, <4>1
    <3>3. QED
      BY <3>2
  <2>4. Heals(queue') = {}
    BY <1>4, <2>2 DEF HealInv, OneHeal
  <2>5. queue' = Restarts(queue')
    <3>1. \A f \in queue : Act(f).type \in {"partition", "crash", "restart", "heal"}
      BY FaultEventFields DEF HealInv, LoweringTypeOK, FaultAction, Act
    <3>2. QED
      BY <1>2, <1>4, <2>3, <2>4, <3>1 DEF Partitions, Crashes, Restarts, Heals
  <2>6. CrashesEnd'
    BY <1>4, <1>6, <2>1, <2>2 DEF HealInv, CrashesEnd
  <2>7. PartitionsEnd' /\ OneHeal'
    BY <1>2, <1>4, <2>1, <2>3, <2>4, <2>5 DEF PartitionsEnd, OneHeal
  <2>8. QED
    BY <1>5, <2>6, <2>7
<1>12. Act(e).type \in {"partition", "crash", "restart", "heal"}
  BY <1>2, FaultEventFields DEF FaultAction, Act
<1>13. QED
  BY <1>8, <1>9, <1>10, <1>11, <1>12

LEMMA HealNext == HealInv /\ [Next]_vars => HealInv'
<1> SUFFICES ASSUME HealInv, [Next]_vars
             PROVE  HealInv'
  OBVIOUS
<1>1. LoweringTypeOK' /\ WithinHorizon'
  BY LoweringNext DEF HealInv
<1>2. CASE LowerScripted
  BY <1>1, <1>2 DEF HealInv, LowerScripted, Lower, Swarming
<1>3. CASE Omit \/ LowerContinuous
  <2>1. Lower("swarm") /\ UNCHANGED <<queue, split>>
    BY <1>3 DEF Omit, LowerContinuous
  <2>2. QED
    BY <1>1, <2>1, LowerFrame, QueueSame
<1>4. CASE Finish
  <2>1. queue = {} /\ queue' = {} /\ pc = "run" /\ pc' = "done"
        /\ UNCHANGED <<plan, split, partitions, crashed, events>>
    BY <1>4, FinishWhenEmpty DEF HealInv, Finish
  <2>2. QED
    BY <1>1, <2>1 DEF HealInv, Swarming, InjuriesFirst, CrashesEnd, PartitionsEnd, OneHeal, Healed,
         Partitions, Crashes, Restarts, Heals
<1>5. CASE Terminated \/ UNCHANGED vars
  <2>1. UNCHANGED <<queue, split, pc, plan, partitions, crashed, events>>
    BY <1>5 DEF Terminated, vars, coreVars
  <2>2. QED
    BY <1>1, <2>1, QueueSame
<1>6. QED
  BY <1>2, <1>3, <1>4, <1>5, HealPartitions, HealCrash, HealLowered, HealFire DEF Next

LEMMA HealInvariant == Spec => []HealInv
BY HealInit, HealNext, PTL DEF Spec

(* A swarm in liveness mode leaves no partition and no crash when its run  *)
(* ends, however its kinds are repeated and its faults overlap.            *)
THEOREM LivenessModeHeals == Spec => []LivenessHeals
<1>1. HealInv => LivenessHeals
  BY DEF HealInv, LivenessHeals, CrashesEnd, PartitionsEnd, Restarts, Partitions, Heals
<1>2. QED
  BY <1>1, HealInvariant, PTL

(* After the report that the network is healed nothing injures the         *)
(* cluster any more.                                                       *)
THEOREM HealedStaysHealed == Spec => []HealedForGood
<1>1. HealInv => HealedForGood
  BY DEF HealInv, HealedForGood, OneHeal, Restarts, Act
<1>2. QED
  BY <1>1, HealInvariant, PTL
=============================================================================
