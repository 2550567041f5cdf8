----------------------------- MODULE TimerProofs ------------------------------
(***************************************************************************)
(* Time in module Simulator.  It implements module TimerService:           *)
(* cancelling a timer by its generation number, with the firings left in   *)
(* the heap, is exact.  And its runs end, as far as safety goes: a measure *)
(* falls with every step.                                                  *)
(***************************************************************************)
EXTENDS NetworkProofs

IsFiring(e) == e.kind.type = "timer"

TimerOf(e) == <<e.kind.node, e.kind.timer>>

(* Generations only grow, so a firing of the present generation is the one *)
(* of the last set, and there is only one of each generation.              *)
GensKnown == \A e \in queue : IsFiring(e) => e.kind.gen <= timerGen[TimerOf(e)]

OneFiring ==
  \A e, f \in queue :
    /\ IsFiring(e) /\ IsFiring(f)
    /\ TimerOf(e) = TimerOf(f) /\ e.kind.gen = f.kind.gen
    => e = f

TimerInv == NetworkInv /\ GensKnown /\ OneFiring

LEMMA TimerTypes ==
  ASSUME TimerInv
  PROVE  /\ TypeOK /\ CoreTypeOK /\ ControlTypeOK
         /\ \A e \in queue : e.at \in Nat /\ e.seq \in Nat
         /\ \A e \in queue : IsFiring(e) =>
              /\ TimerOf(e) \in Node \X Timer /\ e.kind.gen \in Nat
              /\ e.kind.node \in Node
BY EventFields DEF TimerInv, NetworkInv, TypeOK, CoreTypeOK, IsFiring, TimerOf

LEMMA TimerInit == Init => TimerInv
<1> SUFFICES ASSUME Init
             PROVE  TimerInv
  OBVIOUS
<1>1. PICK s \in Setups :
        queue = {Scheduled(s.timeline[i].at, i - 1,
                           [type |-> "fault", action |-> s.timeline[i].action])
                   : i \in DOMAIN s.timeline}
  BY DEF Init
<1>2. \A e \in queue : ~IsFiring(e)
  BY <1>1 DEF Scheduled, IsFiring
<1>3. QED
  BY <1>2, NetworkInit DEF TimerInv, GensKnown, OneFiring

(* Firings leave the queue, or events of other types enter it.             *)
LEMMA FiringsKept ==
  ASSUME TimerInv, timerGen' = timerGen,
         \A e \in queue' : e \in queue \/ ~IsFiring(e)
  PROVE  GensKnown' /\ OneFiring'
BY DEF TimerInv, GensKnown, OneFiring, IsFiring, TimerOf

(* What a set does: the timer gets a generation of its own, and the queue  *)
(* the one firing of it.                                                   *)
LEMMA SetSteps ==
  ASSUME TimerInv, NEW t \in Timer, NEW after \in After, SetTimer(t, after)
  PROVE  \E e : /\ queue' = queue \cup {e}
                /\ IsFiring(e) /\ TimerOf(e) = <<cb.node, t>> /\ e.at = now + after
                /\ e.kind.gen = timerGen[<<cb.node, t>>] + 1
                /\ timerGen' = [timerGen EXCEPT ![<<cb.node, t>>] = e.kind.gen]
                /\ <<cb.node, t>> \in Node \X Timer
<1> DEFINE gen == timerGen[<<cb.node, t>>] + 1
           e == Scheduled(now + after, seq,
                          [type |-> "timer", node |-> cb.node, timer |-> t, gen |-> gen])
<1>1. cb.node \in Node
  BY TimerTypes, CallbackNode DEF SetTimer, Running
<1>2. queue' = queue \cup {e} /\ timerGen' = [timerGen EXCEPT ![<<cb.node, t>>] = gen]
  BY DEF SetTimer, ArmTimer, Enqueue
<1>3. /\ e.kind.type = "timer" /\ e.kind.node = cb.node /\ e.kind.timer = t
      /\ e.kind.gen = gen /\ e.at = now + after
  BY DEF Scheduled
<1> HIDE DEF gen, e
<1>4. IsFiring(e) /\ TimerOf(e) = <<cb.node, t>>
  BY <1>3 DEF IsFiring, TimerOf
<1>5. QED
  BY <1>1, <1>2, <1>3, <1>4 DEF gen

(* A bump of one generation, by a set or a cancel.                         *)
LEMMA BumpedGen ==
  ASSUME TimerInv, NEW k \in Node \X Timer,
         timerGen' = [timerGen EXCEPT ![k] = timerGen[k] + 1]
  PROVE  /\ timerGen'[k] = timerGen[k] + 1 /\ timerGen[k] \in Nat
         /\ \A j \in Node \X Timer : j # k => timerGen'[j] = timerGen[j]
         /\ \A e \in queue : IsFiring(e) =>
              /\ e.kind.gen <= timerGen'[TimerOf(e)]
              /\ TimerOf(e) = k => e.kind.gen <= timerGen[k] /\ e.kind.gen # timerGen[k] + 1
<1>1. timerGen \in [Node \X Timer -> Nat]
  BY TimerTypes DEF CoreTypeOK
<1>2. /\ timerGen'[k] = timerGen[k] + 1 /\ timerGen[k] \in Nat
      /\ \A j \in Node \X Timer : j # k => timerGen'[j] = timerGen[j]
  BY <1>1
<1>3. ASSUME NEW e \in queue, IsFiring(e)
      PROVE  /\ e.kind.gen <= timerGen'[TimerOf(e)]
             /\ TimerOf(e) = k => e.kind.gen <= timerGen[k] /\ e.kind.gen # timerGen[k] + 1
  <2>1. e.kind.gen <= timerGen[TimerOf(e)]
    BY <1>3 DEF TimerInv, GensKnown
  <2>2. TimerOf(e) \in Node \X Timer /\ e.kind.gen \in Nat
    BY <1>3, TimerTypes
  <2>3. QED
    BY <1>2, <2>1, <2>2
<1>4. QED
  BY <1>2, <1>3

LEMMA TimerSet ==
  ASSUME TimerInv, NEW t \in Timer, NEW after \in After, SetTimer(t, after)
  PROVE  GensKnown' /\ OneFiring'
<1> DEFINE k == <<cb.node, t>>
<1>1. PICK e :
        /\ queue' = queue \cup {e}
        /\ IsFiring(e) /\ TimerOf(e) = k /\ e.kind.gen = timerGen[k] + 1
        /\ timerGen' = [timerGen EXCEPT ![k] = e.kind.gen]
        /\ k \in Node \X Timer
  BY SetSteps
<1> HIDE DEF k
<1>a. timerGen' = [timerGen EXCEPT ![k] = timerGen[k] + 1]
  BY <1>1
<1>2. /\ timerGen'[k] = e.kind.gen /\ timerGen[k] \in Nat
      /\ \A f \in queue : IsFiring(f) =>
           /\ f.kind.gen <= timerGen'[TimerOf(f)]
           /\ TimerOf(f) = k => f.kind.gen # e.kind.gen
  <2>1. /\ timerGen'[k] = timerGen[k] + 1 /\ timerGen[k] \in Nat
        /\ \A f \in queue : IsFiring(f) =>
             /\ f.kind.gen <= timerGen'[TimerOf(f)]
             /\ TimerOf(f) = k => f.kind.gen <= timerGen[k] /\ f.kind.gen # timerGen[k] + 1
    BY <1>1, <1>a, BumpedGen
  <2>2. QED
    BY <1>1, <2>1
<1>3. GensKnown'
  <2>1. e.kind.gen <= timerGen'[TimerOf(e)]
    BY <1>1, <1>2
  <2>2. \A f \in queue' : IsFiring(f) => f.kind.gen <= timerGen'[TimerOf(f)]
    BY <1>1, <1>2, <2>1
  <2>3. QED
    BY <2>2 DEF GensKnown, IsFiring, TimerOf
<1>4. OneFiring'
  <2>1. \A f, g \in queue' :
          /\ IsFiring(f) /\ IsFiring(g)
          /\ TimerOf(f) = TimerOf(g) /\ f.kind.gen = g.kind.gen
          => f = g
    BY <1>1, <1>2 DEF TimerInv, OneFiring
  <2>2. QED
    BY <2>1 DEF OneFiring, IsFiring, TimerOf
<1>5. QED
  BY <1>3, <1>4

LEMMA TimerCancel ==
  ASSUME TimerInv, NEW t \in Timer, Cancel(t)
  PROVE  GensKnown' /\ OneFiring'
<1>1. /\ queue' = queue /\ <<cb.node, t>> \in Node \X Timer
      /\ timerGen' = [timerGen EXCEPT ![<<cb.node, t>>] = timerGen[<<cb.node, t>>] + 1]
  BY TimerTypes, CallbackNode DEF Cancel, CancelTimer, Running
<1>2. \A e \in queue' : IsFiring(e) => e.kind.gen <= timerGen'[TimerOf(e)]
  BY <1>1, BumpedGen
<1>3. GensKnown'
  BY <1>2 DEF GensKnown, IsFiring, TimerOf
<1>4. OneFiring'
  BY <1>1 DEF TimerInv, OneFiring, IsFiring, TimerOf
<1>5. QED
  BY <1>3, <1>4

(* All other steps.                                                        *)
LEMMA OtherSteps ==
  ASSUME TimerInv, [Next]_vars,
         \A t \in Timer : ~Cancel(t) /\ \A after \in After : ~SetTimer(t, after)
  PROVE  timerGen' = timerGen /\ \A e \in queue' : e \in queue \/ ~IsFiring(e)
<1>1. ASSUME NEW to \in Node, NEW msg \in Msg, Send(to, msg)
      PROVE  timerGen' = timerGen /\ \A e \in queue' : e \in queue \/ ~IsFiring(e)
  <2>1. CoreTypeOK /\ cb.node \in Node /\ ScheduleDelivery(cb.node, to, msg)
    BY <1>1, TimerTypes, CallbackNode DEF Send, Running
  <2>2. \A e \in queue' : e \in queue \/ e.kind.type = "deliver"
    BY <2>1, ScheduleDeliveryType
  <2>3. QED
    BY <1>1, <2>2 DEF Send, IsFiring
<1>2. CASE Effect
  BY <1>1, <1>2 DEF Effect, SendLost, LoseMessage, CompleteOp
<1>3. CASE Return
  BY <1>3 DEF Return, ReturnBoot, ReturnHandler, ReturnDone, ReturnPending, coreVars
<1>4. CASE Pump
  BY <1>4 DEF Pump, Scheduled, IsFiring
<1>5. CASE Dispatch
  BY <1>5 DEF Dispatch, PopDeliver, PopTimer, Skip, PopClientOp, PopFault, Pop
<1>6. CASE CloseVictim \/ VictimsClosed \/ ForceClose \/ Stop \/ Finish
  BY <1>6 DEF CloseVictim, VictimsClosed, ForceClose, Stop, Finish, coreVars
<1>7. CASE UNCHANGED vars
  BY <1>7 DEF vars, coreVars
<1>8. QED
  BY <1>2, <1>3, <1>4, <1>5, <1>6, <1>7 DEF Next, Terminated

LEMMA TimerNext == TimerInv /\ [Next]_vars => TimerInv'
<1> SUFFICES ASSUME TimerInv, [Next]_vars
             PROVE  TimerInv'
  OBVIOUS
<1>1. NetworkInv'
  BY NetworkNext DEF TimerInv
<1>2. GensKnown' /\ OneFiring'
  BY TimerSet, TimerCancel, OtherSteps, FiringsKept
<1>3. QED
  BY <1>1, <1>2 DEF TimerInv

-----------------------------------------------------------------------------
(* What the nodes ask for is what the alarms show.                         *)

LEMMA LiveAre ==
  ASSUME NEW k
  PROVE  /\ LiveFirings(k) =
              {e \in queue : IsFiring(e) /\ TimerOf(e) = k /\ timerGen[TimerOf(e)] = e.kind.gen}
         /\ LiveFirings(k)' =
              {e \in queue' : IsFiring(e) /\ TimerOf(e) = k /\ timerGen'[TimerOf(e)] = e.kind.gen}
BY DEF LiveFirings, IsFiring, TimerOf, TimerIsCurrent

LEMMA AlarmsKept ==
  ASSUME NEW k, LiveFirings(k)' = LiveFirings(k)
  PROVE  AlarmsOf(k)' = AlarmsOf(k)
BY DEF AlarmsOf

(* A set moves the alarm of its timer, and no other.                       *)
LEMMA SetAlarm ==
  ASSUME TimerInv, NEW t \in Timer, NEW after \in After, SetTimer(t, after),
         NEW k, k = <<cb.node, t>>
  PROVE  /\ k \in Node \X Timer
         /\ AlarmsOf(k)' = {now + after}
         /\ \A j \in Node \X Timer : j # k => AlarmsOf(j)' = AlarmsOf(j)
<1>1. PICK e :
        /\ queue' = queue \cup {e}
        /\ IsFiring(e) /\ TimerOf(e) = k /\ e.at = now + after
        /\ e.kind.gen = timerGen[k] + 1
        /\ timerGen' = [timerGen EXCEPT ![k] = e.kind.gen]
        /\ k \in Node \X Timer
  BY SetSteps
<1>2. timerGen' = [timerGen EXCEPT ![k] = timerGen[k] + 1]
  BY <1>1
<1>3. /\ timerGen'[k] = e.kind.gen
      /\ \A j \in Node \X Timer : j # k => timerGen'[j] = timerGen[j]
      /\ \A f \in queue : IsFiring(f) /\ TimerOf(f) = k => f.kind.gen # e.kind.gen
  <2>1. /\ timerGen'[k] = timerGen[k] + 1
        /\ \A j \in Node \X Timer : j # k => timerGen'[j] = timerGen[j]
        /\ \A f \in queue : IsFiring(f) /\ TimerOf(f) = k => f.kind.gen # timerGen[k] + 1
    BY <1>1, <1>2, BumpedGen
  <2>2. QED
    BY <1>1, <2>1
<1>4. LiveFirings(k)' = {e}
  BY <1>1, <1>3, LiveAre
<1>5. AlarmsOf(k)' = {now + after}
  BY <1>1, <1>4 DEF AlarmsOf
<1>6. ASSUME NEW j \in Node \X Timer, j # k
      PROVE  AlarmsOf(j)' = AlarmsOf(j)
  <2>1. LiveFirings(j)' = LiveFirings(j)
    <3>1. \A f \in queue' : IsFiring(f) /\ TimerOf(f) = j => f \in queue
      BY <1>1, <1>3, <1>6
    <3>2. \A f : TimerOf(f) = j => timerGen'[TimerOf(f)] = timerGen[TimerOf(f)]
      BY <1>1, <1>3, <1>6
    <3>3. queue \subseteq queue'
      BY <1>1
    <3>4. {f \in queue' : IsFiring(f) /\ TimerOf(f) = j /\ timerGen'[TimerOf(f)] = f.kind.gen}
            = {f \in queue : IsFiring(f) /\ TimerOf(f) = j /\ timerGen[TimerOf(f)] = f.kind.gen}
      BY <3>1, <3>2, <3>3
    <3>5. QED
      BY <3>4, LiveAre
  <2>2. QED
    BY <2>1, AlarmsKept
<1>7. QED
  BY <1>1, <1>5, <1>6

(* A cancel leaves its timer without an alarm, and the others alone.       *)
LEMMA CancelAlarm ==
  ASSUME TimerInv, NEW t \in Timer, Cancel(t), NEW k, k = <<cb.node, t>>
  PROVE  /\ k \in Node \X Timer
         /\ AlarmsOf(k)' = {}
         /\ \A j \in Node \X Timer : j # k => AlarmsOf(j)' = AlarmsOf(j)
<1>1. /\ queue' = queue /\ k \in Node \X Timer
      /\ timerGen' = [timerGen EXCEPT ![k] = timerGen[k] + 1]
  BY TimerTypes, CallbackNode DEF Cancel, CancelTimer, Running
<1>2. /\ timerGen'[k] = timerGen[k] + 1
      /\ \A j \in Node \X Timer : j # k => timerGen'[j] = timerGen[j]
      /\ \A f \in queue : IsFiring(f) /\ TimerOf(f) = k => f.kind.gen # timerGen[k] + 1
  BY <1>1, BumpedGen
<1>3. LiveFirings(k)' = {}
  BY <1>1, <1>2, LiveAre
<1>4. AlarmsOf(k)' = {}
  BY <1>3 DEF AlarmsOf
<1>5. ASSUME NEW j \in Node \X Timer, j # k
      PROVE  AlarmsOf(j)' = AlarmsOf(j)
  <2>1. LiveFirings(j)' = LiveFirings(j)
    <3>1. \A f \in queue' : IsFiring(f) /\ TimerOf(f) = j => f \in queue
      BY <1>1, <1>2, <1>5
    <3>2. \A f : TimerOf(f) = j => timerGen'[TimerOf(f)] = timerGen[TimerOf(f)]
      BY <1>1, <1>2, <1>5
    <3>3. queue \subseteq queue'
      BY <1>1
    <3>4. {f \in queue' : IsFiring(f) /\ TimerOf(f) = j /\ timerGen'[TimerOf(f)] = f.kind.gen}
            = {f \in queue : IsFiring(f) /\ TimerOf(f) = j /\ timerGen[TimerOf(f)] = f.kind.gen}
      BY <3>1, <3>2, <3>3
    <3>5. QED
      BY <3>4, LiveAre
  <2>2. QED
    BY <2>1, AlarmsKept
<1>6. QED
  BY <1>1, <1>4, <1>5

(* Whatever firings of a timer are queued, a set leaves the new deadline   *)
(* alone and a cancel leaves none (arm_timer, cancel_timer).               *)
THEOREM AlarmsTrue == Spec => AlarmsAreAsSet
<1> DEFINE AsSet ==
      \A t \in Timer :
        /\ Cancel(t) => AlarmsOf(<<cb.node, t>>)' = {}
        /\ \A after \in After :
             SetTimer(t, after) => AlarmsOf(<<cb.node, t>>)' = {now + after}
<1>1. ASSUME TimerInv
      PROVE  AsSet
  <2>1. ASSUME NEW t \in Timer, Cancel(t)
        PROVE  AlarmsOf(<<cb.node, t>>)' = {}
    <3>1. cb'.node = cb.node
      BY <1>1, <2>1, SpendType, TimerTypes DEF Cancel
    <3>2. PICK k : k = <<cb.node, t>>
      OBVIOUS
    <3>3. AlarmsOf(k)' = {}
      BY <1>1, <2>1, <3>2, CancelAlarm
    <3>4. QED
      BY <3>1, <3>2, <3>3 DEF AlarmsOf, LiveFirings
  <2>2. ASSUME NEW t \in Timer, NEW after \in After, SetTimer(t, after)
        PROVE  AlarmsOf(<<cb.node, t>>)' = {now + after}
    <3>1. cb'.node = cb.node
      BY <1>1, <2>2, SpendType, TimerTypes DEF SetTimer
    <3>2. PICK k : k = <<cb.node, t>>
      OBVIOUS
    <3>3. AlarmsOf(k)' = {now + after}
      BY <1>1, <2>2, <3>2, SetAlarm
    <3>4. QED
      BY <3>1, <3>2, <3>3 DEF AlarmsOf, LiveFirings
  <2>3. QED
    BY <2>1, <2>2
<1>2. TimerInv => [AsSet]_vars
  BY <1>1
<1>3. QED
  BY <1>2, TimerInit, TimerNext, PTL DEF Spec, AlarmsAreAsSet

-----------------------------------------------------------------------------
(* The refinement mapping, by name.                                        *)
Bells == [k \in Node \X Timer |-> IF Stopped THEN {} ELSE AlarmsOf(k)]
Rung  == IF cb.kind = "timer" THEN <<cb.node, cb.timer>> ELSE <<>>

LEMMA BellsStutter ==
  ASSUME UNCHANGED <<now, crashed>>, Bells' = Bells, Rung' = Rung, Stopped' = Stopped
  PROVE  UNCHANGED Alarms!alarmVars
BY DEF Alarms!alarmVars, Bells, Rung

(* No live firing is pushed or popped.                                     *)
LEMMA BellsSame ==
  ASSUME Stopped' = Stopped, timerGen' = timerGen,
         \A e : IsFiring(e) /\ timerGen[TimerOf(e)] = e.kind.gen =>
                  (e \in queue' <=> e \in queue)
  PROVE  Bells' = Bells
<1>1. ASSUME NEW k
      PROVE  AlarmsOf(k)' = AlarmsOf(k)
  <2>1. {f \in queue' : IsFiring(f) /\ TimerOf(f) = k /\ timerGen'[TimerOf(f)] = f.kind.gen}
          = {f \in queue : IsFiring(f) /\ TimerOf(f) = k /\ timerGen[TimerOf(f)] = f.kind.gen}
    OBVIOUS
  <2>2. LiveFirings(k)' = LiveFirings(k)
    BY <2>1, LiveAre
  <2>3. QED
    BY <2>2, AlarmsKept
<1>2. QED
  BY <1>1 DEF Bells

LEMMA BellsMoved ==
  ASSUME ~Stopped, ~Stopped', NEW k \in Node \X Timer, NEW S, AlarmsOf(k)' = S,
         \A j \in Node \X Timer : j # k => AlarmsOf(j)' = AlarmsOf(j)
  PROVE  Bells' = [Bells EXCEPT ![k] = S] /\ Bells'[k] = S
BY DEF Bells

(* An effect leaves the callback what it is.                               *)
LEMMA SpendRings ==
  ASSUME ControlTypeOK, Running, Spend
  PROVE  Rung' = Rung /\ ~Stopped /\ ~Stopped' /\ Stopped' = Stopped
<1>1. /\ pc = "callback" /\ pc' = "callback"
      /\ cb'.kind = cb.kind /\ cb'.node = cb.node
  BY SpendType
<1>2. CASE cb.kind = "timer"
  <2>1. cb \in [kind : {"timer"}, node : Node, timer : Timer, left : 0 .. MaxEffects]
    BY <1>2 DEF ControlTypeOK, Callback
  <2>2. cb'.timer = cb.timer
    BY <2>1 DEF Spend
  <2>3. QED
    BY <1>1, <1>2, <2>2 DEF Rung, Stopped
<1>3. CASE cb.kind # "timer"
  BY <1>1, <1>3 DEF Rung, Stopped
<1>4. QED
  BY <1>2, <1>3

LEMMA BellsEffect == TimerInv /\ Effect => [Alarms!Next]_Alarms!alarmVars
<1> SUFFICES ASSUME TimerInv, Effect
             PROVE  [Alarms!Next]_Alarms!alarmVars
  OBVIOUS
<1>1. ASSUME NEW t \in Timer, NEW after \in After, SetTimer(t, after)
      PROVE  Alarms!Next
  <2>1. PICK k : k = <<cb.node, t>>
    OBVIOUS
  <2>2. /\ k \in Node \X Timer /\ AlarmsOf(k)' = {now + after}
        /\ \A j \in Node \X Timer : j # k => AlarmsOf(j)' = AlarmsOf(j)
    BY <1>1, <2>1, SetAlarm
  <2>3. Rung' = Rung /\ ~Stopped /\ ~Stopped' /\ Stopped' = Stopped
    BY <1>1, TimerTypes, SpendRings DEF SetTimer
  <2>4. Bells' = [Bells EXCEPT ![k] = {now + after}] /\ Bells'[k] = {now + after}
    BY <2>2, <2>3, BellsMoved
  <2>5. now <= now + after
    BY <1>1, TimerTypes, SimulatorAssumption DEF CoreTypeOK
  <2>6. UNCHANGED <<now, crashed>>
    BY <1>1 DEF SetTimer
  <2>7. Alarms!Set(k)
    BY <2>3, <2>4, <2>5, <2>6 DEF Alarms!Set, Bells, Rung
  <2>8. QED
    BY <2>2, <2>7 DEF Alarms!Next, Alarms!Alarm
<1>2. ASSUME NEW t \in Timer, Cancel(t)
      PROVE  Alarms!Next
  <2>1. PICK k : k = <<cb.node, t>>
    OBVIOUS
  <2>2. /\ k \in Node \X Timer /\ AlarmsOf(k)' = {}
        /\ \A j \in Node \X Timer : j # k => AlarmsOf(j)' = AlarmsOf(j)
    BY <1>2, <2>1, CancelAlarm
  <2>3. Rung' = Rung /\ ~Stopped /\ ~Stopped' /\ Stopped' = Stopped
    BY <1>2, TimerTypes, SpendRings DEF Cancel
  <2>4. Bells' = [Bells EXCEPT ![k] = {}]
    BY <2>2, <2>3, BellsMoved
  <2>5. UNCHANGED <<now, crashed>>
    BY <1>2 DEF Cancel
  <2>6. Alarms!Cancel(k)
    BY <2>3, <2>4, <2>5 DEF Alarms!Cancel, Bells, Rung
  <2>7. QED
    BY <2>2, <2>6 DEF Alarms!Next, Alarms!Alarm
<1>3. ASSUME Running, Spend, UNCHANGED <<now, crashed, timerGen>>,
             \A e : IsFiring(e) => (e \in queue' <=> e \in queue)
      PROVE  UNCHANGED Alarms!alarmVars
  <2>1. Rung' = Rung /\ Stopped' = Stopped
    BY <1>3, TimerTypes, SpendRings
  <2>2. QED
    BY <1>3, <2>1, BellsSame, BellsStutter
<1>4. ASSUME NEW to \in Node, NEW msg \in Msg, Send(to, msg)
      PROVE  UNCHANGED Alarms!alarmVars
  <2>1. CoreTypeOK /\ cb.node \in Node /\ ScheduleDelivery(cb.node, to, msg)
    BY <1>4, TimerTypes, CallbackNode DEF Send, Running
  <2>2. \A e \in queue' : e \in queue \/ e.kind.type = "deliver"
    BY <2>1, ScheduleDeliveryType
  <2>3. queue \subseteq queue'
    BY <2>1 DEF ScheduleDelivery, Enqueue
  <2>4. QED
    BY <1>3, <1>4, <2>2, <2>3 DEF Send, IsFiring
<1>5. ASSUME NEW to \in Node, SendLost(to)
      PROVE  UNCHANGED Alarms!alarmVars
  BY <1>3, <1>5 DEF SendLost, LoseMessage
<1>6. ASSUME NEW token, NEW kind, CompleteOp(token, kind)
      PROVE  UNCHANGED Alarms!alarmVars
  BY <1>3, <1>6 DEF CompleteOp
<1>7. QED
  BY <1>1, <1>2, <1>4, <1>5, <1>6 DEF Effect

(* An alarm has been handled when its callback returns.                    *)
LEMMA BellsReturn == TimerInv /\ Return => [Alarms!Next]_Alarms!alarmVars
<1> SUFFICES ASSUME TimerInv, Return
             PROVE  [Alarms!Next]_Alarms!alarmVars
  OBVIOUS
<1>1. /\ UNCHANGED <<now, crashed, queue, timerGen>>
      /\ pc = "callback" /\ pc' \in {"callback", "pump"}
  BY DEF Return, ReturnBoot, ReturnHandler, ReturnDone, ReturnPending, coreVars
<1>2. ~Stopped /\ ~Stopped' /\ Stopped' = Stopped
  BY <1>1 DEF Stopped
<1>3. Bells' = Bells
  BY <1>1, <1>2, BellsSame
<1>4. Rung' = <<>>
  BY DEF Return, ReturnBoot, ReturnHandler, ReturnDone, ReturnPending, Boot, Idle, Rung
<1>5. CASE Rung = <<>>
  BY <1>1, <1>2, <1>3, <1>4, <1>5, BellsStutter
<1>6. CASE Rung # <<>>
  <2>1. Alarms!Handled
    BY <1>1, <1>2, <1>3, <1>4, <1>6 DEF Alarms!Handled, Alarms!Silent, Bells, Rung
  <2>2. QED
    BY <2>1 DEF Alarms!Next
<1>7. QED
  BY <1>5, <1>6

(* The steps of the driver between events, and those that end a run.       *)
LEMMA BellsDriver ==
  TimerInv /\ (Pump \/ CloseVictim \/ VictimsClosed \/ ForceClose \/ Stop)
    => UNCHANGED Alarms!alarmVars
<1> SUFFICES ASSUME TimerInv, Pump \/ CloseVictim \/ VictimsClosed \/ ForceClose \/ Stop
             PROVE  UNCHANGED Alarms!alarmVars
  OBVIOUS
<1>1. UNCHANGED <<now, crashed, timerGen>>
  BY DEF Pump, CloseVictim, VictimsClosed, ForceClose, Stop, coreVars
<1>2. Stopped' = Stopped
  BY DEF Pump, CloseVictim, VictimsClosed, ForceClose, Stop, control, Stopped
<1>3. \A e : IsFiring(e) => (e \in queue' <=> e \in queue)
  BY DEF Pump, Scheduled, CloseVictim, VictimsClosed, ForceClose, Stop, coreVars, IsFiring
<1>4. cb.kind # "timer" /\ cb'.kind # "timer"
  BY TimerTypes DEF ControlTypeOK, Pump, CloseVictim, VictimsClosed, ForceClose, Stop,
                    control, Idle
<1>5. Rung' = Rung
  BY <1>4 DEF Rung
<1>6. QED
  BY <1>1, <1>2, <1>3, <1>5, BellsSame, BellsStutter

LEMMA BellsFinish == TimerInv /\ Finish => Alarms!Next
<1> SUFFICES ASSUME TimerInv, Finish
             PROVE  Alarms!Halt
  BY DEF Alarms!Next
<1>1. now <= now'
  BY ClockSteps DEF Next, TimerInv
<1>2. cb.kind = "none" /\ UNCHANGED <<crashed, cb>>
  BY TimerTypes DEF ControlTypeOK, Finish
<1>3. ~Stopped /\ Stopped'
  BY DEF Finish, Stopped
<1>4. QED
  BY <1>1, <1>2, <1>3 DEF Alarms!Halt, Alarms!Silent, Alarms!Alarm

(* The event that is popped is the first: no alarm is set for earlier.     *)
LEMMA PoppedFirst ==
  ASSUME TimerInv, NEW e \in queue, Pop(e)
  PROVE  /\ now' = e.at /\ now <= now' /\ timerGen' = timerGen
         /\ ~Stopped /\ Rung = <<>> /\ cb.kind = "none" /\ pc = "pop"
         /\ Alarms!NoneBefore(now')
<1>1. /\ now' = e.at /\ timerGen' = timerGen /\ pc = "pop"
      /\ \A f \in queue \ {e} : Before(e, f)
  BY DEF Pop, IsNext
<1>2. cb.kind = "none" /\ ~Stopped /\ Rung = <<>>
  BY <1>1, TimerTypes DEF ControlTypeOK, Stopped, Rung
<1>3. now <= e.at
  BY DEF TimerInv, NetworkInv, TimeMovesForward
<1>4. \A f \in queue : e.at <= f.at
  BY <1>1, TimerTypes DEF Before
<1>5. \A k \in Node \X Timer : \A d \in Bells[k] : now' <= d
  BY <1>1, <1>2, <1>4 DEF Bells, AlarmsOf, LiveFirings
<1>6. Alarms!NoneBefore(now')
  BY <1>5 DEF Alarms!NoneBefore, Alarms!Alarm, Bells
<1>7. QED
  BY <1>1, <1>2, <1>3, <1>6

(* A live firing is popped: its alarm is due.                              *)
LEMMA PoppedDue ==
  ASSUME TimerInv, NEW e \in queue, Pop(e), IsFiring(e), TimerIsCurrent(e.kind),
         UNCHANGED crashed, pc' \in {"pop", "callback"}
  PROVE  TimerOf(e) \in Node \X Timer /\ Alarms!Due(TimerOf(e))
<1>1. PICK k : k = TimerOf(e)
  OBVIOUS
<1>2. /\ now' = e.at /\ timerGen' = timerGen /\ ~Stopped /\ Rung = <<>>
      /\ Alarms!NoneBefore(now') /\ queue' = queue \ {e}
  BY PoppedFirst DEF Pop
<1>3. k \in Node \X Timer /\ timerGen[k] = e.kind.gen
  BY <1>1, TimerTypes DEF TimerIsCurrent, TimerOf
<1>4. \A f \in queue : IsFiring(f) /\ TimerOf(f) = k /\ timerGen[TimerOf(f)] = f.kind.gen => f = e
  BY <1>1, <1>3 DEF TimerInv, OneFiring
<1>5. LiveFirings(k) = {e}
  BY <1>1, <1>3, <1>4, LiveAre
<1>6. LiveFirings(k)' = {}
  BY <1>2, <1>4, LiveAre
<1>7. Bells[k] = {now'} /\ AlarmsOf(k)' = {}
  BY <1>2, <1>3, <1>5, <1>6 DEF Bells, AlarmsOf
<1>8. ASSUME NEW j \in Node \X Timer, j # k
      PROVE  AlarmsOf(j)' = AlarmsOf(j)
  <2>1. {f \in queue' : IsFiring(f) /\ TimerOf(f) = j /\ timerGen'[TimerOf(f)] = f.kind.gen}
          = {f \in queue : IsFiring(f) /\ TimerOf(f) = j /\ timerGen[TimerOf(f)] = f.kind.gen}
    BY <1>1, <1>2, <1>8
  <2>2. LiveFirings(j)' = LiveFirings(j)
    BY <2>1, LiveAre
  <2>3. QED
    BY <2>2, AlarmsKept
<1>9. ~Stopped' /\ Stopped' = Stopped
  BY <1>2 DEF Stopped
<1>10. Bells' = [Bells EXCEPT ![k] = {}]
  BY <1>2, <1>3, <1>7, <1>8, <1>9, BellsMoved
<1>11. Alarms!Due(k)
  BY <1>2, <1>7, <1>9, <1>10 DEF Alarms!Due, Alarms!Silent, Bells, Rung
<1>12. QED
  BY <1>1, <1>3, <1>11

(* Any other event is popped: time passes.                                 *)
LEMMA PoppedPasses ==
  ASSUME TimerInv, NEW e \in queue, Pop(e), ~(IsFiring(e) /\ TimerIsCurrent(e.kind)),
         ~Stopped', cb'.kind # "timer"
  PROVE  Alarms!Next
<1>1. /\ now <= now' /\ timerGen' = timerGen /\ ~Stopped /\ Rung = <<>>
      /\ Alarms!NoneBefore(now') /\ queue' = queue \ {e}
  BY PoppedFirst DEF Pop
<1>2. Stopped' = Stopped /\ Rung' = <<>>
  BY <1>1 DEF Stopped, Rung
<1>3. Bells' = Bells
  <2>1. ~(IsFiring(e) /\ timerGen[TimerOf(e)] = e.kind.gen)
    BY DEF TimerIsCurrent, TimerOf
  <2>2. QED
    BY <1>1, <1>2, <2>1, BellsSame
<1>4. Alarms!Elapse
  BY <1>1, <1>2, <1>3 DEF Alarms!Elapse, Alarms!Silent, Bells, Rung
<1>5. QED
  BY <1>4 DEF Alarms!Next

LEMMA BellsDispatch == TimerInv /\ Dispatch => Alarms!Next
<1> SUFFICES ASSUME TimerInv, NEW e \in queue,
                    \/ PopDeliver(e) \/ PopTimer(e) \/ Skip(e)
                    \/ PopClientOp(e) \/ PopFault(e)
             PROVE  Alarms!Next
  BY DEF Dispatch
<1>0. ASSUME Pop(e)
      PROVE  cb.kind = "none" /\ pc = "pop"
  BY <1>0, PoppedFirst
<1>1. CASE PopDeliver(e)
  <2>1. Pop(e) /\ ~IsFiring(e) /\ ~Stopped' /\ cb'.kind # "timer"
    BY <1>1 DEF PopDeliver, IsFiring, Stopped, OnMsg
  <2>2. QED
    BY <2>1, PoppedPasses
<1>2. CASE PopTimer(e)
  <2>1. TimerOf(e) \in Node \X Timer /\ Alarms!Due(TimerOf(e))
    BY <1>2, PoppedDue DEF PopTimer, IsFiring
  <2>2. TimerOf(e)[1] \notin crashed /\ Rung' = TimerOf(e)
    BY <1>2 DEF PopTimer, OnTimer, TimerOf, Rung
  <2>3. Alarms!Ring(TimerOf(e))
    BY <2>1, <2>2 DEF Alarms!Ring, Rung
  <2>4. QED
    BY <2>1, <2>3 DEF Alarms!Next, Alarms!Alarm
<1>3. CASE Skip(e) /\ IsFiring(e) /\ TimerIsCurrent(e.kind)
  <2>1. TimerOf(e) \in Node \X Timer /\ Alarms!Due(TimerOf(e))
    BY <1>0, <1>3, PoppedDue DEF Skip, control
  <2>2. TimerOf(e)[1] \in crashed /\ Rung' = Rung
    BY <1>3 DEF Skip, TimerOf, Rung, control, IsFiring
  <2>3. Alarms!Miss(TimerOf(e))
    BY <2>1, <2>2 DEF Alarms!Miss, Rung
  <2>4. QED
    BY <2>1, <2>3 DEF Alarms!Next, Alarms!Alarm
<1>4. CASE Skip(e) /\ ~(IsFiring(e) /\ TimerIsCurrent(e.kind))
  <2>1. Pop(e) /\ ~Stopped' /\ cb'.kind # "timer"
    BY <1>0, <1>4 DEF Skip, Stopped, control
  <2>2. QED
    BY <1>4, <2>1, PoppedPasses
<1>5. CASE PopClientOp(e)
  <2>1. Pop(e) /\ ~IsFiring(e) /\ ~Stopped' /\ cb'.kind # "timer"
    BY <1>0, <1>5 DEF PopClientOp, IsFiring, Stopped, OnClientOp
  <2>2. QED
    BY <2>1, PoppedPasses
<1>6. CASE PopFault(e)
  <2>1. Pop(e) /\ ~IsFiring(e) /\ ~Stopped' /\ cb'.kind # "timer"
    BY <1>0, <1>6 DEF PopFault, IsFiring, Stopped, OnStart, Closing
  <2>2. QED
    BY <2>1, PoppedPasses
<1>7. QED
  BY <1>1, <1>2, <1>3, <1>4, <1>5, <1>6

LEMMA BellsStep == TimerInv /\ [Next]_vars => [Alarms!Next]_Alarms!alarmVars
<1> SUFFICES ASSUME TimerInv, [Next]_vars
             PROVE  [Alarms!Next]_Alarms!alarmVars
  OBVIOUS
<1>1. CASE UNCHANGED vars
  <2>1. UNCHANGED <<now, crashed, queue, timerGen, pc, cb>>
    BY <1>1 DEF vars, coreVars, control
  <2>2. Rung' = Rung /\ Stopped' = Stopped
    BY <2>1 DEF Rung, Stopped
  <2>3. QED
    BY <2>1, <2>2, BellsSame, BellsStutter
<1>2. QED
  BY <1>1, BellsEffect, BellsReturn, BellsDriver, BellsDispatch, BellsFinish DEF Next, Terminated

(* The timers of the nodes are alarm clocks (arm_timer, cancel_timer, pop):*)
(* each rings once, at the time last set, in the order of the deadlines,   *)
(* unless it was cancelled or its node is down, for any nodes and faults.  *)
THEOREM TimersRefined == Spec => ImplementsTimerService
<1>1. Init => Alarms!Init
  <2> SUFFICES ASSUME Init
               PROVE  Alarms!Init
    OBVIOUS
  <2>1. PICK s \in Setups :
          queue = {Scheduled(s.timeline[i].at, i - 1,
                             [type |-> "fault", action |-> s.timeline[i].action])
                     : i \in DOMAIN s.timeline}
    BY DEF Init
  <2>2. pc = "callback" /\ cb = Boot(0) /\ now = 0 /\ crashed = {}
    BY DEF Init, CoreInit
  <2>3. \A e \in queue : e.kind.type = "fault"
    BY <2>1 DEF Scheduled
  <2>4. \A k \in Node \X Timer : AlarmsOf(k) = {}
    BY <2>3 DEF AlarmsOf, LiveFirings
  <2>5. pc = "callback" /\ cb.kind = "boot"
    BY <2>2 DEF Boot
  <2>6. QED
    BY <2>2, <2>4, <2>5 DEF Alarms!Init, Alarms!Alarm, Alarms!Silent, Stopped
<1>2. QED
  BY <1>1, TimerInit, TimerNext, BellsStep, PTL
     DEF Spec, ImplementsTimerService, Alarms!Spec

-----------------------------------------------------------------------------
(* The end of a run.  Besides the network's invariant, counting what is    *)
(* left rests on the heap and the pending ops being finite.                *)
RunFinite == IsFiniteSet(queue) /\ IsFiniteSet(pending)

RunInv == NetworkInv /\ RunFinite

(* What a function yields on a finite set is finite.                       *)
LEMMA FiniteRange ==
  ASSUME NEW S, IsFiniteSet(S), NEW f, f = [x \in S |-> f[x]]
  PROVE  IsFiniteSet({f[x] : x \in S})
<1> DEFINE T == {f[x] : x \in S}
<1>1. f \in Surjection(S, T)
  BY DEF Surjection
<1>2. QED
  BY <1>1, FS_Surjection

(* A lexicographic comparison, component by component.                     *)
LEMMA LowerBy ==
  ASSUME NEW a, NEW b, NEW c, NEW d, NEW w, NEW x, NEW y, NEW z,
         \/ a < w
         \/ a = w /\ b < x
         \/ a = w /\ b = x /\ c < y
         \/ a = w /\ b = x /\ c = y /\ d < z
  PROVE  Lower(<<a, b, c, d>>, <<w, x, y, z>>)
<1> DEFINE f == <<a, b, c, d>>
           g == <<w, x, y, z>>
<1>1. /\ f[1] = a /\ f[2] = b /\ f[3] = c /\ f[4] = d
      /\ g[1] = w /\ g[2] = x /\ g[3] = y /\ g[4] = z
  OBVIOUS
<1> HIDE DEF f, g
<1>2. CASE a < w
  <2>1. f[1] < g[1] /\ \A j \in 1 .. (1 - 1) : f[j] = g[j]
    BY <1>1, <1>2
  <2>2. QED
    BY <2>1 DEF Lower, f, g
<1>3. CASE a = w /\ b < x
  <2>1. f[2] < g[2] /\ \A j \in 1 .. (2 - 1) : f[j] = g[j]
    BY <1>1, <1>3
  <2>2. QED
    BY <2>1 DEF Lower, f, g
<1>4. CASE a = w /\ b = x /\ c < y
  <2>1. f[3] < g[3] /\ \A j \in 1 .. (3 - 1) : f[j] = g[j]
    BY <1>1, <1>4
  <2>2. QED
    BY <2>1 DEF Lower, f, g
<1>5. CASE a = w /\ b = x /\ c = y /\ d < z
  <2>1. f[4] < g[4] /\ \A j \in 1 .. (4 - 1) : f[j] = g[j]
    BY <1>1, <1>5
  <2>2. QED
    BY <2>1 DEF Lower, f, g
<1>6. QED
  BY <1>2, <1>3, <1>4, <1>5

LEMMA LowerLeft ==
  ASSUME \/ TimeLeft' < TimeLeft
         \/ /\ TimeLeft' = TimeLeft
            /\ Cardinality(Due)' < Cardinality(Due)
         \/ /\ TimeLeft' = TimeLeft /\ Cardinality(Due)' = Cardinality(Due)
            /\ WayToPop' < WayToPop
         \/ /\ TimeLeft' = TimeLeft /\ Cardinality(Due)' = Cardinality(Due)
            /\ WayToPop' = WayToPop /\ WorkLeft' < WorkLeft
  PROVE  Lower(Left', Left)
<1>1. Lower(<<TimeLeft', Cardinality(Due)', WayToPop', WorkLeft'>>,
            <<TimeLeft, Cardinality(Due), WayToPop, WorkLeft>>)
  BY LowerBy
<1>2. QED
  BY <1>1 DEF Left

LEMMA LeftTypes ==
  ASSUME RunInv
  PROVE  /\ TypeOK /\ CoreTypeOK /\ ControlTypeOK /\ NetworkInv
         /\ TimeLeft \in Nat /\ (~Stopped => TimeLeft > 0)
         /\ IsFiniteSet(Due) /\ Cardinality(Due) \in Nat
         /\ Cardinality(pending) \in Nat
         /\ WayToPop \in Nat /\ WorkLeft \in Nat
<1>1. TypeOK /\ CoreTypeOK /\ ControlTypeOK /\ NetworkInv
  BY DEF RunInv, NetworkInv, TypeOK
<1>2. TimeLeft \in Nat /\ (~Stopped => TimeLeft > 0)
  BY <1>1 DEF TimeLeft, NetworkInv, WithinHorizon, CoreTypeOK
<1>3. IsFiniteSet(Due) /\ Cardinality(Due) \in Nat
  <2>1. Due \in SUBSET queue
    BY DEF Due
  <2>2. QED
    BY <2>1, FS_Subset, FS_CardinalityType DEF RunInv, RunFinite
<1>4. Cardinality(pending) \in Nat
  BY FS_CardinalityType DEF RunInv, RunFinite
<1>5. WayToPop \in Nat
  <2>1. CASE pc = "callback"
    <3>1. cb.node \in 0 .. (NodeCount - 1) /\ NodeCount \in Nat
      BY <1>1, <2>1, CallbackNode, NodeCountAssumption DEF Node
    <3>2. NodeCount - cb.node + 1 \in Nat
      BY <3>1
    <3>3. QED
      BY <2>1, <3>2 DEF WayToPop
  <2>2. CASE pc # "callback"
    BY <1>1, <2>2 DEF WayToPop, ControlTypeOK
  <2>3. QED
    BY <2>1, <2>2
<1>6. WorkLeft \in Nat
  <2>1. pc = "callback" => cb.left \in Nat
    BY <1>1, CallbackNode, SimulatorAssumption
  <2>2. QED
    BY <1>4, <2>1 DEF WorkLeft
<1>7. QED
  BY <1>1, <1>2, <1>3, <1>4, <1>5, <1>6

LEMMA FiniteInit == Init => RunFinite
<1> SUFFICES ASSUME Init
             PROVE  RunFinite
  OBVIOUS
<1>1. PICK s \in Setups :
        queue = {Scheduled(s.timeline[i].at, i - 1,
                           [type |-> "fault", action |-> s.timeline[i].action])
                   : i \in DOMAIN s.timeline}
  BY DEF Init
<1>2. pending = {}
  BY DEF Init, CoreInit
<1> DEFINE E == [i \in DOMAIN s.timeline |->
                   Scheduled(s.timeline[i].at, i - 1,
                             [type |-> "fault", action |-> s.timeline[i].action])]
<1>3. queue = {E[i] : i \in DOMAIN s.timeline}
  BY <1>1
<1>4. IsFiniteSet(DOMAIN s.timeline)
  <2>1. s.timeline \in Seq([at : Nat, action : FaultAction])
    BY SimulatorAssumption DEF Setup
  <2>2. DOMAIN s.timeline = 1 .. Len(s.timeline) /\ Len(s.timeline) \in Nat
    BY <2>1
  <2>3. QED
    BY <2>2, FS_Interval
<1>5. E = [i \in DOMAIN s.timeline |-> E[i]]
  OBVIOUS
<1> HIDE DEF E
<1>6. IsFiniteSet({E[i] : i \in DOMAIN s.timeline})
  BY <1>4, <1>5, FiniteRange
<1>7. QED
  BY <1>2, <1>3, <1>6, FS_EmptySet DEF RunFinite

(* What a step adds to the heap and to the pending ops is finite.          *)
LEMMA MoreEvents ==
  ASSUME RunFinite, NEW S, IsFiniteSet(S), queue' = queue \cup S, pending' \in SUBSET pending
  PROVE  RunFinite'
<1>1. IsFiniteSet(queue \cup S)
  BY FS_Union DEF RunFinite
<1>2. IsFiniteSet(pending')
  BY FS_Subset DEF RunFinite
<1>3. QED
  BY <1>1, <1>2 DEF RunFinite

LEMMA FewerEvents ==
  ASSUME RunFinite, queue' \in SUBSET queue,
         \/ pending' \in SUBSET pending
         \/ \E o : pending' = pending \cup {o}
  PROVE  RunFinite'
<1>1. IsFiniteSet(queue')
  BY FS_Subset DEF RunFinite
<1>2. IsFiniteSet(pending')
  BY FS_Subset, FS_AddElement DEF RunFinite
<1>3. QED
  BY <1>1, <1>2 DEF RunFinite

(* A callback pushes at most two events, none of them due before the delay *)
(* of its link or timer has passed.                                        *)
Pushed(S, d) ==
  /\ IsFiniteSet(S) /\ queue' = queue \cup S
  /\ d \in Nat /\ (~Undelayed => d > 0)
  /\ \A e \in S : e.at \in Nat /\ now + d <= e.at

LEMMA EffectPushes ==
  ASSUME NetworkInv, Effect
  PROVE  /\ pending' \in SUBSET pending
         /\ \E S, d : Pushed(S, d)
<1>a. CoreTypeOK /\ ControlTypeOK
  BY DEF NetworkInv, TypeOK
<1>b. \A e1, e2 : IsFiniteSet({e1}) /\ IsFiniteSet({e1, e2})
  <2> TAKE e1, e2
  <2>1. IsFiniteSet({e1}) /\ {e1, e2} = {e1} \cup {e2}
    BY FS_Singleton
  <2>2. QED
    BY <2>1, FS_AddElement
<1>1. ASSUME NEW to \in Node, NEW msg \in Msg, Send(to, msg)
      PROVE  \E S, d : Pushed(S, d)
  <2> DEFINE copy == [type |-> "deliver", from |-> cb.node, to |-> to, msg |-> msg]
             at(d) == DeliveryTime(cb.node, to, d)
  <2>1. cb.node \in Node
    BY <1>1, <1>a, CallbackNode DEF Send, Running
  <2>2. PICK d \in model.delays :
          \/ queue' = queue \cup {Scheduled(at(d), seq, copy)}
          \/ queue' = queue \cup {Scheduled(at(d), seq, copy), Scheduled(at(d), seq + 1, copy)}
    BY <1>1 DEF Send, ScheduleDelivery, Enqueue
  <2>3. at(d) \in Nat /\ now + d <= at(d)
    BY <2>1, DueInReach
  <2>4. d \in Nat /\ (~Undelayed => d > 0)
    BY <1>a DEF CoreTypeOK, NetworkModel, Undelayed
  <2>5. \A n : Scheduled(at(d), n, copy).at = at(d)
    BY DEF Scheduled
  <2> HIDE DEF at, copy
  <2>6. CASE queue' = queue \cup {Scheduled(at(d), seq, copy)}
    <3>1. Pushed({Scheduled(at(d), seq, copy)}, d)
      BY <1>b, <2>3, <2>4, <2>5, <2>6 DEF Pushed
    <3>2. QED
      BY <3>1
  <2>7. CASE queue' = queue \cup {Scheduled(at(d), seq, copy), Scheduled(at(d), seq + 1, copy)}
    <3>1. Pushed({Scheduled(at(d), seq, copy), Scheduled(at(d), seq + 1, copy)}, d)
      BY <1>b, <2>3, <2>4, <2>5, <2>7 DEF Pushed
    <3>2. QED
      BY <3>1
  <2>8. QED
    BY <2>2, <2>6, <2>7
<1>2. ASSUME NEW t \in Timer, NEW after \in After, SetTimer(t, after)
      PROVE  \E S, d : Pushed(S, d)
  <2>1. PICK e : queue' = queue \cup {e} /\ e.at = now + after
    <3> DEFINE e == Scheduled(now + after, seq,
                              [type |-> "timer", node |-> cb.node, timer |-> t,
                               gen |-> timerGen[<<cb.node, t>>] + 1])
    <3>1. queue' = queue \cup {e} /\ e.at = now + after
      BY <1>2 DEF SetTimer, ArmTimer, Enqueue, Scheduled
    <3>2. QED
      BY <3>1
  <2>2. after \in Nat /\ now \in Nat /\ now + after \in Nat /\ (~Undelayed => after > 0)
    BY <1>a, SimulatorAssumption DEF CoreTypeOK, Undelayed
  <2>3. Pushed({e}, after)
    <3>1. now + after <= now + after
      BY <2>2
    <3>2. \A f \in {e} : f.at \in Nat /\ now + after <= f.at
      BY <2>1, <2>2, <3>1
    <3>3. QED
      BY <1>b, <2>1, <2>2, <3>2 DEF Pushed
  <2>4. QED
    BY <2>3
<1>3. ASSUME UNCHANGED queue
      PROVE  \E S, d : Pushed(S, d)
  <2>1. Pushed({}, 1)
    BY <1>3, FS_EmptySet DEF Pushed
  <2>2. QED
    BY <2>1
<1>4. pending' \in SUBSET pending
  BY <1>a, CloseOpType DEF Effect, Send, SendLost, SetTimer, Cancel, CompleteOp
<1>5. QED
  BY <1>1, <1>2, <1>3, <1>4 DEF Effect, SendLost, LoseMessage, Cancel, CompleteOp

(* The pump schedules one op per free process, a tick from now.            *)
LEMMA PumpPushes ==
  ASSUME Pump
  PROVE  \E S : /\ IsFiniteSet(S) /\ queue' = queue \cup S
                /\ \A e \in S : e.at = now + 1
<1> DEFINE E == [p \in Free |-> Scheduled(now + 1, seq + Rank(p),
                                  [type |-> "op", process |-> p, index |-> FrontOf(p)])]
           S == {E[p] : p \in Free}
<1>1. queue' = queue \cup S
  BY DEF Pump
<1>2. \A p \in Free : E[p].at = now + 1
  BY DEF Scheduled
<1>3. E = [p \in Free |-> E[p]]
  OBVIOUS
<1> HIDE DEF E
<1>4. IsFiniteSet(S)
  BY <1>3, FreeProcesses, FiniteRange
<1>5. QED
  BY <1>1, <1>2, <1>4

LEMMA FiniteNext == NetworkInv /\ RunFinite /\ [Next]_vars => RunFinite'
<1> SUFFICES ASSUME NetworkInv, RunFinite, [Next]_vars
             PROVE  RunFinite'
  OBVIOUS
<1>a. CoreTypeOK
  BY DEF NetworkInv, TypeOK
<1>1. CASE Effect
  BY <1>1, EffectPushes, MoreEvents DEF Pushed
<1>2. CASE Pump
  <2>1. pending' \in SUBSET pending
    BY <1>2 DEF Pump
  <2>2. QED
    BY <1>2, <2>1, PumpPushes, MoreEvents
<1>3. CASE Return
  <2>1. queue' = queue /\ pending' \in SUBSET pending
    BY <1>a, <1>3, CloseOpType
       DEF Return, ReturnBoot, ReturnHandler, ReturnDone, ReturnPending, Terminal, coreVars
  <2>2. QED
    BY <2>1, FewerEvents
<1>4. CASE Dispatch
  <2>1. PICK e \in queue :
          PopDeliver(e) \/ PopTimer(e) \/ Skip(e) \/ PopClientOp(e) \/ PopFault(e)
    BY <1>4 DEF Dispatch
  <2>2. /\ queue' = queue \ {e}
        /\ pending' = pending \/ \E o : pending' = pending \cup {o}
    BY <2>1 DEF PopDeliver, PopTimer, Skip, PopClientOp, PopFault, Pop, OpenOp, RejectOp
  <2>3. QED
    BY <2>2, FewerEvents
<1>5. CASE CloseVictim \/ VictimsClosed \/ Finish \/ ForceClose \/ Stop \/ UNCHANGED vars
  <2>1. queue' \in SUBSET queue /\ pending' \in SUBSET pending
    BY <1>a, <1>5, CloseOpType
       DEF CloseVictim, VictimsClosed, Finish, ForceClose, Stop, Terminal, vars, coreVars
  <2>2. QED
    BY <2>1, FewerEvents
<1>6. QED
  BY <1>1, <1>2, <1>3, <1>4, <1>5 DEF Next, Terminated

LEMMA RunInit == Init => RunInv
BY NetworkInit, FiniteInit DEF RunInv

LEMMA RunNext == RunInv /\ [Next]_vars => RunInv'
BY NetworkNext, FiniteNext DEF RunInv

-----------------------------------------------------------------------------
(* Each step lowers what is left, in the component it is there for.        *)

(* Events pushed for later do not count among those of this instant.       *)
LEMMA DueKept ==
  ASSUME NEW S, queue' = queue \cup S, \A e \in S : e.at # now, now' = now
  PROVE  Due' = Due
BY DEF Due

LEMMA EffectRunsDown == RunInv /\ ~Undelayed /\ Effect => Lower(Left', Left)
<1> SUFFICES ASSUME RunInv, ~Undelayed, Effect
             PROVE  Lower(Left', Left)
  OBVIOUS
<1>1. /\ now' = now /\ horizon' = horizon /\ Running /\ Spend
      /\ pending' \in SUBSET pending
  BY EffectPushes DEF RunInv, Effect, Send, SendLost, SetTimer, Cancel, CompleteOp
<1>2. /\ pc = "callback" /\ pc' = "callback" /\ cb'.kind = cb.kind /\ cb'.node = cb.node
      /\ cb'.left = cb.left - 1 /\ cb.left \in Nat
  <2>1. cb.left \in Nat /\ ControlTypeOK
    BY <1>1, LeftTypes, CallbackNode, SimulatorAssumption DEF Running
  <2>2. cb'.left = cb.left - 1
    BY <1>1, <2>1 DEF Spend, ControlTypeOK, Callback, Running
  <2>3. QED
    BY <1>1, <2>1, <2>2, SpendType
<1>3. TimeLeft' = TimeLeft /\ WayToPop' = WayToPop
  BY <1>1, <1>2 DEF TimeLeft, Stopped, WayToPop
<1>4. Due' = Due
  <2>1. PICK S, d : Pushed(S, d)
    BY EffectPushes DEF RunInv
  <2>2. now \in Nat /\ \A e \in S : e.at # now
    BY <2>1, LeftTypes DEF Pushed, CoreTypeOK
  <2>3. QED
    BY <1>1, <2>1, <2>2, DueKept DEF Pushed
<1>5. Cardinality(pending') \in Nat /\ Cardinality(pending') <= Cardinality(pending)
  BY <1>1, FS_Subset, FS_CardinalityType DEF RunInv, RunFinite
<1>6. WorkLeft' < WorkLeft
  BY <1>2, <1>5, LeftTypes DEF WorkLeft
<1>7. QED
  BY <1>3, <1>4, <1>6, LowerLeft

LEMMA ReturnRunsDown == RunInv /\ Return => Lower(Left', Left)
<1> SUFFICES ASSUME RunInv, Return
             PROVE  Lower(Left', Left)
  OBVIOUS
<1>1. /\ pc = "callback" /\ pc' \in {"callback", "pump"}
      /\ now' = now /\ horizon' = horizon /\ queue' = queue
  BY DEF Return, ReturnBoot, ReturnHandler, ReturnDone, ReturnPending, coreVars
<1>2. TimeLeft' = TimeLeft /\ Due' = Due
  BY <1>1 DEF TimeLeft, Stopped, Due
<1>3. WayToPop' < WayToPop
  <2>1. cb.node \in Nat /\ NodeCount \in Nat /\ cb.node < NodeCount
    BY <1>1, LeftTypes, CallbackNode, NodeCountAssumption DEF Node
  <2>2. CASE ReturnBoot /\ cb.node + 1 < NodeCount
    <3>1. /\ pc' = "callback" /\ cb'.kind = "boot" /\ cb'.node = cb.node + 1
          /\ cb.kind = "boot"
      BY <1>1, <2>2 DEF ReturnBoot, Boot
    <3>2. QED
      BY <1>1, <2>1, <3>1 DEF WayToPop
  <2>3. CASE pc' = "pump"
    BY <1>1, <2>1, <2>3 DEF WayToPop
  <2>4. QED
    BY <1>1, <2>2, <2>3
       DEF Return, ReturnBoot, ReturnHandler, ReturnDone, ReturnPending
<1>4. QED
  BY <1>2, <1>3, LowerLeft

LEMMA PumpRunsDown == RunInv /\ Pump => Lower(Left', Left)
<1> SUFFICES ASSUME RunInv, Pump
             PROVE  Lower(Left', Left)
  OBVIOUS
<1>1. pc = "pump" /\ pc' = "pop" /\ now' = now /\ horizon' = horizon /\ now \in Nat
  BY LeftTypes DEF Pump, CoreTypeOK
<1>2. TimeLeft' = TimeLeft /\ WayToPop' < WayToPop
  BY <1>1 DEF TimeLeft, Stopped, WayToPop
<1>3. PICK S : queue' = queue \cup S /\ \A e \in S : e.at = now + 1
  BY PumpPushes
<1>4. \A e \in S : e.at # now
  BY <1>1, <1>3
<1>5. Due' = Due
  BY <1>1, <1>3, <1>4, DueKept
<1>6. QED
  BY <1>2, <1>5, LowerLeft

LEMMA DispatchRunsDown == RunInv /\ Dispatch => Lower(Left', Left)
<1> SUFFICES ASSUME RunInv, Dispatch
             PROVE  Lower(Left', Left)
  OBVIOUS
<1>1. PICK e \in queue :
        PopDeliver(e) \/ PopTimer(e) \/ Skip(e) \/ PopClientOp(e) \/ PopFault(e)
  BY DEF Dispatch
<1>2. /\ Pop(e) /\ pc = "pop"
      /\ pc' \in {"callback", "pop", "pump", "closing"}
  BY <1>1 DEF PopDeliver, PopTimer, Skip, PopClientOp, PopFault, Pop, control
<1>3. /\ now' = e.at /\ horizon' = horizon /\ queue' = queue \ {e}
      /\ ~Stopped /\ ~Stopped'
  BY <1>2 DEF Pop, Stopped
<1>4. /\ now \in Nat /\ horizon \in Nat /\ e.at \in Nat
      /\ now <= e.at /\ e.at < horizon
  BY <1>2, LeftTypes, EventFields DEF Pop, CoreTypeOK, NetworkInv, TimeMovesForward
<1>5. CASE now < e.at
  <2>1. TimeLeft' < TimeLeft
    BY <1>3, <1>4, <1>5 DEF TimeLeft
  <2>2. QED
    BY <2>1, LowerLeft
<1>6. CASE now = e.at
  <2>1. TimeLeft' = TimeLeft
    BY <1>3, <1>6 DEF TimeLeft
  <2>2. Due' = Due \ {e} /\ e \in Due
    BY <1>3, <1>6 DEF Due
  <2>3. Cardinality(Due \ {e}) = Cardinality(Due) - 1
    BY <2>2, LeftTypes, FS_RemoveElement
  <2>4. Cardinality(Due)' < Cardinality(Due)
    BY <2>2, <2>3, LeftTypes
  <2>5. QED
    BY <2>1, <2>4, LowerLeft
<1>7. QED
  BY <1>4, <1>5, <1>6

(* Closing an op that is pending takes it away.                            *)
LEMMA ClosedIsFewer ==
  ASSUME RunFinite, NEW o \in pending, NEW kind, CloseOp(o.token, kind)
  PROVE  Cardinality(pending)' < Cardinality(pending)
<1>1. PICK q \in pending : pending' = pending \ {q}
  BY DEF CloseOp
<1>2. /\ Cardinality(pending \ {q}) = Cardinality(pending) - 1
      /\ Cardinality(pending) \in Nat
  BY FS_RemoveElement, FS_CardinalityType DEF RunFinite
<1>3. QED
  BY <1>1, <1>2

LEMMA ClosingRunsDown ==
  RunInv /\ (CloseVictim \/ ForceClose \/ VictimsClosed \/ Finish \/ Stop) => Lower(Left', Left)
<1> SUFFICES ASSUME RunInv,
                    CloseVictim \/ ForceClose \/ VictimsClosed \/ Finish \/ Stop
             PROVE  Lower(Left', Left)
  OBVIOUS
<1>1. CASE CloseVictim \/ ForceClose
  <2>1. /\ now' = now /\ horizon' = horizon /\ queue' = queue /\ pc' = pc /\ cb' = cb
        /\ pc # "callback"
    BY <1>1 DEF CloseVictim, ForceClose, control
  <2>2. TimeLeft' = TimeLeft /\ Due' = Due /\ WayToPop' = WayToPop
    BY <2>1 DEF TimeLeft, Stopped, Due, WayToPop
  <2>3. \E o \in pending : CloseOp(o.token, "info")
    BY <1>1 DEF CloseVictim, ForceClose, Victims
  <2>4. Cardinality(pending)' < Cardinality(pending)
    BY <2>3, ClosedIsFewer DEF RunInv
  <2>5. Cardinality(pending)' \in Nat
    BY <2>3, FS_RemoveElement, FS_CardinalityType DEF RunInv, RunFinite, CloseOp
  <2>6. WorkLeft' < WorkLeft
    BY <2>1, <2>4, <2>5, LeftTypes DEF WorkLeft
  <2>7. QED
    BY <2>2, <2>6, LowerLeft
<1>2. CASE VictimsClosed \/ Stop
  <2>1. /\ now' = now /\ horizon' = horizon /\ queue' = queue
        /\ \/ pc = "closing" /\ pc' = "pump"
           \/ pc = "drain" /\ pc' = "done"
    BY <1>2 DEF VictimsClosed, Stop, coreVars
  <2>2. TimeLeft' = TimeLeft /\ Due' = Due
    BY <2>1 DEF TimeLeft, Stopped, Due
  <2>3. WayToPop' < WayToPop
    BY <2>1 DEF WayToPop
  <2>4. QED
    BY <2>2, <2>3, LowerLeft
<1>3. CASE Finish
  <2>1. ~Stopped /\ Stopped'
    BY <1>3 DEF Finish, Stopped
  <2>2. TimeLeft' < TimeLeft
    BY <2>1, LeftTypes DEF TimeLeft
  <2>3. QED
    BY <2>2, LowerLeft
<1>4. QED
  BY <1>1, <1>2, <1>3

(* Every step brings the end of the run nearer (the loop of                *)
(* run_deterministic, the horizon of pop), for any nodes, faults and       *)
(* clients, if no timer is set and no message is sent without a delay.     *)
THEOREM EndNears == Spec => EndComesNearer
<1>1. RunInv /\ [Next]_vars => [~Undelayed => Lower(Left', Left)]_vars
  <2> SUFFICES ASSUME RunInv, Next, ~Undelayed, vars' # vars
               PROVE  Lower(Left', Left)
    OBVIOUS
  <2>1. ~Terminated
    BY DEF Terminated
  <2>2. QED
    BY <2>1, EffectRunsDown, ReturnRunsDown, PumpRunsDown, DispatchRunsDown, ClosingRunsDown
       DEF Next
<1>2. QED
  BY <1>1, RunInit, RunNext, PTL DEF Spec, EndComesNearer

(* What is left is four numbers, in every state of a run.                  *)
THEOREM LeftIsCounted == Spec => [](Left \in [1 .. 4 -> Nat])
<1>1. RunInv => Left \in [1 .. 4 -> Nat]
  <2> SUFFICES ASSUME RunInv
               PROVE  Left \in [1 .. 4 -> Nat]
    OBVIOUS
  <2>1. PICK a \in Nat, b \in Nat, c \in Nat, d \in Nat : Left = <<a, b, c, d>>
    BY LeftTypes DEF Left
  <2>2. QED
    BY <2>1
<1>2. QED
  BY <1>1, RunInit, RunNext, PTL DEF Spec

Less == {p \in Nat \X Nat : p[1] < p[2]}

LEMMA LessWellFounded == IsWellFoundedOn(Less, Nat)
<1>1. ASSUME NEW T \in SUBSET Nat, T # {}
      PROVE  \E x \in T : \A y \in T : ~ (<<y, x>> \in Less)
  <2>1. PICK x \in T : \A y \in T : x <= y
    BY <1>1, SmallestOf
  <2>2. \A y \in T : ~(y < x)
    BY <2>1
  <2>3. QED
    BY <2>2 DEF Less
<1>2. QED
  BY <1>1, MinWF

(* Four numbers cannot be lowered for ever: with EndNears and              *)
(* LeftIsCounted, the loop of run_deterministic takes finitely many steps, *)
(* however the nodes re-arm their timers.                                  *)
THEOREM LowerEnds ==
  ~ \E f \in [Nat -> [1 .. 4 -> Nat]] : \A n \in Nat : Lower(f[n + 1], f[n])
<1> SUFFICES ASSUME NEW f \in [Nat -> [1 .. 4 -> Nat]],
                    \A n \in Nat : Lower(f[n + 1], f[n])
             PROVE  FALSE
  OBVIOUS
<1>1. ASSUME NEW g \in [1 .. 4 -> Nat], NEW h \in [1 .. 4 -> Nat], Lower(g, h)
      PROVE  <<g, h>> \in LexProductOrdering(Less, Nat, 4)
  <2>1. PICK j \in 1 .. 4 : g[j] < h[j] /\ \A i \in 1 .. (j - 1) : g[i] = h[i]
    BY <1>1 DEF Lower
  <2>2. g[j] \in Nat /\ h[j] \in Nat
    OBVIOUS
  <2>3. <<g[j], h[j]>> \in Less
    BY <2>1, <2>2 DEF Less
  <2>4. QED
    BY <2>1, <2>3 DEF LexProductOrdering
<1>2. \A n \in Nat : <<f[n + 1], f[n]>> \in LexProductOrdering(Less, Nat, 4)
  <2> TAKE n \in Nat
  <2>1. n + 1 \in Nat
    OBVIOUS
  <2>2. f[n + 1] \in [1 .. 4 -> Nat] /\ f[n] \in [1 .. 4 -> Nat]
    BY <2>1
  <2>3. QED
    BY <1>1, <2>2
<1>3. IsWellFoundedOn(LexProductOrdering(Less, Nat, 4), [1 .. 4 -> Nat])
  BY LessWellFounded, WFLexProductOrdering
<1>4. QED
  BY <1>2, <1>3 DEF IsWellFoundedOn
=============================================================================
