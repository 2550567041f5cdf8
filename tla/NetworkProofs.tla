---------------------------- MODULE NetworkProofs ----------------------------
(***************************************************************************)
(* Module Simulator implements module LossyNetwork, whatever its nodes,    *)
(* setups and bounds are: every step of it sends, delivers or loses a      *)
(* message, lets time pass, or leaves the network alone.                   *)
(***************************************************************************)
EXTENDS SimulatorProofs

(* Besides what SimulatorProofs shows, the refinement rests on two bounds: *)
(* the clock never passes the horizon, and a floor never lies further      *)
(* ahead of the clock than a delay of the model, so that a message which   *)
(* waits for the one before it is still delivered in time.                 *)
WithinHorizon == now <= horizon

FloorsInReach == \A l \in Node \X Node : \E d \in model.delays : lastLink[l] <= now + d

NetworkInv == TypeOK /\ TimeMovesForward /\ FifoInv /\ WithinHorizon /\ FloorsInReach

LEMMA NetworkInit == Init => NetworkInv
<1> SUFFICES ASSUME Init
             PROVE  NetworkInv
  OBVIOUS
<1>1. TypeOK /\ TimeMovesForward /\ FifoInv
  BY TypeInit, TimeInit, FifoInit
<1>2. now = 0 /\ lastLink = [l \in Node \X Node |-> 0]
  BY DEF Init, CoreInit
<1>3. horizon \in Nat /\ model.delays \subseteq Nat /\ model.delays # {}
  <2>1. horizon \in Nat /\ model \in NetworkModel
    BY <1>1 DEF TypeOK, CoreTypeOK
  <2>2. model.delays \in (SUBSET Nat) \ {{}}
    BY <2>1 DEF NetworkModel
  <2>3. QED
    BY <2>1, <2>2
<1>4. PICK d \in model.delays : d \in Nat
  BY <1>3
<1>5. QED
  BY <1>1, <1>2, <1>3, <1>4 DEF NetworkInv, WithinHorizon, FloorsInReach

(* Time only brings the clock nearer to the floors.                        *)
LEMMA FloorsKept ==
  ASSUME NetworkInv, UNCHANGED <<model, lastLink>>, now <= now', now' \in Nat
  PROVE  FloorsInReach'
<1> SUFFICES ASSUME NEW l \in Node \X Node
             PROVE  \E d \in model.delays : lastLink[l] <= now' + d
  BY DEF FloorsInReach
<1>1. PICK d \in model.delays : lastLink[l] <= now + d
  BY DEF NetworkInv, FloorsInReach
<1>2. d \in Nat /\ lastLink[l] \in Nat /\ now \in Nat
  BY DEF NetworkInv, TypeOK, CoreTypeOK, NetworkModel
<1>3. QED
  BY <1>1, <1>2

(* A delivery is due within the delays of the model.                       *)
LEMMA DueInReach ==
  ASSUME NetworkInv, NEW from \in Node, NEW to \in Node, NEW delay \in model.delays
  PROVE  LET at == DeliveryTime(from, to, delay)
         IN at \in Nat /\ now + delay <= at /\ \E d \in model.delays : at <= now + d
<1>1. PICK d \in model.delays : lastLink[<<from, to>>] <= now + d
  BY DEF NetworkInv, FloorsInReach
<1>2. /\ d \in Nat /\ delay \in Nat /\ now \in Nat
      /\ lastLink[<<from, to>>] \in Nat
  BY DEF NetworkInv, TypeOK, CoreTypeOK, NetworkModel
<1>3. QED
  BY <1>1, <1>2 DEF DeliveryTime

LEMMA FloorsSend ==
  ASSUME NetworkInv, NEW to \in Node, NEW msg \in Msg, Send(to, msg)
  PROVE  FloorsInReach'
<1>1. cb.node \in Node /\ ScheduleDelivery(cb.node, to, msg)
  BY CallbackNode DEF NetworkInv, TypeOK, Send, Running
<1>2. PICK delay \in model.delays :
        lastLink' = IF model.ordered
                    THEN [lastLink EXCEPT ![<<cb.node, to>>] = DeliveryTime(cb.node, to, delay)]
                    ELSE lastLink
  BY <1>1 DEF ScheduleDelivery
<1>3. \E d \in model.delays : DeliveryTime(cb.node, to, delay) <= now + d
  BY <1>1, DueInReach
<1>4. now' = now /\ model' = model
  BY DEF Send
<1>5. lastLink \in [Node \X Node -> Nat]
  BY DEF NetworkInv, TypeOK, CoreTypeOK
<1>6. ASSUME NEW l \in Node \X Node
      PROVE  \E d \in model.delays : lastLink'[l] <= now + d
  <2>1. lastLink'[l] = lastLink[l] \/ lastLink'[l] = DeliveryTime(cb.node, to, delay)
    BY <1>2, <1>5
  <2>2. QED
    BY <1>3, <2>1 DEF NetworkInv, FloorsInReach
<1>7. QED
  BY <1>4, <1>6 DEF FloorsInReach

(* What a step does to the clock and the floors.                           *)
LEMMA ClockSteps ==
  ASSUME NetworkInv, [Next]_vars
  PROVE  /\ model' = model /\ horizon' = horizon
         /\ now <= now' /\ now' <= horizon /\ now' \in Nat
         /\ UNCHANGED lastLink \/ \E to \in Node, msg \in Msg : Send(to, msg)
<1> USE DEF NetworkInv, TypeOK, CoreTypeOK
<1>a. now \in Nat /\ horizon \in Nat /\ now <= horizon
  BY DEF WithinHorizon
<1>1. CASE Effect
  <2>1. model' = model /\ horizon' = horizon /\ now' = now
    BY <1>1 DEF Effect, Send, SendLost, SetTimer, Cancel, CompleteOp
  <2>2. UNCHANGED lastLink \/ \E to \in Node, msg \in Msg : Send(to, msg)
    BY <1>1 DEF Effect, SendLost, LoseMessage, SetTimer, Cancel, CompleteOp
  <2>3. QED
    BY <1>a, <2>1, <2>2
<1>2. CASE Return \/ Pump
  BY <1>a, <1>2 DEF Return, ReturnBoot, ReturnHandler, ReturnDone, ReturnPending, Pump, coreVars
<1>3. ASSUME NEW e \in queue, Pop(e)
      PROVE  /\ model' = model /\ horizon' = horizon /\ UNCHANGED lastLink
             /\ now <= now' /\ now' <= horizon /\ now' \in Nat
  <2>1. now <= e.at /\ e.at < horizon /\ e.at \in Nat
    BY <1>3, EventFields DEF Pop, TimeMovesForward
  <2>2. QED
    BY <1>a, <1>3, <2>1 DEF Pop
<1>4. CASE Dispatch
  BY <1>3, <1>4 DEF Dispatch, PopDeliver, PopTimer, Skip, PopClientOp, PopFault
<1>5. CASE CloseVictim \/ VictimsClosed \/ ForceClose \/ Stop
  BY <1>a, <1>5 DEF CloseVictim, VictimsClosed, ForceClose, Stop, coreVars
<1>6. CASE Finish
  BY <1>a, <1>6 DEF Finish
<1>7. CASE UNCHANGED vars
  BY <1>a, <1>7 DEF vars, coreVars
<1>8. QED
  BY <1>1, <1>2, <1>4, <1>5, <1>6, <1>7 DEF Next, Terminated

LEMMA NetworkNext == NetworkInv /\ [Next]_vars => NetworkInv'
<1> SUFFICES ASSUME NetworkInv, [Next]_vars
             PROVE  NetworkInv'
  OBVIOUS
<1>1. TypeOK' /\ TimeMovesForward' /\ FifoInv'
  BY TypeNext, TimeNext, FifoNext DEF NetworkInv
<1>2. WithinHorizon'
  BY ClockSteps DEF WithinHorizon
<1>3. FloorsInReach'
  BY ClockSteps, FloorsKept, FloorsSend
<1>4. QED
  BY <1>1, <1>2, <1>3 DEF NetworkInv

-----------------------------------------------------------------------------
(* The refinement mapping, by name.                                        *)
OnWire == IF Stopped THEN {} ELSE Copies
InHand == IF cb.kind = "msg" THEN {cb.node} ELSE {}

(* What the deliveries of the queue are on the wire.                       *)
CopyOf(e) ==
  [id |-> e.seq, from |-> e.kind.from, to |-> e.kind.to,
   letter |-> e.kind.msg, due |-> e.at]

LEMMA CopiesSame ==
  ASSUME \A e : e.kind.type = "deliver" => (e \in queue' <=> e \in queue)
  PROVE  Copies' = Copies
BY DEF Copies

LEMMA CopiesMore ==
  ASSUME NEW S, queue' = queue \cup S, \A e \in S : e.kind.type = "deliver"
  PROVE  Copies' = Copies \cup {CopyOf(e) : e \in S}
BY DEF Copies, CopyOf

LEMMA CopiesLess ==
  ASSUME CoreTypeOK, TimeMovesForward, NEW e \in queue, e.kind.type = "deliver",
         queue' = queue \ {e}
  PROVE  CopyOf(e) \in Copies /\ Copies' = Copies \ {CopyOf(e)}
<1>1. Copies = {CopyOf(f) : f \in {g \in queue : g.kind.type = "deliver"}}
  BY DEF Copies, CopyOf
<1>2. Copies' = {CopyOf(f) : f \in {g \in queue \ {e} : g.kind.type = "deliver"}}
  BY DEF Copies, CopyOf
<1>3. \A f \in queue : CopyOf(f) = CopyOf(e) => f = e
  <2>1. \A f \in queue : CopyOf(f).id = f.seq
    BY DEF CopyOf
  <2>2. QED
    BY <2>1 DEF TimeMovesForward
<1>4. QED
  BY <1>1, <1>2, <1>3

(* Steps that leave the network alone.                                     *)
LEMMA WireStutters ==
  ASSUME UNCHANGED <<model, now, partitions, crashed>>,
         OnWire' = OnWire, InHand' = InHand, Stopped' = Stopped
  PROVE  UNCHANGED Wire!wireVars
BY DEF Wire!wireVars, OnWire, InHand

(* A send puts its copies on the wire: they are new there, and due within  *)
(* the delays of the model.                                                *)
LEMMA SendOnWire ==
  ASSUME NetworkInv, NEW to \in Node, NEW msg \in Msg, Send(to, msg)
  PROVE  \E c \in OnWire' \ OnWire : Wire!Send(c.from, c.to, c.letter, c.due)
<1> DEFINE from == cb.node
           copy == [type |-> "deliver", from |-> from, to |-> to, msg |-> msg]
<1>1. from \in Node /\ pc = "callback" /\ ScheduleDelivery(from, to, msg)
  BY CallbackNode DEF NetworkInv, TypeOK, Send, Running
<1>2. /\ UNCHANGED <<model, now, partitions, crashed>>
      /\ pc' = "callback" /\ cb'.kind = cb.kind /\ cb'.node = cb.node
  BY SpendType DEF NetworkInv, TypeOK, Send
<1>3. PICK delay \in model.delays :
        LET at == DeliveryTime(from, to, delay)
        IN \/ FALSE \in model.duplicate /\ Enqueue(at, copy)
           \/ /\ TRUE \in model.duplicate
              /\ queue' = queue \cup {Scheduled(at, seq, copy), Scheduled(at, seq + 1, copy)}
  BY <1>1 DEF ScheduleDelivery
<1> DEFINE at == DeliveryTime(from, to, delay)
           Copy(n) == [id |-> n, from |-> from, to |-> to, letter |-> msg, due |-> at]
           sent == OnWire' \ OnWire
<1>4. at \in Nat /\ now + delay <= at /\ \E d \in model.delays : at <= now + d
  BY <1>1, DueInReach
<1>5. \A n : /\ Scheduled(at, n, copy).kind.type = "deliver"
             /\ CopyOf(Scheduled(at, n, copy)) = Copy(n)
             /\ Copy(n).id = n
             /\ Copy(n) = [id |-> n, from |-> from, to |-> to, letter |-> msg, due |-> at]
  BY DEF Scheduled, CopyOf
<1>a. \/ FALSE \in model.duplicate /\ Enqueue(at, copy)
      \/ /\ TRUE \in model.duplicate
         /\ queue' = queue \cup {Scheduled(at, seq, copy), Scheduled(at, seq + 1, copy)}
  BY <1>3
<1> HIDE DEF Copy, at, copy
<1>6. OnWire = Copies /\ OnWire' = Copies' /\ ~Stopped /\ ~Stopped'
  BY <1>1, <1>2 DEF OnWire, Stopped
<1>7. /\ Copies = {CopyOf(e) : e \in {f \in queue : f.kind.type = "deliver"}}
      /\ Copies' = {CopyOf(e) : e \in {f \in queue' : f.kind.type = "deliver"}}
  BY DEF Copies, CopyOf
<1>8. seq \in Nat /\ \A e \in queue : e.seq \in Nat /\ e.seq < seq /\ CopyOf(e).id = e.seq
  BY EventFields DEF NetworkInv, TypeOK, CoreTypeOK, TimeMovesForward, CopyOf
<1>9. \A c \in Copies : c.id \in Nat /\ c.id < seq
  BY <1>7, <1>8
<1>10. Copy(seq) \notin Copies /\ Copy(seq + 1) \notin Copies /\ Copy(seq) # Copy(seq + 1)
  <2>1. Copy(seq).id = seq /\ Copy(seq + 1).id = seq + 1
    BY <1>5
  <2>2. ~(seq < seq) /\ ~(seq + 1 < seq) /\ seq # seq + 1
    BY <1>8
  <2>3. QED
    BY <1>9, <2>1, <2>2
<1>11. \/ FALSE \in model.duplicate /\ Copies' = Copies \cup {Copy(seq)}
       \/ TRUE \in model.duplicate /\ Copies' = Copies \cup {Copy(seq), Copy(seq + 1)}
  <2> DEFINE Parcel(n) == Scheduled(at, n, copy)
  <2>1. \A n : Parcel(n).kind.type = "deliver" /\ CopyOf(Parcel(n)) = Copy(n)
    BY <1>5
  <2>2. CASE FALSE \in model.duplicate /\ queue' = queue \cup {Parcel(seq)}
    <3> HIDE DEF Parcel
    <3>1. Copies' = Copies \cup {CopyOf(e) : e \in {Parcel(seq)}}
      BY <2>1, <2>2, CopiesMore
    <3>2. {CopyOf(e) : e \in {Parcel(seq)}} = {CopyOf(Parcel(seq))}
      OBVIOUS
    <3>3. QED
      BY <2>1, <2>2, <3>1, <3>2
  <2>3. CASE TRUE \in model.duplicate /\ queue' = queue \cup {Parcel(seq), Parcel(seq + 1)}
    <3> HIDE DEF Parcel
    <3>1. Copies' = Copies \cup {CopyOf(e) : e \in {Parcel(seq), Parcel(seq + 1)}}
      BY <2>1, <2>3, CopiesMore
    <3>2. {CopyOf(e) : e \in {Parcel(seq), Parcel(seq + 1)}} = {CopyOf(Parcel(seq)), CopyOf(Parcel(seq + 1))}
      OBVIOUS
    <3>3. CopyOf(Parcel(seq)) = Copy(seq) /\ CopyOf(Parcel(seq + 1)) = Copy(seq + 1)
      BY <2>1
    <3>4. QED
      BY <2>3, <3>1, <3>2, <3>3
  <2>4. QED
    BY <1>a, <2>2, <2>3 DEF Enqueue
<1>12. \/ FALSE \in model.duplicate /\ sent = {Copy(seq)}
       \/ TRUE \in model.duplicate /\ sent = {Copy(seq), Copy(seq + 1)}
  BY <1>6, <1>10, <1>11
<1>13. \/ Cardinality(sent) = 1 /\ FALSE \in model.duplicate
       \/ Cardinality(sent) = 2 /\ TRUE \in model.duplicate
  <2>1. Cardinality({Copy(seq)}) = 1 /\ IsFiniteSet({Copy(seq)})
    BY FS_Singleton
  <2>2. Cardinality({Copy(seq), Copy(seq + 1)}) = 2
    <3>1. {Copy(seq), Copy(seq + 1)} = {Copy(seq)} \cup {Copy(seq + 1)}
      OBVIOUS
    <3>2. Copy(seq + 1) \notin {Copy(seq)}
      BY <1>10
    <3>3. Cardinality({Copy(seq)} \cup {Copy(seq + 1)}) = Cardinality({Copy(seq)}) + 1
      BY <2>1, <3>2, FS_AddElement
    <3>4. QED
      BY <2>1, <3>1, <3>3
  <2>3. QED
    BY <1>12, <2>1, <2>2
<1>14. /\ Copy(seq) \in sent
       /\ \A c \in sent : /\ c = [id |-> c.id, from |-> from, to |-> to, letter |-> msg, due |-> at]
                          /\ c.id \in Nat /\ seq <= c.id
  <2>1. Copy(seq) \in sent /\ \A c \in sent : c = Copy(seq) \/ c = Copy(seq + 1)
    BY <1>12
  <2>2. \A n : Copy(n) = [id |-> Copy(n).id, from |-> from, to |-> to, letter |-> msg, due |-> at]
    BY <1>5
  <2>3. Copy(seq).id = seq /\ Copy(seq + 1).id = seq + 1
    BY <1>5
  <2>4. QED
    BY <1>8, <2>1, <2>2, <2>3
<1>15. \A c \in sent, older \in OnWire : older.id < c.id
  BY <1>6, <1>8, <1>9, <1>14
<1>16. Connected(from, to) /\ FALSE \in model.loss
  BY <1>1 DEF ScheduleDelivery
<1>17. Wire!Reach(from, to)
  BY <1>16 DEF Wire!Reach, Connected
<1>18. OnWire \subseteq OnWire' /\ InHand' = InHand
  BY <1>2, <1>6, <1>11 DEF InHand
<1>19. Wire!Send(from, to, msg, at)
  <2>1. /\ \E d \in model.delays : now + d <= at
        /\ \E d \in model.delays : at <= now + d
    BY <1>4
  <2>2. /\ UNCHANGED <<model, now, partitions, crashed>>
        /\ InHand' = InHand /\ ~Stopped /\ Stopped' = Stopped
    BY <1>2, <1>6, <1>18 DEF Stopped
  <2>3. \A c \in sent :
          /\ c = [id |-> c.id, from |-> from, to |-> to, letter |-> msg, due |-> at]
          /\ \A older \in OnWire : older.id < c.id
    BY <1>14, <1>15
  <2>4. Wire!Cardinality(sent) = Cardinality(sent)
    BY DEF Wire!Cardinality, Cardinality
  <2>5. QED
    BY <1>6, <1>13, <1>16, <1>17, <1>18, <2>1, <2>2, <2>3, <2>4 DEF Wire!Send, OnWire, InHand
<1>20. Copy(seq).from = from /\ Copy(seq).to = to /\ Copy(seq).letter = msg /\ Copy(seq).due = at
  BY <1>5
<1>21. QED
  BY <1>14, <1>19, <1>20

LEMMA WireEffect == NetworkInv /\ Effect => [Wire!Next]_Wire!wireVars
<1> SUFFICES ASSUME NetworkInv, Effect
             PROVE  [Wire!Next]_Wire!wireVars
  OBVIOUS
<1>1. ASSUME NEW to \in Node, NEW msg \in Msg, Send(to, msg)
      PROVE  Wire!Next
  BY <1>1, SendOnWire DEF Wire!Next, OnWire
<1>2. ASSUME Spend, Running, UNCHANGED <<model, now, partitions, crashed>>, Copies' = Copies
      PROVE  UNCHANGED Wire!wireVars
  <2>1. /\ pc = "callback" /\ pc' = "callback"
        /\ cb'.kind = cb.kind /\ cb'.node = cb.node
    BY <1>2, SpendType DEF NetworkInv, TypeOK
  <2>2. QED
    BY <1>2, <2>1, WireStutters DEF OnWire, InHand, Stopped
<1>3. ASSUME NEW to \in Node, SendLost(to)
      PROVE  UNCHANGED Wire!wireVars
  BY <1>2, <1>3, CopiesSame DEF SendLost, LoseMessage
<1>4. ASSUME NEW t \in Timer, NEW after \in After, SetTimer(t, after)
      PROVE  UNCHANGED Wire!wireVars
  <2>1. \A e : e.kind.type = "deliver" => (e \in queue' <=> e \in queue)
    BY <1>4 DEF SetTimer, ArmTimer, Enqueue, Scheduled
  <2>2. QED
    BY <1>2, <1>4, <2>1, CopiesSame DEF SetTimer
<1>5. ASSUME NEW t \in Timer, Cancel(t)
      PROVE  UNCHANGED Wire!wireVars
  BY <1>2, <1>5, CopiesSame DEF Cancel
<1>6. ASSUME NEW token, NEW kind, CompleteOp(token, kind)
      PROVE  UNCHANGED Wire!wireVars
  BY <1>2, <1>6, CopiesSame DEF CompleteOp
<1>7. QED
  BY <1>1, <1>3, <1>4, <1>5, <1>6 DEF Effect

(* A message has been handled when its callback returns.                   *)
LEMMA WireReturn == NetworkInv /\ Return => [Wire!Next]_Wire!wireVars
<1> SUFFICES ASSUME NetworkInv, Return
             PROVE  [Wire!Next]_Wire!wireVars
  OBVIOUS
<1>1. /\ UNCHANGED <<model, now, partitions, crashed, queue>>
      /\ pc = "callback" /\ pc' \in {"callback", "pump"}
  BY DEF Return, ReturnBoot, ReturnHandler, ReturnDone, ReturnPending, coreVars
<1>2. OnWire' = OnWire /\ Stopped' = Stopped /\ ~Stopped
  BY <1>1 DEF OnWire, Stopped, Copies
<1>3. InHand' = {}
  BY DEF Return, ReturnBoot, ReturnHandler, ReturnDone, ReturnPending, Boot, Idle, InHand
<1>4. CASE InHand = {}
  BY <1>1, <1>2, <1>3, <1>4, WireStutters
<1>5. CASE InHand # {}
  <2>1. Wire!Handled
    BY <1>1, <1>2, <1>3, <1>5 DEF Wire!Handled, OnWire, InHand
  <2>2. QED
    BY <2>1 DEF Wire!Next
<1>6. QED
  BY <1>4, <1>5

(* The steps of the driver between events, and those that end a run.       *)
LEMMA WireDriver ==
  NetworkInv /\ (Pump \/ CloseVictim \/ VictimsClosed \/ ForceClose \/ Stop)
    => UNCHANGED Wire!wireVars
<1> SUFFICES ASSUME NetworkInv, Pump \/ CloseVictim \/ VictimsClosed \/ ForceClose \/ Stop
             PROVE  UNCHANGED Wire!wireVars
  OBVIOUS
<1>1. UNCHANGED <<model, now, partitions, crashed>>
  BY DEF Pump, CloseVictim, VictimsClosed, ForceClose, Stop, coreVars
<1>2. Stopped' = Stopped
  BY DEF Pump, CloseVictim, VictimsClosed, ForceClose, Stop, control, Stopped
<1>3. \A e : e.kind.type = "deliver" => (e \in queue' <=> e \in queue)
  BY DEF Pump, Scheduled, CloseVictim, VictimsClosed, ForceClose, Stop, coreVars
<1>4. cb.kind # "msg" /\ cb'.kind # "msg"
  BY DEF NetworkInv, TypeOK, ControlTypeOK, Pump, CloseVictim, VictimsClosed, ForceClose, Stop,
         control, Idle
<1>5. QED
  BY <1>1, <1>2, <1>3, <1>4, CopiesSame, WireStutters DEF OnWire, InHand

LEMMA WireFinish == NetworkInv /\ Finish => Wire!Next
<1> SUFFICES ASSUME NetworkInv, Finish
             PROVE  Wire!Halt
  BY DEF Wire!Next
<1>1. now <= now'
  BY ClockSteps DEF Next
<1>2. cb.kind = "none" /\ UNCHANGED <<model, partitions, crashed, cb>>
  BY DEF NetworkInv, TypeOK, ControlTypeOK, Finish
<1>3. ~Stopped /\ Stopped'
  BY DEF Finish, Stopped
<1>4. QED
  BY <1>1, <1>2, <1>3 DEF Wire!Halt

(* The event that is popped is the first: nothing on the wire was due      *)
(* before it, and on an ordered network nothing older is on its link.      *)
LEMMA PoppedIsDue ==
  ASSUME NetworkInv, NEW e \in queue, Pop(e)
  PROVE  /\ now' = e.at /\ now <= now' /\ model' = model
         /\ \A c \in Copies : now' <= c.due
         /\ cb.kind = "none" /\ pc = "pop" /\ ~Stopped /\ OnWire = Copies
<1>1. /\ now' = e.at /\ model' = model /\ pc = "pop"
      /\ \A f \in queue \ {e} : Before(e, f)
  BY DEF Pop, IsNext
<1>2. \A f \in queue : f.at \in Nat /\ e.at <= f.at
  <2>1. \A f \in queue : f.at \in Nat
    BY EventFields DEF NetworkInv, TypeOK, CoreTypeOK
  <2>2. QED
    BY <1>1, <2>1 DEF Before
<1>3. now <= e.at
  BY DEF NetworkInv, TimeMovesForward
<1>4. \A c \in Copies : e.at <= c.due
  BY <1>2 DEF Copies
<1>5. cb.kind = "none"
  BY <1>1 DEF NetworkInv, TypeOK, ControlTypeOK
<1>6. QED
  BY <1>1, <1>3, <1>4, <1>5 DEF Stopped, OnWire

(* A delivery is popped: its copy leaves the wire.                         *)
LEMMA PoppedLeaves ==
  ASSUME NetworkInv, NEW e \in queue, Pop(e), e.kind.type = "deliver",
         UNCHANGED <<partitions, crashed>>, pc' \in {"pop", "callback"}
  PROVE  CopyOf(e) \in OnWire /\ Wire!Leave(CopyOf(e))
<1> DEFINE c == CopyOf(e)
<1>1. /\ now' = e.at /\ model' = model
      /\ \A d \in Copies : now' <= d.due
      /\ cb.kind = "none" /\ pc = "pop" /\ ~Stopped /\ OnWire = Copies
  BY PoppedIsDue
<1>2. ~Stopped' /\ OnWire' = Copies'
  BY DEF Stopped, OnWire
<1>3. c \in Copies /\ Copies' = Copies \ {c}
  BY CopiesLess DEF NetworkInv, TypeOK, Pop
<1>4. c.due = e.at /\ c.from = e.kind.from /\ c.to = e.kind.to /\ c.id = e.seq
  BY DEF CopyOf
<1>5. ASSUME model.ordered, NEW d \in Copies, d.from = c.from, d.to = c.to
      PROVE  c.id <= d.id
  <2>1. PICK f \in queue : f.kind.type = "deliver" /\ d = CopyOf(f)
    BY DEF Copies, CopyOf
  <2>2. d.id = f.seq /\ OnSameLink(f, e)
    BY <1>4, <1>5, <2>1 DEF CopyOf, OnSameLink
  <2>3. e.at \in Nat /\ e.seq \in Nat /\ f.at \in Nat /\ f.seq \in Nat
    BY EventFields DEF NetworkInv, TypeOK, CoreTypeOK
  <2>4. f.seq < e.seq => Before(f, e)
    BY <1>5, <2>2, FifoImplied DEF NetworkInv, LinksAreFifo
  <2>5. f # e => Before(e, f)
    BY DEF Pop, IsNext
  <2>6. QED
    BY <1>4, <2>2, <2>3, <2>4, <2>5 DEF Before
<1>6. InHand = {}
  BY <1>1 DEF InHand
<1> HIDE DEF c
<1>7. Wire!Leave(c)
  <2>1. /\ ~Stopped /\ Stopped' = Stopped /\ InHand = {} /\ now' = c.due
        /\ UNCHANGED <<model, partitions, crashed>>
    BY <1>1, <1>2, <1>4, <1>6 DEF Stopped
  <2>2. \A d \in OnWire : c.due <= d.due
    BY <1>1, <1>4
  <2>3. model.ordered => \A d \in OnWire : d.from = c.from /\ d.to = c.to => c.id <= d.id
    BY <1>1, <1>5
  <2>4. OnWire' = OnWire \ {c}
    BY <1>1, <1>2, <1>3
  <2>5. Wire!NothingDueBefore(c.due)
    BY <2>2 DEF Wire!NothingDueBefore, OnWire
  <2>6. QED
    BY <2>1, <2>3, <2>4, <2>5 DEF Wire!Leave, OnWire, InHand
<1>8. QED
  BY <1>1, <1>3, <1>7 DEF c

(* Any other event is popped: time passes.                                 *)
LEMMA PoppedElapses ==
  ASSUME NetworkInv, NEW e \in queue, Pop(e), e.kind.type # "deliver",
         ~Stopped', cb'.kind # "msg"
  PROVE  Wire!Elapse
<1>1. /\ now <= now' /\ model' = model
      /\ \A d \in Copies : now' <= d.due
      /\ cb.kind = "none" /\ ~Stopped /\ OnWire = Copies
  BY PoppedIsDue
<1>2. OnWire' = OnWire
  <2>1. \A f : f.kind.type = "deliver" => (f \in queue' <=> f \in queue)
    BY DEF Pop
  <2>2. QED
    BY <1>1, <2>1, CopiesSame DEF OnWire
<1>3. InHand = {} /\ InHand' = {}
  BY <1>1 DEF InHand
<1>4. Wire!NothingDueBefore(now')
  <2>1. \A d \in OnWire : now' <= d.due
    BY <1>1
  <2>2. QED
    BY <2>1 DEF Wire!NothingDueBefore, OnWire
<1>5. model' = model /\ OnWire' = OnWire /\ InHand' = InHand /\ ~Stopped /\ Stopped' = Stopped
  BY <1>1, <1>2, <1>3 DEF Stopped
<1>6. QED
  BY <1>1, <1>3, <1>4, <1>5 DEF Wire!Elapse, OnWire, InHand

LEMMA WireDispatch == NetworkInv /\ Dispatch => Wire!Next
<1> SUFFICES ASSUME NetworkInv, NEW e \in queue,
                    \/ PopDeliver(e) \/ PopTimer(e) \/ Skip(e)
                    \/ PopClientOp(e) \/ PopFault(e)
             PROVE  Wire!Next
  BY DEF Dispatch
<1>0. ASSUME Pop(e)
      PROVE  cb.kind = "none" /\ pc = "pop"
  BY <1>0, PoppedIsDue
<1>1. CASE PopDeliver(e)
  <2>1. CopyOf(e) \in OnWire /\ Wire!Leave(CopyOf(e))
    BY <1>1, PoppedLeaves DEF PopDeliver
  <2>2. CopyOf(e).to \notin crashed /\ InHand' = {CopyOf(e).to}
    BY <1>1 DEF PopDeliver, CopyOf, InHand, OnMsg
  <2>3. Wire!Arrive(CopyOf(e))
    BY <2>1, <2>2 DEF Wire!Arrive, InHand
  <2>4. QED
    BY <2>1, <2>3 DEF Wire!Next, OnWire
<1>2. CASE Skip(e) /\ e.kind.type = "deliver"
  <2>1. CopyOf(e) \in OnWire /\ Wire!Leave(CopyOf(e))
    BY <1>0, <1>2, PoppedLeaves DEF Skip, control
  <2>2. CopyOf(e).to \in crashed /\ InHand' = InHand
    BY <1>2 DEF Skip, CopyOf, InHand, control
  <2>3. Wire!Vanish(CopyOf(e))
    BY <2>1, <2>2 DEF Wire!Vanish, InHand
  <2>4. QED
    BY <2>1, <2>3 DEF Wire!Next, OnWire
<1>3. CASE Skip(e) /\ e.kind.type # "deliver"
  <2>1. Pop(e) /\ ~Stopped' /\ cb'.kind # "msg"
    BY <1>0, <1>3 DEF Skip, Stopped, control
  <2>2. QED
    BY <1>3, <2>1, PoppedElapses DEF Wire!Next
<1>4. CASE PopTimer(e)
  <2>1. Pop(e) /\ e.kind.type # "deliver" /\ ~Stopped' /\ cb'.kind # "msg"
    BY <1>4 DEF PopTimer, Stopped, OnTimer
  <2>2. QED
    BY <2>1, PoppedElapses DEF Wire!Next
<1>5. CASE PopClientOp(e)
  <2>1. Pop(e) /\ e.kind.type # "deliver" /\ ~Stopped' /\ cb'.kind # "msg"
    BY <1>0, <1>5 DEF PopClientOp, Stopped, OnClientOp
  <2>2. QED
    BY <2>1, PoppedElapses DEF Wire!Next
<1>6. CASE PopFault(e)
  <2>1. Pop(e) /\ e.kind.type # "deliver" /\ ~Stopped' /\ cb'.kind # "msg"
    BY <1>0, <1>6 DEF PopFault, Stopped, OnStart, Closing
  <2>2. QED
    BY <2>1, PoppedElapses DEF Wire!Next
<1>7. QED
  BY <1>1, <1>2, <1>3, <1>4, <1>5, <1>6

LEMMA WireStep == NetworkInv /\ [Next]_vars => [Wire!Next]_Wire!wireVars
<1> SUFFICES ASSUME NetworkInv, [Next]_vars
             PROVE  [Wire!Next]_Wire!wireVars
  OBVIOUS
<1>1. CASE UNCHANGED vars
  <2>1. UNCHANGED <<model, now, partitions, crashed, queue, pc, cb>>
    BY <1>1 DEF vars, coreVars, control
  <2>2. OnWire' = OnWire /\ InHand' = InHand /\ Stopped' = Stopped
    BY <2>1 DEF OnWire, InHand, Stopped, Copies
  <2>3. QED
    BY <2>1, <2>2, WireStutters
<1>2. QED
  BY <1>1, WireEffect, WireReturn, WireDriver, WireDispatch, WireFinish DEF Next, Terminated

(* The heap of the simulator, with its floors and its crashed nodes, is a  *)
(* network of bounded latency (schedule_delivery, pop): for any cluster,   *)
(* network model, timeline and behaviour of the nodes.                     *)
THEOREM NetworkRefined == Spec => ImplementsLossyNetwork
<1>1. Init => Wire!Init
  <2> SUFFICES ASSUME Init
               PROVE  Wire!Init
    OBVIOUS
  <2>1. PICK s \in Setups :
          queue = {Scheduled(s.timeline[i].at, i - 1,
                             [type |-> "fault", action |-> s.timeline[i].action])
                     : i \in DOMAIN s.timeline}
    BY DEF Init
  <2>2. pc = "callback" /\ cb = Boot(0)
    BY DEF Init
  <2>3. now = 0 /\ partitions = {} /\ crashed = {}
    BY DEF Init, CoreInit
  <2>4. \A e \in queue : e.kind.type = "fault"
    BY <2>1 DEF Scheduled
  <2>5. Copies = {}
    BY <2>4 DEF Copies
  <2>6. pc = "callback" /\ cb.kind = "boot"
    BY <2>2 DEF Boot
  <2>7. QED
    BY <2>3, <2>5, <2>6 DEF Wire!Init, Stopped
<1>2. QED
  BY <1>1, NetworkInit, NetworkNext, WireStep, PTL DEF Spec, ImplementsLossyNetwork, Wire!Spec
=============================================================================
