---------------------------- MODULE HistoryProofs ----------------------------
(***************************************************************************)
(* Theorems about the client operations of module Simulator.  No process   *)
(* starves, every invocation has its completion when a run is over, and    *)
(* the module implements module SequentialClients: whatever the nodes do   *)
(* with their ops, and whatever crashes cut short, the recorded history is *)
(* one of clients that take their ops in stream order and have one open at *)
(* a time.                                                                 *)
(***************************************************************************)
EXTENDS NetworkProofs

-----------------------------------------------------------------------------
(* Nobody starves.  Only the pump brings the driver to its pop, and only a *)
(* skipped event leaves it there.                                          *)

LEMMA StarvePump == TypeOK /\ OneInFlight /\ Pump => NobodyStarves'
<1> SUFFICES ASSUME TypeOK, OneInFlight, Pump, NEW p \in Node, todo'[p] # {},
                    QueuedOps(p)' = {}, OpenOps(p)' = {}
             PROVE  FALSE
  BY DEF NobodyStarves
<1> DEFINE e == Scheduled(now + 1, seq + Rank(p),
                          [type |-> "op", process |-> p, index |-> FrontOf(p)])
<1>1. /\ pc' = "pop"
      /\ p \in Free => e \in queue'
      /\ p \notin Free => todo'[p] = todo[p] /\ scheduled'[p] = scheduled[p]
      /\ history' = history
  BY DEF Pump
<1>2. e.kind.type = "op" /\ e.kind.process = p
  BY DEF Scheduled
<1> HIDE DEF e
<1>3. p \notin Free
  BY <1>1, <1>2 DEF QueuedOps
<1>4. ClosedFor(p)' = ClosedFor(p)
  BY <1>1 DEF ClosedFor, ClosedEntries
<1>5. ClosedFor(p) \in Nat /\ scheduled[p] \in Nat
  BY ClosedCount DEF TypeOK, DriverTypeOK
<1>6. ~(scheduled[p] <= ClosedFor(p))
  BY <1>1, <1>3 DEF Free
<1>7. OneInFlight'
  BY FlightPump
<1>8. scheduled'[p] = ClosedFor(p)'
  BY <1>1, <1>7 DEF OneInFlight
<1>9. QED
  BY <1>1, <1>3, <1>4, <1>5, <1>6, <1>8

LEMMA StarveSkip ==
  ASSUME NobodyStarves, NEW e \in queue, Skip(e)
  PROVE  NobodyStarves'
<1>1. /\ pc = "pop" /\ queue' = queue \ {e} /\ e.kind.type # "op"
      /\ UNCHANGED <<todo, pending>>
  BY DEF Skip, Pop, driverVars
<1>2. \A p \in Node : QueuedOps(p)' = QueuedOps(p) /\ OpenOps(p)' = OpenOps(p)
  BY <1>1 DEF QueuedOps, OpenOps
<1>3. QED
  BY <1>1, <1>2 DEF NobodyStarves

LEMMA StarveNext == TypeOK /\ OneInFlight /\ NobodyStarves /\ [Next]_vars => NobodyStarves'
<1> SUFFICES ASSUME TypeOK, OneInFlight, NobodyStarves, [Next]_vars, pc' = "pop"
             PROVE  NobodyStarves'
  BY DEF NobodyStarves
<1>1. CASE Pump
  BY <1>1, StarvePump
<1>2. CASE Effect
  BY <1>2 DEF Effect, Send, SendLost, SetTimer, Cancel, CompleteOp, Running, Spend
<1>3. CASE Return
  BY <1>3 DEF Return, ReturnBoot, ReturnHandler, ReturnDone, ReturnPending
<1>4. CASE Dispatch
  <2>1. PICK e \in queue : \/ PopDeliver(e) \/ PopTimer(e) \/ Skip(e)
                           \/ PopClientOp(e) \/ PopFault(e)
    BY <1>4 DEF Dispatch
  <2>2. Skip(e)
    BY <2>1 DEF PopDeliver, PopTimer, PopClientOp, PopFault
  <2>3. QED
    BY <2>2, StarveSkip
<1>5. CASE CloseVictim \/ VictimsClosed \/ Finish \/ ForceClose \/ Stop \/ Terminated
  BY <1>5 DEF CloseVictim, VictimsClosed, Finish, ForceClose, Stop, Terminated, vars, control
<1>6. CASE UNCHANGED vars
  BY <1>6 DEF NobodyStarves, QueuedOps, OpenOps, vars, coreVars, driverVars, control
<1>7. QED
  BY <1>1, <1>2, <1>3, <1>4, <1>5, <1>6 DEF Next

(* A process with ops left always has one in flight when the driver is     *)
(* about to pop, however its last op was closed.                           *)
THEOREM PumpServesAll == Spec => []NobodyStarves
<1> DEFINE Inv == TypeOK /\ OneInFlight /\ NobodyStarves
<1>1. Init => Inv
  BY TypeInit, FlightInit DEF Init, NobodyStarves
<1>2. Inv /\ [Next]_vars => Inv'
  BY TypeNext, FlightNext, StarveNext
<1>3. Inv => NobodyStarves
  OBVIOUS
<1>4. QED
  BY <1>1, <1>2, <1>3, PTL DEF Spec

-----------------------------------------------------------------------------
(* Completeness.  HistoryIsComplete is not inductive: until the run is     *)
(* over, the invocations of a process are its completions and its open op. *)

Opened(p) == Cardinality(Occurrences({"invoke"}, p))

InvokesAccounted ==
  \A p \in Node : Opened(p) = ClosedFor(p) + (IF OpenOps(p) = {} THEN 0 ELSE 1)

CompleteInv == InvokesAccounted /\ (pc = "done" => pending = {})

LEMMA OpenedCount ==
  ASSUME CoreTypeOK, NEW p \in Node
  PROVE  IsFiniteSet(Occurrences({"invoke"}, p)) /\ Opened(p) \in Nat
<1>1. Occurrences({"invoke"}, p) \in SUBSET (1 .. Len(history))
  BY DEF Occurrences, CoreTypeOK
<1>2. Len(history) \in Int /\ 1 \in Int
  BY DEF CoreTypeOK
<1>3. QED
  BY <1>1, <1>2, FS_Interval, FS_Subset, FS_CardinalityType DEF Opened

LEMMA OpenedAfterAppend ==
  ASSUME CoreTypeOK, NEW p \in Node, NEW entry \in OpEntry,
         history' = Append(history, entry)
  PROVE  Opened(p)' = IF entry.process = p /\ entry.kind = "invoke"
                      THEN Opened(p) + 1 ELSE Opened(p)
<1> DEFINE n == Len(history) + 1
<1>1. history \in Seq(OpEntry) /\ Len(history) \in Nat /\ DOMAIN history = 1 .. Len(history)
  BY DEF CoreTypeOK
<1>2. /\ DOMAIN history' = DOMAIN history \cup {n} /\ n \notin DOMAIN history
      /\ \A k \in DOMAIN history : history'[k] = history[k]
      /\ history'[n] = entry
  BY <1>1
<1> HIDE DEF n
<1>3. Occurrences({"invoke"}, p)' = IF entry.process = p /\ entry.kind = "invoke"
                                   THEN Occurrences({"invoke"}, p) \cup {n}
                                   ELSE Occurrences({"invoke"}, p)
  BY <1>2 DEF Occurrences
<1>4. n \notin Occurrences({"invoke"}, p)
  BY <1>2 DEF Occurrences
<1>5. QED
  BY <1>3, <1>4, OpenedCount, FS_AddElement DEF Opened

LEMMA OpenedAfterReject ==
  ASSUME CoreTypeOK, NEW p \in Node, NEW at \in Nat, NEW q \in Node, NEW i \in Nat,
         RejectOp(at, q, i)
  PROVE  Opened(p)' = IF p = q THEN Opened(p) + 1 ELSE Opened(p)
<1> DEFINE n == Len(history) + 1
           a == Entry(at, "invoke", q, i)
           b == Entry(at, "fail", q, i)
<1>1. history \in Seq(OpEntry) /\ Len(history) \in Nat /\ DOMAIN history = 1 .. Len(history)
  BY DEF CoreTypeOK
<1>2. a.process = q /\ a.kind = "invoke" /\ b.process = q /\ b.kind = "fail"
  BY DEF Entry
<1>3. a \in OpEntry /\ b \in OpEntry
  BY OpEntryType DEF Terminal
<1>4. history' = history \o <<a, b>>
  BY DEF RejectOp
<1> HIDE DEF a, b
<1>5. /\ DOMAIN history' = DOMAIN history \cup {n, n + 1}
      /\ n \notin DOMAIN history /\ n + 1 \notin DOMAIN history /\ n # n + 1
      /\ \A k \in DOMAIN history : history'[k] = history[k]
      /\ history'[n] = a /\ history'[n + 1] = b
  BY <1>1, <1>3, <1>4
<1> HIDE DEF n
<1>6. Occurrences({"invoke"}, p)' = IF p = q THEN Occurrences({"invoke"}, p) \cup {n}
                                    ELSE Occurrences({"invoke"}, p)
  BY <1>2, <1>5 DEF Occurrences
<1>7. n \notin Occurrences({"invoke"}, p)
  BY <1>5 DEF Occurrences
<1>8. QED
  BY <1>6, <1>7, OpenedCount, FS_AddElement DEF Opened

LEMMA CompleteInit == Init => CompleteInv
<1> SUFFICES ASSUME Init
             PROVE  CompleteInv
  OBVIOUS
<1>1. history = <<>> /\ pending = {} /\ pc = "callback"
  BY DEF Init, CoreInit
<1>2. ASSUME NEW p \in Node
      PROVE  Occurrences({"invoke"}, p) = {} /\ ClosedEntries(p) = {} /\ OpenOps(p) = {}
  BY <1>1 DEF Occurrences, ClosedEntries, OpenOps
<1>3. Cardinality({}) = 0
  BY FS_EmptySet
<1>4. \A p \in Node : Opened(p) = 0 /\ ClosedFor(p) = 0 /\ OpenOps(p) = {}
  BY <1>2, <1>3 DEF Opened, ClosedFor
<1>5. QED
  BY <1>1, <1>4 DEF CompleteInv, InvokesAccounted

(* Steps that record nothing.                                              *)
LEMMA CompleteKept ==
  ASSUME CompleteInv, UNCHANGED <<history, pending>>, pc' = "done" => pending = {}
  PROVE  CompleteInv'
<1>1. \A p \in Node : /\ Opened(p)' = Opened(p) /\ ClosedFor(p)' = ClosedFor(p)
                      /\ OpenOps(p)' = OpenOps(p)
  BY DEF Opened, Occurrences, ClosedFor, ClosedEntries, OpenOps
<1>2. QED
  BY <1>1 DEF CompleteInv, InvokesAccounted

(* Closing an op moves it from the open ones to the completions.           *)
LEMMA CompleteClose ==
  ASSUME CoreTypeOK, OneInFlight, CompleteInv, NEW token, NEW kind \in Terminal,
         CloseOp(token, kind), pc' # "done"
  PROVE  CompleteInv'
<1>1. CASE UNCHANGED <<pending, history>>
  BY <1>1, CompleteKept
<1>2. ASSUME NEW o \in pending,
             pending' = pending \ {o},
             history' = Append(history, Entry(now, kind, o.process, o.op))
      PROVE  CompleteInv'
  <2>1. o.process \in Node /\ o.op \in Nat /\ now \in Nat
    BY DEF CoreTypeOK, PendingOp
  <2>2. /\ Entry(now, kind, o.process, o.op) \in OpEntry
        /\ Entry(now, kind, o.process, o.op).process = o.process
        /\ Entry(now, kind, o.process, o.op).kind = kind /\ kind # "invoke"
    BY <2>1, OpEntryType DEF Entry, Terminal
  <2>3. ASSUME NEW p \in Node
        PROVE  Opened(p)' = ClosedFor(p)' + (IF OpenOps(p)' = {} THEN 0 ELSE 1)
    <3>1. /\ ClosedFor(p)' = IF o.process = p THEN ClosedFor(p) + 1 ELSE ClosedFor(p)
          /\ Opened(p)' = Opened(p)
      BY <1>2, <2>2, ClosedAfterAppend, OpenedAfterAppend
    <3>2. Opened(p) = ClosedFor(p) + (IF OpenOps(p) = {} THEN 0 ELSE 1)
          /\ ClosedFor(p) \in Nat
      BY ClosedCount DEF CompleteInv, InvokesAccounted
    <3>3. CASE o.process = p
      <4>1. o \in OpenOps(p)
        BY <3>3 DEF OpenOps
      <4>2. OpenOps(p) = {o}
        BY <4>1, OneInFlightCases DEF NothingInFlight, OpQueued, OpOpen
      <4>3. OpenOps(p)' = {}
        BY <1>2, <4>2 DEF OpenOps
      <4>4. QED
        BY <3>1, <3>2, <3>3, <4>2, <4>3
    <3>4. CASE o.process # p
      <4>1. OpenOps(p)' = OpenOps(p)
        BY <1>2, <3>4 DEF OpenOps
      <4>2. QED
        BY <3>1, <3>2, <3>4, <4>1
    <3>5. QED
      BY <3>3, <3>4
  <2>4. QED
    BY <2>3 DEF CompleteInv, InvokesAccounted
<1>3. QED
  BY <1>1, <1>2 DEF CloseOp

LEMMA CompleteOpen ==
  ASSUME TypeOK, OneInFlight, CompleteInv, NEW e \in queue, PopClientOp(e)
  PROVE  CompleteInv'
<1> DEFINE p == e.kind.process
           i == e.kind.index
<1>1. e.kind.type = "op" /\ p \in Node /\ i \in Nat /\ e.at \in Nat /\ CoreTypeOK
  BY EventFields, OpIndices DEF PopClientOp, TypeOK, DriverTypeOK, CoreTypeOK
<1>2. pc' # "done" /\ (OpenOp(e.at, p, i) \/ RejectOp(e.at, p, i))
  BY DEF PopClientOp
<1>3. e \in QueuedOps(p)
  BY <1>1 DEF QueuedOps
<1>4. OpenOps(p) = {}
  BY <1>1, <1>3, OneInFlightCases DEF NothingInFlight, OpQueued, OpOpen
<1> HIDE DEF p, i
<1>5. \A q \in Node : /\ Opened(q) = ClosedFor(q) + (IF OpenOps(q) = {} THEN 0 ELSE 1)
                      /\ ClosedFor(q) \in Nat
  BY <1>1, ClosedCount DEF CompleteInv, InvokesAccounted
<1>6. CASE OpenOp(e.at, p, i)
  <2> DEFINE o == [token |-> nextToken, process |-> p, op |-> i]
  <2>1. pending' = pending \cup {o} /\ o.process = p
        /\ history' = Append(history, Entry(e.at, "invoke", p, i))
    BY <1>6 DEF OpenOp
  <2>2. /\ Entry(e.at, "invoke", p, i) \in OpEntry
        /\ Entry(e.at, "invoke", p, i).process = p
        /\ Entry(e.at, "invoke", p, i).kind = "invoke"
        /\ "invoke" \notin Terminal
    BY <1>1, OpEntryType DEF Entry, Terminal
  <2> HIDE DEF o
  <2>3. \A q \in Node : /\ ClosedFor(q)' = ClosedFor(q)
                        /\ Opened(q)' = IF p = q THEN Opened(q) + 1 ELSE Opened(q)
    BY <1>1, <2>1, <2>2, ClosedAfterAppend, OpenedAfterAppend
  <2>4. OpenOps(p)' # {} /\ \A q \in Node \ {p} : OpenOps(q)' = OpenOps(q)
    BY <2>1 DEF OpenOps
  <2>5. QED
    BY <1>2, <1>4, <1>5, <2>3, <2>4 DEF CompleteInv, InvokesAccounted
<1>7. CASE RejectOp(e.at, p, i)
  <2>1. \A q \in Node : /\ ClosedFor(q)' = IF q = p THEN ClosedFor(q) + 1 ELSE ClosedFor(q)
                        /\ Opened(q)' = IF q = p THEN Opened(q) + 1 ELSE Opened(q)
    BY <1>1, <1>7, ClosedAfterReject, OpenedAfterReject
  <2>2. \A q \in Node : OpenOps(q)' = OpenOps(q)
    BY <1>7 DEF RejectOp, OpenOps
  <2>3. QED
    BY <1>2, <1>4, <1>5, <2>1, <2>2 DEF CompleteInv, InvokesAccounted
<1>8. QED
  BY <1>2, <1>6, <1>7

LEMMA CompleteNext ==
  TypeOK /\ OneInFlight /\ CompleteInv /\ [Next]_vars => CompleteInv'
<1> SUFFICES ASSUME TypeOK, OneInFlight, CompleteInv, [Next]_vars
             PROVE  CompleteInv'
  OBVIOUS
<1>1. CASE Effect
  <2>1. ASSUME NEW token, NEW kind \in Terminal, CompleteOp(token, kind)
        PROVE  CompleteInv'
    BY <2>1, CompleteClose DEF CompleteOp, Running, Spend, TypeOK
  <2>2. ASSUME UNCHANGED <<history, pending>>, pc = "callback", pc' = pc
        PROVE  CompleteInv'
    BY <2>2, CompleteKept
  <2>3. QED
    BY <1>1, <2>1, <2>2 DEF Effect, Send, SendLost, SetTimer, Cancel, Running, Spend
<1>2. CASE ReturnDone
  BY <1>2, CompleteClose DEF ReturnDone, TypeOK, Terminal
<1>3. CASE CloseVictim \/ ForceClose
  <2>1. PICK token : CloseOp(token, "info")
    BY <1>3 DEF CloseVictim, ForceClose
  <2>2. pc' # "done" /\ "info" \in Terminal
    BY <1>3 DEF CloseVictim, ForceClose, control, Terminal
  <2>3. QED
    BY <2>1, <2>2, CompleteClose DEF TypeOK
<1>4. CASE Dispatch
  <2>1. PICK e \in queue : \/ PopDeliver(e) \/ PopTimer(e) \/ Skip(e)
                           \/ PopClientOp(e) \/ PopFault(e)
    BY <1>4 DEF Dispatch
  <2>2. CASE PopDeliver(e) \/ PopTimer(e) \/ Skip(e) \/ PopFault(e)
    BY <2>2, CompleteKept DEF PopDeliver, PopTimer, Skip, PopFault, Pop, control
  <2>3. QED
    BY <2>1, <2>2, CompleteOpen
<1>5. CASE ReturnBoot \/ ReturnHandler \/ ReturnPending \/ Pump \/ VictimsClosed \/ Finish \/ Stop
  BY <1>5, CompleteKept DEF ReturnBoot, ReturnHandler, ReturnPending, Pump, VictimsClosed,
                            Finish, Stop, coreVars
<1>6. CASE Terminated \/ UNCHANGED vars
  <2>1. UNCHANGED <<history, pending, pc>>
    BY <1>6 DEF Terminated, vars, coreVars, control
  <2>2. QED
    BY <2>1, CompleteKept DEF CompleteInv
<1>7. QED
  BY <1>1, <1>2, <1>3, <1>4, <1>5, <1>6 DEF Next, Return

(* When a run is over every invocation has its completion, whether the     *)
(* node, a crash, the codec or the end of the run closed it.               *)
THEOREM EveryInvokeCompleted == Spec => []HistoryIsComplete
<1> DEFINE Inv == TypeOK /\ OneInFlight /\ CompleteInv
<1>1. Init => Inv
  BY TypeInit, FlightInit, CompleteInit
<1>2. Inv /\ [Next]_vars => Inv'
  BY TypeNext, FlightNext, CompleteNext
<1>3. Inv => HistoryIsComplete
  <2> SUFFICES ASSUME Inv, pc = "done", NEW p \in Node
               PROVE  Opened(p) = ClosedFor(p)
    BY DEF HistoryIsComplete, Opened
  <2>1. OpenOps(p) = {} /\ ClosedFor(p) \in Nat
    BY ClosedCount DEF CompleteInv, OpenOps, TypeOK
  <2>2. QED
    BY <2>1 DEF CompleteInv, InvokesAccounted
<1>4. QED
  BY <1>1, <1>2, <1>3, PTL DEF Spec

-----------------------------------------------------------------------------
(* The history is one of sequential clients.                               *)

StreamOps == UNION {DOMAIN s.ops : s \in Setups}

(* Besides one op in flight the argument needs that the history lies       *)
(* before the clock, and that an op moves through its process in stream    *)
(* order: what is recorded comes before what is queued or open, and all of *)
(* it before what is left.                                                 *)
PastIsRecorded == \A k \in DOMAIN history : history[k].time <= now

RecordedFirst ==
  \A k \in DOMAIN history :
    /\ \A e \in QueuedOps(history[k].process) : history[k].op < e.kind.index
    /\ \A i \in todo[history[k].process] : history[k].op < i

QueuedNext == \A p \in Node : \A e \in QueuedOps(p), i \in todo[p] : e.kind.index < i

OpenNext ==
  \A o \in pending : o.op \in DOMAIN ops /\ \A i \in todo[o.process] : o.op < i

StreamOrder == PastIsRecorded /\ RecordedFirst /\ QueuedNext /\ OpenNext

ClientInv ==
  NetworkInv /\ OneInFlight /\ StreamOrder /\ DOMAIN ops \subseteq StreamOps

(* The parts of it that are named in SimulatorProofs.                      *)
LEMMA ClientTypes == ClientInv => TypeOK /\ CoreTypeOK /\ TimeMovesForward
BY DEF ClientInv, NetworkInv, TypeOK

LEMMA HistoryFields ==
  ASSUME CoreTypeOK
  PROVE  \A k \in DOMAIN history :
           history[k].time \in Nat /\ history[k].process \in Node /\ history[k].op \in Nat
<1>1. \A k \in DOMAIN history : history[k] \in OpEntry
  BY ElementOfSequence DEF CoreTypeOK
<1>2. \A entry \in OpEntry : entry.time \in Nat /\ entry.process \in Node /\ entry.op \in Nat
  BY DEF OpEntry
<1>3. QED
  BY <1>1, <1>2

LEMMA ClientInit == Init => ClientInv
<1> SUFFICES ASSUME Init
             PROVE  ClientInv
  OBVIOUS
<1>1. NetworkInv /\ OneInFlight
  BY NetworkInit, FlightInit
<1>2. PICK s \in Setups :
        /\ queue = {Scheduled(s.timeline[i].at, i - 1,
                              [type |-> "fault", action |-> s.timeline[i].action])
                      : i \in DOMAIN s.timeline}
        /\ ops = s.ops
  BY DEF Init
<1>3. history = <<>> /\ pending = {}
  BY DEF Init, CoreInit
<1>4. \A p : QueuedOps(p) = {}
  BY <1>2 DEF QueuedOps, Scheduled
<1>5. QED
  BY <1>1, <1>2, <1>3, <1>4
     DEF ClientInv, StreamOrder, PastIsRecorded, RecordedFirst, QueuedNext, OpenNext, StreamOps

-----------------------------------------------------------------------------
(* The order of the stream is kept.                                        *)

(* Steps that touch neither ops nor history.                               *)
LEMMA OrderKept ==
  ASSUME ClientInv, UNCHANGED <<history, pending, todo, ops>>, now <= now', now' \in Nat,
         \A p \in Node : QueuedOps(p)' \subseteq QueuedOps(p)
  PROVE  StreamOrder'
<1>1. now \in Nat /\ history \in Seq(OpEntry)
  BY ClientTypes DEF CoreTypeOK
<1>2. \A k \in DOMAIN history : history[k].time \in Nat /\ history[k].process \in Node
  BY HistoryFields, ClientTypes
<1>3. PastIsRecorded'
  BY <1>1, <1>2 DEF ClientInv, StreamOrder, PastIsRecorded
<1>4. RecordedFirst' /\ QueuedNext' /\ OpenNext'
  BY <1>2 DEF ClientInv, StreamOrder, RecordedFirst, QueuedNext, OpenNext
<1>5. QED
  BY <1>3, <1>4 DEF StreamOrder

(* An entry is recorded for an op that is in flight, and its process has   *)
(* nothing queued any more.                                                *)
LEMMA OrderAppend ==
  ASSUME ClientInv, NEW entry \in OpEntry, history' = Append(history, entry),
         entry.time = now', now <= now', now' \in Nat,
         UNCHANGED <<todo, ops>>,
         \A p \in Node : QueuedOps(p)' \subseteq QueuedOps(p),
         QueuedOps(entry.process)' = {},
         \A i \in todo[entry.process] : entry.op < i
  PROVE  PastIsRecorded' /\ RecordedFirst' /\ QueuedNext'
<1>1. now \in Nat /\ history \in Seq(OpEntry)
  BY ClientTypes DEF CoreTypeOK
<1>2. \A k \in DOMAIN history : history[k].time \in Nat /\ history[k].process \in Node
  BY HistoryFields, ClientTypes
<1>3. \A k \in DOMAIN history' : (k \in DOMAIN history /\ history'[k] = history[k]) \/ history'[k] = entry
  BY <1>1
<1>4. PastIsRecorded'
  BY <1>1, <1>2, <1>3 DEF ClientInv, StreamOrder, PastIsRecorded
<1>5. RecordedFirst'
  BY <1>2, <1>3 DEF ClientInv, StreamOrder, RecordedFirst
<1>6. QED
  BY <1>4, <1>5 DEF ClientInv, StreamOrder, QueuedNext

(* Closing an op, or nothing: what CloseOp does to the clients.            *)
LEMMA OrderClose ==
  ASSUME ClientInv, NEW token, NEW kind \in Terminal, CloseOp(token, kind),
         UNCHANGED <<queue, todo, ops, now>>
  PROVE  StreamOrder'
<1>1. now \in Nat
  BY ClientTypes DEF CoreTypeOK
<1>2. \A p \in Node : QueuedOps(p)' = QueuedOps(p)
  BY DEF QueuedOps
<1>3. CASE UNCHANGED <<pending, history>>
  BY <1>1, <1>2, <1>3, OrderKept
<1>4. ASSUME NEW o \in pending, pending' = pending \ {o},
             history' = Append(history, Entry(now, kind, o.process, o.op))
      PROVE  StreamOrder'
  <2> DEFINE entry == Entry(now, kind, o.process, o.op)
  <2>1. o.process \in Node /\ o.op \in Nat
    BY ClientTypes DEF CoreTypeOK, PendingOp
  <2>2. entry \in OpEntry /\ entry.time = now /\ entry.process = o.process /\ entry.op = o.op
    BY <1>1, <2>1, OpEntryType DEF Entry
  <2>3. QueuedOps(o.process) = {}
    <3>1. NothingInFlight(o.process) \/ OpQueued(o.process) \/ OpOpen(o.process)
      BY <2>1, OneInFlightCases DEF ClientInv
    <3>2. o \in OpenOps(o.process)
      BY DEF OpenOps
    <3>3. QED
      BY <3>1, <3>2 DEF NothingInFlight, OpQueued, OpOpen
  <2>4. \A i \in todo[o.process] : o.op < i
    BY DEF ClientInv, StreamOrder, OpenNext
  <2> HIDE DEF entry
  <2>5. history' = Append(history, entry)
    BY <1>4 DEF entry
  <2>6. PastIsRecorded' /\ RecordedFirst' /\ QueuedNext'
    BY <1>1, <1>2, <2>1, <2>2, <2>3, <2>4, <2>5, OrderAppend
  <2>7. OpenNext'
    BY <1>4 DEF ClientInv, StreamOrder, OpenNext
  <2>8. QED
    BY <2>6, <2>7 DEF StreamOrder
<1>5. QED
  BY <1>3, <1>4 DEF CloseOp

(* The pump queues the first op that is left of a process.                 *)
LEMMA OrderPump == ClientInv /\ Pump => StreamOrder'
<1> SUFFICES ASSUME ClientInv, Pump
             PROVE  StreamOrder'
  OBVIOUS
<1> DEFINE K(p) == [type |-> "op", process |-> p, index |-> FrontOf(p)]
           E(p) == Scheduled(now + 1, seq + Rank(p), K(p))
<1>1. /\ queue' = queue \cup {E(p) : p \in Free}
      /\ todo' = [p \in Node |-> IF p \in Free THEN todo[p] \ {FrontOf(p)} ELSE todo[p]]
      /\ UNCHANGED <<now, history, pending, ops>>
  BY DEF Pump
<1>2. todo \in [Node -> SUBSET DOMAIN ops] /\ DOMAIN ops \subseteq Nat
  BY OpIndices, ClientTypes DEF TypeOK, DriverTypeOK
<1>3. \A p \in Node : todo'[p] \subseteq todo[p] /\ todo[p] \subseteq Nat
  BY <1>1, <1>2
<1>4. ASSUME NEW p \in Free
      PROVE  /\ p \in Node /\ FrontOf(p) \in todo[p]
             /\ \A i \in todo'[p] : FrontOf(p) < i
  <2>1. p \in Node /\ todo[p] # {}
    BY DEF Free
  <2>2. FrontOf(p) \in todo[p] /\ \A j \in todo[p] : FrontOf(p) <= j
    BY <1>3, <2>1, FrontInTodo
  <2>3. todo'[p] = todo[p] \ {FrontOf(p)}
    BY <1>1, <2>1
  <2>4. QED
    BY <1>3, <2>1, <2>2, <2>3
<1>5. \A p : E(p).kind.type = "op" /\ E(p).kind.process = p /\ E(p).kind.index = FrontOf(p)
  BY DEF Scheduled
<1> HIDE DEF E
<1>6. \A p \in Node : \A e \in QueuedOps(p)' :
        e \in QueuedOps(p) \/ (p \in Free /\ e.kind.index = FrontOf(p))
  BY <1>1, <1>5 DEF QueuedOps
<1>7. PastIsRecorded'
  BY <1>1 DEF ClientInv, StreamOrder, PastIsRecorded
<1>8. RecordedFirst'
  <2> SUFFICES ASSUME NEW k \in DOMAIN history, NEW p \in Node, p = history[k].process
               PROVE  /\ \A e \in QueuedOps(p)' : history[k].op < e.kind.index
                      /\ \A i \in todo'[p] : history[k].op < i
    BY <1>1, HistoryFields, ClientTypes DEF RecordedFirst
  <2>2. /\ \A e \in QueuedOps(p) : history[k].op < e.kind.index
        /\ \A i \in todo[p] : history[k].op < i
    BY DEF ClientInv, StreamOrder, RecordedFirst
  <2>3. ASSUME NEW e \in QueuedOps(p)'
        PROVE  history[k].op < e.kind.index
    <3>1. CASE e \in QueuedOps(p)
      BY <2>2, <3>1
    <3>2. CASE p \in Free /\ e.kind.index = FrontOf(p)
      <4>1. FrontOf(p) \in todo[p]
        BY <1>4, <3>2
      <4>2. history[k].op < FrontOf(p)
        BY <2>2, <4>1
      <4>3. QED
        BY <3>2, <4>2
    <3>3. QED
      BY <1>6, <3>1, <3>2
  <2>4. \A i \in todo'[p] : history[k].op < i
    BY <1>3, <2>2
  <2>5. QED
    BY <2>3, <2>4
<1>9. QueuedNext'
  BY <1>3, <1>4, <1>6 DEF ClientInv, StreamOrder, QueuedNext
<1>10. OpenNext'
  <2> SUFFICES ASSUME NEW o \in pending
               PROVE  o.op \in DOMAIN ops /\ \A i \in todo'[o.process] : o.op < i
    BY <1>1 DEF OpenNext
  <2>1. o.process \in Node
    BY ClientTypes DEF CoreTypeOK, PendingOp
  <2>2. QED
    BY <1>3, <2>1 DEF ClientInv, StreamOrder, OpenNext
<1>11. QED
  BY <1>7, <1>8, <1>9, <1>10 DEF StreamOrder

(* What is known of a client op that is popped.                            *)
LEMMA PoppedOp ==
  ASSUME ClientInv, NEW e \in queue, PopClientOp(e)
  PROVE  LET p == e.kind.process
             i == e.kind.index
         IN /\ p \in Node /\ i \in DOMAIN ops /\ i \in Nat /\ i # 0
            /\ QueuedOps(p) = {e} /\ QueuedOps(p)' = {} /\ OpenOps(p) = {}
            /\ \A q \in Node : QueuedOps(q)' \subseteq QueuedOps(q)
            /\ \A j \in todo[p] : i < j
            /\ \A k \in DOMAIN history : history[k].process = p => history[k].op < i
            /\ e.at \in Nat /\ now' = e.at /\ now <= now' /\ pc = "pop"
            /\ UNCHANGED <<todo, ops>>
<1> DEFINE p == e.kind.process
           i == e.kind.index
<1>1. /\ e.kind.type = "op" /\ e \in Event /\ queue' = queue \ {e} /\ now' = e.at /\ pc = "pop"
      /\ UNCHANGED <<todo, ops>>
  BY ClientTypes DEF PopClientOp, Pop, driverVars, CoreTypeOK
<1>2. p \in Node /\ e.at \in Nat /\ now <= e.at
  BY <1>1, EventFields, ClientTypes DEF TimeMovesForward
<1>3. i \in DOMAIN ops /\ i \in Nat /\ i # 0
  <2>1. i \in DOMAIN ops /\ ops \in Seq(FrozenOp)
    BY <1>1, ClientTypes DEF TypeOK, DriverTypeOK
  <2>2. QED
    BY <2>1
<1>4. e \in QueuedOps(p)
  BY <1>1 DEF QueuedOps
<1>5. QueuedOps(p) = {e} /\ OpenOps(p) = {}
  <2>1. NothingInFlight(p) \/ OpQueued(p) \/ OpOpen(p)
    BY <1>2, OneInFlightCases DEF ClientInv
  <2>2. QED
    BY <1>4, <2>1 DEF NothingInFlight, OpQueued, OpOpen
<1>6. QueuedOps(p)' = {} /\ \A q \in Node : QueuedOps(q)' \subseteq QueuedOps(q)
  BY <1>1, <1>5 DEF QueuedOps
<1>7. /\ \A j \in todo[p] : i < j
      /\ \A k \in DOMAIN history : history[k].process = p => history[k].op < i
  BY <1>2, <1>4 DEF ClientInv, StreamOrder, QueuedNext, RecordedFirst
<1>8. QED
  BY <1>1, <1>2, <1>3, <1>5, <1>6, <1>7

LEMMA OrderPopOp ==
  ASSUME ClientInv, NEW e \in queue, PopClientOp(e)
  PROVE  StreamOrder'
<1> DEFINE p == e.kind.process
           i == e.kind.index
<1>1. /\ p \in Node /\ i \in DOMAIN ops /\ i \in Nat
      /\ QueuedOps(p)' = {}
      /\ \A q \in Node : QueuedOps(q)' \subseteq QueuedOps(q)
      /\ \A j \in todo[p] : i < j
      /\ e.at \in Nat /\ now' = e.at /\ now <= now'
      /\ UNCHANGED <<todo, ops>>
  BY PoppedOp
<1>2. \A kind \in {"invoke"} \cup Terminal :
        LET entry == Entry(e.at, kind, p, i)
        IN entry \in OpEntry /\ entry.time = e.at /\ entry.process = p /\ entry.op = i
  BY <1>1, OpEntryType DEF Entry
<1> DEFINE a == Entry(e.at, "invoke", p, i)
           b == Entry(e.at, "fail", p, i)
<1>3. /\ a \in OpEntry /\ a.time = now' /\ a.process = p /\ a.op = i
      /\ b \in OpEntry /\ b.time = now' /\ b.process = p /\ b.op = i
  BY <1>1, <1>2 DEF Terminal
<1>4. history \in Seq(OpEntry)
  BY ClientTypes DEF CoreTypeOK
<1>5. CASE OpenOp(e.at, p, i)
  <2>1. history' = Append(history, a)
        /\ pending' = pending \cup {[token |-> nextToken, process |-> p, op |-> i]}
    BY <1>5 DEF OpenOp
  <2> HIDE DEF a, p, i
  <2>2. PastIsRecorded' /\ RecordedFirst' /\ QueuedNext'
    BY <1>1, <1>3, <2>1, OrderAppend
  <2>3. OpenNext'
    BY <1>1, <2>1 DEF ClientInv, StreamOrder, OpenNext
  <2>4. QED
    BY <2>2, <2>3 DEF StreamOrder
<1>6. CASE RejectOp(e.at, p, i)
  <2>1. history' = history \o <<a, b>> /\ pending' = pending
    BY <1>6 DEF RejectOp
  <2> HIDE DEF a, b, p, i
  <2>2. \A k \in DOMAIN history' :
          \/ k \in DOMAIN history /\ history'[k] = history[k]
          \/ history'[k] = a \/ history'[k] = b
    BY <1>3, <1>4, <2>1
  <2>3. \A k \in DOMAIN history : history[k].time \in Nat /\ history[k].process \in Node
    BY HistoryFields, ClientTypes
  <2>4. now \in Nat /\ now' \in Nat
    BY <1>1, ClientTypes DEF CoreTypeOK
  <2>5. PastIsRecorded'
    BY <1>1, <1>3, <2>2, <2>3, <2>4 DEF ClientInv, StreamOrder, PastIsRecorded
  <2>6. RecordedFirst'
    BY <1>1, <1>3, <2>2, <2>3 DEF ClientInv, StreamOrder, RecordedFirst
  <2>7. QueuedNext' /\ OpenNext'
    BY <1>1, <2>1 DEF ClientInv, StreamOrder, QueuedNext, OpenNext
  <2>8. QED
    BY <2>5, <2>6, <2>7 DEF StreamOrder
<1>7. QED
  BY <1>5, <1>6 DEF PopClientOp

LEMMA ClientNext == ClientInv /\ [Next]_vars => ClientInv'
<1> SUFFICES ASSUME ClientInv, [Next]_vars
             PROVE  StreamOrder' /\ ops' = ops
  BY NetworkNext, FlightNext, ClientTypes DEF ClientInv
<1>n. now \in Nat /\ now' \in Nat /\ now <= now'
  BY ClockSteps, ClientTypes DEF ClientInv, CoreTypeOK
<1>0. ASSUME UNCHANGED <<history, pending, driverVars>>,
             \A e \in queue' : e \in queue \/ e.kind.type # "op"
      PROVE  StreamOrder' /\ ops' = ops
  BY <1>n, <1>0, OrderKept DEF QueuedOps, driverVars
<1>c. ASSUME NEW token, NEW kind \in Terminal, CloseOp(token, kind),
             UNCHANGED <<queue, now, driverVars>>
      PROVE  StreamOrder' /\ ops' = ops
  BY <1>c, OrderClose DEF driverVars
<1>1. CASE Effect
  <2>1. ASSUME NEW to \in Node, NEW msg \in Msg, Send(to, msg)
        PROVE  StreamOrder' /\ ops' = ops
    <3>1. ScheduleDelivery(cb.node, to, msg) /\ cb.node \in Node
      BY <2>1, CallbackNode, ClientTypes DEF Send, Running, TypeOK
    <3>2. \A e \in queue' : e \in queue \/ e.kind.type = "deliver"
      BY <3>1, ScheduleDeliveryType, ClientTypes
    <3>3. QED
      BY <1>0, <2>1, <3>2 DEF Send
  <2>2. ASSUME NEW to \in Node, SendLost(to)
        PROVE  StreamOrder' /\ ops' = ops
    BY <1>0, <2>2 DEF SendLost, LoseMessage
  <2>3. ASSUME NEW t \in Timer, NEW after \in After, SetTimer(t, after)
        PROVE  StreamOrder' /\ ops' = ops
    <3>1. \A e \in queue' : e \in queue \/ e.kind.type # "op"
      BY <2>3 DEF SetTimer, ArmTimer, Enqueue, Scheduled
    <3>2. QED
      BY <1>0, <2>3, <3>1 DEF SetTimer
  <2>4. ASSUME NEW t \in Timer, Cancel(t)
        PROVE  StreamOrder' /\ ops' = ops
    BY <1>0, <2>4 DEF Cancel
  <2>5. ASSUME NEW token, NEW kind \in Terminal, CompleteOp(token, kind)
        PROVE  StreamOrder' /\ ops' = ops
    BY <1>c, <2>5 DEF CompleteOp
  <2>6. QED
    BY <1>1, <2>1, <2>2, <2>3, <2>4, <2>5 DEF Effect
<1>2. CASE Return
  <2>1. CASE ReturnDone
    BY <1>c, <2>1 DEF ReturnDone, Terminal
  <2>2. CASE ReturnBoot \/ ReturnHandler \/ ReturnPending
    BY <1>0, <2>2 DEF ReturnBoot, ReturnHandler, ReturnPending, coreVars
  <2>3. QED
    BY <1>2, <2>1, <2>2 DEF Return
<1>3. CASE Pump
  BY <1>3, OrderPump DEF Pump
<1>4. CASE Dispatch
  <2>1. PICK e \in queue : PopDeliver(e) \/ PopTimer(e) \/ Skip(e) \/ PopClientOp(e) \/ PopFault(e)
    BY <1>4 DEF Dispatch
  <2>2. CASE PopClientOp(e)
    BY <2>2, OrderPopOp, PoppedOp
  <2>3. CASE PopDeliver(e) \/ PopTimer(e) \/ Skip(e) \/ PopFault(e)
    <3>1. Pop(e) /\ UNCHANGED <<history, pending, driverVars>>
      BY <2>3 DEF PopDeliver, PopTimer, Skip, PopFault
    <3>2. QED
      BY <1>0, <3>1 DEF Pop
  <2>4. QED
    BY <2>1, <2>2, <2>3
<1>5. CASE CloseVictim \/ ForceClose
  BY <1>c, <1>5 DEF CloseVictim, ForceClose, Terminal
<1>6. CASE VictimsClosed \/ Stop \/ UNCHANGED vars
  BY <1>0, <1>6 DEF VictimsClosed, Stop, vars, coreVars
<1>7. CASE Finish
  BY <1>0, <1>7 DEF Finish
<1>8. QED
  BY <1>1, <1>2, <1>3, <1>4, <1>5, <1>6, <1>7 DEF Next, Terminated
-----------------------------------------------------------------------------
(* The steps of the clients.                                               *)

OpenTable == [p \in Node |-> OpenOpOf(p)]

LEMMA ClientsStutter ==
  ASSUME UNCHANGED <<history, pending>>, (pc' = "done") = (pc = "done")
  PROVE  UNCHANGED Clients!clientVars
BY DEF Clients!clientVars, OpenOpOf, OpenOps

(* The op that a process has open, by what is in its set.                  *)
OneOf(S) == IF S = {} THEN 0 ELSE (CHOOSE o \in S : TRUE).op

LEMMA OpenOpIsOne == \A p : OpenOpOf(p) = OneOf(OpenOps(p)) /\ OpenOpOf(p)' = OneOf(OpenOps(p)')
BY DEF OpenOpOf, OneOf

LEMMA OneOfValues == OneOf({}) = 0 /\ \A o : OneOf({o}) = o.op
<1>1. \A o : (CHOOSE x \in {o} : TRUE) = o
  OBVIOUS
<1>2. QED
  BY <1>1 DEF OneOf

(* Only the process of the op that is opened or closed has another one.    *)
LEMMA OpenTableAfter ==
  ASSUME NEW p \in Node, NEW x, OpenOpOf(p)' = x,
         \A q \in Node : q # p => OpenOps(q)' = OpenOps(q)
  PROVE  OpenTable' = [OpenTable EXCEPT ![p] = x]
<1>1. \A q \in Node : q # p => OpenOpOf(q)' = OpenOpOf(q)
  BY OpenOpIsOne
<1>2. QED
  BY <1>1 DEF OpenTable

(* The time of an entry that is appended is that of the clock.             *)
LEMMA LastEntry ==
  ASSUME ClientInv, now <= now', now' \in Nat, NEW entry, history' = Append(history, entry),
         entry.time = now'
  PROVE  Clients!TimeAdvances /\ Clients!NewTime = now'
<1>1. history \in Seq(OpEntry) /\ now \in Nat
  BY ClientTypes DEF CoreTypeOK
<1>2. Len(history') = Len(history) + 1 /\ history'[Len(history) + 1] = entry /\ history' # <<>>
  BY <1>1
<1>3. Clients!NewTime = now'
  BY <1>2 DEF Clients!NewTime
<1>4. history # <<>> => history[Len(history)].time <= now'
  <2> SUFFICES ASSUME history # <<>>
               PROVE  history[Len(history)].time <= now'
    OBVIOUS
  <2>1. Len(history) \in DOMAIN history
    BY <1>1
  <2>2. history[Len(history)].time <= now /\ history[Len(history)].time \in Nat
    BY <2>1, HistoryFields, ClientTypes DEF ClientInv, StreamOrder, PastIsRecorded
  <2>3. QED
    BY <1>1, <2>2
<1>5. QED
  BY <1>2, <1>3, <1>4 DEF Clients!TimeAdvances

(* Closing an op completes it for its client, or does nothing.             *)
LEMMA CloseCompletes ==
  ASSUME ClientInv, NEW token, NEW kind \in Terminal, CloseOp(token, kind),
         now' = now, pc # "done", pc' # "done"
  PROVE  [Clients!Next]_Clients!clientVars
<1>1. CASE UNCHANGED <<pending, history>>
  BY <1>1, ClientsStutter
<1>2. ASSUME NEW o \in pending, pending' = pending \ {o},
             history' = Append(history, Entry(now, kind, o.process, o.op))
      PROVE  Clients!Next
  <2> DEFINE p == o.process
  <2>1. p \in Node /\ o \in OpenOps(p) /\ now \in Nat
    BY ClientTypes DEF CoreTypeOK, PendingOp, OpenOps
  <2>2. OpenOps(p) = {o}
    <3>1. NothingInFlight(p) \/ OpQueued(p) \/ OpOpen(p)
      BY <2>1, OneInFlightCases DEF ClientInv
    <3>2. QED
      BY <2>1, <3>1 DEF NothingInFlight, OpQueued, OpOpen
  <2>3. OpenTable[p] = o.op /\ o.op # 0
    <3>1. o.op \in DOMAIN ops /\ ops \in Seq(FrozenOp)
      BY ClientTypes DEF ClientInv, StreamOrder, OpenNext, TypeOK, DriverTypeOK
    <3>2. o.op # 0
      BY <3>1
    <3>3. QED
      BY <2>1, <2>2, <3>2, OpenOpIsOne, OneOfValues DEF OpenTable
  <2>4. OpenTable' = [OpenTable EXCEPT ![p] = 0]
    <3>1. OpenOps(p)' = {} /\ \A q \in Node : q # p => OpenOps(q)' = OpenOps(q)
      BY <1>2, <2>2 DEF OpenOps
    <3>2. OpenOpOf(p)' = 0
      BY <3>1, OpenOpIsOne, OneOfValues
    <3>3. QED
      BY <2>1, <3>1, <3>2, OpenTableAfter
  <2>5. Clients!TimeAdvances /\ Clients!NewTime = now
    BY <1>2, <2>1, LastEntry DEF Entry
  <2>6. kind \in Clients!Completion
    BY DEF Clients!Completion, Terminal
  <2>7. history' = Append(history, Clients!Recorded(Clients!NewTime, kind, p, OpenTable[p]))
    BY <1>2, <2>3, <2>5 DEF Entry, Clients!Recorded
  <2>8. Clients!Complete(p, kind)
    BY <2>3, <2>4, <2>5, <2>7 DEF Clients!Complete, OpenTable, Clients!NoOp
  <2>9. QED
    BY <2>1, <2>6, <2>8 DEF Clients!Next
<1>3. QED
  BY <1>1, <1>2 DEF CloseOp

(* A client op that is popped is invoked by its client, who has nothing    *)
(* open and has not recorded an op as far in the stream.                   *)
LEMMA PopInvokes ==
  ASSUME ClientInv, NEW e \in queue, PopClientOp(e)
  PROVE  Clients!Next
<1> DEFINE p == e.kind.process
           i == e.kind.index
           a == Entry(e.at, "invoke", p, i)
           b == Entry(e.at, "fail", p, i)
<1>1. /\ p \in Node /\ i \in DOMAIN ops /\ i \in Nat /\ i # 0
      /\ OpenOps(p) = {}
      /\ \A k \in DOMAIN history : history[k].process = p => history[k].op < i
      /\ e.at \in Nat /\ now' = e.at /\ now <= now' /\ pc = "pop"
  BY PoppedOp
<1>2. i \in StreamOps
  BY <1>1 DEF ClientInv
<1>3. OpenTable[p] = 0
  BY <1>1, OpenOpIsOne, OneOfValues DEF OpenTable
<1>4. Clients!Unused(p, i)
  BY <1>1 DEF Clients!Unused
<1>5. pc' # "done"
  BY DEF PopClientOp
<1>6. a.time = now' /\ b.time = now'
  BY <1>1 DEF Entry
<1>7. history \in Seq(OpEntry)
  BY ClientTypes DEF CoreTypeOK
<1>8. CASE OpenOp(e.at, p, i)
  <2>1. history' = Append(history, a)
        /\ pending' = pending \cup {[token |-> nextToken, process |-> p, op |-> i]}
    BY <1>8 DEF OpenOp
  <2>2. OpenTable' = [OpenTable EXCEPT ![p] = i]
    <3>1. /\ OpenOps(p)' = {[token |-> nextToken, process |-> p, op |-> i]}
          /\ \A q \in Node : q # p => OpenOps(q)' = OpenOps(q)
      BY <1>1, <2>1 DEF OpenOps
    <3>2. OpenOpOf(p)' = i
      <4>1. PICK o : o = [token |-> nextToken, process |-> p, op |-> i]
        OBVIOUS
      <4>2. o.op = i
        BY <4>1
      <4>3. OpenOps(p)' = {o}
        BY <3>1, <4>1
      <4>4. OpenOpOf(p)' = OneOf({o})
        BY <4>3, OpenOpIsOne
      <4>5. QED
        BY <4>2, <4>4, OneOfValues
    <3>3. QED
      BY <1>1, <3>1, <3>2, OpenTableAfter
  <2>3. Clients!TimeAdvances /\ Clients!NewTime = now'
    BY <1>1, <1>6, <2>1, LastEntry
  <2>4. a = Clients!Recorded(Clients!NewTime, "invoke", p, i)
    BY <1>1, <2>3 DEF Entry, Clients!Recorded
  <2>5. Clients!Invoke(p, i)
    BY <1>1, <1>3, <1>4, <1>5, <2>1, <2>2, <2>3, <2>4
       DEF Clients!Invoke, OpenTable, Clients!NoOp
  <2>6. QED
    BY <1>1, <1>2, <2>5 DEF Clients!Next, StreamOps
<1>9. CASE RejectOp(e.at, p, i)
  <2>1. history' = history \o <<a, b>> /\ pending' = pending
    BY <1>9 DEF RejectOp
  <2>2. Len(history') = Len(history) + 2 /\ history'[Len(history) + 2] = b /\ history' # <<>>
    BY <1>7, <2>1
  <2>3. Clients!NewTime = now'
    BY <1>6, <2>2 DEF Clients!NewTime
  <2>4. history # <<>> => history[Len(history)].time <= now'
    <3> SUFFICES ASSUME history # <<>>
                 PROVE  history[Len(history)].time <= now'
      OBVIOUS
    <3>1. Len(history) \in DOMAIN history
      BY <1>7
    <3>2. history[Len(history)].time <= now /\ history[Len(history)].time \in Nat
      BY <3>1, HistoryFields, ClientTypes DEF ClientInv, StreamOrder, PastIsRecorded
    <3>3. now \in Nat
      BY ClientTypes DEF CoreTypeOK
    <3>4. QED
      BY <1>1, <3>2, <3>3
  <2>5. Clients!TimeAdvances
    BY <2>2, <2>3, <2>4 DEF Clients!TimeAdvances
  <2>6. /\ a = Clients!Recorded(Clients!NewTime, "invoke", p, i)
        /\ b = Clients!Recorded(Clients!NewTime, "fail", p, i)
    BY <1>1, <2>3 DEF Entry, Clients!Recorded
  <2>7. OpenTable' = OpenTable
    BY <2>1 DEF OpenTable, OpenOpOf, OpenOps
  <2>8. Clients!Reject(p, i)
    BY <1>1, <1>3, <1>4, <1>5, <2>1, <2>5, <2>6, <2>7
       DEF Clients!Reject, OpenTable, Clients!NoOp
  <2>9. QED
    BY <1>1, <1>2, <2>8 DEF Clients!Next, StreamOps
<1>10. QED
  BY <1>8, <1>9 DEF PopClientOp

LEMMA ClientStep == ClientInv /\ [Next]_vars => [Clients!Next]_Clients!clientVars
<1> SUFFICES ASSUME ClientInv, [Next]_vars
             PROVE  [Clients!Next]_Clients!clientVars
  OBVIOUS
<1>c. ControlTypeOK
  BY ClientTypes DEF TypeOK
<1>0. ASSUME UNCHANGED <<history, pending>>, pc # "done", pc' # "done"
      PROVE  UNCHANGED Clients!clientVars
  BY <1>0, ClientsStutter
<1>1. CASE Effect
  <2>1. ASSUME Running, Spend
        PROVE  pc # "done" /\ pc' # "done"
    BY <2>1 DEF Running, Spend
  <2>2. ASSUME NEW to \in Node, NEW msg \in Msg, Send(to, msg)
        PROVE  UNCHANGED Clients!clientVars
    BY <1>0, <2>1, <2>2 DEF Send
  <2>3. ASSUME NEW to \in Node, SendLost(to)
        PROVE  UNCHANGED Clients!clientVars
    BY <1>0, <2>1, <2>3 DEF SendLost
  <2>4. ASSUME NEW t \in Timer, NEW after \in After, SetTimer(t, after)
        PROVE  UNCHANGED Clients!clientVars
    BY <1>0, <2>1, <2>4 DEF SetTimer
  <2>5. ASSUME NEW t \in Timer, Cancel(t)
        PROVE  UNCHANGED Clients!clientVars
    BY <1>0, <2>1, <2>5 DEF Cancel
  <2>6. ASSUME NEW token, NEW kind \in Terminal, CompleteOp(token, kind)
        PROVE  [Clients!Next]_Clients!clientVars
    BY <2>1, <2>6, CloseCompletes DEF CompleteOp
  <2>7. QED
    BY <1>1, <2>2, <2>3, <2>4, <2>5, <2>6 DEF Effect
<1>2. CASE ReturnDone
  BY <1>2, CloseCompletes DEF ReturnDone, Terminal
<1>3. CASE ReturnBoot \/ ReturnHandler \/ ReturnPending
  BY <1>0, <1>3 DEF ReturnBoot, ReturnHandler, ReturnPending, coreVars
<1>4. CASE Pump \/ VictimsClosed \/ Finish
  BY <1>0, <1>4 DEF Pump, VictimsClosed, Finish, coreVars
<1>5. CASE Dispatch
  <2>1. PICK e \in queue : PopDeliver(e) \/ PopTimer(e) \/ Skip(e) \/ PopClientOp(e) \/ PopFault(e)
    BY <1>5 DEF Dispatch
  <2>2. CASE PopClientOp(e)
    BY <2>2, PopInvokes
  <2>3. CASE PopDeliver(e) \/ PopTimer(e) \/ Skip(e) \/ PopFault(e)
    <3>1. UNCHANGED <<history, pending>> /\ pc = "pop" /\ pc' # "done"
      BY <2>3 DEF PopDeliver, PopTimer, Skip, PopFault, Pop, control
    <3>2. QED
      BY <1>0, <3>1
  <2>4. QED
    BY <2>1, <2>2, <2>3
<1>6. CASE CloseVictim \/ ForceClose
  BY <1>6, CloseCompletes DEF CloseVictim, ForceClose, control, Terminal
<1>7. CASE Stop
  <2>1. /\ pc = "drain" /\ pc' = "done" /\ pending = {}
        /\ UNCHANGED <<history, pending>>
    BY <1>7 DEF Stop, coreVars
  <2>2. \A p \in Node : OpenTable[p] = 0
    BY <2>1, OpenOpIsOne, OneOfValues DEF OpenTable, OpenOps
  <2>3. OpenTable' = OpenTable
    BY <2>1 DEF OpenTable, OpenOpOf, OpenOps
  <2>4. Clients!End
    BY <2>1, <2>2, <2>3 DEF Clients!End, OpenTable, Clients!NoOp
  <2>5. QED
    BY <2>4 DEF Clients!Next
<1>8. CASE UNCHANGED vars
  BY <1>8, ClientsStutter DEF vars, coreVars, control
<1>9. QED
  BY <1>1, <1>2, <1>3, <1>4, <1>5, <1>6, <1>7, <1>8 DEF Next, Return, Terminated

(* What the program records is a history of sequential clients (open_op,   *)
(* close_op, pump_client_ops): for any nodes, which may complete any op at *)
(* any time and as often as they like, and any faults.                     *)
THEOREM ClientsRefined == Spec => ImplementsSequentialClients
<1>1. Init => Clients!Init
  <2> SUFFICES ASSUME Init
               PROVE  Clients!Init
    OBVIOUS
  <2>1. history = <<>> /\ pending = {} /\ pc = "callback"
    BY DEF Init, CoreInit
  <2>2. \A p \in Node : OpenOpOf(p) = 0
    BY <2>1 DEF OpenOpOf, OpenOps
  <2>3. QED
    BY <2>1, <2>2 DEF Clients!Init, Clients!NoOp
<1>2. QED
  BY <1>1, ClientInit, ClientNext, ClientStep, PTL
     DEF Spec, ImplementsSequentialClients, Clients!Spec

-----------------------------------------------------------------------------
(* What module Linearizability assumes of a history: between two           *)
(* invocations of a process there is a completion of it.                   *)
IsSequential(h) ==
  \A i, j \in DOMAIN h :
    i < j /\ h[i].kind = "invoke" /\ h[j].kind = "invoke" /\ h[i].process = h[j].process
    => \E k \in (i + 1) .. (j - 1) : h[k].process = h[i].process /\ h[k].kind # "invoke"

(* An invocation of p that nothing of p has completed.                     *)
Unanswered(h, p) ==
  \E i \in DOMAIN h :
    /\ h[i].process = p /\ h[i].kind = "invoke"
    /\ \A k \in (i + 1) .. Len(h) : h[k].process = p => h[k].kind = "invoke"

AnsweredInv ==
  IsSequential(history) /\ \A p \in Node : Unanswered(history, p) => OpenOps(p) # {}

LEMMA AppendedEntry ==
  ASSUME NEW h \in Seq(OpEntry), NEW entry \in OpEntry
  PROVE  /\ Append(h, entry) \in Seq(OpEntry)
         /\ Len(h) \in Nat /\ Len(Append(h, entry)) = Len(h) + 1
         /\ DOMAIN h = 1 .. Len(h) /\ DOMAIN Append(h, entry) = 1 .. (Len(h) + 1)
         /\ Append(h, entry)[Len(h) + 1] = entry
         /\ \A k \in 1 .. Len(h) : Append(h, entry)[k] = h[k]
OBVIOUS

LEMMA CompletionAnswers ==
  ASSUME NEW h \in Seq(OpEntry), NEW entry \in OpEntry, entry.kind # "invoke", IsSequential(h)
  PROVE  /\ IsSequential(Append(h, entry))
         /\ \A p : Unanswered(Append(h, entry), p) => p # entry.process /\ Unanswered(h, p)
<1> DEFINE more == Append(h, entry)
<1>1. /\ Len(h) \in Nat /\ Len(more) = Len(h) + 1
      /\ DOMAIN h = 1 .. Len(h) /\ DOMAIN more = 1 .. (Len(h) + 1)
      /\ more[Len(h) + 1] = entry /\ \A k \in 1 .. Len(h) : more[k] = h[k]
  BY AppendedEntry
<1> HIDE DEF more
<1>2. IsSequential(more)
  <2> SUFFICES ASSUME NEW i \in DOMAIN more, NEW j \in DOMAIN more, i < j,
                      more[i].kind = "invoke", more[j].kind = "invoke",
                      more[i].process = more[j].process
               PROVE  \E k \in (i + 1) .. (j - 1) :
                        more[k].process = more[i].process /\ more[k].kind # "invoke"
    BY DEF IsSequential
  <2>1. i \in 1 .. Len(h) /\ j \in 1 .. Len(h)
    BY <1>1
  <2>2. PICK k \in (i + 1) .. (j - 1) : h[k].process = h[i].process /\ h[k].kind # "invoke"
    BY <1>1, <2>1 DEF IsSequential
  <2>3. k \in 1 .. Len(h)
    BY <1>1, <2>1, <2>2
  <2>4. QED
    BY <1>1, <2>1, <2>2, <2>3
<1>3. ASSUME NEW p, Unanswered(more, p)
      PROVE  p # entry.process /\ Unanswered(h, p)
  <2>1. PICK i \in DOMAIN more :
          /\ more[i].process = p /\ more[i].kind = "invoke"
          /\ \A k \in (i + 1) .. Len(more) : more[k].process = p => more[k].kind = "invoke"
    BY <1>3 DEF Unanswered
  <2>2. i \in 1 .. Len(h)
    BY <1>1, <2>1
  <2>3. p # entry.process
    <3>1. Len(h) + 1 \in (i + 1) .. Len(more)
      BY <1>1, <2>2
    <3>2. QED
      BY <1>1, <2>1, <3>1
  <2>4. \A k \in (i + 1) .. Len(h) : h[k].process = p => h[k].kind = "invoke"
    <3>1. \A k \in (i + 1) .. Len(h) : k \in (i + 1) .. Len(more) /\ k \in 1 .. Len(h)
      BY <1>1, <2>2
    <3>2. QED
      BY <1>1, <2>1, <3>1
  <2>5. QED
    BY <1>1, <2>1, <2>2, <2>3, <2>4 DEF Unanswered
<1>4. QED
  BY <1>2, <1>3 DEF more

LEMMA InvocationWaits ==
  ASSUME NEW h \in Seq(OpEntry), NEW entry \in OpEntry, IsSequential(h),
         ~Unanswered(h, entry.process)
  PROVE  /\ IsSequential(Append(h, entry))
         /\ \A p : Unanswered(Append(h, entry), p) => p = entry.process \/ Unanswered(h, p)
<1> DEFINE more == Append(h, entry)
<1>1. /\ Len(h) \in Nat /\ Len(more) = Len(h) + 1
      /\ DOMAIN h = 1 .. Len(h) /\ DOMAIN more = 1 .. (Len(h) + 1)
      /\ more[Len(h) + 1] = entry /\ \A k \in 1 .. Len(h) : more[k] = h[k]
  BY AppendedEntry
<1> HIDE DEF more
<1>2. IsSequential(more)
  <2> SUFFICES ASSUME NEW i \in DOMAIN more, NEW j \in DOMAIN more, i < j,
                      more[i].kind = "invoke", more[j].kind = "invoke",
                      more[i].process = more[j].process
               PROVE  \E k \in (i + 1) .. (j - 1) :
                        more[k].process = more[i].process /\ more[k].kind # "invoke"
    BY DEF IsSequential
  <2>1. i \in 1 .. Len(h)
    BY <1>1
  <2>2. CASE j \in 1 .. Len(h)
    <3>1. PICK k \in (i + 1) .. (j - 1) : h[k].process = h[i].process /\ h[k].kind # "invoke"
      BY <1>1, <2>1, <2>2 DEF IsSequential
    <3>2. k \in 1 .. Len(h)
      BY <1>1, <2>1, <2>2, <3>1
    <3>3. QED
      BY <1>1, <2>1, <3>1, <3>2
  <2>3. CASE j = Len(h) + 1
    <3>1. h[i].process = entry.process /\ h[i].kind = "invoke"
      BY <1>1, <2>1, <2>3
    <3>2. PICK k \in (i + 1) .. Len(h) : h[k].process = entry.process /\ h[k].kind # "invoke"
      BY <1>1, <2>1, <3>1 DEF Unanswered
    <3>3. k \in 1 .. Len(h) /\ k \in (i + 1) .. (j - 1)
      BY <1>1, <2>1, <2>3, <3>2
    <3>4. QED
      BY <1>1, <2>1, <3>1, <3>2, <3>3
  <2>4. QED
    BY <1>1, <2>2, <2>3
<1>3. ASSUME NEW p, Unanswered(more, p), p # entry.process
      PROVE  Unanswered(h, p)
  <2>1. PICK i \in DOMAIN more :
          /\ more[i].process = p /\ more[i].kind = "invoke"
          /\ \A k \in (i + 1) .. Len(more) : more[k].process = p => more[k].kind = "invoke"
    BY <1>3 DEF Unanswered
  <2>2. i \in 1 .. Len(h)
    BY <1>1, <1>3, <2>1
  <2>3. \A k \in (i + 1) .. Len(h) : k \in (i + 1) .. Len(more) /\ k \in 1 .. Len(h)
    BY <1>1, <2>2
  <2>4. \A k \in (i + 1) .. Len(h) : h[k].process = p => h[k].kind = "invoke"
    BY <1>1, <2>1, <2>3
  <2>5. QED
    BY <1>1, <2>1, <2>2, <2>4 DEF Unanswered
<1>4. QED
  BY <1>2, <1>3 DEF more

LEMMA AnsweredInit == Init => AnsweredInv
<1> SUFFICES ASSUME Init
             PROVE  AnsweredInv
  OBVIOUS
<1>1. history = <<>>
  BY DEF Init, CoreInit
<1>2. DOMAIN history = {}
  BY <1>1
<1>3. QED
  BY <1>2 DEF AnsweredInv, IsSequential, Unanswered

LEMMA AnsweredKept ==
  ASSUME AnsweredInv, UNCHANGED <<history, pending>>
  PROVE  AnsweredInv'
<1>1. \A p : OpenOps(p)' = OpenOps(p)
  BY DEF OpenOps
<1>2. IsSequential(history)' /\ \A p : Unanswered(history, p)' <=> Unanswered(history, p)
  BY DEF AnsweredInv, IsSequential, Unanswered
<1>3. QED
  BY <1>1, <1>2 DEF AnsweredInv

LEMMA AnsweredClose ==
  ASSUME CoreTypeOK, AnsweredInv, NEW token, NEW kind \in Terminal, CloseOp(token, kind)
  PROVE  AnsweredInv'
<1>1. CASE UNCHANGED <<pending, history>>
  BY <1>1, AnsweredKept
<1>2. ASSUME NEW o \in pending,
             pending' = pending \ {o},
             history' = Append(history, Entry(now, kind, o.process, o.op))
      PROVE  AnsweredInv'
  <2> DEFINE entry == Entry(now, kind, o.process, o.op)
  <2>1. entry \in OpEntry /\ entry.kind # "invoke" /\ entry.process = o.process
    BY OpEntryType DEF CoreTypeOK, PendingOp, Entry, Terminal
  <2>2. history \in Seq(OpEntry) /\ history' = Append(history, entry)
    BY <1>2 DEF CoreTypeOK
  <2> HIDE DEF entry
  <2>3. /\ IsSequential(history')
        /\ \A p : Unanswered(history', p) => p # o.process /\ Unanswered(history, p)
    BY <2>1, <2>2, CompletionAnswers DEF AnsweredInv
  <2>4. \A p : p # o.process => OpenOps(p)' = OpenOps(p)
    BY <1>2 DEF OpenOps
  <2>5. QED
    BY <2>3, <2>4 DEF AnsweredInv
<1>3. QED
  BY <1>1, <1>2 DEF CloseOp

LEMMA AnsweredOpen ==
  ASSUME TypeOK, OneInFlight, AnsweredInv, NEW e \in queue, PopClientOp(e)
  PROVE  AnsweredInv'
<1> DEFINE p == e.kind.process
           i == e.kind.index
           a == Entry(e.at, "invoke", p, i)
           b == Entry(e.at, "fail", p, i)
<1>1. /\ e.kind.type = "op" /\ p \in Node /\ i \in Nat /\ e.at \in Nat /\ history \in Seq(OpEntry)
  BY EventFields, OpIndices DEF PopClientOp, TypeOK, DriverTypeOK, CoreTypeOK
<1>2. e \in QueuedOps(p)
  BY <1>1 DEF QueuedOps
<1>3. OpenOps(p) = {}
  BY <1>1, <1>2, OneInFlightCases DEF NothingInFlight, OpQueued, OpOpen
<1>4. /\ a \in OpEntry /\ a.process = p
      /\ b \in OpEntry /\ b.process = p /\ b.kind # "invoke"
  BY <1>1, OpEntryType DEF Entry, Terminal
<1>5. \/ /\ history' = Append(history, a)
         /\ \E o : o.process = p /\ pending' = pending \cup {o}
      \/ history' = history \o <<a, b>> /\ pending' = pending
  <2>1. \A n : [token |-> n, process |-> p, op |-> i].process = p
    OBVIOUS
  <2>2. QED
    BY <2>1 DEF PopClientOp, OpenOp, RejectOp
<1> HIDE DEF a, b, p
<1>6. ~Unanswered(history, p)
  BY <1>1, <1>3 DEF AnsweredInv
<1>7. /\ Append(history, a) \in Seq(OpEntry) /\ IsSequential(Append(history, a))
      /\ \A q : Unanswered(Append(history, a), q) => q = p \/ Unanswered(history, q)
  BY <1>1, <1>4, <1>6, InvocationWaits, AppendedEntry DEF AnsweredInv
<1>8. ASSUME NEW o, o.process = p, history' = Append(history, a), pending' = pending \cup {o}
      PROVE  AnsweredInv'
  <2>1. OpenOps(p)' # {} /\ \A q : OpenOps(q) \subseteq OpenOps(q)'
    BY <1>8 DEF OpenOps
  <2>2. \A q \in Node : Unanswered(history', q) => OpenOps(q)' # {}
    BY <1>7, <1>8, <2>1 DEF AnsweredInv
  <2>3. QED
    BY <1>7, <1>8, <2>2 DEF AnsweredInv
<1>9. CASE history' = history \o <<a, b>> /\ pending' = pending
  <2>1. history' = Append(Append(history, a), b)
    BY <1>1, <1>4, <1>9
  <2>2. /\ IsSequential(history')
        /\ \A q : Unanswered(history', q) => q # p /\ Unanswered(Append(history, a), q)
    <3>1. PICK h \in Seq(OpEntry) : h = Append(history, a)
      BY <1>7
    <3>2. /\ IsSequential(Append(h, b))
          /\ \A q : Unanswered(Append(h, b), q) => q # p /\ Unanswered(h, q)
      BY <1>4, <1>7, <3>1, CompletionAnswers
    <3>3. QED
      BY <2>1, <3>1, <3>2
  <2>3. \A q : OpenOps(q)' = OpenOps(q)
    BY <1>9 DEF OpenOps
  <2>4. QED
    BY <1>7, <2>2, <2>3 DEF AnsweredInv
<1>10. QED
  BY <1>5, <1>8, <1>9

LEMMA AnsweredNext == TypeOK /\ OneInFlight /\ AnsweredInv /\ [Next]_vars => AnsweredInv'
<1> SUFFICES ASSUME TypeOK, OneInFlight, AnsweredInv, [Next]_vars
             PROVE  AnsweredInv'
  OBVIOUS
<1>1. CASE Effect
  <2>1. ASSUME NEW token, NEW kind \in Terminal, CompleteOp(token, kind)
        PROVE  AnsweredInv'
    BY <2>1, AnsweredClose DEF CompleteOp, TypeOK
  <2>2. QED
    BY <1>1, <2>1, AnsweredKept DEF Effect, Send, SendLost, SetTimer, Cancel
<1>2. CASE ReturnDone
  BY <1>2, AnsweredClose DEF ReturnDone, TypeOK, Terminal
<1>3. CASE CloseVictim \/ ForceClose
  <2>1. PICK token : CloseOp(token, "info")
    BY <1>3 DEF CloseVictim, ForceClose
  <2>2. QED
    BY <2>1, AnsweredClose DEF TypeOK, Terminal
<1>4. CASE Dispatch
  <2>1. PICK e \in queue : \/ PopDeliver(e) \/ PopTimer(e) \/ Skip(e)
                           \/ PopClientOp(e) \/ PopFault(e)
    BY <1>4 DEF Dispatch
  <2>2. CASE PopDeliver(e) \/ PopTimer(e) \/ Skip(e) \/ PopFault(e)
    BY <2>2, AnsweredKept DEF PopDeliver, PopTimer, Skip, PopFault
  <2>3. QED
    BY <2>1, <2>2, AnsweredOpen
<1>5. CASE ReturnBoot \/ ReturnHandler \/ ReturnPending \/ Pump \/ VictimsClosed \/ Finish \/ Stop
  BY <1>5, AnsweredKept DEF ReturnBoot, ReturnHandler, ReturnPending, Pump, VictimsClosed,
                            Finish, Stop, coreVars
<1>6. CASE Terminated \/ UNCHANGED vars
  BY <1>6, AnsweredKept DEF Terminated, vars, coreVars
<1>7. QED
  BY <1>1, <1>2, <1>3, <1>4, <1>5, <1>6 DEF Next, Return

(* The histories a run records are those the checker is right about: a     *)
(* process completes its op before it invokes the next one, whichever node *)
(* completes it and however often, also across crashes                     *)
(* (pump_client_ops, complete_op; parse_spans relies on it).               *)
THEOREM HistoriesSequential == Spec => []IsSequential(history)
<1> DEFINE Inv == TypeOK /\ OneInFlight /\ AnsweredInv
<1>1. Init => Inv
  BY TypeInit, FlightInit, AnsweredInit
<1>2. Inv /\ [Next]_vars => Inv'
  BY TypeNext, FlightNext, AnsweredNext
<1>3. Inv => IsSequential(history)
  BY DEF AnsweredInv
<1>4. QED
  BY <1>1, <1>2, <1>3, PTL DEF Spec
=============================================================================
