---------------------------- MODULE ObservedProofs ---------------------------
(***************************************************************************)
(* The verdicts read off the frames of a run are those of the true course  *)
(* of the predicate, whatever the nodes, the setups and the properties     *)
(* are, for predicates that do not read World::now().                      *)
(***************************************************************************)
EXTENDS ObservedRun, NetworkProofs

observed == <<vars, observers>>

Film == [at : Nat, holds : BOOLEAN]

(* A frame shows the instant t; an anchor is shown, or will be by the      *)
(* frame that ends the event being dispatched.                             *)
Shown(t) == \E i \in DOMAIN frames : frames[i].at = t

Anchored(t) == Shown(t) \/ (pc \in {"callback", "pump"} /\ now = t)

Anchors == Anchored(0) /\ \A k \in DOMAIN events : Anchored(events[k].at)

(* A stretch of the course is shown by the last frame before it: the next  *)
(* one is taken when it is over.                                           *)
ShownBy(i, s) ==
  /\ frames[i].holds = s.holds
  /\ frames[i].at = s.from \/ (frames[i].at < s.from /\ s.from < s.to)
  /\ \A j \in DOMAIN frames : frames[j].at <= frames[i].at \/ s.to <= frames[j].at

CourseIsShown ==
  \A s \in course :
    /\ s.from \in Nat /\ s.to \in Nat /\ s.to <= now
    /\ \E i \in DOMAIN frames : ShownBy(i, s)

FramesAreTrue ==
  \A i \in DOMAIN frames :
    [from |-> frames[i].at, to |-> frames[i].at, holds |-> frames[i].holds] \in course

(* Between two events the predicate is as the last frame shows it.         *)
LastFrame ==
  pc = "pop" =>
    \E i \in DOMAIN frames : /\ frames[i].holds = holds
                             /\ \A j \in DOMAIN frames : frames[j].at <= frames[i].at

Filmed ==
  /\ holds \in BOOLEAN /\ frames \in Seq(Film)
  /\ \A i \in DOMAIN frames : frames[i].at <= now
  /\ Anchors /\ CourseIsShown /\ FramesAreTrue /\ LastFrame

ObservedInv == NetworkInv /\ Filmed

-----------------------------------------------------------------------------
(* What the steps of the driver do to the clock and the run events.        *)
LEMMA DriverSteps ==
  ASSUME NetworkInv, Next
  PROVE  /\ now <= now' /\ now \in Nat /\ now' \in Nat
         /\ pc = "pump" => pc' = "pop" /\ now' = now /\ events' = events
         /\ pc = "callback" => pc' \in {"callback", "pump"} /\ now' = now /\ events' = events
         /\ pc \notin {"pump", "callback", "pop"} => pc' # "pop" /\ now' = now /\ events' = events
         /\ pc = "pop" /\ events' # events =>
              /\ pc' \in {"callback", "pump"}
              /\ \E e \in RunEvent : e.at = now' /\ events' = Append(events, e)
<1> DEFINE Goal ==
      /\ pc = "pump" => pc' = "pop" /\ now' = now /\ events' = events
      /\ pc = "callback" => pc' \in {"callback", "pump"} /\ now' = now /\ events' = events
      /\ pc \notin {"pump", "callback", "pop"} => pc' # "pop" /\ now' = now /\ events' = events
      /\ pc = "pop" /\ events' # events =>
           /\ pc' \in {"callback", "pump"}
           /\ \E e \in RunEvent : e.at = now' /\ events' = Append(events, e)
<1>1. now <= now' /\ now \in Nat /\ now' \in Nat
  BY ClockSteps DEF NetworkInv, TypeOK, CoreTypeOK
<1>2. ASSUME Effect
      PROVE  Goal
  BY <1>2 DEF Effect, Send, SendLost, SetTimer, Cancel, CompleteOp, Running, Spend
<1>3. ASSUME Return \/ Pump
      PROVE  Goal
  BY <1>3 DEF Return, ReturnBoot, ReturnHandler, ReturnDone, ReturnPending, Pump, coreVars
<1>4. ASSUME NEW e \in queue, PopFault(e)
      PROVE  Goal
  <2> DEFINE f == e.kind.action
  <2>1. e \in Event /\ e.at \in Nat /\ pc = "pop" /\ now' = e.at /\ e.kind.type = "fault"
    BY <1>4, EventFields DEF PopFault, Pop, NetworkInv, TypeOK, CoreTypeOK
  <2>2. f \in FaultAction
    BY <2>1, EventFields
  <2>3. CASE f.type = "partition" \/ f.type = "crash"
    <3>1. events' = events
      BY <1>4, <2>3 DEF PopFault, ApplyFault
    <3>2. QED
      BY <2>1, <3>1
  <2>4. CASE f.type = "heal"
    <3>1. /\ events' = Append(events, [type |-> "NetworkHealed", at |-> e.at])
          /\ pc' = "pump"
      BY <1>4, <2>4 DEF PopFault, ApplyFault
    <3>2. [type |-> "NetworkHealed", at |-> e.at] \in RunEvent
      BY <2>1 DEF RunEvent
    <3>3. QED
      BY <2>1, <3>1, <3>2
  <2>5. CASE f.type = "restart"
    <3>1. /\ events' = Append(events, [type |-> "NodeRejoined", at |-> e.at, node |-> f.node])
          /\ pc' = "callback"
      BY <1>4, <2>5 DEF PopFault, ApplyFault
    <3>2. [type |-> "NodeRejoined", at |-> e.at, node |-> f.node] \in RunEvent
      BY <2>1, <2>2, <2>5 DEF RunEvent, FaultAction
    <3>3. QED
      BY <2>1, <3>1, <3>2
  <2>6. QED
    BY <2>2, <2>3, <2>4, <2>5 DEF FaultAction
<1>5. ASSUME NEW e \in queue, PopDeliver(e) \/ PopTimer(e) \/ Skip(e) \/ PopClientOp(e)
      PROVE  Goal
  BY <1>5 DEF PopDeliver, PopTimer, Skip, PopClientOp, Pop
<1>6. ASSUME Dispatch
      PROVE  Goal
  BY <1>4, <1>5, <1>6 DEF Dispatch
<1>7. ASSUME CloseVictim \/ VictimsClosed \/ Finish \/ ForceClose \/ Stop
      PROVE  Goal
  BY <1>7 DEF CloseVictim, VictimsClosed, Finish, ForceClose, Stop, coreVars, control
<1>8. ASSUME Terminated
      PROVE  Goal
  BY <1>8 DEF Terminated, vars, coreVars, control
<1>9. Goal
  BY <1>2, <1>3, <1>6, <1>7, <1>8 DEF Next
<1>10. QED
  BY <1>1, <1>9

(* What a step films: a new frame is of the instant after an event, a new  *)
(* stretch of the course is of what the predicate was.                     *)
LEMMA NewFrame ==
  ASSUME Filmed, frames' = Append(frames, [at |-> now, holds |-> holds]), now \in Nat
  PROVE  LET n == Len(frames) + 1
         IN /\ DOMAIN frames' = DOMAIN frames \cup {n} /\ frames' \in Seq(Film)
            /\ \A i \in DOMAIN frames : frames'[i] = frames[i]
            /\ frames'[n].at = now /\ frames'[n].holds = holds
<1> DEFINE f == [at |-> now, holds |-> holds]
<1>1. f \in Film /\ f.at = now /\ f.holds = holds /\ frames \in Seq(Film)
  BY DEF Filmed, Film
<1> HIDE DEF f
<1>2. frames' = Append(frames, f)
  BY DEF f
<1>3. QED
  BY <1>1, <1>2

LEMMA FramesTyped ==
  ASSUME Filmed
  PROVE  \A i \in DOMAIN frames : frames[i].at \in Nat /\ frames[i].holds \in BOOLEAN
<1>1. \A i \in DOMAIN frames : frames[i] \in Film
  BY ElementOfSequence DEF Filmed
<1>2. \A f \in Film : f.at \in Nat /\ f.holds \in BOOLEAN
  BY DEF Film
<1>3. QED
  BY <1>1, <1>2

LEMMA FilmInit == ObservedInit => Filmed
<1> SUFFICES ASSUME ObservedInit
             PROVE  Filmed
  OBVIOUS
<1>1. /\ holds \in BOOLEAN /\ frames = <<>> /\ course = {} /\ events = <<>>
      /\ now = 0 /\ pc = "callback"
  BY DEF ObservedInit, Init, CoreInit
<1>2. frames \in Seq(Film) /\ DOMAIN frames = {} /\ DOMAIN events = {}
  BY <1>1
<1>3. QED
  BY <1>1, <1>2 DEF Filmed, Anchors, Anchored, CourseIsShown, FramesAreTrue, LastFrame

(* The end of an event: a frame is taken, and nothing else happens then.   *)
LEMMA FilmPump ==
  ASSUME NetworkInv, Filmed, ObservedNext, pc = "pump"
  PROVE  Filmed'
<1> DEFINE n == Len(frames) + 1
           s == [from |-> now, to |-> now, holds |-> holds]
<1>1. pc' = "pop" /\ now' = now /\ events' = events /\ now \in Nat
  BY DriverSteps DEF ObservedNext
<1>2. frames' = Append(frames, [at |-> now, holds |-> holds]) /\ course' = course \cup {s}
      /\ holds' = holds
  BY <1>1 DEF ObservedNext, Frame, Course, Returned
<1>3. /\ DOMAIN frames' = DOMAIN frames \cup {n} /\ frames' \in Seq(Film)
      /\ \A i \in DOMAIN frames : frames'[i] = frames[i]
      /\ frames'[n].at = now /\ frames'[n].holds = holds
  BY <1>1, <1>2, NewFrame
<1>4. \A i \in DOMAIN frames : frames[i].at \in Nat /\ frames[i].at <= now
  BY FramesTyped DEF Filmed
<1>5. s.from = now /\ s.to = now /\ s.holds = holds
  OBVIOUS
<1> HIDE DEF n
<1>6. \A i \in DOMAIN frames' : frames'[i].at <= now'
  BY <1>1, <1>3, <1>4
<1>7. \A t : Anchored(t) => Anchored(t)'
  BY <1>1, <1>3 DEF Anchored, Shown
<1>8. Anchors'
  BY <1>1, <1>7 DEF Filmed, Anchors
<1>9. ASSUME NEW r \in course
      PROVE  /\ r.from \in Nat /\ r.to \in Nat /\ r.to <= now'
             /\ \E i \in DOMAIN frames' : ShownBy(i, r)'
  <2>1. r.from \in Nat /\ r.to \in Nat /\ r.to <= now
    BY DEF Filmed, CourseIsShown
  <2>2. PICK i \in DOMAIN frames : ShownBy(i, r)
    BY DEF Filmed, CourseIsShown
  <2>3. ShownBy(i, r)'
    BY <1>3, <2>1, <2>2 DEF ShownBy
  <2>4. QED
    BY <1>1, <1>3, <2>1, <2>3
<1> HIDE DEF s
<1>10. PICK r : r = s
  OBVIOUS
<1>11. CourseIsShown'
  <2>1. course' = course \cup {r}
    BY <1>2, <1>10
  <2>2. n \in DOMAIN frames'
    BY <1>3
  <2>3. r.from \in Nat /\ r.to \in Nat /\ r.to <= now'
    BY <1>1, <1>5, <1>10
  <2>4. \E i \in DOMAIN frames' : ShownBy(i, r)'
    <3>1. PICK k : k = n
      OBVIOUS
    <3>2. ShownBy(k, r)'
      BY <1>1, <1>3, <1>4, <1>5, <1>10, <3>1 DEF ShownBy
    <3>3. QED
      BY <2>2, <3>1, <3>2
  <2>5. QED
    BY <1>9, <2>1, <2>3, <2>4 DEF CourseIsShown
<1>12. FramesAreTrue'
  <2>1. \A i \in DOMAIN frames :
          [from |-> frames'[i].at, to |-> frames'[i].at, holds |-> frames'[i].holds] \in course'
    BY <1>2, <1>3 DEF Filmed, FramesAreTrue
  <2>2. [from |-> frames'[n].at, to |-> frames'[n].at, holds |-> frames'[n].holds] = s
    BY <1>3 DEF s
  <2>3. QED
    BY <1>2, <1>3, <2>1, <2>2 DEF FramesAreTrue
<1>13. LastFrame'
  <2>1. n \in DOMAIN frames' /\ frames'[n].holds = holds'
    BY <1>2, <1>3
  <2>2. \A j \in DOMAIN frames' : frames'[j].at <= frames'[n].at
    BY <1>1, <1>3, <1>4
  <2>3. QED
    BY <2>1, <2>2 DEF LastFrame
<1>14. QED
  BY <1>2, <1>3, <1>6, <1>8, <1>11, <1>12, <1>13 DEF Filmed

(* Every other step: no frame is taken, and a stretch of the course is     *)
(* over if the clock moves.                                                *)
LEMMA FilmOther ==
  ASSUME NetworkInv, Filmed, ObservedNext, pc # "pump"
  PROVE  Filmed'
<1> DEFINE s == [from |-> now, to |-> now', holds |-> holds]
<1>1. now <= now' /\ now \in Nat /\ now' \in Nat /\ Next
  BY DriverSteps DEF ObservedNext
<1>2. /\ frames' = frames /\ holds' \in BOOLEAN
      /\ course' = course \/ (course' = course \cup {s} /\ pc = "pop" /\ now < now')
  BY DEF Filmed, ObservedNext, Frame, Course
<1>3. \A i \in DOMAIN frames : frames[i].at \in Nat /\ frames[i].at <= now
  BY FramesTyped DEF Filmed
<1>4. s.from = now /\ s.to = now' /\ s.holds = holds
  OBVIOUS
<1> HIDE DEF s
<1>5. \A i \in DOMAIN frames : frames[i].at <= now'
  BY <1>1, <1>3
<1>6. ASSUME NEW t, Anchored(t)
      PROVE  Anchored(t)'
  BY <1>1, <1>2, <1>6, DriverSteps DEF Anchored, Shown
<1>7. Anchors'
  <2>1. CASE events' = events
    BY <1>6, <2>1 DEF Filmed, Anchors
  <2>2. CASE events' # events
    <3>1. pc = "pop" /\ pc' \in {"callback", "pump"}
      BY <1>1, <2>2, DriverSteps
    <3>2. PICK e \in RunEvent : e.at = now' /\ events' = Append(events, e)
      BY <1>1, <2>2, <3>1, DriverSteps
    <3>3. events \in Seq(RunEvent)
      BY DEF NetworkInv, TypeOK, CoreTypeOK
    <3>4. \A k \in DOMAIN events' : \/ k \in DOMAIN events /\ events'[k] = events[k]
                                    \/ events'[k] = e
      BY <3>2, <3>3
    <3>5. \A k \in DOMAIN events' : Anchored(events[k].at)'
      <4> SUFFICES ASSUME NEW k \in DOMAIN events'
                   PROVE  Anchored(events[k].at)'
        OBVIOUS
      <4>1. CASE events'[k] = e
        BY <3>1, <3>2, <4>1 DEF Anchored
      <4>2. CASE k \in DOMAIN events /\ events'[k] = events[k]
        <5>1. PICK t : t = events[k].at
          OBVIOUS
        <5>2. Anchored(t) /\ events'[k].at = t
          BY <4>2, <5>1 DEF Filmed, Anchors
        <5>3. QED
          BY <1>6, <5>2
      <4>3. QED
        BY <3>4, <4>1, <4>2
    <3>6. QED
      BY <1>6, <3>5 DEF Filmed, Anchors
  <2>3. QED
    BY <2>1, <2>2
<1>8. \A i, r : ShownBy(i, r)' <=> ShownBy(i, r)
  BY <1>2 DEF ShownBy
<1>9. \A r \in course : /\ r.from \in Nat /\ r.to \in Nat /\ r.to <= now'
                        /\ \E i \in DOMAIN frames : ShownBy(i, r)
  BY <1>1 DEF Filmed, CourseIsShown
<1>10. ASSUME pc = "pop", now < now'
       PROVE  \E i \in DOMAIN frames : ShownBy(i, s)
  <2>1. PICK i \in DOMAIN frames : /\ frames[i].holds = holds
                                   /\ \A j \in DOMAIN frames : frames[j].at <= frames[i].at
    BY <1>10 DEF Filmed, LastFrame
  <2>2. frames[i].at = now \/ frames[i].at < now
    BY <1>1, <1>3
  <2>3. QED
    BY <1>4, <1>10, <2>1, <2>2 DEF ShownBy
<1>11. CourseIsShown'
  <2>1. CASE course' = course
    BY <1>2, <1>8, <1>9, <2>1 DEF CourseIsShown
  <2>2. CASE course' = course \cup {s} /\ pc = "pop" /\ now < now'
    <3>1. PICK r : r = s
      OBVIOUS
    <3>2. \E i \in DOMAIN frames : ShownBy(i, r)
      BY <1>10, <2>2, <3>1
    <3>3. r.from \in Nat /\ r.to \in Nat /\ r.to <= now'
      BY <1>1, <1>4, <3>1
    <3>4. course' = course \cup {r}
      BY <2>2, <3>1
    <3>5. QED
      BY <1>2, <1>8, <1>9, <3>2, <3>3, <3>4 DEF CourseIsShown
  <2>3. QED
    BY <1>2, <2>1, <2>2
<1>12. FramesAreTrue'
  BY <1>2 DEF Filmed, FramesAreTrue
<1>13. LastFrame'
  <2> SUFFICES ASSUME pc' = "pop"
               PROVE  LastFrame'
    BY DEF LastFrame
  <2>1. pc = "pop"
    BY <1>1, DriverSteps
  <2>2. holds' = holds
    BY <2>1 DEF ObservedNext, Returned
  <2>3. QED
    BY <1>2, <2>1, <2>2 DEF Filmed, LastFrame
<1>14. QED
  BY <1>2, <1>5, <1>7, <1>11, <1>12, <1>13 DEF Filmed

-----------------------------------------------------------------------------
LEMMA ObservedInitially == ObservedInit => ObservedInv
BY NetworkInit, FilmInit DEF ObservedInit, ObservedInv

LEMMA ObservedStep == ObservedInv /\ [ObservedNext]_observed => ObservedInv'
<1> SUFFICES ASSUME ObservedInv, [ObservedNext]_observed
             PROVE  ObservedInv'
  OBVIOUS
<1>1. [Next]_vars
  BY DEF ObservedNext, observed
<1>2. NetworkInv'
  BY <1>1, NetworkNext DEF ObservedInv
<1>3. ASSUME ObservedNext
      PROVE  Filmed'
  BY <1>3, FilmPump, FilmOther DEF ObservedInv
<1>4. ASSUME UNCHANGED observed
      PROVE  Filmed'
  <2>1. UNCHANGED <<now, pc, events, holds, frames, course>>
    BY <1>4 DEF observed, observers, vars, coreVars, control
  <2>2. Anchors' <=> Anchors
    BY <2>1 DEF Anchors, Anchored, Shown
  <2>3. \A i, s : ShownBy(i, s)' <=> ShownBy(i, s)
    BY <2>1 DEF ShownBy
  <2>4. CourseIsShown' <=> CourseIsShown
    BY <2>1, <2>3 DEF CourseIsShown
  <2>5. (FramesAreTrue' <=> FramesAreTrue) /\ (LastFrame' <=> LastFrame)
    BY <2>1 DEF FramesAreTrue, LastFrame
  <2>6. QED
    BY <2>1, <2>2, <2>4, <2>5 DEF ObservedInv, Filmed
<1>5. Filmed'
  BY <1>3, <1>4
<1>6. QED
  BY <1>2, <1>5 DEF ObservedInv

LEMMA ObservedInvariant == ObservedSpec => []ObservedInv
BY ObservedInitially, ObservedStep, PTL DEF ObservedSpec, observed

(* When a run is over, an anchor is an instant that a frame shows.         *)
LEMMA AnchorIsShown ==
  ASSUME ObservedInv, pc = "done", NEW after
  PROVE  Shown(AnchorTime(after))
<1> DEFINE I == {i \in 1 .. Len(events) : events[i].type = after}
           k == IF I # {} THEN Min(I) ELSE 0
<1>1. SelectInSeq(events, LAMBDA e : e.type = after) = k
  BY DEF SelectInSeq
<1>2. \A t : Anchored(t) => Shown(t)
  BY DEF Anchored
<1>3. Shown(0) /\ \A j \in DOMAIN events : Shown(events[j].at)
  BY <1>2 DEF ObservedInv, Filmed, Anchors
<1>4. CASE I = {}
  BY <1>1, <1>3, <1>4 DEF AnchorTime
<1>5. CASE I # {}
  <2>1. events \in Seq(RunEvent)
    BY DEF ObservedInv, NetworkInv, TypeOK, CoreTypeOK
  <2>2. I \subseteq Nat /\ I \subseteq DOMAIN events /\ \A i \in I : i # 0
    BY <2>1
  <2> HIDE DEF I
  <2>3. Min(I) \in I
    BY <1>5, <2>2, SmallestOf DEF Min
  <2>4. k \in DOMAIN events /\ k # 0
    BY <1>5, <2>2, <2>3
  <2>5. QED
    BY <1>1, <1>3, <2>4 DEF AnchorTime
<1>6. QED
  BY <1>4, <1>5

(* A predicate is true somewhere in a window that opens at an instant a    *)
(* frame shows iff a frame of the window shows it.                         *)
LEMMA WindowIsShown ==
  ASSUME Filmed, NEW lo, Shown(lo), NEW hi \in Nat
  PROVE  (\E i \in DOMAIN frames : lo <= frames[i].at /\ frames[i].at <= hi /\ frames[i].holds)
           <=> TrueDuring(lo, hi)
<1>1. \A i \in DOMAIN frames : frames[i].at \in Nat /\ frames[i].holds \in BOOLEAN
  BY FramesTyped
<1>2. PICK k \in DOMAIN frames : frames[k].at = lo
  BY DEF Shown
<1>3. ASSUME NEW i \in DOMAIN frames, lo <= frames[i].at, frames[i].at <= hi, frames[i].holds
      PROVE  TrueDuring(lo, hi)
  <2> DEFINE s == [from |-> frames[i].at, to |-> frames[i].at, holds |-> frames[i].holds]
  <2>1. s \in course
    BY DEF Filmed, FramesAreTrue
  <2>2. s.holds /\ s.from <= hi /\ lo <= s.from
    BY <1>3
  <2>3. QED
    BY <2>1, <2>2 DEF TrueDuring
<1>4. ASSUME NEW s \in course, s.holds, s.from <= hi, lo <= s.from \/ lo < s.to
      PROVE  \E i \in DOMAIN frames : lo <= frames[i].at /\ frames[i].at <= hi /\ frames[i].holds
  <2>1. s.from \in Nat /\ s.to \in Nat
    BY DEF Filmed, CourseIsShown
  <2>2. PICK i \in DOMAIN frames : ShownBy(i, s)
    BY DEF Filmed, CourseIsShown
  <2>3. /\ frames[i].holds /\ frames[i].at \in Nat /\ lo \in Nat
        /\ frames[i].at = s.from \/ (frames[i].at < s.from /\ s.from < s.to)
        /\ lo <= frames[i].at \/ s.to <= lo
    BY <1>1, <1>2, <1>4, <2>2 DEF ShownBy
  <2>4. lo <= frames[i].at /\ frames[i].at <= hi
    BY <1>4, <2>1, <2>3
  <2>5. QED
    BY <2>3, <2>4
<1>5. QED
  BY <1>3, <1>4 DEF TrueDuring

(* A deadline verdict is that of the true course of the predicate,         *)
(* although frames exist only where events are dispatched: the predicate   *)
(* held at some instant of the window iff a frame of the window shows it,  *)
(* whatever anchors the window (evaluate_one, anchor_time, snapshot).      *)
THEOREM DeadlinesExact == ObservedSpec => []DeadlinesAreExact
<1>1. ObservedInv => DeadlinesAreExact
  <2> SUFFICES ASSUME ObservedInv, pc = "done", NEW p \in Kind("eventually_within")
               PROVE  Valid(p) <=> TrueDuring(AnchorTime(p.after), AnchorTime(p.after) + p.deadline)
    BY DEF DeadlinesAreExact
  <2> DEFINE lo == AnchorTime(p.after)
  <2>1. p.kind = "eventually_within" /\ p.deadline \in Nat
    BY PropertiesAssumption DEF Kind, Property
  <2>2. Shown(lo)
    BY AnchorIsShown
  <2>3. lo \in Nat
    BY <2>2, FramesTyped DEF Shown, ObservedInv
  <2>4. Valid(p) <=> \E i \in DOMAIN frames : /\ lo <= frames[i].at
                                              /\ frames[i].at <= lo + p.deadline
                                              /\ frames[i].holds
    BY <2>1 DEF Valid, InWindow
  <2> HIDE DEF lo
  <2>5. lo + p.deadline \in Nat
    BY <2>1, <2>3
  <2>6. Valid(p) <=> TrueDuring(lo, lo + p.deadline)
    BY <2>2, <2>4, <2>5, WindowIsShown DEF ObservedInv
  <2>7. QED
    BY <2>6 DEF lo
<1>2. QED
  BY <1>1, ObservedInvariant, PTL

(* An `always' passes iff the predicate was never false and a `sometimes'  *)
(* iff it was ever true: every stretch of the course is in a frame         *)
(* (evaluate_one, Always and Sometimes).                                   *)
THEOREM QuantifiersExact == ObservedSpec => []QuantifiersAreExact
<1>1. ObservedInv => QuantifiersAreExact
  <2> SUFFICES ASSUME ObservedInv
               PROVE  /\ \A p \in Kind("always") : Valid(p) <=> \A s \in course : s.holds
                      /\ \A p \in Kind("sometimes") : Valid(p) <=> \E s \in course : s.holds
    BY DEF QuantifiersAreExact
  <2>1. \A i \in DOMAIN frames : \E s \in course : s.holds = frames[i].holds
    BY DEF ObservedInv, Filmed, FramesAreTrue
  <2>2. \A s \in course : \E i \in DOMAIN frames : frames[i].holds = s.holds
    BY DEF ObservedInv, Filmed, CourseIsShown, ShownBy
  <2>3. ASSUME NEW p \in Kind("always")
        PROVE  Valid(p) <=> \A i \in DOMAIN frames : frames[i].holds
    BY DEF Kind, Valid
  <2>4. ASSUME NEW p \in Kind("sometimes")
        PROVE  Valid(p) <=> \E i \in DOMAIN frames : frames[i].holds
    BY DEF Kind, Valid
  <2>5. QED
    BY <2>1, <2>2, <2>3, <2>4
<1>2. QED
  BY <1>1, ObservedInvariant, PTL
=============================================================================
