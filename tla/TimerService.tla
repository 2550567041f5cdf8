---------------------------- MODULE TimerService -----------------------------
(***************************************************************************)
(* What Ctx::set_timer and Ctx::cancel_timer (propsim-core/src/node.rs)    *)
(* promise a node: an alarm clock per timer tag.  A timer has at most one  *)
(* deadline, setting it again moves the deadline, cancelling it removes    *)
(* it, it rings once, exactly at its deadline and in deadline order, and a *)
(* deadline that passes while the node is down is missed for good.         *)
(***************************************************************************)
EXTENDS Naturals

CONSTANTS
  Owner,  \* the nodes
  Tag     \* the timer tags

VARIABLES
  clock,    \* virtual time
  alarm,    \* the deadline of each <<owner, tag>>: {} or {deadline}
  ringing,  \* the <<owner, tag>> being handled, or Silent
  down,     \* the owners that are down
  over      \* the run is over, no alarm rings any more

alarmVars == <<clock, alarm, ringing, down, over>>

Alarm  == Owner \X Tag
Silent == <<>>

(* No deadline lies before time t.                                         *)
NoneBefore(t) == \A k \in Alarm : \A d \in alarm[k] : t <= d

Init ==
  /\ clock = 0
  /\ alarm = [k \in Alarm |-> {}]
  /\ ringing = Silent
  /\ down = {}
  /\ over = FALSE

Set(k) ==
  /\ ~over
  /\ \E d \in alarm'[k] : clock <= d /\ alarm' = [alarm EXCEPT ![k] = {d}]
  /\ UNCHANGED <<clock, ringing, down, over>>

Cancel(k) ==
  /\ ~over
  /\ alarm' = [alarm EXCEPT ![k] = {}]
  /\ UNCHANGED <<clock, ringing, down, over>>

Due(k) ==
  /\ ~over /\ ringing = Silent
  /\ NoneBefore(clock') /\ alarm[k] = {clock'}
  /\ alarm' = [alarm EXCEPT ![k] = {}]
  /\ UNCHANGED <<down, over>>

Ring(k) == Due(k) /\ k[1] \notin down /\ ringing' = k

Miss(k) == Due(k) /\ k[1] \in down /\ UNCHANGED ringing

Handled ==
  /\ ringing # Silent /\ ringing' = Silent
  /\ UNCHANGED <<clock, alarm, down, over>>

(* Time passes, never beyond a deadline; owners go down and come back.     *)
Elapse ==
  /\ ~over /\ ringing = Silent
  /\ clock <= clock' /\ NoneBefore(clock')
  /\ UNCHANGED <<alarm, ringing, over>>

Halt ==
  /\ ~over /\ ringing = Silent
  /\ over' = TRUE
  /\ clock <= clock'
  /\ alarm' = [k \in Alarm |-> {}]
  /\ UNCHANGED <<ringing, down>>

Next ==
  \/ \E k \in Alarm : Set(k) \/ Cancel(k) \/ Ring(k) \/ Miss(k)
  \/ Handled \/ Elapse \/ Halt

Spec == Init /\ [][Next]_alarmVars
=============================================================================
