----------------------------- MODULE ObservedRun -----------------------------
(***************************************************************************)
(* A run of module Simulator with what the white-box properties see of it: *)
(* the frames that run_deterministic snapshots (propsim-sim/src/lib.rs)    *)
(* and the verdicts that evaluate_one (propsim-sim/src/properties.rs)      *)
(* reads off them.                                                         *)
(*                                                                         *)
(* A predicate reads the states of the nodes, which change only in         *)
(* callbacks: `holds' is its value, and a callback may leave it either     *)
(* way.  It may read the history too: every World of a trace has the same  *)
(* one, that of the whole run, so nothing changes from frame to frame.     *)
(* One that reads World::now() is not covered: it changes between events.  *)
(***************************************************************************)
EXTENDS Simulator, SequencesExt

CONSTANT Properties  \* the properties of the plan

(* A Property: its kind, and for eventually_within the deadline and the    *)
(* event it starts at.                                                     *)
Property ==
  [kind : {"always", "sometimes", "eventually_within"},
   after : {"start", "NetworkHealed", "NodeRejoined", "Custom"}, deadline : Nat]

ASSUME PropertiesAssumption == Properties \subseteq Property

VARIABLES
  holds,   \* whether the predicate holds of the nodes as they are
  frames,  \* WorldTrace::frames: [at, holds]
  course   \* its real course: its value at `from' and until `to'

observers == <<holds, frames, course>>

ObservedInit ==
  /\ Init
  /\ holds \in BOOLEAN
  /\ frames = <<>>
  /\ course = {}

(* A callback has returned: its node has a new state.                      *)
Returned == pc = "callback" /\ \/ cb'.kind # cb.kind
                               \/ cb.kind = "boot" /\ cb'.node # cb.node

FrameOfCallbacks ==  \* mutant: a frame only when a callback has returned
  frames' = IF pc = "callback" /\ pc' = "pump"
            THEN Append(frames, [at |-> now, holds |-> holds'])
            ELSE frames

FrameBeforeDispatch ==  \* mutant: what the last event left is not seen
  frames' = IF pc = "pop" /\ pc' # "drain"
            THEN Append(frames, [at |-> now', holds |-> holds])
            ELSE frames

(* snapshot: one frame after on_start of all the nodes and one after every *)
(* event that pop returns.                                                 *)
Frame ==
  frames' = IF pc = "pump"
            THEN Append(frames, [at |-> now, holds |-> holds])
            ELSE frames

(* The predicate keeps its value from the end of an event until the next  *)
(* one, or until the horizon.                                              *)
Course ==
  course' = IF pc = "pump" \/ (pc = "pop" /\ now' > now)
            THEN course \cup {[from |-> now, to |-> now', holds |-> holds]}
            ELSE course

ObservedNext ==
  /\ Next
  /\ holds' \in IF Returned THEN BOOLEAN ELSE {holds}
  /\ Frame
  /\ Course

ObservedSpec ==
  /\ ObservedInit
  /\ [][ObservedNext]_<<vars, observers>>
  /\ WF_<<vars, observers>>(ObservedNext)

-----------------------------------------------------------------------------
(* The verdicts of evaluate_one: whether each is valid.                    *)

(* anchor_time: the first event of the name, or zero.  A Custom marker     *)
(* names no event of a run.                                                *)
AnchorTime(after) ==
  LET k == SelectInSeq(events, LAMBDA e : e.type = after)
  IN IF k = 0 THEN 0 ELSE events[k].at

InWindow(p, i) ==
  LET lo == AnchorTime(p.after)
  IN lo <= frames[i].at /\ frames[i].at <= lo + p.deadline

Valid(p) ==
  CASE p.kind = "always"            -> \A i \in DOMAIN frames : frames[i].holds
    [] p.kind = "sometimes"         -> \E i \in DOMAIN frames : frames[i].holds
    [] p.kind = "eventually_within" -> \E i \in DOMAIN frames : InWindow(p, i) /\ frames[i].holds

-----------------------------------------------------------------------------
(* Safety.                                                                 *)

(* Frames exist only where events are dispatched, at irregular times, yet  *)
(* no verdict misses anything: the predicate is true at some instant of    *)
(* the window [lo, hi], as far as the run goes, iff a frame of the window  *)
(* shows it.  A deadline anchored at an event counts what was true before  *)
(* the event and still is (evaluate_one, EventuallyWithin).  For           *)
(* predicates that do not read World::now().                               *)
TrueDuring(lo, hi) ==
  \E s \in course : s.holds /\ s.from <= hi /\ (lo <= s.from \/ lo < s.to)

Kind(kind) == {p \in Properties : p.kind = kind}

DeadlinesAreExact ==
  pc = "done" =>
    \A p \in Kind("eventually_within") :
      LET t == AnchorTime(p.after)
      IN Valid(p) <=> TrueDuring(t, t + p.deadline)

(* An `always' passes iff the predicate was never false and a `sometimes'  *)
(* iff it was ever true, from the end of on_start to the end of the run    *)
(* (evaluate_one, Always and Sometimes).  For predicates that do not read  *)
(* World::now().                                                           *)
QuantifiersAreExact ==
  pc = "done" =>
    /\ \A p \in Kind("always") : Valid(p) <=> \A s \in course : s.holds
    /\ \A p \in Kind("sometimes") : Valid(p) <=> \E s \in course : s.holds
=============================================================================
