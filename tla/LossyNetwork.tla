---------------------------- MODULE LossyNetwork -----------------------------
(***************************************************************************)
(* What Ctx::send (propsim-core/src/node.rs) and a NetworkModel            *)
(* (propsim-core/src/transport.rs) promise: a wire with bounded latency.   *)
(* A send between two nodes that reach each other puts one or two copies   *)
(* on the wire or none; a copy that is on it arrives within the latencies  *)
(* of the model, in the order of its link if links are ordered, whatever   *)
(* partition begins meanwhile, unless its receiver is down just then.      *)
(***************************************************************************)
EXTENDS Naturals, FiniteSets

VARIABLES
  law,       \* the network model: [loss, duplicate, ordered, delays]
  clock,     \* virtual time
  groups,    \* the partition: places reach each other within a group
  down,      \* the places that are down
  wire,      \* the copies under way: [id, from, to, letter, due]
  handling,  \* the places handling a message: none or one
  over       \* the run is over, nothing arrives any more

wireVars == <<law, clock, groups, down, wire, handling, over>>

Reach(a, b) ==
  /\ {a, b} \cap down = {}
  /\ groups = {} \/ \E g \in groups : {a, b} \subseteq g

(* Nothing is due before time t.                                           *)
NothingDueBefore(t) == \A c \in wire : t <= c.due

Init ==
  /\ clock = 0
  /\ groups = {} /\ down = {}
  /\ wire = {} /\ handling = {}
  /\ over = FALSE

(* The copies of one message are alike, and newer than what is on the wire.*)
Send(from, to, letter, due) ==
  LET sent == wire' \ wire
  IN /\ ~over /\ Reach(from, to)
     /\ FALSE \in law.loss
     /\ \E d \in law.delays : clock + d <= due
     /\ \E d \in law.delays : due <= clock + d
     /\ wire \subseteq wire'
     /\ \/ Cardinality(sent) = 1 /\ FALSE \in law.duplicate
        \/ Cardinality(sent) = 2 /\ TRUE \in law.duplicate
     /\ \A c \in sent :
          /\ c = [id |-> c.id, from |-> from, to |-> to, letter |-> letter, due |-> due]
          /\ \A older \in wire : older.id < c.id
     /\ UNCHANGED <<law, clock, groups, down, handling, over>>

(* A copy leaves the wire: it is due, and the first of its link if links   *)
(* are ordered.                                                            *)
Leave(c) ==
  /\ ~over /\ handling = {}
  /\ clock' = c.due /\ NothingDueBefore(c.due)
  /\ law.ordered =>
       \A d \in wire : d.from = c.from /\ d.to = c.to => c.id <= d.id
  /\ wire' = wire \ {c}
  /\ UNCHANGED <<law, groups, down, over>>

Arrive(c) == Leave(c) /\ c.to \notin down /\ handling' = {c.to}

Vanish(c) == Leave(c) /\ c.to \in down /\ UNCHANGED handling

Handled ==
  /\ handling # {} /\ handling' = {}
  /\ UNCHANGED <<law, clock, groups, down, wire, over>>

(* Time passes, never beyond an arrival; partitions, crashes and restarts  *)
(* come and go and touch nothing that is on the wire.                      *)
Elapse ==
  /\ ~over /\ handling = {}
  /\ clock <= clock' /\ NothingDueBefore(clock')
  /\ UNCHANGED <<law, wire, handling, over>>

Halt ==
  /\ ~over /\ handling = {}
  /\ over' = TRUE /\ wire' = {}
  /\ clock <= clock'
  /\ UNCHANGED <<law, groups, down, handling>>

Next ==
  \/ \E c \in wire' \ wire : Send(c.from, c.to, c.letter, c.due)
  \/ \E c \in wire : Arrive(c) \/ Vanish(c)
  \/ Handled \/ Elapse \/ Halt

Spec == Init /\ [][Next]_wireVars
=============================================================================
