---------------------------- MODULE MCObservedRun ----------------------------
(***************************************************************************)
(* The instances TLC checks module ObservedRun on.                         *)
(***************************************************************************)
EXTENDS ObservedRun

Reliable == [loss |-> {FALSE}, duplicate |-> {FALSE}, ordered |-> TRUE, delays |-> {1}]

At(t, f) == [at |-> t, action |-> f]
Split == [type |-> "partition", groups |-> {{0}, {}}]
HealAll == [type |-> "heal"]
Crash(n) == [type |-> "crash", node |-> n]
Restart(n) == [type |-> "restart", node |-> n]

(* No fault; a partition healed twice; a node crashed and restarted, with  *)
(* a heal that comes last.                                                 *)
Timelines ==
  {<<>>,
   <<At(1, Split), At(3, HealAll), At(5, HealAll)>>,
   <<At(1, Crash(0)), At(3, Restart(0)), At(5, HealAll)>>}

RunSetups ==
  {[model |-> Reliable, timeline |-> s, horizon |-> 7,
    ops |-> <<[process |-> 0, route |-> NoRoute, decodes |-> TRUE]>>] : s \in Timelines}

Claim(kind, after, deadline) == [kind |-> kind, after |-> after, deadline |-> deadline]

(* Deadlines within the horizon and one beyond it.                         *)
RunProperties ==
  {Claim(k, "start", 0) : k \in {"always", "sometimes"}}
  \cup {Claim("eventually_within", a, n) :
          n \in {0, 1, 2, 9}, a \in {"start", "NetworkHealed", "NodeRejoined", "Custom"}}
=============================================================================
