---------------------------- MODULE MCSimulator ------------------------------
(***************************************************************************)
(* The instances TLC checks module Simulator on.                           *)
(***************************************************************************)
EXTENDS Simulator

Net(loss, duplicate, ordered, delays) ==
  [loss |-> loss, duplicate |-> duplicate, ordered |-> ordered, delays |-> delays]

Never  == {FALSE}
Maybe  == {TRUE, FALSE}

Reliable == Net(Never, Never, TRUE, {1})

At(t, f) == [at |-> t, action |-> f]
Split(a, b) == [type |-> "partition", groups |-> {a, b}]
HealAll == [type |-> "heal"]
Crash(n) == [type |-> "crash", node |-> n]
Restart(n) == [type |-> "restart", node |-> n]

Client(p) == [process |-> p, route |-> NoRoute, decodes |-> TRUE]
Routed(p, n) == [process |-> p, route |-> n, decodes |-> TRUE]
Malformed(p) == [process |-> p, route |-> NoRoute, decodes |-> FALSE]

(* Lossy, duplicating FIFO links; a partition, a crash and a rejoin.       *)
NetworkSetups ==
  {[model |-> Net(Maybe, Maybe, o, {1, 2}), timeline |-> s, horizon |-> 4, ops |-> <<>>]
     : o \in BOOLEAN,
       s \in {<<>>, <<At(1, Split({0}, {1})), At(2, HealAll)>>,
              <<At(1, Crash(1)), At(2, Restart(1))>>}}

(* Client ops of two processes, some routed to the other node or           *)
(* malformed, with and without a crash.                                    *)
OpSetups ==
  {[model |-> Reliable, timeline |-> s, horizon |-> 5, ops |-> o]
     : s \in {<<>>, <<At(2, Crash(0))>>, <<At(2, Crash(0)), At(3, Restart(0))>>},
       o \in {<<Client(0), Client(0), Client(1)>>,
              <<Routed(0, 3), Malformed(0), Client(3), Client(2)>>}}

(* Two timers of one node that is crashed and restarted.                   *)
TimerSetups ==
  {[model |-> Reliable, timeline |-> s, horizon |-> 4, ops |-> <<>>]
     : s \in {<<>>, <<At(1, Crash(0)), At(2, Restart(0))>>, <<At(1, Crash(0)), At(1, Restart(0))>>}}
=============================================================================
