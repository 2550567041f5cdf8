------------------------------ MODULE MCCampaign -----------------------------
(***************************************************************************)
(* The instances TLC checks module Campaign on: two nodes, a property "p"  *)
(* and an oracle "o" or one of the same name, runs that invoke their ops   *)
(* in another order than the stream has them and runs that do not reach    *)
(* the last one, and any three failures among them.                        *)
(***************************************************************************)
EXTENDS Campaign

Op(p) == [process |-> p, route |-> NoRoute]
Routed(p, n) == [process |-> p, route |-> n]
Sent(p, n) == [process |-> p, target |-> n]

(* An op of each node, the second first, and two ops of one process.       *)
HomeWorkloads == {<<Op(3), Op(0)>>, <<Op(0), Op(2)>>}

A == Sent(0, 0)
B == Sent(1, 1)

HomeStreams ==
  {<<>>, <<A>>, <<B>>, <<A, B>>, <<B, A>>, <<A, A>>, <<A, A, B>>, <<A, B, A>>}

(* Where the second op of process 0 is invoked, and where its first one is *)
(* open to the end.                                                        *)
Recorded(two, three) ==
  [s \in HomeStreams |->
     CASE s = <<B, A>> -> <<A, B>>
       [] s = <<A, A>> -> two
       [] s \in {<<A, A, B>>, <<A, B, A>>} -> three
       [] OTHER -> s]

HomeRecordings == {Recorded(<<A, A>>, <<A, B, A>>), Recorded(<<A>>, <<A, B>>)}

HomeBreakable == {<<>>, <<A>>, <<A, B>>, <<A, A>>, <<A, B, A>>}

(* An op of process 0 that is sent to node 1.                              *)
RoutedWorkloads == {<<Routed(0, 3)>>}
RoutedStreams == {<<>>, <<Sent(0, 1)>>, <<A>>}
RoutedRecordings == {[s \in RoutedStreams |-> s]}

PlanOf(seeds, style, properties, replay) ==
  [seeds |-> seeds, style |-> style, properties |-> properties, replay |-> replay]

AllPlans ==
  {PlanOf(2, "state_machine", <<"p">>, <<>>),
   PlanOf(0, "state_machine", <<>>, <<>>),
   PlanOf(1, "state_machine", <<"p">>, <<<<Op(0), Op(2), Op(3)>>>>),
   PlanOf(1, "spawn_each", <<"p">>, <<>>)}

TwoSeeds == {PlanOf(2, "state_machine", <<"p">>, <<>>)}
OnePlan == {PlanOf(1, "state_machine", <<"p">>, <<>>)}

(* The deterministic executor, with an oracle of its own name or of the    *)
(* property's, and a black box with a history oracle or a white-box one.   *)
Oracle(name, needs) == <<[name |-> name, needs |-> needs]>>

Deterministic(name) == [snapshots |-> TRUE, oracles |-> Oracle(name, "history")]
BlackBox(needs) == [snapshots |-> FALSE, oracles |-> Oracle("o", needs)]

AllBackends ==
  {Deterministic("o"), Deterministic("p"), BlackBox("history"), BlackBox("world")}
SimBackends == {Deterministic("o")}
=============================================================================
