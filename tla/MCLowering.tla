----------------------------- MODULE MCLowering ------------------------------
(***************************************************************************)
(* The instances TLC checks module Lowering on.                            *)
(***************************************************************************)
EXTENDS Lowering, SequencesExt

Reliable == [loss |-> {FALSE}, duplicate |-> {FALSE}, ordered |-> TRUE, delays |-> {0}]

NoFaults == [spec |-> "none"]
SwarmOf(kinds, mode) == InMode(FoldLeft(PushKind, Swarm, kinds), mode)
ScriptOf(steps) == FoldLeft(Commit, Scripted, steps)

At(t, f) == [at |-> t, action |-> f]
Cut == [type |-> "partition", groups |-> {{0}, {1, 2}}]
HealAll == [type |-> "heal"]
Crash(n) == [type |-> "crash", node |-> n]

Kind(t) == [type |-> t]
Outcomes(t) == [type |-> t, outcomes |-> BOOLEAN]

(* Two swarms, one that crashes two nodes, in either mode; a script that   *)
(* is late and one out of order; a replay of the former; and builders that *)
(* call verbs of the other regime, or ask a script to heal.                *)
AllKinds == <<Kind("partitions"), Kind("crash_restart"), Outcomes("drop"),
              Outcomes("duplicate"), [type |-> "latency", delays |-> {1, 2}],
              Kind("reorder")>>
TwoCrashes == <<Kind("crash_restart"), Kind("partitions"), Kind("crash_restart")>>

LateScript == <<At(100, Cut), At(7000, HealAll)>>
UnorderedScript == <<At(300, HealAll), At(200, Cut), At(300, Crash(2))>>

SwarmPlans ==
  {[network |-> Reliable, faults |-> SwarmOf(k, m), replay |-> NoFaults]
     : k \in {AllKinds, TwoCrashes}, m \in Mode}

ScriptPlans ==
  {[network |-> Reliable, faults |-> ScriptOf(s), replay |-> NoFaults]
     : s \in {LateScript, UnorderedScript}}

ReplayPlans ==
  {[network |-> Reliable, faults |-> f, replay |-> ScriptOf(LateScript)]
     : f \in {NoFaults, ScriptOf(LateScript)}}

MixedPlans ==
  {[network |-> Reliable, faults |-> f, replay |-> NoFaults]
     : f \in {PushKind(ScriptOf(UnorderedScript), Kind("crash_restart")),
              InMode(ScriptOf(UnorderedScript), "liveness"),
              Commit(SwarmOf(TwoCrashes, "liveness"), At(4500, Crash(1)))}}

AllPlans == SwarmPlans \cup ScriptPlans \cup ReplayPlans \cup MixedPlans
=============================================================================
