------------------------------- MODULE Campaign ------------------------------
(***************************************************************************)
(* Running a plan: the negotiation of try_run (propsim/src/run.rs and      *)
(* propsim-core/src/backend.rs), the loop of drive over the seeds, the     *)
(* shrinking of a failure to a Scenario, and the erased path (all in       *)
(* propsim-sim/src/lib.rs); then what its user does with a failure: run    *)
(* the plan again at the seed, or replay the scenario there.               *)
(*                                                                         *)
(* One run is a function of the seed and of the ops it invokes, for the    *)
(* nodes, faults and codec of the plan: `recorded' says which ops of its   *)
(* stream it invokes and in which order, `broken' which checks it fails.   *)
(* Of an op it matters here which process issues it and which node it is   *)
(* sent to.                                                                *)
(***************************************************************************)
EXTENDS Naturals, FiniteSetsExt, SequencesExt

CONSTANTS
  NoRoute,    \* the route of an op that names no target
  NoSeed,     \* PROPSIM_SEED is not set
  NodeCount,  \* number of nodes
  Plans,      \* the plans considered
  Backends,   \* the backends considered
  Workloads,  \* the op streams a seed may generate
  Streams,    \* the streams that runs are given: of [process, target]
  Recordings, \* what the runs of a seed may record of each stream
  Breakable,  \* the recorded runs that may fail a check
  MaxBroken   \* bound: how many failed checks there are at most

FrozenOp == [process : Nat, route : Nat \cup {NoRoute}]

(* replay is <<>> or <<ops>>: a replay has the faults of the plan, so its  *)
(* runs have their horizon.  state_machine or spawn_each nodes.            *)
Plan == [seeds : Nat, style : {"state_machine", "spawn_each"},
         properties : Seq(STRING), replay : Seq(Seq(FrozenOp))]

Backend == [snapshots : BOOLEAN,
            oracles : Seq([name : STRING, needs : {"world", "history"}])]

Process(op) == op.process % NodeCount

Target(op) == IF op.route = NoRoute THEN Process(op) ELSE op.route % NodeCount

Stream(ops) ==
  [i \in DOMAIN ops |-> [process |-> Process(ops[i]), target |-> Target(ops[i])]]

(* Every op goes to the node of its process.                               *)
Homed(s) == [i \in DOMAIN s |-> [process |-> s[i].process, target |-> s[i].process]]

Lane(s, p) == SelectSeq(s, LAMBDA o : o.process = p)

(* The first ops of all the processes are invoked at 1 ms, in the order of *)
(* the processes and before any other (pump_client_ops).                   *)
FirstOpsFirst(r, s) ==
  LET Opens(i) == \A j \in 1 .. (i - 1) : r[j].process # r[i].process
  IN /\ \A k \in DOMAIN s : \E i \in DOMAIN r : r[i].process = s[k].process
     /\ \A i \in DOMAIN r : Opens(i) =>
          \A j \in 1 .. (i - 1) : Opens(j) /\ r[j].process < r[i].process

(* What the runs of a seed record.  A process invokes its ops one after    *)
(* the other, and perhaps not all; how the stream interleaves processes    *)
(* makes no difference.  A run that is given only what another one invokes *)
(* first invokes the same: until then the two runs do not differ.          *)
Recording(f) ==
  \A s \in Streams :
    /\ Range(f[s]) \subseteq Range(s)
    /\ \A p \in 0 .. (NodeCount - 1) : IsPrefix(Lane(f[s], p), Lane(s, p))
    /\ FirstOpsFirst(f[s], s)
    /\ \A t \in Streams :
         (\A p \in 0 .. (NodeCount - 1) : Lane(s, p) = Lane(t, p)) => f[t] = f[s]
    /\ \A n \in 0 .. Len(f[s]) :
         LET r == SubSeq(f[s], 1, n) IN r \in Streams /\ f[r] = r

ASSUME CampaignAssumption ==
  /\ NodeCount \in Nat \ {0} /\ NoSeed \notin Nat
  /\ Plans \subseteq Plan
  /\ Backends \subseteq Backend
  /\ Workloads \subseteq Seq(FrozenOp)
  /\ MaxBroken \in Nat

ASSUME StreamsAssumption ==
  /\ Streams \subseteq Seq([process : 0 .. (NodeCount - 1), target : 0 .. (NodeCount - 1)])
  /\ \A s \in Streams : \A n \in 0 .. Len(s) : SubSeq(Homed(s), 1, n) \in Streams
  /\ \A w \in Workloads : \A n \in 0 .. Len(w) : Stream(SubSeq(w, 1, n)) \in Streams
  /\ \A p \in Plans : \A i \in DOMAIN p.replay : Stream(p.replay[i]) \in Streams
  /\ Recordings \subseteq [Streams -> Streams]
  /\ \A f \in Recordings : Recording(f)
  /\ Breakable \subseteq Streams

VARIABLES
  plan, backend,  \* what is run
  workload,       \* the op stream of each seed
  recorded,       \* the ops that the runs of each seed invoke
  broken,         \* the <<seed, recorded run, check>> that fail
  env,            \* PROPSIM_SEED
  pc,
  index,          \* the seeds done: seeds_run
  verdicts,       \* the verdicts gathered: [name, valid]
  shrinking,      \* [name, seed, full, best, len] of shrink_scenario
  outcome,        \* what try_run returned
  past            \* the failed campaigns before this one: [outcome, ops]

inputs == <<plan, backend, workload, recorded, broken, env>>
vars == <<inputs, pc, index, verdicts, shrinking, outcome, past>>

(* The number of seeds a plan asks for, at least one.                      *)
Runs(p) == Max({p.seeds, 1})

Seeds == 0 .. (Runs(plan) - 1)

Names(b) == [i \in DOMAIN b.oracles |-> b.oracles[i].name]

(* The names of the properties, then those of the oracles.  A check is its *)
(* place: two checks may have one name.                                    *)
Checks == plan.properties \o Names(backend)

None == [type |-> "none"]

Init ==
  /\ plan \in Plans /\ backend \in Backends
  /\ workload \in [Seeds -> Workloads]
  /\ recorded \in [Seeds -> Recordings]
  /\ \E n \in 0 .. MaxBroken :
       broken \in kSubset(n, {x \in Seeds \X Breakable \X DOMAIN Checks :
                                x[2] \in Range(recorded[x[1]])})
  /\ env = NoSeed
  /\ pc = "start"
  /\ index = 0 /\ verdicts = <<>>
  /\ shrinking = None /\ outcome = None
  /\ past = <<>>

-----------------------------------------------------------------------------
(* Negotiation.                                                            *)

Offenders == {i \in DOMAIN backend.oracles : backend.oracles[i].needs = "world"}

AcceptedByOraclesAlone == backend.snapshots \/ Offenders = {}  \* mutant

Accepted == backend.snapshots \/ (Offenders = {} /\ plan.properties = <<>>)

Negotiate ==
  /\ pc = "start"
  /\ \/ ~Accepted /\ pc' = "done" /\ outcome' = [type |-> "negotiation"]
     \/ /\ Accepted
        /\ pc' = IF backend.snapshots THEN "drive" ELSE "erased"
        /\ UNCHANGED outcome
  /\ UNCHANGED <<inputs, index, verdicts, shrinking, past>>

-----------------------------------------------------------------------------
(* The runs.                                                               *)

(* effective_seed: each index has a seed of its own, written as the index; *)
(* the environment overrides the first.                                    *)
EffectiveSeedIgnoringEnv(i) == i  \* mutant

EffectiveSeed(i) == IF i = 0 /\ env # NoSeed THEN env ELSE i

(* resolve_ops: the ops of the scenario, or as many ops of the seed's      *)
(* stream as the plan has seeds, at least one and at most 64.              *)
Sampled(p) == Min({Runs(p), 64})

ResolveOps(seed) ==
  IF plan.replay # <<>> THEN plan.replay[1]
  ELSE SubSeq(workload[seed], 1, Min({Sampled(plan), Len(workload[seed])}))

Record(seed, ops) == recorded[seed][Stream(ops)]

Fails(seed, ops, check) == <<seed, Record(seed, ops), check>> \in broken

Failing(seed) == {i \in DOMAIN Checks : Fails(seed, ResolveOps(seed), i)}

LastOf(S) == CHOOSE i \in S : \A j \in S : i >= j  \* mutant

FirstOf(S) == CHOOSE i \in S : \A j \in S : i <= j

(* The verdicts of the checks after the first n.                           *)
Verdicts(seed, n) ==
  [i \in 1 .. (Len(Checks) - n) |->
     [name |-> Checks[n + i], valid |-> ~Fails(seed, ResolveOps(seed), n + i)]]

(* collect_ops: what a run recorded, without the routes.                   *)
CollectOps(seed, ops) ==
  LET r == Record(seed, ops)
  IN [i \in DOMAIN r |-> [process |-> r[i].process, route |-> NoRoute]]

Driving == pc = "drive" /\ index < Runs(plan)

Refuse ==
  /\ Driving /\ plan.style = "spawn_each"
  /\ pc' = "done" /\ outcome' = [type |-> "no_executor"]
  /\ UNCHANGED <<inputs, index, verdicts, shrinking, past>>

(* A run all of whose checks pass.                                         *)
PassSeed ==
  /\ Driving /\ plan.style = "state_machine"
  /\ LET seed == EffectiveSeed(index)
     IN /\ Failing(seed) = {}
        /\ verdicts' = verdicts \o Verdicts(seed, 0)
  /\ index' = index + 1
  /\ UNCHANGED <<inputs, pc, shrinking, outcome, past>>

(* The first check that fails is shrunk.                                   *)
FailSeed ==
  /\ Driving /\ plan.style = "state_machine"
  /\ LET seed == EffectiveSeed(index)
         full == CollectOps(seed, ResolveOps(seed))
     IN /\ Failing(seed) # {}
        /\ shrinking' = [name |-> Checks[FirstOf(Failing(seed))], seed |-> seed,
                         full |-> full, best |-> full, len |-> Len(full)]
  /\ index' = index + 1
  /\ pc' = "shrink"
  /\ UNCHANGED <<inputs, verdicts, outcome, past>>

Report ==
  /\ pc = "drive" /\ index = Runs(plan)
  /\ pc' = "done"
  /\ outcome' = [type |-> "ok", verdicts |-> verdicts, seeds |-> index]
  /\ UNCHANGED <<inputs, index, verdicts, shrinking, past>>

(* The erased path: one run, and whatever its verdicts are they are the    *)
(* report.                                                                 *)
DriveErased ==
  /\ pc = "erased"
  /\ pc' = "done"
  /\ outcome' = [type |-> "ok", seeds |-> 1,
                 verdicts |-> Verdicts(EffectiveSeed(0), Len(plan.properties))]
  /\ UNCHANGED <<inputs, index, verdicts, shrinking, past>>

-----------------------------------------------------------------------------
(* shrink_scenario: ever shorter prefixes, as long as a check of the name  *)
(* fails.                                                                  *)

Candidate == SubSeq(shrinking.full, 1, shrinking.len - 1)

FailsNamed(seed, ops, name) ==
  \E i \in DOMAIN Checks : Checks[i] = name /\ Fails(seed, ops, i)

StillFails == FailsNamed(shrinking.seed, Candidate, shrinking.name)

ShrinkBlindly ==  \* mutant: keeps a prefix before it is known to fail
  /\ pc = "shrink" /\ shrinking.len > 0
  /\ shrinking' = [shrinking EXCEPT !.best = Candidate, !.len = @ - 1]
  /\ pc' = IF StillFails THEN pc ELSE "blame"
  /\ UNCHANGED <<inputs, index, verdicts, outcome, past>>

Shrink ==
  /\ pc = "shrink" /\ shrinking.len > 0
  /\ \/ /\ StillFails
        /\ shrinking' = [shrinking EXCEPT !.best = Candidate, !.len = @ - 1]
        /\ UNCHANGED pc
     \/ ~StillFails /\ pc' = "blame" /\ UNCHANGED shrinking
  /\ UNCHANGED <<inputs, index, verdicts, outcome, past>>

Blame ==
  /\ pc = "blame" \/ (pc = "shrink" /\ shrinking.len = 0)
  /\ pc' = "done"
  /\ outcome' = [type |-> "violation", name |-> shrinking.name,
                 seed |-> shrinking.seed, scenario |-> shrinking.best]
  /\ shrinking' = None
  /\ UNCHANGED <<inputs, index, verdicts, past>>

-----------------------------------------------------------------------------
(* The user runs the plan again, at the seed that the failure names, with  *)
(* the workload, with the scenario, or for that seed alone.                *)
Again ==
  /\ pc = "done" /\ outcome.type = "violation" /\ past = <<>>
  /\ env' = outcome.seed
  /\ \/ UNCHANGED plan
     \/ plan' = [plan EXCEPT !.replay = <<outcome.scenario>>]
     \/ plan' = [plan EXCEPT !.seeds = 1]
  /\ past' = <<[outcome |-> outcome, ops |-> ResolveOps(outcome.seed)]>>
  /\ pc' = "start" /\ index' = 0 /\ verdicts' = <<>> /\ outcome' = None
  /\ UNCHANGED <<backend, workload, recorded, broken, shrinking>>

Finished ==
  /\ pc = "done" /\ (outcome.type # "violation" \/ past # <<>>)
  /\ UNCHANGED vars

Next ==
  \/ Negotiate \/ Refuse \/ PassSeed \/ FailSeed \/ Report \/ DriveErased
  \/ Shrink \/ Blame \/ Again \/ Finished

Spec == Init /\ [][Next]_vars

-----------------------------------------------------------------------------
(* Safety.                                                                 *)

Judged == {v.name : v \in Range(outcome.verdicts)}

(* A report skips nothing: every property and oracle of the plan has its   *)
(* verdict in it, whichever path ran (try_run: white-box properties "must  *)
(* be rejected on a black-box executor", where nobody looks at them).      *)
ReportsSkipNothing == outcome.type = "ok" => Judged = Range(Checks)

(* What drive returns is true of the runs: Ok when every seed passes every *)
(* check; a violation names the first seed at which a check fails, and the *)
(* first check that fails there, the properties before the oracles.  Ok of *)
(* the erased path says nothing: it is in the verdicts whether the one run *)
(* passed (drive, drive_erased).                                           *)
Clean(i) ==
  LET seed == EffectiveSeed(i)
  IN \A k \in DOMAIN Checks : ~Fails(seed, ResolveOps(seed), k)

FailsFirst(seed, k) ==
  /\ Fails(seed, ResolveOps(seed), k)
  /\ \A j \in 1 .. (k - 1) : ~Fails(seed, ResolveOps(seed), j)

OutcomesAreTrue ==
  /\ ~backend.snapshots /\ outcome.type = "ok" =>
       LET seed == EffectiveSeed(0)
       IN \A i \in DOMAIN backend.oracles :
            outcome.verdicts[i].valid <=> ~Fails(seed, ResolveOps(seed), i)
  /\ backend.snapshots =>
    /\ outcome.type = "ok" => \A i \in 0 .. (Runs(plan) - 1) : Clean(i)
    /\ outcome.type = "violation" =>
         /\ \E k \in DOMAIN Checks : Checks[k] = outcome.name /\ FailsFirst(outcome.seed, k)
         /\ outcome.seed = EffectiveSeed(index - 1)
         /\ \A i \in 0 .. (index - 2) : Clean(i)

(* A failure comes back (RunFailure, "re-run: PROPSIM_SEED").  A campaign  *)
(* at the seed it names fails at once in the same way, by the same check   *)
(* and with the same scenario, if it samples the same ops: with fewer      *)
(* seeds a plan samples fewer.  Replaying the scenario fails too, if every *)
(* op goes to the node of its process.                                     *)
AtHome(ops) == \A i \in DOMAIN ops : Target(ops[i]) = Process(ops[i])

Replayed == plan.replay = <<past[1].outcome.scenario>>

FailuresComeBack ==
  pc = "done" /\ past # <<>> =>
    /\ ResolveOps(env) = past[1].ops => outcome = past[1].outcome /\ index = 1
    /\ Replayed /\ AtHome(past[1].ops) =>
         outcome.type = "violation" /\ outcome.seed = past[1].outcome.seed /\ index = 1

(* The scenario fails a check of the name it is reported for, and one op   *)
(* less of it does not (shrink_scenario).                                  *)
ScenariosAreTight ==
  outcome.type = "violation" /\ AtHome(ResolveOps(outcome.seed)) =>
    LET ops == outcome.scenario
    IN /\ FailsNamed(outcome.seed, ops, outcome.name)
       /\ ops # <<>> =>
            ~FailsNamed(outcome.seed, SubSeq(ops, 1, Len(ops) - 1), outcome.name)

-----------------------------------------------------------------------------
(* What a comment of the code says and the code does not do.               *)

(* lib.rs:518 "the resulting `Scenario` reproduces the failure on any      *)
(* backend": a replay of the scenario at the seed fails.                   *)
ReplayReproduces ==
  pc = "done" /\ past # <<>> /\ Replayed => outcome.type = "violation"
=============================================================================
