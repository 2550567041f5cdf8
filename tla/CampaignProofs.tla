--------------------------- MODULE CampaignProofs ----------------------------
(***************************************************************************)
(* What a campaign returns is complete and true, for every plan, backend,  *)
(* workload and outcome of the runs, and a scenario fails and cannot lose  *)
(* its last op.                                                            *)
(***************************************************************************)
EXTENDS Campaign, SequenceTheorems, FiniteSetTheorems, WellFoundedInduction, TLAPS

PlanRecord(replays) ==
  [seeds : Nat, style : {"state_machine", "spawn_each"},
   properties : Seq(STRING), replay : replays]

Verdict == [name : STRING, valid : BOOLEAN]

(* The names that the verdicts of a sequence are about.                    *)
Named(vs) == {v.name : v \in Range(vs)}

(* The shapes of the variables, as far as the argument needs them.         *)
Shapes ==
  /\ \E replays : plan \in PlanRecord(replays)
  /\ backend \in Backend
  /\ index \in Nat
  /\ verdicts \in Seq(Verdict)

(* The verdicts gathered are of every check once a seed has passed, and    *)
(* the seeds that are done were clean.                                     *)
WhileDriving ==
  pc = "drive" =>
    /\ backend.snapshots
    /\ index <= Runs(plan)
    /\ \A i \in 0 .. (index - 1) : Clean(i)
    /\ Named(verdicts) = IF index = 0 THEN {} ELSE Range(Checks)

(* Negotiation lets a plan onto the erased path only without properties.   *)
WhileErased == pc = "erased" => ~backend.snapshots /\ plan.properties = <<>>

(* What is shrunk or blamed is a failure of the seed done last.            *)
WhileShrinking ==
  pc \in {"shrink", "blame"} =>
    /\ backend.snapshots
    /\ shrinking = [name |-> shrinking.name, seed |-> shrinking.seed,
                    full |-> shrinking.full, best |-> shrinking.best, len |-> shrinking.len]
    /\ index > 0 /\ shrinking.seed = EffectiveSeed(index - 1)
    /\ \E k \in DOMAIN Checks : Checks[k] = shrinking.name /\ FailsFirst(shrinking.seed, k)
    /\ \A i \in 0 .. (index - 2) : Clean(i)

CampaignInv ==
  /\ Shapes
  /\ pc \in {"start", "drive", "erased", "shrink", "blame", "done"}
  /\ pc = "start" => index = 0 /\ verdicts = <<>>
  /\ pc # "done" => outcome = None
  /\ WhileDriving /\ WhileErased /\ WhileShrinking
  /\ ReportsSkipNothing /\ OutcomesAreTrue

-----------------------------------------------------------------------------
(* The least element: numbers are compared as intervals, which are finite. *)
LEMMA LeastNumber ==
  ASSUME NEW S, S \subseteq Nat, S # {}
  PROVE  FirstOf(S) \in S /\ \A j \in S : FirstOf(S) <= j
<1> DEFINE Below == {0 .. i : i \in S}
<1>1. Below # {} /\ Below \subseteq FiniteSubsetsOf(Nat)
  <2>1. \A i \in Nat : IsFiniteSet(0 .. i) /\ 0 .. i \subseteq Nat
    BY FS_Interval
  <2>2. QED
    BY <2>1 DEF FiniteSubsetsOf
<1>2. PICK x \in Below : \A y \in Below : ~ (<<y, x>> \in StrictSubsetOrdering(Nat))
  BY <1>1, FS_StrictSubsetOrderingWellFounded, WFMin
<1>3. PICK i \in S : x = 0 .. i
  BY <1>2
<1>4. ASSUME NEW j \in S, j < i
      PROVE  FALSE
  <2>1. 0 .. j \subseteq 0 .. i /\ i \in 0 .. i /\ i \notin 0 .. j
    BY <1>4
  <2>2. <<0 .. j, 0 .. i>> \in StrictSubsetOrdering(Nat)
    BY <2>1 DEF StrictSubsetOrdering
  <2>3. QED
    BY <1>2, <1>3, <2>2
<1>5. \A j \in S : i <= j
  BY <1>4
<1>6. QED
  BY <1>5 DEF FirstOf

(* A plan without a number of seeds is run for one.                        *)
LEMMA RunsPositive ==
  ASSUME NEW p, p.seeds \in Nat
  PROVE  Runs(p) \in Nat \ {0}
<1>1. \E x \in {p.seeds, 1} : \A y \in {p.seeds, 1} : x >= y
  OBVIOUS
<1>2. Runs(p) \in {p.seeds, 1} /\ \A y \in {p.seeds, 1} : Runs(p) >= y
  BY <1>1 DEF Runs, Max
<1>3. QED
  BY <1>2

LEMMA ChecksAreNames == Shapes => Checks \in Seq(STRING) /\ Names(backend) \in Seq(STRING)
<1> SUFFICES ASSUME Shapes
             PROVE  Checks \in Seq(STRING) /\ Names(backend) \in Seq(STRING)
  OBVIOUS
<1>1. plan.properties \in Seq(STRING)
  BY DEF Shapes, PlanRecord
<1>2. backend.oracles \in Seq([name : STRING, needs : {"world", "history"}])
  BY DEF Shapes, Backend
<1>3. Names(backend) \in Seq(STRING)
  <2>1. /\ Len(backend.oracles) \in Nat /\ DOMAIN backend.oracles = 1 .. Len(backend.oracles)
        /\ \A i \in 1 .. Len(backend.oracles) : backend.oracles[i].name \in STRING
    <3> DEFINE Oracle == [name : STRING, needs : {"world", "history"}]
    <3>1. \A o \in Oracle : o.name \in STRING
      OBVIOUS
    <3> HIDE DEF Oracle
    <3>2. backend.oracles \in Seq(Oracle)
      BY <1>2 DEF Oracle
    <3>3. \A i \in 1 .. Len(backend.oracles) : backend.oracles[i] \in Oracle
      BY <3>2, ElementOfSeq
    <3>4. QED
      BY <3>1, <3>2, <3>3, LenProperties
  <2>2. [i \in 1 .. Len(backend.oracles) |-> backend.oracles[i].name] \in Seq(STRING)
    BY <2>1
  <2>3. QED
    BY <2>1, <2>2 DEF Names
<1>4. QED
  BY <1>1, <1>3, ConcatProperties DEF Checks

(* A run gives one verdict for each check.                                 *)
LEMMA VerdictsOfChecks ==
  ASSUME Shapes, NEW seed
  PROVE  /\ Verdicts(seed, 0) \in Seq(Verdict)
         /\ Named(Verdicts(seed, 0)) = Range(Checks)
         /\ \A i \in DOMAIN Checks :
              Verdicts(seed, 0)[i].valid <=> ~Fails(seed, ResolveOps(seed), i)
<1> DEFINE verdict(i) == [name |-> Checks[i], valid |-> ~Fails(seed, ResolveOps(seed), i)]
           vs == [i \in 1 .. Len(Checks) |-> verdict(i)]
<1>1. /\ Len(Checks) \in Nat /\ DOMAIN Checks = 1 .. Len(Checks)
      /\ \A i \in DOMAIN Checks : Checks[i] \in STRING
  BY ChecksAreNames, ElementOfSeq
<1>2. Verdicts(seed, 0) = vs
  <2>1. Len(Checks) - 0 = Len(Checks) /\ \A i \in 1 .. Len(Checks) : 0 + i = i
    BY <1>1
  <2>2. QED
    BY <2>1 DEF Verdicts
<1>3. \A i \in DOMAIN Checks : /\ verdict(i) \in Verdict /\ verdict(i).name = Checks[i]
                               /\ verdict(i).valid <=> ~Fails(seed, ResolveOps(seed), i)
  BY <1>1 DEF Verdict, Fails
<1> HIDE DEF verdict
<1>4. vs \in Seq(Verdict)
  BY <1>1, <1>3
<1>5. Range(vs) = {verdict(i) : i \in DOMAIN Checks}
  BY <1>1 DEF Range
<1>6. Range(Checks) = {Checks[i] : i \in DOMAIN Checks}
  BY DEF Range
<1>7. \A i \in DOMAIN Checks : vs[i].valid <=> ~Fails(seed, ResolveOps(seed), i)
  BY <1>1, <1>3
<1> HIDE DEF vs
<1>8. QED
  BY <1>2, <1>3, <1>4, <1>5, <1>6, <1>7 DEF Named

(* What depends on the inputs only.                                        *)
LEMMA InputsFixed ==
  ASSUME UNCHANGED inputs
  PROVE  /\ Checks' = Checks
         /\ \A i : EffectiveSeed(i)' = EffectiveSeed(i)
         /\ \A i : Clean(i)' <=> Clean(i)
         /\ \A seed : ResolveOps(seed)' = ResolveOps(seed)
         /\ \A seed, ops, k : Fails(seed, ops, k)' <=> Fails(seed, ops, k)
         /\ \A seed, k : FailsFirst(seed, k)' <=> FailsFirst(seed, k)
         /\ \A seed, ops, name : FailsNamed(seed, ops, name)' <=> FailsNamed(seed, ops, name)
         /\ \A seed, ops : CollectOps(seed, ops)' = CollectOps(seed, ops)
<1>1. /\ plan' = plan /\ backend' = backend /\ workload' = workload /\ recorded' = recorded
      /\ broken' = broken /\ env' = env
  BY DEF inputs
<1>2. Checks' = Checks
  BY <1>1 DEF Checks
<1>3. \A i : EffectiveSeed(i)' = EffectiveSeed(i)
  BY <1>1 DEF EffectiveSeed
<1>4. \A seed : ResolveOps(seed)' = ResolveOps(seed)
  BY <1>1 DEF ResolveOps
<1>5. \A seed, ops, k : Fails(seed, ops, k)' <=> Fails(seed, ops, k)
  BY <1>1 DEF Fails, Record, Stream, Process, Target
<1>6. \A i : Clean(i)' <=> Clean(i)
  BY <1>2, <1>3, <1>4, <1>5 DEF Clean
<1>7. \A seed, k : FailsFirst(seed, k)' <=> FailsFirst(seed, k)
  BY <1>4, <1>5 DEF FailsFirst
<1>8. \A seed, ops, name : FailsNamed(seed, ops, name)' <=> FailsNamed(seed, ops, name)
  BY <1>2, <1>5 DEF FailsNamed
<1>9. \A seed, ops : CollectOps(seed, ops)' = CollectOps(seed, ops)
  BY <1>1 DEF CollectOps, Record, Stream, Process, Target
<1>10. QED
  BY <1>2, <1>3, <1>4, <1>5, <1>6, <1>7, <1>8, <1>9

-----------------------------------------------------------------------------
LEMMA CampaignInit == Init => CampaignInv
<1> SUFFICES ASSUME Init
             PROVE  CampaignInv
  OBVIOUS
<1>1. plan \in Plan /\ backend \in Backend
  BY CampaignAssumption DEF Init
<1>2. plan \in PlanRecord(Seq(Seq(FrozenOp)))
  BY <1>1 DEF Plan, PlanRecord
<1>3. pc = "start" /\ index = 0 /\ verdicts = <<>> /\ outcome = None
  BY DEF Init
<1>4. Shapes
  BY <1>1, <1>2, <1>3 DEF Shapes
<1>5. ReportsSkipNothing /\ OutcomesAreTrue
  BY <1>3 DEF ReportsSkipNothing, OutcomesAreTrue, None
<1>6. QED
  BY <1>3, <1>4, <1>5 DEF CampaignInv, WhileDriving, WhileErased, WhileShrinking

(* Nothing has been returned yet.                                          *)
LEMMA NoOutcome ==
  ASSUME outcome' = None
  PROVE  ReportsSkipNothing' /\ OutcomesAreTrue'
BY DEF ReportsSkipNothing, OutcomesAreTrue, None

LEMMA StepNegotiate == CampaignInv /\ Negotiate => CampaignInv'
<1> SUFFICES ASSUME CampaignInv, Negotiate
             PROVE  CampaignInv'
  OBVIOUS
<1>1. /\ pc = "start" /\ index' = 0 /\ verdicts' = <<>> /\ outcome = None
      /\ UNCHANGED <<plan, backend, index, verdicts>>
  BY DEF CampaignInv, Negotiate, inputs
<1>2. Shapes'
  BY <1>1 DEF CampaignInv, Shapes
<1>3. CASE ~Accepted
  <2>1. pc' = "done" /\ outcome' = [type |-> "negotiation"]
    BY <1>3 DEF Negotiate
  <2>2. ReportsSkipNothing' /\ OutcomesAreTrue'
    BY <2>1 DEF ReportsSkipNothing, OutcomesAreTrue
  <2>3. QED
    BY <1>2, <2>1, <2>2 DEF CampaignInv, WhileDriving, WhileErased, WhileShrinking
<1>4. CASE Accepted
  <2>1. outcome' = None /\ pc' = IF backend.snapshots THEN "drive" ELSE "erased"
    BY <1>1, <1>4 DEF Negotiate
  <2>2. WhileErased'
    BY <1>1, <1>4, <2>1 DEF WhileErased, Accepted
  <2>3. Runs(plan)' \in Nat \ {0} /\ Named(verdicts)' = {}
    BY <1>1, <1>2, RunsPositive DEF Shapes, PlanRecord, Named, Range
  <2>4. WhileDriving'
    BY <1>1, <2>1, <2>3 DEF WhileDriving
  <2>5. QED
    BY <1>2, <2>1, <2>2, <2>4, NoOutcome DEF CampaignInv, WhileShrinking
<1>5. QED
  BY <1>3, <1>4

LEMMA StepRefuse == CampaignInv /\ Refuse => CampaignInv'
<1> SUFFICES ASSUME CampaignInv, Refuse
             PROVE  CampaignInv'
  OBVIOUS
<1>1. pc' = "done" /\ outcome' = [type |-> "no_executor"] /\ UNCHANGED <<plan, backend, index, verdicts>>
  BY DEF Refuse, inputs
<1>2. Shapes' /\ ReportsSkipNothing' /\ OutcomesAreTrue'
  BY <1>1 DEF CampaignInv, Shapes, ReportsSkipNothing, OutcomesAreTrue
<1>3. QED
  BY <1>1, <1>2 DEF CampaignInv, WhileDriving, WhileErased, WhileShrinking

(* A seed that passes is clean and leaves a verdict for every check.       *)
LEMMA StepPass == CampaignInv /\ PassSeed => CampaignInv'
<1> SUFFICES ASSUME CampaignInv, PassSeed
             PROVE  CampaignInv'
  OBVIOUS
<1> DEFINE seed == EffectiveSeed(index)
<1>1. /\ pc = "drive" /\ pc' = "drive" /\ index < Runs(plan) /\ index' = index + 1
      /\ UNCHANGED <<inputs, outcome>> /\ outcome = None
      /\ Failing(seed) = {} /\ verdicts' = verdicts \o Verdicts(seed, 0)
  BY DEF CampaignInv, PassSeed, Driving
<1>2. /\ plan' = plan /\ backend' = backend /\ Runs(plan) \in Nat /\ index \in Nat
      /\ backend.snapshots /\ verdicts \in Seq(Verdict)
  BY <1>1, RunsPositive DEF CampaignInv, Shapes, PlanRecord, WhileDriving, inputs
<1>3. Verdicts(seed, 0) \in Seq(Verdict) /\ Named(Verdicts(seed, 0)) = Range(Checks)
  BY VerdictsOfChecks DEF CampaignInv
<1>4. verdicts' \in Seq(Verdict) /\ Named(verdicts') = Range(Checks)
  <2>1. Range(verdicts') = Range(verdicts) \cup Range(Verdicts(seed, 0))
    BY <1>1, <1>2, <1>3, RangeConcatenation
  <2>2. Named(verdicts') = Named(verdicts) \cup Named(Verdicts(seed, 0))
    BY <2>1 DEF Named
  <2>3. QED
    BY <1>1, <1>2, <1>3, <2>2, ConcatProperties DEF CampaignInv, WhileDriving
<1>5. Clean(index)
  BY <1>1 DEF Clean, Failing
<1>6. \A i \in 0 .. index : Clean(i)
  BY <1>1, <1>2, <1>5 DEF CampaignInv, WhileDriving
<1>7. Checks' = Checks /\ \A i \in 0 .. (index' - 1) : Clean(i)'
  BY <1>1, <1>2, <1>6, InputsFixed
<1>8. WhileDriving'
  BY <1>1, <1>2, <1>4, <1>7 DEF WhileDriving, Runs
<1>9. Shapes'
  BY <1>1, <1>2, <1>4 DEF CampaignInv, Shapes
<1>10. QED
  BY <1>1, <1>8, <1>9, NoOutcome DEF CampaignInv, WhileErased, WhileShrinking

LEMMA FirstFailure ==
  ASSUME Shapes, NEW seed, Failing(seed) # {}
  PROVE  LET k == FirstOf(Failing(seed))
         IN k \in DOMAIN Checks /\ k \in Nat /\ FailsFirst(seed, k)
<1> DEFINE k == FirstOf(Failing(seed))
<1>1. Len(Checks) \in Nat /\ DOMAIN Checks = 1 .. Len(Checks)
  BY ChecksAreNames, LenProperties
<1>2. k \in Failing(seed) /\ \A j \in Failing(seed) : k <= j
  BY <1>1, LeastNumber DEF Failing
<1> HIDE DEF k
<1>3. k \in 1 .. Len(Checks) /\ Fails(seed, ResolveOps(seed), k)
  BY <1>1, <1>2 DEF Failing
<1>4. ASSUME NEW j \in 1 .. (k - 1)
      PROVE  ~Fails(seed, ResolveOps(seed), j)
  <2>1. j \in DOMAIN Checks /\ ~(k <= j)
    BY <1>1, <1>3
  <2>2. QED
    BY <1>2, <2>1 DEF Failing
<1>5. QED
  BY <1>1, <1>3, <1>4 DEF k, FailsFirst

LEMMA StepFail == CampaignInv /\ FailSeed => CampaignInv'
<1> SUFFICES ASSUME CampaignInv, FailSeed
             PROVE  CampaignInv'
  OBVIOUS
<1> DEFINE seed == EffectiveSeed(index)
           first == FirstOf(Failing(seed))
<1>1. /\ pc = "drive" /\ pc' = "shrink" /\ index' = index + 1
      /\ UNCHANGED <<inputs, verdicts, outcome>> /\ outcome = None
      /\ Failing(seed) # {}
      /\ shrinking'.name = Checks[first] /\ shrinking'.seed = seed
      /\ shrinking' = [name |-> shrinking'.name, seed |-> shrinking'.seed,
                       full |-> shrinking'.full, best |-> shrinking'.best, len |-> shrinking'.len]
  BY DEF CampaignInv, FailSeed, Driving
<1>2. index \in Nat /\ backend.snapshots /\ backend' = backend /\ plan' = plan
  BY <1>1 DEF CampaignInv, Shapes, WhileDriving, inputs
<1>3. first \in DOMAIN Checks /\ FailsFirst(seed, first)
  BY <1>1, FirstFailure DEF CampaignInv
<1>4. WhileShrinking'
  <2>1. PICK k, name, it :
          /\ k = first /\ k \in DOMAIN Checks /\ FailsFirst(it, k)
          /\ name = Checks[k] /\ it = seed
    BY <1>3
  <2>2. k \in DOMAIN Checks' /\ Checks'[k] = name /\ FailsFirst(it, k)'
    BY <1>1, <2>1, InputsFixed
  <2>3. shrinking'.name = name /\ shrinking'.seed = it /\ it = EffectiveSeed(index)
    BY <1>1, <2>1
  <2> HIDE DEF first, seed
  <2>4. QED
    BY <1>1, <1>2, <2>2, <2>3, InputsFixed DEF CampaignInv, WhileDriving, WhileShrinking
<1>5. Shapes'
  BY <1>1, <1>2 DEF CampaignInv, Shapes
<1>6. QED
  BY <1>1, <1>4, <1>5, NoOutcome DEF CampaignInv, WhileDriving, WhileErased

LEMMA StepReport == CampaignInv /\ Report => CampaignInv'
<1> SUFFICES ASSUME CampaignInv, Report
             PROVE  CampaignInv'
  OBVIOUS
<1>1. /\ pc = "drive" /\ pc' = "done" /\ index = Runs(plan)
      /\ outcome' = [type |-> "ok", verdicts |-> verdicts, seeds |-> index]
      /\ UNCHANGED <<inputs, index, verdicts>>
  BY DEF Report
<1>2. /\ plan' = plan /\ backend' = backend /\ backend.snapshots
      /\ index \in Nat \ {0} /\ Runs(plan)' = Runs(plan)
  BY <1>1, RunsPositive DEF CampaignInv, Shapes, PlanRecord, WhileDriving, inputs, Runs
<1>3. ReportsSkipNothing'
  BY <1>1, <1>2, InputsFixed DEF CampaignInv, WhileDriving, ReportsSkipNothing, Judged, Named
<1>4. OutcomesAreTrue'
  BY <1>1, <1>2, InputsFixed DEF CampaignInv, WhileDriving, OutcomesAreTrue
<1>5. QED
  BY <1>1, <1>2, <1>3, <1>4 DEF CampaignInv, Shapes, WhileDriving, WhileErased, WhileShrinking

LEMMA StepErased == CampaignInv /\ DriveErased => CampaignInv'
<1> SUFFICES ASSUME CampaignInv, DriveErased
             PROVE  CampaignInv'
  OBVIOUS
<1> DEFINE seed == EffectiveSeed(0)
<1>1. /\ pc = "erased" /\ pc' = "done"
      /\ outcome' = [type |-> "ok", seeds |-> 1,
                     verdicts |-> Verdicts(seed, Len(plan.properties))]
      /\ UNCHANGED <<inputs, index, verdicts>>
  BY DEF DriveErased
<1>2. plan' = plan /\ backend' = backend /\ ~backend.snapshots /\ plan.properties = <<>>
  BY <1>1 DEF CampaignInv, WhileErased, inputs
<1>3. Len(plan.properties) = 0 /\ DOMAIN Checks = DOMAIN backend.oracles
  BY <1>2, ChecksAreNames, ConcatEmptySeq, EmptySeq DEF CampaignInv, Checks, Names
<1>4. ReportsSkipNothing'
  BY <1>1, <1>3, InputsFixed, VerdictsOfChecks DEF CampaignInv, ReportsSkipNothing, Judged, Named
<1>5. OutcomesAreTrue'
  BY <1>1, <1>2, <1>3, InputsFixed, VerdictsOfChecks DEF CampaignInv, OutcomesAreTrue
<1>6. QED
  BY <1>1, <1>2, <1>4, <1>5 DEF CampaignInv, Shapes, WhileDriving, WhileErased, WhileShrinking

LEMMA StepShrink == CampaignInv /\ Shrink => CampaignInv'
<1> SUFFICES ASSUME CampaignInv, Shrink
             PROVE  CampaignInv'
  OBVIOUS
<1>1. /\ pc = "shrink" /\ pc' \in {"shrink", "blame"} /\ outcome' = None
      /\ UNCHANGED <<inputs, index, verdicts>>
      /\ shrinking' = [name |-> shrinking.name, seed |-> shrinking.seed,
                       full |-> shrinking.full, best |-> shrinking'.best, len |-> shrinking'.len]
  BY DEF CampaignInv, WhileShrinking, Shrink
<1>2. plan' = plan /\ backend' = backend
  BY <1>1 DEF inputs
<1>3. WhileShrinking'
  BY <1>1, <1>2, InputsFixed DEF CampaignInv, WhileShrinking
<1>4. QED
  BY <1>1, <1>2, <1>3, NoOutcome DEF CampaignInv, Shapes, WhileDriving, WhileErased

LEMMA StepBlame == CampaignInv /\ Blame => CampaignInv'
<1> SUFFICES ASSUME CampaignInv, Blame
             PROVE  CampaignInv'
  OBVIOUS
<1>1. /\ pc \in {"shrink", "blame"} /\ pc' = "done"
      /\ outcome'.type = "violation" /\ outcome'.name = shrinking.name
      /\ outcome'.seed = shrinking.seed
      /\ UNCHANGED <<inputs, index, verdicts>>
  BY DEF Blame
<1>2. plan' = plan /\ backend' = backend
  BY <1>1 DEF inputs
<1>3. ReportsSkipNothing' /\ OutcomesAreTrue'
  BY <1>1, <1>2, InputsFixed DEF CampaignInv, WhileShrinking, ReportsSkipNothing, OutcomesAreTrue
<1>4. QED
  BY <1>1, <1>2, <1>3 DEF CampaignInv, Shapes, WhileDriving, WhileErased, WhileShrinking

(* The plan that is run again is the same but for its scenario or its      *)
(* number of seeds.                                                        *)
LEMMA StepAgain == CampaignInv /\ Again => CampaignInv'
<1> SUFFICES ASSUME CampaignInv, Again
             PROVE  CampaignInv'
  OBVIOUS
<1>1. /\ pc' = "start" /\ index' = 0 /\ verdicts' = <<>> /\ outcome' = None
      /\ backend' = backend
  BY DEF Again
<1>2. PICK replays : plan \in PlanRecord(replays)
  BY DEF CampaignInv, Shapes
<1>3. \E more : plan' \in PlanRecord(more)
  <2>1. CASE plan' = plan
    BY <1>2, <2>1
  <2>2. CASE plan' = [plan EXCEPT !.replay = <<outcome.scenario>>]
    <3>1. plan' \in PlanRecord({<<outcome.scenario>>})
      BY <1>2, <2>2 DEF PlanRecord
    <3>2. QED
      BY <3>1
  <2>3. CASE plan' = [plan EXCEPT !.seeds = 1]
    <3>1. plan' \in PlanRecord(replays)
      BY <1>2, <2>3 DEF PlanRecord
    <3>2. QED
      BY <3>1
  <2>4. QED
    BY <2>1, <2>2, <2>3 DEF Again
<1>4. Shapes'
  BY <1>1, <1>3 DEF CampaignInv, Shapes
<1>5. QED
  BY <1>1, <1>4, NoOutcome DEF CampaignInv, WhileDriving, WhileErased, WhileShrinking

LEMMA CampaignNext == CampaignInv /\ [Next]_vars => CampaignInv'
<1>1. CampaignInv /\ UNCHANGED vars => CampaignInv'
  <2> SUFFICES ASSUME CampaignInv, UNCHANGED vars
               PROVE  CampaignInv'
    OBVIOUS
  <2>1. /\ UNCHANGED <<inputs, pc, index, verdicts, shrinking, outcome>>
        /\ plan' = plan /\ backend' = backend
    BY DEF vars, inputs
  <2>2. ReportsSkipNothing' /\ OutcomesAreTrue'
    BY <2>1, InputsFixed DEF CampaignInv, ReportsSkipNothing, OutcomesAreTrue, Judged, Runs
  <2>3. Shapes' /\ WhileDriving' /\ WhileErased' /\ WhileShrinking'
    BY <2>1, InputsFixed
    DEF CampaignInv, Shapes, WhileDriving, WhileErased, WhileShrinking, Runs, Named
  <2>4. QED
    BY <2>1, <2>2, <2>3 DEF CampaignInv
<1>2. QED
  BY <1>1, StepNegotiate, StepRefuse, StepPass, StepFail, StepReport, StepErased, StepShrink,
     StepBlame, StepAgain
  DEF Next, Finished

LEMMA CampaignInvariant == Spec => []CampaignInv
BY CampaignInit, CampaignNext, PTL DEF Spec

(* A report holds a verdict of every property and oracle of its plan,      *)
(* whichever path it took (try_run, drive, drive_erased).                  *)
THEOREM ReportsComplete == Spec => []ReportsSkipNothing
<1>1. CampaignInv => ReportsSkipNothing
  BY DEF CampaignInv
<1>2. QED
  BY <1>1, CampaignInvariant, PTL

(* What drive returns is true of the runs: which check was the first to    *)
(* fail, at which seed, and that no seed before it failed (drive,          *)
(* effective_seed).                                                        *)
THEOREM OutcomesTrue == Spec => []OutcomesAreTrue
<1>1. CampaignInv => OutcomesAreTrue
  BY DEF CampaignInv
<1>2. QED
  BY <1>1, CampaignInvariant, PTL

-----------------------------------------------------------------------------
(* Scenarios.  What is shrunk is a prefix of the ops that a failed run     *)
(* recorded; the best prefix known to fail is what is left of them, and    *)
(* the campaign blames when the prefix without its last op passes.         *)
Known(ops) == ops \in Seq(FrozenOp) /\ Stream(ops) \in Streams

OpsKnown ==
  /\ workload \in [DOMAIN workload -> Workloads]
  /\ recorded \in [DOMAIN workload -> Recordings]
  /\ 0 .. (Runs(plan) - 1) \subseteq DOMAIN workload /\ DOMAIN workload \subseteq Nat
  /\ env \in DOMAIN workload \cup {NoSeed}
  /\ plan.replay # <<>> => Known(plan.replay[1])
  /\ outcome.type = "violation" =>
       outcome.seed \in DOMAIN workload /\ Known(outcome.scenario)

Shrunk ==
  LET s == shrinking
  IN /\ s.seed \in DOMAIN workload
     /\ s.full = CollectOps(s.seed, ResolveOps(s.seed))
     /\ s.len \in 0 .. Len(s.full)
     /\ s.best = SubSeq(s.full, 1, s.len)
     /\ AtHome(ResolveOps(s.seed)) => FailsNamed(s.seed, s.best, s.name)
     /\ pc = "blame" => s.len > 0 /\ ~FailsNamed(s.seed, SubSeq(s.full, 1, s.len - 1), s.name)

TightInv ==
  CampaignInv /\ OpsKnown /\ (pc \in {"shrink", "blame"} => Shrunk) /\ ScenariosAreTight

(* The ops of a run.                                                       *)
LEMMA OpsTyped ==
  ASSUME Shapes, OpsKnown, NEW seed \in DOMAIN workload
  PROVE  Known(ResolveOps(seed))
<1>1. CASE plan.replay # <<>>
  BY <1>1 DEF OpsKnown, ResolveOps
<1>2. CASE plan.replay = <<>>
  <2> DEFINE w == workload[seed]
             n == Min({Sampled(plan), Len(w)})
  <2>1. w \in Workloads /\ w \in Seq(FrozenOp) /\ Len(w) \in Nat
    BY CampaignAssumption DEF OpsKnown
  <2>2. Sampled(plan) \in Nat
    <3>1. Runs(plan) \in Nat
      BY RunsPositive DEF Shapes, PlanRecord
    <3>2. \E x \in {Runs(plan), 64} : \A y \in {Runs(plan), 64} : x <= y
      BY <3>1
    <3>3. QED
      BY <3>1, <3>2 DEF Sampled, Min
  <2>3. n \in 0 .. Len(w)
    <3>1. \E x \in {Sampled(plan), Len(w)} : \A y \in {Sampled(plan), Len(w)} : x <= y
      BY <2>1, <2>2
    <3>2. QED
      BY <2>1, <2>2, <3>1 DEF Min
  <2> HIDE DEF w, n
  <2>4. SubSeq(w, 1, n) \in Seq(FrozenOp)
    <3>1. n \in Int /\ 1 \in Int /\ \A i \in 1 .. n : i \in 1 .. Len(w)
      BY <2>1, <2>3
    <3>2. \A i \in 1 .. n : w[i] \in FrozenOp
      BY <2>1, <3>1, ElementOfSeq
    <3>3. QED
      BY <3>1, <3>2, SubSeqProperties
  <2>5. Stream(SubSeq(w, 1, n)) \in Streams
    BY <2>1, <2>3, StreamsAssumption
  <2>6. QED
    BY <1>2, <2>4, <2>5 DEF Known, ResolveOps, w, n
<1>3. QED
  BY <1>1, <1>2

(* The ops collected from a run are those it recorded, at home, and so is  *)
(* every prefix of them.  If the ops were at home, a run of what was       *)
(* collected records just that.                                            *)
LEMMA CollectedOps ==
  ASSUME OpsKnown, NEW seed \in DOMAIN workload, NEW ops, Known(ops)
  PROVE  /\ CollectOps(seed, ops) \in Seq(FrozenOp)
         /\ \A n \in 0 .. Len(CollectOps(seed, ops)) : Known(SubSeq(CollectOps(seed, ops), 1, n))
         /\ AtHome(ops) => Record(seed, CollectOps(seed, ops)) = Record(seed, ops)
<1> DEFINE N == NodeCount
           Op == [process : 0 .. (N - 1), target : 0 .. (N - 1)]
           f == recorded[seed]
           s == Stream(ops)
           r == f[s]
           full == CollectOps(seed, ops)
           op(i) == [process |-> r[i].process, route |-> NoRoute]
<1>1. s \in Streams /\ f \in [Streams -> Streams] /\ Recording(f) /\ r \in Streams
  BY StreamsAssumption DEF OpsKnown, Known
<1>2. /\ r \in Seq(Op) /\ Len(r) \in Nat /\ DOMAIN r = 1 .. Len(r)
      /\ \A i \in 1 .. Len(r) : r[i] \in Op
  <2>1. r \in Seq(Op)
    BY <1>1, StreamsAssumption
  <2>2. QED
    BY <2>1, LenProperties, ElementOfSeq
<1>3. \A p \in 0 .. (N - 1) : p \in Nat /\ p % N = p
  BY CampaignAssumption
<1>4. Record(seed, ops) = r /\ full = [i \in 1 .. Len(r) |-> op(i)]
  BY <1>2 DEF CollectOps, Record
<1>5. \A i \in 1 .. Len(r) :
        /\ r[i].process \in 0 .. (N - 1)
        /\ op(i) \in FrozenOp /\ Process(op(i)) = r[i].process /\ Target(op(i)) = r[i].process
  <2>1. \A x \in Op : x.process \in 0 .. (N - 1)
    OBVIOUS
  <2> HIDE DEF Op
  <2>2. \A i \in 1 .. Len(r) : r[i].process \in 0 .. (N - 1)
    BY <1>2, <2>1
  <2>3. QED
    BY <1>3, <2>2 DEF FrozenOp, Process, Target
<1> HIDE DEF r, op
<1>6. full \in Seq(FrozenOp) /\ Len(full) = Len(r) /\ \A i \in 1 .. Len(r) : full[i] = op(i)
  BY <1>2, <1>4, <1>5
<1>7. Homed(r) = [i \in 1 .. Len(r) |-> [process |-> r[i].process, target |-> r[i].process]]
  BY <1>2 DEF Homed
<1>8. ASSUME NEW n \in 0 .. Len(full)
      PROVE  Known(SubSeq(full, 1, n))
  <2> DEFINE home(i) == [process |-> r[i].process, target |-> r[i].process]
  <2>1. n \in Nat /\ n <= Len(r) /\ \A i \in 1 .. n : i \in 1 .. Len(r) /\ 1 + i - 1 = i
    BY <1>2, <1>6
  <2>2. /\ SubSeq(full, 1, n) \in Seq(FrozenOp) /\ DOMAIN SubSeq(full, 1, n) = 1 .. n
        /\ \A i \in 1 .. n : SubSeq(full, 1, n)[i] = op(i)
    <3>1. 1 \in Int /\ n \in Int /\ \A i \in 1 .. n : full[i] \in FrozenOp
      BY <1>5, <1>6, <2>1
    <3>2. SubSeq(full, 1, n) \in Seq(FrozenOp)
      BY <3>1, SubSeqProperties
    <3>3. SubSeq(full, 1, n) = [i \in 1 .. n |-> full[i]]
      BY <2>1
    <3>4. QED
      BY <1>6, <2>1, <3>2, <3>3
  <2>3. Stream(SubSeq(full, 1, n)) = [i \in 1 .. n |-> home(i)]
    <3> DEFINE c == SubSeq(full, 1, n)
    <3>1. \A i \in 1 .. n : Process(c[i]) = r[i].process /\ Target(c[i]) = r[i].process
      BY <1>5, <2>1, <2>2
    <3>2. DOMAIN c = 1 .. n
      BY <2>2
    <3> HIDE DEF c
    <3>3. Stream(c) = [i \in 1 .. n |-> home(i)]
      BY <3>1, <3>2 DEF Stream
    <3>4. QED
      BY <3>3 DEF c
  <2>4. SubSeq(Homed(r), 1, n) = [i \in 1 .. n |-> home(i)]
    BY <1>2, <1>7, <2>1
  <2>5. SubSeq(Homed(r), 1, n) \in Streams
    <3>1. r \in Streams /\ n \in 0 .. Len(r)
      BY <1>1, <1>6 DEF r
    <3>2. QED
      BY <3>1, StreamsAssumption
  <2>6. QED
    BY <2>2, <2>3, <2>4, <2>5 DEF Known
<1>9. ASSUME AtHome(ops)
      PROVE  Record(seed, full) = Record(seed, ops)
  <2>1. \A i \in DOMAIN s : s[i].process = s[i].target
    BY <1>9 DEF AtHome, Stream
  <2>2. Range(r) \subseteq Range(s)
    BY <1>1 DEF r, Recording
  <2>3. \A i \in 1 .. Len(r) : r[i].process = r[i].target
    <3> SUFFICES ASSUME NEW i \in 1 .. Len(r)
                 PROVE  r[i].process = r[i].target
      OBVIOUS
    <3> HIDE DEF s
    <3>1. r[i] \in Range(r)
      BY <1>2 DEF Range
    <3>2. PICK k \in DOMAIN s : r[i] = s[k]
      BY <2>2, <3>1 DEF Range
    <3>3. QED
      BY <2>1, <3>2
  <2>4. \A i \in 1 .. Len(r) : r[i] = [process |-> r[i].process, target |-> r[i].process]
    <3>1. \A x \in Op : x = [process |-> x.process, target |-> x.target]
      OBVIOUS
    <3>2. QED
      BY <1>2, <2>3, <3>1
  <2>5. r = [i \in 1 .. Len(r) |-> [process |-> r[i].process, target |-> r[i].process]]
    <3>1. r = [i \in 1 .. Len(r) |-> r[i]]
      BY <1>2
    <3>2. QED
      BY <2>4, <3>1
  <2>6. Stream(full) = r
    <3>1. DOMAIN full = 1 .. Len(r)
      BY <1>2, <1>6
    <3>2. \A i \in 1 .. Len(r) : Process(full[i]) = r[i].process /\ Target(full[i]) = r[i].process
      BY <1>5, <1>6
    <3> HIDE DEF full
    <3>3. Stream(full) = [i \in 1 .. Len(r) |-> [process |-> r[i].process, target |-> r[i].process]]
      BY <3>1, <3>2 DEF Stream
    <3>4. QED
      BY <2>5, <3>3
  <2>7. f[r] = r
    <3>1. SubSeq(r, 1, Len(r)) = r /\ Len(r) \in 0 .. Len(r)
      BY <1>2, SubSeqFull
    <3>2. \A n \in 0 .. Len(f[s]) : f[SubSeq(f[s], 1, n)] = SubSeq(f[s], 1, n)
      BY <1>1 DEF Recording
    <3>3. QED
      BY <3>1, <3>2 DEF r
  <2>8. QED
    BY <1>4, <2>6, <2>7 DEF Record
<1>10. QED
  BY <1>6, <1>8, <1>9

LEMMA TightInit == Init => TightInv
<1> SUFFICES ASSUME Init
             PROVE  TightInv
  OBVIOUS
<1>1. /\ plan \in Plans /\ plan \in Plan /\ workload \in [Seeds -> Workloads]
      /\ recorded \in [Seeds -> Recordings]
      /\ env = NoSeed /\ pc = "start" /\ outcome = None
  BY CampaignAssumption DEF Init
<1>2. /\ workload \in [DOMAIN workload -> Workloads] /\ recorded \in [DOMAIN workload -> Recordings]
      /\ 0 .. (Runs(plan) - 1) \subseteq DOMAIN workload /\ DOMAIN workload \subseteq Nat
  BY <1>1 DEF Seeds
<1>3. OpsKnown
  <2>1. plan.replay \in Seq(Seq(FrozenOp))
    BY <1>1 DEF Plan
  <2>2. ASSUME plan.replay # <<>>
        PROVE  Known(plan.replay[1])
    <3>1. 1 \in DOMAIN plan.replay /\ plan.replay[1] \in Seq(FrozenOp)
      BY <2>1, <2>2, EmptySeq, ElementOfSeq, LenProperties
    <3>2. QED
      BY <1>1, <3>1, StreamsAssumption DEF Known
  <2>3. QED
    BY <1>1, <1>2, <2>2 DEF OpsKnown, None
<1>4. ScenariosAreTight
  BY <1>1 DEF ScenariosAreTight, None
<1>5. QED
  BY <1>1, <1>3, <1>4, CampaignInit DEF TightInv

(* Steps of a campaign that fails nothing and returns no failure.          *)
LEMMA TightQuiet ==
  ASSUME TightInv, UNCHANGED inputs, CampaignInv', outcome'.type # "violation",
         pc' \notin {"shrink", "blame"}
  PROVE  TightInv'
<1>1. plan' = plan /\ workload' = workload /\ recorded' = recorded /\ env' = env
  BY DEF inputs
<1>2. OpsKnown'
  BY <1>1 DEF TightInv, OpsKnown, Runs, Known, Stream, Process, Target
<1>3. QED
  BY <1>2 DEF TightInv, ScenariosAreTight

(* What was shrunk before a step is shrunk after it, if it is the same.    *)
LEMMA TightFixed ==
  ASSUME UNCHANGED inputs
  PROVE  /\ plan' = plan /\ workload' = workload /\ recorded' = recorded /\ env' = env
         /\ Runs(plan)' = Runs(plan)
         /\ \A seed : ResolveOps(seed)' = ResolveOps(seed)
         /\ \A ops : AtHome(ops)' <=> AtHome(ops)
         /\ \A ops : Known(ops)' <=> Known(ops)
         /\ \A seed, ops, name : FailsNamed(seed, ops, name)' <=> FailsNamed(seed, ops, name)
         /\ \A seed, ops : CollectOps(seed, ops)' = CollectOps(seed, ops)
<1>1. /\ plan' = plan /\ workload' = workload /\ recorded' = recorded /\ env' = env
      /\ Runs(plan)' = Runs(plan)
  BY DEF inputs, Runs
<1>2. \A ops : (AtHome(ops)' <=> AtHome(ops)) /\ (Known(ops)' <=> Known(ops))
  BY DEF AtHome, Target, Process, Known, Stream
<1>3. QED
  BY <1>1, <1>2, InputsFixed

LEMMA TightFail == TightInv /\ FailSeed => TightInv'
<1> SUFFICES ASSUME TightInv, FailSeed
             PROVE  TightInv'
  OBVIOUS
<1> DEFINE seed == EffectiveSeed(index)
           ops == ResolveOps(seed)
           full == CollectOps(seed, ops)
<1>1. /\ pc = "drive" /\ pc' = "shrink" /\ index < Runs(plan) /\ UNCHANGED <<inputs, outcome>>
      /\ outcome = None
      /\ shrinking' = [name |-> shrinking'.name, seed |-> seed,
                       full |-> full, best |-> full, len |-> Len(full)]
  BY DEF TightInv, CampaignInv, FailSeed, Driving
<1>2. CampaignInv'
  BY StepFail DEF TightInv
<1>3. OpsKnown'
  BY <1>1, TightFixed DEF TightInv, OpsKnown
<1>4. seed \in DOMAIN workload
  <2>1. index \in 0 .. (Runs(plan) - 1)
    BY <1>1, RunsPositive DEF TightInv, CampaignInv, Shapes, PlanRecord
  <2>2. QED
    BY <2>1 DEF TightInv, OpsKnown, EffectiveSeed
<1>5. Known(ops)
  BY <1>4, OpsTyped DEF TightInv, CampaignInv
<1>6. /\ full \in Seq(FrozenOp) /\ Len(full) \in Nat /\ SubSeq(full, 1, Len(full)) = full
      /\ AtHome(ops) => Record(seed, full) = Record(seed, ops)
  BY <1>4, <1>5, CollectedOps, SubSeqFull DEF TightInv
<1>7. /\ shrinking'.seed = seed /\ shrinking'.full = full /\ shrinking'.best = full
      /\ shrinking'.len = Len(full)
  BY <1>1
<1>8. \E k \in DOMAIN Checks : Checks[k] = shrinking'.name /\ Fails(seed, ops, k)
  <2>1. Failing(seed) # {} /\ shrinking'.name = Checks[FirstOf(Failing(seed))]
    BY DEF FailSeed
  <2>2. QED
    BY <2>1, FirstFailure DEF TightInv, CampaignInv, FailsFirst
<1>9. AtHome(ops) => FailsNamed(seed, full, shrinking'.name)
  BY <1>6, <1>8 DEF Fails, FailsNamed
<1>10. Shrunk'
  BY <1>1, <1>4, <1>6, <1>7, <1>9, TightFixed DEF Shrunk
<1>11. ScenariosAreTight'
  BY <1>1 DEF ScenariosAreTight, None
<1>12. QED
  BY <1>2, <1>3, <1>10, <1>11 DEF TightInv

(* A shorter prefix that still fails is kept, one that passes ends the     *)
(* search.                                                                 *)
LEMMA TightShrink == TightInv /\ Shrink => TightInv'
<1> SUFFICES ASSUME TightInv, Shrink
             PROVE  TightInv'
  OBVIOUS
<1> DEFINE s == shrinking
           shorter == SubSeq(s.full, 1, s.len - 1)
<1>1. /\ pc = "shrink" /\ pc' \in {"shrink", "blame"} /\ s.len > 0
      /\ UNCHANGED <<inputs, outcome>> /\ outcome = None /\ Shrunk
  BY DEF TightInv, CampaignInv, Shrink
<1>2. s = [name |-> s.name, seed |-> s.seed, full |-> s.full, best |-> s.best, len |-> s.len]
  BY <1>1 DEF TightInv, CampaignInv, WhileShrinking
<1>3. \/ /\ FailsNamed(s.seed, shorter, s.name) /\ pc' = "shrink"
         /\ shrinking' = [s EXCEPT !.best = shorter, !.len = s.len - 1]
      \/ ~FailsNamed(s.seed, shorter, s.name) /\ pc' = "blame" /\ shrinking' = s
  BY <1>1 DEF Shrink, Candidate, StillFails
<1>4. CampaignInv'
  BY StepShrink DEF TightInv
<1>5. OpsKnown'
  BY <1>1, TightFixed DEF TightInv, OpsKnown
<1>6. \A seed, ops : CollectOps(seed, ops)' = CollectOps(seed, ops)
  BY <1>1, TightFixed
<1>7. ASSUME pc' = "blame"
      PROVE  Shrunk'
  <2>1. shrinking' = s /\ ~FailsNamed(s.seed, shorter, s.name)
    BY <1>3, <1>7
  <2>2. QED
    BY <1>1, <1>6, <1>7, <2>1, TightFixed DEF Shrunk
<1>8. ASSUME pc' = "shrink"
      PROVE  Shrunk'
  <2>1. FailsNamed(s.seed, shorter, s.name)
    BY <1>3, <1>8
  <2>2. /\ shrinking'.seed = s.seed /\ shrinking'.full = s.full /\ shrinking'.name = s.name
        /\ shrinking'.best = shorter /\ shrinking'.len = s.len - 1
    BY <1>2, <1>3, <1>8
  <2>3. s.len - 1 \in 0 .. Len(s.full)
    BY <1>1 DEF Shrunk
  <2>4. QED
    BY <1>1, <1>6, <1>8, <2>1, <2>2, <2>3, TightFixed DEF Shrunk
<1>9. Shrunk'
  BY <1>1, <1>7, <1>8
<1>10. ScenariosAreTight'
  BY <1>1 DEF ScenariosAreTight, None
<1>11. QED
  BY <1>4, <1>5, <1>9, <1>10 DEF TightInv

LEMMA TightBlame == TightInv /\ Blame => TightInv'
<1> SUFFICES ASSUME TightInv, Blame
             PROVE  TightInv'
  OBVIOUS
<1> DEFINE s == shrinking
           ops == outcome'.scenario
<1>1. /\ pc \in {"shrink", "blame"} /\ pc' = "done" /\ (pc = "shrink" => s.len = 0)
      /\ UNCHANGED inputs /\ Shrunk
      /\ outcome'.type = "violation" /\ outcome'.name = s.name
      /\ outcome'.seed = s.seed /\ outcome'.scenario = s.best
  BY DEF TightInv, Blame
<1>2. CampaignInv'
  BY StepBlame DEF TightInv
<1>3. s.full \in Seq(FrozenOp) /\ \A n \in 0 .. Len(s.full) : Known(SubSeq(s.full, 1, n))
  BY <1>1, OpsTyped, CollectedOps DEF TightInv, CampaignInv, Shrunk
<1>4. ops = SubSeq(s.full, 1, s.len) /\ s.len \in 0 .. Len(s.full) /\ Len(s.full) \in Nat
  BY <1>1, <1>3 DEF Shrunk
<1>5. ops \in Seq(FrozenOp) /\ Len(ops) = s.len
  <2>1. \A i \in 1 .. s.len : s.full[i] \in FrozenOp
    BY <1>3, <1>4, ElementOfSeq
  <2>2. 1 \in Int /\ s.len \in Int
    BY <1>4
  <2>3. QED
    BY <1>4, <2>1, <2>2, SubSeqProperties
<1>6. ops # <<>> => s.len > 0 /\ SubSeq(ops, 1, s.len - 1) = SubSeq(s.full, 1, s.len - 1)
  <2> SUFFICES ASSUME ops # <<>>
               PROVE  s.len > 0 /\ SubSeq(ops, 1, s.len - 1) = SubSeq(s.full, 1, s.len - 1)
    OBVIOUS
  <2>1. s.len \in 1 .. Len(s.full)
    BY <1>4, <1>5, EmptySeq
  <2>2. CASE s.len = 1
    BY <1>4, <2>2, SubSeqEmpty
  <2>3. CASE s.len > 1
    <3>1. 1 \in 1 .. Len(s.full) /\ 1 \in 1 .. (s.len - 1 + 1) /\ s.len - 1 \in 1 .. (s.len - 1 + 1)
      BY <2>1, <2>3
    <3>2. SubSeq(SubSeq(s.full, 1, s.len), 1, s.len - 1) = SubSeq(s.full, 1 + 1 - 1, 1 + (s.len - 1) - 1)
      BY <1>3, <2>1, <3>1, SubSeqOfSubSeq
    <3>3. 1 + 1 - 1 = 1 /\ 1 + (s.len - 1) - 1 = s.len - 1
      BY <2>1
    <3>4. QED
      BY <1>4, <2>1, <3>2, <3>3
  <2>4. QED
    BY <2>1, <2>2, <2>3
<1>7. ops # <<>> => ~FailsNamed(s.seed, SubSeq(ops, 1, Len(ops) - 1), s.name)
  <2> SUFFICES ASSUME ops # <<>>
               PROVE  ~FailsNamed(s.seed, SubSeq(ops, 1, Len(ops) - 1), s.name)
    OBVIOUS
  <2>1. SubSeq(ops, 1, Len(ops) - 1) = SubSeq(s.full, 1, s.len - 1) /\ s.len > 0
    BY <1>5, <1>6
  <2>2. pc = "blame"
    BY <1>1, <2>1
  <2>3. QED
    BY <1>1, <2>1, <2>2 DEF Shrunk
<1>8. AtHome(ResolveOps(s.seed)) => FailsNamed(s.seed, ops, s.name)
  BY <1>1 DEF Shrunk
<1>9. ScenariosAreTight'
  BY <1>1, <1>7, <1>8, TightFixed DEF ScenariosAreTight
<1>10. OpsKnown'
  BY <1>1, <1>3, <1>4, TightFixed DEF TightInv, OpsKnown, Shrunk
<1>11. QED
  BY <1>1, <1>2, <1>9, <1>10 DEF TightInv

LEMMA TightAgain == TightInv /\ Again => TightInv'
<1> SUFFICES ASSUME TightInv, Again
             PROVE  TightInv'
  OBVIOUS
<1>1. /\ outcome.type = "violation" /\ env' = outcome.seed /\ pc' = "start" /\ outcome' = None
      /\ workload' = workload /\ recorded' = recorded
  BY DEF Again
<1>2. outcome.seed \in DOMAIN workload /\ Known(outcome.scenario)
  BY <1>1 DEF TightInv, OpsKnown
<1>3. PICK replays : plan \in PlanRecord(replays)
  BY DEF TightInv, CampaignInv, Shapes
<1>4. plan.seeds \in Nat /\ Runs(plan) \in Nat \ {0}
  BY <1>3, RunsPositive DEF PlanRecord
<1>5. /\ plan'.replay # <<>> => Known(plan'.replay[1])
      /\ plan'.seeds = plan.seeds \/ plan'.seeds = 1
  <2>1. CASE plan' = plan
    BY <2>1 DEF TightInv, OpsKnown
  <2>2. CASE plan' = [plan EXCEPT !.replay = <<outcome.scenario>>]
    <3>1. plan'.replay = <<outcome.scenario>> /\ plan'.seeds = plan.seeds
      BY <1>3, <2>2 DEF PlanRecord
    <3>2. QED
      BY <1>2, <3>1
  <2>3. CASE plan' = [plan EXCEPT !.seeds = 1]
    <3>1. plan'.replay = plan.replay /\ plan'.seeds = 1
      BY <1>3, <2>3 DEF PlanRecord
    <3>2. QED
      BY <3>1 DEF TightInv, OpsKnown
  <2>4. QED
    BY <2>1, <2>2, <2>3 DEF Again
<1>6. 0 .. (Runs(plan)' - 1) \subseteq 0 .. (Runs(plan) - 1)
  <2>1. CASE plan'.seeds = plan.seeds
    BY <2>1 DEF Runs
  <2>2. CASE plan'.seeds = 1
    <3>1. Runs(plan)' = 1
      BY <2>2 DEF Runs, Max
    <3>2. QED
      BY <1>4, <3>1
  <2>3. QED
    BY <1>5, <2>1, <2>2
<1>7. OpsKnown'
  BY <1>1, <1>2, <1>5, <1>6 DEF TightInv, OpsKnown, None, Known, Stream, Process, Target
<1>8. CampaignInv'
  BY StepAgain DEF TightInv
<1>9. QED
  BY <1>1, <1>7, <1>8 DEF TightInv, ScenariosAreTight, None

LEMMA TightNext == TightInv /\ [Next]_vars => TightInv'
<1> SUFFICES ASSUME TightInv, [Next]_vars
             PROVE  TightInv'
  OBVIOUS
<1>1. CampaignInv'
  BY CampaignNext DEF TightInv
<1>2. CASE Negotiate \/ Refuse \/ PassSeed \/ Report \/ DriveErased
  <2>1. UNCHANGED inputs /\ outcome'.type # "violation" /\ pc' \notin {"shrink", "blame"}
    BY <1>2 DEF Negotiate, Refuse, PassSeed, Report, DriveErased, Driving, TightInv, CampaignInv, None
  <2>2. QED
    BY <1>1, <2>1, TightQuiet
<1>3. CASE UNCHANGED vars
  <2>1. UNCHANGED <<inputs, pc, shrinking, outcome>>
    BY <1>3 DEF vars
  <2>2. OpsKnown' /\ ScenariosAreTight'
    BY <2>1, TightFixed DEF TightInv, OpsKnown, ScenariosAreTight
  <2>3. \A seed, ops : CollectOps(seed, ops)' = CollectOps(seed, ops)
    BY <2>1, TightFixed
  <2>4. Shrunk => Shrunk'
    BY <2>1, <2>3, TightFixed DEF Shrunk
  <2>5. QED
    BY <1>1, <2>1, <2>2, <2>4 DEF TightInv
<1>4. QED
  BY <1>2, <1>3, TightFail, TightShrink, TightBlame, TightAgain DEF Next, Finished

(* A scenario fails a check of the name it is reported for and does not    *)
(* without its last op (shrink_scenario), however long the streams are, as long as     *)
(* every op goes to the node of its process.                               *)
THEOREM ScenariosTight == Spec => []ScenariosAreTight
<1>1. TightInv => ScenariosAreTight
  BY DEF TightInv
<1>2. QED
  BY <1>1, TightInit, TightNext, PTL DEF Spec

-----------------------------------------------------------------------------
(* A failure comes back.  What a campaign blames is a function of the seed *)
(* and the ops of its run: the first check that fails, and the longest     *)
(* prefix of the ops that is followed by one that passes.                  *)
FailingOn(seed, ops) == {i \in DOMAIN Checks : Fails(seed, ops, i)}

FirstFailing(seed, ops, name) ==
  FailingOn(seed, ops) # {} /\ name = Checks[FirstOf(FailingOn(seed, ops))]

(* Shrinking has got to the first n ops.                                   *)
ShrunkTo(seed, full, name, n) ==
  /\ n \in 0 .. Len(full)
  /\ \A m \in n .. (Len(full) - 1) : FailsNamed(seed, SubSeq(full, 1, m), name)

ShrinkEnds(seed, full, name, n) ==
  n > 0 => ~FailsNamed(seed, SubSeq(full, 1, n - 1), name)

Blamed(out, ops) ==
  /\ out = [type |-> "violation", name |-> out.name, seed |-> out.seed, scenario |-> out.scenario]
  /\ FirstFailing(out.seed, ops, out.name)
  /\ \E n \in Nat : LET full == CollectOps(out.seed, ops)
                    IN /\ ShrunkTo(out.seed, full, out.name, n)
                       /\ ShrinkEnds(out.seed, full, out.name, n)
                       /\ out.scenario = SubSeq(full, 1, n)

Blaming ==
  pc \in {"shrink", "blame"} =>
    LET s == shrinking
        ops == ResolveOps(s.seed)
    IN /\ plan.style = "state_machine"
       /\ FirstFailing(s.seed, ops, s.name)
       /\ ShrunkTo(s.seed, CollectOps(s.seed, ops), s.name, s.len)
       /\ pc = "blame" => ShrinkEnds(s.seed, CollectOps(s.seed, ops), s.name, s.len)

Returned ==
  outcome.type = "violation" =>
    /\ backend.snapshots /\ plan.style = "state_machine"
    /\ Blamed(outcome, ResolveOps(outcome.seed))

(* What is known of the campaign that failed before.                       *)
Remembered ==
  past # <<>> =>
    /\ backend.snapshots /\ plan.style = "state_machine"
    /\ env \in Nat /\ env = past[1].outcome.seed
    /\ Blamed(past[1].outcome, past[1].ops)
    /\ AtHome(past[1].ops) => FailsNamed(env, past[1].outcome.scenario, past[1].outcome.name)

SameRun == ResolveOps(env) = past[1].ops \/ (Replayed /\ AtHome(past[1].ops))

ComesBack ==
  past # <<>> /\ SameRun =>
    /\ pc # "erased"
    /\ pc = "drive" => index = 0
    /\ pc \in {"shrink", "blame"} => index = 1 /\ shrinking.seed = env
    /\ pc = "done" => outcome.type = "violation" /\ outcome.seed = env /\ index = 1

BackInv == TightInv /\ Blaming /\ Returned /\ Remembered /\ ComesBack

LEMMA FailingIsFailingOn ==
  ASSUME NEW seed
  PROVE  Failing(seed) = FailingOn(seed, ResolveOps(seed))
BY DEF Failing, FailingOn

(* What is blamed depends on the checks and on the outcomes of the runs.   *)
LEMMA BlamedFixed ==
  ASSUME Checks' = Checks, UNCHANGED <<recorded, broken>>
  PROVE  /\ \A seed, ops, name : FailsNamed(seed, ops, name)' <=> FailsNamed(seed, ops, name)
         /\ \A seed, ops, name : FirstFailing(seed, ops, name)' <=> FirstFailing(seed, ops, name)
         /\ \A seed, full, name, n :
              /\ ShrunkTo(seed, full, name, n)' <=> ShrunkTo(seed, full, name, n)
              /\ ShrinkEnds(seed, full, name, n)' <=> ShrinkEnds(seed, full, name, n)
         /\ \A out, ops : Blamed(out, ops)' <=> Blamed(out, ops)
         /\ \A seed, ops : CollectOps(seed, ops)' = CollectOps(seed, ops)
         /\ \A ops : AtHome(ops)' <=> AtHome(ops)
<1>1. \A seed, ops, k : Fails(seed, ops, k)' <=> Fails(seed, ops, k)
  BY DEF Fails, Record, Stream, Process, Target
<1>2. \A seed, ops, name : FailsNamed(seed, ops, name)' <=> FailsNamed(seed, ops, name)
  BY <1>1 DEF FailsNamed
<1>3. \A seed, ops, name : FirstFailing(seed, ops, name)' <=> FirstFailing(seed, ops, name)
  BY <1>1 DEF FirstFailing, FailingOn
<1>4. \A seed, full, name, n :
         /\ ShrunkTo(seed, full, name, n)' <=> ShrunkTo(seed, full, name, n)
         /\ ShrinkEnds(seed, full, name, n)' <=> ShrinkEnds(seed, full, name, n)
  BY <1>2 DEF ShrunkTo, ShrinkEnds
<1>5. \A seed, ops : CollectOps(seed, ops)' = CollectOps(seed, ops)
  BY DEF CollectOps, Record, Stream, Process, Target
<1>6. \A out, ops : Blamed(out, ops)' <=> Blamed(out, ops)
  BY <1>3, <1>4, <1>5 DEF Blamed
<1>7. \A ops : AtHome(ops)' <=> AtHome(ops)
  BY DEF AtHome, Target, Process
<1>8. QED
  BY <1>2, <1>3, <1>4, <1>5, <1>6, <1>7

(* Two campaigns that blame a run for a seed blame it in the same way.     *)
LEMMA BlamedOnce ==
  ASSUME NEW ops, NEW a, NEW b, Blamed(a, ops), Blamed(b, ops), a.seed = b.seed
  PROVE  a = b
<1> DEFINE full == CollectOps(a.seed, ops)
<1>1. a.name = b.name
  BY DEF Blamed, FirstFailing
<1>2. PICK m \in Nat : /\ ShrunkTo(a.seed, full, a.name, m) /\ ShrinkEnds(a.seed, full, a.name, m)
                       /\ a.scenario = SubSeq(full, 1, m)
  BY DEF Blamed
<1>3. PICK n \in Nat : /\ ShrunkTo(b.seed, full, b.name, n) /\ ShrinkEnds(b.seed, full, b.name, n)
                       /\ b.scenario = SubSeq(full, 1, n)
  BY DEF Blamed
<1> HIDE DEF full
<1>4. ASSUME NEW x \in Nat, NEW y \in Nat, x < y, NEW seed, NEW name,
             ShrunkTo(seed, full, name, x), ShrunkTo(seed, full, name, y),
             ShrinkEnds(seed, full, name, y)
      PROVE  FALSE
  <2>1. y \in 0 .. Len(full) /\ \A k \in x .. (Len(full) - 1) : FailsNamed(seed, SubSeq(full, 1, k), name)
    BY <1>4 DEF ShrunkTo
  <2>2. y - 1 \in x .. (Len(full) - 1) /\ y > 0
    <3>1. Len(full) \in Int
      BY <2>1
    <3>2. QED
      BY <1>4, <2>1
  <2>3. QED
    BY <1>4, <2>1, <2>2 DEF ShrinkEnds
<1>5. m = n
  <2>1. ~(m < n)
    BY <1>1, <1>2, <1>3, <1>4
  <2>2. ~(n < m)
    BY <1>1, <1>2, <1>3, <1>4
  <2>3. QED
    BY <2>1, <2>2
<1>6. a.scenario = b.scenario
  BY <1>2, <1>3, <1>5
<1>7. QED
  BY <1>1, <1>6 DEF Blamed

(* What is remembered, and whether a run is the same run, rests on the     *)
(* inputs and the past.                                                    *)
LEMMA PastFixed ==
  ASSUME UNCHANGED <<inputs, past>>
  PROVE  /\ plan' = plan /\ backend' = backend /\ env' = env /\ past' = past
         /\ SameRun' <=> SameRun
         /\ Remembered => Remembered'
<1>1. /\ plan' = plan /\ backend' = backend /\ env' = env /\ past' = past
      /\ UNCHANGED <<recorded, broken>> /\ UNCHANGED inputs /\ Checks' = Checks
  BY InputsFixed DEF inputs
<1>2. ResolveOps(env)' = ResolveOps(env)
  BY <1>1 DEF ResolveOps, inputs
<1>3. SameRun' <=> SameRun
  BY <1>1, <1>2, BlamedFixed DEF SameRun, Replayed
<1>4. Remembered => Remembered'
  BY <1>1, BlamedFixed DEF Remembered
<1>5. QED
  BY <1>1, <1>3, <1>4

(* Nothing is blamed and no failure is returned.                           *)
LEMMA BackQuiet ==
  ASSUME BackInv, [Next]_vars, UNCHANGED <<inputs, past>>,
         outcome'.type # "violation", pc' \notin {"shrink", "blame"}
  PROVE  TightInv' /\ Blaming' /\ Returned' /\ Remembered'
BY TightNext, PastFixed DEF BackInv, Blaming, Returned

(* The run of a campaign that is run again fails at the seed it is given.  *)
LEMMA SameRunFails ==
  ASSUME TightInv, Remembered, past # <<>>, SameRun
  PROVE  EffectiveSeed(0) = env /\ Failing(env) # {}
<1> DEFINE out == past[1].outcome
           ops == past[1].ops
<1>1. env \in Nat /\ env = out.seed /\ Blamed(out, ops)
  BY DEF Remembered
<1>2. EffectiveSeed(0) = env
  BY <1>1, CampaignAssumption DEF EffectiveSeed
<1>3. FirstFailing(env, ops, out.name)
  BY <1>1 DEF Blamed
<1>4. CASE ResolveOps(env) = ops
  BY <1>2, <1>3, <1>4, FailingIsFailingOn DEF FirstFailing
<1>5. CASE Replayed /\ AtHome(ops)
  <2>1. ResolveOps(env) = out.scenario /\ FailsNamed(env, out.scenario, out.name)
    BY <1>5 DEF Replayed, ResolveOps, Remembered
  <2>2. QED
    BY <1>2, <2>1 DEF FailsNamed, Failing
<1>6. QED
  BY <1>2, <1>4, <1>5 DEF SameRun

LEMMA BackInit == Init => BackInv
<1> SUFFICES ASSUME Init
             PROVE  BackInv
  OBVIOUS
<1>1. pc = "start" /\ outcome = None /\ past = <<>>
  BY DEF Init
<1>2. QED
  BY <1>1, TightInit DEF BackInv, Blaming, Returned, Remembered, ComesBack, None

LEMMA BackNegotiate == BackInv /\ Negotiate => BackInv'
<1> SUFFICES ASSUME BackInv, Negotiate
             PROVE  BackInv'
  OBVIOUS
<1>1. /\ pc = "start" /\ index = 0 /\ index' = 0 /\ outcome = None
      /\ UNCHANGED <<inputs, past>> /\ pc' \in {"done", "drive", "erased"}
      /\ outcome'.type # "violation"
  BY DEF BackInv, TightInv, CampaignInv, Negotiate, None
<1>2. TightInv' /\ Blaming' /\ Returned' /\ Remembered'
  BY <1>1, BackQuiet DEF Next
<1>3. past # <<>> => pc' = "drive"
  BY DEF BackInv, Remembered, Negotiate, Accepted
<1>4. ComesBack'
  BY <1>1, <1>3, PastFixed DEF ComesBack
<1>5. QED
  BY <1>2, <1>4 DEF BackInv

(* A run that is the same is refused by no backend, passes no seed and     *)
(* ends in no report.                                                      *)
LEMMA BackPasses == BackInv /\ (Refuse \/ PassSeed \/ Report \/ DriveErased) => BackInv'
<1> SUFFICES ASSUME BackInv, Refuse \/ PassSeed \/ Report \/ DriveErased
             PROVE  BackInv'
  OBVIOUS
<1>1. /\ UNCHANGED <<inputs, past>> /\ outcome'.type # "violation"
      /\ pc' \notin {"shrink", "blame"}
  BY DEF BackInv, TightInv, CampaignInv, Refuse, PassSeed, Report, DriveErased, Driving, None
<1>2. TightInv' /\ Blaming' /\ Returned' /\ Remembered'
  BY <1>1, BackQuiet DEF Next
<1>3. ASSUME past # <<>>, SameRun
      PROVE  FALSE
  <2>1. EffectiveSeed(0) = env /\ Failing(env) # {} /\ plan.style = "state_machine"
    BY <1>3, SameRunFails DEF BackInv, Remembered
  <2>2. pc # "erased" /\ (pc = "drive" => index = 0)
    BY <1>3 DEF BackInv, ComesBack
  <2>3. Runs(plan) # 0
    BY RunsPositive DEF BackInv, TightInv, CampaignInv, Shapes, PlanRecord
  <2>4. QED
    BY <2>1, <2>2, <2>3 DEF Refuse, PassSeed, Report, DriveErased, Driving
<1>4. ComesBack'
  BY <1>1, <1>3, PastFixed DEF ComesBack
<1>5. QED
  BY <1>2, <1>4 DEF BackInv

LEMMA BackFail == BackInv /\ FailSeed => BackInv'
<1> SUFFICES ASSUME BackInv, FailSeed
             PROVE  BackInv'
  OBVIOUS
<1> DEFINE seed == EffectiveSeed(index)
           ops == ResolveOps(seed)
           full == CollectOps(seed, ops)
<1>1. /\ pc = "drive" /\ pc' = "shrink" /\ index' = index + 1 /\ UNCHANGED <<inputs, outcome, past>>
      /\ outcome' = None /\ plan.style = "state_machine"
      /\ Failing(seed) # {}
      /\ shrinking' = [name |-> Checks[FirstOf(Failing(seed))], seed |-> seed,
                       full |-> full, best |-> full, len |-> Len(full)]
  BY DEF BackInv, TightInv, CampaignInv, FailSeed, Driving
<1>2. TightInv'
  BY TightFail DEF BackInv
<1>3. /\ shrinking'.name = Checks[FirstOf(Failing(seed))] /\ shrinking'.seed = seed
      /\ shrinking'.full = full /\ shrinking'.len = Len(full)
  BY <1>1
<1>4. FirstFailing(seed, ops, shrinking'.name)
  BY <1>1, <1>3, FailingIsFailingOn DEF FirstFailing
<1>5. ShrunkTo(seed, full, shrinking'.name, Len(full))
  <2>1. shrinking'.len \in 0 .. Len(shrinking'.full)
    BY <1>1, <1>2 DEF TightInv, Shrunk
  <2>2. Len(full) \in 0 .. Len(full)
    BY <1>3, <2>1
  <2>3. Len(full) .. (Len(full) - 1) = {}
    BY <2>2
  <2>4. QED
    BY <2>2, <2>3 DEF ShrunkTo
<1>6. /\ Checks' = Checks /\ UNCHANGED <<recorded, broken>> /\ plan' = plan
      /\ \A k : ResolveOps(k)' = ResolveOps(k)
  BY <1>1, InputsFixed DEF inputs
<1>7. Blaming'
  BY <1>1, <1>3, <1>4, <1>5, <1>6, InputsFixed, BlamedFixed DEF Blaming
<1>8. Returned' /\ Remembered'
  BY <1>1, PastFixed DEF BackInv, Returned, None
<1>9. ASSUME past # <<>>, SameRun
      PROVE  index = 0 /\ seed = env
  BY <1>1, <1>9, SameRunFails DEF BackInv, ComesBack
<1>10. ComesBack'
  <2>1. \A i \in {0} : i + 1 = 1
    OBVIOUS
  <2>2. past # <<>> /\ SameRun => index' = 1 /\ shrinking'.seed = env
    BY <1>1, <1>3, <1>9, <2>1
  <2>3. QED
    BY <1>1, <2>2, PastFixed DEF ComesBack
<1>11. QED
  BY <1>2, <1>7, <1>8, <1>10 DEF BackInv

LEMMA BackShrink == BackInv /\ Shrink => BackInv'
<1> SUFFICES ASSUME BackInv, Shrink
             PROVE  BackInv'
  OBVIOUS
<1> DEFINE s == shrinking
           ops == ResolveOps(s.seed)
           full == CollectOps(s.seed, ops)
           shorter == SubSeq(full, 1, s.len - 1)
<1>1. /\ pc = "shrink" /\ s.len > 0 /\ UNCHANGED <<inputs, index, outcome, past>> /\ outcome' = None
      /\ plan.style = "state_machine" /\ FirstFailing(s.seed, ops, s.name)
      /\ ShrunkTo(s.seed, full, s.name, s.len)
  BY DEF BackInv, TightInv, CampaignInv, Shrink, Blaming
<1>2. s.full = full
  BY <1>1 DEF BackInv, TightInv, Shrunk
<1>3. TightInv'
  BY TightShrink DEF BackInv
<1>4. s = [name |-> s.name, seed |-> s.seed, full |-> s.full, best |-> s.best, len |-> s.len]
  BY <1>1 DEF BackInv, TightInv, CampaignInv, WhileShrinking
<1>5. \/ /\ FailsNamed(s.seed, shorter, s.name) /\ pc' = "shrink"
         /\ shrinking' = [s EXCEPT !.best = shorter, !.len = s.len - 1]
      \/ ~FailsNamed(s.seed, shorter, s.name) /\ pc' = "blame" /\ shrinking' = s
  BY <1>1, <1>2 DEF Shrink, Candidate, StillFails
<1>6. shrinking'.seed = s.seed /\ shrinking'.name = s.name /\ pc' \in {"shrink", "blame"}
  BY <1>4, <1>5
<1>7. /\ Checks' = Checks /\ UNCHANGED <<recorded, broken>> /\ plan' = plan
      /\ \A k : ResolveOps(k)' = ResolveOps(k)
  BY <1>1, InputsFixed DEF inputs
<1>8. ShrunkTo(s.seed, full, s.name, shrinking'.len)
  <2>1. CASE pc' = "blame"
    BY <1>1, <1>5, <2>1
  <2>2. CASE pc' = "shrink"
    <3>1. shrinking'.len = s.len - 1 /\ FailsNamed(s.seed, SubSeq(full, 1, s.len - 1), s.name)
      BY <1>4, <1>5, <2>2
    <3>2. /\ s.len \in 1 .. Len(full)
          /\ \A m \in s.len .. (Len(full) - 1) : FailsNamed(s.seed, SubSeq(full, 1, m), s.name)
      BY <1>1 DEF ShrunkTo
    <3>3. s.len - 1 \in 0 .. Len(full)
      BY <3>2
    <3>4. \A m \in (s.len - 1) .. (Len(full) - 1) : m = s.len - 1 \/ m \in s.len .. (Len(full) - 1)
      BY <3>2
    <3>5. \A m \in (s.len - 1) .. (Len(full) - 1) : FailsNamed(s.seed, SubSeq(full, 1, m), s.name)
      BY <3>1, <3>2, <3>4
    <3>6. QED
      BY <3>1, <3>3, <3>5 DEF ShrunkTo
  <2>3. QED
    BY <1>6, <2>1, <2>2
<1>9. pc' = "blame" => ShrinkEnds(s.seed, full, s.name, shrinking'.len)
  BY <1>5 DEF ShrinkEnds
<1>10. Blaming'
  <2>1. PICK seed, name, run, len :
          seed = s.seed /\ name = s.name /\ run = ops /\ len = shrinking'.len
    OBVIOUS
  <2>2. /\ FirstFailing(seed, run, name) /\ ShrunkTo(seed, CollectOps(seed, run), name, len)
        /\ (pc' = "blame" => ShrinkEnds(seed, CollectOps(seed, run), name, len))
    BY <1>1, <1>8, <1>9, <2>1
  <2>3. /\ FirstFailing(seed, run, name)' /\ ShrunkTo(seed, CollectOps(seed, run), name, len)'
        /\ (pc' = "blame" => ShrinkEnds(seed, CollectOps(seed, run), name, len)')
    <3>1. PICK full1 : full1 = CollectOps(seed, run)
      OBVIOUS
    <3>2. CollectOps(seed, run)' = full1
      BY <1>7, <3>1, BlamedFixed
    <3>3. ShrunkTo(seed, full1, name, len)' /\ (pc' = "blame" => ShrinkEnds(seed, full1, name, len)')
      BY <1>7, <2>2, <3>1, BlamedFixed
    <3>4. QED
      BY <1>7, <2>2, <3>2, <3>3, BlamedFixed
  <2>4. /\ shrinking'.seed = seed /\ shrinking'.name = name /\ shrinking'.len = len
        /\ ResolveOps(seed)' = run /\ plan'.style = "state_machine"
    BY <1>1, <1>6, <1>7, <2>1
  <2>5. QED
    BY <1>6, <2>3, <2>4 DEF Blaming
<1>11. Returned' /\ Remembered'
  BY <1>1, PastFixed DEF BackInv, Returned, None
<1>12. ComesBack'
  BY <1>1, <1>6, PastFixed DEF BackInv, ComesBack
<1>13. QED
  BY <1>3, <1>10, <1>11, <1>12 DEF BackInv

LEMMA BackBlame == BackInv /\ Blame => BackInv'
<1> SUFFICES ASSUME BackInv, Blame
             PROVE  BackInv'
  OBVIOUS
<1> DEFINE s == shrinking
           ops == ResolveOps(s.seed)
           full == CollectOps(s.seed, ops)
<1>1. /\ pc \in {"shrink", "blame"} /\ pc' = "done" /\ (pc = "shrink" => s.len = 0)
      /\ UNCHANGED <<inputs, index, past>>
      /\ outcome' = [type |-> "violation", name |-> s.name, seed |-> s.seed, scenario |-> s.best]
  BY DEF Blame
<1>2. /\ plan.style = "state_machine" /\ backend.snapshots /\ FirstFailing(s.seed, ops, s.name)
      /\ ShrunkTo(s.seed, full, s.name, s.len)
      /\ pc = "blame" => ShrinkEnds(s.seed, full, s.name, s.len)
  BY <1>1 DEF BackInv, Blaming, TightInv, CampaignInv, WhileShrinking
<1>3. s.full = full /\ s.best = SubSeq(full, 1, s.len)
  BY <1>1 DEF BackInv, TightInv, Shrunk
<1>4. TightInv'
  BY TightBlame DEF BackInv
<1>5. s.len \in Nat /\ ShrinkEnds(s.seed, full, s.name, s.len)
  <2>1. s.len \in Nat
    BY <1>2 DEF ShrunkTo
  <2>2. QED
    BY <1>1, <1>2, <2>1 DEF ShrinkEnds
<1>6. /\ outcome'.type = "violation" /\ outcome'.name = s.name /\ outcome'.seed = s.seed
      /\ outcome'.scenario = SubSeq(full, 1, s.len)
      /\ outcome' = [type |-> "violation", name |-> outcome'.name, seed |-> outcome'.seed,
                     scenario |-> outcome'.scenario]
  BY <1>1, <1>3
<1>7. /\ Checks' = Checks /\ UNCHANGED <<recorded, broken>> /\ plan' = plan /\ backend' = backend
      /\ \A k : ResolveOps(k)' = ResolveOps(k)
  BY <1>1, InputsFixed DEF inputs
<1>8. PICK o, run : o = outcome' /\ run = ops
  OBVIOUS
<1>9. Blamed(o, ops)
  <2>1. ShrunkTo(o.seed, full, o.name, s.len) /\ ShrinkEnds(o.seed, full, o.name, s.len)
    BY <1>2, <1>5, <1>6, <1>8
  <2>2. QED
    BY <1>2, <1>5, <1>6, <1>8, <2>1 DEF Blamed
<1>10. Returned'
  <2>1. Blamed(o, run)'
    BY <1>7, <1>8, <1>9, BlamedFixed
  <2>2. ResolveOps(o.seed)' = run
    BY <1>6, <1>7, <1>8
  <2>3. o.type = "violation" /\ backend'.snapshots /\ plan'.style = "state_machine"
    BY <1>2, <1>6, <1>7, <1>8
  <2>4. QED
    BY <1>8, <2>1, <2>2, <2>3 DEF Returned
<1>11. Blaming' /\ Remembered'
  BY <1>1, PastFixed DEF BackInv, Blaming
<1>12. ComesBack'
  BY <1>1, <1>6, PastFixed DEF BackInv, ComesBack
<1>13. QED
  BY <1>4, <1>10, <1>11, <1>12 DEF BackInv

(* The checks, the style of the nodes and the backend stay the same; what  *)
(* is remembered is what has just been returned.                           *)
LEMMA BackAgain == BackInv /\ Again => BackInv'
<1> SUFFICES ASSUME BackInv, Again
             PROVE  BackInv'
  OBVIOUS
<1>1. /\ outcome.type = "violation" /\ env' = outcome.seed /\ pc' = "start" /\ outcome' = None
      /\ past' = <<[outcome |-> outcome, ops |-> ResolveOps(outcome.seed)]>>
      /\ backend' = backend /\ UNCHANGED <<recorded, broken>>
  BY DEF Again
<1>2. TightInv'
  BY TightAgain DEF BackInv
<1>3. plan'.style = plan.style /\ plan'.properties = plan.properties
  <2>1. PICK replays : plan \in PlanRecord(replays)
    BY DEF BackInv, TightInv, CampaignInv, Shapes
  <2>2. QED
    BY <2>1 DEF Again, PlanRecord
<1>4. Checks' = Checks
  BY <1>1, <1>3 DEF Checks, Names
<1>5. PICK o, ops : o = outcome /\ ops = ResolveOps(outcome.seed)
  OBVIOUS
<1>6. past' = <<[outcome |-> o, ops |-> ops]>> /\ past'[1].outcome = o /\ past'[1].ops = ops
  BY <1>1, <1>5
<1>7. backend.snapshots /\ plan.style = "state_machine" /\ Blamed(o, ops)
  BY <1>1, <1>5 DEF BackInv, Returned
<1>8. o.seed \in Nat
  BY <1>1, <1>5 DEF BackInv, TightInv, OpsKnown
<1>9. AtHome(ops) => FailsNamed(o.seed, o.scenario, o.name)
  BY <1>1, <1>5 DEF BackInv, TightInv, ScenariosAreTight
<1>10. Remembered'
  <2>1. Blamed(o, ops)' /\ (AtHome(ops)' => FailsNamed(o.seed, o.scenario, o.name)')
    BY <1>1, <1>4, <1>7, <1>9, BlamedFixed
  <2>2. env' = o.seed /\ env' \in Nat /\ backend'.snapshots /\ plan'.style = "state_machine"
    BY <1>1, <1>3, <1>5, <1>7, <1>8
  <2>3. QED
    BY <1>6, <2>1, <2>2 DEF Remembered
<1>11. Blaming' /\ Returned' /\ ComesBack'
  BY <1>1 DEF Blaming, Returned, ComesBack, None
<1>12. QED
  BY <1>2, <1>10, <1>11 DEF BackInv

LEMMA BackStutter == BackInv /\ UNCHANGED vars => BackInv'
<1> SUFFICES ASSUME BackInv, UNCHANGED vars
             PROVE  BackInv'
  OBVIOUS
<1>1. UNCHANGED <<inputs, pc, index, shrinking, outcome, past>>
  BY DEF vars
<1>2. TightInv'
  BY TightNext DEF BackInv
<1>3. /\ Checks' = Checks /\ UNCHANGED <<recorded, broken>> /\ plan' = plan /\ backend' = backend /\ env' = env
      /\ \A seed : ResolveOps(seed)' = ResolveOps(seed)
  BY <1>1, InputsFixed DEF inputs
<1>4. Blaming'
  BY <1>1, <1>3, BlamedFixed DEF BackInv, Blaming
<1>5. Returned'
  BY <1>1, <1>3, BlamedFixed DEF BackInv, Returned
<1>6. Remembered' /\ ComesBack'
  BY <1>1, PastFixed DEF BackInv, ComesBack
<1>7. QED
  BY <1>2, <1>4, <1>5, <1>6 DEF BackInv

LEMMA BackNext == BackInv /\ [Next]_vars => BackInv'
BY BackNegotiate, BackPasses, BackFail, BackShrink, BackBlame, BackAgain, BackStutter
DEF Next, Finished

(* A failure comes back: the campaign that is run again at its seed fails  *)
(* there at once, by the same verdict and with the same scenario when the  *)
(* ops are the same, and by some check when it is the scenario that is     *)
(* replayed and every op goes to the node of its process                   *)
(* (effective_seed, drive, shrink_scenario, RunFailure's re-run line).     *)
THEOREM FailuresReturn == Spec => []FailuresComeBack
<1>1. BackInv => FailuresComeBack
  <2> SUFFICES ASSUME BackInv, pc = "done", past # <<>>, SameRun
               PROVE  /\ outcome.type = "violation" /\ outcome.seed = past[1].outcome.seed
                      /\ index = 1
                      /\ ResolveOps(env) = past[1].ops => outcome = past[1].outcome
    BY DEF FailuresComeBack, SameRun
  <2>1. /\ outcome.type = "violation" /\ outcome.seed = env /\ index = 1
        /\ env = past[1].outcome.seed /\ Blamed(past[1].outcome, past[1].ops)
    BY DEF BackInv, ComesBack, Remembered
  <2>2. ASSUME ResolveOps(env) = past[1].ops
        PROVE  outcome = past[1].outcome
    <3>1. PICK a, b, ops : a = outcome /\ b = past[1].outcome /\ ops = past[1].ops
      OBVIOUS
    <3>2. Blamed(a, ops) /\ Blamed(b, ops) /\ a.seed = b.seed
      BY <2>1, <2>2, <3>1 DEF BackInv, Returned
    <3>3. QED
      BY <3>1, <3>2, BlamedOnce
  <2>3. QED
    BY <2>1, <2>2
<1>2. QED
  BY <1>1, BackInit, BackNext, PTL DEF Spec
=============================================================================
