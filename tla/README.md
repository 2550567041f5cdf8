# A TLA+ model of propsim

propsim is a property-based simulator for distributed systems.  A user writes a
node as a state machine (or, later, as spawned tasks), describes faults, client
operations and properties in a *plan*, and `run` executes it on a backend.  The
one backend that exists, the deterministic executor of `crates/propsim-sim`,
runs every node in one thread against a virtual clock and a seeded random
source, records the history of client operations, judges white-box properties
on snapshots of the node states and hands the history to oracles such as the
linearizability checker.

The program is a test tool, so a bug in it makes a wrong system look right or a
right one look wrong.  That is what the properties here are about: the
histories it records are well formed, virtual time is sound, its faults really
happen and heal, its verdicts mean what they say, and the failure it reports
comes back.

All paths below are under `src/crates/`.

## 1. Inventory

| Component | State | Operations | Where |
|---|---|---|---|
| Scheduler (`SchedCore`) | clock, event heap, sequence counter, timer generations, partitions, crashed nodes, last delivery per link, history, run events, pending ops | `schedule_delivery`, `set_timer`, `cancel_timer`, `open_op`, `close_op`, `apply_fault`, `pop`, `force_close_pending` | `propsim-sim/src/scheduler.rs` |
| Deterministic driver | op queues per process, count of ops scheduled, node slots | `run_deterministic`, `dispatch*`, `pump_client_ops`, `HarnessCtx` | `propsim-sim/src/lib.rs`, `ctx.rs` |
| Fault lowering | a random source of its own | the verbs of `Faults`, `lower`, `lower_swarm`, `run_horizon` | `propsim-sim/src/faults.rs`, `lib.rs`, `propsim-core/src/faults.rs` |
| White-box properties | the trace: frames, events, history | `snapshot`, `evaluate_one`, `anchor_time` | `propsim-sim/src/properties.rs`, `propsim-core/src/property_impl.rs`, `world.rs` |
| Campaign | verdicts, seeds run | `try_run`, `drive`, `drive_erased`, `effective_seed`, `shrink_scenario`, `collect_ops`, replay | `propsim/src/run.rs`, `propsim-sim/src/lib.rs`, `propsim-core/src/{plan,scenario,seed}.rs` |
| Negotiation | none | `validate` | `propsim-core/src/backend.rs`, `needs.rs`, `oracle.rs` |
| Linearizability checker | open invocations, spans, call stack, visited nodes | `parse_spans`, `search`, `recurse` | `propsim-oracle/src/linearizability.rs`, `model.rs` |
| History and encodings | entries | `to_jepsen_edn`, `to_jepsen_json`, `from_jepsen`, the writers and readers below them | `propsim-history/src` |
| Random source | one 64-bit word | SplitMix64, `range_u64`, `chance` | `propsim-sim/src/rng.rs` |
| Plan builder, determinism guard, presets, iroh | configuration | builder verbs, comparison of two runs | `propsim-core/src/plan.rs`, `propsim/src/{guard,backend_presets}.rs`, `propsim-iroh` |

How they interact: `run` negotiates, then `drive` calls `run_deterministic` once
per seed.  That lowers the faults to events on the scheduler's heap, runs
`on_start` of every node, and then repeats: pop an event, run one callback of
one node to its end (its `Ctx` mutates the scheduler directly), issue the next
client ops, take a frame.  There are no threads and no I/O: *concurrency is in
the order in which the heap yields events*, which depends on the random draws
and on what nodes do.  After the run the frames, events and history go to the
properties and the oracles, and a failure goes to the shrinker, which runs the
system again.

What is hard: events at the same instant; FIFO links with random delays and
duplicates; timers that are cancelled, set again or cut by a crash while firings
are queued; ops completed late, twice, by another node or after a crash; gated
issue, which compares counts kept in different places; a swarm whose partition,
crash, restart and heal are drawn independently; verdicts read off frames that
exist only where events were; a depth-first search pruned by a visited set; a
history that is judged after it went through files of two formats; and a failure
rebuilt from what the history happens to record.  The list, at its
lines, is under `hazards` in `PROJECT.json`.

What makes each component correct:

- *Scheduler and driver*: no event in the past, FIFO links, timers that are alarm
  clocks, one op in flight per process, no process starved, a completion for
  every invocation, a run that ends.
- *Lowering*: every fault fires before the run ends, a liveness swarm heals and
  stays healed.
- *Properties*: the verdicts are those of the real course of the node states.
- *Campaign*: reports skip nothing and are true, failures come back, scenarios
  fail and cannot be shortened by one op.
- *Checker*: valid if and only if a legal order exists.
- *Encodings*: a history comes back as it was, or it is known what its format
  cannot carry, and its verdict survives.

## 2. Modules

```
SchedCore ──EXTENDS── Simulator ──EXTENDS── ObservedRun ── MCObservedRun
    │                    │ │ INSTANCE
    │                    │ ├─ LossyNetwork        (abstract: what the wire promises)
    │                    │ ├─ SequentialClients   (abstract: what a history promises)
    │                    │ └─ TimerService        (abstract: what timers promise)
    │                    ├─ MCSimulator
    │                    └─ SimulatorProofs ── NetworkProofs ── TimerProofs
    │                                               └─ HistoryProofs ── ObservedProofs
    └──EXTENDS── Lowering ── MCLowering, LoweringProofs
Linearizability ── MCLinearizability ──┐
  └── Ingestion ── LinearizabilityProofs │
           └────── Encodings ────────────┴─ MCIngestion
HistoryFormat ────────┘
Campaign ── MCCampaign, CampaignProofs
```

**SchedCore** is the struct of that name: its fields are the variables and its
methods are operators that say how they change.  The heap is a set of events
ordered by `<<at, seq>>`.  A random draw is a choice over the values it can
return, so a behaviour stands for every seed that draws them.  One tick is one
millisecond.

**Simulator** is the driver.  `pc` is the place in the loop: `callback` (a node
runs), `closing` (a crash closes ops), `pump`, `pop`, `drain`, `done`.  What a
node does is not known, so a callback is any sequence of at most `MaxEffects`
effects of its `Ctx` and a return: every protocol a user can write, up to that
bound, is a behaviour.  Details worth knowing:

- any node may complete any token that was issued, because `OpToken` is public
  and can be sent in a message; unknown and closed tokens are ignored, as
  `close_op` does;
- `broadcast` is a sequence of sends to the peers and has no action of its own;
- partitions and crashes are looked at when a message is sent, and the crash of
  the receiver again when it is popped;
- a client op is dispatched to its target whether or not that is crashed: the
  slot of a node is empty only while its own callback runs;
- a crash closes the ops of the *process* that has the node's number, in token
  order, one step each; the steps are the driver's, nothing comes between them;
- a stale firing and a delivery to a crashed node advance the clock inside
  `pop`, and neither a callback nor a pump nor a frame follows;
- the event that reaches the horizon is taken off the heap and lost.

**Lowering** lowers a plan's faults, kind by kind, and then lets them fire.  The
coin that decides whether a swarm includes a kind (`Omit`) is tossed here as
each kind is reached; the code tosses all the coins first, which makes no
difference to which subsets and draws are possible.  The plans are built with the
verbs of `Faults`: a verb of the one regime used on the other is dropped.

**ObservedRun** adds to Simulator what a property sees.  A predicate reads the
states of the nodes, so `holds` may change when a callback returns and only
then.  `frames` is what the code keeps.  `course` is a history variable the code
does not have: the real course of the predicate in virtual time.  A predicate can
also read the history, but every World of a trace is given the one history of the
whole run, so that this changes nothing from frame to frame.  And it can read
`World::now()`: such a predicate also changes while no node runs, between two
frames, and what the properties and theorems say of verdicts does not cover it
(section 5).  An anchor is the start, the first heal, the first rejoin, or a
`Custom` marker, which names no event and so stands for time zero.

**Campaign** is the program around a run.  A run is a function of the seed and
of its op stream.  It need not invoke all its ops, and it invokes them in an order of its own: one
process waits for its own ops only.  `recorded` says for each seed and stream
which ops are invoked and in which order, and `broken` is any set of (seed, what
was invoked, check) that fail.  `Recording` says what every such function obeys,
because of the driver: a process invokes its ops in the order of the stream, the
first op of each process comes before all others, in process order; the way the stream
interleaves processes makes no difference; and a run that is given only what another one
invoked first invokes the same.  `collect_ops` takes the ops from there, so what is shrunk
and replayed is in the order of the invocations, without the ops that were never
invoked and without routes.  What a run does with its ops depends on the process
and target of each, so ops are those in `recorded`.  A check is its place in the
list: a property and an oracle may share a name, and shrinking accepts a failure
of either.  The campaign can be followed by a second one, with
`PROPSIM_SEED` set to the reported seed, of the same plan, of the plan with the
scenario replayed, or of the plan for that one seed: that is how a user meets
`effective_seed`.  A plan samples as many ops as it has seeds (at least one, at
most 64), so a re-run with fewer seeds may be given fewer ops.

**Linearizability** is `parse_spans` and the recursive search with its call
stack as a variable, for any sequential model (`InitState`, `Apply`, `Decode`).

**HistoryFormat** is the text of a history: both writers, both readers and the
detection of the format.  A text is a sequence of symbols, where a number, a
word and a quoted string are one symbol each.  The readers return the set of
their results, empty if they refuse.

**Ingestion** lets a recorded history travel through files before it is checked:
written, read back, several times if the route says so, or refused.  The checker
of Linearizability then judges what arrived.  Writers and readers are constants
here, so that the module can be proved about for every encoding.

**Encodings** gives Ingestion its journeys: this program's EDN and JSON and the
shapes other programs write, as the tests and comments describe them (an EDN
store file without clocks, a vector, a commented file, JSON with plain names,
JSON lines); and it says what of a history each of them carries.

**LossyNetwork**, **SequentialClients** and **TimerService** are abstract
specifications: a wire on which a message gets one or two copies or none, which
arrive within the latencies of the model, in order where links are FIFO,
whatever partition begins meanwhile, unless the receiver is down just then; clients
that invoke and complete one op at a time; alarm clocks that ring at the time
last set, never when cancelled, and never on a crashed node.  They know
nothing of tokens, generations, heaps or gates.  A refinement cannot tell a
forgotten cancel from no cancel, so `AlarmsAreAsSet` says besides that what a
node asks for is what the alarms show.

## 3. Runs

| Run | Module | Shows | States, time (2 workers) |
|---|---|---|---|
| `Network` | MCSimulator | `TimeMovesForward`, `LinksAreFifo`, refinement of `LossyNetwork`, with loss, duplication, two delays, FIFO or not, a partition, a crash and a rejoin | 380 000, 19 s |
| `Ops` | MCSimulator | `TypeOK`, `OneInFlight`, `NobodyStarves`, `HistoryIsComplete`, refinement of `SequentialClients`, `EndComesNearer` | 654 000, 70 s |
| `Timers` | MCSimulator | refinement of `TimerService` and `AlarmsAreAsSet` with two timers, re-armed, cancelled, crashed, restarted at once or later | 477 000, 25 s |
| `Observed` | MCObservedRun | `DeadlinesAreExact`, `QuantifiersAreExact`, `RunTerminates` | 36 000, 5 s |
| `Lowering` | MCLowering | `EveryFaultFires`, `LivenessHeals`, `HealedForGood` | 78 000, 3 s |
| `Linearizable` | MCIngestion | `DeadEndsAreDead`, `VerdictIsExact`, `VerdictComesNearer` on every history up to the bound; `EncodingIsExact`, `JsonSettles`, `ShapeSurvivesTravel`, `VerdictSurvivesTravel` on histories that travel | 151 000, 40 s |
| `Campaigns` | MCCampaign | `ReportsSkipNothing`, `OutcomesAreTrue`, `FailuresComeBack`, `ScenariosAreTight` | 384 000, 36 s |

`EncodingIsExact` says *if and only if*: what EDN and JSON cannot carry is
written down in `Carries`, and a value outside of it must come back altered or be
refused.  EDN cannot carry a float that is not finite, a keyword with a blank in
its name, or an empty keyword; JSON besides turns a string that begins with a
colon into a keyword, and a key that is neither keyword nor string into a string.
`VerdictSurvivesTravel` needs less: the register of the tests decodes integers
alone, so a float or a string may come back as another one, but not as an integer.

Five more runs each end in a counterexample: a comment of the code says
something the code does not do.

| Run | The text | What happens |
|---|---|---|
| `CrashedDispatch` | `propsim-sim/src/lib.rs:374`, a crashed target has an empty slot | a client op is handed to a crashed node, which handles it |
| `ReplayFaults` | `propsim-core/src/scenario.rs:61`, the fault schedule to apply during replay | the replay's faults only lengthen the horizon |
| `InfoOps` | `propsim-oracle/src/linearizability.rs:110`, Info ops are dropped | an Info write that decodes must be linearized |
| `SequentialMode` | `propsim-oracle/src/linearizability.rs:25`, sequential consistency | no order is kept, not even that of one process |
| `RoutedReplay` | `propsim-sim/src/lib.rs:518`, the scenario reproduces the failure | the route of an op is not recorded, so it goes elsewhere |

### Bounds, and why they are enough

- *Nodes*: two where messages or routed ops matter (the smallest number with a
  link, a partition and a foreign target), one for timers and frames, three for
  cuts of a cluster.  Nothing in the scheduler treats a third node differently:
  links, timers and processes are independent entries of maps.
- *`MaxEffects`* bounds the effects of one callback: one for ops and frames, two
  for networks and timers, so that a callback can send twice on a link, or set a
  timer and cancel or re-arm it.
- *`MaxSeq`* bounds the events nodes schedule: a node sends and arms nothing
  from that sequence number on (the driver's own events are not bounded).  In
  `Observed` it is never reached, the horizon ends the run before.
- *`horizon`* is 4, 5 or 7 ticks in Simulator's instances: long enough for a
  crash, a restart and events after both.  Lowering has the real numbers.
- *`Sampled`* are the values at which the draws of the fault source are taken in
  `Lowering`: both ends of every range, what lies one off them, and some in
  between, so that a restart can come before, at and after a heal.
- *`MaxEntries`* is six entries with three processes: three operations, in every
  overlap, with every completion.  Processes are interchangeable and start in
  order.
- *`MaxTravel`* is four entries, two operations of two processes that overlap or
  not, whose values are replaced by any two of three look-alikes (the integer 1,
  the float 1.0 and the string `"1"`), so that a format that takes one of the
  others for an integer meets a history whose verdict hangs on it.  `Values` has every kind of value,
  alone, in a list, as key and as value of a map, and nested once more; such
  entries go through every one of `Formats`, and through any two of the `Usual`
  ones.  The readers and writers treat a deeper level as they treat the first.
- *Deadlines* in `Observed` lie before, at and beyond the horizon, and anchors at
  a heal or a rejoin that happens twice, once or never.
- *Campaigns* has two seeds, streams of two or three ops of two processes in which
  one process has two of them, two ways to record each (the second op of a process
  is invoked, or the first is open to the end), and up to `MaxBroken` = 3 failures:
  one for the campaign, one for a shorter prefix or another check, one for another
  seed or the replay.

`AllPlans`, `OpSetups` and the like name the combinations that are run; they are
the initial states of programs a user can write.

### Fairness

`Simulator` and `ObservedRun` assume `WF(Next)`: the one thread keeps running
and a callback returns.  Nothing in the code schedules anything else.
`RunTerminates` holds from this because every step lowers what is left of the run
(`EndComesNearer`): the time to the horizon, the events due in this instant, the
way to the next pop, and the ops and effects still to be dealt with, in this
order.  A timer or a link with a delay of zero would put a new event into the
instant that is being worked off; such setups are left out by name (`Undelayed`),
because there a run need not end: the horizon is a time.

## 4. Proofs

`tlapm` checks every theorem for all values of the constants, under the named
assumptions, each of them in the module that declares the constants:

- setups, plans, properties and bounds have the right types, there is at least
  one node, and the marker for no seed is not a seed;
- `HistoriesAssumption`: in a history that is checked, a process completes its op
  before it invokes the next one.  `HistoriesSequential` proves that of every
  history the driver records.  Of a foreign file nothing enforces it: it is what
  Jepsen promises of a process;
- `StreamsAssumption`: what runs record obeys `Recording` (section 2), which is how
  `run_deterministic` pumps ops, and the streams considered are closed under what
  shrinking and replaying make of them;
- `DecodeAssumption`: `decode` returns an `Option`, at most one operation.

Nothing is assumed about how many nodes, messages, timers, ops, faults, entries
or seeds there are, about what nodes do, or about the delays of links.

**SimulatorProofs**

- `TypeCorrect`: `Spec => []TypeOK`.  It needs a lemma per operation of the
  scheduler, and the facts that a queued op names an op of the stream and that
  the first op of a process exists (`todo` is a non-empty set of numbers, whose
  least element is found by the well-order of `Nat`).
- `TimeCorrect`: `Spec => []TimeMovesForward`.  Inductive with the types: an
  event is scheduled at `now` plus something, or at the time of a later one on
  its link, and popping the least event moves the clock to it.
- `FifoCorrect`: `Spec => []LinksAreFifo`.  Not inductive alone.  The
  strengthening says that no queued message of a link lies after the link's
  last delivery time (`BelowFloor`); a new one is put at or after that, with a
  higher sequence number.  `model` never changes in a run.
- `GatingCorrect`: `Spec => []OneInFlight`.  The invariant relates queue, pending
  set, history and counter of each process: nothing in flight, its op queued, or
  its op open, where the ops scheduled are as many as the closed ones, or one
  more.  It is inductive with the types.  The work is in the counting: the
  terminal entries of a process are a finite set, and closing an op adds exactly
  one to `ClosedFor` of its process and nothing to the others.

**HistoryProofs**

- `PumpServesAll`: `Spec => []NobodyStarves`.  Only the pump brings the driver to
  its pop, and by `OneInFlight` a process it passes over has an op in flight; a
  skipped event is no op.
- `EveryInvokeCompleted`: `Spec => []HistoryIsComplete`.  It speaks of the end of
  a run only; the strengthening says at all times that the invocations of a
  process are its completions plus its open op, and that a run stops with
  nothing open.
- `ClientsRefined`: `Spec => ImplementsSequentialClients`.  What a client has open
  is read off the pending set.  The invariant, `ClientInv`, adds to one op in
  flight that the history lies before the clock (`PastIsRecorded`) and that an op
  moves through its process in stream order: what is recorded comes before what is
  queued or open, and all of that before what is left (`RecordedFirst`, `QueuedNext`,
  `OpenNext`).  An op that is popped is then one its client never used, and a
  completion that comes late or twice is a stutter.
- `HistoriesSequential`: `Spec => []IsSequential(history)`.  The invariant adds
  that a process with an unanswered invocation has an op open, so that the gate,
  which wants none in flight, issues nothing before the completion.

**LoweringProofs**

- `HorizonCoversFaults`: `Spec => EveryFaultFires`, an action property.  The
  invariant behind it, `WithinHorizon`, says that every queued event and every scripted event still to be lowered lies
  before the horizon, which is at least fifteen seconds because `Times` is a
  finite set with `5000` in it: crashes are before one second, restarts before
  three, heals before four.
- `LivenessModeHeals`: `Spec => []LivenessHeals`, and `HealedStaysHealed`:
  `Spec => []HealedForGood`, both from `HealInv`.  What an end of the run shows must
  be known before: injuries are queued below 1000 and heals at 2000 or later
  (`InjuriesFirst`); every queued crash has a later restart of its node, and a
  node that is down has one to come (`CrashesEnd`, which holds however many crashes
  of one node overlap); a partition, queued or there, has a heal to come, or
  `split` will schedule it (`PartitionsEnd`); there is one heal and after it only
  restarts are left (`OneHeal`).  `WithinHorizon` then empties the queue.

**NetworkProofs**

- `NetworkRefined`: `Spec => ImplementsLossyNetwork`.  The wire is the set of queued
  deliveries, a copy is due when its event is.  The steps use the types, that time
  moves forward, the FIFO invariant, that the clock stops at the horizon, and
  `FloorsInReach`: on a FIFO link the floor, to which a message may be held back,
  is itself within the latencies of the model from now, so a message is never
  held back longer than the model allows.

**TimerProofs**

- `TimersRefined`: `Spec => ImplementsTimerService`.  The alarm of a timer is its
  live firing.  `TimerInv` says that no queued firing is of a generation to come
  (`GensKnown`) and that there is one firing of each (`OneFiring`), so a set or a
  cancel leaves every older firing dead, and a live one that is popped was the
  last.  That no alarm rings late is the order of the heap.
- `AlarmsTrue`: `Spec => AlarmsAreAsSet`, from the same invariant.
- `EndNears`: `Spec => EndComesNearer`, what the end of a run rests on, without any
  fairness.  `RunFinite` says that the queue and the pending ops are finite sets, so
  that the events of one instant can be counted: popping one takes it away, and
  what nodes schedule lies later.  One step has to be paid for by another: a pop
  runs a callback, which may do a number of things, and a crash closes ops one by
  one, each of which is one pending op less.
- `LeftIsCounted` says that what is left is four natural numbers in every state,
  and `LowerEnds` that four numbers cannot be lowered for ever (the lexicographic
  order of the library is well founded).  With `EndNears` a run takes finitely many
  steps, however its nodes re-arm their timers.

**CampaignProofs**

- `ReportsComplete`, `OutcomesTrue`: `Spec => []ReportsSkipNothing` and
  `Spec => []OutcomesAreTrue`.  The invariant says that while the loop drives, the
  seeds done are clean and the verdicts are of all checks, and that what is shrunk
  is a failure of the last one.
- `ScenariosTight`: `Spec => []ScenariosAreTight`.  `Shrunk` is the loop invariant of
  `shrink_scenario`: the best prefix fails, and when the search ends the next
  shorter one does not.
- `FailuresReturn`: `Spec => []FailuresComeBack`.  What a campaign blames is a
  function of the seed and the ops of its run: the first check that fails, and
  the shortest prefix of what was invoked that the search gets to before one passes (`BlamedOnce`).  So
  `BackInv` says that a violation, and a campaign under way, are as that function
  has it (`Blaming`, `Returned`, `Remembered`); and that a second campaign with
  `PROPSIM_SEED` set, which has the same ops or replays the scenario, fails at its
  first seed (`ComesBack`).  A replay fails because the scenario does, which takes
  the condition that every op went to the node of its process (`AtHome`): a
  scenario keeps no routes.  That what a run invoked, given to a run as its ops,
  is invoked again and fails again is where the laws of `Recording` come in.

**ObservedProofs**

- `DeadlinesExact`, `QuantifiersExact`: `ObservedSpec => []DeadlinesAreExact` and
  `ObservedSpec => []QuantifiersAreExact`.  `Filmed` ties the frames to the course:
  every stretch of the course is shown by the last frame before it, with no frame
  strictly inside (`CourseIsShown`); every frame is an instant of the course
  (`FramesAreTrue`); between two events the predicate is as the last frame shows it
  (`LastFrame`); and an anchor is always the time of a frame (`Anchors`), which is
  why a window that begins at an event misses nothing that began before and lasts.
  Both are about predicates of the nodes.

**LinearizabilityProofs**

- `PruningIsSound`: `Spec => []DeadEndsAreDead`.  The invariant of the search,
  `SearchInv`, is in terms of `Dead` nodes, those from which the remaining
  operations have no legal order.  What a frame has tried and turned down is dead,
  except for the call under way (`Tried`); what was expanded is dead or on the stack
  (`DeadEnds`); if the root is dead so is everything on the stack (`Reaches`).  A
  node is dead iff every operation that fits leads to a dead one (`DeadIfAllTried`,
  `DeadLeadsToDead`), which joins the definition by orders to the loop of
  `recurse`: an order that exists has a first operation, and that one fits.
- `VerdictExact`: `Spec => []VerdictIsExact`.  `Decided` says what a verdict means in
  terms of the spans, `ParseInv` that the spans parsed so far are the operations of
  the entries read so far and `open` the invocations still waiting.  Spans are a
  sequence and `OperationsOf` a set: an order of the one is an order of the other
  because spans are distinct.

- `VerdictNears`: `Spec => VerdictComesNearer`.  A step of the search gives something
  up in the loop of the top activation, and only then calls, which adds a loop below
  it; a return empties that loop.  The order in which the loops are compared goes
  from the outermost inwards.  `LoopInv` bounds them: an activation at depth k has
  done k - 1 operations (`Cardinality`), and not all, so there are no more of them
  than operations (`RecursionIsBounded`), and no more operations than entries.
  `ToDoIsCounted` and `LoweringEnds` complete the argument as above: a check
  takes finitely many steps, whatever states the model goes through.
- `ImportsAreJudged`: `IngestionSpec => [](Checkable(entries) => VerdictIsExact)`.
  The checker is as exact on a history that came out of files, if that is one of
  sequential clients; of a file nothing enforces it.  `TravelInv` says that
  nothing is parsed before the last journey is over.
- `VerdictTravels`: `IngestionSpec => [](SameShape(recorded, entries) /\
  ToldApart(Known) => VerdictSurvivesTravel)`.  A history whose kinds, processes and
  functions came back has the same verdict, for every encoding, if the journey
  replaced the values that the model decodes by such values and others by others,
  and kept the former apart.  This is data independence, and it is a property of
  the model, so the theorem has two hypotheses on it: `decode` returns an `Option`
  whatever it is given, and for every such replacement of values there is a
  relation of states that `decode` and `step` keep (`DataIndependent(Known)`).
  The class `Known` is part of both sides because models do look at more than
  equality: a register that decodes `Value::Int` alone tells an integer from a
  float, and a journey that made the one of the other would change its verdict.
- `RegisterVerdictTravels` is the instance for the register of the tests
  (`IsRegister`, with the integers as `Known`): it meets both hypotheses
  (`RegisterComparesOnly`).  The model of the key-value example does not: it
  decodes the parts of a list.
  The proof turns an order of the one set of operations
  into an order of the other: operations correspond by where they start and
  finish (`SameOperations`), and the runs of the model along the two orders go
  through related states (`RunsAlike`).  That shape and integers do survive is about
  the encodings: TLC checks it as `ShapeSurvivesTravel`.

All of them hold for any sequential model but for the hypotheses named.  Where an
argument is by induction, as on the length of an order, it takes the least element
of a set of counterexamples.

Each proof follows `Next`: one step per action, under it one per conjunct the
action can disturb.

Model-checked only:

- `EncodingIsExact`, `JsonSettles`, `ShapeSurvivesTravel`: texts and values are
  nested, their writers and readers are recursive operators, and `tlapm` cannot
  reason in a module that reaches one, nor by induction over such data.  The
  runs check `VerdictSurvivesTravel` without the conditions of `VerdictTravels`;
- `RunTerminates`: liveness under fairness.  Its safety core is proved
  (`EndNears`); what is left to TLC is that a step can be taken as long as the run
  is not over.  That a check does not stop without a verdict is likewise left to
  TLC's search for deadlocks.

## 5. What is not modelled

- SplitMix64, the parsing of seeds, the coin's probability: a draw is a choice.
  So the determinism guard, which compares two executions, has no counterpart.
- Files: `Scenario::save` and `load`, and reading a history from disk.
- Inside a text: the escapes of quoted strings, which write and read back in the
  same way, the suffixes and exponents of numbers, and the sign and the case of
  the words `inf`, `infinity` and `nan`, which the EDN reader takes for floats
  (`propsim-history/src/edn.rs:334`) and no writer emits.
- Predicates that read `World::now()` (`propsim-core/src/world.rs:46`, passed to
  them at `propsim-sim/src/properties.rs:37`, 54 and 74).  One such as "from 100 ms
  on nobody is stale" changes between two events, where there is no frame, so it
  is judged at the times of the frames alone; `DeadlinesAreExact`,
  `QuantifiersAreExact` and the theorems about them say nothing of it.
- A replay with a fault script of its own where the plan has no faults: it lengthens
  the horizon of a run, but not of the runs of `still_fails`.  In Campaign a replay
  has the faults of its plan, as the scenario of a violation has, and its runs have
  one horizon.
- The builder verbs of `Plan`: they fill in the records that the models start
  from.  Those of `Faults`, where order and regime matter, are modelled.
- The Elle and Jepsen presets, which are stubs, and the iroh crate, which has the
  shape of an interface and no behaviour; `Campaign` has the refusal of
  `spawn_each` nodes.
- Node numbers out of range in a script, where the code panics.
- Node durability: `on_start` runs again on the state the node had, and the
  models do not look into nodes.
- Timers and links without any delay, which keep one instant going for ever, are
  in no instance: the runs have positive ones.

Divergences met while reading that have no run of their own:

- an op routed to a node that crashes stays open until another completion or the
  end of the run (`scheduler.rs:318` speaks of "the ops it was servicing");
- a swarm in safety mode never restarts a crashed node (`propsim-core/src/faults.rs:32`);
- the horizon does not see deadlines (`scheduler.rs:131`);
- shrinking stops at the first shorter prefix that passes, although one that is
  shorter still may fail (`lib.rs:539` says "the shortest that still fails");
- the erased path returns a report whatever its verdicts are (`plan.rs:263`);
- the mode of a script is ignored, and cuts are never asymmetric
  (`propsim-core/src/faults.rs:31`);
- the World of every frame shows the history of the whole run, completions
  recorded when it ends included, so an `always` over the history cannot catch an op
  in flight: `propsim-core/src/world.rs:14` says "the operation history so far",
  line 60 of that file "shared by every frame's `World`", and the code does the latter
  (`lib.rs:173`);
- a float that is not finite is written as `nil`, in JSON too, where the reader
  refuses it (`propsim-history/src/edn.rs:133` speaks of valid output);
- a string that begins with a colon comes back from JSON as a keyword
  (`propsim-history/src/edn.rs:57`).

## 6. Plan

Done, in this order: SchedCore and Simulator; the abstract specifications of
clients and timers; the first invariants and their proofs, then those of the
history; Lowering and its first proof; Linearizability; ObservedRun; Campaign; the
encodings and Ingestion; LossyNetwork and the proof of its refinement; the
proofs about Campaign; the proof that liveness mode heals; the proofs of the
refinements of SequentialClients and TimerService; the proofs that the checker is
exact, that failures come back and that the verdicts on frames are those of the
course; what the ends of a run and of a check rest on, as safety; that a verdict
survives the journey of its history, for every encoding.

Next: *the replicated key-value example*
(`propsim-sim/tests/replicated_kv_linearizable.rs`) as a node of Simulator, its
histories judged by the definition of linearizability.
