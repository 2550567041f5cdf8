--------------------------- MODULE Linearizability ---------------------------
(***************************************************************************)
(* The linearizability checker (propsim-oracle/src/linearizability.rs):    *)
(* the loop of parse_spans that pairs invocations with completions, then   *)
(* the depth-first search of recurse with its visited set, for any         *)
(* sequential model.  The call stack of the recursion is the variable      *)
(* `stack', and one step is one iteration of a loop.                       *)
(***************************************************************************)
EXTENDS Naturals, FiniteSets, SequencesExt

CONSTANTS
  Histories,      \* the recorded histories considered
  RealTime,       \* linearizable (TRUE) or sequentially_consistent (FALSE)
  InitState,      \* SequentialModel::init
  Apply(_, _),    \* SequentialModel::step: state, op -> [state, response]
  Decode(_, _, _) \* SequentialModel::decode: f, values -> {} or {[op, response]}

ASSUME RealTimeAssumption == RealTime \in BOOLEAN

(* The clients are sequential: a process completes its op before it invokes *)
(* the next one.  (Module SequentialClients: what the driver records is.)  *)
Sequential(h) ==
  /\ h \in Seq(Range(h))
  /\ \A i, j \in DOMAIN h :
       /\ i < j /\ h[i].kind = "invoke" /\ h[j].kind = "invoke"
       /\ h[i].process = h[j].process
       => \E k \in (i + 1) .. (j - 1) : h[k].process = h[i].process /\ h[k].kind # "invoke"

ASSUME HistoriesAssumption == \A h \in Histories : Sequential(h)

(* decode returns an Option.                                               *)
DecodesOnce(h) ==
  \A i, j \in DOMAIN h : \A d, e \in Decode(h[j].f, h[i].value, h[j].value) : d = e

ASSUME DecodeAssumption == \A h \in Histories : DecodesOnce(h)

VARIABLES
  entries,  \* the history that is checked: [kind, process, f, value]
  pos,      \* position of the next entry to parse
  open,     \* the open invocations: a sequence of positions
  spans,    \* the operations: a sequence of [op, response, start, finish]
  stack,    \* activations of recurse: a sequence of [done, state, next]
  visited,  \* the search nodes expanded: [done, state]
  verdict   \* the outcome

vars == <<entries, pos, open, spans, stack, visited, verdict>>

Init ==
  /\ entries \in Histories
  /\ pos = 1
  /\ open = <<>> /\ spans = <<>>
  /\ stack = <<>> /\ visited = {}
  /\ verdict = "none"

-----------------------------------------------------------------------------
(* parse_spans                                                             *)

Parsing == verdict = "none" /\ stack = <<>> /\ pos <= Len(entries)

(* The places in `open' of invocations by process p.                       *)
OpenOf(p) == {k \in DOMAIN open : entries[open[k]].process = p}

(* The most recent one of them (rposition).                                *)
LatestOf(p) == CHOOSE k \in OpenOf(p) : \A j \in OpenOf(p) : j <= k

ParseInvoke ==
  /\ Parsing /\ entries[pos].kind = "invoke"
  /\ open' = Append(open, pos)
  /\ pos' = pos + 1
  /\ UNCHANGED <<entries, spans, stack, visited, verdict>>

(* The span of the invocation at `start' completed at `finish' in the      *)
(* history h, if any: a Fail is no operation, and the model may not decode *)
(* the values.                                                             *)
Decoded(h, start, finish) ==
  {[op |-> d.op, response |-> d.response, start |-> start, finish |-> finish] :
     d \in Decode(h[finish].f, h[start].value, h[finish].value)}

SpanOf(start, finish) ==
  IF entries[finish].kind = "fail" THEN {} ELSE Decoded(entries, start, finish)

ParseCompletion ==
  /\ Parsing /\ entries[pos].kind # "invoke"
  /\ LET p == entries[pos].process
     IN IF OpenOf(p) = {}
        THEN UNCHANGED <<open, spans>>
        ELSE LET k == LatestOf(p)
                 found == SpanOf(open[k], pos)
             IN /\ open' = RemoveAt(open, k)
                /\ \/ found = {} /\ UNCHANGED spans
                   \/ \E s \in found : spans' = Append(spans, s)
  /\ pos' = pos + 1
  /\ UNCHANGED <<entries, stack, visited, verdict>>

-----------------------------------------------------------------------------
(* search and recurse                                                      *)

Span == DOMAIN spans

NodeWithoutState(done, state) == [done |-> done, state |-> InitState]  \* mutant

Node(done, state) == [done |-> done, state |-> state]

Frame(done, state) == [done |-> done, state |-> state, next |-> 1]

StartSearch ==
  /\ verdict = "none" /\ stack = <<>> /\ pos > Len(entries)
  /\ IF spans = <<>>
     THEN verdict' = "valid" /\ UNCHANGED <<stack, visited>>
     ELSE /\ stack' = <<Frame({}, InitState)>>
          /\ visited' = {Node({}, InitState)}
          /\ UNCHANGED verdict
  /\ UNCHANGED <<entries, pos, open, spans>>

top == Last(stack)

(* No remaining op finished before this one started.                       *)
CallableAmongAll(i, done) ==  \* mutant: min_finish of all the ops
  RealTime => \A j \in Span : spans[i].start <= spans[j].finish

Callable(i, done) ==
  RealTime => \A j \in Span \ done : spans[i].start <= spans[j].finish

Matches(i, state) == Apply(state, spans[i].op).response = spans[i].response

(* The body of the loop over the spans: skip one, or recurse into it.  The *)
(* call returns at once when nothing remains or its node was visited.      *)
Searching == verdict = "none" /\ stack # <<>>

AdvanceForgotten == stack  \* mutant: the index of the loop stays

Advance == [stack EXCEPT ![Len(stack)].next = @ + 1]

TrySpan ==
  /\ Searching /\ top.next \in Span
  /\ LET i == top.next
         done == top.done \cup {i}
         state == Apply(top.state, spans[i].op).state
     IN IF i \in top.done \/ ~Callable(i, top.done) \/ ~Matches(i, top.state)
        THEN stack' = Advance /\ UNCHANGED <<visited, verdict>>
        ELSE IF done = Span
        THEN verdict' = "valid" /\ UNCHANGED <<stack, visited>>
        ELSE IF Node(done, state) \in visited
        THEN stack' = Advance /\ UNCHANGED <<visited, verdict>>
        ELSE /\ stack' = Append(Advance, Frame(done, state))
             /\ visited' = visited \cup {Node(done, state)}
             /\ UNCHANGED verdict
  /\ UNCHANGED <<entries, pos, open, spans>>

(* The loop of the top activation is over: it returns false.               *)
Backtrack ==
  /\ Searching /\ top.next \notin Span
  /\ stack' = Front(stack)
  /\ verdict' = IF Len(stack) = 1 THEN "invalid" ELSE "none"
  /\ UNCHANGED <<entries, pos, open, spans, visited>>

Done == verdict # "none" /\ UNCHANGED vars

Next ==
  \/ ParseInvoke \/ ParseCompletion \/ StartSearch
  \/ TrySpan \/ Backtrack \/ Done

Spec == Init /\ [][Next]_vars

-----------------------------------------------------------------------------
(* The reference: an order of operations that is legal for the model and   *)
(* keeps the given precedence.                                             *)

(* Applying the ops in the order f from `state' gives their responses.     *)
Legal(f, ops, state) ==
  LET n == Len(f)
      s[k \in 0 .. n] == IF k = 0 THEN state ELSE Apply(s[k - 1], ops[f[k]].op).state
  IN \A k \in 1 .. n : Apply(s[k - 1], ops[f[k]].op).response = ops[f[k]].response

CanBeOrdered(ops, S, state, Precedes(_, _)) ==
  \E f \in Bijection(1 .. Cardinality(S), S) :
    /\ \A i, j \in DOMAIN f : i < j => ~Precedes(ops[f[j]], ops[f[i]])
    /\ Legal(f, ops, state)

FinishesFirst(a, b) == RealTime /\ a.finish < b.start

(* The pruning is sound: a node that was expanded and is not on the call   *)
(* stack any more cannot be completed to an order of all the operations.   *)
DeadEndsAreDead ==
  verdict = "none" =>
    \A v \in visited :
      \/ \E k \in DOMAIN stack : Node(stack[k].done, stack[k].state) = v
      \/ ~CanBeOrdered(spans, Span \ v.done, v.state, FinishesFirst)

(* The operations of a history, read off it directly: an invocation and    *)
(* the first completion by its process after it, unless that is a Fail.    *)
Completes(h, i, j) ==
  /\ i < j /\ h[i].kind = "invoke" /\ h[j].kind # "invoke"
  /\ h[i].process = h[j].process
  /\ \A k \in (i + 1) .. (j - 1) : h[k].process # h[i].process

OperationsOf(h) ==
  UNION {Decoded(h, p[1], p[2]) :
           p \in {q \in (DOMAIN h) \X (DOMAIN h) :
                    Completes(h, q[1], q[2]) /\ h[q[2]].kind # "fail"}}

Explainable(ops) ==
  LET n == Cardinality(ops)
  IN \E f \in Bijection(1 .. n, ops) :
       /\ \A i, j \in 1 .. n : i < j => ~FinishesFirst(f[j], f[i])
       /\ Legal([i \in 1 .. n |-> i], f, InitState)

(* The verdict is exact: valid if and only if the operations that did not  *)
(* fail have a legal order that keeps real time.                           *)
VerdictIsExact ==
  verdict # "none" => (verdict = "valid" <=> Explainable(OperationsOf(entries)))

(* What is left of a check: first the entries to parse and the search,     *)
(* then, for each depth of recursion, the spans its loop has still to see. *)
PhasesLeft ==
  (Len(entries) + 1 - pos)
    + (IF verdict # "none" THEN 0 ELSE IF stack = <<>> THEN 2 ELSE 1)

LoopLeft(d) == IF d \in DOMAIN stack THEN Len(spans) + 2 - stack[d].next ELSE 0

ToDo == [d \in 1 .. (Len(entries) + 1) |-> IF d = 1 THEN PhasesLeft ELSE LoopLeft(d - 1)]

Lower(f, g) == \E i \in DOMAIN g : f[i] < g[i] /\ \A j \in 1 .. (i - 1) : f[j] = g[j]

(* Every step of parse_spans, search and recurse brings the verdict        *)
(* nearer, and recurse is never deeper than the history is long: what it   *)
(* leaves is paid for by the loop of its caller.                           *)
VerdictComesNearer == [][entries' = entries => Lower(ToDo', ToDo)]_vars

-----------------------------------------------------------------------------
(* What comments of the code say and the code does not do.                 *)

(* linearizability.rs:110 "Info (indeterminate) ops are dropped in this    *)
(* Tier-2 pass": no span comes from an Info completion.                    *)
InfoOpsAreDropped == \A i \in Span : entries[spans[i].finish].kind # "info"

(* linearizability.rs:25 "A sequential-consistency oracle": a history it   *)
(* accepts has a legal order that keeps the order of each process.         *)
SameProcessFirst(a, b) ==
  entries[a.start].process = entries[b.start].process /\ a.start < b.start

AcceptsOnlySequentiallyConsistent ==
  verdict = "valid" => CanBeOrdered(spans, Span, InitState, SameProcessFirst)
=============================================================================
