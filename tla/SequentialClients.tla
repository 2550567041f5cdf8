-------------------------- MODULE SequentialClients --------------------------
(***************************************************************************)
(* What the recorded history promises to whoever checks it: a concurrent   *)
(* history of sequential clients.  A process invokes an op only when its   *)
(* previous one is complete, and takes its ops in stream order, each once; *)
(* a completion is that of the open op of its process and carries the same *)
(* :f; time never goes back; and when the run is over every op invoked is  *)
(* complete.  LinearizabilityOracle::parse_spans                           *)
(* (propsim-oracle/src/linearizability.rs) pairs invocations and           *)
(* completions by process and counts on this.                              *)
(***************************************************************************)
EXTENDS Naturals, Sequences

CONSTANTS
  Process,  \* the clients
  Op        \* the ops, numbered in stream order from 1

VARIABLES
  log,   \* the history: a sequence of [time, kind, process, op]
  open,  \* the op each process has open, or NoOp
  over   \* the run is over

clientVars == <<log, open, over>>

NoOp == 0

Completion == {"ok", "fail", "info"}

Recorded(t, kind, p, i) == [time |-> t, kind |-> kind, process |-> p, op |-> i]

(* The time of the last entry after the step: no entry goes back in time.  *)
NewTime == log'[Len(log')].time
TimeAdvances == log' # <<>> /\ (log # <<>> => log[Len(log)].time <= NewTime)

Unused(p, i) == \A k \in DOMAIN log : log[k].process = p => log[k].op < i

Init ==
  /\ log = <<>>
  /\ open = [p \in Process |-> NoOp]
  /\ over = FALSE

Invoke(p, i) ==
  /\ ~over /\ open[p] = NoOp /\ Unused(p, i)
  /\ TimeAdvances
  /\ log' = Append(log, Recorded(NewTime, "invoke", p, i))
  /\ open' = [open EXCEPT ![p] = i]
  /\ UNCHANGED over

Complete(p, kind) ==
  /\ ~over /\ open[p] # NoOp
  /\ TimeAdvances
  /\ log' = Append(log, Recorded(NewTime, kind, p, open[p]))
  /\ open' = [open EXCEPT ![p] = NoOp]
  /\ UNCHANGED over

(* A malformed op is invoked and fails at once, at the same time.          *)
Reject(p, i) ==
  /\ ~over /\ open[p] = NoOp /\ Unused(p, i)
  /\ TimeAdvances
  /\ log' = log \o <<Recorded(NewTime, "invoke", p, i), Recorded(NewTime, "fail", p, i)>>
  /\ UNCHANGED <<open, over>>

End ==
  /\ ~over /\ \A p \in Process : open[p] = NoOp
  /\ over' = TRUE
  /\ UNCHANGED <<log, open>>

Next ==
  \/ \E p \in Process, i \in Op : Invoke(p, i) \/ Reject(p, i)
  \/ \E p \in Process, kind \in Completion : Complete(p, kind)
  \/ End

Spec == Init /\ [][Next]_clientVars
=============================================================================
