-------------------------- MODULE MCLinearizability --------------------------
(***************************************************************************)
(* The instances TLC checks module Linearizability on: every history of    *)
(* sequential clients of a register, up to a number of entries.  The       *)
(* register is the model of propsim-oracle/tests/register_linearizable.rs. *)
(***************************************************************************)
EXTENDS Linearizability, HistoryFormat

CONSTANTS
  Process,     \* the clients
  Val,         \* the numbers written, 0 is the initial one
  Completion,  \* the kinds of completion
  MaxEntries   \* bound: length of a history

Read  == Word("read")
Write == Word("write")

RegisterInit == Integer(0)

RegisterApply(state, op) ==
  LET s == IF op.f = Write THEN op.value ELSE state
  IN [state |-> s, response |-> s]

(* A write is decoded from its invocation, a read from its completion, and *)
(* either only from an integer.                                            *)
RegisterDecode(f, invoked, completed) ==
  CASE f = Write /\ Is(invoked, "int") ->
         {[op |-> [f |-> Write, value |-> invoked], response |-> invoked]}
    [] f = Read /\ Is(completed, "int") ->
         {[op |-> [f |-> Read], response |-> completed]}
    [] OTHER -> {}

Entry(kind, p, f, v) == [kind |-> kind, process |-> p, f |-> f, value |-> v]

Invocations(p) ==
  {Entry("invoke", p, Read, Nil)} \cup {Entry("invoke", p, Write, Integer(n)) : n \in Val}

Completions(inv) ==
  {Entry(kind, inv.process, inv.f, v) :
     kind \in Completion \cap {"fail", "info"}, v \in {Nil}}
  \cup
  {Entry("ok", inv.process, inv.f, v) :
     v \in IF inv.f = Write THEN {inv.value} ELSE {Integer(n) : n \in Val \cup {0}}}

(* The last entry of process p, or the entry of a completed op.            *)
LastOf(h, p) ==
  LET own == SelectSeq(h, LAMBDA e : e.process = p)
  IN IF own = <<>> THEN Entry("ok", p, Read, Integer(0)) ELSE own[Len(own)]

Idle(h) == {p \in Process : LastOf(h, p).kind # "invoke"}

(* Processes are interchangeable: each starts after the ones before it.    *)
MayStart(h, p) == \A q \in 1 .. (p - 1) : \E k \in DOMAIN h : h[k].process = q

(* Every invocation still has room for its completion.                     *)
HasRoom(h) == Len(h) + Cardinality(Process \ Idle(h)) + 2 <= MaxEntries

Follows(h, e) ==
  LET last == LastOf(h, e.process)
  IN IF last.kind = "invoke" THEN e \in Completions(last)
     ELSE e.kind = "invoke" /\ MayStart(h, e.process) /\ HasRoom(h)

Entries ==
  LET invoked == UNION {Invocations(p) : p \in Process}
  IN invoked \cup UNION {Completions(e) : e \in invoked}

(* The histories of at most n entries.  One comprehension with an optional *)
(* entry: TLC sorts it, while it would search a union from end to end.     *)
Recordings[n \in 0 .. MaxEntries] ==
  IF n = 0 THEN {<<>>}
  ELSE {p[1] \o p[2] :
          p \in {q \in Recordings[n - 1] \X ({<<>>} \cup {<<e>> : e \in Entries}) :
                   q[2] = <<>> \/ Follows(q[1], q[2][1])}}

(* Every op is completed at the end, as force_close_pending ensures.       *)
HistoriesUpTo(n) == {h \in Recordings[n] : Idle(h) = Process}

RegisterHistories == HistoriesUpTo(MaxEntries)
=============================================================================
