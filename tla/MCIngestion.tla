----------------------------- MODULE MCIngestion -----------------------------
(***************************************************************************)
(* The instance of module Ingestion TLC checks: every register history of  *)
(* MCLinearizability is checked where it was recorded, those of up to      *)
(* MaxTravel entries also after a journey, and entries with every kind of  *)
(* value travel through every format and through any two usual ones.       *)
(***************************************************************************)
EXTENDS Encodings, MCLinearizability

CONSTANTS
  Formats,    \* the formats of the journeys
  Usual,      \* those that register histories travel in
  MaxTravel   \* bound: length of a register history that travels

(* What an entry that travels has besides: an index, a time and its clock. *)
Recorded(h) ==
  [i \in DOMAIN h |-> h[i] @@ [index |-> i - 1, time |-> 10 * i, clock |-> "virtual"]]

Colon(w) == <<Sym(":"), Sym(w)>>

Scalars ==
  {Nil, Bool(TRUE), Integer(2), Str(Word("x")), Str(<<>>), Str(<<Num(2)>>),
   Str(Colon("x")), Str(Word(":")), Str(<<Sym("{"), Quoted(<<>>)>>),
   Keyword(Word("x")), Keyword(Colon("x")), Keyword(<<Sym("x"), Sym(" "), Num(2)>>)}
  \cup {Float(Halves(h)) : h \in {2, 3}} \cup {Float(NotFinite)}

Keys == {Integer(2), Nil, Str(Word("x")), Str(Colon("x")), Keyword(Word("x")),
         Float(NotFinite), List(<<Keyword(Word("x"))>>)}

(* A value, a collection of two, and one nested in another.                *)
Values ==
  LET pairs == {Map(<< <<k, Nil>> >>) : k \in Keys}
               \cup {Map(<< <<Keyword(Word("x")), v>> >>) : v \in Scalars}
      lists == {List(<<v, Integer(2)>>) : v \in Scalars}
  IN Scalars \cup pairs \cup lists \cup {List(<<>>), Map(<<>>)}
     \cup {List(<<v>>) : v \in pairs} \cup {Map(<< <<v, Nil>>, <<Integer(2), v>> >>) : v \in lists}

Samples ==
  {Recorded(<<Entry("invoke", 1, Write, v)>>) : v \in Values}
  \cup {Recorded(<<Entry("ok", 1, f, Nil)>>) : f \in {<<>>, Colon("x"), <<Sym("x"), Sym(" ")>>}}

(* The value the register decodes and two it must not be confused with.    *)
Lookalikes == {Integer(1), Float(Halves(2)), Str(<<Num(1)>>)}

(* A register history with other values in the place of the written one,  *)
(* one for each process.                                                   *)
Renamed(h, f) ==
  [i \in DOMAIN h |-> IF h[i].value = Integer(1)
                      THEN [h[i] EXCEPT !.value = f[h[i].process]] ELSE h[i]]

Travellers ==
  UNION {{Recorded(Renamed(h, f)) : f \in [1 .. 2 -> Lookalikes]} :
           h \in {x \in HistoriesUpTo(MaxTravel) : \A i \in DOMAIN x : x[i].process <= 2}}

MCHistories == RegisterHistories \cup Travellers \cup Samples

MCRoutesOf(h) ==
  IF h \in Samples THEN {<<format>> : format \in Formats} \cup [1 .. 2 -> Usual]
  ELSE IF h \in Travellers THEN {<<format>> : format \in Usual}
  ELSE {<<>>}
=============================================================================
