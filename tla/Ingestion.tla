------------------------------ MODULE Ingestion ------------------------------
(***************************************************************************)
(* A history travels before it is checked: it is rendered as text, by this *)
(* program (to_jepsen_edn, to_jepsen_json) or by another one, read back by *)
(* from_jepsen, perhaps several times, and what came out of the last file  *)
(* is checked by module Linearizability.  The encodings themselves are     *)
(* constants here; module Encodings defines them.                          *)
(***************************************************************************)
EXTENDS Linearizability

CONSTANTS
  Writer(_, _),  \* format, history -> text
  Reader(_),     \* text -> {} or {history}
  RoutesOf(_)    \* the journeys of a history: sequences of formats

VARIABLES
  route,     \* the formats still to travel through
  text,      \* the file: a text, if there is one
  stage,     \* where the history is: "memory", "file", or "refused"
  came,      \* the format it came in, "none" at first
  recorded   \* history variable: what was recorded

travelVars == <<route, text, stage, came, recorded>>
journey == <<vars, travelVars>>

IngestionInit ==
  /\ Init
  /\ route \in RoutesOf(entries)
  /\ text = <<>> /\ stage = "memory" /\ came = "none"
  /\ recorded = entries

-----------------------------------------------------------------------------
Export ==
  /\ stage = "memory" /\ route # <<>>
  /\ text' = Writer(Head(route), entries)
  /\ stage' = "file"
  /\ UNCHANGED <<vars, route, came, recorded>>

Import ==
  /\ stage = "file"
  /\ LET read == Reader(text)
     IN \/ read = {} /\ stage' = "refused" /\ UNCHANGED entries
        \/ stage' = "memory" /\ entries' \in read
  /\ came' = Head(route) /\ route' = Tail(route)
  /\ text' = <<>>
  /\ UNCHANGED <<pos, open, spans, stack, visited, verdict, recorded>>

(* The reader returned an error: there is nothing to check.                *)
Abandon == stage = "refused" /\ UNCHANGED <<vars, travelVars>>

Check ==
  /\ stage = "memory" /\ route = <<>>
  /\ Next
  /\ UNCHANGED travelVars

IngestionNext == Export \/ Import \/ Abandon \/ Check

IngestionSpec == IngestionInit /\ [][IngestionNext]_journey

-----------------------------------------------------------------------------
(* The history that came out of the files has the verdict of the one that  *)
(* was recorded: no op is lost, none is made of an entry that the model    *)
(* does not decode, and none changes its kind, process, function or value  *)
(* so that it matters (from_jepsen, then check).                           *)
VerdictSurvivesTravel ==
  verdict # "none" /\ came # "none"
    => (verdict = "valid" <=> Explainable(OperationsOf(recorded)))

(* The histories h and g differ in values at most.                         *)
SameShape(h, g) ==
  /\ g = [i \in DOMAIN h |-> g[i]]
  /\ \A i \in DOMAIN h : /\ g[i].kind = h[i].kind /\ g[i].process = h[i].process
                         /\ g[i].f = h[i].f
=============================================================================
