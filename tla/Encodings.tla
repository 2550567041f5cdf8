------------------------------ MODULE Encodings ------------------------------
(***************************************************************************)
(* The journeys of module Ingestion in the encodings of module             *)
(* HistoryFormat and of other writers of histories, and what of a history  *)
(* each of them carries.                                                   *)
(***************************************************************************)
EXTENDS Ingestion, HistoryFormat

(* Other writers of histories, as the tests and comments describe them.    *)

Pairs(e) == EntryToValue(e).map

(* A Jepsen store/ history: an EDN map per line without a clock, and here  *)
(* without the value if it is nil.                                         *)
StoreEdn(h) ==
  LET kept(e) == SelectSeq(Pairs(e), LAMBDA p : p[1] # Keyword(Word("clock")) /\ p[2] # Nil)
  IN FlattenSeq([i \in DOMAIN h |-> Append(WriteEdn(Map(kept(h[i]))), Sym("\n"))])

VectorEdn(h) == WriteEdn(List([i \in DOMAIN h |-> EntryToValue(h[i])]))

CommentedEdn(h) == <<Sym(";"), Sym("history"), Sym("\n")>> \o ToJepsenEdn(h)

(* JSON without the colons of this program.                                *)
PlainMap(e) ==
  LET name(v) == IF Is(v, "keyword") THEN Str(v.keyword) ELSE v
  IN Map([k \in DOMAIN Pairs(e) |->
            <<name(Pairs(e)[k][1]),
              IF k = Len(Pairs(e)) THEN e.value ELSE name(Pairs(e)[k][2])>>])

PlainJson(h) == WriteJson(List([i \in DOMAIN h |-> PlainMap(h[i])]))

JsonLines(h) == FlattenSeq([i \in DOMAIN h |-> Append(WriteJson(PlainMap(h[i])), Sym("\n"))])

Written(format, h) ==
  CASE format = "edn"         -> ToJepsenEdn(h)
    [] format = "json"        -> ToJepsenJson(h)
    [] format = "store"       -> StoreEdn(h)
    [] format = "vector"      -> VectorEdn(h)
    [] format = "commented"   -> CommentedEdn(h)
    [] format = "plain json"  -> PlainJson(h)
    [] format = "json lines"  -> JsonLines(h)

-----------------------------------------------------------------------------
(* What an encoding can carry.                                             *)

IsName(k) == k # <<>> /\ \A i \in DOMAIN k : ~IsDelim(k[i])

BeginsWithColon(s) == At(s, 1) = Sym(":")

RECURSIVE EdnCarries(_)
EdnCarries(v) ==
  CASE Is(v, "float")   -> v.float # NotFinite
    [] Is(v, "keyword") -> IsName(v.keyword)
    [] Is(v, "list")    -> \A i \in DOMAIN v.list : EdnCarries(v.list[i])
    [] Is(v, "map")     -> \A i \in DOMAIN v.map :
                             EdnCarries(v.map[i][1]) /\ EdnCarries(v.map[i][2])
    [] OTHER            -> TRUE

JsonCarriesKey(k) == Is(k, "keyword") \/ (Is(k, "str") /\ ~BeginsWithColon(k.str))

RECURSIVE JsonCarries(_)
JsonCarries(v) ==
  CASE Is(v, "float") -> v.float # NotFinite
    [] Is(v, "str")   -> ~BeginsWithColon(v.str)
    [] Is(v, "list")  -> \A i \in DOMAIN v.list : JsonCarries(v.list[i])
    [] Is(v, "map")   -> \A i \in DOMAIN v.map :
                           JsonCarriesKey(v.map[i][1]) /\ JsonCarries(v.map[i][2])
    [] OTHER          -> TRUE

Carries(format, e) ==
  CASE format = "json"       -> JsonCarries(e.value)
    [] format = "plain json" -> JsonCarries(e.value) /\ ~BeginsWithColon(e.f)
    [] OTHER                 -> EdnCarries(e.value) /\ IsName(e.f)

(* What is to be read back: an unknown clock is the wall's.                *)
Carried(format, h) ==
  IF format = "store" THEN [i \in DOMAIN h |-> [h[i] EXCEPT !.clock = "wall"]] ELSE h

Unreadable(format, h) == format = "commented" \/ (format = "json lines" /\ h # <<>>)

(* A history comes back as it was written, entry for entry and value for   *)
(* value, exactly if its format can carry it; otherwise it is refused or   *)
(* altered.                                                                *)
EncodingIsExact ==
  [][Import =>
       (stage' = "memory" /\ entries' = Carried(came', entries)
          <=> /\ ~Unreadable(came', entries)
              /\ \A i \in DOMAIN entries : Carries(came', entries[i]))]_journey

(* What JSON alters it alters once: keywords for strings that begin with a *)
(* colon, strings for keys of other kinds.  A second journey through the   *)
(* same encoding brings back the same history.                             *)
JsonSettles ==
  [][Import /\ came = "json" /\ came' = "json"
       => stage' = "memory" /\ entries' = entries]_journey

(* The integers of the one history are those of the other.                 *)
SameIntegers(h, g) ==
  \A i \in DOMAIN h :
    Is(h[i].value, "int") \/ Is(g[i].value, "int") => g[i].value = h[i].value

(* Whatever a readable encoding does to other values, the kinds, processes,*)
(* functions and integers of the entries come back, and no integer comes   *)
(* of anything else, as long as a function is a name: what the verdict of  *)
(* a register on a history that travelled rests on.                        *)
ShapeSurvivesTravel ==
  [][Import /\ stage' = "memory" /\ ~Unreadable(came', entries)
       /\ (\A i \in DOMAIN entries : IsName(entries[i].f) /\ ~BeginsWithColon(entries[i].f))
       => SameShape(entries, entries') /\ SameIntegers(entries, entries')]_journey
=============================================================================
