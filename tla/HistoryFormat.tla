---------------------------- MODULE HistoryFormat ----------------------------
(***************************************************************************)
(* The text of a history (propsim-history/src/edn.rs and history.rs): how  *)
(* a history is written as EDN or JSON and how it is read back.            *)
(*                                                                         *)
(* A text is a sequence of symbols, and so are the characters of a string. *)
(* A symbol is a delimiter or a word, an integer, a decimal, or a quoted   *)
(* string with its contents: the escapes of write_quoted and parse_string  *)
(* are inverse to each other and left out, as are number suffixes (1.0M).  *)
(* A reader returns the set of its results, empty if it refuses the text.  *)
(***************************************************************************)
EXTENDS Integers, SequencesExt

Sym(c)     == [sym |-> c]
Num(i)     == [num |-> i]
Decimal(h) == [decimal |-> h]   \* with a decimal point
Quoted(s)  == [quoted |-> s]
End        == [end |-> TRUE]    \* where a text ends

Word(w) == <<Sym(w)>>

Is(x, sort) == sort \in DOMAIN x

(* The values: a float is finite, a number of halves, or it is not.        *)
Nil        == [nil |-> TRUE]
Bool(b)    == [bool |-> b]
Integer(i) == [int |-> i]
Float(x)   == [float |-> x]
Str(s)     == [str |-> s]
Keyword(k) == [keyword |-> k]
List(vs)   == [list |-> vs]
Map(ps)    == [map |-> ps]      \* a sequence of <<key, value>>

Halves(h) == [halves |-> h]
NotFinite == [finite |-> FALSE]

-----------------------------------------------------------------------------
(* Writing                                                                 *)

Joined(texts, separator) ==
  FlattenSeq([i \in DOMAIN texts |-> IF i = 1 THEN texts[i] ELSE separator \o texts[i]])

Enclosed(open, text, close) == Word(open) \o text \o Word(close)

FmtFloatShortest(x) ==  \* mutant: no decimal point for a whole number
  IF x = NotFinite THEN Sym("nil")
  ELSE IF x.halves % 2 = 0 THEN Num(x.halves \div 2) ELSE Decimal(x.halves)

FmtFloat(x) == IF x = NotFinite THEN Sym("nil") ELSE Decimal(x.halves)

(* What both writers do with a scalar.                                     *)
WriteScalar(v, null) ==
  CASE Is(v, "nil")   -> Word(null)
    [] Is(v, "bool")  -> Word(IF v.bool THEN "true" ELSE "false")
    [] Is(v, "int")   -> <<Num(v.int)>>
    [] Is(v, "float") -> <<FmtFloat(v.float)>>
    [] Is(v, "str")   -> <<Quoted(v.str)>>

RECURSIVE WriteEdn(_)
WriteEdn(v) ==
  CASE Is(v, "keyword") -> Word(":") \o v.keyword
    [] Is(v, "list") ->
         Enclosed("[", Joined([i \in DOMAIN v.list |-> WriteEdn(v.list[i])], Word(" ")), "]")
    [] Is(v, "map") ->
         LET pair(p) == WriteEdn(p[1]) \o Word(" ") \o WriteEdn(p[2])
         IN Enclosed("{", Joined([i \in DOMAIN v.map |-> pair(v.map[i])],
                                 Word(",") \o Word(" ")), "}")
    [] OTHER -> WriteScalar(v, "nil")

ColonName(k) == <<Quoted(Word(":") \o k)>>

WriteJsonKeyQuotedAgain(k) ==  \* mutant: no case for strings
  IF Is(k, "keyword") THEN ColonName(k.keyword) ELSE <<Quoted(WriteEdn(k))>>

WriteJsonKey(k) ==
  CASE Is(k, "str")     -> <<Quoted(k.str)>>
    [] Is(k, "keyword") -> ColonName(k.keyword)
    [] Is(k, "int")     -> <<Quoted(<<Num(k.int)>>)>>
    [] OTHER            -> <<Quoted(WriteEdn(k))>>

RECURSIVE WriteJson(_)
WriteJson(v) ==
  CASE Is(v, "keyword") -> ColonName(v.keyword)
    [] Is(v, "list") ->
         Enclosed("[", Joined([i \in DOMAIN v.list |-> WriteJson(v.list[i])], Word(",")), "]")
    [] Is(v, "map") ->
         LET pair(p) == WriteJsonKey(p[1]) \o Word(":") \o WriteJson(p[2])
         IN Enclosed("{", Joined([i \in DOMAIN v.map |-> pair(v.map[i])], Word(",")), "}")
    [] OTHER -> WriteScalar(v, "null")

-----------------------------------------------------------------------------
(* Reading EDN, from position i of the text s                              *)

At(s, i) == IF i <= Len(s) THEN s[i] ELSE End

Space  == {Sym(" "), Sym("\n")}
Blank  == Space \cup {Sym(",")}
Delims == Blank \cup {Sym(c) : c \in {"{", "}", "[", "]", "(", ")", ";"}}

IsDelim(c) == c \in Delims \/ Is(c, "quoted")

(* The first position from i on that is not one of `skipped'.              *)
RECURSIVE Past(_, _, _)
Past(s, i, skipped) == IF At(s, i) \in skipped THEN Past(s, i + 1, skipped) ELSE i

(* The end of the token that begins at or before i.                        *)
RECURSIVE TokenEnd(_, _)
TokenEnd(s, i) == IF i > Len(s) \/ IsDelim(At(s, i)) THEN i ELSE TokenEnd(s, i + 1)

(* Blanks and comments, each up to the end of its line.                    *)
RECURSIVE SkipEdn(_, _)
SkipEdn(s, i) ==
  LET k == Past(s, i, Blank)
      eol == SelectInSubSeq(s, k, Len(s), LAMBDA c : c = Sym("\n"))
  IN IF At(s, k) # Sym(";") THEN k
     ELSE IF eol = 0 THEN Len(s) + 1 ELSE SkipEdn(s, eol + 1)

EdnAtom(token) ==
  CASE token = Word("nil")   -> {Nil}
    [] token = Word("true")  -> {Bool(TRUE)}
    [] token = Word("false") -> {Bool(FALSE)}
    [] token \in {Word(w) : w \in {"inf", "infinity", "nan"}}
         -> {Float(NotFinite)}   \* as f64 parses them
    [] Len(token) = 1 /\ Is(token[1], "num")     -> {Integer(token[1].num)}
    [] Len(token) = 1 /\ Is(token[1], "decimal") -> {Float(Halves(token[1].decimal))}
    [] OTHER -> {}

EdnKeyword(token) == IF token = Word(":") THEN {} ELSE {Keyword(Tail(token))}

(* A result: the value read and the position after it.                     *)
RECURSIVE EdnValue(_, _), EdnMap(_, _, _), EdnSeq(_, _, _, _)
EdnValue(s, from) ==
  LET i == SkipEdn(s, from)
      c == At(s, i)
      after == TokenEnd(s, i)
      token == SubSeq(s, i, after - 1)
  IN CASE c = End          -> {}
       [] c = Sym("{")     -> EdnMap(s, i + 1, <<>>)
       [] c = Sym("[")     -> EdnSeq(s, i + 1, Sym("]"), <<>>)
       [] c = Sym("(")     -> EdnSeq(s, i + 1, Sym(")"), <<>>)
       [] Is(c, "quoted")  -> {<<Str(c.quoted), i + 1>>}
       [] c = Sym(":")     -> EdnKeyword(token) \X {after}
       [] OTHER            -> EdnAtom(token) \X {after}

EdnMap(s, from, pairs) ==
  LET i == SkipEdn(s, from)
  IN IF At(s, i) = Sym("}") THEN {<<Map(pairs), i + 1>>}
     ELSE UNION {UNION {EdnMap(s, v[2], Append(pairs, <<k[1], v[1]>>)) :
                          v \in EdnValue(s, k[2])} : k \in EdnValue(s, i)}

EdnSeq(s, from, close, items) ==
  LET i == SkipEdn(s, from)
  IN IF At(s, i) = close THEN {<<List(items), i + 1>>}
     ELSE UNION {EdnSeq(s, v[2], close, Append(items, v[1])) : v \in EdnValue(s, i)}

ParseEdn(s) == {r[1] : r \in {x \in EdnValue(s, 1) : SkipEdn(s, x[2]) > Len(s)}}

-----------------------------------------------------------------------------
(* Reading JSON                                                            *)

SkipJson(s, i) == Past(s, i, Space)

StrToValue(s) == IF At(s, 1) = Sym(":") THEN Keyword(Tail(s)) ELSE Str(s)

RECURSIVE JsonValue(_, _), JsonObject(_, _, _), JsonArray(_, _, _)
JsonValue(s, from) ==
  LET i == SkipJson(s, from)
      c == At(s, i)
  IN CASE c = Sym("{")      -> JsonObject(s, i + 1, <<>>)
       [] c = Sym("[")      -> JsonArray(s, i + 1, <<>>)
       [] Is(c, "quoted")   -> {<<StrToValue(c.quoted), i + 1>>}
       [] c = Sym("true")   -> {<<Bool(TRUE), i + 1>>}
       [] c = Sym("false")  -> {<<Bool(FALSE), i + 1>>}
       [] c = Sym("null")   -> {<<Nil, i + 1>>}
       [] Is(c, "num")      -> {<<Integer(c.num), i + 1>>}
       [] Is(c, "decimal")  -> {<<Float(Halves(c.decimal)), i + 1>>}
       [] OTHER             -> {}

JsonObject(s, from, pairs) ==
  LET i == SkipJson(s, from)
      c == At(s, i)
      colon == SkipJson(s, i + 1)
  IN CASE c = Sym("}") -> {<<Map(pairs), i + 1>>}
       [] c = Sym(",") -> JsonObject(s, i + 1, pairs)
       [] Is(c, "quoted") /\ At(s, colon) = Sym(":") ->
            UNION {JsonObject(s, v[2], Append(pairs, <<StrToValue(c.quoted), v[1]>>)) :
                     v \in JsonValue(s, colon + 1)}
       [] OTHER -> {}

JsonArray(s, from, items) ==
  LET i == SkipJson(s, from)
  IN CASE At(s, i) = Sym("]") -> {<<List(items), i + 1>>}
       [] At(s, i) = Sym(",") -> JsonArray(s, i + 1, items)
       [] OTHER ->
            UNION {JsonArray(s, v[2], Append(items, v[1])) : v \in JsonValue(s, i)}

ParseJson(s) == {r[1] : r \in {x \in JsonValue(s, 1) : SkipJson(s, x[2]) > Len(s)}}

-----------------------------------------------------------------------------
(* Entries and histories.  An entry is                                     *)
(* [index, time, clock, kind, process, f, value], its f a name.            *)

Kinds == {"invoke", "ok", "fail", "info"}

EntryToValue(e) ==
  Map(<< <<Keyword(Word("index")),   Integer(e.index)>>,
         <<Keyword(Word("time")),    Integer(e.time)>>,
         <<Keyword(Word("clock")),   Keyword(Word(e.clock))>>,
         <<Keyword(Word("type")),    Keyword(Word(e.kind))>>,
         <<Keyword(Word("process")), Integer(e.process)>>,
         <<Keyword(Word("f")),       Keyword(e.f)>>,
         <<Keyword(Word("value")),   e.value>> >>)

(* The value of the first pair with that key, a keyword or a string.       *)
Get(pairs, key, absent) ==
  LET k == SelectInSeq(pairs, LAMBDA p : p[1] \in {Keyword(Word(key)), Str(Word(key))})
  IN IF k = 0 THEN absent ELSE pairs[k][2]

RequireInt(v) ==
  CASE Is(v, "int") -> {v.int}
    [] Is(v, "str") -> IF Len(v.str) = 1 /\ Is(v.str[1], "num") THEN {v.str[1].num} ELSE {}
    [] OTHER        -> {}

NameIn(v) ==
  CASE Is(v, "keyword") -> {v.keyword}
    [] Is(v, "str")     -> {v.str}
    [] OTHER            -> {}

KindsNamedInfoLost(name) ==  \* mutant: an indeterminate op is read as failed
  {IF k = "info" THEN "fail" ELSE k : k \in {x \in Kinds : Word(x) = name}}

KindsNamed(name) == {k \in Kinds : Word(k) = name}

ValueToEntry(v) ==
  LET get(key) == Get(v.map, key, End)
      clock == Get(v.map, "clock", Keyword(Word("wall")))
  IN IF ~Is(v, "map") THEN {}
     ELSE {[index |-> i, time |-> t, clock |-> c, kind |-> k, process |-> p, f |-> f,
            value |-> Get(v.map, "value", Nil)] :
             i \in RequireInt(get("index")), t \in RequireInt(get("time")),
             c \in {x \in {"virtual", "wall"} : Word(x) \in NameIn(clock)},
             k \in UNION {KindsNamed(n) : n \in NameIn(get("type"))},
             p \in RequireInt(get("process")), f \in NameIn(get("f"))}

ToJepsenEdn(h) ==
  FlattenSeq([i \in DOMAIN h |-> Append(WriteEdn(EntryToValue(h[i])), Sym("\n"))])

ToJepsenJson(h) == WriteJson(List([i \in DOMAIN h |-> EntryToValue(h[i])]))

(* Some `{' there is, and a quote follows the first one.                   *)
LooksLikeJson(s) ==
  LET k == SelectInSeq(s, LAMBDA c : c = Sym("{"))
  IN k # 0 /\ Is(At(s, Past(s, k + 1, Space)), "quoted")

Lines(s) ==
  LET ends == SetToSortSeq({i \in DOMAIN s : s[i] = Sym("\n")} \cup {Len(s) + 1}, <)
  IN [k \in DOMAIN ends |-> SubSeq(s, IF k = 1 THEN 1 ELSE ends[k - 1] + 1, ends[k] - 1)]

(* One result of each reader in the sequence, or none if one refuses.      *)
Collected(results) ==
  IF \E i \in DOMAIN results : results[i] = {} THEN {}
  ELSE {[i \in DOMAIN results |-> CHOOSE r \in results[i] : TRUE]}

EntriesOf(values) ==
  UNION {Collected([i \in DOMAIN vs |-> ValueToEntry(vs[i])]) : vs \in values}

FromJepsen(s) ==
  LET trimmed == SubSeq(s, Past(s, 1, Space), Len(s))
      document == IF LooksLikeJson(trimmed) THEN ParseJson(trimmed) ELSE ParseEdn(trimmed)
      lines == SelectSeq(Lines(s), LAMBDA line : Past(line, 1, Space) <= Len(line))
  IN IF At(trimmed, 1) \in {Sym("["), Sym("(")}
     THEN EntriesOf({v.list : v \in document})
     ELSE EntriesOf(Collected([i \in DOMAIN lines |-> ParseEdn(lines[i])]))
=============================================================================
